CONSTANTS
    MaxFrames = 1
    MaxLen = 2
CHECK_DEADLOCK FALSE
SPECIFICATION FairSpec
INVARIANTS
    MessagesAreWhole
