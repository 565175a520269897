SPECIFICATION FairSpec
CONSTANTS
    MaxFrames = 3
    MaxLen = 2
CHECK_DEADLOCK FALSE
INVARIANTS
    NothingLost
    OneCloseAndAllPongs
PROPERTIES
    ImplementsMessageStream
    EndIsNoticed
