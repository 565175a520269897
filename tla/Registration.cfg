CONSTANTS
    Proc = {p1, p2}
    MaxExits = 2
CHECK_DEADLOCK FALSE
SPECIFICATION FairSpec
INVARIANTS
    OldGoneBeforeNew
    OneUnlessOverlapped
    RefusedNeedsOverlap
PROPERTIES
    EndsRegistered
