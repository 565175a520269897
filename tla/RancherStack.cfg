CONSTANTS
    NWorkers = 2
    Name <- Names
    lower <- Lower
    norm <- Norm
    StackNames <- Stacks
    kind <- Types
    CaseSensitive = TRUE
    MaxRuns = 2
    MaxRemovals = 1
CHECK_DEADLOCK FALSE
SPECIFICATION Spec
INVARIANTS
    OwnStack
    NoTwins
    NilMeansComplete
    PanicNeedsRemoval
