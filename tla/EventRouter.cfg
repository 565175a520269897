CONSTANTS
    w1 = w1
    w2 = w2
    m1 = m1
    m2 = m2
    m3 = m3
    m4 = m4
    m5 = m5
    r1 = r1
    r2 = r2
    r3 = r3
    NoMessage = NoMessage
    Worker <- Workers2
    Resource <- RedeliveryResources
    Message <- Redelivery
    ResourceOf <- RedeliveryResource
    KindOf <- RedeliveryKind
    ComposeOf <- RedeliveryCompose
    PublishOutcomes <- AllOutcomes
    ApiMayFail = TRUE
    MaxExits = 1
CHECK_DEADLOCK FALSE
SYMMETRY WorkerSymmetry
SPECIFICATION Spec
INVARIANTS
    MutualExclusion
    PoolIntact
PROPERTIES
    VerdictIsFinal
    VerdictBeforeUnlock
    DroppedForCause
    ImplementsStackCreation
