CONSTANTS
    w1 = w1
    w2 = w2
    m1 = m1
    m2 = m2
    m3 = m3
    m4 = m4
    m5 = m5
    r1 = r1
    r2 = r2
    r3 = r3
    NoMessage = NoMessage
    Worker <- Workers2
    Resource <- MixedResources
    Message <- Mixed
    ResourceOf <- MixedResource
    KindOf <- MixedKind
    ComposeOf <- MixedCompose
    PublishOutcomes <- Acked
    ApiMayFail = TRUE
    MaxExits = 0
CHECK_DEADLOCK FALSE
SPECIFICATION FairSpec
PROPERTIES
    WorkersReturn
    HandledIsAnswered
    IdleResourceIsHandled
