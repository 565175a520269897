CONSTANTS
    a = a
    b = b
    c = c
    m = m
    Service <- Services3
    Missing <- Missing1
    Configs <- AllStacks
    MayPreexist = TRUE
    ApiMayFail = TRUE
CHECK_DEADLOCK FALSE
SPECIFICATION FairSpec
INVARIANTS
    QuiescentReturn
    ErrorIsReported
    NilMeansCreated
    LinksComplete
    NeverStuck
PROPERTIES
    CreateReturns
