CONSTANTS
    a = a
    b = b
    c = c
    m = m
    Service <- Services3
    Missing <- Missing1
    Configs <- HardStacks
    MayPreexist = FALSE
    ApiMayFail = FALSE
CHECK_DEADLOCK FALSE
SPECIFICATION FairSpec
PROPERTIES
    CycleIsReported
