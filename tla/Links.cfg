CONSTANTS
    a = a
    b = b
    c = c
    m = m
    Service <- Services3
    Missing <- Missing1
    Configs <- LinkGraphs
    MayPreexist = FALSE
    ApiMayFail = FALSE
SYMMETRY ServiceSymmetry
SPECIFICATION Spec
INVARIANTS
    DepsFirst
    IgnoredOnCycle
    OnlyHardCyclesStrand
    NoCircularWait
PROPERTIES
    StepsAdvance
