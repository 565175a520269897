CONSTANTS
    c1 = c1
    c2 = c2
    c3 = c3
    k1 = k1
    k2 = k2
    Client <- MCClient
    Key <- MCKey
SPECIFICATION FairSpec
INVARIANTS
    MutualExclusion
    NoCallIsLost
PROPERTIES
    CallsReturn
    ImplementsLockTable
