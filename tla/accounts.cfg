SPECIFICATION AcFairSpec
CONSTANTS
    Calls = {k1, k2, k3}
    MaxMishaps = 3
INVARIANTS
    AcTypeOK
    OneAccount
PROPERTIES
    GetsIn
CHECK_DEADLOCK FALSE
