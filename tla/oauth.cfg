SPECIFICATION OFairSpec
CONSTANTS
    Workers = {w1, w2}
    MaxRequests = 4
    MaxCodes = 4
    MaxTokens = 5
    MaxMishaps = 3
INVARIANTS
    OTypeOK
    OneCodePerRequest
    OneTokenPerCode
    RotationIsAtomic
    ForksOnlyInOverlap
PROPERTIES
    Connects
CHECK_DEADLOCK FALSE
