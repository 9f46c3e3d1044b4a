SPECIFICATION ApiSpec
CONSTANTS
    NodeID = {n1, n2}
    NilClock = NilClock
    MaxInt64 = 2
    SetValues <- MCSetValues
INVARIANTS
    CompareIsMirrored
    CompareIsPointwise
    MergeIsLeastUpperBound
