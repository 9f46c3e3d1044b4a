SPECIFICATION ApiSpec
CONSTANTS
    ReplicaID = {r1, r2}
    NilVV = NilVV
    MaxUint64 = 3
INVARIANTS
    ApiTypeOK
    CompareIsPointwise
    MergeIsLeastUpperBound
