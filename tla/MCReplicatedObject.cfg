SPECIFICATION Spec
CONSTANTS
    ReplicaID = {r1, r2, r3}
    NilVV = NilVV
    MaxUint64 = 3
    MaxWrites = 2
    MaxCopies = 5
SYMMETRY ReplicaSymmetry
INVARIANTS
    VersionsTellHistory
    SiblingsCoverAllWrites
PROPERTY NoLostUpdate
CHECK_DEADLOCK FALSE
