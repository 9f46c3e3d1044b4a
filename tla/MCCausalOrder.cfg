SPECIFICATION Spec
CONSTANTS
    NodeID = {n1, n2, n3}
    NilClock = NilClock
    MaxInt64 = 2
    MaxEvents = 2
    MaxMessages = 5
    NodeLists <- NoneOrAll
SYMMETRY NodeSymmetry
INVARIANTS
    CompareDecidesCausality
    ClockEncodesPast
PROPERTY ClocksOnlyAdvance
CHECK_DEADLOCK FALSE
