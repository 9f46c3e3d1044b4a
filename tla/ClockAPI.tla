------------------------------ MODULE ClockAPI ------------------------------
(***************************************************************************)
(* A client of clock/clock.go: two *Clock variables on which the client    *)
(* calls the package's functions in any order, nil pointers and negative   *)
(* values included.  Increment wraps at the width of int64.                *)
(***************************************************************************)
EXTENDS Clock

CONSTANT SetValues  \* the values the client passes to Set

ASSUME SetValuesAssumption == SetValues \subseteq Int64

VARIABLES a, b,      \* the client's *Clock variables
          panicked   \* a nil receiver was dereferenced

apiVars == <<a, b, panicked>>

ApiTypeOK == /\ a \in ClockPtrs
             /\ b \in ClockPtrs
             /\ panicked \in BOOLEAN

ApiInit == /\ a = NilClock
           /\ b = NilClock
           /\ panicked = FALSE

CallNewClock(nodes) == /\ ~panicked
                       /\ a' = NewClock(nodes)
                       /\ UNCHANGED <<b, panicked>>

CallCopy == /\ ~panicked
            /\ b' = Copy(a)
            /\ UNCHANGED <<a, panicked>>

CallIncrement(node) ==
    /\ ~panicked
    /\ a' = IF MutationPanics(a) THEN a ELSE Increment(a, node)
    /\ panicked' = MutationPanics(a)
    /\ UNCHANGED b

CallSet(node, value) ==
    /\ ~panicked
    /\ a' = IF MutationPanics(a) THEN a ELSE Set(a, node, value)
    /\ panicked' = MutationPanics(a)
    /\ UNCHANGED b

\* On a nil receiver and a nil argument Merge returns before it touches c.
CallMerge ==
    /\ ~panicked
    /\ a' = IF a = NilClock THEN a ELSE Merge(a, b)
    /\ panicked' = MergePanics(a, b)
    /\ UNCHANGED b

\* The client exchanges its two variables, or drops one.
Swap == ~panicked /\ a' = b /\ b' = a /\ UNCHANGED panicked
Drop == ~panicked /\ a' = NilClock /\ UNCHANGED <<b, panicked>>

\* After a panic the program is gone.
Crashed == panicked /\ UNCHANGED apiVars

ApiNext == \/ \E nodes \in SUBSET NodeID : CallNewClock(nodes)
           \/ CallCopy
           \/ \E node \in NodeID : CallIncrement(node)
           \/ \E node \in NodeID, value \in SetValues : CallSet(node, value)
           \/ CallMerge
           \/ Swap
           \/ Drop
           \/ Crashed

ApiSpec == ApiInit /\ [][ApiNext]_apiVars

-----------------------------------------------------------------------------
\* Compare called with its operands exchanged gives the mirrored answer, for
\* all pairs of clocks: nil, empty, all-zero and negative ones included
\* (three separate code paths of Compare).
CompareIsMirrored == Compare(b, a) = Reverse(Compare(a, b))

\* The four-way answer of Compare is the pointwise order with absent nodes
\* read as zero, whichever of its paths (both empty, one empty, both populated)
\* computes it.  Negative entries take part "normally", as the comment of Set
\* has it, unless the other clock has no nodes: that path sees only positive
\* entries.
CompareIsPointwise ==
    \/ Nodes(a) # {} /\ Nodes(b) # {}
    \/ NonNegative(a) /\ NonNegative(b)
    => Compare(a, b) = PointwiseCompare(a, b)

\* Merge yields the least upper bound: an upper bound of both operands that
\* lies below every other one.  It is stated with Compare's own answers
\* (Ancestor), for clocks without negative entries.
MergeIsLeastUpperBound ==
    a # NilClock /\ NonNegative(a) /\ NonNegative(b) =>
        LET m == Merge(a, b)
        IN  /\ Ancestor(a, m) /\ Ancestor(b, m)
            /\ \A c \in Clocks :
                  NonNegative(c) /\ Ancestor(a, c) /\ Ancestor(b, c)
                      => Ancestor(m, c)
=============================================================================
