------------------------------- MODULE Clock -------------------------------
(***************************************************************************)
(* The vector clock of clock/clock.go.                                     *)
(*                                                                         *)
(* A *Clock is NilClock (a nil pointer) or a map from some node IDs to     *)
(* int64 counters: a function whose domain is the set of nodes present.    *)
(* "Absent" and "present with value 0" differ, as in the Go map.  The zero *)
(* value Clock{} (nil inner map) answers every call as an empty map does,  *)
(* and is the empty function here.                                         *)
(*                                                                         *)
(* Mutating methods are operators that return the clock after the call; no *)
(* method shares its map with another clock (Copy and NewClock allocate),  *)
(* so values stand for the maps.                                           *)
(***************************************************************************)
EXTENDS Integers, FiniteSets

CONSTANTS NodeID,    \* the node identifiers
          NilClock,  \* the nil *Clock
          MaxInt64   \* the largest int64, 2^63 - 1 in the program

Int64 == (-MaxInt64 - 1) .. MaxInt64

\* The non-nil clocks.
Clocks == UNION {[S -> Int64] : S \in SUBSET NodeID}

\* What a *Clock variable may hold.
ClockPtrs == Clocks \cup {NilClock}

ASSUME MaxInt64Assumption == MaxInt64 \in Nat \ {0}

ASSUME NilClockAssumption == NilClock \notin Clocks

\* int64 addition of one wraps to the most negative value.
WrapInt64(v) == IF v > MaxInt64 THEN v - 2 * (MaxInt64 + 1) ELSE v

NewClock(nodes) == [n \in nodes |-> 0]

EmptyClock == NewClock({})

\* The inner map, with nil read as empty.
Entries(c) == IF c = NilClock THEN EmptyClock ELSE c

\* Map assignment m[n] = v.
Put(m, n, v) == [k \in DOMAIN m \cup {n} |-> IF k = n THEN v ELSE m[k]]

Copy(c) == Entries(c)

Nodes(c) == DOMAIN Entries(c)

Get(c, node) == IF node \in Nodes(c) THEN Entries(c)[node] ELSE 0

ClockLen(c) == Cardinality(Nodes(c))

IsEmpty(c) == \A n \in Nodes(c) : Get(c, n) = 0

-----------------------------------------------------------------------------
(* Mutating methods, on a non-nil receiver.                                *)

\* Mutant of Increment: the counter is set to one, as for a new node.
IncrementAssigns(c, node) == Put(c, node, 1)

\* Mutant of Increment: the counter is not reduced to 64 bits.
IncrementUnbounded(c, node) == Put(c, node, Get(c, node) + 1)

Increment(c, node) == Put(c, node, WrapInt64(Get(c, node) + 1))

Set(c, node, value) == Put(c, node, value)

\* Mutant of Merge: entries unknown to the receiver are skipped.
MergeKnownOnly(c, other) ==
    [n \in DOMAIN c |-> IF Get(other, n) > c[n] THEN Get(other, n) ELSE c[n]]

\* Mutant of Merge: the other clock's value always wins.
MergeOverwrites(c, other) ==
    [n \in DOMAIN c \cup Nodes(other) |->
        IF n \in Nodes(other) THEN Get(other, n) ELSE c[n]]

\* A node of other enters the result when its value is larger (absent counts
\* as 0) or when both values are 0; a nil other changes nothing.
Merge(c, other) ==
    LET raised == {n \in Nodes(other) : Get(other, n) > Get(c, n)}
        zero   == {n \in Nodes(other) : Get(c, n) = 0 /\ Get(other, n) = 0}
    IN  [n \in DOMAIN c \cup raised \cup zero |->
            IF n \in raised THEN Get(other, n) ELSE Get(c, n)]

\* A nil receiver is dereferenced by Increment and Set always, and by Merge
\* unless the argument is nil too: a clock that NewClock made has a map, be it
\* empty.  (Merge also returns for an argument that is the zero value Clock{},
\* which no function of the package returns.)
MutationPanics(c) == c = NilClock

MergePanics(c, other) == c = NilClock /\ other # NilClock

-----------------------------------------------------------------------------
(* Comparison.                                                             *)

Comparison == {"Concurrent", "Before", "After", "Equal"}

HasGreater(c, other) ==
    \E n \in Nodes(c) \cup Nodes(other) : Get(c, n) > Get(other, n)

\* Mutant of HasLess: only the receiver's own nodes are visited.
HasLessOwnNodes(c, other) == \E n \in Nodes(c) : Get(c, n) < Get(other, n)

HasLess(c, other) ==
    \E n \in Nodes(c) \cup Nodes(other) : Get(c, n) < Get(other, n)

\* Against an empty clock only positive entries count.
HasPositive(c) == \E n \in Nodes(c) : Get(c, n) > 0

\* Mutant of Compare: the tests of hasGreater and hasLess are independent,
\* so that concurrent clocks are ordered.
CompareGreaterFirst(c, other) ==
    CASE HasGreater(c, other) -> "After"
      [] ~HasGreater(c, other) /\ HasLess(c, other) -> "Before"
      [] OTHER -> "Equal"

Compare(c, other) ==
    IF Nodes(c) = {}
    THEN IF HasPositive(other) THEN "Before" ELSE "Equal"
    ELSE IF Nodes(other) = {}
    THEN IF HasPositive(c) THEN "After" ELSE "Equal"
    ELSE CASE HasGreater(c, other) /\ HasLess(c, other)  -> "Concurrent"
           [] HasGreater(c, other) /\ ~HasLess(c, other) -> "After"
           [] ~HasGreater(c, other) /\ HasLess(c, other) -> "Before"
           [] OTHER                                      -> "Equal"

Equal(c, other)          == Compare(c, other) = "Equal"
HappenedBefore(c, other) == Compare(c, other) = "Before"
HappenedAfter(c, other)  == Compare(c, other) = "After"
Concurrent(c, other)     == Compare(c, other) = "Concurrent"
Descendant(c, other)     == Compare(c, other) \in {"After", "Equal"}
Ancestor(c, other)       == Compare(c, other) \in {"Before", "Equal"}

-----------------------------------------------------------------------------
(* The order the package documents, as a reference for Compare.            *)

NonNegative(c) == \A n \in Nodes(c) : Get(c, n) >= 0

\* Absent nodes count as zero.
Below(c, other) == \A n \in NodeID : Get(c, n) <= Get(other, n)

PointwiseCompare(c, other) ==
    CASE Below(c, other) /\ Below(other, c)   -> "Equal"
      [] Below(c, other) /\ ~Below(other, c)  -> "Before"
      [] ~Below(c, other) /\ Below(other, c)  -> "After"
      [] OTHER                                -> "Concurrent"

Reverse(cmp) == CASE cmp = "Before" -> "After"
                  [] cmp = "After"  -> "Before"
                  [] OTHER          -> cmp
=============================================================================
