--------------------------- MODULE VersionVector ---------------------------
(***************************************************************************)
(* The per-object version vector of version/vector.go.                     *)
(*                                                                         *)
(* A *VersionVector is NilVV (a nil pointer) or a map from some replica    *)
(* IDs to uint64 counters, a function whose domain is the set of replicas  *)
(* present.  The zero value VersionVector{} (nil inner map) answers every  *)
(* call as an empty map does, and is the empty function here.              *)
(***************************************************************************)
EXTENDS Integers, FiniteSets

CONSTANTS ReplicaID, \* the replica identifiers
          NilVV,     \* the nil *VersionVector
          MaxUint64  \* the largest uint64, 2^64 - 1 in the program

ASSUME MaxUint64Assumption == MaxUint64 \in Nat \ {0}

Uint64 == 0 .. MaxUint64

\* The non-nil version vectors.
Vectors == UNION {[S -> Uint64] : S \in SUBSET ReplicaID}

ASSUME NilVVAssumption == NilVV \notin Vectors

NewVersionVector(replicas) == [r \in replicas |-> 0]

\* The inner map, with nil read as empty.
Versions(vv) == IF vv = NilVV THEN NewVersionVector({}) ELSE vv

Copy(vv) == Versions(vv)

Replicas(vv) == DOMAIN Versions(vv)

Get(vv, replica) == IF replica \in Replicas(vv) THEN Versions(vv)[replica] ELSE 0

VectorLen(vv) == Cardinality(Replicas(vv))

IsEmpty(vv) == \A r \in Replicas(vv) : Get(vv, r) = 0

-----------------------------------------------------------------------------
(* Mutating methods, on a non-nil receiver.                                *)

\* Map assignment m[r] = v.
Put(m, r, v) == [k \in DOMAIN m \cup {r} |-> IF k = r THEN v ELSE m[k]]

\* Mutant of Increment: the counter is not reduced to 64 bits.
IncrementUnbounded(vv, replica) == Put(vv, replica, Get(vv, replica) + 1)

\* uint64 addition wraps to zero.
Increment(vv, replica) ==
    Put(vv, replica, (Get(vv, replica) + 1) % (MaxUint64 + 1))

Set(vv, replica, version) == Put(vv, replica, version)

\* Mutant of Merge: replicas unknown to the receiver are skipped.
MergeKnownOnly(vv, other) ==
    [r \in DOMAIN vv |-> IF Get(other, r) > vv[r] THEN Get(other, r) ELSE vv[r]]

\* A replica of other enters the result when its version is larger (absent
\* counts as 0) or when both are 0; a nil other changes nothing.
Merge(vv, other) ==
    LET raised == {r \in Replicas(other) : Get(other, r) > Get(vv, r)}
        zero   == {r \in Replicas(other) : Get(vv, r) = 0 /\ Get(other, r) = 0}
    IN  [r \in DOMAIN vv \cup raised \cup zero |->
            IF r \in raised THEN Get(other, r) ELSE Get(vv, r)]

-----------------------------------------------------------------------------
(* Comparison.                                                             *)

HasGreater(vv, other) ==
    \E r \in Replicas(vv) \cup Replicas(other) : Get(vv, r) > Get(other, r)

HasLess(vv, other) ==
    \E r \in Replicas(vv) \cup Replicas(other) : Get(vv, r) < Get(other, r)

HasPositive(vv) == \E r \in Replicas(vv) : Get(vv, r) > 0

\* Mutant of Compare: an all-zero vector is newer than an empty one.
CompareZeroIsNewer(vv, other) ==
    IF Replicas(vv) = {}
    THEN IF Replicas(other) # {} THEN "Before" ELSE "Equal"
    ELSE IF Replicas(other) = {}
    THEN "After"
    ELSE CASE HasGreater(vv, other) /\ HasLess(vv, other)  -> "Concurrent"
           [] HasGreater(vv, other) /\ ~HasLess(vv, other) -> "After"
           [] ~HasGreater(vv, other) /\ HasLess(vv, other) -> "Before"
           [] OTHER                                        -> "Equal"

Compare(vv, other) ==
    IF Replicas(vv) = {}
    THEN IF HasPositive(other) THEN "Before" ELSE "Equal"
    ELSE IF Replicas(other) = {}
    THEN IF HasPositive(vv) THEN "After" ELSE "Equal"
    ELSE CASE HasGreater(vv, other) /\ HasLess(vv, other)  -> "Concurrent"
           [] HasGreater(vv, other) /\ ~HasLess(vv, other) -> "After"
           [] ~HasGreater(vv, other) /\ HasLess(vv, other) -> "Before"
           [] OTHER                                        -> "Equal"

Equal(vv, other)          == Compare(vv, other) = "Equal"
HappenedBefore(vv, other) == Compare(vv, other) = "Before"
HappenedAfter(vv, other)  == Compare(vv, other) = "After"
Concurrent(vv, other)     == Compare(vv, other) = "Concurrent"
Descends(vv, other)       == Compare(vv, other) \in {"After", "Equal"}
Dominates(vv, other)      == HappenedAfter(vv, other)
IsDominatedBy(vv, other)  == HappenedBefore(vv, other)

-----------------------------------------------------------------------------
\* The order the package documents: absent replicas count as zero.
Below(vv, other) == \A r \in ReplicaID : Get(vv, r) <= Get(other, r)
=============================================================================
