-------------------------- MODULE VersionVectorAPI --------------------------
(***************************************************************************)
(* A client of version/vector.go: two *VersionVector variables on which    *)
(* the client calls the package's functions in any order.  A mutating      *)
(* method called on a nil pointer panics; this client does not do that.    *)
(***************************************************************************)
EXTENDS VersionVector

VARIABLES a, b  \* the client's *VersionVector variables

apiVars == <<a, b>>

ApiTypeOK == a \in Vectors \cup {NilVV} /\ b \in Vectors \cup {NilVV}

ApiInit == a = NilVV /\ b = NilVV

CallNewVersionVector(replicas) == a' = NewVersionVector(replicas) /\ UNCHANGED b

CallCopy == b' = Copy(a) /\ UNCHANGED a

CallIncrement(replica) == /\ a # NilVV
                          /\ a' = Increment(a, replica)
                          /\ UNCHANGED b

CallSet(replica, version) == /\ a # NilVV
                             /\ a' = Set(a, replica, version)
                             /\ UNCHANGED b

CallMerge == a # NilVV /\ a' = Merge(a, b) /\ UNCHANGED b

\* The client exchanges its two variables, or drops one.
Swap == a' = b /\ b' = a
Drop == a' = NilVV /\ UNCHANGED b

ApiNext == \/ \E replicas \in SUBSET ReplicaID : CallNewVersionVector(replicas)
           \/ CallCopy
           \/ \E replica \in ReplicaID : CallIncrement(replica)
           \/ \E replica \in ReplicaID, version \in Uint64 : CallSet(replica, version)
           \/ CallMerge
           \/ Swap
           \/ Drop

ApiSpec == ApiInit /\ [][ApiNext]_apiVars

-----------------------------------------------------------------------------
\* The four-way answer of Compare is the pointwise order of the vectors on
\* all pairs, nil, empty and all-zero ones included: Compare has a path of
\* its own for each of them, and the paths agree.
CompareIsPointwise ==
    /\ Descends(b, a) <=> Below(a, b)
    /\ Dominates(b, a) <=> IsDominatedBy(a, b)
    /\ Concurrent(a, b) <=> ~Below(a, b) /\ ~Below(b, a)
    /\ IsEmpty(a) <=> Equal(a, NilVV)

\* Merge gives the least vector that descends from both: it dominates
\* conflicting versions, and any version that has seen both descends from it.
MergeIsLeastUpperBound ==
    a # NilVV =>
        LET m == Merge(a, b)
        IN  /\ Descends(m, a) /\ Descends(m, b)
            /\ Concurrent(a, b) => Dominates(m, a) /\ Dominates(m, b)
            /\ \A c \in Vectors : Descends(c, a) /\ Descends(c, b) => Descends(c, m)
=============================================================================
