-------------------------- MODULE ReplicatedObject --------------------------
(***************************************************************************)
(* The replication scheme version vectors are for, put together from the   *)
(* examples of the package: every replica stores a copy of one object with *)
(* its version vector.  A write at a replica increments that replica's     *)
(* counter, copies travel between replicas, and a conflict is resolved by  *)
(* merging the vectors, with or without an increment                       *)
(* (Example_perObjectTracking, Example_dynamoReplication,                  *)
(* Example_versionVectorConflictDetection and                              *)
(* TestVersionVectorDynamoScenario).  A reader collects the versions of    *)
(* all replicas and keeps the siblings (Example_riakReadRepair).  The      *)
(* package has no code that stores a copy from elsewhere: a replica that   *)
(* gets one is the reader of two versions, its own and the copy's, and     *)
(* goes on with the one that the sibling filter keeps.                     *)
(*                                                                         *)
(* The network keeps every copy ever sent and delivers any of them to any  *)
(* replica at any time, so loss, duplication and reordering are covered.   *)
(*                                                                         *)
(* An object's writes are history: the writes its value reflects.          *)
(***************************************************************************)
EXTENDS VersionVector

CONSTANTS MaxWrites, \* bound on the writes made at one replica
          MaxCopies  \* bound on the different copies sent

\* The program allows 2^64 - 1 writes per replica before a counter wraps.
ASSUME MaxWritesAssumption == MaxWrites \in Nat /\ MaxWrites <= MaxUint64

\* A deployment has finitely many replicas.
ASSUME ReplicaAssumption == IsFiniteSet(ReplicaID)

WriteID == ReplicaID \X (1 .. MaxWrites)

Object == [version : Vectors, writes : SUBSET WriteID]

VARIABLES object, \* object[r]: the copy replica r stores
          net     \* every copy sent

vars == <<object, net>>

TypeOK == object \in [ReplicaID -> Object] /\ net \in SUBSET Object

Init == /\ object = [r \in ReplicaID |-> [version |-> NewVersionVector({}), writes |-> {}]]
        /\ net = {}

\* How many writes replica r has made; it stores them all.
Made(r) == Cardinality({w \in object[r].writes : w[1] = r})

\* The object after one more write at r.
Written(r, version, writes) ==
    [version |-> Increment(version, r), writes |-> writes \cup {<<r, Made(r) + 1>>}]

Write(r) ==
    /\ Made(r) < MaxWrites
    /\ object' = [object EXCEPT ![r] = Written(r, object[r].version, object[r].writes)]
    /\ UNCHANGED net

Replicate(r) ==
    /\ Cardinality(net) < MaxCopies
    /\ net' = net \cup {[object[r] EXCEPT !.version = Copy(object[r].version)]}
    /\ UNCHANGED object

\* Mutant of Receive: a copy is taken over unless it is older.
ReceiveUnlessOlder(r, o) ==
    /\ ~IsDominatedBy(o.version, object[r].version)
    /\ object' = [object EXCEPT ![r] = o]
    /\ UNCHANGED net

\* The sibling filter, over the replica's own version and a copy's, drops the
\* replica's own.  (When it drops the copy's nothing changes, and when it keeps
\* both they are in conflict, or equal.)
Receive(r, o) ==
    /\ IsDominatedBy(object[r].version, o.version)
    /\ object' = [object EXCEPT ![r] = o]
    /\ UNCHANGED net

\* Mutant of Merged: the values are merged and the vectors are not.
MergedValueOnly(r, o) ==
    [version |-> Copy(object[r].version), writes |-> object[r].writes \cup o.writes]

\* The resolution of a conflict between the copy of r and o.
Merged(r, o) ==
    [version |-> Merge(Copy(object[r].version), o.version),
     writes  |-> object[r].writes \cup o.writes]

\* The replica resolves a conflict and stores the result.
Resolve(r, o) ==
    /\ Concurrent(object[r].version, o.version)
    /\ object' = [object EXCEPT ![r] = Merged(r, o)]
    /\ UNCHANGED net

\* The resolution counts as a write of the coordinator, which is the resolving
\* replica.
ResolveAndWrite(r, o) ==
    /\ Concurrent(object[r].version, o.version)
    /\ Made(r) < MaxWrites
    /\ object' = [object EXCEPT ![r] =
                    Written(r, Merged(r, o).version, Merged(r, o).writes)]
    /\ UNCHANGED net

Next == \/ \E r \in ReplicaID : Write(r) \/ Replicate(r)
        \/ \E r \in ReplicaID, o \in net :
              Receive(r, o) \/ Resolve(r, o) \/ ResolveAndWrite(r, o)

Spec == Init /\ [][Next]_vars

\* Mutant of Siblings: of two equal versions each drops the other.
SiblingsDescend(read) ==
    {i \in DOMAIN read :
        ~\E j \in DOMAIN read : i # j /\ Descends(read[j].version, read[i].version)}

\* The replicas whose versions a reader keeps: those no other dominates.
Siblings(read) ==
    {i \in DOMAIN read :
        ~\E j \in DOMAIN read : i # j /\ IsDominatedBy(read[i].version, read[j].version)}

-----------------------------------------------------------------------------
Copies == {object[r] : r \in ReplicaID} \cup net

\* The relation of two objects by the writes they reflect.
TrueRelation(x, y) ==
    CASE x.writes = y.writes -> "Equal"
      [] x.writes # y.writes /\ x.writes \subseteq y.writes -> "Before"
      [] x.writes # y.writes /\ y.writes \subseteq x.writes -> "After"
      [] OTHER -> "Concurrent"

\* Compare finds a conflict between two copies exactly when each reflects a
\* write the other does not, and an order exactly when the newer reflects all
\* writes of the older: no false conflict, no update silently overwritten,
\* whatever copies were lost, repeated or overtaken.
VersionsTellHistory ==
    \A x, y \in Copies : Compare(x.version, y.version) = TrueRelation(x, y)

\* A replica never loses a write it has stored: the copies it takes over
\* reflect everything its own one did.
NoLostUpdate ==
    [][\A r \in ReplicaID : object[r].writes \subseteq object'[r].writes]_vars

\* Read repair misses nothing: the siblings kept from the versions of all
\* replicas reflect every write that any replica stores.
SiblingsCoverAllWrites ==
    UNION {object[r].writes : r \in Siblings(object)}
        = UNION {object[r].writes : r \in ReplicaID}
=============================================================================
