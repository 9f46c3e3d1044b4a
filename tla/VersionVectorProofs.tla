------------------------ MODULE VersionVectorProofs -------------------------
(***************************************************************************)
(* Facts about the operations of version/vector.go, what a client of it    *)
(* may rely on, and what version vectors guarantee a replicated object:    *)
(* for every number of replicas, writes and copies and every width of the  *)
(* counters.                                                               *)
(***************************************************************************)
EXTENDS VersionVectorAPI, ReplicatedObject, FiniteSetTheorems, WellFoundedInduction,
        TLAPS

Pointers == Vectors \cup {NilVV}

-----------------------------------------------------------------------------
(* Types.                                                                  *)

\* A version vector is a map from some of the replica IDs to uint64 values.
LEMMA VectorsUnfolded ==
    ASSUME NEW v
    PROVE  v \in Vectors <=> DOMAIN v \subseteq ReplicaID /\ v \in [DOMAIN v -> Uint64]
<1>1. ASSUME v \in Vectors
      PROVE  DOMAIN v \subseteq ReplicaID /\ v \in [DOMAIN v -> Uint64]
  <2>1. PICK S \in SUBSET ReplicaID : v \in [S -> Uint64]
    BY <1>1 DEF Vectors
  <2> QED
    BY <2>1
<1>2. ASSUME DOMAIN v \subseteq ReplicaID, v \in [DOMAIN v -> Uint64]
      PROVE  v \in Vectors
  BY <1>2 DEF Vectors
<1> QED
  BY <1>1, <1>2

\* uint64 values are natural numbers up to MaxUint64, and zero is one of them.
LEMMA Uint64Facts == /\ 0 \in Uint64
                     /\ \A n : n \in Uint64 <=> n \in Nat /\ n <= MaxUint64
BY MaxUint64Assumption DEF Uint64

\* Reading nil as the empty map always gives a version vector.
LEMMA VersionsType ==
    ASSUME NEW v \in Pointers
    PROVE  /\ Versions(v) \in Vectors
           /\ Replicas(v) \subseteq ReplicaID
           /\ Versions(v) \in [Replicas(v) -> Uint64]
<1>1. NewVersionVector({}) \in Vectors
  BY VectorsUnfolded, Zenon DEF NewVersionVector
<1>2. Versions(v) \in Vectors
  BY <1>1 DEF Versions, Pointers
<1> QED
  BY <1>2, VectorsUnfolded DEF Replicas

\* Get answers a uint64, zero for a replica that is not present.
LEMMA GetType ==
    ASSUME NEW v \in Pointers, NEW r
    PROVE  /\ Get(v, r) \in Uint64
           /\ Get(v, r) \in Nat
           /\ r \notin Replicas(v) => Get(v, r) = 0
<1>1. Get(v, r) \in Uint64
  BY VersionsType, Uint64Facts DEF Get
<1> QED
  BY <1>1, Uint64Facts DEF Get

\* A non-nil version vector is its own map and its own copy.
LEMMA VersionsOfVector ==
    ASSUME NEW v \in Vectors
    PROVE  Versions(v) = v /\ Replicas(v) = DOMAIN v /\ Copy(v) = v
BY NilVVAssumption DEF Versions, Replicas, Copy

\* Assigning a uint64 to a replica of a vector gives a vector, and changes
\* what Get answers for that replica only.
LEMMA PutFacts ==
    ASSUME NEW v \in Vectors, NEW r \in ReplicaID, NEW n \in Uint64
    PROVE  /\ Put(v, r, n) \in Vectors
           /\ \A k : Get(Put(v, r, n), k) = IF k = r THEN n ELSE Get(v, k)
<1> DEFINE p == Put(v, r, n)
<1>1. DOMAIN v \subseteq ReplicaID /\ v \in [DOMAIN v -> Uint64]
  BY VectorsUnfolded
<1>2. /\ DOMAIN p = DOMAIN v \cup {r}
      /\ p \in [DOMAIN v \cup {r} -> Uint64]
      /\ \A k \in DOMAIN p : p[k] = IF k = r THEN n ELSE v[k]
  BY <1>1 DEF Put
<1>3. p \in Vectors
  BY <1>1, <1>2, VectorsUnfolded
<1>4. Versions(p) = p /\ Replicas(p) = DOMAIN p /\ Versions(v) = v /\ Replicas(v) = DOMAIN v
  BY <1>3, VersionsOfVector
<1>5. ASSUME NEW k
      PROVE  Get(p, k) = IF k = r THEN n ELSE Get(v, k)
  BY <1>2, <1>4 DEF Get
<1> QED
  BY <1>3, <1>5

-----------------------------------------------------------------------------
(* Operations.                                                             *)

\* NewVersionVector of any replicas answers zero for every replica.
LEMMA NewVersionVectorFacts ==
    ASSUME NEW S \in SUBSET ReplicaID
    PROVE  NewVersionVector(S) \in Vectors /\ \A k : Get(NewVersionVector(S), k) = 0
<1>1. NewVersionVector(S) \in [S -> Uint64]
  BY Uint64Facts DEF NewVersionVector
<1>2. NewVersionVector(S) \in Vectors
  BY <1>1 DEF Vectors
<1>3. \A k \in S : NewVersionVector(S)[k] = 0
  BY DEF NewVersionVector
<1> QED
  BY <1>1, <1>2, <1>3, VersionsOfVector DEF Get

\* Increment adds one to its replica's counter, unless that is at its
\* largest value, and leaves the other replicas alone.
LEMMA IncrementFacts ==
    ASSUME NEW v \in Vectors, NEW r \in ReplicaID
    PROVE  /\ Increment(v, r) \in Vectors
           /\ Get(v, r) < MaxUint64 =>
                 \A k : Get(Increment(v, r), k) = IF k = r THEN Get(v, r) + 1 ELSE Get(v, k)
<1> DEFINE n == Get(v, r)
           i == (n + 1) % (MaxUint64 + 1)
<1>1. n \in Nat /\ n <= MaxUint64 /\ MaxUint64 \in Nat
  BY GetType, Uint64Facts, MaxUint64Assumption DEF Pointers
<1>2. i \in Uint64 /\ (n < MaxUint64 => i = n + 1)
  <2> HIDE DEF n
  <2> QED
    BY <1>1 DEF Uint64
<1> HIDE DEF i
<1>3. Increment(v, r) = Put(v, r, i)
  BY DEF Increment, i
<1> QED
  BY <1>2, <1>3, PutFacts

\* Merge answers, for every replica, the larger of the two counters.
LEMMA MergeIsMax ==
    ASSUME NEW v \in Vectors, NEW other \in Pointers
    PROVE  /\ Merge(v, other) \in Vectors
           /\ \A k : Get(Merge(v, other), k) =
                        IF Get(other, k) > Get(v, k) THEN Get(other, k) ELSE Get(v, k)
<1> DEFINE raised == {r \in Replicas(other) : Get(other, r) > Get(v, r)}
           zero == {r \in Replicas(other) : Get(v, r) = 0 /\ Get(other, r) = 0}
           m == Merge(v, other)
<1>1. Versions(v) = v /\ Replicas(v) = DOMAIN v /\ DOMAIN v \subseteq ReplicaID
  BY VersionsOfVector, VectorsUnfolded
<1>2. Replicas(other) \subseteq ReplicaID
  BY VersionsType
<1>3. \A k : /\ Get(v, k) \in Uint64 /\ Get(other, k) \in Uint64
             /\ Get(v, k) \in Nat /\ Get(other, k) \in Nat
             /\ k \notin Replicas(other) => Get(other, k) = 0
  BY GetType DEF Pointers
<1>4. /\ DOMAIN m = DOMAIN v \cup raised \cup zero
      /\ \A k \in DOMAIN m : m[k] = IF k \in raised THEN Get(other, k) ELSE Get(v, k)
      /\ m \in [DOMAIN v \cup raised \cup zero -> Uint64]
  BY <1>3 DEF Merge
<1>5. m \in Vectors
  BY <1>1, <1>2, <1>4, VectorsUnfolded
<1>6. Versions(m) = m /\ Replicas(m) = DOMAIN m
  BY <1>5, VersionsOfVector
<1>7. ASSUME NEW k
      PROVE  Get(m, k) = IF k \in raised THEN Get(other, k) ELSE Get(v, k)
  <2>1. CASE k \in DOMAIN m
    BY <2>1, <1>4, <1>6 DEF Get
  <2>2. CASE k \notin DOMAIN m
    <3>1. k \notin raised /\ k \notin DOMAIN v
      BY <2>2, <1>4
    <3>2. Get(m, k) = 0 /\ Get(v, k) = 0
      BY <2>2, <3>1, <1>1, <1>6 DEF Get
    <3> QED
      BY <3>1, <3>2
  <2> QED
    BY <2>1, <2>2
<1>8. \A k : k \in raised <=> Get(other, k) > Get(v, k)
  BY <1>3
<1> QED
  BY <1>5, <1>7, <1>8

-----------------------------------------------------------------------------
(* Comparison.                                                             *)

\* The flags hasGreater and hasLess of Compare, in terms of the pointwise
\* order: visiting the replicas of either vector is as good as visiting all.
LEMMA FlagsArePointwise ==
    ASSUME NEW v \in Pointers, NEW other \in Pointers
    PROVE  /\ HasGreater(v, other) <=> ~Below(v, other)
           /\ HasLess(v, other) <=> ~Below(other, v)
<1>1. \A k : /\ Get(v, k) \in Nat /\ Get(other, k) \in Nat
             /\ k \notin Replicas(v) \cup Replicas(other) => Get(v, k) = 0 /\ Get(other, k) = 0
  BY GetType
<1>2. Replicas(v) \cup Replicas(other) \subseteq ReplicaID
  BY VersionsType
<1> QED
  BY <1>1, <1>2 DEF HasGreater, HasLess, Below

\* Against a vector without replicas, every vector is above it, and is below
\* it exactly when it has no positive counter.
LEMMA PositiveIsPointwise ==
    ASSUME NEW v \in Pointers, NEW other \in Pointers, Replicas(other) = {}
    PROVE  Below(other, v) /\ (HasPositive(v) <=> ~Below(v, other))
<1>1. \A k : /\ Get(v, k) \in Nat /\ Get(other, k) = 0
             /\ k \notin Replicas(v) => Get(v, k) = 0
  BY GetType
<1>2. Replicas(v) \subseteq ReplicaID
  BY VersionsType
<1> QED
  BY <1>1, <1>2 DEF HasPositive, Below

\* The answer of Compare is the pointwise order, on every path of Compare.
LEMMA ComparePointwise ==
    ASSUME NEW v \in Pointers, NEW other \in Pointers
    PROVE  /\ Compare(v, other) = "Equal" <=> Below(v, other) /\ Below(other, v)
           /\ Compare(v, other) = "Before" <=> Below(v, other) /\ ~Below(other, v)
           /\ Compare(v, other) = "After" <=> ~Below(v, other) /\ Below(other, v)
           /\ Compare(v, other) = "Concurrent" <=> ~Below(v, other) /\ ~Below(other, v)
<1>1. CASE Replicas(v) = {}
  <2>1. Below(v, other) /\ (HasPositive(other) <=> ~Below(other, v))
    BY <1>1, PositiveIsPointwise
  <2> QED
    BY <1>1, <2>1 DEF Compare
<1>2. CASE Replicas(v) # {} /\ Replicas(other) = {}
  <2>1. Below(other, v) /\ (HasPositive(v) <=> ~Below(v, other))
    BY <1>2, PositiveIsPointwise
  <2> QED
    BY <1>2, <2>1 DEF Compare
<1>3. CASE Replicas(v) # {} /\ Replicas(other) # {}
  BY <1>3, FlagsArePointwise DEF Compare
<1> QED
  BY <1>1, <1>2, <1>3

\* Merge gives the least vector that descends from both operands, and one
\* that dominates both when they are concurrent.
LEMMA MergeLeastUpperBound ==
    ASSUME NEW v \in Vectors, NEW other \in Pointers
    PROVE  /\ Descends(Merge(v, other), v) /\ Descends(Merge(v, other), other)
           /\ Concurrent(v, other) =>
                 Dominates(Merge(v, other), v) /\ Dominates(Merge(v, other), other)
           /\ \A c \in Vectors :
                 Descends(c, v) /\ Descends(c, other) => Descends(c, Merge(v, other))
<1> DEFINE m == Merge(v, other)
<1>1. v \in Pointers /\ m \in Pointers /\ \A c \in Vectors : c \in Pointers
  BY MergeIsMax DEF Pointers
<1>2. \A k : /\ Get(v, k) \in Nat /\ Get(other, k) \in Nat
             /\ Get(m, k) = IF Get(other, k) > Get(v, k) THEN Get(other, k) ELSE Get(v, k)
  BY <1>1, GetType, MergeIsMax, Zenon
<1> HIDE DEF m
<1>3. \A x, y \in Pointers : Descends(x, y) <=> Below(y, x)
  BY ComparePointwise DEF Descends
<1>4. Below(v, m) /\ Below(other, m)
  BY <1>2 DEF Below
<1>5. \A c \in Vectors : Below(v, c) /\ Below(other, c) => Below(m, c)
  BY <1>2 DEF Below
<1>6. (Below(m, v) => Below(other, v)) /\ (Below(m, other) => Below(v, other))
  BY <1>2 DEF Below
<1>7. Concurrent(v, other) => Dominates(m, v) /\ Dominates(m, other)
  BY <1>1, <1>4, <1>6, ComparePointwise DEF Concurrent, Dominates, HappenedAfter
<1>8. /\ Descends(m, v) /\ Descends(m, other)
      /\ \A c \in Vectors : Descends(c, v) /\ Descends(c, other) => Descends(c, m)
  BY <1>1, <1>3, <1>4, <1>5
<1> QED
  BY <1>7, <1>8 DEF m

-----------------------------------------------------------------------------
(***************************************************************************)
(* The client of VersionVectorAPI.                                         *)
(***************************************************************************)

\* Every call leaves nil or a well-formed vector of uint64 counters behind: no
\* increment, at the largest value either, leaves the range of uint64.
THEOREM ApiTypeCorrect == ApiSpec => []ApiTypeOK
<1>1. ApiInit => ApiTypeOK
  BY DEF ApiInit, ApiTypeOK
<1>2. ApiTypeOK /\ [ApiNext]_apiVars => ApiTypeOK'
  <2> SUFFICES ASSUME ApiTypeOK, [ApiNext]_apiVars
               PROVE  ApiTypeOK'
    OBVIOUS
  <2> USE DEF ApiTypeOK, Pointers
  <2>1. ASSUME NEW S \in SUBSET ReplicaID, CallNewVersionVector(S)
        PROVE  ApiTypeOK'
    BY <2>1, NewVersionVectorFacts DEF CallNewVersionVector
  <2>2. CASE CallCopy
    BY <2>2, VersionsType DEF CallCopy, Copy
  <2>3. ASSUME NEW r \in ReplicaID, CallIncrement(r)
        PROVE  ApiTypeOK'
    BY <2>3, IncrementFacts DEF CallIncrement
  <2>4. ASSUME NEW r \in ReplicaID, NEW n \in Uint64, CallSet(r, n)
        PROVE  ApiTypeOK'
    BY <2>4, PutFacts DEF CallSet, Set
  <2>5. CASE CallMerge
    BY <2>5, MergeIsMax DEF CallMerge
  <2>6. CASE Swap \/ Drop \/ UNCHANGED apiVars
    BY <2>6 DEF Swap, Drop, apiVars
  <2> QED
    BY <2>1, <2>2, <2>3, <2>4, <2>5, <2>6 DEF ApiNext
<1> QED
  BY <1>1, <1>2, PTL DEF ApiSpec

\* Compare and the methods built on it decide the pointwise order of the
\* client's two vectors, whichever path of Compare they take.
THEOREM ComparePointwiseOrder == ApiSpec => []CompareIsPointwise
<1>1. ApiTypeOK => CompareIsPointwise
  <2> SUFFICES ASSUME ApiTypeOK
               PROVE  CompareIsPointwise
    OBVIOUS
  <2>1. a \in Pointers /\ b \in Pointers /\ NilVV \in Pointers
    BY DEF ApiTypeOK, Pointers
  <2>2. /\ Descends(b, a) <=> Below(a, b)
        /\ Concurrent(a, b) <=> ~Below(a, b) /\ ~Below(b, a)
    BY <2>1, ComparePointwise DEF Descends, Concurrent
  <2>3. Dominates(b, a) <=> IsDominatedBy(a, b)
    BY <2>1, ComparePointwise DEF Dominates, IsDominatedBy, HappenedAfter, HappenedBefore
  <2>4. IsEmpty(a) <=> Equal(a, NilVV)
    <3>1. Replicas(NilVV) = {}
      BY DEF Replicas, Versions, NewVersionVector
    <3>2. Below(NilVV, a) /\ (HasPositive(a) <=> ~Below(a, NilVV))
      BY <2>1, <3>1, PositiveIsPointwise
    <3>3. IsEmpty(a) <=> ~HasPositive(a)
      BY <2>1, GetType DEF IsEmpty, HasPositive
    <3> QED
      BY <2>1, <3>2, <3>3, ComparePointwise DEF Equal
  <2> QED
    BY <2>2, <2>3, <2>4 DEF CompareIsPointwise
<1> QED
  BY <1>1, ApiTypeCorrect, PTL

\* Merge of the client's two vectors is the least one that descends from both.
THEOREM MergeOfClient == ApiSpec => []MergeIsLeastUpperBound
<1>1. ApiTypeOK => MergeIsLeastUpperBound
  BY MergeLeastUpperBound DEF ApiTypeOK, Pointers, MergeIsLeastUpperBound
<1> QED
  BY <1>1, ApiTypeCorrect, PTL

-----------------------------------------------------------------------------
(***************************************************************************)
(* The replicated object.                                                  *)
(***************************************************************************)

\* The writes a version vector stands for: of every replica, as many as its
\* counter says.
Past(v) == {w \in WriteID : w[2] <= Get(v, w[1])}

\* No counter of v is ahead of the replica it counts for.
Known(v) == \A k \in ReplicaID : Get(v, k) <= Get(object[k].version, k)

\* The inductive invariant: the writes of every copy are the ones its vector
\* stands for, and a replica's own counter is never behind a copy of it.
HistoryInv ==
    /\ TypeOK
    /\ \A o \in Copies : o.writes = Past(o.version) /\ Known(o.version)
    /\ \A r \in ReplicaID : Get(object[r].version, r) <= MaxWrites

-----------------------------------------------------------------------------
(* Vectors and the writes they stand for.                                  *)

\* Counters that stay within MaxWrites order the vectors as inclusion orders
\* the writes they stand for.
LEMMA PastOrder ==
    ASSUME NEW v \in Vectors, NEW w \in Vectors,
           \A k \in ReplicaID : Get(v, k) <= MaxWrites
    PROVE  Past(v) \subseteq Past(w) <=> Below(v, w)
<1>1. \A k : Get(v, k) \in Nat /\ Get(w, k) \in Nat
  BY GetType DEF Pointers
<1>2. ASSUME Past(v) \subseteq Past(w), NEW k \in ReplicaID
      PROVE  Get(v, k) <= Get(w, k)
  <2>1. CASE Get(v, k) = 0
    BY <1>1, <2>1
  <2>2. CASE Get(v, k) # 0
    <3>1. Get(v, k) \in 1 .. MaxWrites
      BY <1>1, <2>2, MaxWritesAssumption
    <3>2. <<k, Get(v, k)>> \in Past(v)
      BY <1>1, <1>2, <3>1 DEF Past, WriteID
    <3> QED
      BY <1>2, <3>2 DEF Past
  <2> QED
    BY <2>1, <2>2
<1>3. ASSUME Below(v, w), NEW x \in Past(v)
      PROVE  x \in Past(w)
  <2>1. x \in WriteID /\ x[1] \in ReplicaID /\ x[2] \in Nat /\ x[2] <= Get(v, x[1])
    BY <1>3, MaxWritesAssumption DEF Past, WriteID
  <2>2. Get(v, x[1]) <= Get(w, x[1])
    BY <1>3, <2>1 DEF Below
  <2>3. x[2] <= Get(w, x[1])
    BY <1>1, <2>1, <2>2
  <2> QED
    BY <2>1, <2>3 DEF Past
<1> QED
  BY <1>2, <1>3 DEF Below

\* The writes of one replica that a vector stands for are as many as its
\* counter says.
LEMMA PastCount ==
    ASSUME NEW v \in Vectors, NEW r \in ReplicaID, Get(v, r) <= MaxWrites
    PROVE  Cardinality({w \in Past(v) : w[1] = r}) = Get(v, r)
<1> DEFINE n == Get(v, r)
           S == {w \in Past(v) : w[1] = r}
           f == [i \in 1 .. n |-> <<r, i>>]
<1>1. n \in Nat
  BY GetType DEF Pointers
<1>2. \A i \in 1 .. n : i \in 1 .. MaxWrites /\ i <= n
  BY <1>1, MaxWritesAssumption
<1>3. \A i \in 1 .. n : <<r, i>> \in S
  BY <1>2 DEF Past, WriteID
<1>4. ASSUME NEW x \in S
      PROVE  \E i \in 1 .. n : f[i] = x
  <2>1. x \in ReplicaID \X (1 .. MaxWrites) /\ x[1] = r /\ x[2] <= n
    BY <1>4 DEF Past, WriteID
  <2>2. x = <<r, x[2]>> /\ x[2] \in 1 .. n
    BY <1>1, <2>1, MaxWritesAssumption
  <2> QED
    BY <2>2
<1>5. f \in Bijection(1 .. n, S)
  <2>1. f \in [1 .. n -> S]
    BY <1>3
  <2>2. \A i, j \in 1 .. n : f[i] = f[j] => i = j
    OBVIOUS
  <2> QED
    BY <1>4, <2>1, <2>2 DEF Bijection, Injection, Surjection, IsInjective
<1>6. ExistsBijection(1 .. n, S)
  BY <1>5 DEF ExistsBijection
<1> HIDE DEF n, S
<1>7. Cardinality(S) = n
  BY <1>1, <1>6, FS_CountingElements
<1> QED
  BY <1>7 DEF n, S

\* An increment adds the next write of its replica.
LEMMA PastIncrement ==
    ASSUME NEW v \in Vectors, NEW r \in ReplicaID, Get(v, r) < MaxWrites
    PROVE  Past(Increment(v, r)) = Past(v) \cup {<<r, Get(v, r) + 1>>}
<1> DEFINE n == Get(v, r)
           i == Increment(v, r)
<1>1. n \in Nat /\ n < MaxUint64 /\ n + 1 \in 1 .. MaxWrites
  BY GetType, MaxWritesAssumption, MaxUint64Assumption DEF Pointers
<1>2. \A k : Get(i, k) = IF k = r THEN n + 1 ELSE Get(v, k)
  BY <1>1, IncrementFacts
<1>3. <<r, n + 1>> \in Past(i)
  BY <1>1, <1>2 DEF Past, WriteID
<1> HIDE DEF n, i
<1>4. ASSUME NEW w \in WriteID, w # <<r, n + 1>>
      PROVE  w \in Past(i) <=> w \in Past(v)
  <2>1. w = <<w[1], w[2]>> /\ w[2] \in Nat
    BY MaxWritesAssumption DEF WriteID
  <2>2. CASE w[1] = r
    <3>1. w[2] # n + 1
      BY <1>4, <2>1, <2>2
    <3>2. w[2] <= n + 1 <=> w[2] <= n
      BY <1>1, <2>1, <3>1
    <3> QED
      BY <1>2, <2>2, <3>2 DEF Past, n
  <2>3. CASE w[1] # r
    BY <1>2, <2>3 DEF Past
  <2> QED
    BY <2>2, <2>3
<1>5. Past(i) \subseteq WriteID /\ Past(v) \subseteq WriteID
  BY DEF Past
<1>6. Past(i) = Past(v) \cup {<<r, n + 1>>}
  BY <1>3, <1>4, <1>5
<1> QED
  BY <1>6 DEF n, i

\* A merge stands for the writes of both.
LEMMA PastMerge ==
    ASSUME NEW v \in Vectors, NEW w \in Vectors
    PROVE  Past(Merge(v, w)) = Past(v) \cup Past(w)
<1>1. \A k : /\ Get(v, k) \in Nat /\ Get(w, k) \in Nat
             /\ Get(Merge(v, w), k) = IF Get(w, k) > Get(v, k) THEN Get(w, k) ELSE Get(v, k)
  BY GetType, MergeIsMax DEF Pointers
<1>2. \A x \in WriteID : x[2] \in Nat
  BY MaxWritesAssumption DEF WriteID
<1>3. \A x \in WriteID : x[2] <= Get(Merge(v, w), x[1])
                            <=> x[2] <= Get(v, x[1]) \/ x[2] <= Get(w, x[1])
  BY <1>1, <1>2
<1> QED
  BY <1>3 DEF Past

-----------------------------------------------------------------------------
(* The inductive invariant.                                                *)

\* The writes a replica has made are the ones its own counter counts.
LEMMA MadeIsCounter ==
    ASSUME HistoryInv, NEW r \in ReplicaID
    PROVE  Made(r) = Get(object[r].version, r)
<1>1. object[r].version \in Vectors /\ object[r].writes = Past(object[r].version)
  BY DEF HistoryInv, TypeOK, Object, Copies
<1>2. Get(object[r].version, r) <= MaxWrites
  BY DEF HistoryInv
<1> QED
  BY <1>1, <1>2, PastCount DEF Made

\* Every copy is well formed, and its counters stay within MaxWrites.
LEMMA CopyFacts ==
    ASSUME HistoryInv, NEW o \in Copies
    PROVE  /\ o \in Object /\ o.version \in Vectors
           /\ o.writes = Past(o.version) /\ Known(o.version)
           /\ \A k \in ReplicaID : Get(o.version, k) \in Nat /\ Get(o.version, k) <= MaxWrites
<1>1. o \in Object /\ o.version \in Vectors
  BY DEF HistoryInv, TypeOK, Object, Copies
<1>2. o.writes = Past(o.version) /\ Known(o.version)
  BY DEF HistoryInv
<1>3. ASSUME NEW k \in ReplicaID
      PROVE  Get(o.version, k) \in Nat /\ Get(o.version, k) <= MaxWrites
  <2>1. object[k].version \in Vectors
    BY DEF HistoryInv, TypeOK, Object
  <2>2. Get(o.version, k) \in Nat /\ Get(object[k].version, k) \in Nat
    BY <1>1, <2>1, GetType DEF Pointers
  <2>3. Get(o.version, k) <= Get(object[k].version, k) /\ Get(object[k].version, k) <= MaxWrites
    BY <1>2 DEF Known, HistoryInv
  <2> QED
    BY <2>2, <2>3, MaxWritesAssumption
<1> QED
  BY <1>1, <1>2, <1>3

\* A replica may store any object whose writes are the ones its vector stands
\* for, whose other counters are known and whose own counter has not fallen.
LEMMA StoreKeeps ==
    ASSUME HistoryInv, NEW r \in ReplicaID, NEW o,
           o.version \in Vectors, o \in Object, o.writes = Past(o.version),
           \A k \in ReplicaID \ {r} : Get(o.version, k) <= Get(object[k].version, k),
           Get(object[r].version, r) <= Get(o.version, r), Get(o.version, r) <= MaxWrites,
           object' = [object EXCEPT ![r] = o], net' = net
    PROVE  HistoryInv'
<1>1. object \in [ReplicaID -> Object] /\ net \in SUBSET Object
  BY DEF HistoryInv, TypeOK
<1>2. /\ TypeOK' /\ object'[r] = o
      /\ \A k \in ReplicaID \ {r} : object'[k] = object[k]
  BY <1>1 DEF TypeOK
<1>3. \A k \in ReplicaID : Get(object[k].version, k) \in Nat
  BY <1>1, GetType DEF Object, Pointers
<1>4. Get(o.version, r) \in Nat
  BY GetType DEF Pointers
<1>5. \A k \in ReplicaID : Get(object[k].version, k) <= Get(object'[k].version, k)
  BY <1>2, <1>3
<1>6. ASSUME NEW x \in Copies'
      PROVE  x.writes = Past(x.version) /\ Known(x.version)'
  <2>1. CASE x = o
    <3>1. \A k \in ReplicaID : Get(o.version, k) <= Get(object'[k].version, k)
      BY <1>2, <1>4
    <3> QED
      BY <2>1, <3>1 DEF Known
  <2>2. CASE x \in Copies
    <3>1. x.writes = Past(x.version) /\ Known(x.version)
      BY <2>2, CopyFacts
    <3>2. \A k \in ReplicaID : Get(x.version, k) \in Nat
      BY <2>2, CopyFacts
    <3>3. \A k \in ReplicaID : Get(object'[k].version, k) \in Nat
      BY <1>2, <1>3, <1>4
    <3>4. \A k \in ReplicaID : Get(x.version, k) <= Get(object'[k].version, k)
      BY <1>3, <1>5, <3>1, <3>2, <3>3 DEF Known
    <3> QED
      BY <3>1, <3>4 DEF Known
  <2>3. x = o \/ x \in Copies
    BY <1>2, <1>6 DEF Copies
  <2> QED
    BY <2>1, <2>2, <2>3
<1>7. \A k \in ReplicaID : Get(object'[k].version, k) <= MaxWrites
  BY <1>2 DEF HistoryInv
<1> QED
  BY <1>2, <1>6, <1>7 DEF HistoryInv

\* One more write of r on top of a known object that has all of r's writes
\* is an object r may store.
LEMMA WrittenKeeps ==
    ASSUME HistoryInv, NEW r \in ReplicaID, Made(r) < MaxWrites,
           NEW v \in Vectors, NEW W, W = Past(v), Known(v),
           Get(v, r) = Get(object[r].version, r),
           object' = [object EXCEPT ![r] = Written(r, v, W)], net' = net
    PROVE  HistoryInv' /\ object'[r].writes = W \cup {<<r, Made(r) + 1>>}
<1> DEFINE o == Written(r, v, W)
           n == Get(v, r)
<1>1. Made(r) = n /\ n \in Nat /\ n < MaxWrites /\ n < MaxUint64
  BY MadeIsCounter, GetType, MaxWritesAssumption, MaxUint64Assumption DEF Pointers
<1>2. o.version = Increment(v, r) /\ o.writes = W \cup {<<r, n + 1>>}
  BY <1>1 DEF Written
<1>3. o.version \in Vectors /\ \A k : Get(o.version, k) = IF k = r THEN n + 1 ELSE Get(v, k)
  BY <1>1, <1>2, IncrementFacts
<1>4. o.writes = Past(o.version)
  BY <1>1, <1>2, PastIncrement
<1>5. o.writes \subseteq WriteID
  BY <1>4 DEF Past
<1>6. o \in Object
  BY <1>3, <1>5 DEF Object, Written
<1>7. \A k \in ReplicaID \ {r} : Get(o.version, k) <= Get(object[k].version, k)
  BY <1>3 DEF Known
<1>8. Get(object[r].version, r) <= Get(o.version, r) /\ Get(o.version, r) <= MaxWrites
  BY <1>1, <1>3, MaxWritesAssumption
<1>9. object'[r] = o
  BY DEF HistoryInv, TypeOK
<1>10. object' = [object EXCEPT ![r] = o]
  OBVIOUS
<1> HIDE DEF o
<1>11. HistoryInv'
  BY <1>3, <1>4, <1>6, <1>7, <1>8, <1>10, StoreKeeps, Zenon
<1> QED
  BY <1>1, <1>2, <1>9, <1>11

\* A resolved conflict is a known object with the writes of both sides, and
\* has no write of r that r itself did not have.
LEMMA MergedFacts ==
    ASSUME HistoryInv, NEW r \in ReplicaID, NEW o \in net
    PROVE  /\ Merged(r, o).version \in Vectors
           /\ Merged(r, o).writes = object[r].writes \cup o.writes
           /\ Merged(r, o).writes = Past(Merged(r, o).version)
           /\ Known(Merged(r, o).version)
           /\ Get(Merged(r, o).version, r) = Get(object[r].version, r)
<1> DEFINE v == object[r].version
           w == o.version
           m == Merge(v, w)
<1>1. object[r] \in Copies /\ o \in Copies
  BY DEF Copies
<1>2. /\ v \in Vectors /\ w \in Vectors
      /\ object[r].writes = Past(v) /\ o.writes = Past(w) /\ Known(v) /\ Known(w)
      /\ \A k \in ReplicaID : Get(v, k) \in Nat /\ Get(w, k) \in Nat
  BY <1>1, CopyFacts
<1>3. Merged(r, o) = [version |-> m, writes |-> object[r].writes \cup o.writes]
  BY <1>2, VersionsOfVector DEF Merged
<1>4. m \in Vectors /\ \A k : Get(m, k) = IF Get(w, k) > Get(v, k) THEN Get(w, k) ELSE Get(v, k)
  BY <1>2, MergeIsMax DEF Pointers
<1>5. Past(m) = Past(v) \cup Past(w)
  BY <1>2, PastMerge
<1>6. Known(m)
  BY <1>2, <1>4 DEF Known
<1>7. Get(m, r) = Get(v, r)
  BY <1>2, <1>4 DEF Known
<1> HIDE DEF m
<1> QED
  BY <1>2, <1>3, <1>4, <1>5, <1>6, <1>7

\* What each step does to the stored object of one replica.
LEMMA HistoryStep ==
    ASSUME HistoryInv, Next
    PROVE  /\ HistoryInv'
           /\ \A r \in ReplicaID : object[r].writes \subseteq object'[r].writes
<1> DEFINE Grows == \A r \in ReplicaID : object[r].writes \subseteq object'[r].writes
<1>0. object \in [ReplicaID -> Object] /\ net \in SUBSET Object
  BY DEF HistoryInv, TypeOK
<1>1. ASSUME NEW r \in ReplicaID, Write(r)
      PROVE  HistoryInv' /\ Grows
  <2>1. object[r].version \in Vectors /\ object[r].writes = Past(object[r].version)
        /\ Known(object[r].version)
    BY <1>1, CopyFacts DEF Copies
  <2>2. HistoryInv' /\ object'[r].writes = object[r].writes \cup {<<r, Made(r) + 1>>}
    BY <1>1, <2>1, WrittenKeeps, Zenon DEF Write
  <2> QED
    BY <1>0, <1>1, <2>2 DEF Write
<1>2. ASSUME NEW r \in ReplicaID, Replicate(r)
      PROVE  HistoryInv' /\ Grows
  <2>1. object[r] \in Object /\ Copy(object[r].version) = object[r].version
    BY <1>0, <1>2, VersionsOfVector DEF Object
  <2>2. [object[r] EXCEPT !.version = Copy(object[r].version)] = object[r]
    BY <2>1 DEF Object
  <2>3. object' = object /\ net' = net \cup {object[r]}
    BY <1>2, <2>2 DEF Replicate
  <2>4. Copies' = Copies
    BY <1>2, <2>3 DEF Copies
  <2>5. TypeOK'
    BY <1>0, <2>1, <2>3 DEF TypeOK
  <2> QED
    BY <2>3, <2>4, <2>5 DEF HistoryInv, Known
<1>3. ASSUME NEW r \in ReplicaID, NEW o \in net, Receive(r, o)
      PROVE  HistoryInv' /\ Grows
  <2>1. object[r] \in Copies /\ o \in Copies
    BY <1>3 DEF Copies
  <2>2. /\ object[r].version \in Vectors /\ o.version \in Vectors /\ o \in Object
        /\ object[r].writes = Past(object[r].version) /\ o.writes = Past(o.version)
        /\ Known(o.version)
        /\ \A k \in ReplicaID : Get(object[r].version, k) <= MaxWrites
        /\ Get(o.version, r) <= MaxWrites
    BY <1>3, <2>1, CopyFacts
  <2>3. Below(object[r].version, o.version)
    BY <1>3, <2>2, ComparePointwise DEF Receive, IsDominatedBy, HappenedBefore, Pointers
  <2>4. object[r].writes \subseteq o.writes
    BY <2>2, <2>3, PastOrder
  <2>5. Get(object[r].version, r) <= Get(o.version, r)
    BY <1>3, <2>3 DEF Below
  <2>6. HistoryInv'
    BY <1>3, <2>2, <2>5, StoreKeeps, Zenon DEF Receive, Known
  <2> QED
    BY <1>0, <1>3, <2>4, <2>6 DEF Receive
<1>4. ASSUME NEW r \in ReplicaID, NEW o \in net, Resolve(r, o)
      PROVE  HistoryInv' /\ Grows
  <2> DEFINE m == Merged(r, o)
  <2>1. /\ m.version \in Vectors /\ m.writes = object[r].writes \cup o.writes
        /\ m.writes = Past(m.version) /\ Known(m.version)
        /\ Get(m.version, r) = Get(object[r].version, r)
    BY <1>4, MergedFacts
  <2>2. m.writes \subseteq WriteID
    BY <2>1 DEF Past
  <2>3. m \in Object
    BY <2>1, <2>2 DEF Merged, Object
  <2>4. Get(object[r].version, r) <= Get(m.version, r) /\ Get(m.version, r) <= MaxWrites
    BY <1>4, <2>1, CopyFacts DEF Copies
  <2>5. object' = [object EXCEPT ![r] = m] /\ net' = net
    BY <1>4 DEF Resolve
  <2> HIDE DEF m
  <2>6. HistoryInv'
    BY <1>4, <2>1, <2>3, <2>4, <2>5, StoreKeeps, Zenon DEF Known
  <2> QED
    BY <1>0, <1>4, <2>1, <2>5, <2>6
<1>5. ASSUME NEW r \in ReplicaID, NEW o \in net, ResolveAndWrite(r, o)
      PROVE  HistoryInv' /\ Grows
  <2> DEFINE m == Merged(r, o)
  <2>1. /\ m.version \in Vectors /\ m.writes = object[r].writes \cup o.writes
        /\ m.writes = Past(m.version) /\ Known(m.version)
        /\ Get(m.version, r) = Get(object[r].version, r)
    BY <1>5, MergedFacts
  <2>2. /\ Made(r) < MaxWrites
        /\ object' = [object EXCEPT ![r] = Written(r, m.version, m.writes)] /\ net' = net
    BY <1>5 DEF ResolveAndWrite
  <2> HIDE DEF m
  <2>3. HistoryInv' /\ object'[r].writes = m.writes \cup {<<r, Made(r) + 1>>}
    BY <1>5, <2>1, <2>2, WrittenKeeps, Zenon
  <2> QED
    BY <1>0, <1>5, <2>1, <2>2, <2>3
<1> HIDE DEF Grows
<1>6. HistoryInv' /\ Grows
  BY <1>1, <1>2, <1>3, <1>4, <1>5 DEF Next
<1> QED
  BY <1>6 DEF Grows

\* The invariant holds initially, when nothing has been written.
LEMMA HistoryInit ==
    ASSUME Init
    PROVE  HistoryInv
<1> DEFINE e == NewVersionVector({})
<1>1. e \in Vectors /\ \A k : Get(e, k) = 0
  BY NewVersionVectorFacts
<1>2. Past(e) = {}
  BY <1>1, MaxWritesAssumption DEF Past, WriteID
<1> HIDE DEF e
<1>3. /\ object = [r \in ReplicaID |-> [version |-> e, writes |-> {}]] /\ net = {}
  BY DEF Init, e
<1>4. TypeOK
  BY <1>1, <1>3 DEF TypeOK, Object
<1>5. \A o \in Copies : o.version = e /\ o.writes = {}
  BY <1>3 DEF Copies
<1>6. \A r \in ReplicaID : object[r].version = e
  BY <1>3
<1>7. 0 <= 0 /\ 0 <= MaxWrites
  BY MaxWritesAssumption
<1>8. Known(e) /\ \A r \in ReplicaID : Get(object[r].version, r) <= MaxWrites
  <2>1. \A r \in ReplicaID : Get(object[r].version, r) = 0
    BY <1>1, <1>6, Zenon
  <2> QED
    BY <1>1, <1>7, <2>1, Zenon DEF Known
<1>9. \A o \in Copies : o.writes = Past(o.version) /\ Known(o.version)
  BY <1>2, <1>5, <1>8, Zenon
<1> QED
  BY <1>4, <1>8, <1>9, Zenon DEF HistoryInv

\* The invariant holds in every state of every execution.
LEMMA HistoryAlways == Spec => []HistoryInv
<1>1. HistoryInv /\ [Next]_vars => HistoryInv'
  <2> SUFFICES ASSUME HistoryInv, UNCHANGED vars
               PROVE  HistoryInv'
    BY HistoryStep
  <2> QED
    BY DEF HistoryInv, TypeOK, Copies, Known, vars
<1> QED
  BY <1>1, HistoryInit, PTL DEF Spec

-----------------------------------------------------------------------------
(* The theorems.                                                           *)

\* Stored and travelling copies stay well formed: writes within MaxWrites
\* never take a counter out of uint64.
THEOREM ObjectTypeCorrect == Spec => []TypeOK
BY HistoryAlways, PTL DEF HistoryInv

\* Compare tells the true relation of the histories of any two copies,
\* whatever copies the network lost, repeated or reordered.
THEOREM VersionsAreHistory == Spec => []VersionsTellHistory
<1>1. HistoryInv => VersionsTellHistory
  <2> SUFFICES ASSUME HistoryInv, NEW x \in Copies, NEW y \in Copies
               PROVE  Compare(x.version, y.version) = TrueRelation(x, y)
    BY DEF VersionsTellHistory
  <2>1. /\ x.version \in Vectors /\ y.version \in Vectors
        /\ x.writes = Past(x.version) /\ y.writes = Past(y.version)
        /\ \A k \in ReplicaID : Get(x.version, k) <= MaxWrites /\ Get(y.version, k) <= MaxWrites
    BY CopyFacts
  <2>2. /\ x.writes \subseteq y.writes <=> Below(x.version, y.version)
        /\ y.writes \subseteq x.writes <=> Below(y.version, x.version)
    BY <2>1, PastOrder
  <2>3. x.writes = y.writes <=> x.writes \subseteq y.writes /\ y.writes \subseteq x.writes
    OBVIOUS
  <2> DEFINE le == Below(x.version, y.version)
             ge == Below(y.version, x.version)
             C == Compare(x.version, y.version)
  <2>4. /\ C = "Equal" <=> le /\ ge
        /\ C = "Before" <=> le /\ ~ge
        /\ C = "After" <=> ~le /\ ge
        /\ C = "Concurrent" <=> ~le /\ ~ge
    BY <2>1, ComparePointwise DEF Pointers
  <2>5. TrueRelation(x, y) = IF le THEN IF ge THEN "Equal" ELSE "Before"
                             ELSE IF ge THEN "After" ELSE "Concurrent"
    BY <2>2, <2>3 DEF TrueRelation
  <2> HIDE DEF le, ge, C
  <2>6. C = TrueRelation(x, y)
    BY <2>4, <2>5
  <2> QED
    BY <2>6 DEF C
<1> QED
  BY <1>1, HistoryAlways, PTL

\* No step of a replica drops a write it has stored.
THEOREM NoUpdateLost == Spec => NoLostUpdate
<1> DEFINE Keeps == \A r \in ReplicaID : object[r].writes \subseteq object'[r].writes
<1>1. HistoryInv /\ [Next]_vars => [Keeps]_vars
  BY HistoryStep
<1>2. (\A r \in ReplicaID : object[r].writes \subseteq object'[r].writes) <=> Keeps
  OBVIOUS
<1> QED
  BY <1>1, HistoryAlways, PTL DEF Spec, NoLostUpdate

\* A set of natural numbers has a least element.
LEMMA LeastNumber ==
    ASSUME NEW T \in SUBSET Nat, T # {}
    PROVE  \E x \in T : \A y \in T : x <= y
<1>1. PICK x \in T : \A y \in T : ~(<<y, x>> \in OpToRel(<, Nat))
  BY WFMin, NatLessThanWellFounded
<1>2. \A y \in T : ~(y < x)
  BY <1>1, Zenon DEF OpToRel
<1> QED
  BY <1>2

\* Every stored object is covered by a sibling: of the objects that have all
\* its writes, one with the most writes is dominated by none.
LEMMA CoveredBySibling ==
    ASSUME HistoryInv, VersionsTellHistory, NEW r \in ReplicaID
    PROVE  \E s \in Siblings(object) : object[r].writes \subseteq object[s].writes
<1> DEFINE size(k) == Cardinality(object[k].writes)
           above == {k \in ReplicaID : object[r].writes \subseteq object[k].writes}
           all == Cardinality(WriteID)
           missing == {all - size(k) : k \in above}
<1>1. object \in [ReplicaID -> Object] /\ DOMAIN object = ReplicaID
  BY DEF HistoryInv, TypeOK
<1>2. IsFiniteSet(WriteID) /\ all \in Nat
  <2>1. IsFiniteSet(1 .. MaxWrites)
    BY MaxWritesAssumption, FS_Interval
  <2>2. IsFiniteSet(ReplicaID \X (1 .. MaxWrites))
    BY <2>1, ReplicaAssumption, FS_Product, Zenon
  <2> QED
    BY <2>2, FS_CardinalityType DEF WriteID
<1>3. \A k \in ReplicaID : object[k].writes \in SUBSET WriteID
  BY <1>1 DEF Object
<1>4. \A k \in ReplicaID : /\ IsFiniteSet(object[k].writes)
                           /\ size(k) \in Nat /\ size(k) <= all
  BY <1>2, <1>3, FS_Subset, FS_CardinalityType
<1>5. missing \in SUBSET Nat /\ missing # {}
  <2>1. r \in above
    OBVIOUS
  <2>2. \A k \in above : all - size(k) \in Nat
    BY <1>2, <1>4
  <2> QED
    BY <2>1, <2>2
<1>6. PICK s \in above : \A k \in above : all - size(s) <= all - size(k)
  <2>1. PICK x \in missing : \A y \in missing : x <= y
    <3> HIDE DEF missing
    <3> QED
      BY <1>5, LeastNumber
  <2>2. PICK s \in above : x = all - size(s)
    BY <2>1
  <2>3. \A k \in above : all - size(k) \in missing
    OBVIOUS
  <2> QED
    BY <2>1, <2>2, <2>3
<1>7. ASSUME NEW k \in ReplicaID, IsDominatedBy(object[s].version, object[k].version)
      PROVE  FALSE
  <2>1. TrueRelation(object[s], object[k]) = "Before"
    BY <1>7, <1>6 DEF VersionsTellHistory, Copies, IsDominatedBy, HappenedBefore
  <2>2. object[s].writes # object[k].writes /\ object[s].writes \subseteq object[k].writes
    BY <2>1 DEF TrueRelation
  <2>3. k \in above
    BY <1>6, <2>2
  <2>4. size(s) <= size(k) /\ size(s) # size(k)
    BY <1>4, <1>6, <1>7, <2>2, FS_Subset
  <2>5. all - size(s) <= all - size(k)
    BY <1>6, <2>3
  <2>6. size(s) \in Nat /\ size(k) \in Nat
    BY <1>4, <1>6, <1>7
  <2> QED
    BY <1>2, <2>4, <2>5, <2>6
<1>8. s \in Siblings(object)
  BY <1>1, <1>6, <1>7 DEF Siblings
<1> QED
  BY <1>6, <1>8

\* The siblings a reader keeps reflect every write any replica stores.
THEOREM ReadRepairIsComplete == Spec => []SiblingsCoverAllWrites
<1>1. HistoryInv /\ VersionsTellHistory => SiblingsCoverAllWrites
  <2> SUFFICES ASSUME HistoryInv, VersionsTellHistory
               PROVE  SiblingsCoverAllWrites
    OBVIOUS
  <2>1. Siblings(object) \subseteq ReplicaID
    BY DEF Siblings, HistoryInv, TypeOK
  <2> QED
    BY <2>1, CoveredBySibling DEF SiblingsCoverAllWrites
<1> QED
  BY <1>1, HistoryAlways, VersionsAreHistory, PTL
=============================================================================
