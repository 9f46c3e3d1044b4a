---------------------------- MODULE ClockProofs -----------------------------
(***************************************************************************)
(* What a client of clock/clock.go may rely on, that the clocks of the     *)
(* message-passing protocol decide causality, and that the serializers of  *)
(* package message keep what a clock means: for every set of nodes, every  *)
(* width of the counters, every bound on events below that width, every    *)
(* limit of the serializers and every pattern of loss, duplication and     *)
(* reordering.                                                             *)
(***************************************************************************)
EXTENDS ClockAPI, CausalOrder, MessageCodec, TLAPS

-----------------------------------------------------------------------------
(* Types.                                                                  *)

\* A clock is a map from some of the node IDs to int64 values.
LEMMA ClocksUnfolded ==
    ASSUME NEW c
    PROVE  c \in Clocks <=> DOMAIN c \subseteq NodeID /\ c \in [DOMAIN c -> Int64]
<1>1. ASSUME c \in Clocks
      PROVE  DOMAIN c \subseteq NodeID /\ c \in [DOMAIN c -> Int64]
  <2>1. PICK S \in SUBSET NodeID : c \in [S -> Int64]
    BY <1>1 DEF Clocks
  <2> QED
    BY <2>1
<1>2. ASSUME DOMAIN c \subseteq NodeID, c \in [DOMAIN c -> Int64]
      PROVE  c \in Clocks
  BY <1>2 DEF Clocks
<1> QED
  BY <1>1, <1>2

\* int64 values are integers, and zero is one of them.
LEMMA Int64Facts == Int64 \subseteq Int /\ 0 \in Int64
BY MaxInt64Assumption DEF Int64

\* Reading nil as the empty map always gives a clock.
LEMMA EntriesType ==
    ASSUME NEW c \in ClockPtrs
    PROVE  /\ Entries(c) \in Clocks
           /\ Nodes(c) \subseteq NodeID
           /\ Entries(c) \in [Nodes(c) -> Int64]
<1>1. EmptyClock \in Clocks
  BY ClocksUnfolded, Zenon DEF EmptyClock, NewClock
<1>2. Entries(c) \in Clocks
  BY <1>1 DEF Entries, ClockPtrs
<1> QED
  BY <1>2, ClocksUnfolded DEF Nodes

\* Get answers an int64, zero for a node that is not present.
LEMMA GetType ==
    ASSUME NEW c \in ClockPtrs, NEW n
    PROVE  /\ Get(c, n) \in Int64
           /\ Get(c, n) \in Int
           /\ n \notin Nodes(c) => Get(c, n) = 0
BY EntriesType, Int64Facts, Zenon DEF Get

\* A non-nil clock is its own map.
LEMMA EntriesOfClock ==
    ASSUME NEW c \in Clocks
    PROVE  Entries(c) = c /\ Nodes(c) = DOMAIN c
BY NilClockAssumption DEF Entries, Nodes

\* Assigning an int64 to a node of a clock gives a clock, and changes what
\* Get answers for that node only.
LEMMA PutFacts ==
    ASSUME NEW c \in Clocks, NEW n \in NodeID, NEW v \in Int64
    PROVE  /\ Put(c, n, v) \in Clocks
           /\ \A k : Get(Put(c, n, v), k) = IF k = n THEN v ELSE Get(c, k)
<1> DEFINE p == Put(c, n, v)
<1>1. DOMAIN c \subseteq NodeID /\ c \in [DOMAIN c -> Int64]
  BY ClocksUnfolded
<1>2. /\ DOMAIN p = DOMAIN c \cup {n}
      /\ p \in [DOMAIN c \cup {n} -> Int64]
      /\ \A k \in DOMAIN p : p[k] = IF k = n THEN v ELSE c[k]
  BY <1>1 DEF Put
<1>3. p \in Clocks
  BY <1>1, <1>2, ClocksUnfolded
<1>4. Entries(p) = p /\ Nodes(p) = DOMAIN p /\ Entries(c) = c /\ Nodes(c) = DOMAIN c
  BY <1>3, EntriesOfClock
<1>5. ASSUME NEW k
      PROVE  Get(p, k) = IF k = n THEN v ELSE Get(c, k)
  BY <1>2, <1>4 DEF Get
<1> QED
  BY <1>3, <1>5

-----------------------------------------------------------------------------
(* Operations.                                                             *)

\* NewClock of any nodes answers zero for every node.
LEMMA NewClockFacts ==
    ASSUME NEW S \in SUBSET NodeID
    PROVE  NewClock(S) \in Clocks /\ \A k : Get(NewClock(S), k) = 0
<1>1. NewClock(S) \in [S -> Int64]
  BY Int64Facts DEF NewClock
<1>2. NewClock(S) \in Clocks
  BY <1>1 DEF Clocks
<1>3. \A k \in S : NewClock(S)[k] = 0
  BY DEF NewClock
<1> QED
  BY <1>1, <1>2, <1>3, EntriesOfClock DEF Get

\* Increment adds one to its node's value, unless the counter is at its
\* largest value, and leaves the other nodes alone.
LEMMA IncrementFacts ==
    ASSUME NEW c \in Clocks, NEW n \in NodeID
    PROVE  /\ Increment(c, n) \in Clocks
           /\ Get(c, n) < MaxInt64 =>
                 \A k : Get(Increment(c, n), k) = IF k = n THEN Get(c, n) + 1 ELSE Get(c, k)
<1>1. Get(c, n) \in Int64
  BY GetType DEF ClockPtrs
<1>2. WrapInt64(Get(c, n) + 1) \in Int64
  BY <1>1, MaxInt64Assumption DEF WrapInt64, Int64
<1>3. Get(c, n) < MaxInt64 => WrapInt64(Get(c, n) + 1) = Get(c, n) + 1
  BY <1>1, MaxInt64Assumption DEF WrapInt64, Int64
<1> QED
  BY <1>2, <1>3, PutFacts DEF Increment

\* Merge answers, for every node, the larger of the two values for the nodes
\* of the argument and the receiver's own value for the others.
LEMMA MergeFacts ==
    ASSUME NEW c \in Clocks, NEW other \in ClockPtrs
    PROVE  /\ Merge(c, other) \in Clocks
           /\ \A k : Get(Merge(c, other), k) =
                        IF k \in Nodes(other) /\ Get(other, k) > Get(c, k)
                        THEN Get(other, k) ELSE Get(c, k)
<1> DEFINE raised == {n \in Nodes(other) : Get(other, n) > Get(c, n)}
           zero == {n \in Nodes(other) : Get(c, n) = 0 /\ Get(other, n) = 0}
           m == Merge(c, other)
<1>1. Entries(c) = c /\ Nodes(c) = DOMAIN c /\ DOMAIN c \subseteq NodeID
  BY EntriesOfClock, ClocksUnfolded
<1>2. Nodes(other) \subseteq NodeID
  BY EntriesType
<1>3. \A k : Get(c, k) \in Int64 /\ Get(other, k) \in Int64
  BY GetType DEF ClockPtrs
<1>4. /\ DOMAIN m = DOMAIN c \cup raised \cup zero
      /\ \A k \in DOMAIN m : m[k] = IF k \in raised THEN Get(other, k) ELSE Get(c, k)
      /\ m \in [DOMAIN c \cup raised \cup zero -> Int64]
  BY <1>3 DEF Merge
<1>5. m \in Clocks
  BY <1>1, <1>2, <1>4, ClocksUnfolded
<1>6. Entries(m) = m /\ Nodes(m) = DOMAIN m
  BY <1>5, EntriesOfClock
<1>7. ASSUME NEW k
      PROVE  Get(m, k) = IF k \in raised THEN Get(other, k) ELSE Get(c, k)
  <2>1. CASE k \in DOMAIN m
    BY <2>1, <1>4, <1>6 DEF Get
  <2>2. CASE k \notin DOMAIN m
    <3>1. k \notin raised /\ k \notin DOMAIN c
      BY <2>2, <1>4
    <3>2. Get(m, k) = 0 /\ Get(c, k) = 0
      BY <2>2, <3>1, <1>1, <1>6 DEF Get
    <3> QED
      BY <3>1, <3>2
  <2> QED
    BY <2>1, <2>2
<1> QED
  BY <1>5, <1>7

-----------------------------------------------------------------------------
(* Comparison.                                                             *)

\* The flags hasGreater and hasLess of Compare, in terms of the pointwise
\* order: visiting the nodes of either clock is as good as visiting all.
LEMMA FlagsArePointwise ==
    ASSUME NEW c \in ClockPtrs, NEW other \in ClockPtrs
    PROVE  /\ HasGreater(c, other) <=> ~Below(c, other)
           /\ HasLess(c, other) <=> ~Below(other, c)
<1>1. \A k : /\ Get(c, k) \in Int /\ Get(other, k) \in Int
             /\ k \notin Nodes(c) \cup Nodes(other) => Get(c, k) = 0 /\ Get(other, k) = 0
  BY GetType
<1>2. Nodes(c) \cup Nodes(other) \subseteq NodeID
  BY EntriesType
<1> QED
  BY <1>1, <1>2 DEF HasGreater, HasLess, Below

\* Against a clock without nodes, a clock without negative entries is above
\* it, and is below it exactly when it has no positive entry.
LEMMA PositiveIsPointwise ==
    ASSUME NEW c \in ClockPtrs, NEW other \in ClockPtrs,
           NonNegative(c), Nodes(other) = {}
    PROVE  Below(other, c) /\ (HasPositive(c) <=> ~Below(c, other))
<1>1. \A k : /\ Get(c, k) \in Int /\ Get(other, k) = 0
             /\ k \notin Nodes(c) => Get(c, k) = 0
  BY GetType
<1>2. Nodes(c) \subseteq NodeID
  BY EntriesType
<1> QED
  BY <1>1, <1>2 DEF HasPositive, Below, NonNegative

\* Compare is the pointwise order on two clocks with nodes, and on any two
\* clocks without negative entries.
LEMMA ComparePointwise ==
    ASSUME NEW c \in ClockPtrs, NEW other \in ClockPtrs,
           \/ Nodes(c) # {} /\ Nodes(other) # {}
           \/ NonNegative(c) /\ NonNegative(other)
    PROVE  Compare(c, other) = PointwiseCompare(c, other)
<1>1. CASE Nodes(c) = {}
  <2>1. Below(c, other) /\ (HasPositive(other) <=> ~Below(other, c))
    BY <1>1, PositiveIsPointwise
  <2> QED
    BY <1>1, <2>1 DEF Compare, PointwiseCompare
<1>2. CASE Nodes(c) # {} /\ Nodes(other) = {}
  <2>1. Below(other, c) /\ (HasPositive(c) <=> ~Below(c, other))
    BY <1>2, PositiveIsPointwise
  <2> QED
    BY <1>2, <2>1 DEF Compare, PointwiseCompare
<1>3. CASE Nodes(c) # {} /\ Nodes(other) # {}
  BY <1>3, FlagsArePointwise DEF Compare, PointwiseCompare
<1> QED
  BY <1>1, <1>2, <1>3

\* Ancestor is the pointwise order on clocks without negative entries.
LEMMA AncestorPointwise ==
    ASSUME NEW c \in ClockPtrs, NEW other \in ClockPtrs,
           NonNegative(c), NonNegative(other)
    PROVE  Ancestor(c, other) <=> Below(c, other)
BY ComparePointwise DEF Ancestor, PointwiseCompare

\* A clock without negative entries answers no negative value, for any node.
LEMMA NonNegativeGet ==
    ASSUME NEW c \in ClockPtrs
    PROVE  NonNegative(c) <=> \A k : Get(c, k) >= 0
BY GetType DEF NonNegative

\* Merging clocks without negative entries gives the pointwise maximum.
LEMMA MergeIsMax ==
    ASSUME NEW c \in Clocks, NEW other \in ClockPtrs,
           NonNegative(c), NonNegative(other)
    PROVE  /\ NonNegative(Merge(c, other))
           /\ \A k : Get(Merge(c, other), k) =
                        IF Get(other, k) > Get(c, k) THEN Get(other, k) ELSE Get(c, k)
<1>1. c \in ClockPtrs /\ Merge(c, other) \in ClockPtrs
  BY MergeFacts DEF ClockPtrs
<1>2. \A k : Get(c, k) \in Int /\ Get(c, k) >= 0 /\ Get(other, k) \in Int /\ Get(other, k) >= 0
  BY <1>1, GetType, NonNegativeGet
<1>3. \A k : k \notin Nodes(other) => Get(other, k) = 0
  BY GetType
<1>4. \A k : Get(Merge(c, other), k) =
               IF Get(other, k) > Get(c, k) THEN Get(other, k) ELSE Get(c, k)
  BY <1>2, <1>3, MergeFacts
<1> QED
  BY <1>1, <1>2, <1>4, NonNegativeGet

-----------------------------------------------------------------------------
(***************************************************************************)
(* The client of ClockAPI.                                                 *)
(***************************************************************************)

\* Every call leaves nil or a well-formed clock of int64 values behind: no
\* increment, at the largest value either, leaves the range of int64.
THEOREM ApiTypeCorrect == ApiSpec => []ApiTypeOK
<1>1. ApiInit => ApiTypeOK
  BY Zenon DEF ApiInit, ApiTypeOK, ClockPtrs
<1>2. ApiTypeOK /\ [ApiNext]_apiVars => ApiTypeOK'
  <2> SUFFICES ASSUME ApiTypeOK, [ApiNext]_apiVars
               PROVE  ApiTypeOK'
    OBVIOUS
  <2> USE DEF ApiTypeOK, ClockPtrs
  <2>1. ASSUME NEW nodes \in SUBSET NodeID, CallNewClock(nodes)
        PROVE  ApiTypeOK'
    BY <2>1, NewClockFacts DEF CallNewClock
  <2>2. CASE CallCopy
    BY <2>2, EntriesType DEF CallCopy, Copy
  <2>3. ASSUME NEW node \in NodeID, CallIncrement(node)
        PROVE  ApiTypeOK'
    BY <2>3, IncrementFacts DEF CallIncrement, MutationPanics
  <2>4. ASSUME NEW node \in NodeID, NEW value \in SetValues, CallSet(node, value)
        PROVE  ApiTypeOK'
    BY <2>4, PutFacts, SetValuesAssumption DEF CallSet, MutationPanics, Set
  <2>5. CASE CallMerge
    BY <2>5, MergeFacts DEF CallMerge, MergePanics
  <2>6. CASE Swap
    BY <2>6 DEF Swap
  <2>7. CASE Drop
    BY <2>7 DEF Drop
  <2>8. CASE Crashed \/ UNCHANGED apiVars
    BY <2>8 DEF Crashed, apiVars
  <2> QED
    BY <2>1, <2>2, <2>3, <2>4, <2>5, <2>6, <2>7, <2>8 DEF ApiNext
<1> QED
  BY <1>1, <1>2, PTL DEF ApiSpec

\* Compare's answer is mirrored when its operands are exchanged, whatever
\* the two clocks are.
THEOREM CompareMirrored == ApiSpec => []CompareIsMirrored
<1>1. ApiTypeOK => CompareIsMirrored
  <2> SUFFICES ASSUME ApiTypeOK
               PROVE  Compare(b, a) = Reverse(Compare(a, b))
    BY DEF CompareIsMirrored
  <2>1. (HasGreater(b, a) <=> HasLess(a, b)) /\ (HasLess(b, a) <=> HasGreater(a, b))
    BY GetType DEF ApiTypeOK, HasGreater, HasLess
  <2>2. \A c : Nodes(c) = {} => ~HasPositive(c)
    BY DEF HasPositive
  <2> QED
    BY <2>1, <2>2 DEF Compare, Reverse
<1> QED
  BY <1>1, ApiTypeCorrect, PTL

\* Compare decides the pointwise order of two clocks, negative entries
\* included, unless one has a negative entry and the other no node.
THEOREM ComparePointwiseOrder == ApiSpec => []CompareIsPointwise
<1>1. ApiTypeOK => CompareIsPointwise
  BY ComparePointwise DEF ApiTypeOK, CompareIsPointwise
<1> QED
  BY <1>1, ApiTypeCorrect, PTL

\* Merge computes the least upper bound in the order Compare decides.
THEOREM MergeLeastUpperBound == ApiSpec => []MergeIsLeastUpperBound
<1>1. ApiTypeOK => MergeIsLeastUpperBound
  <2> SUFFICES ASSUME ApiTypeOK, a # NilClock, NonNegative(a), NonNegative(b)
               PROVE  /\ Ancestor(a, Merge(a, b)) /\ Ancestor(b, Merge(a, b))
                      /\ \A c \in Clocks :
                            NonNegative(c) /\ Ancestor(a, c) /\ Ancestor(b, c)
                                => Ancestor(Merge(a, b), c)
    BY DEF MergeIsLeastUpperBound
  <2>1. a \in Clocks /\ a \in ClockPtrs /\ b \in ClockPtrs
    BY DEF ApiTypeOK, ClockPtrs
  <2>2. Merge(a, b) \in ClockPtrs /\ NonNegative(Merge(a, b))
    BY <2>1, MergeFacts, MergeIsMax, Zenon DEF ClockPtrs
  <2>3. \A k : Get(a, k) \in Int /\ Get(b, k) \in Int
    BY <2>1, GetType
  <2>4. Below(a, Merge(a, b)) /\ Below(b, Merge(a, b))
    BY <2>1, <2>3, MergeIsMax DEF Below
  <2>5. ASSUME NEW c \in Clocks, NonNegative(c), Ancestor(a, c), Ancestor(b, c)
        PROVE  Ancestor(Merge(a, b), c)
    <3>1. c \in ClockPtrs
      BY DEF ClockPtrs
    <3>2. Below(a, c) /\ Below(b, c)
      BY <2>1, <2>5, <3>1, AncestorPointwise
    <3>3. Below(Merge(a, b), c)
      BY <2>1, <3>2, MergeIsMax DEF Below
    <3> QED
      BY <2>2, <2>5, <3>1, <3>3, AncestorPointwise
  <2> QED
    BY <2>1, <2>2, <2>4, <2>5, AncestorPointwise
<1> QED
  BY <1>1, ApiTypeCorrect, PTL

-----------------------------------------------------------------------------
(***************************************************************************)
(* The clock that a serializer rebuilds, in ClockCodec.                    *)
(***************************************************************************)
INSTANCE FiniteSetTheorems

\* The positive entries of data for the nodes of s: what the decoding loop
\* has built when it has visited s.
Positive(data, s) == [n \in {k \in s : data[k] > 0} |-> data[n]]

\* The positive entries are a clock without negative entries, and answer for
\* each node what data holds.
LEMMA PositiveFacts ==
    ASSUME NEW S \in SUBSET NodeID, NEW data \in [S -> Int64], \A n \in S : data[n] >= 0,
           NEW s \in SUBSET S
    PROVE  /\ Positive(data, s) \in Clocks
           /\ \A k : Get(Positive(data, s), k) = IF k \in s THEN data[k] ELSE 0
<1> DEFINE p == Positive(data, s)
           D == {k \in s : data[k] > 0}
<1>1. D \subseteq NodeID
  OBVIOUS
<1>2. p \in [D -> Int64] /\ DOMAIN p = D /\ \A k \in D : p[k] = data[k]
  BY DEF Positive
<1>3. p \in Clocks
  BY <1>1, <1>2, ClocksUnfolded
<1>4. Entries(p) = p /\ Nodes(p) = D
  BY <1>2, <1>3, EntriesOfClock
<1>5. \A k \in s : data[k] \in Int /\ (k \notin D => data[k] = 0)
  <2>1. \A k \in s : data[k] \in Int64 /\ data[k] >= 0
    OBVIOUS
  <2>2. \A v \in Int64 : v \in Int
    BY Int64Facts
  <2> QED
    BY <2>1, <2>2
<1>6. \A k : Get(p, k) = IF k \in s THEN data[k] ELSE 0
  BY <1>2, <1>4, <1>5 DEF Get
<1> QED
  BY <1>3, <1>6

\* The value Ticks gives a temporary clock is what the loop computes that
\* increments it: no increment for 0, one more for v + 1.
LEMMA TicksCountUp ==
    ASSUME NEW n \in NodeID, NEW v \in 0 .. MaxInt64 - 1
    PROVE  Ticks(n, 0) = EmptyClock /\ Ticks(n, v + 1) = Increment(Ticks(n, v), n)
<1>1. EmptyClock \in Clocks /\ \A k : Get(EmptyClock, k) = 0
  BY NewClockFacts DEF EmptyClock
<1>2. v \in Int64 /\ v + 1 \in Int /\ v + 1 # 0 /\ v + 1 <= MaxInt64
  BY MaxInt64Assumption DEF Int64
<1>3. WrapInt64(v + 1) = v + 1
  BY <1>2, MaxInt64Assumption DEF WrapInt64
<1>4. Ticks(n, v + 1) = Put(EmptyClock, n, v + 1)
  BY <1>2 DEF Ticks
<1>5. CASE v = 0
  BY <1>1, <1>3, <1>4, <1>5 DEF Ticks, Increment
<1>6. CASE v # 0
  <2>1. Ticks(n, v) = Put(EmptyClock, n, v)
    BY <1>6 DEF Ticks
  <2>2. Get(Put(EmptyClock, n, v), n) = v
    BY <1>1, <1>2, PutFacts
  <2>3. Put(Put(EmptyClock, n, v), n, v + 1) = Put(EmptyClock, n, v + 1)
    BY DEF Put, EmptyClock, NewClock
  <2> QED
    BY <1>3, <1>4, <2>1, <2>2, <2>3 DEF Increment, Ticks
<1> QED
  BY <1>5, <1>6 DEF Ticks

\* Merging the temporary clock of a node not yet visited adds its entry when
\* it is positive.  Neither side depends on the order of the visits.
LEMMA RebuildStep ==
    ASSUME NEW S \in SUBSET NodeID, NEW data \in [S -> Int64], \A n \in S : data[n] >= 0,
           NEW s \in SUBSET S, NEW n \in S, n \notin s
    PROVE  Merge(Positive(data, s), Ticks(n, data[n])) = Positive(data, s \cup {n})
<1> DEFINE p == Positive(data, s)
           t == Ticks(n, data[n])
           D == {k \in s : data[k] > 0}
<1>1. p \in Clocks /\ Nodes(p) = D /\ DOMAIN p = D /\ \A k \in D : Get(p, k) = data[k]
  BY PositiveFacts, EntriesOfClock DEF Positive
<1>2. Get(p, n) = 0 /\ data[n] \in Int64 /\ data[n] \in Int /\ data[n] >= 0
  <2>1. Get(p, n) = 0
    BY PositiveFacts
  <2>2. data[n] \in Int64 /\ data[n] >= 0
    OBVIOUS
  <2> QED
    BY <2>1, <2>2, Int64Facts, Zenon
<1>3. EmptyClock \in Clocks /\ DOMAIN EmptyClock = {} /\ \A k : Get(EmptyClock, k) = 0
  BY NewClockFacts, Zenon DEF EmptyClock, NewClock
<1>4. CASE data[n] = 0
  <2>1. t = EmptyClock /\ Nodes(t) = {}
    BY <1>3, <1>4, EntriesOfClock DEF Ticks
  <2>2. Merge(p, t) = [k \in D |-> Get(p, k)]
    BY <1>1, <2>1 DEF Merge
  <2>3. {k \in s \cup {n} : data[k] > 0} = D
    BY <1>4
  <2> QED
    BY <1>1, <2>2, <2>3 DEF Positive
<1>5. CASE data[n] > 0
  <2>1. t = Put(EmptyClock, n, data[n])
    BY <1>2, <1>5 DEF Ticks
  <2>2. t \in Clocks /\ Get(t, n) = data[n]
    BY <2>1, <1>3, PutFacts
  <2>3. DOMAIN t = {n}
    BY <2>1, <1>3 DEF Put
  <2>4. Nodes(t) = {n}
    BY <2>2, <2>3, EntriesOfClock
  <2>5. Merge(p, t) = [k \in D \cup {n} |-> IF k = n THEN data[n] ELSE Get(p, k)]
    <3>1. {k \in Nodes(t) : Get(t, k) > Get(p, k)} = {n}
      BY <2>2, <2>4, <1>2, <1>5
    <3>2. {k \in Nodes(t) : Get(p, k) = 0 /\ Get(t, k) = 0} = {}
      BY <2>2, <2>4, <1>2, <1>5
    <3> QED
      BY <3>1, <3>2, <1>1, <2>2 DEF Merge
  <2>6. {k \in s \cup {n} : data[k] > 0} = D \cup {n}
    BY <1>5
  <2>7. \A k \in D \cup {n} : (IF k = n THEN data[n] ELSE Get(p, k)) = data[k]
    BY <1>1
  <2> QED
    BY <2>5, <2>6, <2>7 DEF Positive
<1> QED
  BY <1>2, <1>4, <1>5

\* One round of the decoding loop for every set s of nodes still to visit,
\* with the results for smaller sets taken from f.
Rounds(data, S, f) ==
    [s \in SUBSET S |->
        IF s = {} THEN EmptyClock
        ELSE LET n == CHOOSE k \in s : TRUE IN Merge(f[s \ {n}], Ticks(n, data[n]))]

\* The decoding loop, a fold over the entries, keeps exactly the positive ones.
LEMMA RebuildKeepsPositive ==
    ASSUME NEW S \in SUBSET NodeID, IsFiniteSet(S),
           NEW data \in [S -> Int64], \A n \in S : data[n] >= 0
    PROVE  RebuildClock(data) = Positive(data, S)
<1> DEFINE g == [s \in SUBSET S |-> Positive(data, s)]
           h == CHOOSE f : f = Rounds(data, S, f)
<1>1. RebuildClock(data) = h[S]
  BY DEF RebuildClock, FoldSet, MapThenFoldSet, Rounds
<1>2. Positive(data, {}) = EmptyClock
  BY DEF Positive, EmptyClock, NewClock
<1>3. ASSUME NEW s \in SUBSET S, s # {}, NEW n, n = CHOOSE k \in s : TRUE
      PROVE  n \in s /\ Merge(Positive(data, s \ {n}), Ticks(n, data[n])) = Positive(data, s)
  <2>1. n \in s
    BY <1>3, Zenon
  <2>2. s \ {n} \in SUBSET S /\ n \in S /\ n \notin s \ {n} /\ (s \ {n}) \cup {n} = s
    BY <2>1
  <2> QED
    BY <2>1, <2>2, RebuildStep
<1>4. g = Rounds(data, S, g)
  <2>1. ASSUME NEW s \in SUBSET S
        PROVE  g[s] = Rounds(data, S, g)[s]
    <3>1. CASE s = {}
      BY <1>2, <3>1 DEF Rounds
    <3>2. CASE s # {}
      <4>1. PICK n : n = CHOOSE k \in s : TRUE
        BY Zenon
      <4>2. s \ {n} \in SUBSET S
        OBVIOUS
      <4>3. Rounds(data, S, g)[s] = Merge(g[s \ {n}], Ticks(n, data[n]))
        BY <3>2, <4>1 DEF Rounds
      <4>4. g[s \ {n}] = Positive(data, s \ {n})
        BY <4>2
      <4>5. Merge(Positive(data, s \ {n}), Ticks(n, data[n])) = Positive(data, s)
        BY <3>2, <4>1, <1>3, Zenon
      <4> QED
        BY <4>3, <4>4, <4>5
    <3> QED
      BY <3>1, <3>2
  <2>2. Rounds(data, S, g) = [s \in SUBSET S |-> Rounds(data, S, g)[s]]
    BY DEF Rounds
  <2> HIDE DEF g
  <2>3. g = [s \in SUBSET S |-> g[s]]
    BY DEF g
  <2> QED
    BY <2>1, <2>2, <2>3, Zenon
<1>5. h = Rounds(data, S, h)
  BY <1>4, Zenon
<1> HIDE DEF g, h
<1> DEFINE Wrong == {s \in SUBSET S : h[s] # Positive(data, s)}
<1>6. Wrong = {}
  <2> SUFFICES ASSUME Wrong # {}
               PROVE  FALSE
    OBVIOUS
  <2>1. IsWellFoundedOn(StrictSubsetOrdering(S), SUBSET S)
    BY FS_StrictSubsetOrderingWellFounded, FS_FiniteSubsetsOfFinite, Zenon
  <2>2. Wrong \subseteq SUBSET S
    OBVIOUS
  <2>3. PICK s \in Wrong : \A r \in Wrong : ~(<<r, s>> \in StrictSubsetOrdering(S))
    BY <2>1, <2>2, WFMin, Zenon
  <2>4. CASE s = {}
    <3>1. h[s] = EmptyClock
      BY <1>5, <2>4 DEF Rounds
    <3> QED
      BY <1>2, <2>4, <3>1
  <2>5. CASE s # {}
    <3>1. PICK n : n = CHOOSE k \in s : TRUE
      BY Zenon
    <3>2. n \in s /\ Merge(Positive(data, s \ {n}), Ticks(n, data[n])) = Positive(data, s)
      BY <1>3, <2>5, <3>1, Zenon
    <3>3. s \ {n} \in SUBSET S /\ <<s \ {n}, s>> \in StrictSubsetOrdering(S)
      BY <3>2 DEF StrictSubsetOrdering
    <3>4. h[s \ {n}] = Positive(data, s \ {n})
      BY <2>3, <3>3
    <3>5. h[s] = Rounds(data, S, h)[s]
      BY <1>5, Zenon
    <3>6. Rounds(data, S, h)[s] = Merge(h[s \ {n}], Ticks(n, data[n]))
      BY <2>5, <3>1 DEF Rounds
    <3> QED
      BY <3>2, <3>4, <3>5, <3>6
  <2> QED
    BY <2>4, <2>5
<1>7. h[S] = Positive(data, S)
  BY <1>6
<1> QED
  BY <1>1, <1>7

\* Assigning an entry keeps the entries finite in number.
LEMMA PutFinite ==
    ASSUME NEW c \in Clocks, NEW n \in NodeID, NEW v \in Int64, IsFiniteSet(Nodes(c))
    PROVE  IsFiniteSet(Nodes(Put(c, n, v)))
<1>1. Nodes(Put(c, n, v)) = Nodes(c) \cup {n}
  BY PutFacts, EntriesOfClock DEF Put
<1> QED
  BY <1>1, FS_AddElement

\* An increment keeps the entries finite in number.
LEMMA IncrementFinite ==
    ASSUME NEW c \in Clocks, NEW n \in NodeID, IsFiniteSet(Nodes(c))
    PROVE  IsFiniteSet(Nodes(Increment(c, n)))
<1>1. WrapInt64(Get(c, n) + 1) \in Int64
  BY GetType, MaxInt64Assumption DEF WrapInt64, Int64, ClockPtrs
<1> QED
  BY <1>1, PutFinite DEF Increment

\* What reading back the entries of a clock without negative entries gives: a
\* clock with finitely many entries that answers every Get as the original does.
LEMMA RebuiltClock ==
    ASSUME NEW c \in ClockPtrs, IsFiniteSet(Nodes(c)), NonNegative(c)
    PROVE  /\ RebuildClock(ClockData(c)) \in Clocks
           /\ IsFiniteSet(Nodes(RebuildClock(ClockData(c))))
           /\ \A k : Get(RebuildClock(ClockData(c)), k) = Get(c, k)
<1> DEFINE S == Nodes(c)
           data == ClockData(c)
<1>1. S \in SUBSET NodeID
  BY EntriesType
<1>2. \A n \in S : Get(c, n) \in Int64 /\ Get(c, n) >= 0
  BY GetType DEF NonNegative
<1>3. data \in [S -> Int64] /\ \A n \in S : data[n] = Get(c, n)
  BY <1>2 DEF ClockData
<1>4. \A n \in S : data[n] >= 0
  BY <1>2, <1>3
<1> HIDE DEF data
<1>5. RebuildClock(data) = Positive(data, S)
  BY <1>1, <1>3, <1>4, RebuildKeepsPositive
<1>6. /\ Positive(data, S) \in Clocks
      /\ \A k : Get(Positive(data, S), k) = IF k \in S THEN data[k] ELSE 0
  BY <1>1, <1>3, <1>4, PositiveFacts
<1>7. \A k : Get(Positive(data, S), k) = Get(c, k)
  BY <1>3, <1>6, GetType
<1>8. IsFiniteSet(Nodes(Positive(data, S)))
  <2>1. Nodes(Positive(data, S)) \subseteq S
    BY <1>6, EntriesOfClock DEF Positive
  <2> QED
    BY <2>1, FS_Subset
<1> QED
  BY <1>5, <1>6, <1>7, <1>8 DEF data

-----------------------------------------------------------------------------
(***************************************************************************)
(* The protocol of CausalOrder.                                            *)
(***************************************************************************)

\* A clock d taken at the causal past p, when the nodes have executed s
\* events and l is the log: d has finitely many entries and counts the events
\* of p and no event that has not happened, and p is closed under "happened
\* before".
Faithful(d, p, s, l) ==
    /\ d \in Clocks /\ IsFiniteSet(Nodes(d))
    /\ NonNegative(d)
    /\ p = Counted(d)
    /\ \A k \in NodeID : Get(d, k) <= s[k]
    /\ \A e \in l : e.id \in p => e.past \subseteq p

\* An event is the latest of its node in its own past.
EventsAreLatest == \A e \in log : e.id[2] = Get(e.clock, e.id[1])

\* Two events in each other's past are the same event.
Acyclic == \A e, f \in log : e.id \in f.past /\ f.id \in e.past => e = f

IInv == /\ TypeOK
        /\ \A n \in NodeID : seq[n] = Get(clock[n], n)
        /\ \A n \in NodeID : Faithful(clock[n], past[n], seq, log)
        /\ \A m \in net : Faithful(m.clock, m.past, seq, log)
        /\ \A e \in log : Faithful(e.clock, e.past, seq, log)
        /\ EventsAreLatest
        /\ Acyclic
-----------------------------------------------------------------------------
(* The first states.                                                       *)

\* At the start every clock answers zero and nothing has happened.
LEMMA InitIInv == Init => IInv
<1> SUFFICES ASSUME Init
             PROVE  IInv
  OBVIOUS
<1>1. \A n \in NodeID : clock[n] \in Clocks /\ \A k : Get(clock[n], k) = 0
  BY NewClockFacts, NodeListsAssumption DEF Init
<1>0. ASSUME NEW n \in NodeID
      PROVE  IsFiniteSet(Nodes(clock[n]))
  <2>1. PICK S \in NodeLists : clock[n] = NewClock(S)
    BY DEF Init
  <2>2. Nodes(clock[n]) = S
    BY <1>1, <2>1, EntriesOfClock DEF NewClock
  <2> QED
    BY <2>2, NodeListsAssumption
<1>2. TypeOK
  BY <1>1, MaxEventsAssumption DEF Init, TypeOK
<1>3. ASSUME NEW n \in NodeID
      PROVE  Faithful(clock[n], past[n], seq, log)
  <2>1. clock[n] \in ClockPtrs
    BY <1>1 DEF ClockPtrs
  <2>2. NonNegative(clock[n])
    BY <1>1 DEF NonNegative
  <2>3. Counted(clock[n]) = {}
    BY <1>1, MaxEventsAssumption DEF Counted, EventID
  <2> QED
    BY <1>0, <1>1, <2>2, <2>3 DEF Init, Faithful
<1> QED
  BY <1>1, <1>2, <1>3 DEF Init, IInv, EventsAreLatest, Acyclic

-----------------------------------------------------------------------------
(* A step that executes an event.                                          *)

\* If d is the node's clock, merged or not, taken at the past p, then the
\* event executed with d incremented keeps the invariant.
LEMMA ExecuteIInv ==
    ASSUME IInv, NEW n \in NodeID, NEW d, NEW p,
           Faithful(d, p, seq, log), Get(d, n) = seq[n],
           Execute(n, Increment(d, n), p), UNCHANGED net
    PROVE  IInv'
<1> DEFINE c == Increment(d, n)
           id == <<n, seq[n] + 1>>
           q == p \cup {id}
           ev == [id |-> id, clock |-> c, past |-> q]
<1>1. /\ seq \in [NodeID -> 0 .. MaxEvents]
      /\ seq[n] \in 0 .. MaxEvents
      /\ seq[n] < MaxEvents
      /\ MaxEvents \in Nat /\ MaxInt64 \in Nat /\ MaxEvents <= MaxInt64
  BY MaxEventsAssumption, MaxInt64Assumption, SMTT(30) DEF IInv, TypeOK, Execute
<1>2. /\ d \in Clocks /\ d \in ClockPtrs /\ c \in Clocks /\ c \in ClockPtrs
      /\ \A k : Get(c, k) = IF k = n THEN seq[n] + 1 ELSE Get(d, k)
      /\ \A k : Get(d, k) \in Int /\ Get(d, k) >= 0
  BY <1>1, IncrementFacts, GetType, NonNegativeGet DEF Faithful, ClockPtrs
<1>3. NonNegative(c)
  BY <1>1, <1>2, NonNegativeGet
<1>4. id \in EventID
  BY <1>1 DEF EventID
<1>5. Copy(c) = c
  BY <1>2, EntriesOfClock DEF Copy
<1>6. /\ clock' = [clock EXCEPT ![n] = c]
      /\ seq' = [seq EXCEPT ![n] = seq[n] + 1]
      /\ past' = [past EXCEPT ![n] = q]
      /\ log' = log \cup {ev}
      /\ net' = net
  BY <1>5 DEF Execute
<1>7. q = Counted(c)
  <2>1. ASSUME NEW x \in EventID
        PROVE  x \in q <=> x[2] <= Get(c, x[1])
    <3>1. x = <<x[1], x[2]>> /\ x[1] \in NodeID /\ x[2] \in 1 .. MaxEvents
      BY DEF EventID
    <3>2. x \in p <=> x[2] <= Get(d, x[1])
      BY DEF Faithful, Counted
    <3>3. x = id <=> x[1] = n /\ x[2] = seq[n] + 1
      BY <3>1
    <3>4. CASE x[1] = n
      BY <1>1, <1>2, <3>1, <3>2, <3>3, <3>4, SMTT(30)
    <3>5. CASE x[1] # n
      BY <1>2, <3>2, <3>3, <3>5
    <3> QED
      BY <3>4, <3>5
  <2>2. q \subseteq EventID
    BY <1>4 DEF Faithful, Counted
  <2> QED
    BY <2>1, <2>2 DEF Counted
<1>8. TypeOK'
  <2>1. q \in SUBSET EventID
    BY <1>7 DEF Counted
  <2>2. ev \in Event
    BY <1>2, <1>4, <2>1, SMTT(30) DEF Event
  <2>3. clock' \in [NodeID -> Clocks]
    BY <1>2, <1>6 DEF IInv, TypeOK
  <2>4. seq' \in [NodeID -> 0 .. MaxEvents]
    BY <1>1, <1>6, SMTT(30)
  <2>5. past' \in [NodeID -> SUBSET EventID]
    BY <1>6, <2>1 DEF IInv, TypeOK
  <2>6. log' \in SUBSET Event /\ net' \in SUBSET ClockMessage
    BY <1>6, <2>2, Zenon DEF IInv, TypeOK
  <2> QED
    BY <2>3, <2>4, <2>5, <2>6 DEF TypeOK
<1>9. \A k \in NodeID : seq'[k] = Get(clock'[k], k)
  BY <1>2, <1>6 DEF IInv, TypeOK
<1>10. \A k \in NodeID : seq[k] \in Int /\ seq'[k] \in Int /\ seq[k] <= seq'[k] /\ seq'[n] = seq[n] + 1
  BY <1>1, <1>6, SMTT(30)
<1>11. ASSUME NEW x, NEW y, Faithful(x, y, seq, log)
       PROVE  id \notin y
  <2>1. Get(x, n) <= seq[n] /\ Get(x, n) \in Int
    BY <1>11, GetType DEF Faithful, ClockPtrs
  <2>2. id[1] = n /\ id[2] = seq[n] + 1
    OBVIOUS
  <2> QED
    BY <1>1, <1>11, <2>1, <2>2, SMTT(30) DEF Faithful, Counted
<1>12. ASSUME NEW x, NEW y, Faithful(x, y, seq, log)
       PROVE  Faithful(x, y, seq', log')
  <2>1. \A k \in NodeID : Get(x, k) <= seq'[k]
    BY <1>10, <1>12, GetType, SMTT(30) DEF Faithful, ClockPtrs
  <2>2. \A e \in log' : e.id \in y => e.past \subseteq y
    BY <1>6, <1>11, <1>12, SMTT(30) DEF Faithful
  <2> QED
    BY <1>12, <2>1, <2>2, SMTT(30) DEF Faithful
<1>13. Faithful(c, q, seq', log')
  <2>0. IsFiniteSet(Nodes(c))
    BY IncrementFinite, SMTT(30) DEF Faithful
  <2>1. \A k \in NodeID : Get(c, k) <= seq'[k]
    BY <1>2, <1>6, <1>10, SMTT(30) DEF Faithful, IInv, TypeOK
  <2>2. ASSUME NEW e \in log, e.id \in q
        PROVE  e.past \subseteq q
    <3>1. Faithful(e.clock, e.past, seq, log)
      BY DEF IInv
    <3>2. e.id \in EventID
      BY DEF IInv, TypeOK, Event
    <3>3. e.id \in e.past
      <4>1. e.id[2] = Get(e.clock, e.id[1]) /\ e.past = Counted(e.clock)
        BY <3>1, Zenon DEF IInv, EventsAreLatest, Faithful
      <4>2. e.id[2] \in Int
        BY <3>2, MaxEventsAssumption DEF EventID
      <4>3. e.id[2] <= Get(e.clock, e.id[1])
        BY <4>1, <4>2
      <4> QED
        BY <3>2, <4>1, <4>3, SMTT(30) DEF Counted
    <3>4. e.id # id
      BY <3>1, <3>3, <1>11
    <3> QED
      BY <2>2, <3>4, SMTT(30) DEF Faithful
  <2>3. \A e \in log' : e.id \in q => e.past \subseteq q
    BY <1>6, <2>2
  <2> QED
    BY <1>2, <1>3, <1>7, <2>0, <2>1, <2>3, SMTT(30) DEF Faithful
<1>14. /\ \A k \in NodeID : Faithful(clock'[k], past'[k], seq', log')
       /\ \A m \in net' : Faithful(m.clock, m.past, seq', log')
       /\ \A e \in log' : Faithful(e.clock, e.past, seq', log')
  <2>1. ASSUME NEW k \in NodeID
        PROVE  Faithful(clock'[k], past'[k], seq', log')
    <3>1. CASE k = n
      <4>1. clock'[k] = c /\ past'[k] = q
        BY <1>6, <3>1 DEF IInv, TypeOK
      <4> QED
        BY <4>1, <1>13, SMTT(30)
    <3>2. CASE k # n
      <4>1. PICK x, y : x = clock[k] /\ y = past[k]
        BY SMTT(30)
      <4>2. clock'[k] = x /\ past'[k] = y
        BY <1>6, <3>2, <4>1, SMTT(30) DEF IInv, TypeOK
      <4>3. Faithful(x, y, seq, log)
        BY <4>1 DEF IInv
      <4> QED
        BY <1>12, <4>2, <4>3
    <3> QED
      BY <3>1, <3>2
  <2>2. \A m \in net' : Faithful(m.clock, m.past, seq', log')
    BY <1>6, <1>12, Zenon DEF IInv
  <2>3. \A e \in log : Faithful(e.clock, e.past, seq', log')
    BY <1>12 DEF IInv
  <2>4. ev.clock = c /\ ev.past = q
    OBVIOUS
  <2>5. Faithful(ev.clock, ev.past, seq', log')
    BY <2>4, <1>13, SMTT(30)
  <2> QED
    BY <2>1, <2>2, <2>3, <2>5, <1>6, Zenon
<1>15. EventsAreLatest'
  BY <1>2, <1>6 DEF IInv, EventsAreLatest
<1>16. Acyclic'
  <2>1. \A f \in log : ev.id \notin f.past
    BY <1>11, SMTT(30) DEF IInv
  <2> QED
    BY <1>6, <2>1, Zenon DEF IInv, Acyclic
<1> QED
  BY <1>8, <1>9, <1>14, <1>15, <1>16, SMTT(30) DEF IInv

-----------------------------------------------------------------------------
(* Merging.                                                                *)

\* The merge of two faithful clocks is faithful for the union of the pasts.
LEMMA MergeFaithful ==
    ASSUME NEW c, NEW p, NEW d, NEW q, NEW s, NEW l,
           s \in [NodeID -> 0 .. MaxEvents],
           Faithful(c, p, s, l), Faithful(d, q, s, l)
    PROVE  Faithful(Merge(c, d), p \cup q, s, l)
<1>1. /\ c \in Clocks /\ d \in Clocks /\ c \in ClockPtrs /\ d \in ClockPtrs
      /\ NonNegative(c) /\ NonNegative(d)
  BY DEF Faithful, ClockPtrs
<1>2. /\ Merge(c, d) \in Clocks
      /\ NonNegative(Merge(c, d))
      /\ \A k : Get(Merge(c, d), k) = IF Get(d, k) > Get(c, k) THEN Get(d, k) ELSE Get(c, k)
  BY <1>1, MergeFacts, MergeIsMax
<1>3. \A k : Get(c, k) \in Int /\ Get(d, k) \in Int
  BY <1>1, GetType, SMTT(30)
<1>4. \A k \in NodeID : Get(Merge(c, d), k) <= s[k]
  BY <1>2 DEF Faithful
<1>5. p \cup q = Counted(Merge(c, d))
  <2>1. ASSUME NEW x \in EventID
        PROVE  x[2] <= Get(Merge(c, d), x[1]) <=> x[2] <= Get(c, x[1]) \/ x[2] <= Get(d, x[1])
    <3>1. x[2] \in Int
      BY MaxEventsAssumption DEF EventID
    <3> QED
      BY <3>1, <1>2, <1>3
  <2> QED
    BY <2>1 DEF Faithful, Counted
<1>6. \A e \in l : e.id \in p \cup q => e.past \subseteq p \cup q
  BY DEF Faithful
<1>7. IsFiniteSet(Nodes(Merge(c, d)))
  <2>1. Nodes(Merge(c, d)) \subseteq Nodes(c) \cup Nodes(d)
    <3>1. DOMAIN Merge(c, d) \subseteq DOMAIN c \cup Nodes(d)
      BY DEF Merge
    <3> QED
      BY <1>1, <1>2, <3>1, EntriesOfClock
  <2>2. IsFiniteSet(Nodes(c) \cup Nodes(d))
    BY FS_Union, Zenon DEF Faithful
  <2> QED
    BY <2>1, <2>2, FS_Subset
<1> QED
  BY <1>2, <1>4, <1>5, <1>6, <1>7, SMTT(30) DEF Faithful

\* A clock that arrives through a serializer counts the events it was sent
\* with: the serializer loses entries of value zero only.
LEMMA ArrivalFaithful ==
    ASSUME NEW d, NEW p, NEW s, NEW l, Faithful(d, p, s, l), NEW c \in Arrivals(d)
    PROVE  Faithful(c, p, s, l)
<1>1. c = d \/ c = RebuildClock(ClockData(d))
  BY SMTT(30) DEF Arrivals
<1>2. ASSUME c = RebuildClock(ClockData(d))
      PROVE  Faithful(c, p, s, l)
  <2>1. d \in ClockPtrs /\ IsFiniteSet(Nodes(d)) /\ NonNegative(d)
    BY DEF Faithful, ClockPtrs
  <2>2. c \in Clocks /\ IsFiniteSet(Nodes(c)) /\ \A k : Get(c, k) = Get(d, k)
    BY <1>2, <2>1, RebuiltClock
  <2>3. NonNegative(c)
    BY <2>1, <2>2, NonNegativeGet DEF ClockPtrs
  <2>4. Counted(c) = Counted(d)
    BY <2>2 DEF Counted
  <2> QED
    BY <2>2, <2>3, <2>4, SMTT(30) DEF Faithful
<1> QED
  BY <1>1, <1>2

\* No step breaks the invariant.
LEMMA NextIInv == IInv /\ [Next]_vars => IInv'
<1> SUFFICES ASSUME IInv, [Next]_vars
             PROVE  IInv'
  OBVIOUS
<1>1. ASSUME NEW n \in NodeID, LocalEvent(n)
      PROVE  IInv'
  <2>1. PICK d, p : d = clock[n] /\ p = past[n]
    OBVIOUS
  <2>2. Faithful(d, p, seq, log) /\ Get(d, n) = seq[n]
    BY <2>1 DEF IInv
  <2>3. Execute(n, Increment(d, n), p) /\ UNCHANGED net
    BY <1>1, <2>1, SMTT(30) DEF LocalEvent
  <2> QED
    BY <2>2, <2>3, ExecuteIInv
<1>2. ASSUME NEW n \in NodeID, Send(n)
      PROVE  IInv'
  <2> DEFINE m == [clock |-> clock[n], past |-> past[n]]
  <2>1. clock[n] \in Clocks /\ past[n] \in SUBSET EventID
    BY DEF IInv, TypeOK
  <2>2. /\ net' = net \cup {m}
        /\ UNCHANGED <<clock, seq, past, log>>
    BY <1>2, <2>1, EntriesOfClock, SMTT(30) DEF Send, Copy
  <2>3. m \in ClockMessage
    BY <2>1, SMTT(30) DEF ClockMessage
  <2>4. TypeOK'
    BY <2>2, <2>3, SMTT(30) DEF IInv, TypeOK
  <2>5. m.clock = clock[n] /\ m.past = past[n]
    BY SMTT(30)
  <2>6. Faithful(m.clock, m.past, seq, log)
    BY <2>5, SMTT(30) DEF IInv
  <2>7. \A k \in net' : Faithful(k.clock, k.past, seq, log)
    BY <2>2, <2>6 DEF IInv
  <2> QED
    BY <2>2, <2>4, <2>7, SMTT(30) DEF IInv, EventsAreLatest, Acyclic
<1>3. ASSUME NEW n \in NodeID, NEW m \in net, Receive(n, m)
      PROVE  IInv'
  <2>1. PICK c, q : c = clock[n] /\ q = past[n]
    BY SMTT(30)
  <2>0. PICK got \in Arrivals(m.clock) :
            Execute(n, Increment(Merge(c, got), n), q \cup m.past) /\ UNCHANGED net
    BY <1>3, <2>1 DEF Receive
  <2>2. PICK d, p : d = Merge(c, got) /\ p = q \cup m.past
    BY ZenonT(30)
  <2>3. /\ Faithful(c, q, seq, log) /\ Get(c, n) = seq[n]
        /\ Faithful(got, m.past, seq, log)
    <3>1. Faithful(c, q, seq, log) /\ Get(c, n) = seq[n]
      BY <2>1, Zenon DEF IInv
    <3>2. Faithful(m.clock, m.past, seq, log)
      BY <1>3, Zenon DEF IInv
    <3> QED
      BY <3>1, <3>2, ArrivalFaithful, Zenon
  <2>4. Faithful(d, p, seq, log)
    BY <2>2, <2>3, MergeFaithful, SMTT(30) DEF IInv, TypeOK
  <2>5. Get(d, n) = seq[n]
    <3>1. c \in Clocks /\ got \in ClockPtrs /\ NonNegative(c) /\ NonNegative(got)
      BY <2>3, SMTT(30) DEF Faithful, ClockPtrs
    <3>2. Get(got, n) <= seq[n] /\ Get(got, n) \in Int /\ seq[n] \in Int
      <4>1. Get(got, n) <= seq[n]
        BY <2>3, Zenon DEF Faithful
      <4>2. Get(got, n) \in Int
        BY <3>1, GetType, Zenon
      <4>3. seq \in [NodeID -> 0 .. MaxEvents]
        BY Zenon DEF IInv, TypeOK
      <4> QED
        BY <4>1, <4>2, <4>3, SMTT(30)
    <3> QED
      BY <2>2, <2>3, <3>1, <3>2, MergeIsMax, SMTT(30)
  <2>6. Execute(n, Increment(d, n), p) /\ UNCHANGED net
    BY <2>0, <2>2, SMTT(30)
  <2> QED
    BY <2>4, <2>5, <2>6, ExecuteIInv
<1>4. CASE UNCHANGED vars
  BY <1>4 DEF vars, IInv, TypeOK, EventsAreLatest, Acyclic
<1> QED
  BY <1>1, <1>2, <1>3, <1>4 DEF Next

\* The invariant holds throughout.
THEOREM Invariance == Spec => []IInv
BY InitIInv, NextIInv, PTL DEF Spec

\* Every clock, message and event of the protocol is well formed.
THEOREM TypeCorrect == Spec => []TypeOK
<1>1. IInv => TypeOK
  BY DEF IInv
<1> QED
  BY <1>1, Invariance, PTL

-----------------------------------------------------------------------------
(* What the invariant says of clocks and events.                           *)

\* Every clock counts exactly the events of its causal past.
THEOREM EncodesPast == Spec => []ClockEncodesPast
<1>1. IInv => ClockEncodesPast
  BY SMTT(30) DEF IInv, ClockEncodesPast, Snapshots, Faithful
<1> QED
  BY <1>1, Invariance, PTL

\* No clock counts an event that has not been executed.
THEOREM NoInventedEvents == Spec => []NobodyAhead
<1>1. IInv => NobodyAhead
  BY DEF IInv, NobodyAhead, Snapshots, Faithful
<1> QED
  BY <1>1, Invariance, PTL

\* One event is in the past of another exactly when its clock is pointwise
\* below the other's.
LEMMA PastIsBelow ==
    ASSUME IInv, NEW e \in log, NEW f \in log
    PROVE  e.id \in f.past <=> Below(e.clock, f.clock)
<1>1. /\ Faithful(e.clock, e.past, seq, log) /\ Faithful(f.clock, f.past, seq, log)
      /\ e.id[2] = Get(e.clock, e.id[1])
      /\ e.id \in EventID
  <2>1. Faithful(e.clock, e.past, seq, log) /\ Faithful(f.clock, f.past, seq, log)
    BY Zenon DEF IInv
  <2>2. e.id[2] = Get(e.clock, e.id[1])
    BY Zenon DEF IInv, EventsAreLatest
  <2>3. e \in Event
    BY Zenon DEF IInv, TypeOK
  <2> QED
    BY <2>1, <2>2, <2>3, SMTT(30) DEF Event
<1>2. /\ \A k : Get(e.clock, k) \in Int /\ Get(f.clock, k) \in Int
      /\ \A k : Get(e.clock, k) >= 0 /\ Get(f.clock, k) >= 0
  BY <1>1, GetType, NonNegativeGet DEF Faithful, ClockPtrs
<1>3. e.id[1] \in NodeID /\ e.id[2] \in Int
  BY <1>1, MaxEventsAssumption, SMTT(30) DEF EventID
<1>4. ASSUME Below(e.clock, f.clock)
      PROVE  e.id \in f.past
  BY <1>1, <1>3, <1>4 DEF Below, Faithful, Counted
<1>5. ASSUME e.id \in f.past, NEW k \in NodeID
      PROVE  Get(e.clock, k) <= Get(f.clock, k)
  <2>1. e.past \subseteq f.past
    BY <1>1, <1>5 DEF Faithful
  <2>2. CASE Get(e.clock, k) = 0
    BY <1>2, <2>2, SMTT(30)
  <2>3. CASE Get(e.clock, k) # 0
    <3>1. <<k, Get(e.clock, k)>> \in EventID
      <4>1. Get(e.clock, k) <= seq[k] /\ seq[k] \in 0 .. MaxEvents
        BY <1>1, SMTT(30) DEF Faithful, IInv, TypeOK
      <4> QED
        BY <4>1, <1>2, <2>3, MaxEventsAssumption, SMTT(30) DEF EventID
    <3>2. <<k, Get(e.clock, k)>> \in e.past
      BY <1>1, <1>2, <3>1 DEF Faithful, Counted
    <3> QED
      BY <1>1, <2>1, <3>2 DEF Faithful, Counted
  <2> QED
    BY <2>2, <2>3, SMTT(30)
<1> QED
  BY <1>4, <1>5, SMTT(30) DEF Below

\* Compare tells, from the clocks alone, whether one event happened before
\* another, after it, or neither.
THEOREM Causality == Spec => []CompareDecidesCausality
<1>1. ASSUME IInv, NEW e \in log, NEW f \in log
      PROVE  Compare(e.clock, f.clock) = TrueRelation(e, f)
  <2>1. /\ e.clock \in ClockPtrs /\ f.clock \in ClockPtrs
        /\ NonNegative(e.clock) /\ NonNegative(f.clock)
    BY <1>1 DEF IInv, Faithful, ClockPtrs
  <2>2. Compare(e.clock, f.clock) = PointwiseCompare(e.clock, f.clock)
    BY <2>1, ComparePointwise
  <2>3. /\ e.id \in f.past <=> Below(e.clock, f.clock)
        /\ f.id \in e.past <=> Below(f.clock, e.clock)
    BY <1>1, PastIsBelow, SMTT(30)
  <2>4. e.id \in f.past /\ f.id \in e.past => e = f
    BY <1>1 DEF IInv, Acyclic
  <2>5. e = f => Below(e.clock, f.clock) /\ Below(f.clock, e.clock)
    BY <2>1, GetType DEF Below
  <2> QED
    BY <2>2, <2>3, <2>4, <2>5, SMTT(30) DEF PointwiseCompare, TrueRelation
<1>2. IInv => CompareDecidesCausality
  BY <1>1 DEF CompareDecidesCausality
<1> QED
  BY <1>2, Invariance, PTL

\* A node's clock never moves backwards.
THEOREM MonotoneClocks == Spec => ClocksOnlyAdvance
<1>1. ASSUME IInv, IInv', [Next]_vars, NEW n \in NodeID
      PROVE  Ancestor(clock[n], clock'[n])
  <2>1. /\ clock[n] \in Clocks /\ NonNegative(clock[n])
        /\ clock'[n] \in Clocks /\ NonNegative(clock'[n])
    <3>1. Faithful(clock[n], past[n], seq, log)
      BY <1>1, Zenon DEF IInv
    <3>2. Faithful(clock'[n], past'[n], seq', log')
      BY <1>1, Zenon DEF IInv
    <3> QED
      BY <3>1, <3>2, Zenon DEF Faithful
  <2>2. Below(clock[n], clock'[n])
    <3>1. \A k \in NodeID : Get(clock[n], k) \in Int
      BY <2>1, GetType DEF ClockPtrs
    <3>2. CASE clock'[n] = clock[n]
      BY <3>1, <3>2 DEF Below
    <3>3. ASSUME NEW d \in Clocks, Below(clock[n], d), clock'[n] = Increment(d, n),
                 Get(d, n) < MaxInt64
          PROVE  Below(clock[n], clock'[n])
      <4>1. \A k : Get(d, k) \in Int
        BY GetType, SMTT(30) DEF ClockPtrs
      <4>2. \A k : Get(Increment(d, n), k) = IF k = n THEN Get(d, n) + 1 ELSE Get(d, k)
        BY <3>3, IncrementFacts, SMTT(30)
      <4> QED
        BY <3>1, <3>3, <4>1, <4>2 DEF Below
    <3>4. CASE LocalEvent(n)
      <4>1. clock'[n] = Increment(clock[n], n)
        <5>1. clock \in [NodeID -> Clocks]
          BY <1>1, Zenon DEF IInv, TypeOK
        <5>2. clock' = [clock EXCEPT ![n] = Increment(clock[n], n)]
          BY <3>4, Zenon DEF LocalEvent, Execute
        <5> QED
          BY <5>1, <5>2, SMTT(30)
      <4>2. Get(clock[n], n) < MaxInt64
        <5>1. Get(clock[n], n) = seq[n] /\ seq \in [NodeID -> 0 .. MaxEvents]
          BY <1>1, Zenon DEF IInv, TypeOK
        <5>2. seq[n] < MaxEvents
          BY <3>4, Zenon DEF LocalEvent, Execute
        <5> QED
          BY <5>1, <5>2, MaxEventsAssumption, MaxInt64Assumption, SMTT(30)
      <4> QED
        BY <2>1, <3>1, <3>3, <4>1, <4>2, SMTT(30) DEF Below
    <3>5. ASSUME NEW m \in net, Receive(n, m)
          PROVE  Below(clock[n], clock'[n])
      <4>0. PICK got \in Arrivals(m.clock) : clock'[n] = Increment(Merge(clock[n], got), n)
        BY <1>1, <3>5, ZenonT(30) DEF Receive, Execute, IInv, TypeOK
      <4> DEFINE d == Merge(clock[n], got)
      <4>1. clock'[n] = Increment(d, n)
        BY <4>0, SMTT(30)
      <4>2. got \in ClockPtrs /\ NonNegative(got) /\ Get(got, n) <= seq[n]
        <5>1. Faithful(got, m.past, seq, log)
          <6>1. Faithful(m.clock, m.past, seq, log)
            BY <1>1, <3>5, Zenon DEF IInv
          <6> QED
            BY <6>1, ArrivalFaithful, Zenon
        <5> QED
          BY <5>1, SMTT(30) DEF Faithful, ClockPtrs
      <4>3. /\ d \in Clocks
            /\ \A k : Get(d, k) = IF Get(got, k) > Get(clock[n], k)
                                   THEN Get(got, k) ELSE Get(clock[n], k)
        BY <2>1, <4>2, MergeFacts, MergeIsMax
      <4>4. \A k : Get(got, k) \in Int
        BY <4>2, GetType
      <4>5. Below(clock[n], d)
        BY <3>1, <4>3, <4>4 DEF Below
      <4>6. Get(clock[n], n) = seq[n] /\ seq[n] < MaxEvents /\ seq[n] \in Int
        <5>1. seq[n] < MaxEvents
          BY <3>5, SMTT(30) DEF Receive, Execute
        <5>2. Get(clock[n], n) = seq[n] /\ seq \in [NodeID -> 0 .. MaxEvents]
          BY <1>1, SMTT(30) DEF IInv, TypeOK
        <5> QED
          BY <5>1, <5>2, SMTT(30)
      <4>7. Get(d, n) < MaxInt64
        BY <4>2, <4>3, <4>4, <4>6, MaxEventsAssumption, MaxInt64Assumption, SMTT(30)
      <4> QED
        BY <3>3, <4>1, <4>3, <4>5, <4>7, SMTT(30)
    <3>6. ASSUME NEW o \in NodeID, o # n, LocalEvent(o) \/ \E m \in net : Receive(o, m)
          PROVE  clock'[n] = clock[n]
      BY <1>1, <3>6, ZenonT(30) DEF LocalEvent, Receive, Execute, IInv, TypeOK
    <3>7. ASSUME NEW o \in NodeID, Send(o)
          PROVE  clock'[n] = clock[n]
      BY <3>7, Zenon DEF Send
    <3>8. UNCHANGED vars => clock'[n] = clock[n]
      BY SMTT(30) DEF vars
    <3> QED
      BY <1>1, <3>2, <3>4, <3>5, <3>6, <3>7, <3>8, SMTT(30) DEF Next
  <2> QED
    BY <2>1, <2>2, AncestorPointwise, SMTT(30) DEF ClockPtrs
<1>2. IInv /\ IInv' /\ [Next]_vars => [\A n \in NodeID : Ancestor(clock[n], clock'[n])]_vars
  BY <1>1, SMTT(30)
<1> QED
  BY <1>2, Invariance, PTL DEF Spec, ClocksOnlyAdvance

-----------------------------------------------------------------------------
(***************************************************************************)
(* The serializers of MessageCodec.                                        *)
(***************************************************************************)

(* What the client of MessageCodec builds.                                 *)

\* The inductive invariant: besides the types, a clock has finitely many
\* entries, whatever calls made it.  The decoding loop visits all of them.
CodecInv == /\ CodecTypeOK
            /\ IsFiniteSet(Nodes(clk))
            /\ msg # NilMessage => IsFiniteSet(Nodes(msg.clock))

\* Every call of the client preserves the invariant.
LEMMA CodecStep == CodecInv /\ [CodecNext]_codecVars => CodecInv'
<1> SUFFICES ASSUME CodecInv, [CodecNext]_codecVars
             PROVE  CodecInv'
  OBVIOUS
<1> USE DEF CodecInv, CodecTypeOK
<1>0. clk # NilClock => clk \in Clocks
  BY DEF ClockPtrs
<1>1. ASSUME NEW nodes \in SUBSET NodeID, Start(nodes)
      PROVE  CodecInv'
  <2>1. clk' \in Clocks /\ msg' = msg
    BY <1>1, NewClockFacts DEF Start
  <2>2. Nodes(clk') = nodes
    BY <1>1, <2>1, EntriesOfClock DEF Start, NewClock
  <2> QED
    BY <1>1, <2>1, <2>2 DEF Start, ClockPtrs
<1>2. ASSUME NEW node \in NodeID, Tick(node)
      PROVE  CodecInv'
  <2>1. clk \in Clocks /\ msg' = msg /\ clk' = Increment(clk, node)
    BY <1>0, <1>2 DEF Tick
  <2>2. WrapInt64(Get(clk, node) + 1) \in Int64
    BY <2>1, GetType, MaxInt64Assumption DEF WrapInt64, Int64, ClockPtrs
  <2>3. clk' \in Clocks /\ IsFiniteSet(Nodes(clk'))
    BY <2>1, <2>2, PutFacts, PutFinite DEF Increment
  <2> QED
    BY <2>1, <2>3 DEF ClockPtrs
<1>3. ASSUME NEW node \in NodeID, NEW value \in AdjustValues, Adjust(node, value)
      PROVE  CodecInv'
  <2>1. clk \in Clocks /\ msg' = msg /\ clk' = Put(clk, node, value) /\ value \in Int64
    BY <1>0, <1>3, AdjustValuesAssumption DEF Adjust, Set
  <2>2. clk' \in Clocks /\ IsFiniteSet(Nodes(clk'))
    BY <2>1, PutFacts, PutFinite
  <2> QED
    BY <2>1, <2>2 DEF ClockPtrs
<1>4. ASSUME NEW s \in SenderIDs, NEW p \in Payloads, CallNewMessage(s, p)
      PROVE  CodecInv'
  <2>1. clk \in Clocks /\ clk' = clk /\ Copy(clk) = clk
    BY <1>0, <1>4, EntriesOfClock, SMTT(30) DEF CallNewMessage, Copy
  <2>2. NoMetadata \in Metadata
    <3>1. {} \in SUBSET MetadataKeys /\ NoMetadata \in [{} -> PairKinds]
      BY DEF NoMetadata
    <3> QED
      BY <3>1, Zenon DEF Metadata
  <2>3. msg' \in Message /\ msg'.clock = clk
    BY <1>4, <2>1, <2>2 DEF CallNewMessage, Message, CurrentVersion, ClockPtrs
  <2> QED
    BY <2>1, <2>3, SMTT(30)
<1>5. ASSUME NEW v \in 0 .. CurrentVersion + 1, NEW s \in SenderIDs,
             NEW c \in {clk, NilClock}, NEW p \in Payloads, SetFields(v, s, c, p)
      PROVE  CodecInv'
  <2>1. c \in ClockPtrs /\ msg \in Message /\ clk' = clk
    BY <1>5 DEF SetFields, ClockPtrs
  <2>2. msg' \in Message /\ msg'.clock = c
    BY <1>5, <2>1, Zenon DEF SetFields, Message
  <2>3. IsFiniteSet(Nodes(NilClock))
    BY FS_EmptySet DEF Nodes, Entries, EmptyClock, NewClock
  <2>4. IsFiniteSet(Nodes(c))
    BY <2>3
  <2> QED
    BY <2>1, <2>2, <2>4
<1>6. ASSUME NEW key \in MetadataKeys, NEW kind \in PairKinds, WithMetadata(key, kind)
      PROVE  CodecInv'
  <2> DEFINE pairs == [k \in DOMAIN msg.metadata \cup {key} |->
                          IF k = key THEN kind ELSE msg.metadata[k]]
  <2>1. msg \in Message /\ msg # NilMessage /\ clk' = clk
    BY <1>6 DEF WithMetadata
  <2>2. msg' = [msg EXCEPT !.metadata = pairs]
    BY <1>6, Zenon DEF WithMetadata
  <2>3. msg.metadata \in Metadata
    BY <2>1 DEF Message
  <2>4. PICK keys \in SUBSET MetadataKeys : msg.metadata \in [keys -> PairKinds]
    BY <2>3, Zenon DEF Metadata
  <2>5. keys \cup {key} \in SUBSET MetadataKeys /\ pairs \in [keys \cup {key} -> PairKinds]
    BY <2>4
  <2>6. pairs \in Metadata
    BY <2>5, Zenon DEF Metadata
  <2> HIDE DEF pairs
  <2>7. msg' \in Message /\ msg'.clock = msg.clock
    BY <2>1, <2>2, <2>6 DEF Message
  <2> QED
    BY <2>1, <2>7
<1>7. CASE UNCHANGED codecVars
  BY <1>7 DEF codecVars
<1> QED
  BY <1>1, <1>2, <1>3, <1>4, <1>5, <1>6, <1>7, SMTT(30) DEF CodecNext

\* The invariant holds of every behaviour.
LEMMA CodecAlways == CodecSpec => []CodecInv
<1>1. CodecInit => CodecInv
  <2> SUFFICES ASSUME CodecInit
               PROVE  CodecInv
    OBVIOUS
  <2>1. Nodes(NilClock) = {}
    BY DEF Nodes, Entries, EmptyClock, NewClock
  <2> QED
    BY <2>1, FS_EmptySet DEF CodecInit, CodecInv, CodecTypeOK, ClockPtrs
<1> QED
  BY <1>1, CodecStep, PTL DEF CodecSpec

-----------------------------------------------------------------------------
(* What arrives.                                                           *)

\* Clocks that answer alike are told apart by nothing that compares them.
LEMMA AlikeCompare ==
    ASSUME NEW c \in ClockPtrs, NEW d \in ClockPtrs, NEW e \in ClockPtrs,
           NonNegative(c), NonNegative(e), \A k : Get(d, k) = Get(c, k)
    PROVE  /\ NonNegative(d)
           /\ Compare(d, e) = Compare(c, e)
           /\ Compare(e, d) = Compare(e, c)
           /\ Equal(d, c)
<1>1. NonNegative(d)
  BY NonNegativeGet
<1>2. /\ Below(d, e) <=> Below(c, e)
      /\ Below(e, d) <=> Below(e, c)
  BY DEF Below
<1>3. Below(d, c) /\ Below(c, d)
  BY GetType DEF Below
<1>4. /\ Compare(d, e) = PointwiseCompare(d, e)
      /\ Compare(c, e) = PointwiseCompare(c, e)
      /\ Compare(e, d) = PointwiseCompare(e, d)
      /\ Compare(e, c) = PointwiseCompare(e, c)
      /\ Compare(d, c) = PointwiseCompare(d, c)
  BY <1>1, ComparePointwise
<1>5. PointwiseCompare(d, e) = PointwiseCompare(c, e)
  BY <1>2 DEF PointwiseCompare
<1>6. PointwiseCompare(e, d) = PointwiseCompare(e, c)
  BY <1>2 DEF PointwiseCompare
<1>7. PointwiseCompare(d, c) = "Equal"
  BY <1>3 DEF PointwiseCompare
<1> QED
  BY <1>1, <1>4, <1>5, <1>6, <1>7 DEF Equal

\* The message that Unmarshal builds from what Marshal wrote for m.
Reread(m) == [version |-> m.version, sender |-> m.sender,
              clock |-> RebuildClock(ClockData(m.clock)),
              payload |-> m.payload, metadata |-> m.metadata]

\* Marshal refuses a message or writes its fields; what it writes is valid.
LEMMA MarshalCases ==
    ASSUME NEW codec \in Codec, NEW m, ~Failed(Marshal(codec, m))
    PROVE  /\ m # NilMessage /\ Valid(m) /\ ~(Size(codec, m) > MaxMessageSize)
           /\ Marshal(codec, m) = Encoded(codec, m)
<1>1. CASE codec = "json"
  BY <1>1 DEF Marshal, JSONMarshal, Failed
<1>2. CASE codec = "cbor"
  BY <1>2, SMTT(30) DEF Marshal, CBORMarshal, Failed
<1> QED
  BY <1>1, <1>2 DEF Codec

\* Unmarshal of what Marshal wrote: an error if the clock has a negative entry
\* or, for CBOR, a map has too many, and the message with its clock rebuilt
\* otherwise.
LEMMA UnmarshalCases ==
    ASSUME NEW codec \in Codec, NEW m \in Message, Valid(m),
           IsFiniteSet(Nodes(m.clock)), ~(Size(codec, m) > MaxMessageSize)
    PROVE  LET r == Unmarshal(codec, Encoded(codec, m))
               many == /\ codec = "cbor"
                       /\ \/ ClockLen(m.clock) > MaxMapPairs
                          \/ Cardinality(DOMAIN m.metadata) > MaxMapPairs
           IN  /\ ~NonNegative(m.clock) \/ many => Failed(r)
               /\ NonNegative(m.clock) /\ ~many => ~Failed(r) /\ r = Reread(m)
<1> DEFINE d == Encoded(codec, m)
           many == /\ codec = "cbor"
                   /\ \/ ClockLen(m.clock) > MaxMapPairs
                      \/ Cardinality(DOMAIN m.metadata) > MaxMapPairs
<1>1. /\ d.size = Size(codec, m) /\ d.clock = ClockData(m.clock)
      /\ d.version = m.version /\ d.sender = m.sender
      /\ d.payload = m.payload /\ d.metadata = m.metadata
  BY SMTT(30) DEF Encoded
<1>2. /\ DOMAIN d.clock = Nodes(m.clock)
      /\ \A n \in Nodes(m.clock) : d.clock[n] = Get(m.clock, n)
  BY <1>1 DEF ClockData
<1>3. m.clock \in ClockPtrs
  BY DEF Message
<1> HIDE DEF d
<1>4. Cardinality(DOMAIN d.clock) = ClockLen(m.clock)
  BY <1>2, SMTT(30) DEF ClockLen
<1>5. NonNegative(m.clock) <=> ~\E n \in DOMAIN d.clock : d.clock[n] < 0
  BY <1>2, <1>3, GetType, SMTT(30) DEF NonNegative
<1>6. Decoded(d) = IF NonNegative(m.clock) THEN Reread(m) ELSE Error
  BY <1>1, <1>5, ZenonT(30) DEF Decoded, Reread
<1>7. Unmarshal(codec, d) = IF many THEN Error ELSE Validated(Decoded(d))
  BY <1>1, <1>4 DEF Unmarshal, JSONUnmarshal, CBORUnmarshal, Codec
<1>8. ASSUME NonNegative(m.clock)
      PROVE  Validated(Reread(m)) = Reread(m) /\ ~Failed(Reread(m))
  <2>1. RebuildClock(ClockData(m.clock)) # NilClock
    BY <1>3, <1>8, RebuiltClock, NilClockAssumption, SMTT(30)
  <2>2. Valid(Reread(m))
    <3>1. /\ Reread(m).version = m.version /\ Reread(m).sender = m.sender
          /\ Reread(m).payload = m.payload /\ Reread(m).metadata = m.metadata
          /\ Reread(m).clock = RebuildClock(ClockData(m.clock))
      BY ZenonT(30) DEF Reread
    <3> QED
      BY <2>1, <3>1, Zenon DEF Valid
  <2>3. Reread(m) # Error
    BY DEF Reread, Error
  <2> QED
    BY <2>2, <2>3 DEF Validated, Failed
<1>9. Failed(Validated(Error))
  BY DEF Validated, Failed
<1> QED
  BY <1>6, <1>7, <1>8, <1>9, SMTT(30) DEF Failed, d

\* Whatever the client calls, its clock is nil or a well-formed clock of int64
\* values and its message has fields of their types.
THEOREM CodecTypeCorrect == CodecSpec => []CodecTypeOK
<1>1. CodecInv => CodecTypeOK
  BY DEF CodecInv
<1> QED
  BY <1>1, CodecAlways, PTL

\* Through either serializer a message arrives with its meaning: the clock
\* that the decoding loop rebuilds compares and merges as the original does,
\* and the other fields are the same.
THEOREM RoundTripPreserves == CodecSpec => []RoundTripKeepsMeaning
<1>1. ASSUME CodecInv, NEW codec \in Codec, ~Failed(RoundTrip(codec))
      PROVE  LET r == RoundTrip(codec)
             IN  /\ \A c \in Clocks :
                       NonNegative(c) =>
                           /\ Compare(r.clock, c) = Compare(msg.clock, c)
                           /\ \A n \in NodeID :
                                 Get(Merge(c, r.clock), n) = Get(Merge(c, msg.clock), n)
                 /\ Equal(r.clock, msg.clock)
                 /\ [r EXCEPT !.clock = NilClock] = [msg EXCEPT !.clock = NilClock]
  <2> DEFINE r == RoundTrip(codec)
             sent == msg.clock
             got == RebuildClock(ClockData(sent))
  <2>1. ~Failed(Marshal(codec, msg))
    BY <1>1 DEF RoundTrip, Failed
  <2>2. /\ msg # NilMessage /\ Valid(msg) /\ ~(Size(codec, msg) > MaxMessageSize)
        /\ Marshal(codec, msg) = Encoded(codec, msg)
    BY <2>1, MarshalCases
  <2>3. r = Unmarshal(codec, Encoded(codec, msg))
    BY <2>1, <2>2 DEF RoundTrip
  <2>4. msg \in Message /\ IsFiniteSet(Nodes(sent)) /\ sent \in ClockPtrs
    BY <1>1, <2>2 DEF CodecInv, CodecTypeOK, Message
  <2>5. NonNegative(sent) /\ r = Reread(msg)
    BY <1>1, <2>2, <2>3, <2>4, UnmarshalCases, SMTT(30)
  <2>6. got \in Clocks /\ got \in ClockPtrs /\ \A k : Get(got, k) = Get(sent, k)
    BY <2>4, <2>5, RebuiltClock, SMTT(30) DEF ClockPtrs
  <2>7. r.clock = got
    BY <2>5 DEF Reread
  <2>8. [r EXCEPT !.clock = NilClock] = [msg EXCEPT !.clock = NilClock]
    BY <2>4, <2>5, SMTT(30) DEF Reread, Message
  <2> HIDE DEF r, sent, got
  <2>9. Equal(got, sent) /\ NonNegative(got)
    BY <2>4, <2>5, <2>6, AlikeCompare
  <2>10. ASSUME NEW c \in Clocks, NonNegative(c)
         PROVE  /\ Compare(got, c) = Compare(sent, c)
                /\ \A n \in NodeID : Get(Merge(c, got), n) = Get(Merge(c, sent), n)
    <3>1. c \in ClockPtrs
      BY DEF ClockPtrs
    <3>2. Compare(got, c) = Compare(sent, c)
      BY <2>4, <2>5, <2>6, <2>10, <3>1, AlikeCompare, SMTT(30)
    <3>3. ASSUME NEW n \in NodeID
          PROVE  Get(Merge(c, got), n) = Get(Merge(c, sent), n)
      BY <2>4, <2>5, <2>6, <2>9, <2>10, MergeIsMax
    <3> QED
      BY <3>2, <3>3
  <2> QED
    BY <2>7, <2>8, <2>9, <2>10 DEF r, sent
<1>2. CodecInv => RoundTripKeepsMeaning
  BY <1>1, SMTT(30) DEF RoundTripKeepsMeaning
<1> QED
  BY <1>2, CodecAlways, PTL

\* Of what Marshal writes, Unmarshal refuses clocks with negative entries and,
\* in CBOR, maps beyond the decoder's limit, and nothing else, whatever the
\* limits, the clock and the metadata are.
THEOREM MarshalledReadable == CodecSpec => []MarshalledIsReadable
<1>1. ASSUME CodecInv, NEW codec \in Codec, ~Failed(Marshal(codec, msg))
      PROVE  Failed(Unmarshal(codec, Marshal(codec, msg))) <=>
                 ~NonNegative(msg.clock) \/ TooManyPairs(codec)
  <2>1. /\ msg # NilMessage /\ Valid(msg) /\ ~(Size(codec, msg) > MaxMessageSize)
        /\ Marshal(codec, msg) = Encoded(codec, msg)
    BY <1>1, MarshalCases
  <2>2. msg \in Message /\ IsFiniteSet(Nodes(msg.clock))
    BY <1>1, <2>1 DEF CodecInv, CodecTypeOK
  <2> QED
    BY <1>1, <2>1, <2>2, UnmarshalCases, SMTT(30) DEF TooManyPairs
<1>2. CodecInv => MarshalledIsReadable
  BY <1>1 DEF MarshalledIsReadable
<1> QED
  BY <1>2, CodecAlways, PTL
=============================================================================
