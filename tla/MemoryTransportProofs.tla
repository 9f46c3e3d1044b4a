----------------------- MODULE MemoryTransportProofs -----------------------
(***************************************************************************)
(* The memory transport hands every dialled connection over once and in    *)
(* order, and its Close is final, for every number of goroutines, of       *)
(* addresses and of dials and every capacity of a listener's channel.      *)
(***************************************************************************)
EXTENDS MemoryTransport, SequenceTheorems, TLAPS

-----------------------------------------------------------------------------
(* Sequences and types.                                                    *)

\* A connection that is queued goes to the end of the line of those dialled.
LEMMA JoinLine ==
    ASSUME NEW S, NEW r \in Seq(S), NEW s \in Seq(S), NEW c \in S,
           NEW d \in Seq(S), d = r \o s
    PROVE  Append(d, c) = r \o Append(s, c)
<1>1. <<c>> \in Seq(S)
  OBVIOUS
<1>2. Append(d, c) = d \o <<c>> /\ Append(s, c) = s \o <<c>>
  BY <1>1, AppendIsConcat, Zenon
<1>3. (r \o s) \o <<c>> = r \o (s \o <<c>>)
  BY <1>1, ConcatAssociative
<1> QED
  BY <1>2, <1>3

\* Handing the head of the channel over leaves the line as it was.
LEMMA HandOver ==
    ASSUME NEW S, NEW r \in Seq(S), NEW s \in Seq(S), s # <<>>
    PROVE  Append(r, Head(s)) \o Tail(s) = r \o s
<1>1. Head(s) \in S /\ Tail(s) \in Seq(S) /\ <<Head(s)>> \in Seq(S)
  BY HeadTailProperties
<1>2. s = <<Head(s)>> \o Tail(s)
  <2>1. Len(s) \in Nat /\ Len(s) >= 1 /\ Head(s) = s[1]
    OBVIOUS
  <2>2. SubSeq(s, 1, Len(s)) = <<s[1]>> \o SubSeq(s, 1 + 1, Len(s))
    BY <2>1, SubSeqRecursiveFirst
  <2> QED
    BY <2>1, <2>2, SubSeqFull, TailIsSubSeq
<1>3. Append(r, Head(s)) = r \o <<Head(s)>>
  BY <1>1, AppendIsConcat
<1>4. (r \o <<Head(s)>>) \o Tail(s) = r \o (<<Head(s)>> \o Tail(s))
  BY <1>1, ConcatAssociative
<1> QED
  BY <1>2, <1>3, <1>4

\* A Dial carries the connection it builds.
DialHasConn == \A t \in Threads : call[t].pc \in DialPC => call[t].conn \in Conns

TypeInv == TypeOK /\ DialHasConn

\* How the three ways of moving a thread change its call.
LEMMA CallMoves ==
    ASSUME TypeInv, NEW t \in Threads
    PROVE  /\ Return(t) => call' \in [Threads -> Call] /\ DialHasConn'
           /\ \A l \in AcceptPC \cup ClosePC :
                 Goto(t, l) => call' \in [Threads -> Call] /\ DialHasConn'
           /\ \A l \in DialPC : call[t].pc \in DialPC /\ Goto(t, l) =>
                 call' \in [Threads -> Call] /\ DialHasConn'
           /\ \A l \in AcceptPC \cup ClosePC, a \in Addrs :
                 Enter(t, l, a, NoConn) => call' \in [Threads -> Call] /\ DialHasConn'
           /\ \A a \in Addrs, c \in Conns :
                 Enter(t, "dial_lookup", a, c) => call' \in [Threads -> Call] /\ DialHasConn'
<1>1. /\ call \in [Threads -> Call] /\ DialHasConn
      /\ NoCall \in Call /\ NoCall.pc \notin DialPC
      /\ \A l \in AcceptPC \cup ClosePC : l \notin DialPC
  BY AddrsAssumption DEF TypeInv, TypeOK, NoCall, Call, DialPC, AcceptPC, ClosePC
<1>2. ASSUME Return(t)
      PROVE  call' \in [Threads -> Call] /\ DialHasConn'
  BY <1>1, <1>2 DEF Return, DialHasConn
<1>3. ASSUME NEW l \in AcceptPC \cup ClosePC \cup DialPC, Goto(t, l),
             l \in DialPC => call[t].pc \in DialPC
      PROVE  call' \in [Threads -> Call] /\ DialHasConn'
  <2>1. call' \in [Threads -> Call]
    BY <1>1, <1>3 DEF Goto, Call
  <2>2. /\ call'[t].pc = l /\ call'[t].conn = call[t].conn
        /\ \A u \in Threads : u # t => call'[u] = call[u]
    BY <1>1, <1>3 DEF Goto, Call
  <2> QED
    BY <1>1, <1>3, <2>1, <2>2 DEF DialHasConn
<1>4. ASSUME NEW l \in AcceptPC \cup ClosePC \cup DialPC, NEW a \in Addrs,
             NEW c \in Conns \cup {NoConn}, Enter(t, l, a, c), l \in DialPC => c \in Conns
      PROVE  call' \in [Threads -> Call] /\ DialHasConn'
  <2>1. call' \in [Threads -> Call]
    BY <1>1, <1>4 DEF Enter, Call
  <2>2. /\ call'[t].pc = l /\ call'[t].conn = c
        /\ \A u \in Threads : u # t => call'[u] = call[u]
    BY <1>1, <1>4 DEF Enter, Call
  <2> QED
    BY <1>1, <1>4, <2>1, <2>2 DEF DialHasConn
<1>5. "dial_lookup" \in DialPC
  BY DEF DialPC
<1> QED
  BY <1>1, <1>2, <1>3, <1>4, <1>5

\* What a step does to the connections: nothing, or one is queued at an open
\* listener, or one is accepted, or an Accept finds the channel closed and
\* empty.
LEMMA ConnectionsStep ==
    ASSUME TypeInv, [Next]_vars
    PROVE  \/ UNCHANGED <<connections, dialed, accepted, nilAccepted>>
           \/ \E a \in Addrs, c \in Conns :
                 /\ ~lclosed[a] /\ Len(connections[a]) < Cap
                 /\ connections' = [connections EXCEPT ![a] = Append(@, c)]
                 /\ dialed' = [dialed EXCEPT ![a] = Append(@, c)]
                 /\ UNCHANGED <<accepted, nilAccepted, lclosed>>
           \/ \E a \in Addrs :
                 /\ connections[a] # <<>>
                 /\ accepted' = [accepted EXCEPT ![a] = Append(@, Head(connections[a]))]
                 /\ connections' = [connections EXCEPT ![a] = Tail(@)]
                 /\ UNCHANGED <<dialed, nilAccepted, lclosed>>
           \/ \E a \in Addrs :
                 /\ lclosed[a] /\ connections[a] = <<>>
                 /\ nilAccepted' = [nilAccepted EXCEPT ![a] = TRUE]
                 /\ UNCHANGED <<connections, dialed, accepted, lclosed>>
<1>1. \A t \in Threads : call[t].addr \in Addrs
  BY DEF TypeInv, TypeOK, Call
<1>2. ASSUME NEW t \in Threads, DialDeliver(t)
      PROVE  \/ UNCHANGED <<connections, dialed, accepted, nilAccepted>>
             \/ LET a == call[t].addr
                    c == call[t].conn
                IN  /\ c \in Conns
                    /\ ~lclosed[a] /\ Len(connections[a]) < Cap
                    /\ connections' = [connections EXCEPT ![a] = Append(@, c)]
                    /\ dialed' = [dialed EXCEPT ![a] = Append(@, c)]
                    /\ UNCHANGED <<accepted, nilAccepted, lclosed>>
  <2>1. call[t].conn \in Conns
    BY <1>2 DEF DialDeliver, At, TypeInv, DialHasConn, DialPC
  <2> QED
    BY <1>2, <2>1 DEF DialDeliver
<1>3. ASSUME NEW t \in Threads, AcceptWait(t)
      PROVE  \E a \in Addrs :
                \/ /\ connections[a] # <<>>
                   /\ accepted' = [accepted EXCEPT ![a] = Append(@, Head(connections[a]))]
                   /\ connections' = [connections EXCEPT ![a] = Tail(@)]
                   /\ UNCHANGED <<dialed, nilAccepted, lclosed>>
                \/ /\ lclosed[a] /\ connections[a] = <<>>
                   /\ nilAccepted' = [nilAccepted EXCEPT ![a] = TRUE]
                   /\ UNCHANGED <<connections, dialed, accepted, lclosed>>
  BY <1>1, <1>3, Zenon DEF AcceptWait
<1>4. ASSUME NEW t \in Threads, NEW a \in Addrs,
             \/ Listen(t, a) \/ CallDial(t, a) \/ CallAccept(t, a)
             \/ CloseListener(t, a) \/ CloseOne(t, a)
      PROVE  UNCHANGED <<connections, dialed, accepted, nilAccepted>>
  BY <1>4 DEF Listen, CallDial, CallAccept, CloseListener, CloseOne, histVars
<1>5. ASSUME NEW t \in Threads,
             \/ CallClose(t) \/ DialLookup(t) \/ DialCheck(t) \/ DialCancelled(t)
             \/ AcceptCheck(t) \/ AcceptCancelled(t) \/ CloseLock(t) \/ CloseDone(t)
      PROVE  UNCHANGED <<connections, dialed, accepted, nilAccepted>>
  BY <1>5 DEF CallClose, DialLookup, DialCheck, DialCancelled, AcceptCheck,
              AcceptCancelled, CloseLock, CloseDone, histVars
<1>6. CASE Crashed \/ UNCHANGED vars
  BY <1>6 DEF Crashed, vars
<1> QED
  BY <1>1, <1>2, <1>3, <1>4, <1>5, <1>6, Zenon DEF Next, Step

\* The types of the channels and of the history, and the capacity.
ConnType ==
    /\ connections \in [Addrs -> Seq(Conns)]
    /\ \A a \in Addrs : Len(connections[a]) <= Cap
    /\ dialed \in [Addrs -> Seq(Conns)]
    /\ accepted \in [Addrs -> Seq(Conns)]
    /\ nilAccepted \in [Addrs -> BOOLEAN]

\* A step keeps them.
LEMMA ConnTypeStep ==
    ASSUME TypeInv, [Next]_vars
    PROVE  ConnType'
<1>1. ConnType /\ \A a \in Addrs : /\ connections[a] \in Seq(Conns)
                                   /\ dialed[a] \in Seq(Conns)
                                   /\ accepted[a] \in Seq(Conns)
  BY DEF TypeInv, TypeOK, ConnType
<1>2. ASSUME NEW s \in Seq(Conns), NEW c \in Conns
      PROVE  /\ Append(s, c) \in Seq(Conns)
             /\ Len(s) < Cap => Len(Append(s, c)) <= Cap
  BY BoundsAssumption, <1>2
<1>3. ASSUME NEW s \in Seq(Conns), s # <<>>
      PROVE  /\ Head(s) \in Conns /\ Tail(s) \in Seq(Conns)
             /\ Len(s) <= Cap => Len(Tail(s)) <= Cap
  <2>1. /\ Head(s) \in Conns /\ Tail(s) \in Seq(Conns) /\ Len(Tail(s)) = Len(s) - 1
        /\ Len(s) \in Nat
    BY <1>3, HeadTailProperties, LenProperties
  <2> QED
    BY <2>1, BoundsAssumption
<1>4. CASE UNCHANGED <<connections, dialed, accepted, nilAccepted>>
  BY <1>1, <1>4 DEF ConnType
<1>5. ASSUME NEW a \in Addrs, NEW c \in Conns, Len(connections[a]) < Cap,
             connections' = [connections EXCEPT ![a] = Append(@, c)],
             dialed' = [dialed EXCEPT ![a] = Append(@, c)],
             UNCHANGED <<accepted, nilAccepted>>
      PROVE  ConnType'
  <2>1. /\ Append(connections[a], c) \in Seq(Conns) /\ Append(dialed[a], c) \in Seq(Conns)
        /\ Len(Append(connections[a], c)) <= Cap
    BY <1>1, <1>2, <1>5
  <2> QED
    BY <1>1, <1>5, <2>1 DEF ConnType
<1>6. ASSUME NEW a \in Addrs, connections[a] # <<>>,
             accepted' = [accepted EXCEPT ![a] = Append(@, Head(connections[a]))],
             connections' = [connections EXCEPT ![a] = Tail(@)],
             UNCHANGED <<dialed, nilAccepted>>
      PROVE  ConnType'
  <2>1. /\ Head(connections[a]) \in Conns /\ Tail(connections[a]) \in Seq(Conns)
        /\ Len(Tail(connections[a])) <= Cap
    BY <1>1, <1>3, <1>6 DEF ConnType
  <2>2. Append(accepted[a], Head(connections[a])) \in Seq(Conns)
    BY <1>1, <1>2, <2>1
  <2> QED
    BY <1>1, <1>6, <2>1, <2>2 DEF ConnType
<1>7. ASSUME NEW a \in Addrs, nilAccepted' = [nilAccepted EXCEPT ![a] = TRUE],
             UNCHANGED <<connections, dialed, accepted>>
      PROVE  ConnType'
  BY <1>1, <1>7 DEF ConnType
<1> QED
  BY <1>4, <1>5, <1>6, <1>7, ConnectionsStep

\* No call leaves the types of the transport.
LEMMA TypeStep == TypeInv /\ [Next]_vars => TypeInv'
<1> SUFFICES ASSUME TypeInv, [Next]_vars
             PROVE  TypeInv'
  OBVIOUS
<1> DEFINE TransportType ==
               /\ closed \in BOOLEAN /\ mu \in Threads \cup {NoThread}
               /\ listeners \in SUBSET Addrs /\ lclosed \in [Addrs -> BOOLEAN]
               /\ panic \in {"none", "send on closed channel", "listener closed twice"}
               /\ next \in 1 .. MaxDials + 1
           CallType == call \in [Threads -> Call] /\ DialHasConn
<1>1. TransportType /\ CallType /\ \A t \in Threads : call[t].addr \in Addrs
  BY DEF TypeInv, TypeOK, Call
<1>2. NoCall.addr \in Addrs
  BY AddrsAssumption DEF NoCall
<1>3. /\ DialPC = {"dial_lookup", "dial_check", "dial_deliver"}
      /\ "accept_check" \in AcceptPC /\ "accept_wait" \in AcceptPC
      /\ "close_lock" \in ClosePC /\ "close_listeners" \in ClosePC
  BY DEF DialPC, AcceptPC, ClosePC
<1>4. ASSUME NEW t \in Threads, NEW a \in Addrs, CallDial(t, a)
      PROVE  TransportType' /\ CallType'
  <2>1. next \in 1 .. MaxDials + 1 /\ next <= MaxDials /\ next' = next + 1
    BY <1>1, <1>4 DEF CallDial
  <2>2. next \in Conns /\ next' \in 1 .. MaxDials + 1
    BY <2>1, BoundsAssumption DEF Conns
  <2>3. CallType'
    BY <1>4, <2>2, CallMoves DEF CallDial
  <2> QED
    BY <1>1, <1>4, <2>2, <2>3 DEF CallDial
<1>5. ASSUME NEW t \in Threads, NEW a \in Addrs, CallAccept(t, a) \/ CallClose(t)
      PROVE  TransportType' /\ CallType'
  <2>1. CallType'
    BY <1>2, <1>3, <1>5, CallMoves DEF CallAccept, CallClose
  <2> QED
    BY <1>1, <1>5, <2>1 DEF CallAccept, CallClose, histVars
<1>6. ASSUME NEW t \in Threads, NEW a \in Addrs,
             Listen(t, a) \/ CloseListener(t, a) \/ CloseOne(t, a)
      PROVE  TransportType' /\ CallType'
  BY <1>1, <1>6 DEF Listen, CloseListener, CloseOne, histVars, DialHasConn
<1>7. ASSUME NEW t \in Threads,
             DialLookup(t) \/ DialCheck(t) \/ DialCancelled(t) \/ AcceptCheck(t)
             \/ AcceptCancelled(t) \/ AcceptWait(t)
      PROVE  TransportType' /\ CallType'
  <2>1. CallType'
    BY <1>3, <1>7, CallMoves
    DEF DialLookup, DialCheck, DialCancelled, AcceptCheck, AcceptCancelled, AcceptWait, At
  <2> QED
    BY <1>1, <1>7, <2>1
    DEF DialLookup, DialCheck, DialCancelled, AcceptCheck, AcceptCancelled, AcceptWait,
        histVars
<1>8. ASSUME NEW t \in Threads, DialDeliver(t)
      PROVE  TransportType' /\ CallType'
  <2>1. CallType'
    <3>1. CASE Return(t)
      BY <3>1, CallMoves
    <3>2. CASE UNCHANGED call
      BY <1>1, <3>2 DEF DialHasConn
    <3> QED
      BY <1>8, <3>1, <3>2 DEF DialDeliver
  <2> QED
    BY <1>1, <1>8, <2>1 DEF DialDeliver
<1>9. ASSUME NEW t \in Threads, CloseLock(t) \/ CloseDone(t)
      PROVE  TransportType' /\ CallType'
  <2>1. CallType'
    BY <1>3, <1>9, CallMoves DEF CloseLock, CloseDone
  <2> QED
    BY <1>1, <1>9, <2>1 DEF CloseLock, CloseDone, histVars
<1>10. ASSUME Crashed \/ UNCHANGED vars
       PROVE  TransportType' /\ CallType'
  BY <1>1, <1>10 DEF Crashed, vars, DialHasConn
<1> HIDE DEF TransportType, CallType
<1>11. TransportType' /\ CallType'
  BY <1>4, <1>5, <1>6, <1>7, <1>8, <1>9, <1>10, AddrsAssumption DEF Next, Step
<1> QED
  BY <1>11, ConnTypeStep DEF TypeInv, TypeOK, ConnType, TransportType, CallType

\* A new transport is well formed.
LEMMA TypeInit == Init => TypeInv
<1> SUFFICES ASSUME Init
             PROVE  TypeInv
  OBVIOUS
<1>1. NoCall \in Call /\ NoCall.pc \notin DialPC
  BY AddrsAssumption DEF NoCall, Call, DialPC
<1>2. <<>> \in Seq(Conns) /\ Len(<<>>) <= Cap /\ 1 \in 1 .. MaxDials + 1
  BY BoundsAssumption
<1> QED
  BY <1>1, <1>2, Zenon DEF Init, TypeInv, TypeOK, DialHasConn

\* Every value the transport holds is of its type and no channel exceeds its
\* capacity, in every execution.
THEOREM TypeCorrect == Spec => []TypeOK
<1>1. TypeInv => TypeOK
  BY DEF TypeInv
<1> QED
  BY <1>1, TypeInit, TypeStep, PTL DEF Spec

-----------------------------------------------------------------------------
(* Connections are handed over once and in order.                          *)

\* The line of the connections dialled at an address is kept by every step.
LEMMA LineStep == TypeInv /\ DialedOnceInOrder /\ [Next]_vars => DialedOnceInOrder'
<1> SUFFICES ASSUME TypeInv, DialedOnceInOrder, [Next]_vars, NEW a \in Addrs
             PROVE  dialed'[a] = accepted'[a] \o connections'[a]
  BY Zenon DEF DialedOnceInOrder
<1>1. /\ connections \in [Addrs -> Seq(Conns)] /\ connections[a] \in Seq(Conns)
      /\ dialed \in [Addrs -> Seq(Conns)]
      /\ accepted \in [Addrs -> Seq(Conns)] /\ accepted[a] \in Seq(Conns)
      /\ dialed[a] = accepted[a] \o connections[a]
  BY DEF TypeInv, TypeOK, DialedOnceInOrder
<1>2. ASSUME NEW b \in Addrs, NEW c \in Conns,
             connections' = [connections EXCEPT ![b] = Append(@, c)],
             dialed' = [dialed EXCEPT ![b] = Append(@, c)],
             accepted' = accepted
      PROVE  dialed'[a] = accepted'[a] \o connections'[a]
  <2>1. CASE a = b
    <3>1. /\ dialed'[a] = Append(dialed[a], c)
          /\ connections'[a] = Append(connections[a], c)
          /\ dialed[a] \in Seq(Conns)
      BY <1>1, <1>2, <2>1
    <3> QED
      BY <1>1, <1>2, <3>1, JoinLine, SMTT(30)
  <2>2. CASE a # b
    BY <1>1, <1>2, <2>2
  <2> QED
    BY <2>1, <2>2, Zenon
<1>3. ASSUME NEW b \in Addrs, connections[b] # <<>>,
             accepted' = [accepted EXCEPT ![b] = Append(@, Head(connections[b]))],
             connections' = [connections EXCEPT ![b] = Tail(@)],
             dialed' = dialed
      PROVE  dialed'[a] = accepted'[a] \o connections'[a]
  <2>1. CASE a = b
    <3>1. /\ accepted'[a] = Append(accepted[a], Head(connections[a]))
          /\ connections'[a] = Tail(connections[a])
      BY <1>1, <1>3, <2>1
    <3>2. accepted'[a] \o connections'[a] = accepted[a] \o connections[a]
      BY <1>1, <1>3, <2>1, <3>1, HandOver, Zenon
    <3> QED
      BY <1>1, <1>3, <3>2, Zenon
  <2>2. CASE a # b
    BY <1>1, <1>3, <2>2
  <2> QED
    BY <2>1, <2>2, Zenon
<1>4. CASE UNCHANGED <<connections, dialed, accepted>>
  BY <1>1, <1>4
<1> QED
  BY <1>2, <1>3, <1>4, ConnectionsStep, Zenon

\* Every connection Dial has returned is accepted once or still queued, in
\* the order of the dials, whatever fills, empties and closes the listeners.
THEOREM HandedOverOnce == Spec => []DialedOnceInOrder
<1>1. Init => DialedOnceInOrder
  <2> SUFFICES ASSUME Init, NEW a \in Addrs
               PROVE  dialed[a] = accepted[a] \o connections[a]
    BY Zenon DEF DialedOnceInOrder
  <2>1. dialed[a] = <<>> /\ accepted[a] = <<>> /\ connections[a] = <<>>
    BY DEF Init
  <2> QED
    BY <2>1
<1> QED
  BY <1>1, TypeInit, TypeStep, LineStep, PTL DEF Spec

-----------------------------------------------------------------------------
(* Close.                                                                  *)

\* A closed listener stays closed and its channel takes nothing more.
LEMMA ClosedStep ==
    ASSUME TypeInv, [Next]_vars, NEW a \in Addrs, lclosed[a]
    PROVE  /\ lclosed'[a]
           /\ Len(connections'[a]) <= Len(connections[a])
           /\ connections[a] = <<>> => connections'[a] = <<>>
<1>1. /\ lclosed \in [Addrs -> BOOLEAN] /\ connections \in [Addrs -> Seq(Conns)]
      /\ connections[a] \in Seq(Conns)
  BY DEF TypeInv, TypeOK
<1>2. lclosed'[a]
  <2>1. ASSUME NEW t \in Threads, NEW b \in Addrs, CloseListener(t, b) \/ CloseOne(t, b)
        PROVE  lclosed'[a]
    BY <1>1, <2>1 DEF CloseListener, CloseOne
  <2>2. CASE UNCHANGED lclosed
    BY <2>2
  <2> QED
    BY <2>1, <2>2, Zenon DEF Next, Step, Listen, CallDial, CallAccept, CallClose, DialLookup,
        DialCheck, DialDeliver, DialCancelled, AcceptCheck, AcceptWait, AcceptCancelled,
        CloseLock, CloseDone, Crashed, vars
<1>3. \/ connections'[a] = connections[a]
      \/ connections[a] # <<>> /\ connections'[a] = Tail(connections[a])
  BY <1>1, ConnectionsStep
<1>4. ASSUME NEW s \in Seq(Conns), NEW r, r = s \/ (s # <<>> /\ r = Tail(s))
      PROVE  Len(r) <= Len(s)
  <2>1. Len(s) \in Nat
    OBVIOUS
  <2>2. s # <<>> => Len(Tail(s)) = Len(s) - 1
    BY HeadTailProperties
  <2> QED
    BY <1>4, <2>1, <2>2
<1>5. PICK r, s : r = connections'[a] /\ s = connections[a]
  OBVIOUS
<1>6. Len(r) <= Len(s)
  BY <1>1, <1>3, <1>4, <1>5
<1> QED
  BY <1>2, <1>3, <1>5, <1>6

\* No connection is queued at a closed listener, although Dial looks at the
\* transport's flag only, and before it sends.
THEOREM ClosedTakeNothing == Spec => ClosedListenersTakeNothing
<1>1. TypeInv /\ [Next]_vars =>
        [\A a \in Addrs : lclosed[a] => Len(connections'[a]) <= Len(connections[a])]_vars
  BY ClosedStep
<1> QED
  BY <1>1, TypeInit, TypeStep, PTL DEF Spec, ClosedListenersTakeNothing

\* Accept reports nothing, neither connection nor error, only at a listener
\* that is closed and has handed out every connection queued before.
THEOREM DrainedBeforeNil == Spec => []NilOnlyWhenDrained
<1>1. Init => NilOnlyWhenDrained
  BY DEF Init, NilOnlyWhenDrained
<1>2. TypeInv /\ NilOnlyWhenDrained /\ [Next]_vars => NilOnlyWhenDrained'
  <2> SUFFICES ASSUME TypeInv, NilOnlyWhenDrained, [Next]_vars, NEW a \in Addrs,
                      nilAccepted'[a]
               PROVE  lclosed'[a] /\ connections'[a] = <<>>
    BY DEF NilOnlyWhenDrained
  <2>1. nilAccepted \in [Addrs -> BOOLEAN]
    BY DEF TypeInv, TypeOK
  <2>2. nilAccepted[a] \/ (lclosed[a] /\ connections[a] = <<>>)
    BY <2>1, ConnectionsStep
  <2>3. lclosed[a] /\ connections[a] = <<>>
    BY <2>2 DEF NilOnlyWhenDrained
  <2> QED
    BY <2>3, ClosedStep
<1> QED
  BY <1>1, <1>2, TypeInit, TypeStep, PTL DEF Spec

\* Once the transport's Close has returned, every listener is closed and no
\* Listen adds another: the lock is held from the flag to the last listener.
THEOREM FinalClose == Spec => []CloseIsFinal
<1>1. Init => CloseIsFinal
  BY DEF Init, CloseIsFinal
<1>2. TypeInv /\ CloseIsFinal /\ [Next]_vars => CloseIsFinal'
  <2> SUFFICES ASSUME TypeInv, CloseIsFinal, [Next]_vars, closed', mu' = NoThread,
                      NEW a \in listeners'
               PROVE  lclosed'[a]
    BY DEF CloseIsFinal
  <2>1. listeners \in SUBSET Addrs
    BY DEF TypeInv, TypeOK
  <2>2. ASSUME NEW t \in Threads, CloseDone(t)
        PROVE  lclosed'[a]
    BY <2>2 DEF CloseDone
  <2>3. ASSUME NEW t \in Threads, CloseLock(t)
        PROVE  lclosed[a] /\ a \in listeners
    BY <2>3, NoThreadAssumption, Zenon DEF CloseLock, CloseIsFinal
  <2>4. ASSUME NEW t \in Threads, NEW b \in Addrs, Listen(t, b)
        PROVE  FALSE
    BY <2>4 DEF Listen
  <2>5. ASSUME UNCHANGED <<closed, mu, listeners>>
        PROVE  lclosed[a] /\ a \in listeners
    BY <2>5 DEF CloseIsFinal
  <2>6. (lclosed[a] /\ a \in listeners) \/ lclosed'[a]
    BY <2>2, <2>3, <2>4, <2>5, Zenon
    DEF Next, Step, CallDial, CallAccept, CloseListener, CloseOne, CallClose, DialLookup,
        DialCheck, DialDeliver, DialCancelled, AcceptCheck, AcceptWait, AcceptCancelled,
        Crashed, vars
  <2> QED
    BY <2>1, <2>6, ClosedStep
<1> QED
  BY <1>1, <1>2, TypeInit, TypeStep, PTL DEF Spec

-----------------------------------------------------------------------------
(* Who holds t.mu: the safety that the progress of Dial and Close rests    *)
(* on.                                                                     *)

\* t.mu is held over several steps only by the one Close that set t.closed,
\* while it closes the listeners, a loop that never waits: no second Close
\* gets there, and no goroutine waits for a lock whose holder has returned.
LockIsTheClosers ==
    /\ \A t \in Threads : call[t].pc = "close_listeners" <=> mu = t
    /\ mu # NoThread => closed

LEMMA CloserStep == TypeInv /\ LockIsTheClosers /\ [Next]_vars => LockIsTheClosers'
<1> SUFFICES ASSUME TypeInv, LockIsTheClosers, [Next]_vars
             PROVE  LockIsTheClosers'
  OBVIOUS
<1>1. call \in [Threads -> Call] /\ "close_listeners" \notin DialPC \cup AcceptPC
      /\ NoCall.pc = "idle"
  BY DEF TypeInv, TypeOK, DialPC, AcceptPC, NoCall
<1>2. ASSUME NEW t \in Threads, call[t].pc # "close_listeners", call'[t].pc # "close_listeners",
             \A u \in Threads : u # t => call'[u] = call[u], UNCHANGED <<mu, closed>>
      PROVE  LockIsTheClosers'
  BY <1>2 DEF LockIsTheClosers
<1>3. ASSUME UNCHANGED <<call, mu, closed>>
      PROVE  LockIsTheClosers'
  BY <1>3 DEF LockIsTheClosers
<1>4. ASSUME NEW t \in Threads, NEW a \in Addrs,
             CallDial(t, a) \/ CallAccept(t, a) \/ CallClose(t)
      PROVE  LockIsTheClosers'
  BY <1>1, <1>2, <1>4 DEF CallDial, CallAccept, CallClose, Enter, At, Call
<1>5. ASSUME NEW t \in Threads,
             \/ DialLookup(t) \/ DialCheck(t) \/ DialCancelled(t)
             \/ AcceptCheck(t) \/ AcceptCancelled(t) \/ AcceptWait(t)
      PROVE  LockIsTheClosers'
  <2>1. /\ call[t].pc # "close_listeners" /\ UNCHANGED <<mu, closed>>
        /\ \/ Return(t) \/ Goto(t, "dial_check") \/ Goto(t, "dial_deliver")
           \/ Goto(t, "accept_wait")
    BY <1>5 DEF DialLookup, DialCheck, DialCancelled, AcceptCheck, AcceptCancelled,
                AcceptWait, At
  <2>2. /\ call'[t].pc # "close_listeners"
        /\ \A u \in Threads : u # t => call'[u] = call[u]
    BY <1>1, <2>1 DEF Return, Goto, Call
  <2> QED
    BY <1>2, <2>1, <2>2
<1>6. ASSUME NEW t \in Threads, DialDeliver(t)
      PROVE  LockIsTheClosers'
  <2>1. /\ call[t].pc = "dial_deliver" /\ UNCHANGED <<mu, closed>>
        /\ Return(t) \/ UNCHANGED call
    BY <1>6 DEF DialDeliver, At
  <2>2. CASE Return(t)
    BY <1>1, <1>2, <2>1, <2>2 DEF Return, Call
  <2> QED
    BY <1>3, <2>1, <2>2, SMTT(30)
<1>7. ASSUME NEW t \in Threads, CloseLock(t)
      PROVE  LockIsTheClosers'
  <2>1. call[t].pc = "close_lock" /\ mu = NoThread /\ t # NoThread
    BY <1>7, NoThreadAssumption DEF CloseLock, At
  <2>2. CASE closed
    BY <1>1, <1>2, <1>7, <2>1, <2>2 DEF CloseLock, Return, Call
  <2>3. CASE ~closed
    <3>1. /\ closed' = TRUE /\ mu' = t /\ call'[t].pc = "close_listeners"
          /\ \A u \in Threads : u # t => call'[u] = call[u]
      BY <1>1, <1>7, <2>3 DEF CloseLock, Goto, Call
    <3> QED
      BY <2>1, <3>1, NoThreadAssumption DEF LockIsTheClosers
  <2> QED
    BY <2>2, <2>3
<1>8. ASSUME NEW t \in Threads, CloseDone(t)
      PROVE  LockIsTheClosers'
  <2>1. /\ call[t].pc = "close_listeners" /\ mu' = NoThread
        /\ call'[t].pc = "idle" /\ \A u \in Threads : u # t => call'[u] = call[u]
    BY <1>1, <1>8 DEF CloseDone, At, Return, Call
  <2> QED
    BY <2>1, NoThreadAssumption DEF LockIsTheClosers
<1>9. ASSUME NEW t \in Threads, NEW a \in Addrs,
             Listen(t, a) \/ CloseListener(t, a) \/ CloseOne(t, a)
      PROVE  LockIsTheClosers'
  BY <1>3, <1>9 DEF Listen, CloseListener, CloseOne
<1>10. CASE Crashed \/ UNCHANGED vars
  BY <1>3, <1>10 DEF Crashed, vars
<1> QED
  BY <1>4, <1>5, <1>6, <1>7, <1>8, <1>9, <1>10, AddrsAssumption DEF Next, Step

\* No goroutine waits for t.mu in vain: its holder is the Close that is
\* closing the listeners.
THEOREM LockHolder == Spec => []LockIsTheClosers
<1>1. Init => LockIsTheClosers
  BY NoThreadAssumption DEF Init, NoCall, LockIsTheClosers
<1> QED
  BY <1>1, CloserStep, TypeInit, TypeStep, PTL DEF Spec
=============================================================================
