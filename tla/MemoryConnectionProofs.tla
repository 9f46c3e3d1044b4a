----------------------- MODULE MemoryConnectionProofs -----------------------
(***************************************************************************)
(* No lost wakeup, no message left behind on Close, delivery in order, and *)
(* the implementation of two channels, for every number of goroutines and  *)
(* of messages.                                                            *)
(***************************************************************************)
EXTENDS MemoryConnection, SequenceLemmas, TLAPS

-----------------------------------------------------------------------------
(* Sequences and types.                                                    *)

\* Each end has one peer, the other end.
LEMMA Peers ==
    \A e \in Ends : Peer(e) \in Ends /\ Peer(e) # e /\ Peer(Peer(e)) = e
BY Zenon DEF Ends, Peer

\* Past the check of its arguments, Send carries a message.
NilRefused ==
    \A t \in Threads :
        call[t].pc \in {"send_append", "send_notify"} => call[t].msg \in Msgs

TypeInv == TypeOK /\ NilRefused

\* How the three ways of moving a thread change its call.
LEMMA CallMoves ==
    ASSUME TypeOK, NEW t \in Threads
    PROVE  /\ Return(t) =>
                 /\ call' \in [Threads -> Call]
                 /\ call'[t] = NoCall
                 /\ \A u \in Threads : u # t => call'[u] = call[u]
           /\ \A l \in SendPC \cup RecvPC \cup ClosePC : Goto(t, l) =>
                 /\ call' \in [Threads -> Call]
                 /\ call'[t].pc = l
                 /\ call'[t].end = call[t].end
                 /\ call'[t].msg = call[t].msg
                 /\ \A u \in Threads : u # t => call'[u] = call[u]
           /\ \A l \in SendPC \cup RecvPC \cup ClosePC, e \in Ends,
                  m \in Msgs \cup {NilMsg} : Enter(t, l, e, m) =>
                 /\ call' \in [Threads -> Call]
                 /\ call'[t].pc = l
                 /\ call'[t].end = e
                 /\ call'[t].msg = m
                 /\ \A u \in Threads : u # t => call'[u] = call[u]
<1>1. NoCall \in Call
  BY Zenon DEF NoCall, Call, Ends
<1>2. Return(t) =>
         /\ call' \in [Threads -> Call]
         /\ call'[t] = NoCall
         /\ \A u \in Threads : u # t => call'[u] = call[u]
  BY <1>1, Zenon DEF Return, TypeOK
<1>3. ASSUME NEW l \in SendPC \cup RecvPC \cup ClosePC, Goto(t, l)
      PROVE  /\ call' \in [Threads -> Call]
             /\ call'[t].pc = l
             /\ call'[t].end = call[t].end
             /\ call'[t].msg = call[t].msg
             /\ \A u \in Threads : u # t => call'[u] = call[u]
  BY <1>3, Zenon DEF Goto, Call, TypeOK
<1>4. ASSUME NEW l \in SendPC \cup RecvPC \cup ClosePC, NEW e \in Ends,
             NEW m \in Msgs \cup {NilMsg}, Enter(t, l, e, m)
      PROVE  /\ call' \in [Threads -> Call]
             /\ call'[t].pc = l
             /\ call'[t].end = e
             /\ call'[t].msg = m
             /\ \A u \in Threads : u # t => call'[u] = call[u]
  BY <1>4, Zenon DEF Enter, Call, TypeOK
<1> QED
  BY <1>2, <1>3, <1>4, Zenon

\* Labels are members of the sets they are listed in.
LEMMA Labels ==
    /\ "send_check" \in SendPC /\ "send_append" \in SendPC /\ "send_notify" \in SendPC
    /\ "recv_check" \in RecvPC /\ "recv_pop" \in RecvPC /\ "recv_wait" \in RecvPC
    /\ "close_lock" \in ClosePC /\ "close_inbound" \in ClosePC /\ "close_outbound" \in ClosePC
    /\ NoCall.pc \notin SendPC \cup RecvPC \cup ClosePC
BY Zenon DEF SendPC, RecvPC, ClosePC, NoCall

\* No call leaves the types of the connection.
LEMMA TypeStep == TypeInv /\ [Next]_vars => TypeInv'
<1> SUFFICES ASSUME TypeInv, [Next]_vars
             PROVE  TypeInv'
  BY Zenon
<1>1. TypeOK /\ NilRefused
  BY Zenon DEF TypeInv
<1>2. \A t \in Threads : /\ Outbound(t) \in Ends /\ Inbound(t) \in Ends
                         /\ call[t].end \in Ends
                         /\ call[t].msg \in Msgs \cup {NilMsg}
  BY <1>1, Peers, Zenon DEF TypeOK, Call, Outbound, Inbound
<1>3. ASSUME NEW t \in Threads, NEW e \in Ends, CallSend(t, e)
      PROVE  TypeInv'
  <2>1. next \in Msgs /\ next + 1 \in 1 .. MaxMsgs + 1
    <3>1. next \in 1 .. MaxMsgs + 1 /\ next <= MaxMsgs
      BY <1>1, <1>3, Zenon DEF TypeOK, CallSend
    <3> QED
      BY <3>1, MaxMsgsAssumption DEF Msgs
  <2>2. call' \in [Threads -> Call] /\ NilRefused'
    BY <1>1, <1>3, <2>1, CallMoves, Labels DEF CallSend, NilRefused
  <2> QED
    BY <1>1, <1>3, <2>1, <2>2, Zenon DEF CallSend, TypeInv, TypeOK, connVars, queueVars
<1>4. ASSUME NEW t \in Threads, NEW e \in Ends,
             CallSendNil(t, e) \/ CallRecv(t, e) \/ CallClose(t, e)
      PROVE  TypeInv'
  <2>1. call' \in [Threads -> Call] /\ NilRefused'
    BY <1>1, <1>4, CallMoves, Labels
    DEF CallSendNil, CallRecv, CallClose, NilRefused
  <2> QED
    BY <1>1, <1>4, <2>1, Zenon
    DEF CallSendNil, CallRecv, CallClose, TypeInv, TypeOK, connVars, queueVars, histVars
<1>5. ASSUME NEW t \in Threads, NEW e \in Ends, ClearMessages(t, e)
      PROVE  TypeInv'
  <2>1. Range(messages[e]) \subseteq Msgs
    BY <1>1, RangeType, Zenon DEF TypeOK
  <2>2. messages' \in [Ends -> Seq(Msgs)]
    <3>1. <<>> \in Seq(Msgs)
      OBVIOUS
    <3> QED
      BY <1>1, <1>5, <3>1, Zenon DEF TypeOK, ClearMessages
  <2> QED
    BY <1>1, <1>5, <2>1, <2>2, Zenon
    DEF ClearMessages, TypeInv, TypeOK, NilRefused, connVars
<1>6. ASSUME NEW t \in Threads, SendCheck(t) \/ SendCancelled(t)
      PROVE  TypeInv'
  <2>1. call' \in [Threads -> Call] /\ NilRefused'
    BY <1>1, <1>2, <1>6, CallMoves, Labels DEF SendCheck, SendCancelled, NilRefused, NoCall
  <2> QED
    BY <1>1, <1>6, <2>1, Zenon
    DEF SendCheck, SendCancelled, TypeInv, TypeOK, connVars, queueVars, histVars
<1>7. ASSUME NEW t \in Threads, SendAppend(t)
      PROVE  TypeInv'
  <2>1. call[t].msg \in Msgs
    BY <1>1, <1>7, Zenon DEF SendAppend, At, NilRefused
  <2>2. call' \in [Threads -> Call] /\ NilRefused'
    BY <1>1, <1>7, <2>1, CallMoves, Labels DEF SendAppend, NilRefused, NoCall
  <2>3. messages[Outbound(t)] \in Seq(Msgs)
    BY <1>1, <1>2, Zenon DEF TypeOK
  <2>4. Append(messages[Outbound(t)], call[t].msg) \in Seq(Msgs)
    BY <2>1, <2>3, AppendRange, Zenon
  <2>5. messages' \in [Ends -> Seq(Msgs)]
    BY <1>1, <1>2, <1>7, <2>4, Zenon DEF SendAppend, TypeOK
  <2> QED
    BY <1>1, <1>7, <2>2, <2>5, Zenon DEF SendAppend, TypeInv, TypeOK, connVars, histVars
<1>8. ASSUME NEW t \in Threads, SendNotify(t)
      PROVE  TypeInv'
  <2>1. call[t].msg \in Msgs
    BY <1>1, <1>8, Zenon DEF SendNotify, At, NilRefused
  <2>2. call' \in [Threads -> Call] /\ NilRefused'
    <3>1. CASE Return(t)
      BY <1>1, <3>1, CallMoves, Labels DEF NilRefused, NoCall
    <3>2. CASE UNCHANGED call
      BY <1>1, <3>2, Zenon DEF NilRefused, TypeOK
    <3> QED
      BY <1>8, <3>1, <3>2, Zenon DEF SendNotify
  <2> QED
    BY <1>1, <1>2, <1>8, <2>1, <2>2, Zenon DEF SendNotify, TypeInv, TypeOK, connVars
<1>9. ASSUME NEW t \in Threads, RecvCheck(t) \/ RecvCancelled(t)
      PROVE  TypeInv'
  <2>1. call' \in [Threads -> Call] /\ NilRefused'
    BY <1>1, <1>9, CallMoves, Labels DEF RecvCheck, RecvCancelled, NilRefused, NoCall
  <2> QED
    BY <1>1, <1>9, <2>1, Zenon
    DEF RecvCheck, RecvCancelled, TypeInv, TypeOK, connVars, queueVars, histVars
<1>10. ASSUME NEW t \in Threads, RecvPop(t)
       PROVE  TypeInv'
  <2>1. call' \in [Threads -> Call] /\ NilRefused'
    BY <1>1, <1>10, CallMoves, Labels DEF RecvPop, NilRefused, NoCall
  <2>2. messages' \in [Ends -> Seq(Msgs)] /\ received' \in [Ends -> Seq(Msgs)]
    <3>1. CASE messages[Inbound(t)] # <<>>
      <4>1. messages[Inbound(t)] \in Seq(Msgs) /\ received[call[t].end] \in Seq(Msgs)
        BY <1>1, <1>2, Zenon DEF TypeOK
      <4>2. Tail(messages[Inbound(t)]) \in Seq(Msgs) /\ Head(messages[Inbound(t)]) \in Msgs
        BY <3>1, <4>1, TailRange, Zenon
      <4>3. Append(received[call[t].end], Head(messages[Inbound(t)])) \in Seq(Msgs)
        BY <4>1, <4>2, AppendRange, Zenon
      <4> QED
        BY <1>1, <1>2, <1>10, <3>1, <4>2, <4>3, Zenon DEF RecvPop, TypeOK
    <3>2. CASE messages[Inbound(t)] = <<>>
      BY <1>1, <1>10, <3>2, Zenon DEF RecvPop, TypeOK
    <3> QED
      BY <3>1, <3>2, Zenon
  <2>3. eof' \in [Ends -> BOOLEAN]
    BY <1>1, <1>2, <1>10, Zenon DEF RecvPop, TypeOK
  <2> QED
    BY <1>1, <1>10, <2>1, <2>2, <2>3, Zenon DEF RecvPop, TypeInv, TypeOK, connVars
<1>11. ASSUME NEW t \in Threads, RecvWake(t)
       PROVE  TypeInv'
  <2>1. call' \in [Threads -> Call] /\ NilRefused'
    BY <1>1, <1>11, CallMoves, Labels DEF RecvWake, NilRefused, NoCall
  <2> QED
    BY <1>1, <1>2, <1>11, <2>1, Zenon DEF RecvWake, TypeInv, TypeOK, connVars
<1>12. ASSUME NEW t \in Threads, CloseLock(t)
       PROVE  TypeInv'
  <2>1. call' \in [Threads -> Call] /\ NilRefused'
    BY <1>1, <1>12, CallMoves, Labels DEF CloseLock, NilRefused, NoCall
  <2> QED
    BY <1>1, <1>2, <1>12, <2>1, Zenon
    DEF CloseLock, TypeInv, TypeOK, connVars, queueVars, histVars
<1>13. ASSUME NEW t \in Threads, CloseInbound(t) \/ CloseOutbound(t)
       PROVE  TypeInv'
  <2>1. call' \in [Threads -> Call] /\ NilRefused'
    BY <1>1, <1>13, CallMoves, Labels DEF CloseInbound, CloseOutbound, NilRefused, NoCall
  <2> QED
    BY <1>1, <1>2, <1>13, <2>1, Zenon
    DEF CloseInbound, CloseOutbound, CloseQueue, TypeInv, TypeOK, connVars, histVars
<1>14. CASE Crashed \/ UNCHANGED vars
  BY <1>1, <1>14, Zenon DEF Crashed, vars, TypeInv, TypeOK, NilRefused
<1> QED
  BY <1>3, <1>4, <1>5, <1>6, <1>7, <1>8, <1>9, <1>10, <1>11, <1>12, <1>13, <1>14, Zenon
  DEF Next, Step

\* The state Dial leaves behind is well formed.
LEMMA TypeInit == Init => TypeInv
BY MaxMsgsAssumption, NoThreadAssumption
DEF Init, TypeInv, TypeOK, NilRefused, NoCall, Call, Ends, Msgs

\* Every value the connection holds is of its type, in every execution.
THEOREM TypeCorrect == Spec => []TypeOK
<1>1. TypeInv => TypeOK
  BY Zenon DEF TypeInv
<1> QED
  BY <1>1, TypeInit, TypeStep, PTL DEF Spec

-----------------------------------------------------------------------------
(* No lost wakeup.                                                         *)

\* Callers keep to one receiving goroutine per end.
OneReceiver ==
    \A t, u \in Threads :
        InRecv(t) /\ InRecv(u) /\ call[t].end = call[u].end => t = u

WakeInv == OneReceiver /\ NoLostWakeup

\* Only the receiver of an end takes the token of its queue, and every append
\* is by a sender that has the notification still to do.
LEMMA WakeStep == TypeInv /\ WakeInv /\ [Next]_vars => WakeInv'
<1> SUFFICES ASSUME TypeInv, WakeInv, [Next]_vars
             PROVE  WakeInv'
  BY Zenon
<1>1. TypeOK /\ NilRefused /\ OneReceiver /\ NoLostWakeup
  BY Zenon DEF TypeInv, WakeInv
<1>2. \A t \in Threads : /\ Outbound(t) \in Ends /\ Inbound(t) \in Ends
                         /\ call[t].end \in Ends
                         /\ call[t].msg \in Msgs \cup {NilMsg}
  BY <1>1, Peers, Zenon DEF TypeOK, Call, Outbound, Inbound
<1>3. ASSUME NEW t \in Threads, NEW e \in Ends,
             \/ CallSend(t, e) \/ CallSendNil(t, e)
             \/ CallRecv(t, e) \/ CallClose(t, e)
      PROVE  WakeInv'
  <2>1. PICK l \in SendPC \cup RecvPC \cup ClosePC :
           /\ l \notin {"recv_wait", "send_notify"}
           /\ call'[t].pc = l /\ call'[t].end = e
           /\ call[t].pc = "idle"
           /\ \A u \in Threads : u # t => call'[u] = call[u]
           /\ l \in RecvPC => \A u \in Threads : ~(InRecv(u) /\ call[u].end = e)
    <3>1. CallSend(t, e) => next \in Msgs
      <4>1. CallSend(t, e) => next \in 1 .. MaxMsgs + 1 /\ next <= MaxMsgs
        BY <1>1, Zenon DEF TypeOK, CallSend
      <4> QED
        BY <4>1, MaxMsgsAssumption DEF Msgs
    <3>2. PICK l \in SendPC \cup RecvPC \cup ClosePC, m \in Msgs \cup {NilMsg} :
             /\ Enter(t, l, e, m)
             /\ l \notin {"recv_wait", "send_notify"}
             /\ l \in RecvPC => \A u \in Threads : ~(InRecv(u) /\ call[u].end = e)
      <4>1. CASE CallSend(t, e)
        BY <3>1, <4>1 DEF CallSend, SendPC, RecvPC
      <4>2. CASE CallSendNil(t, e)
        BY <4>2 DEF CallSendNil, SendPC, RecvPC
      <4>3. CASE CallRecv(t, e)
        BY <4>3, Zenon DEF CallRecv, RecvPC
      <4>4. CASE CallClose(t, e)
        BY <4>4 DEF CallClose, ClosePC, RecvPC
      <4> QED
        BY <1>3, <4>1, <4>2, <4>3, <4>4, Zenon
    <3>3. call[t].pc = "idle"
      BY <3>2, Zenon DEF Enter, At
    <3> QED
      BY <1>1, <3>2, <3>3, CallMoves
  <2>2. UNCHANGED queueVars
    BY <1>3, Zenon DEF CallSend, CallSendNil, CallRecv, CallClose
  <2>3. OneReceiver'
    BY <1>1, <2>1, Zenon DEF OneReceiver, InRecv
  <2>4. NoLostWakeup'
    BY <1>1, <2>1, <2>2 DEF NoLostWakeup, Inbound, Outbound, queueVars
  <2> QED
    BY <2>3, <2>4, Zenon DEF WakeInv
<1>4. ASSUME NEW t \in Threads, NEW e \in Ends, ClearMessages(t, e)
      PROVE  WakeInv'
  <2>1. \A q \in Ends : messages'[q] = messages[q] \/ messages'[q] = <<>>
    BY <1>1, <1>4, Zenon DEF ClearMessages, TypeOK
  <2> QED
    BY <1>1, <1>2, <1>4, <2>1, Zenon
    DEF ClearMessages, WakeInv, OneReceiver, NoLostWakeup, InRecv, Inbound, Outbound
<1>5. ASSUME NEW t \in Threads,
             call[t].pc # "send_notify",
             \/ Return(t)
             \/ \E l \in SendPC \cup RecvPC \cup ClosePC :
                   /\ Goto(t, l)
                   /\ l # "recv_wait" \/ messages'[Inbound(t)] = <<>>
                   /\ l \in RecvPC => InRecv(t),
             \A q \in Ends :
                \/ messages'[q] = <<>>
                \/ messages[q] # <<>>
                \/ q = Outbound(t) /\ Goto(t, "send_notify"),
             \A q \in Ends : /\ qclosed[q] => qclosed'[q]
                             /\ \/ notifier[q] => notifier'[q]
                                \/ call[t].pc = "recv_wait" /\ q = Inbound(t)
      PROVE  WakeInv'
  <2>1. /\ \A u \in Threads : u # t => call'[u] = call[u]
        /\ \/ call'[t] = NoCall
           \/ /\ call'[t].end = call[t].end
              /\ call'[t].pc \in SendPC \cup RecvPC \cup ClosePC
              /\ call'[t].pc # "recv_wait" \/ messages'[Inbound(t)] = <<>>
              /\ call'[t].pc \in RecvPC => InRecv(t)
    BY <1>1, <1>5, CallMoves
  <2>2. NoCall.pc = "idle"
    BY Zenon DEF NoCall
  <2>3. OneReceiver'
    BY <1>1, <2>1, <2>2 DEF OneReceiver, InRecv, RecvPC
  <2>4. Goto(t, "send_notify") => call'[t].pc = "send_notify" /\ call'[t].end = call[t].end
    BY <1>1, CallMoves, Labels, Zenon
  <2>5. ASSUME NEW u \in Threads,
               call'[u].pc = "recv_wait", messages'[Inbound(u)'] # <<>>
        PROVE  \/ notifier'[Inbound(u)'] \/ qclosed'[Inbound(u)']
               \/ \E v \in Threads : call'[v].pc = "send_notify" /\ Outbound(v)' = Inbound(u)'
    <3>1. u # t
      BY <2>1, <2>2, <2>5, Zenon DEF Inbound
    <3>2. call'[u] = call[u] /\ Inbound(u)' = Inbound(u)
      BY <2>1, <3>1, Zenon DEF Inbound
    <3>3. CASE messages[Inbound(u)] # <<>>
      <4>1. CASE \E v \in Threads : call[v].pc = "send_notify" /\ Outbound(v) = Inbound(u)
        BY <1>5, <2>1, <3>2, <4>1, Zenon DEF Outbound
      <4>2. CASE qclosed[Inbound(u)]
        BY <1>2, <1>5, <3>2, <4>2, Zenon
      <4>3. CASE notifier[Inbound(u)]
        <5>1. call[t].pc = "recv_wait" => Inbound(t) # Inbound(u)
          BY <1>1, <1>2, <2>5, <3>1, <3>2, Peers DEF OneReceiver, InRecv, RecvPC, Inbound
        <5> QED
          BY <1>2, <1>5, <3>2, <4>3, <5>1, Zenon
      <4> QED
        BY <1>1, <2>5, <3>2, <3>3, <4>1, <4>2, <4>3, Zenon DEF NoLostWakeup
    <3>4. CASE messages[Inbound(u)] = <<>>
      BY <1>2, <1>5, <2>4, <2>5, <3>2, <3>4, Zenon DEF Outbound
    <3> QED
      BY <3>3, <3>4, Zenon
  <2> QED
    BY <2>3, <2>5, Zenon DEF WakeInv, NoLostWakeup
<1>6. ASSUME NEW t \in Threads,
             \/ SendCheck(t) \/ SendCancelled(t) \/ RecvCheck(t)
             \/ RecvCancelled(t) \/ CloseLock(t)
      PROVE  WakeInv'
  <2>1. /\ UNCHANGED queueVars
        /\ call[t].pc # "send_notify"
        /\ \/ Return(t) \/ Goto(t, "send_append")
           \/ InRecv(t) /\ Goto(t, "recv_pop")
           \/ Goto(t, "close_inbound")
    BY <1>6, Zenon DEF SendCheck, SendCancelled, RecvCheck, RecvCancelled, CloseLock,
                At, InRecv, RecvPC
  <2> QED
    BY <1>5, <2>1, Labels DEF queueVars, SendPC, RecvPC, ClosePC
<1>7. ASSUME NEW t \in Threads, SendAppend(t)
      PROVE  WakeInv'
  <2>1. \A q \in Ends : q # Outbound(t) => messages'[q] = messages[q]
    BY <1>1, <1>7, Zenon DEF SendAppend, TypeOK
  <2>2. qclosed[Outbound(t)] => messages' = messages /\ Return(t)
    BY <1>7, Zenon DEF SendAppend
  <2>3. ~qclosed[Outbound(t)] => Goto(t, "send_notify")
    BY <1>7, Zenon DEF SendAppend
  <2>4. UNCHANGED <<notifier, qclosed>> /\ call[t].pc # "send_notify"
    BY <1>7, Zenon DEF SendAppend, At
  <2> QED
    BY <1>5, <2>1, <2>2, <2>3, <2>4, Labels DEF SendPC, RecvPC, ClosePC
<1>8. ASSUME NEW t \in Threads, SendNotify(t)
      PROVE  WakeInv'
  <2>1. CASE qclosed[Outbound(t)]
    BY <1>1, <1>8, <2>1
    DEF SendNotify, WakeInv, OneReceiver, NoLostWakeup, InRecv, Inbound, Outbound
  <2>2. CASE ~qclosed[Outbound(t)]
    <3>1. /\ UNCHANGED <<messages, qclosed>> /\ Return(t)
          /\ notifier' = [notifier EXCEPT ![Outbound(t)] = TRUE]
      BY <1>8, <2>2, Zenon DEF SendNotify
    <3>2. /\ call'[t].pc = "idle"
          /\ \A u \in Threads : u # t => call'[u] = call[u]
      BY <1>1, <3>1, CallMoves DEF NoCall
    <3>3. OneReceiver'
      BY <1>1, <3>2 DEF OneReceiver, InRecv, RecvPC
    <3>4. /\ notifier'[Outbound(t)]
          /\ \A q \in Ends : notifier[q] => notifier'[q]
      BY <1>1, <1>2, <3>1, Zenon DEF TypeOK
    <3>5. NoLostWakeup'
      BY <1>1, <1>2, <3>1, <3>2, <3>4 DEF NoLostWakeup, Inbound, Outbound
    <3> QED
      BY <3>3, <3>5, Zenon DEF WakeInv
  <2> QED
    BY <2>1, <2>2, Zenon
<1>9. ASSUME NEW t \in Threads, RecvPop(t)
      PROVE  WakeInv'
  <2>1. /\ UNCHANGED <<notifier, qclosed>>
        /\ call[t].pc # "send_notify" /\ InRecv(t)
        /\ Return(t) \/ (Goto(t, "recv_wait") /\ messages'[Inbound(t)] = <<>>)
    BY <1>9, Zenon DEF RecvPop, At, InRecv, RecvPC
  <2>2. \A q \in Ends : messages[q] = <<>> => messages'[q] = <<>>
    BY <1>1, <1>9, Zenon DEF RecvPop, TypeOK
  <2> QED
    BY <1>5, <2>1, <2>2, Labels, Zenon DEF SendPC, RecvPC, ClosePC
<1>10. ASSUME NEW t \in Threads, RecvWake(t)
       PROVE  WakeInv'
  <2>1. /\ UNCHANGED <<messages, qclosed>>
        /\ call[t].pc = "recv_wait" /\ InRecv(t)
        /\ Return(t) \/ Goto(t, "recv_check")
    BY <1>10, Zenon DEF RecvWake, At, InRecv, RecvPC
  <2>2. \A q \in Ends : q # Inbound(t) => notifier'[q] = notifier[q]
    BY <1>1, <1>10, Zenon DEF RecvWake, TypeOK
  <2> QED
    BY <1>5, <2>1, <2>2, Labels, Zenon DEF SendPC, RecvPC, ClosePC
<1>11. ASSUME NEW t \in Threads, CloseInbound(t) \/ CloseOutbound(t)
       PROVE  WakeInv'
  <2>1. /\ UNCHANGED <<messages, notifier>>
        /\ call[t].pc # "send_notify"
        /\ Return(t) \/ Goto(t, "close_outbound")
    BY <1>11, Zenon DEF CloseInbound, CloseOutbound, At
  <2>2. \A q \in Ends : qclosed[q] => qclosed'[q]
    BY <1>1, <1>11, Zenon DEF CloseInbound, CloseOutbound, CloseQueue, TypeOK
  <2> QED
    BY <1>5, <2>1, <2>2, Labels DEF SendPC, RecvPC, ClosePC
<1>12. CASE Crashed \/ UNCHANGED vars
  BY <1>1, <1>12, Zenon
  DEF Crashed, vars, WakeInv, OneReceiver, NoLostWakeup, InRecv, Inbound, Outbound
<1> QED
  BY <1>3, <1>4, <1>6, <1>7, <1>8, <1>9, <1>10, <1>11, <1>12, Zenon DEF Next, Step

\* A receiver never sleeps beside a message nobody will announce, whatever
\* the interleaving of Send, Recv and Close and however many senders there are.
THEOREM WakeupNotLost == Spec => []NoLostWakeup
<1>1. Init => WakeInv
  BY DEF Init, WakeInv, OneReceiver, NoLostWakeup, InRecv, RecvPC, NoCall
<1>2. WakeInv => NoLostWakeup
  BY Zenon DEF WakeInv
<1> QED
  BY <1>1, <1>2, TypeInit, TypeStep, WakeStep, PTL DEF Spec

-----------------------------------------------------------------------------
(* Messages keep their identity: who sends one, and where it is queued.    *)

Pending(t) == call[t].pc \in SendPC /\ call[t].msg \in Msgs

MsgInv ==
    /\ \A t \in Threads : Pending(t) => call[t].msg < next /\ call[t].msg \notin acked
    /\ \A t, u \in Threads :
          Pending(t) /\ Pending(u) /\ call[t].msg = call[u].msg => t = u
    /\ \A q \in Ends : \A m \in Range(messages[q]) :
          /\ m < next
          /\ \A t \in Threads : Pending(t) /\ call[t].msg = m =>
                call[t].pc = "send_notify" /\ call[t].end = q
    /\ \A m \in acked : m < next

\* The message of a Send is in no queue before its append, in the queue of
\* its sender until its notification, and acknowledged only then.
LEMMA MsgStep == TypeInv /\ MsgInv /\ [Next]_vars => MsgInv'
<1> SUFFICES ASSUME TypeInv, MsgInv, [Next]_vars
             PROVE  MsgInv'
  OBVIOUS
<1>1. TypeOK /\ NilRefused
  BY Zenon DEF TypeInv
<1>2. \A t \in Threads : /\ Outbound(t) \in Ends /\ Inbound(t) \in Ends
                         /\ call[t].end \in Ends
                         /\ call[t].msg \in Msgs \cup {NilMsg}
  BY <1>1, Peers, Zenon DEF TypeOK, Call, Outbound, Inbound
<1>3. ASSUME \A q \in Ends : Range(messages'[q]) \subseteq Range(messages[q]),
             UNCHANGED <<next, acked>>,
             NEW t \in Threads,
             \A u \in Threads : u # t => call'[u] = call[u],
             \/ call'[t] = call[t]
             \/ call'[t].pc \notin SendPC \/ call'[t].msg \notin Msgs
             \/ /\ call[t].pc = "send_check" /\ call'[t].pc = "send_append"
                /\ call'[t].msg = call[t].msg /\ call'[t].end = call[t].end
      PROVE  MsgInv'
  <2>1. \A u \in Threads : Pending(u)' =>
           /\ Pending(u) /\ call'[u].msg = call[u].msg /\ call'[u].end = call[u].end
           /\ call[u].pc = "send_notify" => call'[u].pc = "send_notify"
    BY <1>3, Labels, Zenon DEF Pending
  <2> QED
    BY <1>3, <2>1 DEF MsgInv
<1>4. ASSUME NEW t \in Threads, NEW e \in Ends, CallSend(t, e)
      PROVE  MsgInv'
  <2>1. next \in Msgs /\ next \in Nat /\ next' = next + 1
    <3>1. next \in 1 .. MaxMsgs + 1 /\ next <= MaxMsgs /\ next' = next + 1
      BY <1>1, <1>4, Zenon DEF TypeOK, CallSend
    <3> QED
      BY <3>1, MaxMsgsAssumption DEF Msgs
  <2>2. /\ call'[t].msg = next /\ call'[t].end = e
        /\ \A u \in Threads : u # t => call'[u] = call[u]
        /\ UNCHANGED <<messages, acked>>
    BY <1>1, <1>4, <2>1, CallMoves, Labels DEF CallSend, queueVars
  <2>3. Msgs \subseteq Nat
    BY DEF Msgs
  <2>4. acked \subseteq Msgs /\ \A q \in Ends : Range(messages[q]) \subseteq Msgs
    BY <1>1, RangeType, Zenon DEF TypeOK
  <2>5. \A u \in Threads : u # t => (Pending(u)' <=> Pending(u))
    BY <2>2, Zenon DEF Pending
  <2>6. \A u \in Threads : Pending(u) => call[u].msg < next /\ call[u].msg \in Msgs
    BY Zenon DEF MsgInv, Pending
  <2>7. next \notin acked /\ \A q \in Ends : next \notin Range(messages[q])
    BY <2>1 DEF MsgInv
  <2>a. next < next' /\ \A m \in Msgs : m < next => m < next'
    BY <2>1, <2>3
  <2>8. \A u \in Threads : Pending(u)' => call'[u].msg < next' /\ call'[u].msg \notin acked'
    BY <2>2, <2>5, <2>6, <2>7, <2>a, Zenon DEF MsgInv
  <2>9. \A u, v \in Threads :
           Pending(u)' /\ Pending(v)' /\ call'[u].msg = call'[v].msg => u = v
    BY <2>1, <2>2, <2>5, <2>6 DEF MsgInv
  <2>10. \A q \in Ends : \A m \in Range(messages'[q]) :
          /\ m < next'
          /\ \A u \in Threads : Pending(u)' /\ call'[u].msg = m =>
                call'[u].pc = "send_notify" /\ call'[u].end = q
    BY <2>2, <2>4, <2>5, <2>7, <2>a DEF MsgInv
  <2>11. \A m \in acked' : m < next'
    BY <2>2, <2>4, <2>a, Zenon DEF MsgInv
  <2> QED
    BY <2>8, <2>9, <2>10, <2>11, Zenon DEF MsgInv
<1>5. ASSUME NEW t \in Threads, NEW e \in Ends,
             CallSendNil(t, e) \/ CallRecv(t, e) \/ CallClose(t, e)
      PROVE  MsgInv'
  <2>1. /\ UNCHANGED <<messages, next, acked>>
        /\ call'[t].msg = NilMsg
        /\ \A u \in Threads : u # t => call'[u] = call[u]
    BY <1>1, <1>5, CallMoves, Labels
    DEF CallSendNil, CallRecv, CallClose, queueVars, histVars
  <2>2. NilMsg \notin Msgs
    BY MaxMsgsAssumption DEF Msgs, NilMsg
  <2> QED
    BY <1>3, <2>1, <2>2, Zenon
<1>6. ASSUME NEW t \in Threads, NEW e \in Ends, ClearMessages(t, e)
      PROVE  MsgInv'
  <2>1. \A q \in Ends : messages'[q] = messages[q] \/ messages'[q] = <<>>
    BY <1>1, <1>6, Zenon DEF ClearMessages, TypeOK
  <2> QED
    BY <1>3, <1>6, <2>1, EmptyRange, Zenon DEF ClearMessages
<1>7. ASSUME NEW t \in Threads, SendAppend(t)
      PROVE  MsgInv'
  <2>1. CASE qclosed[Outbound(t)]
    BY <1>1, <1>3, <1>7, <2>1, CallMoves, Labels, Zenon DEF SendAppend, histVars
  <2>2. CASE ~qclosed[Outbound(t)]
    <3> DEFINE m == call[t].msg
    <3>1. /\ call[t].pc = "send_append" /\ Goto(t, "send_notify")
          /\ messages' = [messages EXCEPT ![Outbound(t)] = Append(@, m)]
          /\ UNCHANGED <<next, acked>>
      BY <1>7, <2>2, Zenon DEF SendAppend, At, histVars
    <3>2. m \in Msgs /\ Pending(t)
      BY <1>1, <3>1, Zenon DEF NilRefused, Pending, SendPC
    <3>3. /\ call'[t].pc = "send_notify" /\ call'[t].msg = m
          /\ call'[t].end = call[t].end
          /\ \A u \in Threads : u # t => call'[u] = call[u]
      BY <1>1, <3>1, CallMoves, Labels, Zenon
    <3>4. \A u \in Threads : Pending(u)' =>
             /\ Pending(u) /\ call'[u].msg = call[u].msg /\ call'[u].end = call[u].end
             /\ call[u].pc = "send_notify" => call'[u].pc = "send_notify"
      BY <3>2, <3>3, Zenon DEF Pending
    <3>5. \A q \in Ends : \A x \in Range(messages'[q]) :
             x \in Range(messages[q]) \/ (x = m /\ q = Outbound(t))
      <4>1. messages[Outbound(t)] \in Seq(Msgs)
        BY <1>1, <1>2, Zenon DEF TypeOK
      <4>2. Range(Append(messages[Outbound(t)], m)) = Range(messages[Outbound(t)]) \cup {m}
        BY <3>2, <4>1, AppendRange
      <4> QED
        BY <1>1, <1>2, <3>1, <4>2, Zenon DEF TypeOK
    <3>6. \A q \in Ends : \A x \in Range(messages'[q]) :
            /\ x < next'
            /\ \A u \in Threads : Pending(u)' /\ call'[u].msg = x =>
                  call'[u].pc = "send_notify" /\ call'[u].end = q
      BY <3>1, <3>2, <3>3, <3>4, <3>5 DEF MsgInv, Outbound
    <3> QED
      BY <3>1, <3>4, <3>6 DEF MsgInv
  <2> QED
    BY <2>1, <2>2
<1>8. ASSUME NEW t \in Threads, SendNotify(t)
      PROVE  MsgInv'
  <2>1. CASE qclosed[Outbound(t)]
    BY <1>3, <1>8, <2>1, Zenon DEF SendNotify
  <2>2. CASE ~qclosed[Outbound(t)]
    <3>1. /\ call[t].pc = "send_notify" /\ Return(t)
          /\ acked' = acked \cup {call[t].msg}
          /\ UNCHANGED <<messages, next>>
      BY <1>8, <2>2, Zenon DEF SendNotify, At
    <3>2. Pending(t)
      BY <1>1, <3>1, Zenon DEF NilRefused, Pending, SendPC
    <3>3. /\ call'[t].pc \notin SendPC
          /\ \A u \in Threads : u # t => call'[u] = call[u]
      BY <1>1, <3>1, CallMoves, Labels, Zenon
    <3>4. \A u \in Threads : Pending(u)' =>
             u # t /\ Pending(u) /\ call'[u] = call[u]
      BY <3>3, Zenon DEF Pending
    <3> QED
      BY <3>1, <3>2, <3>4 DEF MsgInv
  <2> QED
    BY <2>1, <2>2
<1>9. ASSUME NEW t \in Threads, SendCheck(t)
      PROVE  MsgInv'
  <2>1. /\ UNCHANGED <<messages, next, acked>>
        /\ call[t].pc = "send_check"
        /\ Return(t) \/ Goto(t, "send_append")
    BY <1>9, Zenon DEF SendCheck, At, queueVars, histVars
  <2> QED
    BY <1>1, <1>3, <2>1, CallMoves, Labels
<1>10. ASSUME NEW t \in Threads,
              \/ SendCancelled(t) \/ RecvCheck(t) \/ RecvWake(t) \/ RecvCancelled(t)
              \/ CloseLock(t) \/ CloseInbound(t) \/ CloseOutbound(t)
       PROVE  MsgInv'
  <2>1. /\ UNCHANGED <<messages, next, acked>>
        /\ \/ Return(t)
           \/ \E l \in RecvPC \cup ClosePC : Goto(t, l)
    BY <1>10, Labels, Zenon DEF SendCancelled, RecvCheck, RecvWake, RecvCancelled, CloseLock,
                 CloseInbound, CloseOutbound, queueVars, histVars
  <2>2. \A l \in RecvPC \cup ClosePC : l \notin SendPC
    BY Zenon DEF RecvPC, ClosePC, SendPC
  <2> QED
    BY <1>1, <1>3, <2>1, <2>2, CallMoves, Labels
<1>11. ASSUME NEW t \in Threads, RecvPop(t)
       PROVE  MsgInv'
  <2>1. UNCHANGED <<next, acked>> /\ (Return(t) \/ Goto(t, "recv_wait"))
    BY <1>11, Zenon DEF RecvPop
  <2>2. \A q \in Ends : Range(messages'[q]) \subseteq Range(messages[q])
    <3>1. CASE messages[Inbound(t)] # <<>>
      <4>1. messages[Inbound(t)] \in Seq(Msgs)
        BY <1>1, <1>2, Zenon DEF TypeOK
      <4>2. Range(Tail(messages[Inbound(t)])) \subseteq Range(messages[Inbound(t)])
        BY <3>1, <4>1, TailRange, Zenon
      <4> QED
        BY <1>1, <1>2, <1>11, <3>1, <4>2, Zenon DEF RecvPop, TypeOK
    <3>2. CASE messages[Inbound(t)] = <<>>
      BY <1>11, <3>2, Zenon DEF RecvPop
    <3> QED
      BY <3>1, <3>2, Zenon
  <2>3. "recv_wait" \notin SendPC
    BY Zenon DEF SendPC
  <2> QED
    BY <1>1, <1>3, <2>1, <2>2, <2>3, CallMoves, Labels
<1>12. CASE Crashed \/ UNCHANGED vars
  BY <1>12 DEF Crashed, vars, MsgInv, Pending
<1> QED
  BY <1>4, <1>5, <1>6, <1>7, <1>8, <1>9, <1>10, <1>11, <1>12, Zenon DEF Next, Step

-----------------------------------------------------------------------------
(* No acknowledged message is left behind a closed queue.                  *)

AckedIn(q) == Range(messages[q]) \cap acked

\* A waiting receiver has a token for every acknowledged message, and a queue
\* found closed is closed and holds none.
DrainInv ==
    /\ \A t \in Threads :
          call[t].pc = "recv_wait" /\ AckedIn(Inbound(t)) # {} => notifier[Inbound(t)]
    /\ \A e \in Ends : eof[e] => qclosed[Peer(e)] /\ AckedIn(Peer(e)) = {}

\* A queue gains an acknowledged message only by the notification of its
\* sender, which leaves a token and which a closed queue does not let through.
LEMMA AckedInStep ==
    ASSUME TypeInv, MsgInv, [Next]_vars, NEW q \in Ends
    PROVE  \/ AckedIn(q)' \subseteq AckedIn(q)
           \/ ~qclosed[q] /\ \E t \in Threads : SendNotify(t) /\ q = Outbound(t)
<1>1. TypeOK /\ NilRefused
  BY Zenon DEF TypeInv
<1>2. \A t \in Threads : /\ Outbound(t) \in Ends /\ Inbound(t) \in Ends
                         /\ call[t].msg \in Msgs \cup {NilMsg}
  BY <1>1, Peers, Zenon DEF TypeOK, Call, Outbound, Inbound
<1>3. ASSUME NEW t \in Threads, SendAppend(t)
      PROVE  AckedIn(q)' \subseteq AckedIn(q)
  <2>1. call[t].msg \in Msgs /\ Pending(t)
    BY <1>1, <1>3, Zenon DEF SendAppend, At, NilRefused, Pending, SendPC
  <2>2. call[t].msg \notin acked /\ acked' = acked
    BY <1>3, <2>1, Zenon DEF MsgInv, SendAppend, histVars
  <2>3. messages[q] \in Seq(Msgs)
    BY <1>1, Zenon DEF TypeOK
  <2>4. messages'[q] = messages[q] \/ messages'[q] = Append(messages[q], call[t].msg)
    BY <1>1, <1>3 DEF SendAppend, TypeOK
  <2> QED
    BY <2>1, <2>2, <2>3, <2>4, AppendRange, Zenon DEF AckedIn
<1>4. ASSUME NEW t \in Threads, SendNotify(t)
      PROVE  \/ AckedIn(q)' \subseteq AckedIn(q)
             \/ ~qclosed[q] /\ q = Outbound(t)
  <2>1. call[t].pc = "send_notify" /\ Pending(t) /\ messages' = messages
    BY <1>1, <1>4, Zenon DEF SendNotify, At, NilRefused, Pending, SendPC
  <2>2. q # Outbound(t) => call[t].msg \notin Range(messages[q])
    BY <2>1, Zenon DEF MsgInv, Outbound
  <2>3. acked' \subseteq acked \cup {call[t].msg} /\ (qclosed[Outbound(t)] => acked' = acked)
    BY <1>4, Zenon DEF SendNotify
  <2> QED
    BY <2>1, <2>2, <2>3, Zenon DEF AckedIn
<1>5. ASSUME NEW t \in Threads, RecvPop(t)
      PROVE  AckedIn(q)' \subseteq AckedIn(q)
  <2>1. messages[q] \in Seq(Msgs) /\ acked' = acked
    BY <1>1, <1>5, Zenon DEF TypeOK, RecvPop
  <2>2. \/ messages'[q] = messages[q]
        \/ messages[q] # <<>> /\ messages'[q] = Tail(messages[q])
    BY <1>1, <1>5, ZenonT(30) DEF TypeOK, RecvPop
  <2> QED
    BY <2>1, <2>2, TailRange, Zenon DEF AckedIn
<1>6. ASSUME NEW t \in Threads, NEW e \in Ends, ClearMessages(t, e)
      PROVE  AckedIn(q)' \subseteq AckedIn(q)
  <2>1. (messages'[q] = messages[q] \/ messages'[q] = <<>>) /\ acked' = acked
    BY <1>1, <1>6, Zenon DEF ClearMessages, TypeOK
  <2> QED
    BY <2>1, EmptyRange, Zenon DEF AckedIn
<1>7. ASSUME UNCHANGED <<messages, acked>>
      PROVE  AckedIn(q)' \subseteq AckedIn(q)
  BY <1>7, Zenon DEF AckedIn
<1>8. ASSUME NEW t \in Threads, NEW e \in Ends,
             \/ CallSend(t, e) \/ CallSendNil(t, e) \/ CallRecv(t, e) \/ CallClose(t, e)
      PROVE  UNCHANGED <<messages, acked>>
  BY <1>8, Zenon DEF CallSend, CallSendNil, CallRecv, CallClose, queueVars, histVars
<1>9. ASSUME NEW t \in Threads,
             \/ SendCheck(t) \/ SendCancelled(t) \/ RecvCheck(t) \/ RecvWake(t)
             \/ RecvCancelled(t) \/ CloseLock(t) \/ CloseInbound(t) \/ CloseOutbound(t)
      PROVE  UNCHANGED <<messages, acked>>
  BY <1>9, Zenon DEF SendCheck, SendCancelled, RecvCheck, RecvWake, RecvCancelled,
              CloseLock, CloseInbound, CloseOutbound, queueVars, histVars
<1>10. CASE Crashed \/ UNCHANGED vars
  BY <1>7, <1>10, Zenon DEF Crashed, vars
<1> QED
  BY <1>3, <1>4, <1>5, <1>6, <1>7, <1>8, <1>9, <1>10, Zenon DEF Next, Step

\* A receiver enters its wait with an empty queue, and only it takes the token.
LEMMA WaitStep ==
    ASSUME TypeInv, WakeInv, [Next]_vars, NEW t \in Threads,
           call'[t].pc = "recv_wait"
    PROVE  /\ call'[t].end = call[t].end
           /\ \/ messages'[Inbound(t)] = <<>>
              \/ /\ call[t].pc = "recv_wait"
                 /\ notifier[Inbound(t)] => notifier'[Inbound(t)]
<1>1. TypeOK /\ OneReceiver /\ NoCall.pc = "idle"
  BY Zenon DEF TypeInv, WakeInv, NoCall
<1>2. \A u \in Threads : /\ Outbound(u) \in Ends /\ Inbound(u) \in Ends
                         /\ call[u].end \in Ends
  BY <1>1, Peers, Zenon DEF TypeOK, Call, Outbound, Inbound
<1>3. ASSUME NEW u \in Threads, NEW e \in Ends,
             \/ CallSend(u, e) \/ CallSendNil(u, e) \/ CallRecv(u, e) \/ CallClose(u, e)
      PROVE  call'[t] = call[t] /\ notifier' = notifier
  <2>1. CallSend(u, e) => next \in Msgs
    <3>1. CallSend(u, e) => next \in 1 .. MaxMsgs + 1 /\ next <= MaxMsgs
      BY <1>1, Zenon DEF TypeOK, CallSend
    <3> QED
      BY <3>1, MaxMsgsAssumption DEF Msgs
  <2>2. PICK l \in {"send_check", "recv_check", "close_lock"}, m \in Msgs \cup {NilMsg} :
           Enter(u, l, e, m)
    BY <1>3, <2>1, Zenon DEF CallSend, CallSendNil, CallRecv, CallClose
  <2>3. /\ call'[u].pc = l
        /\ \A v \in Threads : v # u => call'[v] = call[v]
    BY <1>1, <2>2, CallMoves, Labels
  <2> QED
    BY <1>3, <2>2, <2>3, Zenon DEF CallSend, CallSendNil, CallRecv, CallClose, queueVars
<1>4. ASSUME NEW u \in Threads,
             Return(u) \/ \E l \in SendPC \cup RecvPC \cup ClosePC :
                              l # "recv_wait" /\ Goto(u, l)
      PROVE  u # t /\ call'[t] = call[t]
  BY <1>1, <1>4, CallMoves
<1>5. ASSUME NEW u \in Threads,
             \/ SendCheck(u) \/ SendCancelled(u) \/ SendAppend(u) \/ RecvCheck(u)
             \/ RecvCancelled(u) \/ CloseLock(u) \/ CloseInbound(u) \/ CloseOutbound(u)
      PROVE  call'[t] = call[t] /\ notifier' = notifier
  <2>1. /\ notifier' = notifier
        /\ \/ Return(u) \/ Goto(u, "send_append") \/ Goto(u, "send_notify")
           \/ Goto(u, "recv_pop") \/ Goto(u, "close_inbound") \/ Goto(u, "close_outbound")
    BY <1>5, Zenon DEF SendCheck, SendCancelled, SendAppend, RecvCheck, RecvCancelled,
                CloseLock, CloseInbound, CloseOutbound, queueVars
  <2> QED
    BY <1>4, <2>1, Labels, Zenon
<1>6. ASSUME NEW u \in Threads, SendNotify(u)
      PROVE  call'[t] = call[t] /\ (notifier[Inbound(t)] => notifier'[Inbound(t)])
  <2>1. Return(u) \/ UNCHANGED call
    BY <1>6, Zenon DEF SendNotify
  <2> QED
    BY <1>1, <1>2, <1>4, <1>6, <2>1, Zenon DEF SendNotify, TypeOK
<1>7. ASSUME NEW u \in Threads, RecvPop(u)
      PROVE  \/ call'[t] = call[t] /\ notifier' = notifier
             \/ messages'[Inbound(t)] = <<>> /\ call'[t].end = call[t].end
  <2>1. CASE Return(u)
    BY <1>4, <1>7, <2>1, Zenon DEF RecvPop
  <2>2. CASE Goto(u, "recv_wait") /\ messages'[Inbound(u)] = <<>>
    BY <1>1, <1>7, <2>2, CallMoves, Labels DEF RecvPop
  <2> QED
    BY <1>7, <2>1, <2>2, Zenon DEF RecvPop
<1>8. ASSUME NEW u \in Threads, RecvWake(u)
      PROVE  call'[t] = call[t] /\ (notifier[Inbound(t)] => notifier'[Inbound(t)])
  <2>1. call[u].pc = "recv_wait" /\ (Return(u) \/ Goto(u, "recv_check"))
    BY <1>8, Zenon DEF RecvWake, At
  <2>2. u # t /\ call'[t] = call[t]
    BY <1>4, <2>1, Labels, Zenon
  <2>3. call[t].end # call[u].end
    BY <1>1, <2>1, <2>2, Zenon DEF OneReceiver, InRecv, RecvPC
  <2>4. Inbound(t) # Inbound(u)
    BY <1>2, <2>3, Peers, Zenon DEF Inbound
  <2> QED
    BY <1>1, <1>2, <1>8, <2>2, <2>4, Zenon DEF RecvWake, TypeOK
<1>9. ASSUME (\E u \in Threads, e \in Ends : ClearMessages(u, e)) \/ Crashed \/ UNCHANGED vars
      PROVE  call'[t] = call[t] /\ notifier' = notifier
  BY <1>9, Zenon DEF ClearMessages, Crashed, vars
<1>10. \/ call'[t] = call[t] /\ (notifier[Inbound(t)] => notifier'[Inbound(t)])
       \/ messages'[Inbound(t)] = <<>> /\ call'[t].end = call[t].end
  BY <1>3, <1>5, <1>6, <1>7, <1>8, <1>9, Zenon DEF Next, Step
<1> QED
  BY <1>10, Zenon

\* A queue stays closed, and takes no message once it is.
LEMMA ClosedStep ==
    ASSUME TypeInv, [Next]_vars, NEW q \in Ends, qclosed[q]
    PROVE  qclosed'[q] /\ Len(messages'[q]) <= Len(messages[q])
<1>1. TypeOK /\ messages[q] \in Seq(Msgs)
  BY Zenon DEF TypeInv, TypeOK
<1>2. qclosed'[q]
  <2>1. CASE \E t \in Threads : CloseInbound(t) \/ CloseOutbound(t)
    BY <1>1, <2>1, Zenon DEF CloseInbound, CloseOutbound, CloseQueue, TypeOK
  <2>2. CASE UNCHANGED qclosed
    BY <2>2, Zenon
  <2> QED
    BY <2>1, <2>2, Zenon DEF Next, Step, CallSend, CallSendNil, SendCheck, SendCancelled,
        SendAppend, SendNotify, CallRecv, RecvCheck, RecvPop, RecvWake, RecvCancelled,
        CallClose, CloseLock, ClearMessages, Crashed, queueVars, vars
<1>3. \/ messages'[q] = messages[q] \/ messages'[q] = <<>>
      \/ messages[q] # <<>> /\ messages'[q] = Tail(messages[q])
  <2>1. CASE \E t \in Threads : SendAppend(t)
    <3>1. PICK t \in Threads : SendAppend(t)
      BY <2>1, Zenon
    <3>2. q # Outbound(t) \/ UNCHANGED messages
      BY <3>1, Zenon DEF SendAppend
    <3> QED
      BY <1>1, <3>1, <3>2, Zenon DEF SendAppend, TypeOK
  <2>2. CASE \E t \in Threads : RecvPop(t)
    <3>1. PICK t \in Threads : RecvPop(t)
      BY <2>2
    <3>2. \/ UNCHANGED messages
          \/ /\ messages[Inbound(t)] # <<>>
             /\ messages' = [messages EXCEPT ![Inbound(t)] = Tail(@)]
      BY <3>1, Zenon DEF RecvPop
    <3> QED
      BY <1>1, <3>2, Zenon DEF TypeOK
  <2>3. CASE \E t \in Threads, e \in Ends : ClearMessages(t, e)
    BY <1>1, <2>3, Zenon DEF ClearMessages, TypeOK
  <2>4. CASE UNCHANGED messages
    BY <2>4, Zenon
  <2> QED
    BY <2>1, <2>2, <2>3, <2>4, Zenon
    DEF Next, Step, CallSend, CallSendNil, SendCheck, SendCancelled,
        SendNotify, CallRecv, RecvCheck, RecvWake, RecvCancelled,
        CallClose, CloseLock, CloseInbound, CloseOutbound, Crashed, queueVars, vars
<1>4. ASSUME NEW s \in Seq(Msgs), NEW r,
             r = s \/ r = <<>> \/ (s # <<>> /\ r = Tail(s))
      PROVE  Len(r) <= Len(s)
  <2>1. Len(s) \in Nat /\ Len(<<>>) = 0
    OBVIOUS
  <2> QED
    BY <1>4, <2>1, TailRange
<1>5. PICK r, s : r = messages'[q] /\ s = messages[q]
  BY Zenon
<1>6. Len(r) <= Len(s)
  BY <1>1, <1>3, <1>4, <1>5, Zenon
<1> QED
  BY <1>2, <1>5, <1>6, Zenon

\* Recv reports a closed queue only when it is empty, or when its channel
\* holds no token and so no acknowledged message is queued.
LEMMA EofStep ==
    ASSUME TypeInv, DrainInv, [Next]_vars, NEW e \in Ends, eof'[e], ~eof[e]
    PROVE  qclosed[Peer(e)] /\ AckedIn(Peer(e)) = {}
<1>1. TypeOK
  BY Zenon DEF TypeInv
<1>2. PICK t \in Threads : (RecvPop(t) \/ RecvWake(t)) /\ call[t].end = e
  <2>1. \/ \E t \in Threads : RecvPop(t) \/ RecvWake(t)
        \/ UNCHANGED eof
    BY Zenon DEF Next, Step, CallSend, CallSendNil, SendCheck, SendCancelled,
        SendAppend, SendNotify, CallRecv, RecvCheck, RecvCancelled, CallClose, CloseLock,
        CloseInbound, CloseOutbound, ClearMessages, Crashed, histVars, vars
  <2>2. PICK t \in Threads : RecvPop(t) \/ RecvWake(t)
    BY <2>1, Zenon
  <2>3. e # call[t].end => eof'[e] = eof[e]
    BY <1>1, <2>2, Zenon DEF RecvPop, RecvWake, TypeOK
  <2> QED
    BY <2>2, <2>3, Zenon
<1>3. CASE RecvPop(t)
  <2>1. messages[Peer(e)] = <<>> /\ qclosed[Peer(e)]
    BY <1>1, <1>2, <1>3, Zenon DEF RecvPop, Inbound, TypeOK
  <2> QED
    BY <2>1, EmptyRange, Zenon DEF AckedIn
<1>4. CASE RecvWake(t)
  <2>1. call[t].pc = "recv_wait" /\ ~notifier[Peer(e)] /\ qclosed[Peer(e)]
    BY <1>1, <1>2, <1>4, Zenon DEF RecvWake, At, Inbound, TypeOK
  <2> QED
    BY <1>2, <2>1, Zenon DEF DrainInv, Inbound
<1> QED
  BY <1>2, <1>3, <1>4, Zenon

\* Tokens stand for acknowledged messages until the receiver has them all.
LEMMA DrainStep ==
    TypeInv /\ WakeInv /\ MsgInv /\ DrainInv /\ [Next]_vars => DrainInv'
<1> SUFFICES ASSUME TypeInv, WakeInv, MsgInv, DrainInv, [Next]_vars
             PROVE  DrainInv'
  BY Zenon
<1>1. TypeOK
  BY Zenon DEF TypeInv
<1>2. ASSUME NEW t \in Threads, call'[t].pc = "recv_wait", (AckedIn(Inbound(t)) # {})'
      PROVE  (notifier[Inbound(t)])'
  <2>1. PICK q \in Ends : q = Inbound(t)
    BY <1>1, Peers, Zenon DEF TypeOK, Call, Inbound
  <2>2. call'[t].end = call[t].end /\ Inbound(t)' = q
    BY <1>2, <2>1, WaitStep, Zenon DEF Inbound
  <2>3. AckedIn(q)' # {} /\ messages'[q] # <<>>
    BY <1>2, <2>2, EmptyRange, Zenon DEF AckedIn
  <2>4. call[t].pc = "recv_wait" /\ (notifier[q] => notifier'[q])
    BY <1>2, <2>1, <2>3, WaitStep, Zenon
  <2>5. CASE AckedIn(q)' \subseteq AckedIn(q)
    BY <2>1, <2>2, <2>3, <2>4, <2>5, Zenon DEF DrainInv
  <2>6. CASE ~qclosed[q] /\ \E u \in Threads : SendNotify(u) /\ q = Outbound(u)
    BY <1>1, <2>2, <2>6, Zenon DEF SendNotify, TypeOK
  <2> QED
    BY <2>5, <2>6, AckedInStep, Zenon
<1>3. ASSUME NEW e \in Ends, eof'[e]
      PROVE  qclosed'[Peer(e)] /\ AckedIn(Peer(e))' = {}
  <2>1. Peer(e) \in Ends
    BY Peers, Zenon
  <2>2. qclosed[Peer(e)] /\ AckedIn(Peer(e)) = {}
    BY <1>3, EofStep, Zenon DEF DrainInv
  <2> QED
    BY <2>1, <2>2, ClosedStep, AckedInStep, Zenon
<1> QED
  BY <1>2, <1>3, Zenon DEF DrainInv

\* What was acknowledged before a Close is received before the error: when
\* Recv has reported its queue closed, no acknowledged message is left in it.
THEOREM Drained == Spec => []DrainedBeforeClosed
<1>1. Init => WakeInv /\ MsgInv /\ DrainInv
  BY EmptyRange
  DEF Init, WakeInv, OneReceiver, NoLostWakeup, InRecv, RecvPC, NoCall,
      MsgInv, Pending, SendPC, DrainInv
<1>2. DrainInv => DrainedBeforeClosed
  BY Zenon DEF DrainInv, DrainedBeforeClosed, AckedIn
<1> QED
  BY <1>1, <1>2, TypeInit, TypeStep, WakeStep, MsgStep, DrainStep, PTL DEF Spec

\* Send's second look at the closed flag suffices: no message is ever added
\* to a closed queue.
THEOREM ClosedQueuesTakeNothing == Spec => NothingQueuedAfterClose
<1>1. TypeInv /\ [Next]_vars =>
        [\A q \in Ends : qclosed[q] => Len(messages'[q]) <= Len(messages[q])]_vars
  BY ClosedStep, Zenon
<1> QED
  BY <1>1, TypeInit, TypeStep, PTL DEF Spec, NothingQueuedAfterClose

-----------------------------------------------------------------------------
(* Sequences.                                                              *)

-----------------------------------------------------------------------------
(* What a step does to the messages.                                       *)

\* A step leaves all messages where they are, or appends one to an open
\* queue, or hands the head of a queue over, or clears a queue.
LEMMA QueueStep ==
    ASSUME TypeInv, [Next]_vars
    PROVE  \/ UNCHANGED <<messages, received, cleared>>
           \/ \E t \in Threads :
                 /\ SendAppend(t) /\ ~qclosed[Outbound(t)]
                 /\ messages' = [messages EXCEPT ![Outbound(t)] = Append(@, call[t].msg)]
                 /\ UNCHANGED <<received, cleared, qclosed>>
           \/ \E e \in Ends :
                 /\ messages[Peer(e)] # <<>>
                 /\ received' = [received EXCEPT ![e] = Append(@, Head(messages[Peer(e)]))]
                 /\ messages' = [messages EXCEPT ![Peer(e)] = Tail(@)]
                 /\ UNCHANGED <<cleared, qclosed, acked, earlier>>
           \/ \E e \in Ends :
                 /\ messages' = [messages EXCEPT ![e] = <<>>]
                 /\ cleared' = cleared \cup Range(messages[e])
                 /\ UNCHANGED <<received, qclosed, acked, earlier>>
<1>1. TypeOK
  BY Zenon DEF TypeInv
<1>2. ASSUME NEW t \in Threads, SendAppend(t)
      PROVE  \/ UNCHANGED <<messages, received, cleared>>
             \/ /\ ~qclosed[Outbound(t)]
                /\ messages' = [messages EXCEPT ![Outbound(t)] = Append(@, call[t].msg)]
                /\ UNCHANGED <<received, cleared, qclosed>>
  BY <1>2, Zenon DEF SendAppend, histVars
<1>3. ASSUME NEW t \in Threads, RecvPop(t)
      PROVE  \/ UNCHANGED <<messages, received, cleared>>
             \/ \E e \in Ends :
                 /\ messages[Peer(e)] # <<>>
                 /\ received' = [received EXCEPT ![e] = Append(@, Head(messages[Peer(e)]))]
                 /\ messages' = [messages EXCEPT ![Peer(e)] = Tail(@)]
                 /\ UNCHANGED <<cleared, qclosed, acked, earlier>>
  <2>1. call[t].end \in Ends
    BY <1>1, Zenon DEF TypeOK, Call
  <2> QED
    BY <1>3, <2>1, Zenon DEF RecvPop, Inbound
<1>4. ASSUME NEW t \in Threads, NEW e \in Ends, ClearMessages(t, e)
      PROVE  /\ messages' = [messages EXCEPT ![e] = <<>>]
             /\ cleared' = cleared \cup Range(messages[e])
             /\ UNCHANGED <<received, qclosed, acked, earlier>>
  BY <1>4, Zenon DEF ClearMessages
<1>5. ASSUME NEW t \in Threads, NEW e \in Ends,
             \/ CallSend(t, e) \/ CallSendNil(t, e) \/ CallRecv(t, e) \/ CallClose(t, e)
      PROVE  UNCHANGED <<messages, received, cleared>>
  BY <1>5, Zenon DEF CallSend, CallSendNil, CallRecv, CallClose, queueVars, histVars
<1>6. ASSUME NEW t \in Threads,
             \/ SendCheck(t) \/ SendCancelled(t) \/ SendNotify(t) \/ RecvCheck(t)
             \/ RecvWake(t) \/ RecvCancelled(t)
             \/ CloseLock(t) \/ CloseInbound(t) \/ CloseOutbound(t)
      PROVE  UNCHANGED <<messages, received, cleared>>
  BY <1>6, Zenon DEF SendCheck, SendCancelled, SendNotify, RecvCheck, RecvWake, RecvCancelled,
              CloseLock, CloseInbound, CloseOutbound, queueVars, histVars
<1>7. CASE Crashed \/ UNCHANGED vars
  BY <1>7, Zenon DEF Crashed, vars
<1> QED
  BY <1>2, <1>3, <1>4, <1>5, <1>6, <1>7, Zenon DEF Next, Step

\* A message has been queued if it was cleared, or is queued or received.
LEMMA TakenMember ==
    \A m : m \in Taken <=> \/ m \in cleared
                           \/ \E e \in Ends : m \in Range(messages[e])
                           \/ \E e \in Ends : m \in Range(received[e])
BY DEF Taken

\* The append of a Send queues its message.
LEMMA AppendQueues ==
    ASSUME TypeInv, NEW t \in Threads, SendAppend(t), ~qclosed[Outbound(t)]
    PROVE  Taken' = Taken \cup {call[t].msg}
<1>1. /\ messages \in [Ends -> Seq(Msgs)]
      /\ call[t].msg \in Msgs /\ Outbound(t) \in Ends
      /\ messages[Outbound(t)] \in Seq(Msgs)
  BY Zenon DEF TypeInv, TypeOK, NilRefused, SendAppend, At, Call, Outbound
<1>2. /\ messages' = [messages EXCEPT ![Outbound(t)] = Append(@, call[t].msg)]
      /\ UNCHANGED <<received, cleared>>
  BY Zenon DEF SendAppend, histVars
<1>3. Range(messages'[Outbound(t)]) = Range(messages[Outbound(t)]) \cup {call[t].msg}
  BY <1>1, <1>2, AppendRange
<1>4. \A e \in Ends : e # Outbound(t) => messages'[e] = messages[e]
  BY <1>1, <1>2, Zenon
<1> QED
  BY <1>1, <1>2, <1>3, <1>4 DEF Taken

\* Handing a message over does not change what has been queued.
LEMMA HandOverKeeps ==
    ASSUME TypeInv, NEW e \in Ends,
           messages[Peer(e)] # <<>>,
           received' = [received EXCEPT ![e] = Append(@, Head(messages[Peer(e)]))],
           messages' = [messages EXCEPT ![Peer(e)] = Tail(@)],
           UNCHANGED cleared
    PROVE  Taken' = Taken
<1> DEFINE h == Head(messages[Peer(e)])
<1>1. /\ messages \in [Ends -> Seq(Msgs)] /\ received \in [Ends -> Seq(Msgs)]
      /\ messages[Peer(e)] \in Seq(Msgs) /\ received[e] \in Seq(Msgs)
      /\ Peer(e) \in Ends
  BY Peers, Zenon DEF TypeInv, TypeOK
<1>2. h \in Msgs
  BY <1>1, TailRange, Zenon
<1>3. Range(messages[Peer(e)]) = {h} \cup Range(messages'[Peer(e)])
  BY <1>1, HeadTaken, ZenonT(30)
<1>4. Range(received'[e]) = Range(received[e]) \cup {h}
  BY <1>1, <1>2, AppendRange
<1>5. /\ \A d \in Ends : d # e => received'[d] = received[d]
      /\ \A d \in Ends : d # Peer(e) => messages'[d] = messages[d]
  BY <1>1, Zenon
<1> HIDE DEF h
<1>6. \A m : (\E d \in Ends : m \in Range(messages'[d]) \/ m \in Range(received'[d]))
         <=> (\E d \in Ends : m \in Range(messages[d]) \/ m \in Range(received[d]))
  BY <1>1, <1>3, <1>4, <1>5, Zenon
<1> QED
  BY <1>6 DEF Taken

\* Neither does clearing a queue.
LEMMA ClearKeeps ==
    ASSUME TypeInv, NEW e \in Ends,
           messages' = [messages EXCEPT ![e] = <<>>],
           cleared' = cleared \cup Range(messages[e]),
           UNCHANGED received
    PROVE  Taken' = Taken
<1>1. messages \in [Ends -> Seq(Msgs)]
  BY Zenon DEF TypeInv, TypeOK
<1>2. /\ Range(messages'[e]) = {}
      /\ \A d \in Ends : d # e => messages'[d] = messages[d]
  BY <1>1, EmptyRange, Zenon
<1> QED
  BY <1>2 DEF Taken

\* Only an append queues a message for the first time, and none is forgotten.
LEMMA TakenStep ==
    ASSUME TypeInv, [Next]_vars
    PROVE  \/ Taken' = Taken
           \/ \E t \in Threads : /\ SendAppend(t) /\ ~qclosed[Outbound(t)]
                                 /\ Taken' = Taken \cup {call[t].msg}
<1>1. UNCHANGED <<messages, received, cleared>> => Taken' = Taken
  BY Zenon DEF Taken
<1> QED
  BY <1>1, AppendQueues, HandOverKeeps, ClearKeeps, QueueStep, Zenon

\* The closing steps close one queue each, and no other step touches a flag.
LEMMA QueueClosing ==
    ASSUME TypeInv, [Next]_vars
    PROVE  UNCHANGED qclosed \/ \E q \in Ends : qclosed' = [qclosed EXCEPT ![q] = TRUE]
<1>1. \A t \in Threads : Inbound(t) \in Ends /\ Outbound(t) \in Ends
  BY Peers, Zenon DEF TypeInv, TypeOK, Call, Inbound, Outbound
<1>2. ASSUME NEW t \in Threads, CloseInbound(t) \/ CloseOutbound(t)
      PROVE  \E q \in Ends : qclosed' = [qclosed EXCEPT ![q] = TRUE]
  BY <1>1, <1>2, Zenon DEF CloseInbound, CloseOutbound, CloseQueue
<1>3. CASE UNCHANGED qclosed
  BY <1>3, Zenon
<1> QED
  BY <1>2, <1>3, Zenon DEF Next, Step, CallSend, CallSendNil, SendCheck, SendCancelled,
      SendAppend, SendNotify, CallRecv, RecvCheck, RecvPop, RecvWake, RecvCancelled,
      CallClose, CloseLock, ClearMessages, Crashed, queueVars, vars

-----------------------------------------------------------------------------
(* Messages are queued once, and none is acknowledged before it is queued. *)

\* A message is new until its Send has queued it, and queued when its Send
\* goes on to notify the receiver.
FreshInv ==
    /\ \A m \in Taken : m \in Msgs /\ m < next
    /\ \A t \in Threads :
          call[t].pc \in {"send_check", "send_append"} => call[t].msg \notin Taken
    /\ \A t \in Threads : call[t].pc = "send_notify" => call[t].msg \in Taken
    /\ acked \subseteq Taken

\* The message of a Send is queued by its append and by nothing else.
LEMMA FreshStep == TypeInv /\ MsgInv /\ FreshInv /\ [Next]_vars => FreshInv'
<1> SUFFICES ASSUME TypeInv, MsgInv, FreshInv, [Next]_vars
             PROVE  FreshInv'
  BY Zenon
<1>1. TypeOK /\ NilRefused
  BY Zenon DEF TypeInv
<1>2. NilMsg \notin Msgs /\ next \in Nat /\ Msgs \subseteq Nat
  <2>1. next \in 1 .. MaxMsgs + 1
    BY <1>1, Zenon DEF TypeOK
  <2> QED
    BY <2>1, MaxMsgsAssumption DEF Msgs, NilMsg
<1>3. ASSUME Taken' = Taken, UNCHANGED <<next, acked>>,
             NEW t \in Threads,
             \A u \in Threads : u # t => call'[u] = call[u],
             \/ call'[t] = call[t]
             \/ call'[t].pc \notin SendPC
             \/ call'[t].pc = "send_check" /\ call'[t].msg = NilMsg
             \/ /\ call[t].pc = "send_check" /\ call'[t].pc = "send_append"
                /\ call'[t].msg = call[t].msg
      PROVE  FreshInv'
  <2>1. \A u \in Threads : call'[u].pc \in {"send_check", "send_append"} =>
           \/ call'[u].msg = NilMsg
           \/ call[u].pc \in {"send_check", "send_append"} /\ call'[u].msg = call[u].msg
    BY <1>3, Zenon DEF SendPC
  <2>2. \A u \in Threads : call'[u].pc = "send_notify" => call'[u] = call[u]
    BY <1>3, Zenon DEF SendPC
  <2> QED
    BY <1>2, <1>3, <2>1, <2>2, Zenon DEF FreshInv
<1>4. ASSUME NEW t \in Threads, SendAppend(t), ~qclosed[Outbound(t)],
             Taken' = Taken \cup {call[t].msg}
      PROVE  FreshInv'
  <2> DEFINE m == call[t].msg
  <2>1. /\ call[t].pc = "send_append" /\ Goto(t, "send_notify")
        /\ UNCHANGED <<next, acked>>
    BY <1>4, Zenon DEF SendAppend, At, histVars
  <2>2. m \in Msgs /\ Pending(t) /\ m < next
    BY <1>1, <2>1, Zenon DEF NilRefused, Pending, SendPC, MsgInv
  <2>3. /\ call'[t].pc = "send_notify" /\ call'[t].msg = m
        /\ \A u \in Threads : u # t => call'[u] = call[u]
    BY <1>1, <2>1, CallMoves, Labels
  <2>4. \A u \in Threads : u # t /\ call[u].pc \in {"send_check", "send_append"} =>
           call[u].msg # m
    BY <2>2, Zenon DEF MsgInv, Pending, SendPC
  <2>5. \A u \in Threads :
           call'[u].pc \in {"send_check", "send_append"} => call'[u].msg \notin Taken'
    BY <1>4, <2>3, <2>4, Zenon DEF FreshInv
  <2>6. \A u \in Threads : call'[u].pc = "send_notify" => call'[u].msg \in Taken'
    BY <1>4, <2>3, Zenon DEF FreshInv
  <2> QED
    BY <1>4, <2>1, <2>2, <2>5, <2>6, Zenon DEF FreshInv
<1>5. ASSUME NEW t \in Threads, NEW e \in Ends, CallSend(t, e), Taken' = Taken
      PROVE  FreshInv'
  <2>1. next \in Msgs /\ next' = next + 1 /\ acked' = acked
    <3>1. next \in 1 .. MaxMsgs + 1 /\ next <= MaxMsgs /\ next' = next + 1 /\ acked' = acked
      BY <1>1, <1>5, Zenon DEF TypeOK, CallSend
    <3> QED
      BY <3>1, MaxMsgsAssumption DEF Msgs
  <2>2. /\ call'[t].pc = "send_check" /\ call'[t].msg = next
        /\ \A u \in Threads : u # t => call'[u] = call[u]
    BY <1>1, <1>5, <2>1, CallMoves, Labels DEF CallSend
  <2>3. next \notin Taken
    BY <1>2 DEF FreshInv
  <2>a. \A m \in Msgs : m < next => m < next'
    BY <1>2, <2>1
  <2>4. \A m \in Taken : m \in Msgs /\ m < next'
    BY <2>a, Zenon DEF FreshInv
  <2> QED
    BY <1>5, <2>1, <2>2, <2>3, <2>4, Zenon DEF FreshInv
<1>6. ASSUME NEW t \in Threads, NEW e \in Ends, Taken' = Taken,
             CallSendNil(t, e) \/ CallRecv(t, e) \/ CallClose(t, e)
      PROVE  FreshInv'
  <2>1. UNCHANGED <<next, acked>>
    BY <1>6, Zenon DEF CallSendNil, CallRecv, CallClose, histVars
  <2>2. PICK l \in {"send_check", "recv_check", "close_lock"} : Enter(t, l, e, NilMsg)
    BY <1>6, Zenon DEF CallSendNil, CallRecv, CallClose
  <2>3. /\ call'[t].pc = l /\ call'[t].msg = NilMsg
        /\ \A u \in Threads : u # t => call'[u] = call[u]
    BY <1>1, <2>2, CallMoves, Labels
  <2>4. l = "send_check" \/ l \notin SendPC
    BY Zenon DEF SendPC
  <2> QED
    BY <1>3, <1>6, <2>1, <2>3, <2>4, Zenon
<1>7. ASSUME NEW t \in Threads, SendNotify(t), Taken' = Taken
      PROVE  FreshInv'
  <2>1. CASE qclosed[Outbound(t)]
    BY <1>3, <1>7, <2>1, Zenon DEF SendNotify
  <2>2. CASE ~qclosed[Outbound(t)]
    <3>1. /\ call[t].pc = "send_notify" /\ Return(t)
          /\ acked' = acked \cup {call[t].msg} /\ next' = next
      BY <1>7, <2>2, Zenon DEF SendNotify, At
    <3>2. /\ call'[t].pc \notin SendPC
          /\ \A u \in Threads : u # t => call'[u] = call[u]
      BY <1>1, <3>1, CallMoves, Labels
    <3> QED
      BY <1>7, <3>1, <3>2, Labels, Zenon DEF FreshInv, SendPC
  <2> QED
    BY <2>1, <2>2, Zenon
<1>8. ASSUME NEW t \in Threads, Taken' = Taken,
             SendCheck(t) \/ SendAppend(t) \/ SendCancelled(t)
      PROVE  FreshInv'
  <2>1. CASE SendCheck(t)
    BY <1>1, <1>3, <1>8, <2>1, CallMoves, Labels DEF SendCheck, At, histVars
  <2>2. CASE SendAppend(t)
    <3>1. CASE qclosed[Outbound(t)]
      BY <1>1, <1>3, <1>8, <2>2, <3>1, CallMoves, Labels, Zenon DEF SendAppend, histVars
    <3>2. CASE ~qclosed[Outbound(t)]
      <4>1. Taken' = Taken \cup {call[t].msg}
        BY <2>2, <3>2, AppendQueues, Zenon
      <4> QED
        BY <1>4, <2>2, <3>2, <4>1, Zenon
    <3> QED
      BY <3>1, <3>2
  <2>3. CASE SendCancelled(t)
    BY <1>1, <1>3, <1>8, <2>3, CallMoves, Labels DEF SendCancelled, histVars
  <2> QED
    BY <1>8, <2>1, <2>2, <2>3, Zenon
<1>9. ASSUME NEW t \in Threads, Taken' = Taken,
             \/ RecvCheck(t) \/ RecvPop(t) \/ RecvWake(t) \/ RecvCancelled(t)
             \/ CloseLock(t) \/ CloseInbound(t) \/ CloseOutbound(t)
      PROVE  FreshInv'
  <2>1. /\ UNCHANGED <<next, acked>>
        /\ \/ Return(t)
           \/ \E l \in RecvPC \cup ClosePC : Goto(t, l)
    BY <1>9, Labels, Zenon DEF RecvCheck, RecvPop, RecvWake, RecvCancelled, CloseLock,
                 CloseInbound, CloseOutbound, histVars
  <2>2. \A l \in RecvPC \cup ClosePC : l \notin SendPC
    BY Zenon DEF RecvPC, ClosePC, SendPC
  <2> QED
    BY <1>1, <1>3, <1>9, <2>1, <2>2, CallMoves, Labels
<1>10. ASSUME NEW t \in Threads, NEW e \in Ends, ClearMessages(t, e), Taken' = Taken
       PROVE  FreshInv'
  BY <1>3, <1>10, Zenon DEF ClearMessages
<1>11. CASE Taken' = Taken /\ (Crashed \/ UNCHANGED vars)
  BY <1>11, Zenon DEF Crashed, vars, FreshInv
<1> QED
  BY <1>4, <1>5, <1>6, <1>7, <1>8, <1>9, <1>10, <1>11, TakenStep, Zenon DEF Next, Step

-----------------------------------------------------------------------------
(* Order.                                                                  *)

\* What has been received on end e followed by what is queued for it.
Line(e) == received[e] \o messages[Peer(e)]

\* No message is in the sequence twice, and none was acknowledged before the
\* Send of one ahead of it was called, b being what each Send saw.
InOrder(s, b) ==
    \A i, j \in DOMAIN s : i < j => s[i] # s[j] /\ s[j] \notin b[s[i]]

OrderInv ==
    /\ \A m \in Msgs : earlier[m] \subseteq acked
    /\ \A e \in Ends : InOrder(Line(e), earlier)

\* A prefix of an ordered sequence is ordered.
LEMMA PrefixInOrder ==
    ASSUME NEW S, NEW r \in Seq(S), NEW s \in Seq(S), NEW b, InOrder(r \o s, b)
    PROVE  InOrder(r \o <<>>, b) /\ InOrder(r, b)
<1>1. r \o <<>> = r
  OBVIOUS
<1>2. /\ DOMAIN r = 1 .. Len(r) /\ \A i \in DOMAIN r : (r \o s)[i] = r[i]
      /\ \A i \in DOMAIN r : i \in DOMAIN (r \o s)
  BY JoinedAt
<1>3. InOrder(r, b)
  BY <1>2, Zenon DEF InOrder
<1> QED
  BY <1>1, <1>3, Zenon

\* A new message may be appended that no Send ahead of it saw acknowledged.
LEMMA AppendInOrder ==
    ASSUME NEW S, NEW r \in Seq(S), NEW s \in Seq(S), NEW m \in S, NEW b,
           InOrder(r \o s, b),
           m \notin Range(r), m \notin Range(s),
           \A x \in S : m \notin b[x]
    PROVE  InOrder(r \o Append(s, m), b)
<1> DEFINE u == r \o s
           v == r \o Append(s, m)
<1>1. /\ Len(r) \in Nat /\ Len(s) \in Nat
      /\ Append(s, m) \in Seq(S) /\ Len(Append(s, m)) = Len(s) + 1
      /\ \A i \in 1 .. Len(s) : Append(s, m)[i] = s[i]
      /\ Append(s, m)[Len(s) + 1] = m
  OBVIOUS
<1>2. /\ DOMAIN u = 1 .. Len(r) + Len(s) /\ DOMAIN v = 1 .. Len(r) + Len(s) + 1
      /\ u \in Seq(S)
  <2>1. DOMAIN v = 1 .. Len(r) + Len(Append(s, m))
    BY <1>1, JoinedAt
  <2> QED
    BY <1>1, <2>1, JoinedAt
<1>3. \A i \in DOMAIN u : v[i] = u[i]
  <2> SUFFICES ASSUME NEW i \in DOMAIN u
               PROVE  v[i] = u[i]
    BY Zenon
  <2>1. CASE i <= Len(r)
    BY <1>1, <1>2, <2>1, JoinedAt
  <2>2. CASE i > Len(r)
    <3>1. u[i] = s[i - Len(r)]
      BY <1>1, <1>2, <2>2, JoinedAt
    <3>2. v[i] = Append(s, m)[i - Len(r)]
      BY <1>1, <1>2, <2>2, JoinedAt
    <3>3. i - Len(r) \in 1 .. Len(s)
      BY <1>1, <1>2, <2>2
    <3> QED
      BY <1>1, <3>1, <3>2, <3>3, Zenon
  <2> QED
    BY <1>1, <1>2, <2>1, <2>2
<1>4. v[Len(r) + Len(s) + 1] = m
  <2>1. v[Len(r) + Len(s) + 1] = Append(s, m)[(Len(r) + Len(s) + 1) - Len(r)]
    BY <1>1, JoinedAt
  <2>2. (Len(r) + Len(s) + 1) - Len(r) = Len(s) + 1
    BY <1>1
  <2> QED
    BY <1>1, <2>1, <2>2, Zenon
<1>5. \A i \in DOMAIN u : u[i] \in S /\ u[i] # m
  BY <1>2, JoinedRange
<1> HIDE DEF u, v
<1>6. ASSUME NEW i \in DOMAIN v, NEW j \in DOMAIN v, i < j
      PROVE  v[i] # v[j] /\ v[j] \notin b[v[i]]
  <2>1. i \in DOMAIN u
    BY <1>1, <1>2, <1>6
  <2>2. CASE j \in DOMAIN u
    BY <1>3, <1>6, <2>1, <2>2, Zenon DEF InOrder, u
  <2>3. CASE j = Len(r) + Len(s) + 1
    BY <1>3, <1>4, <1>5, <2>1, <2>3, Zenon
  <2> QED
    BY <1>1, <1>2, <2>2, <2>3, SMTT(30)
<1> QED
  BY <1>6, Zenon DEF InOrder, v

\* Everything in a line has been queued.
LEMMA LineTaken ==
    ASSUME TypeOK, NEW e \in Ends, NEW i \in DOMAIN Line(e)
    PROVE  Line(e)[i] \in Taken
<1>1. received[e] \in Seq(Msgs) /\ messages[Peer(e)] \in Seq(Msgs) /\ Peer(e) \in Ends
  BY Peers, Zenon DEF TypeOK
<1>2. Line(e)[i] \in Range(received[e]) \cup Range(messages[Peer(e)])
  BY <1>1, JoinedRange, Zenon DEF Line
<1> QED
  BY <1>1, <1>2, TakenMember, Zenon

\* Acknowledgements are never taken back, and what a Send saw is recorded
\* when it is called.
LEMMA HistoryStep ==
    ASSUME TypeInv, [Next]_vars
    PROVE  /\ acked \subseteq acked'
           /\ \/ earlier' = earlier
              \/ /\ earlier' = [earlier EXCEPT ![next] = acked] /\ acked' = acked
                 /\ UNCHANGED <<messages, received>>
<1>1. ASSUME NEW t \in Threads, NEW e \in Ends, CallSend(t, e)
      PROVE  /\ acked' = acked /\ earlier' = [earlier EXCEPT ![next] = acked]
             /\ UNCHANGED <<messages, received>>
  BY <1>1, Zenon DEF CallSend, queueVars
<1>2. ASSUME NEW t \in Threads, NEW e \in Ends,
             CallSendNil(t, e) \/ CallRecv(t, e) \/ CallClose(t, e) \/ ClearMessages(t, e)
      PROVE  UNCHANGED <<acked, earlier>>
  BY <1>2, Zenon DEF CallSendNil, CallRecv, CallClose, ClearMessages, histVars
<1>3. ASSUME NEW t \in Threads, SendNotify(t)
      PROVE  acked \subseteq acked' /\ earlier' = earlier
  BY <1>3, Zenon DEF SendNotify
<1>4. ASSUME NEW t \in Threads,
             \/ SendCheck(t) \/ SendCancelled(t) \/ SendAppend(t)
             \/ RecvCheck(t) \/ RecvPop(t) \/ RecvWake(t) \/ RecvCancelled(t)
             \/ CloseLock(t) \/ CloseInbound(t) \/ CloseOutbound(t)
      PROVE  UNCHANGED <<acked, earlier>>
  BY <1>4, Zenon DEF SendCheck, SendCancelled, SendAppend, RecvCheck, RecvPop, RecvWake,
              RecvCancelled, CloseLock, CloseInbound, CloseOutbound, histVars
<1>5. CASE Crashed \/ UNCHANGED vars
  BY <1>5, Zenon DEF Crashed, vars
<1> QED
  BY <1>1, <1>2, <1>3, <1>4, <1>5, Zenon DEF Next, Step

\* The lines stay in order.
LEMMA OrderStep ==
    TypeInv /\ MsgInv /\ FreshInv /\ OrderInv /\ [Next]_vars => OrderInv'
<1> SUFFICES ASSUME TypeInv, MsgInv, FreshInv, OrderInv, [Next]_vars
             PROVE  OrderInv'
  OBVIOUS
<1>1. TypeOK /\ NilRefused
  BY Zenon DEF TypeInv
<1>2. /\ messages \in [Ends -> Seq(Msgs)] /\ received \in [Ends -> Seq(Msgs)]
      /\ \A e \in Ends : messages[e] \in Seq(Msgs) /\ received[e] \in Seq(Msgs)
      /\ earlier \in [Msgs -> SUBSET Msgs]
  BY <1>1, Zenon DEF TypeOK
<1>3. \A m \in Msgs : earlier'[m] \subseteq acked'
  BY <1>2, HistoryStep, Zenon DEF OrderInv
<1>4. ASSUME UNCHANGED <<messages, received>>, NEW e \in Ends
      PROVE  InOrder(Line(e)', earlier')
  <2>1. Line(e)' = Line(e)
    BY <1>4, Zenon DEF Line
  <2>2. \A i \in DOMAIN Line(e) : Line(e)[i] \in Msgs /\ Line(e)[i] < next
    BY <1>1, LineTaken, Zenon DEF FreshInv
  <2>3. next \in Nat
    <3>1. next \in 1 .. MaxMsgs + 1
      BY <1>1, Zenon DEF TypeOK
    <3> QED
      BY <3>1
  <2>4. \A i \in DOMAIN Line(e) : Line(e)[i] # next
    BY <2>2, <2>3
  <2>5. \A i \in DOMAIN Line(e) : earlier'[Line(e)[i]] = earlier[Line(e)[i]]
    BY <1>2, <2>2, <2>4, HistoryStep, Zenon
  <2> QED
    BY <2>1, <2>5 DEF OrderInv, InOrder
<1>5. ASSUME NEW t \in Threads, SendAppend(t), ~qclosed[Outbound(t)],
             messages' = [messages EXCEPT ![Outbound(t)] = Append(@, call[t].msg)],
             UNCHANGED received, NEW e \in Ends
      PROVE  InOrder(Line(e)', earlier')
  <2> DEFINE m == call[t].msg
  <2>1. /\ m \in Msgs /\ m \notin Taken /\ m \notin acked
        /\ Outbound(t) \in Ends /\ earlier' = earlier
    <3>1. call[t].pc = "send_append" /\ earlier' = earlier
      BY <1>5, Zenon DEF SendAppend, At, histVars
    <3>2. m \in Msgs /\ m \notin acked
      BY <1>1, <3>1, Zenon DEF NilRefused, MsgInv, Pending, SendPC
    <3> QED
      BY <1>1, <3>1, <3>2, Zenon DEF FreshInv, TypeOK, Call, Outbound
  <2>2. Peer(e) \in Ends
    BY Peers, Zenon
  <2>3. CASE Peer(e) # Outbound(t)
    <3>1. Line(e)' = Line(e)
      BY <1>2, <1>5, <2>2, <2>3, Zenon DEF Line
    <3> QED
      BY <2>1, <3>1, Zenon DEF OrderInv
  <2>4. CASE Peer(e) = Outbound(t)
    <3>1. Line(e)' = received[e] \o Append(messages[Peer(e)], m)
      BY <1>2, <1>5, <2>2, <2>4, Zenon DEF Line
    <3>2. m \notin Range(received[e]) /\ m \notin Range(messages[Peer(e)])
      BY <2>1, <2>2, TakenMember, Zenon
    <3>3. \A x \in Msgs : m \notin earlier[x]
      BY <2>1, Zenon DEF OrderInv
    <3>4. InOrder(received[e] \o messages[Peer(e)], earlier)
      BY Zenon DEF OrderInv, Line
    <3>5. InOrder(received[e] \o Append(messages[Peer(e)], m), earlier)
      BY <1>2, <2>1, <2>2, <3>2, <3>3, <3>4, AppendInOrder, Zenon
    <3> QED
      BY <2>1, <3>1, <3>5, Zenon
  <2> QED
    BY <2>3, <2>4, Zenon
<1>6. ASSUME NEW d \in Ends,
             messages[Peer(d)] # <<>>,
             received' = [received EXCEPT ![d] = Append(@, Head(messages[Peer(d)]))],
             messages' = [messages EXCEPT ![Peer(d)] = Tail(@)],
             UNCHANGED earlier, NEW e \in Ends
      PROVE  InOrder(Line(e)', earlier')
  <2>1. Peer(e) \in Ends /\ Peer(d) \in Ends /\ (Peer(e) = Peer(d) => e = d)
    BY Peers, Zenon
  <2>2. CASE e = d
    <3>1. Line(e)' = Append(received[e], Head(messages[Peer(e)])) \o Tail(messages[Peer(e)])
      BY <1>2, <1>6, <2>1, <2>2, Zenon DEF Line
    <3>2. Line(e)' = Line(e)
      BY <1>2, <1>6, <2>1, <2>2, <3>1, HandOver DEF Line
    <3> QED
      BY <1>6, <3>2, Zenon DEF OrderInv
  <2>3. CASE e # d
    <3>1. Line(e)' = Line(e)
      BY <1>2, <1>6, <2>1, <2>3, Zenon DEF Line
    <3> QED
      BY <1>6, <3>1 DEF OrderInv
  <2> QED
    BY <2>2, <2>3, Zenon
<1>7. ASSUME NEW d \in Ends,
             messages' = [messages EXCEPT ![d] = <<>>],
             UNCHANGED <<received, earlier>>, NEW e \in Ends
      PROVE  InOrder(Line(e)', earlier')
  <2>1. Peer(e) \in Ends
    BY Peers, Zenon
  <2>2. messages'[Peer(e)] = messages[Peer(e)] \/ messages'[Peer(e)] = <<>>
    BY <1>2, <1>7, <2>1, Zenon
  <2>3. InOrder(received[e] \o messages[Peer(e)], earlier)
    BY Zenon DEF OrderInv, Line
  <2>4. InOrder(received[e] \o <<>>, earlier)
    BY <1>2, <2>1, <2>3, PrefixInOrder, Zenon
  <2> QED
    BY <1>7, <2>2, <2>3, <2>4, Zenon DEF Line
<1>8. \A e \in Ends : InOrder(Line(e)', earlier')
  BY <1>4, <1>5, <1>6, <1>7, QueueStep, Zenon
<1> QED
  BY <1>3, <1>8, Zenon DEF OrderInv

\* The inductive invariant of this module.
ConnInv == TypeInv /\ MsgInv /\ FreshInv /\ OrderInv

\* It holds of the connection Dial builds.
LEMMA ConnInit == Init => ConnInv
<1> SUFFICES ASSUME Init
             PROVE  ConnInv
  BY Zenon
<1>1. TypeInv /\ NoCall.pc = "idle"
  BY TypeInit, Zenon DEF NoCall
<1>2. /\ \A t \in Threads : call[t].pc = "idle"
      /\ \A e \in Ends : messages[e] = <<>> /\ received[e] = <<>>
      /\ cleared = {} /\ acked = {}
      /\ \A m \in Msgs : earlier[m] = {}
  BY <1>1, Zenon DEF Init
<1>3. MsgInv
  BY <1>2, EmptyRange, Zenon DEF MsgInv, Pending, SendPC
<1>4. FreshInv
  BY <1>2, EmptyRange, Zenon DEF FreshInv, Taken
<1>5. OrderInv
  <2>1. \A e \in Ends : Line(e) = <<>>
    BY <1>2, Peers DEF Line
  <2> QED
    BY <1>2, <2>1 DEF OrderInv, InOrder
<1> QED
  BY <1>1, <1>3, <1>4, <1>5, Zenon DEF ConnInv

\* Every step keeps it.
LEMMA ConnStep == ConnInv /\ [Next]_vars => ConnInv'
BY TypeStep, MsgStep, FreshStep, OrderStep, Zenon DEF ConnInv

\* Messages are received at most once and in order: of two messages received
\* on an end, the later one was not acknowledged before the Send of the
\* earlier one was called, whichever goroutines sent them.
THEOREM InOrderDelivery == Spec => []DeliveredInOrder
<1>1. ConnInv => DeliveredInOrder
  <2> SUFFICES ASSUME ConnInv, NEW e \in Ends
               PROVE  InOrder(received[e], earlier)
    BY Zenon DEF DeliveredInOrder, InOrder
  <2>1. /\ received[e] \in Seq(Msgs) /\ messages[Peer(e)] \in Seq(Msgs)
        /\ InOrder(received[e] \o messages[Peer(e)], earlier)
    BY Peers, Zenon DEF ConnInv, TypeInv, TypeOK, OrderInv, Line
  <2> QED
    BY <2>1, PrefixInOrder, Zenon
<1> QED
  BY <1>1, ConnInit, ConnStep, PTL DEF Spec

\* A message whose Send returned nil is queued, received or was cleared: no
\* race of Send, Recv, Close and ClearMessages loses one.
THEOREM AcknowledgedNotLost == Spec => []AckedNotLost
<1>1. ConnInv => AckedNotLost
  BY TakenMember, Zenon DEF ConnInv, FreshInv, AckedNotLost
<1> QED
  BY <1>1, ConnInit, ConnStep, PTL DEF Spec

-----------------------------------------------------------------------------
(* The refinement.                                                         *)

\* Every step of the connection is a step of the channels or leaves them as
\* they are.
LEMMA ChannelStep == ConnInv /\ [Next]_vars => [Abstract!Next]_(Abstract!cvars)
<1> SUFFICES ASSUME ConnInv, [Next]_vars
             PROVE  [Abstract!Next]_(Abstract!cvars)
  BY Zenon
<1>1. TypeInv /\ TypeOK /\ NilRefused /\ FreshInv
  BY Zenon DEF ConnInv, TypeInv
<1>2. /\ messages \in [Ends -> Seq(Msgs)] /\ received \in [Ends -> Seq(Msgs)]
      /\ qclosed \in [Ends -> BOOLEAN]
      /\ \A e \in Ends : messages[e] \in Seq(Msgs) /\ received[e] \in Seq(Msgs)
  BY <1>1, Zenon DEF TypeOK
<1>3. ASSUME UNCHANGED <<messages, received, cleared>>
      PROVE  [Abstract!Next]_(Abstract!cvars)
  <2>1. Taken' = Taken
    BY <1>3, Zenon DEF Taken
  <2>2. CASE UNCHANGED qclosed
    BY <1>3, <2>1, <2>2, Zenon DEF Abstract!cvars
  <2>3. CASE \E q \in Ends : qclosed' = [qclosed EXCEPT ![q] = TRUE]
    <3>1. PICK q \in Ends : qclosed' = [qclosed EXCEPT ![q] = TRUE]
      BY <2>3, Zenon
    <3>2. Abstract!Shut(q)
      BY <1>2, <1>3, <2>1, <3>1, Zenon DEF Abstract!Shut
    <3> QED
      BY <3>2, Zenon DEF Abstract!Next
  <2> QED
    BY <1>1, <2>2, <2>3, QueueClosing, Zenon
<1>4. ASSUME NEW t \in Threads, SendAppend(t), ~qclosed[Outbound(t)],
             messages' = [messages EXCEPT ![Outbound(t)] = Append(@, call[t].msg)],
             UNCHANGED <<received, cleared, qclosed>>
      PROVE  Abstract!Next
  <2>1. call[t].msg \in Msgs /\ call[t].msg \notin Taken /\ Outbound(t) \in Ends
    BY <1>1, <1>4, Zenon DEF SendAppend, At, NilRefused, FreshInv, TypeOK, Call, Outbound
  <2>2. Taken' = Taken \cup {call[t].msg}
    BY <1>1, <1>4, AppendQueues, Zenon
  <2>3. Abstract!Accept(Outbound(t), call[t].msg)
    BY <1>2, <1>4, <2>1, <2>2, Zenon DEF Abstract!Accept
  <2> QED
    BY <2>1, <2>3, Zenon DEF Abstract!Next
<1>5. ASSUME NEW e \in Ends,
             messages[Peer(e)] # <<>>,
             received' = [received EXCEPT ![e] = Append(@, Head(messages[Peer(e)]))],
             messages' = [messages EXCEPT ![Peer(e)] = Tail(@)],
             UNCHANGED <<cleared, qclosed>>
      PROVE  Abstract!Next
  <2>1. Peer(e) \in Ends /\ Peer(Peer(e)) = e /\ \A d \in Ends : Peer(d) = e <=> d = Peer(e)
    BY Peers, Zenon
  <2>2. Taken' = Taken
    BY <1>1, <1>5, HandOverKeeps, Zenon
  <2>3. [q \in Ends |-> received'[Peer(q)]] =
           [[q \in Ends |-> received[Peer(q)]] EXCEPT
               ![Peer(e)] = Append(@, Head(messages[Peer(e)]))]
    BY <1>2, <1>5, <2>1, Peers, Zenon
  <2>4. Abstract!Deliver(Peer(e))
    BY <1>2, <1>5, <2>1, <2>2, <2>3, Zenon DEF Abstract!Deliver
  <2> QED
    BY <2>1, <2>4, Zenon DEF Abstract!Next
<1>6. ASSUME NEW e \in Ends,
             messages' = [messages EXCEPT ![e] = <<>>],
             cleared' = cleared \cup Range(messages[e]),
             UNCHANGED <<received, qclosed>>
      PROVE  Abstract!Next
  <2>1. Taken' = Taken
    BY <1>1, <1>6, ClearKeeps, Zenon
  <2>2. SubSeq(messages[e], 1, 0) = <<>> /\ 0 \in 0 .. Len(messages[e])
    BY <1>2
  <2>3. Abstract!Discard(e)
    BY <1>2, <1>6, <2>1, <2>2, Zenon DEF Abstract!Discard
  <2> QED
    BY <2>3, Zenon DEF Abstract!Next
<1> QED
  BY <1>1, <1>3, <1>4, <1>5, <1>6, QueueStep, Zenon

\* The memory connection implements one channel per direction: accepted while
\* open, handed out at most once and in order, never made up.
THEOREM Refinement == Spec => ImplementsChannel
<1>1. Init => Abstract!Init
  <2> SUFFICES ASSUME Init
               PROVE  Abstract!Init
    OBVIOUS
  <2>1. Taken = {}
    BY EmptyRange, Zenon DEF Init, Taken
  <2> QED
    BY <2>1, Peers, Zenon DEF Init, Abstract!Init
<1> QED
  BY <1>1, ConnInit, ConnStep, ChannelStep, PTL
  DEF Spec, ImplementsChannel, Abstract!Spec
=============================================================================
