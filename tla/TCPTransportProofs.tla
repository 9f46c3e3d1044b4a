------------------------- MODULE TCPTransportProofs -------------------------
(***************************************************************************)
(* What a cancelled Accept and the transport's Close leave behind          *)
(* (transport/tcp.go), for every number of goroutines, addresses, Dials    *)
(* and Accepts.                                                            *)
(***************************************************************************)
EXTENDS TCPTransport, SequenceLemmas, FiniteSetTheorems, TLAPS

-----------------------------------------------------------------------------
(* Types.                                                                  *)

PCs == {"idle", "listen_bind"} \cup DialPC \cup AcceptPC
Calls == [pc : PCs, addr : Addrs, id : Nat]

\* The types of TypeOK, and those of the connection or the helper a call and a
\* channel hold.  The bound on activeConns is CountInv's.
Typed ==
    /\ closed \in BOOLEAN /\ lclosed \in BOOLEAN
    /\ connections \in [Addrs -> Conns \cup {None}]
    /\ activeConns \in Nat
    /\ listening \in {"no", "open", "closed"}
    /\ backlog \in Seq(Conns)
    /\ helper \in [Helpers -> {"none", "accepting", "ready", "failed"}]
    /\ connChan \in [Helpers -> Conns \cup {None}]
    /\ \A h \in Ready : connChan[h] \in Conns
    /\ call \in [Threads -> Calls]
    /\ \A t \in Threads : /\ call[t].pc \in DialPC => call[t].id \in Conns
                          /\ call[t].pc \in AcceptPC => call[t].id \in Helpers
    /\ open \subseteq Conns /\ acceptedOpen \subseteq Conns
    /\ connected \subseteq Conns /\ replaced \subseteq Conns
    /\ late \subseteq Conns /\ reset \subseteq Conns
    /\ dials \in 0 .. MaxDials /\ accepts \in 0 .. MaxAccepts
    /\ accepted \in Seq(Conns)
    /\ cancelled \subseteq Helpers

\* Thread t is now at l, for the connection or the helper n; nobody else moved.
Moved(t, l, n) ==
    /\ call' \in [Threads -> Calls]
    /\ call'[t].pc = l /\ call'[t].id = n
    /\ \A u \in Threads : u # t => call'[u] = call[u]

\* How the three ways of moving a thread change its call.
LEMMA Moves ==
    ASSUME call \in [Threads -> Calls], NEW t \in Threads
    PROVE  /\ Return(t) => Moved(t, "idle", None)
           /\ \A l \in PCs : Goto(t, l) =>
                 Moved(t, l, call[t].id) /\ call'[t].addr = call[t].addr
           /\ \A l \in PCs, a \in Addrs, n \in Nat : Enter(t, l, a, n) =>
                 Moved(t, l, n) /\ call'[t].addr = a
<1>1. NoCall \in Calls /\ NoCall.pc = "idle" /\ NoCall.id = None
  BY UsersAssumption, Zenon DEF NoCall, Calls, PCs, None
<1>2. Return(t) => Moved(t, "idle", None)
  BY <1>1, Zenon DEF Return, Moved
<1>3. ASSUME NEW l \in PCs, Goto(t, l)
      PROVE  Moved(t, l, call[t].id) /\ call'[t].addr = call[t].addr
  BY <1>3, Zenon DEF Goto, Moved, Calls
<1>4. ASSUME NEW l \in PCs, NEW a \in Addrs, NEW n \in Nat, Enter(t, l, a, n)
      PROVE  Moved(t, l, n) /\ call'[t].addr = a
  BY <1>4, Zenon DEF Enter, Moved, Calls
<1> QED
  BY <1>2, <1>3, <1>4, Zenon

\* Labels are members of the sets they are listed in.
LEMMA Labels ==
    /\ \A l \in DialPC : l \in PCs /\ l \notin AcceptPC /\ l # "idle" /\ l # "listen_bind"
    /\ \A l \in AcceptPC : l \in PCs /\ l \notin DialPC /\ l # "idle" /\ l # "listen_bind"
    /\ {"idle", "listen_bind"} \subseteq PCs
    /\ DialPC = {"dial_check", "dial_connect", "dial_register", "dial_count"}
    /\ AcceptPC = {"accept_check", "accept_wait"}
BY Zenon DEF PCs, DialPC, AcceptPC

\* Where each operation of a thread takes it.
LEMMA Moving ==
    ASSUME Typed, NEW t \in Threads
    PROVE  /\ CallListen(t) => At(t, "idle") /\ Moved(t, "listen_bind", None)
           /\ ListenBind(t) => At(t, "listen_bind") /\ Moved(t, "idle", None)
           /\ \A a \in Addrs : CallDial(t, a) =>
                 At(t, "idle") /\ Moved(t, "dial_check", dials + 1)
           /\ DialCheck(t) => /\ At(t, "dial_check")
                              /\ \/ closed /\ Moved(t, "idle", None)
                                 \/ ~closed /\ Moved(t, "dial_connect", call[t].id)
           /\ DialConnect(t) => /\ At(t, "dial_connect")
                                /\ Moved(t, "dial_register", call[t].id)
           /\ DialFail(t) => At(t, "dial_connect") /\ Moved(t, "idle", None)
           /\ DialRegister(t) => /\ At(t, "dial_register")
                                 /\ Moved(t, "dial_count", call[t].id)
           /\ DialCount(t) => At(t, "dial_count") /\ Moved(t, "idle", None)
           /\ CallAccept(t) => At(t, "idle") /\ Moved(t, "accept_check", accepts + 1)
           /\ AcceptCheck(t) => /\ At(t, "accept_check")
                                /\ \/ Moved(t, "idle", None) /\ helper' = helper
                                   \/ /\ Moved(t, "accept_wait", call[t].id)
                                      /\ helper' = [helper EXCEPT ![call[t].id] = "accepting"]
           /\ AcceptResult(t) => At(t, "accept_wait") /\ Moved(t, "idle", None)
           /\ AcceptCancelled(t) => At(t, "accept_wait") /\ Moved(t, "idle", None)
<1>1. call \in [Threads -> Calls] /\ dials + 1 \in Nat /\ accepts + 1 \in Nat /\ None \in Nat
  BY BoundsAssumption DEF Typed, None
<1>2. NoCall.addr \in Addrs
  BY UsersAssumption, Zenon DEF NoCall
<1>3. \A l \in {"idle", "listen_bind"} \cup DialPC \cup AcceptPC : l \in PCs
  BY Zenon DEF PCs
<1>4. {"dial_check", "dial_connect", "dial_register", "dial_count", "accept_check",
       "accept_wait"} \subseteq PCs
  BY Zenon DEF PCs, DialPC, AcceptPC
<1>5. /\ CallListen(t) => At(t, "idle") /\ Moved(t, "listen_bind", None)
      /\ ListenBind(t) => At(t, "listen_bind") /\ Moved(t, "idle", None)
  BY <1>1, <1>2, <1>3, Moves, Zenon DEF CallListen, ListenBind, Enter
<1>6. \A a \in Addrs : CallDial(t, a) => At(t, "idle") /\ Moved(t, "dial_check", dials + 1)
  BY <1>1, <1>4, Moves, Zenon DEF CallDial, Enter
<1>7. DialCheck(t) => /\ At(t, "dial_check")
                      /\ \/ closed /\ Moved(t, "idle", None)
                         \/ ~closed /\ Moved(t, "dial_connect", call[t].id)
  BY <1>1, <1>4, Moves, Zenon DEF DialCheck
<1>8. /\ DialConnect(t) => At(t, "dial_connect") /\ Moved(t, "dial_register", call[t].id)
      /\ DialFail(t) => At(t, "dial_connect") /\ Moved(t, "idle", None)
  BY <1>1, <1>4, Moves, Zenon DEF DialConnect, DialFail
<1>9. /\ DialRegister(t) => At(t, "dial_register") /\ Moved(t, "dial_count", call[t].id)
      /\ DialCount(t) => At(t, "dial_count") /\ Moved(t, "idle", None)
  BY <1>1, <1>4, Moves, Zenon DEF DialRegister, DialCount
<1>10. CallAccept(t) => At(t, "idle") /\ Moved(t, "accept_check", accepts + 1)
  BY <1>1, <1>2, <1>4, Moves, Zenon DEF CallAccept, Enter
<1>11. AcceptCheck(t) => /\ At(t, "accept_check")
                         /\ \/ Moved(t, "idle", None) /\ helper' = helper
                            \/ /\ Moved(t, "accept_wait", call[t].id)
                               /\ helper' = [helper EXCEPT ![call[t].id] = "accepting"]
  BY <1>1, <1>4, Moves, Zenon DEF AcceptCheck
<1>12. /\ AcceptResult(t) => At(t, "accept_wait") /\ Moved(t, "idle", None)
       /\ AcceptCancelled(t) => At(t, "accept_wait") /\ Moved(t, "idle", None)
  BY <1>1, Moves, Zenon DEF AcceptResult, AcceptCancelled
<1> QED
  BY <1>5, <1>6, <1>7, <1>8, <1>9, <1>10, <1>11, <1>12, Zenon

LEMMA TypedInit == Init => Typed
<1>1. NoCall \in Calls /\ NoCall.pc = "idle"
  BY UsersAssumption, Zenon DEF NoCall, Calls, PCs, None
<1>2. <<>> \in Seq(Conns) /\ 0 \in 0 .. MaxDials /\ 0 \in 0 .. MaxAccepts /\ 0 \in Nat
  BY BoundsAssumption
<1>3. ASSUME Init
      PROVE  /\ call \in [Threads -> Calls]
             /\ \A t \in Threads : call[t].pc \notin DialPC /\ call[t].pc \notin AcceptPC
             /\ Ready = {}
  BY <1>1, <1>3, Labels, Zenon DEF Init, Ready
<1> QED
  BY <1>2, <1>3, Zenon DEF Init, Typed

LEMMA TypedStep == Typed /\ [Next]_vars => Typed'
<1> SUFFICES ASSUME Typed, [Next]_vars
             PROVE  Typed'
  BY Zenon
<1> USE DEF transportVars, listenerVars, dialHist, acceptHist
<1>1. ASSUME NEW t \in Threads, CallListen(t)
      PROVE  Typed'
  BY <1>1, Moving, Labels, Zenon DEF CallListen, Typed, Moved, Ready
<1>2. ASSUME NEW t \in Threads, ListenBind(t)
      PROVE  Typed'
  BY <1>2, Moving, Labels, Zenon DEF ListenBind, Typed, Moved, Ready
<1>3. ASSUME NEW t \in Threads, NEW a \in Addrs, CallDial(t, a)
      PROVE  Typed'
  <2>1. dials + 1 \in Conns /\ dials' = dials + 1 /\ dials' \in 0 .. MaxDials
    BY <1>3, BoundsAssumption DEF CallDial, Typed, Conns
  <2> QED
    BY <1>3, <2>1, Moving, Labels, Zenon DEF CallDial, Typed, Moved, Ready
<1>4. ASSUME NEW t \in Threads, DialCheck(t) \/ DialFail(t)
      PROVE  Typed'
  BY <1>4, Moving, Labels DEF DialCheck, DialFail, Typed, Moved, At, Ready
<1>5. ASSUME NEW t \in Threads, DialConnect(t)
      PROVE  Typed'
  <2>1. call[t].id \in Conns
    BY <1>5, Labels, Zenon DEF DialConnect, At, Typed
  <2>2. backlog' \in Seq(Conns)
    BY <1>5, <2>1, Appended, Zenon DEF DialConnect, Typed
  <2> QED
    BY <1>5, <2>1, <2>2, Moving, Labels, Zenon DEF DialConnect, Typed, Moved, Ready
<1>6. ASSUME NEW t \in Threads, DialRegister(t)
      PROVE  Typed'
  <2>1. call[t].id \in Conns /\ call[t].addr \in Addrs
    BY <1>6, Labels, Zenon DEF DialRegister, At, Typed, Calls
  <2>2. /\ connections' \in [Addrs -> Conns \cup {None}]
        /\ replaced' \subseteq Conns /\ late' \subseteq Conns
    BY <1>6, <2>1, Zenon DEF DialRegister, Typed
  <2> QED
    BY <1>6, <2>1, <2>2, Moving, Labels, Zenon DEF DialRegister, Typed, Moved, Ready
<1>7. ASSUME NEW t \in Threads, DialCount(t)
      PROVE  Typed'
  <2>1. activeConns' \in Nat
    BY <1>7 DEF DialCount, Typed
  <2>2. Moved(t, "idle", None)
    BY <1>7, Moving
  <2> QED
    BY <1>7, <2>1, <2>2, Labels DEF DialCount, Typed, Moved, Ready
<1>8. ASSUME NEW t \in Threads, Close(t)
      PROVE  Typed'
  BY <1>8, Zenon DEF Close, Typed, Ready
<1>9. ASSUME NEW t \in Threads, NEW c \in Conns, CloseConn(t, c) \/ CloseAccepted(t, c)
      PROVE  Typed'
  BY <1>9, Zenon DEF CloseConn, CloseAccepted, Typed, Ready
<1>10. ASSUME NEW t \in Threads, CallAccept(t)
       PROVE  Typed'
  <2>1. accepts + 1 \in Helpers /\ accepts' = accepts + 1 /\ accepts' \in 0 .. MaxAccepts
    BY <1>10, BoundsAssumption DEF CallAccept, Typed, Helpers
  <2> QED
    BY <1>10, <2>1, Moving, Labels, Zenon DEF CallAccept, Typed, Moved, Ready
<1>11. ASSUME NEW t \in Threads, AcceptCheck(t)
       PROVE  Typed'
  BY <1>11, Moving, Labels DEF AcceptCheck, Typed, Moved, At, Ready
<1>12. ASSUME NEW h \in Helpers, HelperAccept(h)
       PROVE  Typed'
  <2>1. Head(backlog) \in Conns /\ backlog' \in Seq(Conns)
    BY <1>12, HeadTaken DEF HelperAccept, Typed
  <2>2. /\ helper' = [helper EXCEPT ![h] = "ready"]
        /\ connChan' = [connChan EXCEPT ![h] = Head(backlog)]
    BY <1>12, Zenon DEF HelperAccept
  <2>3. /\ helper' \in [Helpers -> {"none", "accepting", "ready", "failed"}]
        /\ connChan' \in [Helpers -> Conns \cup {None}]
        /\ connChan'[h] \in Conns
        /\ \A g \in Helpers : g # h => helper'[g] = helper[g] /\ connChan'[g] = connChan[g]
    BY <2>1, <2>2 DEF Typed
  <2>4. \A g \in Ready' : connChan'[g] \in Conns
    BY <2>3 DEF Typed, Ready
  <2> QED
    BY <1>12, <2>1, <2>3, <2>4 DEF HelperAccept, Typed
<1>13. ASSUME NEW h \in Helpers, HelperFail(h)
       PROVE  Typed'
  BY <1>13, Zenon DEF HelperFail, Typed, Ready
<1>14. ASSUME NEW t \in Threads, AcceptResult(t)
       PROVE  Typed'
  <2>1. call[t].id \in Helpers
    BY <1>14, Labels, Zenon DEF AcceptResult, At, Typed
  <2>2. accepted' \in Seq(Conns)
    BY <1>14, <2>1, Appended, Zenon DEF AcceptResult, Typed, Ready
  <2>3. Moved(t, "idle", None)
    BY <1>14, Moving, Zenon
  <2>4. helper' = [helper EXCEPT ![call[t].id] = "none"] /\ connChan' = connChan
    BY <1>14, Zenon DEF AcceptResult
  <2>5. /\ helper' \in [Helpers -> {"none", "accepting", "ready", "failed"}]
        /\ Ready' \subseteq Ready
    BY <2>1, <2>4 DEF Typed, Ready
  <2> QED
    BY <1>14, <2>2, <2>3, <2>4, <2>5, Labels DEF AcceptResult, Typed, Moved
<1>15. ASSUME NEW t \in Threads, AcceptCancelled(t)
       PROVE  Typed'
  BY <1>15, Moving, Labels DEF AcceptCancelled, Typed, Moved, At, Ready
<1>16. ASSUME NEW t \in Threads, CloseListener(t)
       PROVE  Typed'
  <2>1. Range(backlog) \subseteq Conns
    BY DEF Typed, Range
  <2> QED
    BY <1>16, <2>1 DEF CloseListener, Typed, Ready
<1>17. CASE UNCHANGED vars
  BY <1>17, Zenon DEF vars, Typed, Ready
<1> QED
  BY <1>1, <1>2, <1>3, <1>4, <1>5, <1>6, <1>7, <1>8, <1>9, <1>10, <1>11, <1>12, <1>13,
     <1>14, <1>15, <1>16, <1>17, Zenon DEF Next, Step, HelperStep, HelperClosed

-----------------------------------------------------------------------------
(* Dial: a call owns its connection until it returns, so that the counter   *)
(* counts every established connection once.                               *)

Connecting == {"dial_check", "dial_connect"}
Connected == {"dial_register", "dial_count"}

DialInv ==
    /\ connected \subseteq 1 .. dials
    /\ \A t \in Threads :
          /\ call[t].pc \in DialPC => call[t].id \in 1 .. dials
          /\ call[t].pc \in Connecting => call[t].id \notin connected
          /\ call[t].pc \in Connected => call[t].id \in connected
    /\ \A t, u \in Threads :
          /\ call[t].pc \in DialPC /\ call[u].pc \in DialPC
          /\ call[t].id = call[u].id
          => t = u

LEMMA DialLabels ==
    /\ DialPC = Connecting \cup Connected /\ Connecting \cap Connected = {}
    /\ {"dial_check", "dial_connect"} \subseteq Connecting
    /\ {"dial_register", "dial_count"} \subseteq Connected
BY Zenon DEF DialPC, Connecting, Connected

LEMMA DialStep == Typed /\ DialInv /\ [Next]_vars => DialInv'
<1> SUFFICES ASSUME Typed, DialInv, [Next]_vars
             PROVE  DialInv'
  BY Zenon
<1> USE DEF transportVars, listenerVars, dialHist, acceptHist
<1>1. ASSUME NEW t \in Threads, NEW l, NEW n, Moved(t, l, n), l \notin DialPC,
             UNCHANGED <<dials, connected>>
      PROVE  DialInv'
  BY <1>1, DialLabels, Zenon DEF DialInv, Moved
<1>2. ASSUME UNCHANGED <<call, dials, connected>>
      PROVE  DialInv'
  BY <1>2, Zenon DEF DialInv
<1>3. ASSUME NEW t \in Threads, \/ CallListen(t) \/ ListenBind(t) \/ DialFail(t) \/ DialCount(t)
                                \/ CallAccept(t) \/ AcceptCheck(t) \/ AcceptResult(t)
                                \/ AcceptCancelled(t)
      PROVE  DialInv'
  <2>1. UNCHANGED <<dials, connected>>
    BY <1>3, Zenon DEF CallListen, ListenBind, DialFail, DialCount, CallAccept, AcceptCheck,
                AcceptResult, AcceptCancelled
  <2>2. \E l \in {"idle", "listen_bind"} \cup AcceptPC : \E n : Moved(t, l, n)
    BY <1>3, Moving, Labels, Zenon
  <2> QED
    BY <1>1, <2>1, <2>2, Labels, Zenon
<1>4. ASSUME NEW t \in Threads, NEW a \in Addrs, CallDial(t, a)
      PROVE  DialInv'
  <2>1. /\ dials \in Nat /\ dials' = dials + 1 /\ connected' = connected
        /\ Moved(t, "dial_check", dials + 1)
    BY <1>4, Moving, BoundsAssumption DEF CallDial, Typed
  <2>2. /\ dials' \in 1 .. dials' /\ dials' \notin 1 .. dials
        /\ \A i \in 1 .. dials : i \in 1 .. dials'
    BY <2>1
  <2>3. call'[t].pc \in Connecting /\ call'[t].id = dials'
    BY <2>1, DialLabels, Zenon DEF Moved
  <2>4. \A u \in Threads : u # t => call'[u] = call[u]
    BY <2>1, Zenon DEF Moved
  <2> QED
    BY <2>1, <2>2, <2>3, <2>4, DialLabels, SMTT(30) DEF DialInv
<1>5. ASSUME NEW t \in Threads, DialCheck(t)
      PROVE  DialInv'
  <2>1. UNCHANGED <<dials, connected>> /\ call[t].pc \in Connecting
    BY <1>5, DialLabels, Zenon DEF DialCheck, At
  <2>2. CASE Moved(t, "idle", None)
    BY <1>1, <2>1, <2>2, Labels, Zenon
  <2>3. CASE Moved(t, "dial_connect", call[t].id)
    BY <2>1, <2>3, DialLabels DEF DialInv, Moved
  <2> QED
    BY <1>5, <2>2, <2>3, Moving, Zenon
<1>6. ASSUME NEW t \in Threads, DialConnect(t)
      PROVE  DialInv'
  <2>1. /\ dials' = dials /\ connected' = connected \cup {call[t].id}
        /\ call[t].pc \in Connecting
    BY <1>6, DialLabels, Zenon DEF DialConnect, At
  <2>2. Moved(t, "dial_register", call[t].id)
    BY <1>6, Moving, Zenon
  <2>3. call[t].id \in 1 .. dials
    BY <2>1, DialLabels, Zenon DEF DialInv
  <2>4. \A u \in Threads : u # t /\ call[u].pc \in DialPC => call[u].id # call[t].id
    BY <2>1, DialLabels DEF DialInv
  <2>5. /\ call'[t].pc \in Connected /\ call'[t].id = call[t].id
        /\ \A u \in Threads : u # t => call'[u] = call[u]
    BY <2>2, DialLabels DEF Moved
  <2>6. connected' \subseteq 1 .. dials'
    BY <2>1, <2>3, Zenon DEF DialInv
  <2> QED
    BY <2>1, <2>3, <2>4, <2>5, <2>6, DialLabels DEF DialInv
<1>7. ASSUME NEW t \in Threads, DialRegister(t)
      PROVE  DialInv'
  <2>1. UNCHANGED <<dials, connected>> /\ call[t].pc \in Connected
    BY <1>7, DialLabels, Zenon DEF DialRegister, At
  <2>2. Moved(t, "dial_count", call[t].id)
    BY <1>7, Moving, Zenon
  <2> QED
    BY <2>1, <2>2, DialLabels DEF DialInv, Moved
<1>8. ASSUME NEW t \in Threads, NEW c, \/ Close(t) \/ CloseListener(t)
                                        \/ CloseConn(t, c) \/ CloseAccepted(t, c)
      PROVE  DialInv'
  BY <1>2, <1>8, Zenon DEF Close, CloseListener, CloseConn, CloseAccepted
<1>9. ASSUME NEW h, HelperAccept(h) \/ HelperFail(h)
      PROVE  DialInv'
  BY <1>2, <1>9, Zenon DEF HelperAccept, HelperFail
<1>10. CASE UNCHANGED vars
  BY <1>2, <1>10, Zenon DEF vars
<1> QED
  BY <1>3, <1>4, <1>5, <1>6, <1>7, <1>8, <1>9, <1>10, Zenon
  DEF Next, Step, HelperStep, HelperClosed

Pending == {call[t].id : t \in {u \in Threads : call[u].pc \in Connected}}

\* activeConns lags behind the connections by the Dials about to count theirs.
CountInv == activeConns = Cardinality(connected \ Pending)

LEMMA CountStep == Typed /\ DialInv /\ CountInv /\ [Next]_vars => CountInv'
<1> SUFFICES ASSUME Typed, DialInv, CountInv, [Next]_vars
             PROVE  CountInv'
  BY Zenon
<1> USE DEF transportVars, listenerVars, dialHist, acceptHist
<1>1. ASSUME NEW t \in Threads, NEW l, NEW n, Moved(t, l, n),
             l \notin Connected, call[t].pc \notin Connected,
             UNCHANGED <<activeConns, connected>>
      PROVE  CountInv'
  <2>1. Pending' = Pending
    BY <1>1, Zenon DEF Pending, Moved
  <2> QED
    BY <1>1, <2>1, Zenon DEF CountInv
<1>2. ASSUME UNCHANGED <<call, activeConns, connected>>
      PROVE  CountInv'
  BY <1>2, Zenon DEF CountInv, Pending
<1>3. ASSUME NEW t \in Threads, \/ CallListen(t) \/ ListenBind(t) \/ DialCheck(t) \/ DialFail(t)
                                \/ CallAccept(t) \/ AcceptCheck(t) \/ AcceptResult(t)
                                \/ AcceptCancelled(t) \/ \E a \in Addrs : CallDial(t, a)
      PROVE  CountInv'
  <2>1. UNCHANGED <<activeConns, connected>>
    BY <1>3, Zenon DEF CallListen, ListenBind, DialCheck, DialFail, CallAccept, AcceptCheck,
                AcceptResult, AcceptCancelled, CallDial
  <2>2. \E l \in {"idle", "listen_bind"} \cup AcceptPC \cup Connecting : \E n : Moved(t, l, n)
    BY <1>3, Moving, Labels, DialLabels, Zenon
  <2>3. call[t].pc \in {"idle", "listen_bind"} \cup AcceptPC \cup Connecting
    BY <1>3, Moving, Labels, DialLabels, Zenon DEF At
  <2> QED
    BY <1>1, <2>1, <2>2, <2>3, Labels, DialLabels, Zenon
<1>4. ASSUME NEW t \in Threads, DialConnect(t)
      PROVE  CountInv'
  <2>1. /\ activeConns' = activeConns /\ connected' = connected \cup {call[t].id}
        /\ call[t].pc \in Connecting
    BY <1>4, DialLabels, Zenon DEF DialConnect, At
  <2>2. Moved(t, "dial_register", call[t].id)
    BY <1>4, Moving, Zenon
  <2>3. call[t].pc \notin Connected /\ call'[t].pc \in Connected /\ call'[t].id = call[t].id
    BY <2>1, <2>2, DialLabels, Zenon DEF Moved
  <2>4. Pending' = Pending \cup {call[t].id}
    BY <2>2, <2>3, Zenon DEF Pending, Moved
  <2>5. call[t].id \notin connected
    BY <2>1, Zenon DEF DialInv
  <2>6. connected' \ Pending' = connected \ Pending
    BY <2>1, <2>4, <2>5, Zenon
  <2> QED
    BY <2>1, <2>6, Zenon DEF CountInv
<1>5. ASSUME NEW t \in Threads, DialRegister(t)
      PROVE  CountInv'
  <2>1. UNCHANGED <<activeConns, connected>> /\ call[t].pc \in Connected
    BY <1>5, DialLabels, Zenon DEF DialRegister, At
  <2>2. Moved(t, "dial_count", call[t].id)
    BY <1>5, Moving, Zenon
  <2>3. call'[t].pc \in Connected /\ call'[t].id = call[t].id
    BY <2>2, DialLabels, Zenon DEF Moved
  <2>4. Pending' = Pending
    BY <2>1, <2>2, <2>3, Zenon DEF Pending, Moved
  <2> QED
    BY <2>1, <2>4, Zenon DEF CountInv
<1>6. ASSUME NEW t \in Threads, DialCount(t)
      PROVE  CountInv'
  <2> DEFINE c == call[t].id
  <2>1. activeConns' = activeConns + 1 /\ connected' = connected /\ call[t].pc \in Connected
    BY <1>6, DialLabels, Zenon DEF DialCount, At
  <2>2. Moved(t, "idle", None)
    BY <1>6, Moving, Zenon
  <2>3. c \in connected /\ c \in Pending
    BY <2>1, Zenon DEF DialInv, Pending
  <2>4. Pending' = Pending \ {c}
    <3>1. \A u \in Threads : u # t /\ call[u].pc \in Connected => call[u].id # c
      BY <2>1, DialLabels, Zenon DEF DialInv
    <3>2. call'[t].pc \notin Connected
      BY <2>2, Labels, DialLabels, Zenon DEF Moved
    <3> QED
      BY <2>1, <2>2, <3>1, <3>2, Zenon DEF Pending, Moved
  <2>5. connected' \ Pending' = (connected \ Pending) \cup {c}
    BY <2>1, <2>3, <2>4, Zenon
  <2>6. IsFiniteSet(connected \ Pending)
    <3>1. IsFiniteSet(Conns)
      BY BoundsAssumption, FS_Interval DEF Conns
    <3>2. connected \ Pending \subseteq Conns
      BY Zenon DEF Typed
    <3> QED
      BY <3>1, <3>2, FS_Subset, Zenon
  <2>7. Cardinality((connected \ Pending) \cup {c}) = Cardinality(connected \ Pending) + 1
    BY <2>3, <2>6, FS_AddElement, Zenon
  <2> QED
    BY <2>1, <2>5, <2>7, Zenon DEF CountInv
<1>7. ASSUME NEW t \in Threads, NEW c, \/ Close(t) \/ CloseListener(t)
                                        \/ CloseConn(t, c) \/ CloseAccepted(t, c)
      PROVE  CountInv'
  BY <1>2, <1>7, Zenon DEF Close, CloseListener, CloseConn, CloseAccepted
<1>8. ASSUME NEW h, HelperAccept(h) \/ HelperFail(h)
      PROVE  CountInv'
  BY <1>2, <1>8, Zenon DEF HelperAccept, HelperFail
<1>9. CASE UNCHANGED vars
  BY <1>2, <1>9, Zenon DEF vars
<1> QED
  BY <1>3, <1>4, <1>5, <1>6, <1>7, <1>8, <1>9, Zenon DEF Next, Step, HelperStep, HelperClosed

-----------------------------------------------------------------------------
(* Accept: a helper belongs to one call, until that is cancelled.          *)

Waits(t, h) == call[t].pc = "accept_wait" /\ call[t].id = h

AcceptInv ==
    /\ \A t \in Threads :
          /\ call[t].pc \in AcceptPC => call[t].id \in 1 .. accepts
          /\ call[t].pc = "accept_check" => helper[call[t].id] = "none"
    /\ \A t, u \in Threads :
          /\ call[t].pc \in AcceptPC /\ call[u].pc \in AcceptPC
          /\ call[t].id = call[u].id
          => t = u
    /\ \A h \in Helpers : helper[h] # "none" =>
          /\ h \in 1 .. accepts
          /\ h \in cancelled \/ \E t \in Threads : Waits(t, h)

LEMMA AcceptStep == Typed /\ AcceptInv /\ [Next]_vars => AcceptInv'
<1> SUFFICES ASSUME Typed, AcceptInv, [Next]_vars
             PROVE  AcceptInv'
  OBVIOUS
<1> USE DEF transportVars, listenerVars, dialHist, acceptHist
<1>1. ASSUME NEW t \in Threads, NEW l, NEW n, Moved(t, l, n),
             l \notin AcceptPC, call[t].pc \notin AcceptPC,
             UNCHANGED <<accepts, helper, cancelled>>
      PROVE  AcceptInv'
  <2>1. \A u \in Threads : call'[u].pc \in AcceptPC => u # t /\ call'[u] = call[u]
    BY <1>1, Zenon DEF Moved
  <2>2. \A u \in Threads, h \in Helpers : Waits(u, h) => Waits(u, h)'
    BY <1>1, Labels, Zenon DEF Moved, Waits
  <2> QED
    BY <1>1, <2>1, <2>2, Labels, Zenon DEF AcceptInv
<1>2. ASSUME UNCHANGED <<call, accepts, helper, cancelled>>
      PROVE  AcceptInv'
  BY <1>2, Zenon DEF AcceptInv, Waits
<1>3. ASSUME NEW t \in Threads, \/ CallListen(t) \/ ListenBind(t) \/ DialCheck(t) \/ DialFail(t)
                                \/ DialConnect(t) \/ DialRegister(t) \/ DialCount(t)
                                \/ \E a \in Addrs : CallDial(t, a)
      PROVE  AcceptInv'
  <2>1. UNCHANGED <<accepts, helper, cancelled>>
    BY <1>3, Zenon DEF CallListen, ListenBind, DialCheck, DialFail, DialConnect, DialRegister,
                DialCount, CallDial
  <2>2. \E l \in {"idle", "listen_bind"} \cup DialPC : \E n : Moved(t, l, n)
    BY <1>3, Moving, Labels, Zenon
  <2>3. call[t].pc \in {"idle", "listen_bind"} \cup DialPC
    BY <1>3, Moving, Labels, Zenon DEF At
  <2> QED
    BY <1>1, <2>1, <2>2, <2>3, Labels, Zenon
<1>4. ASSUME NEW t \in Threads, CallAccept(t)
      PROVE  AcceptInv'
  <2>1. /\ accepts \in Nat /\ accepts' = accepts + 1 /\ UNCHANGED <<helper, cancelled>>
        /\ At(t, "idle") /\ Moved(t, "accept_check", accepts + 1) /\ accepts' \in Helpers
    BY <1>4, Moving, BoundsAssumption DEF CallAccept, Typed, Helpers
  <2>2. /\ accepts' \in 1 .. accepts' /\ accepts' \notin 1 .. accepts
        /\ \A i \in 1 .. accepts : i \in 1 .. accepts'
    BY <2>1
  <2>3. helper[accepts'] = "none"
    BY <2>1, <2>2, Zenon DEF AcceptInv
  <2>4. call'[t].pc = "accept_check" /\ call'[t].id = accepts'
    BY <2>1, Zenon DEF Moved
  <2>5. \A u \in Threads : u # t => call'[u] = call[u]
    BY <2>1, Zenon DEF Moved
  <2>6. \A u \in Threads, h \in Helpers : Waits(u, h) => Waits(u, h)'
    BY <2>1, <2>5, Zenon DEF Waits, At
  <2> QED
    BY <2>1, <2>2, <2>3, <2>4, <2>5, <2>6, Labels, SMTT(30) DEF AcceptInv
<1>5. ASSUME NEW t \in Threads, AcceptCheck(t)
      PROVE  AcceptInv'
  <2>1. UNCHANGED <<accepts, cancelled>> /\ call[t].pc = "accept_check"
    BY <1>5, Zenon DEF AcceptCheck, At
  <2>2. \A u \in Threads, h \in Helpers :
            (\E l, n : Moved(t, l, n)) /\ Waits(u, h) => Waits(u, h)'
    BY <2>1, Zenon DEF Waits, Moved
  <2>3. CASE Moved(t, "idle", None) /\ helper' = helper
    <3>1. \A u \in Threads : call'[u].pc \in AcceptPC => u # t /\ call'[u] = call[u]
      BY <2>3, Labels, Zenon DEF Moved
    <3> QED
      BY <2>1, <2>2, <2>3, <3>1, Labels, Zenon DEF AcceptInv
  <2>4. CASE /\ Moved(t, "accept_wait", call[t].id)
             /\ helper' = [helper EXCEPT ![call[t].id] = "accepting"]
    <3>1. /\ call'[t].pc = "accept_wait" /\ call'[t].id = call[t].id
          /\ \A u \in Threads : u # t => call'[u] = call[u]
      BY <2>4, Zenon DEF Moved
    <3>2. call[t].id \in Helpers /\ call[t].id \in 1 .. accepts
      BY <2>1, Labels, Zenon DEF Typed, AcceptInv
    <3>3. \A h \in Helpers : h = call[t].id => Waits(t, h)'
      BY <3>1, Zenon DEF Waits
    <3>4. \A h \in Helpers : h # call[t].id => helper'[h] = helper[h]
      BY <2>4, Zenon DEF Typed
    <3>5. \A u \in Threads : u # t /\ call[u].pc = "accept_check" =>
             call[u].id \in Helpers /\ call[u].id # call[t].id
      BY <2>1, Labels, Zenon DEF AcceptInv, Typed
    <3>6. \A u \in Threads : call'[u].pc = "accept_check" => helper'[call'[u].id] = "none"
      BY <3>1, <3>4, <3>5 DEF AcceptInv
    <3>7. \A h \in Helpers : helper'[h] # "none" =>
             /\ h \in 1 .. accepts
             /\ h \in cancelled \/ \E u \in Threads : Waits(u, h)'
      <4>1. \A u \in Threads, h \in Helpers : Waits(u, h) => Waits(u, h)'
        BY <2>2, <2>4, Zenon
      <4>2. ASSUME NEW h \in Helpers, helper'[h] # "none", h # call[t].id
            PROVE  /\ h \in 1 .. accepts
                   /\ h \in cancelled \/ \E u \in Threads : Waits(u, h)
        BY <3>4, <4>2, Zenon DEF AcceptInv
      <4> QED
        BY <3>2, <3>3, <4>1, <4>2, Zenon
    <3> QED
      BY <2>1, <3>1, <3>2, <3>6, <3>7, Labels DEF AcceptInv
  <2> QED
    BY <1>5, <2>3, <2>4, Moving, Zenon
<1>6. ASSUME NEW t \in Threads, AcceptResult(t) \/ AcceptCancelled(t)
      PROVE  AcceptInv'
  <2>1. /\ accepts' = accepts /\ call[t].pc = "accept_wait" /\ call[t].id \in Helpers
        /\ Moved(t, "idle", None)
    BY <1>6, Moving, Labels, Zenon DEF AcceptResult, AcceptCancelled, At, Typed
  <2>2. \A u \in Threads : call'[u].pc \in AcceptPC => u # t /\ call'[u] = call[u]
    BY <2>1, Labels, Zenon DEF Moved
  <2>3. \A u \in Threads, h \in Helpers : Waits(u, h) /\ h # call[t].id => Waits(u, h)'
    BY <2>1, Zenon DEF Waits, Moved
  <2>4. \/ helper' = [helper EXCEPT ![call[t].id] = "none"] /\ cancelled' = cancelled
        \/ helper' = helper /\ cancelled' = cancelled \cup {call[t].id}
    BY <1>6, Zenon DEF AcceptResult, AcceptCancelled
  <2>5. \A h \in Helpers : helper'[h] # "none" =>
           /\ helper[h] # "none"
           /\ h # call[t].id \/ h \in cancelled'
    BY <2>1, <2>4, Zenon DEF Typed
  <2>6. \A h \in Helpers : helper[h] = "none" => helper'[h] = "none"
    BY <2>1, <2>4, Zenon DEF Typed
  <2>7. cancelled \subseteq cancelled'
    BY <2>4, Zenon
  <2>8. \A u \in Threads : call'[u].pc = "accept_check" => helper'[call'[u].id] = "none"
    BY <2>2, <2>6, Labels, Zenon DEF AcceptInv, Typed
  <2>9. \A h \in Helpers : helper'[h] # "none" =>
           /\ h \in 1 .. accepts
           /\ h \in cancelled' \/ \E u \in Threads : Waits(u, h)'
    BY <2>3, <2>5, <2>7, Zenon DEF AcceptInv
  <2> QED
    BY <2>1, <2>2, <2>8, <2>9, Zenon DEF AcceptInv
<1>7. ASSUME NEW t \in Threads, NEW c, \/ Close(t) \/ CloseListener(t)
                                        \/ CloseConn(t, c) \/ CloseAccepted(t, c)
      PROVE  AcceptInv'
  BY <1>2, <1>7, Zenon DEF Close, CloseListener, CloseConn, CloseAccepted
<1>8. ASSUME NEW h \in Helpers, HelperAccept(h) \/ HelperFail(h)
      PROVE  AcceptInv'
  <2>1. UNCHANGED <<call, accepts, cancelled>> /\ helper[h] = "accepting"
    BY <1>8, Zenon DEF HelperAccept, HelperFail
  <2>2. \A g \in Helpers : helper'[g] # "none" <=> helper[g] # "none"
    BY <1>8, Zenon DEF HelperAccept, HelperFail, Typed
  <2>3. \A u \in Threads : call[u].pc = "accept_check" => call[u].id \in Helpers
    BY Labels, Zenon DEF Typed
  <2> QED
    BY <2>1, <2>2, <2>3, Zenon DEF AcceptInv, Waits
<1>9. CASE UNCHANGED vars
  BY <1>2, <1>9, Zenon DEF vars
<1> QED
  BY <1>3, <1>4, <1>5, <1>6, <1>7, <1>8, <1>9, Zenon DEF Next, Step, HelperStep, HelperClosed

-----------------------------------------------------------------------------
(* Where the connections are: each is in one place.                        *)

InChannels == {connChan[h] : h \in Ready}

SpreadInv ==
    /\ connected = Range(backlog) \cup Range(accepted) \cup reset \cup InChannels
    /\ IsInjective(backlog) /\ IsInjective(accepted)
    /\ \A c \in Range(backlog) : c \notin Range(accepted)
    /\ \A h \in Ready : /\ connChan[h] \notin Range(backlog)
                        /\ connChan[h] \notin Range(accepted)
    /\ \A g, h \in Ready : connChan[g] = connChan[h] => g = h

LEMMA SpreadStep ==
    Typed /\ DialInv /\ AcceptInv /\ SpreadInv /\ [Next]_vars => SpreadInv'
<1> SUFFICES ASSUME Typed, DialInv, AcceptInv, SpreadInv, [Next]_vars
             PROVE  SpreadInv'
  BY Zenon
<1> USE DEF transportVars, listenerVars, dialHist, acceptHist
<1>1. ASSUME UNCHANGED <<connected, backlog, accepted, reset, connChan>>, Ready' = Ready
      PROVE  SpreadInv'
  BY <1>1, Zenon DEF SpreadInv, InChannels
<1>2. ASSUME NEW t \in Threads, \/ CallListen(t) \/ ListenBind(t) \/ DialCheck(t) \/ DialFail(t)
                                \/ DialRegister(t) \/ DialCount(t) \/ CallAccept(t)
                                \/ AcceptCancelled(t) \/ Close(t)
      PROVE  SpreadInv'
  BY <1>1, <1>2, Zenon DEF CallListen, ListenBind, DialCheck, DialFail, DialRegister, DialCount,
                    CallAccept, AcceptCancelled, Close, Ready
<1>3. ASSUME NEW t \in Threads, NEW x, CallDial(t, x) \/ CloseConn(t, x) \/ CloseAccepted(t, x)
      PROVE  SpreadInv'
  BY <1>1, <1>3, Zenon DEF CallDial, CloseConn, CloseAccepted, Ready
<1>4. ASSUME NEW t \in Threads, DialConnect(t)
      PROVE  SpreadInv'
  <2> DEFINE c == call[t].id
  <2>1. /\ backlog' = Append(backlog, c) /\ connected' = connected \cup {c}
        /\ UNCHANGED <<accepted, reset, connChan, helper>>
        /\ call[t].pc = "dial_connect"
    BY <1>4, Zenon DEF DialConnect, At
  <2>2. c \in Conns /\ c \notin connected
    BY <2>1, Labels, DialLabels DEF Typed, DialInv
  <2>3. /\ c \notin Range(backlog) /\ c \notin Range(accepted) /\ c \notin InChannels
    BY <2>2, ZenonT(30) DEF SpreadInv
  <2>4. Range(backlog') = Range(backlog) \cup {c} /\ IsInjective(backlog')
    BY <2>1, <2>2, <2>3, Appended, AppendDistinct DEF Typed, SpreadInv
  <2>5. Ready' = Ready /\ InChannels' = InChannels
    BY <2>1, Zenon DEF Ready, InChannels
  <2>6. \A h \in Ready : connChan[h] # c
    BY <2>3, Zenon DEF InChannels
  <2> QED
    BY <2>1, <2>3, <2>4, <2>5, <2>6, Zenon DEF SpreadInv
<1>5. ASSUME NEW t \in Threads, AcceptCheck(t)
      PROVE  SpreadInv'
  <2>1. /\ UNCHANGED <<connected, backlog, accepted, reset, connChan>>
        /\ call[t].pc = "accept_check"
    BY <1>5, Zenon DEF AcceptCheck, At
  <2>2. call[t].id \in Helpers /\ helper[call[t].id] = "none"
    BY <2>1, Labels, Zenon DEF Typed, AcceptInv
  <2>3. helper' = helper \/ helper' = [helper EXCEPT ![call[t].id] = "accepting"]
    BY <1>5, Moving, Zenon
  <2>4. Ready' = Ready
    BY <2>2, <2>3, Zenon DEF Ready, Typed
  <2> QED
    BY <1>1, <2>1, <2>4, Zenon
<1>6. ASSUME NEW h \in Helpers, HelperAccept(h)
      PROVE  SpreadInv'
  <2> DEFINE c == Head(backlog)
  <2>1. /\ backlog # <<>> /\ backlog' = Tail(backlog)
        /\ connChan' = [connChan EXCEPT ![h] = c]
        /\ helper' = [helper EXCEPT ![h] = "ready"] /\ helper[h] = "accepting"
        /\ UNCHANGED <<connected, accepted, reset>>
    BY <1>6, Zenon DEF HelperAccept
  <2>2. /\ Range(backlog) = Range(backlog') \cup {c}
        /\ IsInjective(backlog') /\ c \notin Range(backlog')
    BY <2>1, HeadTaken, TailDistinct, Zenon DEF Typed, SpreadInv
  <2>3. Ready' = Ready \cup {h} /\ h \notin Ready
    BY <2>1, Zenon DEF Ready, Typed
  <2>4. connChan'[h] = c /\ \A g \in Ready : connChan'[g] = connChan[g]
    BY <2>1, <2>3, Zenon DEF Typed, Ready
  <2>5. InChannels' = InChannels \cup {c}
    BY <2>3, <2>4, Zenon DEF InChannels
  <2>6. c \notin Range(accepted) /\ \A g \in Ready : connChan[g] # c
    BY <2>2, Zenon DEF SpreadInv
  <2>7. connected' = Range(backlog') \cup Range(accepted') \cup reset' \cup InChannels'
    BY <2>1, <2>2, <2>5, Zenon DEF SpreadInv
  <2>8. \A g \in Ready' : /\ connChan'[g] \notin Range(backlog')
                          /\ connChan'[g] \notin Range(accepted')
    BY <2>1, <2>2, <2>3, <2>4, <2>6, Zenon DEF SpreadInv
  <2>9. \A g, k \in Ready' : connChan'[g] = connChan'[k] => g = k
    BY <2>3, <2>4, <2>6 DEF SpreadInv
  <2>10. IsInjective(accepted') /\ \A d \in Range(backlog') : d \notin Range(accepted')
    BY <2>1, <2>2, Zenon DEF SpreadInv
  <2> QED
    BY <2>2, <2>7, <2>8, <2>9, <2>10, Zenon DEF SpreadInv
<1>7. ASSUME NEW h \in Helpers, HelperFail(h)
      PROVE  SpreadInv'
  <2>1. /\ UNCHANGED <<connected, backlog, accepted, reset, connChan>>
        /\ helper[h] = "accepting" /\ helper' = [helper EXCEPT ![h] = "failed"]
    BY <1>7, Zenon DEF HelperFail
  <2>2. Ready' = Ready
    BY <2>1, Zenon DEF Ready, Typed
  <2> QED
    BY <1>1, <2>1, <2>2, Zenon
<1>8. ASSUME NEW t \in Threads, AcceptResult(t)
      PROVE  SpreadInv'
  <2> DEFINE h == call[t].id
             c == connChan[h]
  <2>1. /\ UNCHANGED <<connected, backlog, reset, connChan>>
        /\ helper' = [helper EXCEPT ![h] = "none"]
        /\ accepted' = IF helper[h] = "ready" THEN Append(accepted, c) ELSE accepted
        /\ h \in Helpers
    BY <1>8, Labels, Zenon DEF AcceptResult, At, Typed
  <2>2. Ready' = Ready \ {h}
    BY <2>1, Zenon DEF Ready, Typed
  <2>3. CASE helper[h] # "ready"
    <3>1. Ready' = Ready
      BY <2>2, <2>3, Zenon DEF Ready
    <3> QED
      BY <1>1, <2>1, <2>3, <3>1, Zenon
  <2>4. CASE helper[h] = "ready"
    <3>1. h \in Ready /\ c \in Conns /\ accepted' = Append(accepted, c)
      BY <2>1, <2>4, Zenon DEF Ready, Typed
    <3>2. c \notin Range(backlog) /\ c \notin Range(accepted)
      BY <3>1, Zenon DEF SpreadInv
    <3>3. Range(accepted') = Range(accepted) \cup {c} /\ IsInjective(accepted')
      BY <3>1, <3>2, Appended, AppendDistinct DEF Typed, SpreadInv
    <3>4. \A g \in Ready' : g \in Ready /\ connChan'[g] = connChan[g] /\ connChan[g] # c
      BY <2>1, <2>2, <3>1, Zenon DEF SpreadInv
    <3>5. InChannels' \cup {c} = InChannels
      BY <2>1, <2>2, <3>1, Zenon DEF InChannels
    <3>6. connected' = Range(backlog') \cup Range(accepted') \cup reset' \cup InChannels'
      BY <2>1, <3>3, <3>5, Zenon DEF SpreadInv
    <3> QED
      BY <2>1, <3>2, <3>3, <3>4, <3>6, Zenon DEF SpreadInv
  <2> QED
    BY <2>3, <2>4, Zenon
<1>9. ASSUME NEW t \in Threads, CloseListener(t)
      PROVE  SpreadInv'
  <2>1. /\ UNCHANGED <<connected, accepted, helper, connChan>>
        /\ reset' = reset \cup Range(backlog) /\ backlog' = <<>>
    BY <1>9, Zenon DEF CloseListener
  <2>2. Range(backlog') = {} /\ IsInjective(backlog')
    BY <2>1 DEF Range, IsInjective
  <2>3. Ready' = Ready /\ InChannels' = InChannels
    BY <2>1, Zenon DEF Ready, InChannels
  <2> QED
    BY <2>1, <2>2, <2>3, Zenon DEF SpreadInv
<1>10. CASE UNCHANGED vars
  BY <1>1, <1>10, Zenon DEF vars, Ready
<1> QED
  BY <1>2, <1>3, <1>4, <1>5, <1>6, <1>7, <1>8, <1>9, <1>10, Zenon
  DEF Next, Step, HelperStep, HelperClosed

\* What accept(2) has taken is in the hands of a caller of Accept or in the
\* channel of a helper.
Taken == Range(accepted) \cup InChannels
TakenInv == acceptedOpen \subseteq Taken

LEMMA TakenStep == Typed /\ AcceptInv /\ TakenInv /\ [Next]_vars => TakenInv'
<1> SUFFICES ASSUME Typed, AcceptInv, TakenInv, [Next]_vars
             PROVE  TakenInv'
  BY Zenon
<1> USE DEF transportVars, listenerVars, dialHist, acceptHist
<1>1. ASSUME acceptedOpen' \subseteq acceptedOpen, UNCHANGED <<accepted, connChan>>, Ready' = Ready
      PROVE  TakenInv'
  BY <1>1, Zenon DEF TakenInv, Taken, InChannels
<1>2. ASSUME NEW t \in Threads, \/ CallListen(t) \/ ListenBind(t) \/ DialCheck(t) \/ DialFail(t)
                                \/ DialConnect(t) \/ DialRegister(t) \/ DialCount(t)
                                \/ CallAccept(t) \/ AcceptCancelled(t)
      PROVE  TakenInv'
  BY <1>1, <1>2, Zenon DEF CallListen, ListenBind, DialCheck, DialFail, DialConnect,
                    DialRegister, DialCount, CallAccept, AcceptCancelled, Ready
<1>3. ASSUME NEW t \in Threads, NEW x, \/ CallDial(t, x) \/ CloseConn(t, x) \/ CloseAccepted(t, x)
                                       \/ Close(t) \/ CloseListener(t)
      PROVE  TakenInv'
  BY <1>1, <1>3, Zenon DEF CallDial, CloseConn, CloseAccepted, Close, CloseListener, Ready
<1>4. ASSUME NEW t \in Threads, AcceptCheck(t)
      PROVE  TakenInv'
  <2>1. UNCHANGED <<acceptedOpen, accepted, connChan>> /\ call[t].pc = "accept_check"
    BY <1>4, Zenon DEF AcceptCheck, At
  <2>2. call[t].id \in Helpers /\ helper[call[t].id] = "none"
    BY <2>1, Labels, Zenon DEF Typed, AcceptInv
  <2>3. helper' = helper \/ helper' = [helper EXCEPT ![call[t].id] = "accepting"]
    BY <1>4, Moving, Zenon
  <2>4. Ready' = Ready
    BY <2>2, <2>3, Zenon DEF Ready, Typed
  <2> QED
    BY <1>1, <2>1, <2>4, Zenon
<1>5. ASSUME NEW h \in Helpers, HelperAccept(h)
      PROVE  TakenInv'
  <2>1. /\ connChan' = [connChan EXCEPT ![h] = Head(backlog)]
        /\ helper' = [helper EXCEPT ![h] = "ready"] /\ helper[h] = "accepting"
        /\ acceptedOpen' = acceptedOpen \cup {Head(backlog)} /\ accepted' = accepted
    BY <1>5, Zenon DEF HelperAccept
  <2>2. Ready' = Ready \cup {h} /\ h \notin Ready
    BY <2>1, Zenon DEF Ready, Typed
  <2>3. connChan'[h] = Head(backlog) /\ \A g \in Ready : connChan'[g] = connChan[g]
    BY <2>1, <2>2, Zenon DEF Typed, Ready
  <2>4. InChannels' = InChannels \cup {Head(backlog)}
    BY <2>2, <2>3, Zenon DEF InChannels
  <2> QED
    BY <2>1, <2>4, Zenon DEF TakenInv, Taken
<1>6. ASSUME NEW h \in Helpers, HelperFail(h)
      PROVE  TakenInv'
  <2>1. /\ UNCHANGED <<acceptedOpen, accepted, connChan>>
        /\ helper[h] = "accepting" /\ helper' = [helper EXCEPT ![h] = "failed"]
    BY <1>6, Zenon DEF HelperFail
  <2>2. Ready' = Ready
    BY <2>1, Zenon DEF Ready, Typed
  <2> QED
    BY <1>1, <2>1, <2>2, Zenon
<1>7. ASSUME NEW t \in Threads, AcceptResult(t)
      PROVE  TakenInv'
  <2> DEFINE h == call[t].id
  <2>1. /\ UNCHANGED <<acceptedOpen, connChan>>
        /\ helper' = [helper EXCEPT ![h] = "none"]
        /\ accepted' = IF helper[h] = "ready" THEN Append(accepted, connChan[h]) ELSE accepted
        /\ h \in Helpers
    BY <1>7, Labels, Zenon DEF AcceptResult, At, Typed
  <2>2. Ready' = Ready \ {h}
    BY <2>1, Zenon DEF Ready, Typed
  <2>3. CASE h \notin Ready
    <3>1. Ready' = Ready /\ accepted' = accepted
      BY <2>1, <2>2, <2>3, Zenon DEF Ready
    <3> QED
      BY <1>1, <2>1, <3>1, Zenon
  <2>4. CASE h \in Ready
    <3>1. accepted' = Append(accepted, connChan[h]) /\ connChan[h] \in Conns
      BY <2>1, <2>4, Zenon DEF Ready, Typed
    <3>2. Range(accepted') = Range(accepted) \cup {connChan[h]}
      BY <3>1, Appended DEF Typed
    <3>3. InChannels \subseteq InChannels' \cup {connChan[h]}
      BY <2>1, <2>2, Zenon DEF InChannels
    <3> QED
      BY <2>1, <3>2, <3>3, Zenon DEF TakenInv, Taken
  <2> QED
    BY <2>3, <2>4, Zenon
<1>8. CASE UNCHANGED vars
  BY <1>1, <1>8, Zenon DEF vars, Ready
<1> QED
  BY <1>2, <1>3, <1>4, <1>5, <1>6, <1>7, <1>8, Zenon DEF Next, Step, HelperStep, HelperClosed

-----------------------------------------------------------------------------
(* Close of the transport.                                                 *)

Registering == {call[t].id : t \in {u \in Threads : At(u, "dial_register")}}
Entries == {connections[a] : a \in Addrs}

\* What is open has an entry, unless it has lost it or not got it yet; the
\* entries made after Close are those of late.
OpenInv ==
    /\ open \subseteq replaced \cup late \cup Registering \cup Entries
    /\ closed => Entries \subseteq late \cup {None}

LEMMA OpenStep == Typed /\ OpenInv /\ [Next]_vars => OpenInv'
<1> SUFFICES ASSUME Typed, OpenInv, [Next]_vars
             PROVE  OpenInv'
  OBVIOUS
<1> USE DEF transportVars, listenerVars, dialHist, acceptHist
<1>1. ASSUME UNCHANGED <<open, replaced, late, connections, closed>>,
             Registering \subseteq Registering'
      PROVE  OpenInv'
  BY <1>1, Zenon DEF OpenInv, Entries
<1>2. ASSUME NEW t \in Threads, NEW l, NEW n, Moved(t, l, n), ~At(t, "dial_register")
      PROVE  Registering \subseteq Registering'
  BY <1>2, Zenon DEF Registering, Moved, At
<1>3. ASSUME NEW t \in Threads, \/ CallListen(t) \/ ListenBind(t) \/ DialCheck(t) \/ DialFail(t)
                                \/ DialCount(t) \/ CallAccept(t) \/ AcceptCheck(t)
                                \/ AcceptResult(t) \/ AcceptCancelled(t)
                                \/ \E a \in Addrs : CallDial(t, a)
      PROVE  OpenInv'
  <2>1. UNCHANGED <<open, replaced, late, connections, closed>>
    BY <1>3, Zenon DEF CallListen, ListenBind, DialCheck, DialFail, DialCount, CallAccept,
                AcceptCheck, AcceptResult, AcceptCancelled, CallDial
  <2>2. \E l, n : Moved(t, l, n)
    BY <1>3, Moving, Zenon
  <2>3. ~At(t, "dial_register")
    BY <1>3, Moving, Zenon DEF At
  <2> QED
    BY <1>1, <1>2, <2>1, <2>2, <2>3, Zenon
<1>4. ASSUME NEW t \in Threads, DialConnect(t)
      PROVE  OpenInv'
  <2>1. /\ open' = open \cup {call[t].id} /\ UNCHANGED <<replaced, late, connections, closed>>
        /\ At(t, "dial_connect")
    BY <1>4, Zenon DEF DialConnect
  <2>2. Moved(t, "dial_register", call[t].id)
    BY <1>4, Moving
  <2>3. Registering \subseteq Registering'
    BY <1>2, <2>1, <2>2, Zenon DEF At
  <2>4. call[t].id \in Registering'
    BY <2>2, Zenon DEF Registering, Moved, At
  <2> QED
    BY <2>1, <2>3, <2>4 DEF OpenInv, Entries
<1>5. ASSUME NEW t \in Threads, DialRegister(t)
      PROVE  OpenInv'
  <2> DEFINE c == call[t].id
             a == call[t].addr
  <2>1. /\ connections' = [connections EXCEPT ![a] = c]
        /\ replaced' = replaced \cup ({connections[a]} \ {None})
        /\ late' = IF closed THEN late \cup {c} ELSE late
        /\ UNCHANGED <<open, closed>>
        /\ a \in Addrs
    BY <1>5, Zenon DEF DialRegister, Typed, Calls
  <2>2. Moved(t, "dial_count", c)
    BY <1>5, Moving, Zenon
  <2>3. Registering \subseteq Registering' \cup {c}
    BY <2>2, Zenon DEF Registering, Moved, At
  <2>4. connections'[a] = c /\ \A b \in Addrs : b # a => connections'[b] = connections[b]
    BY <2>1, Zenon DEF Typed
  <2>5. /\ c \in Entries'
        /\ Entries \subseteq Entries' \cup {connections[a]}
        /\ Entries' \subseteq Entries \cup {c}
    BY <2>1, <2>4 DEF Entries
  <2>6. None \notin open
    BY BoundsAssumption DEF Typed, Conns, None
  <2>7. ASSUME NEW x \in open
        PROVE  x \in replaced' \cup late' \cup Registering' \cup Entries'
    <3>1. x \in replaced \cup late \cup Registering \cup Entries /\ x # None
      BY <2>6, <2>7, Zenon DEF OpenInv
    <3> QED
      BY <2>1, <2>3, <2>5, <3>1, Zenon
  <2>8. closed' => Entries' \subseteq late' \cup {None}
    BY <2>1, <2>5, Zenon DEF OpenInv
  <2> QED
    BY <2>1, <2>7, <2>8, Zenon DEF OpenInv
<1>6. ASSUME NEW t \in Threads, Close(t)
      PROVE  OpenInv'
  <2>1. /\ open' = open \ Entries /\ Entries' \subseteq {None}
        /\ UNCHANGED <<replaced, late, call>>
    BY <1>6, Zenon DEF Close, Entries
  <2>2. Registering' = Registering
    BY <2>1, Zenon DEF Registering, At
  <2> QED
    BY <2>1, <2>2, Zenon DEF OpenInv
<1>7. ASSUME NEW t \in Threads, NEW c, CloseConn(t, c) \/ CloseAccepted(t, c)
      PROVE  OpenInv'
  <2>1. /\ open' \subseteq open /\ UNCHANGED <<replaced, late, connections, closed, call>>
    BY <1>7, Zenon DEF CloseConn, CloseAccepted
  <2>2. Registering' = Registering
    BY <2>1, Zenon DEF Registering, At
  <2> QED
    BY <2>1, <2>2, Zenon DEF OpenInv, Entries
<1>8. ASSUME NEW t \in Threads, CloseListener(t)
      PROVE  OpenInv'
  BY <1>1, <1>8, Zenon DEF CloseListener, Registering, At
<1>9. ASSUME NEW h, HelperAccept(h) \/ HelperFail(h)
      PROVE  OpenInv'
  BY <1>1, <1>9, Zenon DEF HelperAccept, HelperFail, Registering, At
<1>10. CASE UNCHANGED vars
  BY <1>1, <1>10, Zenon DEF vars, Registering, At
<1> QED
  BY <1>3, <1>4, <1>5, <1>6, <1>7, <1>8, <1>9, <1>10, Zenon
  DEF Next, Step, HelperStep, HelperClosed

\* The Dials that have passed the check of t.closed and have no entry yet.
Past == {t \in Threads : call[t].pc \in {"dial_connect", "dial_register"}}

\* A goroutine adds one connection to late, if it was past the check at Close.
LateInv ==
    /\ ~closed => late = {}
    /\ closed => Cardinality(late) + Cardinality(Past) <= Cardinality(Threads)

LEMMA LateStep == Typed /\ LateInv /\ [Next]_vars => LateInv'
<1> SUFFICES ASSUME Typed, LateInv, [Next]_vars
             PROVE  LateInv'
  OBVIOUS
<1> USE DEF transportVars, listenerVars, dialHist, acceptHist
<1>1. /\ IsFiniteSet(Threads) /\ Past \subseteq Threads
      /\ IsFiniteSet(Past) /\ Cardinality(Past) \in Nat
      /\ Cardinality(Past) <= Cardinality(Threads) /\ Cardinality(Threads) \in Nat
  <2>1. IsFiniteSet(Threads) /\ Past \subseteq Threads
    BY UsersAssumption, Zenon DEF Past
  <2> QED
    BY <2>1, FS_Subset, FS_CardinalityType, Zenon
<1>2. IsFiniteSet(late) /\ Cardinality(late) \in Nat
  <2>1. IsFiniteSet(Conns)
    BY BoundsAssumption, FS_Interval DEF Conns
  <2>2. IsFiniteSet(late)
    BY <2>1, FS_Subset, Zenon DEF Typed
  <2> QED
    BY <2>2, FS_CardinalityType, Zenon
<1>3. ASSUME UNCHANGED <<closed, late>>, Past' \subseteq Past
      PROVE  LateInv'
  <2>1. Cardinality(Past') <= Cardinality(Past) /\ Cardinality(Past') \in Nat
    BY <1>1, <1>3, FS_Subset, FS_CardinalityType, Zenon
  <2> QED
    BY <1>1, <1>2, <1>3, <2>1 DEF LateInv
<1>4. ASSUME NEW t \in Threads, NEW l, NEW n, Moved(t, l, n),
             l \notin {"dial_connect", "dial_register"} \/ t \in Past
      PROVE  Past' \subseteq Past
  BY <1>4, Zenon DEF Past, Moved
<1>5. ASSUME NEW t \in Threads, \/ CallListen(t) \/ ListenBind(t) \/ DialFail(t)
                                \/ DialCount(t) \/ CallAccept(t) \/ AcceptCheck(t)
                                \/ AcceptResult(t) \/ AcceptCancelled(t)
                                \/ \E a \in Addrs : CallDial(t, a)
      PROVE  LateInv'
  <2>1. UNCHANGED <<closed, late>>
    BY <1>5, Zenon DEF CallListen, ListenBind, DialFail, DialCount, CallAccept,
                AcceptCheck, AcceptResult, AcceptCancelled, CallDial
  <2>2. \E l \in {"idle", "listen_bind", "dial_check", "accept_check", "accept_wait"} :
           \E n : Moved(t, l, n)
    BY <1>5, Moving, Zenon
  <2>3. Past' \subseteq Past
    BY <1>4, <2>2, Zenon
  <2> QED
    BY <1>3, <2>1, <2>3, Zenon
<1>6. ASSUME NEW t \in Threads, DialCheck(t)
      PROVE  LateInv'
  <2>1. UNCHANGED <<closed, late>>
    BY <1>6, Zenon DEF DialCheck
  <2>2. CASE closed
    <3>1. Moved(t, "idle", None)
      BY <1>6, <2>2, Moving, Zenon
    <3>2. Past' \subseteq Past
      BY <1>4, <3>1, Zenon
    <3> QED
      BY <1>3, <2>1, <3>2
  <2>3. CASE ~closed
    BY <2>1, <2>3, Zenon DEF LateInv
  <2> QED
    BY <2>2, <2>3, Zenon
<1>7. ASSUME NEW t \in Threads, DialConnect(t)
      PROVE  LateInv'
  <2>1. UNCHANGED <<closed, late>> /\ t \in Past
    BY <1>7, Zenon DEF DialConnect, At, Past
  <2>2. Moved(t, "dial_register", call[t].id)
    BY <1>7, Moving
  <2>3. Past' \subseteq Past
    BY <1>4, <2>1, <2>2, Zenon
  <2> QED
    BY <1>3, <2>1, <2>3, Zenon
<1>8. ASSUME NEW t \in Threads, DialRegister(t)
      PROVE  LateInv'
  <2> DEFINE c == call[t].id
  <2>1. /\ closed' = closed /\ t \in Past
        /\ late' = IF closed THEN late \cup {c} ELSE late
    BY <1>8, Zenon DEF DialRegister, At, Past
  <2>2. Moved(t, "dial_count", c)
    BY <1>8, Moving
  <2>3. CASE ~closed
    BY <2>1, <2>3, Zenon DEF LateInv
  <2>4. CASE closed
    <3>1. Past' = Past \ {t}
      BY <2>1, <2>2, Zenon DEF Past, Moved
    <3>2. Cardinality(Past') = Cardinality(Past) - 1
      BY <1>1, <2>1, <3>1, FS_RemoveElement, Zenon
    <3>3. /\ Cardinality(late \cup {c}) \in {Cardinality(late), Cardinality(late) + 1}
      BY <1>2, FS_AddElement, Zenon
    <3> QED
      BY <1>1, <1>2, <2>1, <2>4, <3>2, <3>3 DEF LateInv
  <2> QED
    BY <2>3, <2>4, Zenon
<1>9. ASSUME NEW t \in Threads, Close(t)
      PROVE  LateInv'
  <2>1. closed' = TRUE /\ late' = late /\ Past' = Past
    BY <1>9, Zenon DEF Close, Past
  <2>2. CASE ~closed
    <3>1. Cardinality(late) = 0
      BY <2>2, FS_EmptySet, Zenon DEF LateInv
    <3> QED
      BY <1>1, <2>1, <3>1 DEF LateInv
  <2>3. CASE closed
    BY <2>1, <2>3, Zenon DEF LateInv
  <2> QED
    BY <2>2, <2>3
<1>10. ASSUME NEW t \in Threads, NEW c, CloseListener(t) \/ CloseConn(t, c) \/ CloseAccepted(t, c)
       PROVE  LateInv'
  BY <1>3, <1>10, Zenon DEF CloseListener, CloseConn, CloseAccepted, Past
<1>11. ASSUME NEW h, HelperAccept(h) \/ HelperFail(h)
       PROVE  LateInv'
  BY <1>3, <1>11, Zenon DEF HelperAccept, HelperFail, Past
<1>12. CASE UNCHANGED vars
  BY <1>3, <1>12, Zenon DEF vars, Past
<1> QED
  BY <1>5, <1>6, <1>7, <1>8, <1>9, <1>10, <1>11, <1>12, Zenon
  DEF Next, Step, HelperStep, HelperClosed

-----------------------------------------------------------------------------
(* The results.                                                            *)

TransportInv ==
    Typed /\ DialInv /\ CountInv /\ AcceptInv /\ SpreadInv /\ TakenInv
        /\ OpenInv /\ LateInv

LEMMA TransportInit == Init => TransportInv
<1> SUFFICES ASSUME Init
             PROVE  TransportInv
  BY Zenon
<1>1. Typed
  BY TypedInit, Zenon
<1>2. /\ \A t \in Threads : call[t].pc = "idle"
      /\ \A h \in Helpers : helper[h] = "none"
      /\ Ready = {}
  BY Zenon DEF Init, Ready, NoCall
<1>3. DialInv /\ AcceptInv
  BY <1>2, Labels, DialLabels, Zenon DEF Init, DialInv, AcceptInv
<1>4. CountInv
  <2>1. connected \ Pending = {}
    BY Zenon DEF Init
  <2> QED
    BY <2>1, FS_EmptySet, Zenon DEF Init, CountInv
<1>5. SpreadInv
  <2>1. Range(backlog) = {} /\ Range(accepted) = {} /\ reset = {} /\ connected = {}
    BY DEF Init, Range
  <2>2. IsInjective(backlog) /\ IsInjective(accepted)
    BY DEF Init, IsInjective
  <2>3. InChannels = {}
    BY <1>2, Zenon DEF InChannels
  <2> QED
    BY <1>2, <2>1, <2>2, <2>3, Zenon DEF SpreadInv
<1>6. TakenInv /\ OpenInv /\ LateInv
  BY Zenon DEF Init, TakenInv, OpenInv, LateInv
<1> QED
  BY <1>1, <1>3, <1>4, <1>5, <1>6, Zenon DEF TransportInv

LEMMA TransportStep == TransportInv /\ [Next]_vars => TransportInv'
BY TypedStep, DialStep, CountStep, AcceptStep, SpreadStep, TakenStep, OpenStep,
   LateStep, Zenon DEF TransportInv

LEMMA TransportInvariant == Spec => []TransportInv
BY TransportInit, TransportStep, PTL DEF Spec

\* The variables have their types: among them, activeConns never counts a
\* connection twice nor one that was not established.
THEOREM TypeCorrect == Spec => []TypeOK
<1>1. ASSUME TransportInv
      PROVE  TypeOK
  <2>1. Typed
    BY <1>1, Zenon DEF TransportInv
  <2>2. activeConns \in 0 .. Cardinality(connected)
    <3>1. IsFiniteSet(Conns)
      BY BoundsAssumption, FS_Interval DEF Conns
    <3>2. IsFiniteSet(connected)
      BY <2>1, <3>1, FS_Subset, Zenon DEF Typed
    <3>3. connected \ Pending \subseteq connected
      BY Zenon
    <3>4. Cardinality(connected \ Pending) <= Cardinality(connected)
      BY <3>2, <3>3, FS_Subset, Zenon
    <3>5. Cardinality(connected) \in Nat /\ activeConns \in Nat
      BY <2>1, <3>2, FS_CardinalityType, Zenon DEF Typed
    <3> QED
      BY <1>1, <3>4, <3>5 DEF TransportInv, CountInv
  <2>3. UNION {open, acceptedOpen, connected, replaced, late, reset} \subseteq Conns
    BY <2>1, Zenon DEF Typed
  <2>4. {closed, lclosed} \subseteq BOOLEAN
    BY <2>1, Zenon DEF Typed
  <2> QED
    BY <2>1, <2>2, <2>3, <2>4, Zenon DEF Typed, TypeOK, Calls, PCs
<1> QED
  BY <1>1, TransportInvariant, PTL

\* A cancelled Accept costs at most one connection, and nothing else loses or
\* repeats one.
THEOREM AcceptLosesLittle == Spec => []OneLossPerCancel
<1>1. ASSUME TransportInv
      PROVE  OneLossPerCancel
  <2>1. connected = UNION {Range(backlog), Range(accepted), reset,
                           {connChan[h] : h \in Ready}}
    BY <1>1, Zenon DEF TransportInv, SpreadInv, InChannels
  <2>2. IsInjective(accepted)
    BY <1>1, Zenon DEF TransportInv, SpreadInv
  <2>3. \A h \in Ready : \/ h \in cancelled
                         \/ \E t \in Threads : At(t, "accept_wait") /\ call[t].id = h
    BY <1>1, Zenon DEF TransportInv, AcceptInv, Ready, Waits, At
  <2> QED
    BY <2>1, <2>2, <2>3, Zenon DEF OneLossPerCancel
<1> QED
  BY <1>1, TransportInvariant, PTL

\* All that is open after the transport's Close is the listener, what accept(2)
\* has taken, what another Dial has pushed out of the map, and one connection for
\* each Dial that was past the check of t.closed.
THEOREM CloseLeaves == Spec => []CloseLeavesOnly
<1>1. ASSUME TransportInv
      PROVE  CloseLeavesOnly
  <2>1. Typed /\ TakenInv /\ OpenInv /\ LateInv
    BY <1>1, Zenon DEF TransportInv
  <2>2. None \notin open
    BY <2>1, BoundsAssumption DEF Typed, Conns, None
  <2>3. closed => open \subseteq Missed
    BY <2>1, <2>2, Zenon DEF OpenInv, Missed, Registering
  <2>4. closed => Cardinality(late) <= Cardinality(Threads)
    <3>1. IsFiniteSet(Past)
      BY UsersAssumption, FS_Subset, Zenon DEF Past
    <3>2. IsFiniteSet(late)
      <4>1. IsFiniteSet(Conns)
        BY BoundsAssumption, FS_Interval DEF Conns
      <4> QED
        BY <2>1, <4>1, FS_Subset, Zenon DEF Typed
    <3>3. Cardinality(Past) \in Nat /\ Cardinality(late) \in Nat /\ Cardinality(Threads) \in Nat
      BY <3>1, <3>2, UsersAssumption, FS_CardinalityType, Zenon
    <3> QED
      BY <2>1, <3>3 DEF LateInv
  <2>5. acceptedOpen \subseteq Range(accepted) \cup {connChan[h] : h \in Ready}
    BY <2>1, Zenon DEF TakenInv, Taken, InChannels
  <2> QED
    BY <2>3, <2>4, <2>5, Zenon DEF CloseLeavesOnly, Sockets
<1> QED
  BY <1>1, TransportInvariant, PTL

-----------------------------------------------------------------------------
(* Why an Accept is answered: the safety that CloseEndsAccepts rests on.   *)

\* A goroutine that waits in Accept is the only one to wait for its helper,
\* which it has not given up, and which either is in accept(2) or has put its
\* result into the channel; a listener that is marked closed has closed the
\* socket, so that the accept(2) returns.
AcceptHasHelper ==
    /\ \A t \in Threads : At(t, "accept_wait") =>
          /\ helper[call[t].id] # "none" /\ call[t].id \notin cancelled
          /\ \A u \in Threads : Waits(u, call[t].id) => u = t
    /\ lclosed => listening = "closed"

\* A helper that was given up is never waited for again.
HelperInv ==
    /\ cancelled \subseteq 1 .. accepts
    /\ \A t \in Threads : /\ call[t].pc \in AcceptPC => call[t].id \notin cancelled
                          /\ call[t].pc = "accept_wait" => helper[call[t].id] # "none"
    /\ lclosed => listening = "closed"

LEMMA HelperInvStep == Typed /\ AcceptInv /\ HelperInv /\ [Next]_vars => HelperInv'
<1> SUFFICES ASSUME Typed, AcceptInv, HelperInv, [Next]_vars
             PROVE  HelperInv'
  OBVIOUS
<1> USE DEF transportVars, listenerVars, dialHist, acceptHist
<1>1. ASSUME NEW t \in Threads, NEW l, NEW n, Moved(t, l, n), l \notin AcceptPC,
             UNCHANGED <<accepts, helper, cancelled>>, lclosed' => listening' = "closed"
      PROVE  HelperInv'
  <2>1. \A u \in Threads : call'[u].pc \in AcceptPC => u # t /\ call'[u] = call[u]
    BY <1>1, Zenon DEF Moved
  <2> QED
    BY <1>1, <2>1, Labels, Zenon DEF HelperInv
<1>2. ASSUME UNCHANGED <<call, accepts, helper, cancelled>>, lclosed' => listening' = "closed"
      PROVE  HelperInv'
  BY <1>2, Zenon DEF HelperInv
<1>3. ASSUME NEW t \in Threads, \/ CallListen(t) \/ ListenBind(t) \/ DialCheck(t) \/ DialFail(t)
                                \/ DialConnect(t) \/ DialRegister(t) \/ DialCount(t)
                                \/ \E a \in Addrs : CallDial(t, a)
      PROVE  HelperInv'
  <2>1. UNCHANGED <<accepts, helper, cancelled, lclosed>>
        /\ (listening = "closed" => listening' = "closed")
    BY <1>3, Zenon DEF CallListen, ListenBind, DialCheck, DialFail, DialConnect, DialRegister,
                DialCount, CallDial
  <2>2. \E l \in {"idle", "listen_bind"} \cup DialPC : \E n : Moved(t, l, n)
    BY <1>3, Moving, Labels, Zenon
  <2>3. lclosed' => listening' = "closed"
    BY <2>1, Zenon DEF HelperInv
  <2> QED
    BY <1>1, <2>1, <2>2, <2>3, Labels, Zenon
<1>4. ASSUME NEW t \in Threads, CallAccept(t)
      PROVE  HelperInv'
  <2>1. /\ accepts \in Nat /\ accepts' = accepts + 1
        /\ UNCHANGED <<helper, cancelled, lclosed, listening>>
        /\ Moved(t, "accept_check", accepts')
    <3>1. accepts \in Nat
      BY BoundsAssumption, SMTT(30) DEF Typed
    <3>2. accepts' = accepts + 1 /\ UNCHANGED <<helper, cancelled, lclosed, listening>>
      BY <1>4, Zenon DEF CallAccept
    <3>3. Moved(t, "accept_check", accepts + 1)
      BY <1>4, Moving, Zenon
    <3> QED
      BY <3>1, <3>2, <3>3, Zenon
  <2>2. /\ accepts' \notin 1 .. accepts
        /\ \A i \in 1 .. accepts : i \in 1 .. accepts'
    BY <2>1
  <2>3. \A u \in Threads : u # t => call'[u] = call[u]
    BY <2>1, Zenon DEF Moved
  <2>4. call'[t].pc = "accept_check" /\ call'[t].id = accepts'
    BY <2>1, Zenon DEF Moved
  <2> QED
    BY <2>1, <2>2, <2>3, <2>4, ZenonT(30) DEF HelperInv
<1>5. ASSUME NEW t \in Threads, AcceptCheck(t)
      PROVE  HelperInv'
  <2>1. UNCHANGED <<accepts, cancelled, lclosed, listening>> /\ call[t].pc = "accept_check"
    BY <1>5, Zenon DEF AcceptCheck, At
  <2>2. CASE Moved(t, "idle", None) /\ helper' = helper
    BY <1>1, <2>1, <2>2, Labels, Zenon DEF HelperInv
  <2>3. CASE /\ Moved(t, "accept_wait", call[t].id)
             /\ helper' = [helper EXCEPT ![call[t].id] = "accepting"]
    <3>1. /\ call'[t].pc = "accept_wait" /\ call'[t].id = call[t].id
          /\ \A u \in Threads : u # t => call'[u] = call[u]
      BY <2>3, Zenon DEF Moved
    <3>2. call[t].id \in Helpers /\ call[t].id \notin cancelled
      BY <2>1, Labels, Zenon DEF Typed, HelperInv
    <3>3. \A h \in Helpers : helper[h] # "none" \/ h = call[t].id => helper'[h] # "none"
      BY <2>3, Zenon DEF Typed
    <3>4. \A u \in Threads : call[u].pc = "accept_wait" => call[u].id \in Helpers
      BY Labels, Zenon DEF Typed
    <3>5. \A u \in Threads : call'[u].pc = "accept_wait" => helper'[call'[u].id] # "none"
      BY <3>1, <3>2, <3>3, <3>4, SMTT(30) DEF HelperInv
    <3> QED
      BY <2>1, <3>1, <3>2, <3>5, SMTT(30) DEF HelperInv
  <2> QED
    BY <1>5, <2>2, <2>3, Moving, Zenon
<1>6. ASSUME NEW t \in Threads, AcceptResult(t) \/ AcceptCancelled(t)
      PROVE  HelperInv'
  <2>1. /\ UNCHANGED <<accepts, lclosed, listening>>
        /\ call[t].pc = "accept_wait" /\ call[t].id \in Helpers
        /\ Moved(t, "idle", None)
    BY <1>6, Moving, Labels, Zenon DEF AcceptResult, AcceptCancelled, At, Typed
  <2>2. \A u \in Threads : call'[u].pc \in AcceptPC =>
           call'[u] = call[u] /\ call[u].id \in Helpers /\ call[u].id # call[t].id
    BY <2>1, Labels, Zenon DEF Moved, AcceptInv, Typed
  <2>3. \/ helper' = [helper EXCEPT ![call[t].id] = "none"] /\ cancelled' = cancelled
        \/ helper' = helper /\ cancelled' = cancelled \cup {call[t].id}
    BY <1>6, Zenon DEF AcceptResult, AcceptCancelled
  <2>4. \A h \in Helpers : h # call[t].id =>
           helper'[h] = helper[h] /\ (h \in cancelled' => h \in cancelled)
    BY <2>3, Zenon DEF Typed
  <2>5. call[t].id \in 1 .. accepts
    BY <2>1, Labels, Zenon DEF AcceptInv
  <2>6. cancelled' \subseteq 1 .. accepts
    BY <2>3, <2>5, Zenon DEF HelperInv
  <2> QED
    BY <2>1, <2>2, <2>4, <2>6, Labels DEF HelperInv
<1>7. ASSUME NEW t \in Threads, NEW c, \/ Close(t) \/ CloseListener(t)
                                        \/ CloseConn(t, c) \/ CloseAccepted(t, c)
      PROVE  HelperInv'
  <2>1. UNCHANGED <<call, accepts, helper, cancelled>>
    BY <1>7, Zenon DEF Close, CloseListener, CloseConn, CloseAccepted
  <2>2. lclosed' => listening' = "closed"
    BY <1>7, Zenon DEF Close, CloseListener, CloseConn, CloseAccepted, HelperInv
  <2> QED
    BY <1>2, <2>1, <2>2, Zenon
<1>8. ASSUME NEW h \in Helpers, HelperAccept(h) \/ HelperFail(h)
      PROVE  HelperInv'
  <2>1. UNCHANGED <<call, accepts, cancelled, lclosed, listening>>
    BY <1>8, Zenon DEF HelperAccept, HelperFail
  <2>2. \A g \in Helpers : helper[g] # "none" => helper'[g] # "none"
    BY <1>8, Zenon DEF HelperAccept, HelperFail, Typed
  <2>3. \A u \in Threads : call[u].pc = "accept_wait" => call[u].id \in Helpers
    BY Labels, Zenon DEF Typed
  <2> QED
    BY <2>1, <2>2, <2>3, Zenon DEF HelperInv
<1>9. CASE UNCHANGED vars
  BY <1>2, <1>9, Zenon DEF vars, HelperInv
<1> QED
  BY <1>3, <1>4, <1>5, <1>6, <1>7, <1>8, <1>9, Zenon DEF Next, Step, HelperStep, HelperClosed

\* Every waiting Accept has a helper of its own to answer it, whatever other
\* Accepts are cancelled and however their late results arrive, and the closed
\* flag is never seen without the closed socket.
THEOREM AcceptIsAnswered == Spec => []AcceptHasHelper
<1>1. ASSUME Init
      PROVE  HelperInv
  <2>1. \A t \in Threads : call[t].pc = "idle"
    BY <1>1, Zenon DEF Init, NoCall
  <2>2. "idle" \notin AcceptPC /\ "idle" # "accept_wait"
    BY Labels, Zenon
  <2>3. cancelled = {} /\ lclosed = FALSE
    BY <1>1, Zenon DEF Init
  <2> QED
    BY <2>1, <2>2, <2>3 DEF HelperInv
<1>2. TransportInv /\ HelperInv => AcceptHasHelper
  BY Labels, Zenon DEF TransportInv, AcceptInv, HelperInv, AcceptHasHelper, Waits, At
<1>3. TransportInv => Typed /\ AcceptInv
  BY Zenon DEF TransportInv
<1> QED
  BY <1>1, <1>2, <1>3, HelperInvStep, TransportInvariant, PTL DEF Spec
=============================================================================
