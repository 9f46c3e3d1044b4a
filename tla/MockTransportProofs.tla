------------------------ MODULE MockTransportProofs ------------------------
(***************************************************************************)
(* The mock transport (transport/mock.go) loses, repeats and reorders      *)
(* nothing by itself, for every number of goroutines, listeners,           *)
(* connections and messages and every capacity of the channels.            *)
(***************************************************************************)
EXTENDS MockTransport, SequenceLemmas, TLAPS

-----------------------------------------------------------------------------
(* Types.                                                                  *)

PCs == {"idle", "dial_select", "close_lock", "peek_back"} \cup SendPC \cup RecvPC \cup AcceptPC
Calls == [pc : PCs, on : Nat, arg : Nat]

\* The calls on a connection.
ConnPC == {"close_lock", "peek_back"} \cup SendPC \cup RecvPC

\* A call works on what was made, and PeekMessage holds a message, unless it
\* has found the channel closed.
Carried(t) ==
    /\ call[t].pc = "dial_select" => call[t].on \in 1 .. dials /\ call[t].arg \in 1 .. listens
    /\ call[t].pc \in AcceptPC => call[t].on \in 1 .. listens
    /\ call[t].pc \in ConnPC => call[t].on \in 1 .. dials
    /\ call[t].pc \in SendPC => call[t].arg \in 1 .. next - 1
    /\ call[t].pc = "peek_back" => \/ call[t].arg \in Msgs
                                   \/ call[t].arg = None /\ cclosed[call[t].on]

Typed == TypeOK /\ \A t \in Threads : Carried(t)

\* Thread t is now at l, working on "on" with "arg"; nobody else moved.
Moved(t, l, on, arg) ==
    /\ call' \in [Threads -> Calls]
    /\ call'[t].pc = l /\ call'[t].on = on /\ call'[t].arg = arg
    /\ \A u \in Threads : u # t => call'[u] = call[u]

\* How the three ways of moving a thread change its call.
LEMMA Moves ==
    ASSUME call \in [Threads -> Calls], NEW t \in Threads
    PROVE  /\ Return(t) => Moved(t, "idle", None, None)
           /\ \A l \in PCs : Goto(t, l) => Moved(t, l, call[t].on, call[t].arg)
           /\ \A l \in PCs, on, arg \in Nat : Enter(t, l, on, arg) => Moved(t, l, on, arg)
<1>1. NoCall \in Calls /\ NoCall.pc = "idle" /\ NoCall.on = None /\ NoCall.arg = None
  BY Zenon DEF NoCall, Calls, PCs, None
<1>2. Return(t) => Moved(t, "idle", None, None)
  BY <1>1, Zenon DEF Return, Moved
<1>3. ASSUME NEW l \in PCs, Goto(t, l)
      PROVE  Moved(t, l, call[t].on, call[t].arg)
  BY <1>3, Zenon DEF Goto, Moved, Calls
<1>4. ASSUME NEW l \in PCs, NEW on \in Nat, NEW arg \in Nat, Enter(t, l, on, arg)
      PROVE  Moved(t, l, on, arg)
  BY <1>4, Zenon DEF Enter, Moved, Calls
<1> QED
  BY <1>2, <1>3, <1>4, Zenon

\* Labels are members of the sets they are listed in.
LEMMA Labels ==
    /\ {"idle", "dial_select", "close_lock", "peek_back", "accept_check", "accept_select",
        "send_check", "send_select", "recv_check", "recv_select", "recv_hooks"} \subseteq PCs
    /\ SendPC = {"send_check", "send_select"}
    /\ AcceptPC = {"accept_check", "accept_select"}
    /\ ConnPC = {"close_lock", "peek_back", "send_check", "send_select",
                 "recv_check", "recv_select", "recv_hooks"}
BY Zenon DEF PCs, ConnPC, SendPC, RecvPC, AcceptPC

\* The numbers a call takes along.
LEMMA Numbers ==
    ASSUME TypeOK
    PROVE  /\ dials \in Nat /\ listens \in Nat /\ next \in Nat /\ listener \in Nat /\ None \in Nat
           /\ 1 .. dials \subseteq Conns /\ 1 .. listens \subseteq Listeners
           /\ 1 .. next - 1 \subseteq Msgs /\ None \notin Msgs
           /\ limit.listens \in 0 .. MaxListens /\ limit.dials \in 0 .. MaxDials
           /\ limit.msgs \in 0 .. MaxMsgs
           /\ \A c \in Conns : c \in Nat
           /\ \A l \in Listeners : l \in Nat
           /\ \A m \in Msgs : m \in Nat
           /\ {MaxListens, MaxDials, MaxMsgs, Cap} \subseteq Nat
<1>1. {MaxListens, MaxDials, MaxMsgs, Cap} \subseteq Nat
  BY BoundsAssumption, Zenon
<1>2. /\ dials \in Nat /\ listens \in Nat /\ next \in Nat /\ listener \in Nat /\ None \in Nat
      /\ dials <= MaxDials /\ listens <= MaxListens /\ next <= MaxMsgs + 1
  BY <1>1 DEF TypeOK, None
<1>3. /\ 1 .. dials \subseteq Conns /\ 1 .. listens \subseteq Listeners
      /\ 1 .. next - 1 \subseteq Msgs /\ None \notin Msgs
  BY <1>1, <1>2 DEF Conns, Listeners, Msgs, None
<1>4. limit \in [listens : 0 .. MaxListens, dials : 0 .. MaxDials, msgs : 0 .. MaxMsgs]
  BY LimitsAssumption, Zenon DEF TypeOK
<1> QED
  BY <1>1, <1>2, <1>3, <1>4 DEF Conns, Listeners, Msgs

\* Where each action takes its thread.
LEMMA Moving ==
    ASSUME Typed, NEW t \in Threads
    PROVE  /\ CallDial(t) => /\ At(t, "idle") /\ listener \in 1 .. listens
                             /\ Moved(t, "dial_select", dials + 1, listener)
           /\ \A l \in Listeners : CallAccept(t, l) =>
                 At(t, "idle") /\ l \in 1 .. listens /\ Moved(t, "accept_check", l, None)
           /\ AcceptCheck(t) => /\ At(t, "accept_check")
                                /\ \/ Moved(t, "idle", None, None)
                                   \/ Moved(t, "accept_select", call[t].on, call[t].arg)
           /\ AcceptSelect(t) => At(t, "accept_select") /\ Moved(t, "idle", None, None)
           /\ \A c \in Conns :
                 /\ CallSend(t, c) => /\ At(t, "idle") /\ c \in 1 .. dials
                                      /\ Moved(t, "send_check", c, next)
                 /\ CallRecv(t, c) => /\ At(t, "idle") /\ c \in 1 .. dials
                                      /\ Moved(t, "recv_check", c, None)
                 /\ CallClose(t, c) => /\ At(t, "idle") /\ c \in 1 .. dials
                                       /\ Moved(t, "close_lock", c, None)
           /\ SendCheck(t) => /\ At(t, "send_check")
                              /\ \/ Moved(t, "idle", None, None)
                                 \/ Moved(t, "send_select", call[t].on, call[t].arg)
           /\ RecvCheck(t) => /\ At(t, "recv_check")
                              /\ \/ Moved(t, "idle", None, None)
                                 \/ Moved(t, "recv_select", call[t].on, call[t].arg)
           /\ RecvSelect(t) => /\ At(t, "recv_select")
                               /\ Moved(t, "recv_hooks", call[t].on, call[t].arg)
           /\ RecvHooks(t) => At(t, "recv_hooks") /\ Moved(t, "idle", None, None)
           /\ CloseLock(t) => At(t, "close_lock") /\ Moved(t, "idle", None, None)
           /\ Cancelled(t) => Moved(t, "idle", None, None)
<1>1. call \in [Threads -> Calls]
  BY Zenon DEF Typed, TypeOK, Calls, PCs
<1>2. /\ dials \in Nat /\ dials + 1 \in Nat /\ listener \in Nat /\ next \in Nat /\ None \in Nat
      /\ listens \in Nat
      /\ \A c \in Conns : c \in Nat /\ (c <= dials => c \in 1 .. dials)
      /\ \A l \in Listeners : l \in Nat /\ (l <= listens => l \in 1 .. listens)
      /\ listener # None => listener \in 1 .. listens
  <2>1. /\ dials \in Nat /\ listens \in Nat /\ next \in Nat /\ listener \in 0 .. listens
        /\ MaxDials \in Nat /\ MaxListens \in Nat
    BY Numbers, Zenon DEF Typed, TypeOK
  <2> QED
    BY <2>1 DEF Conns, Listeners, None
<1>3. CallDial(t) => /\ At(t, "idle") /\ listener \in 1 .. listens
                     /\ Moved(t, "dial_select", dials + 1, listener)
  BY <1>1, <1>2, Moves, Labels, Zenon DEF CallDial, Enter
<1>4. \A l \in Listeners : CallAccept(t, l) =>
          At(t, "idle") /\ l \in 1 .. listens /\ Moved(t, "accept_check", l, None)
  BY <1>1, <1>2, Moves, Labels, Zenon DEF CallAccept, Enter
<1>5. AcceptCheck(t) => /\ At(t, "accept_check")
                        /\ \/ Moved(t, "idle", None, None)
                           \/ Moved(t, "accept_select", call[t].on, call[t].arg)
  BY <1>1, Moves, Labels, Zenon DEF AcceptCheck
<1>6. /\ AcceptSelect(t) => At(t, "accept_select") /\ Moved(t, "idle", None, None)
      /\ RecvHooks(t) => At(t, "recv_hooks") /\ Moved(t, "idle", None, None)
      /\ CloseLock(t) => At(t, "close_lock") /\ Moved(t, "idle", None, None)
      /\ Cancelled(t) => Moved(t, "idle", None, None)
  BY <1>1, Moves, Zenon DEF AcceptSelect, RecvHooks, CloseLock, Cancelled
<1>7. \A c \in Conns :
          /\ CallSend(t, c) => At(t, "idle") /\ c \in 1 .. dials /\ Moved(t, "send_check", c, next)
          /\ CallRecv(t, c) => At(t, "idle") /\ c \in 1 .. dials /\ Moved(t, "recv_check", c, None)
          /\ CallClose(t, c) => At(t, "idle") /\ c \in 1 .. dials /\ Moved(t, "close_lock", c, None)
  BY <1>1, <1>2, Moves, Labels, Zenon DEF CallSend, CallRecv, CallClose, Enter
<1>8. SendCheck(t) => /\ At(t, "send_check")
                      /\ \/ Moved(t, "idle", None, None)
                         \/ Moved(t, "send_select", call[t].on, call[t].arg)
  BY <1>1, Moves, Labels, Zenon DEF SendCheck
<1>9. RecvCheck(t) => /\ At(t, "recv_check")
                      /\ \/ Moved(t, "idle", None, None)
                         \/ Moved(t, "recv_select", call[t].on, call[t].arg)
  BY <1>1, Moves, Labels, Zenon DEF RecvCheck
<1>10. RecvSelect(t) => /\ At(t, "recv_select")
                        /\ Moved(t, "recv_hooks", call[t].on, call[t].arg)
  BY <1>1, Moves, Labels, Zenon DEF RecvSelect
<1> QED
  BY <1>3, <1>4, <1>5, <1>6, <1>7, <1>8, <1>9, <1>10, Zenon

\* Message or connection x went into channel i of f.
PushedTo(f, g, D, S, i, x) ==
    /\ i \in D /\ x \in S
    /\ g \in [D -> Seq(S)]
    /\ g[i] = Append(f[i], x) /\ Range(g[i]) = Range(f[i]) \cup {x}
    /\ Len(f[i]) \in Nat /\ Len(g[i]) = Len(f[i]) + 1
    /\ \A j \in D : j # i => g[j] = f[j]

\* The first element of channel i of f was taken out.
PoppedFrom(f, g, D, S, i) ==
    /\ i \in D /\ f[i] # <<>> /\ Head(f[i]) \in S
    /\ g \in [D -> Seq(S)]
    /\ g[i] = Tail(f[i]) /\ Range(f[i]) = Range(g[i]) \cup {Head(f[i])}
    /\ Len(f[i]) \in Nat /\ Len(g[i]) = Len(f[i]) - 1
    /\ \A j \in D : j # i => g[j] = f[j]

\* What a send on a channel changes.
LEMMA Pushed ==
    ASSUME NEW D, NEW S, NEW f \in [D -> Seq(S)], NEW i \in D, NEW x \in S
    PROVE  PushedTo(f, [f EXCEPT ![i] = Append(@, x)], D, S, i, x)
<1> DEFINE g == [f EXCEPT ![i] = Append(@, x)]
<1>1. f[i] \in Seq(S)
  BY Zenon
<1>2. Append(f[i], x) \in Seq(S) /\ Range(Append(f[i], x)) = Range(f[i]) \cup {x}
  BY <1>1, Appended
<1>3. Len(f[i]) \in Nat /\ Len(Append(f[i], x)) = Len(f[i]) + 1
  BY <1>1
<1>4. /\ g \in [D -> Seq(S)] /\ g[i] = Append(f[i], x)
      /\ \A j \in D : j # i => g[j] = f[j]
  BY <1>2, Zenon
<1> QED
  BY <1>2, <1>3, <1>4, Zenon DEF PushedTo

\* What a receive from a channel changes.
LEMMA Popped ==
    ASSUME NEW D, NEW S, NEW f \in [D -> Seq(S)], NEW i \in D, f[i] # <<>>
    PROVE  PoppedFrom(f, [f EXCEPT ![i] = Tail(@)], D, S, i)
<1> DEFINE g == [f EXCEPT ![i] = Tail(@)]
<1>1. f[i] \in Seq(S)
  BY Zenon
<1>2. /\ Tail(f[i]) \in Seq(S) /\ Head(f[i]) \in S
      /\ Range(f[i]) = Range(Tail(f[i])) \cup {Head(f[i])}
  BY <1>1, HeadTaken, Zenon
<1>3. Len(f[i]) \in Nat /\ Len(Tail(f[i])) = Len(f[i]) - 1
  BY <1>1
<1>4. /\ g \in [D -> Seq(S)] /\ g[i] = Tail(f[i])
      /\ \A j \in D : j # i => g[j] = f[j]
  BY <1>2, Zenon
<1> QED
  BY <1>2, <1>3, <1>4, Zenon DEF PoppedFrom

LEMMA TypedInit == Init => Typed
<1>1. NoCall \in Calls /\ NoCall.pc = "idle"
  BY Zenon DEF NoCall, Calls, PCs, None
<1>2. /\ <<>> \in Seq(Conns) /\ <<>> \in Seq(Msgs) /\ 0 \in 0 .. MaxDials
      /\ 0 \in 0 .. MaxListens /\ 1 \in 1 .. MaxMsgs + 1 /\ 0 \in 0 .. 0
      /\ Len(<<>>) <= Cap
  BY BoundsAssumption
<1>3. ASSUME Init
      PROVE  /\ call \in [Threads -> Calls]
             /\ \A t \in Threads : Carried(t)
  BY <1>1, <1>3, Labels, Zenon DEF Init, Carried
<1>4. ASSUME Init
      PROVE  TypeOK
  <2>1. limit \in Limits /\ closed \in BOOLEAN /\ panic \in BOOLEAN /\ listener \in 0 .. listens
    BY <1>2, <1>4, Zenon DEF Init, None
  <2>2. /\ lclosed \in [Listeners -> BOOLEAN] /\ cclosed \in [Conns -> BOOLEAN]
        /\ lchan \in [Listeners -> Seq(Conns)] /\ messages \in [Conns -> Seq(Msgs)]
        /\ mu \in [Conns -> Threads \cup {NoThread}]
        /\ sent \in [Conns -> Seq(Msgs)] /\ received \in [Conns -> Seq(Msgs)]
        /\ dialed \in [Listeners -> Seq(Conns)] /\ accepted \in [Listeners -> Seq(Conns)]
    BY <1>2, <1>4, Zenon DEF Init
  <2>3. /\ \A l \in Listeners : Len(lchan[l]) <= Cap
        /\ \A c \in Conns : Len(messages[c]) <= Cap
    BY <1>2, <1>4, Zenon DEF Init
  <2> QED
    BY <1>2, <1>3, <1>4, <2>1, <2>2, <2>3, Zenon DEF Init, TypeOK, Calls, PCs
<1> QED
  BY <1>3, <1>4, Zenon DEF Typed

-----------------------------------------------------------------------------
(* The actions that use a channel, one by one.                             *)

\* A panic changes nothing else.
Panicked == UNCHANGED <<listenerVars, connVars, call>> /\ panic' = TRUE

LEMMA DialSelectDeed ==
    ASSUME Typed, NEW t \in Threads, DialSelect(t)
    PROVE  /\ call[t].pc = "dial_select" /\ call[t].on \in 1 .. dials
           /\ \/ Panicked
              \/ /\ Moved(t, "idle", None, None)
                 /\ PushedTo(lchan, lchan', Listeners, Conns, call[t].arg, call[t].on)
                 /\ Len(lchan'[call[t].arg]) <= Cap
                 /\ PushedTo(dialed, dialed', Listeners, Conns, call[t].arg, call[t].on)
                 /\ UNCHANGED <<limit, closed, listener, lclosed, listens, dials, accepted,
                                connVars, panic>>
<1> DEFINE l == call[t].arg
           c == call[t].on
<1>1. /\ call[t].pc = "dial_select" /\ c \in 1 .. dials /\ l \in 1 .. listens
      /\ call \in [Threads -> Calls]
      /\ lchan \in [Listeners -> Seq(Conns)] /\ dialed \in [Listeners -> Seq(Conns)]
  BY Zenon DEF DialSelect, At, Typed, TypeOK, Carried, Calls, PCs
<1>2. l \in Listeners /\ c \in Conns
  BY <1>1, Numbers, Zenon DEF Typed
<1>3. CASE lclosed[l]
  BY <1>1, <1>3, Zenon DEF DialSelect, Panicked, listenerVars
<1>4. CASE ~lclosed[l]
  <2>1. /\ lchan' = [lchan EXCEPT ![l] = Append(@, c)] /\ Return(t) /\ Len(lchan[l]) < Cap
        /\ dialed' = [dialed EXCEPT ![l] = Append(@, c)]
        /\ UNCHANGED <<limit, closed, listener, lclosed, listens, dials, accepted, connVars, panic>>
    BY <1>4, Zenon DEF DialSelect, Push
  <2>2. /\ PushedTo(lchan, lchan', Listeners, Conns, l, c)
        /\ PushedTo(dialed, dialed', Listeners, Conns, l, c)
    BY <1>1, <1>2, <2>1, Pushed, Zenon
  <2>3. Len(lchan'[l]) <= Cap
    BY <2>1, <2>2, BoundsAssumption DEF PushedTo
  <2> QED
    BY <1>1, <2>1, <2>2, <2>3, Moves, Zenon
<1> QED
  BY <1>3, <1>4, Zenon

LEMMA AcceptSelectDeed ==
    ASSUME Typed, NEW t \in Threads, AcceptSelect(t)
    PROVE  /\ Moved(t, "idle", None, None)
           /\ \/ /\ PoppedFrom(lchan, lchan', Listeners, Conns, call[t].on)
                 /\ Len(lchan'[call[t].on]) <= Cap
                 /\ PushedTo(accepted, accepted', Listeners, Conns, call[t].on,
                             Head(lchan[call[t].on]))
              \/ UNCHANGED <<lchan, accepted>>
           /\ UNCHANGED <<limit, closed, listener, lclosed, listens, dials, dialed, connVars, panic>>
<1> DEFINE l == call[t].on
<1>1. /\ l \in 1 .. listens
      /\ lchan \in [Listeners -> Seq(Conns)] /\ accepted \in [Listeners -> Seq(Conns)]
      /\ \A k \in Listeners : Len(lchan[k]) <= Cap
  BY Labels, Zenon DEF AcceptSelect, At, Typed, TypeOK, Carried
<1>2. l \in Listeners
  BY <1>1, Numbers, Zenon DEF Typed
<1>3. Moved(t, "idle", None, None)
  BY Moving, Zenon
<1>4. ASSUME lchan[l] # <<>>, lchan' = [lchan EXCEPT ![l] = Tail(@)],
             accepted' = [accepted EXCEPT ![l] = Append(@, Head(lchan[l]))]
      PROVE  /\ PoppedFrom(lchan, lchan', Listeners, Conns, l)
             /\ Len(lchan'[l]) <= Cap
             /\ PushedTo(accepted, accepted', Listeners, Conns, l, Head(lchan[l]))
  <2>1. PoppedFrom(lchan, lchan', Listeners, Conns, l)
    BY <1>1, <1>2, <1>4, Popped, Zenon
  <2>2. Head(lchan[l]) \in Conns
    BY <2>1, Zenon DEF PoppedFrom
  <2>3. PushedTo(accepted, accepted', Listeners, Conns, l, Head(lchan[l]))
    BY <1>1, <1>2, <1>4, <2>2, Pushed, Zenon
  <2>4. Len(lchan'[l]) <= Cap
    BY <1>1, <1>2, <2>1, BoundsAssumption DEF PoppedFrom
  <2> QED
    BY <2>1, <2>3, <2>4, Zenon
<1> QED
  BY <1>3, <1>4, Zenon DEF AcceptSelect, Push, Pop

LEMMA SendSelectDeed ==
    ASSUME Typed, NEW t \in Threads, SendSelect(t)
    PROVE  /\ call[t].pc = "send_select"
           /\ \/ Panicked
              \/ /\ Moved(t, "idle", None, None)
                 /\ PushedTo(messages, messages', Conns, Msgs, call[t].on, call[t].arg)
                 /\ Len(messages'[call[t].on]) <= Cap
                 /\ PushedTo(sent, sent', Conns, Msgs, call[t].on, call[t].arg)
                 /\ UNCHANGED <<listenerVars, cclosed, mu, next, received, peeked, panic>>
<1> DEFINE c == call[t].on
           m == call[t].arg
<1>1. /\ call[t].pc = "send_select" /\ c \in 1 .. dials /\ m \in 1 .. next - 1
      /\ call \in [Threads -> Calls]
      /\ messages \in [Conns -> Seq(Msgs)] /\ sent \in [Conns -> Seq(Msgs)]
  BY Labels, Zenon DEF SendSelect, At, Typed, TypeOK, Carried, Calls, PCs
<1>2. c \in Conns /\ m \in Msgs
  BY <1>1, Numbers, Zenon DEF Typed
<1>3. CASE cclosed[c]
  BY <1>1, <1>3, Zenon DEF SendSelect, Panicked, connVars
<1>4. CASE ~cclosed[c]
  <2>1. /\ messages' = [messages EXCEPT ![c] = Append(@, m)]
        /\ sent' = [sent EXCEPT ![c] = Append(@, m)]
        /\ Return(t) /\ Len(messages[c]) < Cap
        /\ UNCHANGED <<listenerVars, cclosed, mu, next, received, peeked, panic>>
    BY <1>4, Zenon DEF SendSelect, Push
  <2>2. PushedTo(messages, messages', Conns, Msgs, c, m)
    BY <1>1, <1>2, <2>1, Pushed, Zenon
  <2>3. PushedTo(sent, sent', Conns, Msgs, c, m)
    BY <1>1, <1>2, <2>1, Pushed, Zenon
  <2>4. Len(messages'[c]) <= Cap
    BY <2>1, <2>2, BoundsAssumption DEF PushedTo
  <2> QED
    BY <1>1, <2>1, <2>2, <2>3, <2>4, Moves, Zenon
<1> QED
  BY <1>3, <1>4, Zenon

LEMMA RecvSelectDeed ==
    ASSUME Typed, NEW t \in Threads, RecvSelect(t)
    PROVE  /\ Moved(t, "recv_hooks", call[t].on, call[t].arg)
           /\ call[t].pc = "recv_select" /\ call[t].on \in 1 .. dials
           /\ \/ /\ PoppedFrom(messages, messages', Conns, Msgs, call[t].on)
                 /\ Len(messages'[call[t].on]) <= Cap
                 /\ PushedTo(received, received', Conns, Msgs, call[t].on,
                             Head(messages[call[t].on]))
              \/ UNCHANGED <<messages, received>>
           /\ UNCHANGED <<listenerVars, cclosed, mu, next, sent, peeked, panic>>
<1> DEFINE c == call[t].on
<1>1. /\ call[t].pc = "recv_select" /\ c \in 1 .. dials
      /\ messages \in [Conns -> Seq(Msgs)] /\ received \in [Conns -> Seq(Msgs)]
      /\ \A d \in Conns : Len(messages[d]) <= Cap
  BY Labels, Zenon DEF RecvSelect, At, Typed, TypeOK, Carried
<1>2. c \in Conns
  BY <1>1, Numbers, Zenon DEF Typed
<1>3. Moved(t, "recv_hooks", call[t].on, call[t].arg)
  BY Moving, Zenon
<1>4. ASSUME messages[c] # <<>>, messages' = [messages EXCEPT ![c] = Tail(@)],
             received' = [received EXCEPT ![c] = Append(@, Head(messages[c]))]
      PROVE  /\ PoppedFrom(messages, messages', Conns, Msgs, c)
             /\ Len(messages'[c]) <= Cap
             /\ PushedTo(received, received', Conns, Msgs, c, Head(messages[c]))
  <2>1. PoppedFrom(messages, messages', Conns, Msgs, c)
    BY <1>1, <1>2, <1>4, Popped, Zenon
  <2>2. Head(messages[c]) \in Msgs
    BY <2>1, Zenon DEF PoppedFrom
  <2>3. PushedTo(received, received', Conns, Msgs, c, Head(messages[c]))
    BY <1>1, <1>2, <1>4, <2>2, Pushed, Zenon
  <2>4. Len(messages'[c]) <= Cap
    BY <1>1, <1>2, <2>1, BoundsAssumption DEF PoppedFrom
  <2> QED
    BY <2>1, <2>3, <2>4, Zenon
<1> QED
  BY <1>1, <1>3, <1>4, Zenon DEF RecvSelect, Push, Pop

LEMMA PeekDeed ==
    ASSUME Typed, NEW t \in Threads, NEW c \in Conns, Peek(t, c)
    PROVE  /\ call[t].pc = "idle" /\ c \in 1 .. dials /\ mu[c] = NoThread
           /\ mu' = [mu EXCEPT ![c] = t] /\ peeked' = peeked \cup {c}
           /\ \/ /\ PoppedFrom(messages, messages', Conns, Msgs, c)
                 /\ Len(messages'[c]) <= Cap
                 /\ Moved(t, "peek_back", c, Head(messages[c]))
              \/ /\ UNCHANGED messages /\ cclosed[c]
                 /\ Moved(t, "peek_back", c, None)
           /\ UNCHANGED <<listenerVars, cclosed, next, sent, received, panic>>
<1>1. /\ call \in [Threads -> Calls] /\ messages \in [Conns -> Seq(Msgs)]
      /\ \A d \in Conns : Len(messages[d]) <= Cap
  BY Zenon DEF Typed, TypeOK, Calls, PCs
<1>2. /\ c \in Nat /\ dials \in Nat /\ None \in Nat /\ \A m \in Msgs : m \in Nat
      /\ c <= dials => c \in 1 .. dials
  BY Numbers DEF Typed, Conns
<1>3. ASSUME messages[c] # <<>>, messages' = [messages EXCEPT ![c] = Tail(@)],
             Enter(t, "peek_back", c, Head(messages[c]))
      PROVE  /\ PoppedFrom(messages, messages', Conns, Msgs, c)
             /\ Len(messages'[c]) <= Cap
             /\ Moved(t, "peek_back", c, Head(messages[c]))
  <2>1. PoppedFrom(messages, messages', Conns, Msgs, c)
    BY <1>1, <1>3, Popped, Zenon
  <2>2. Head(messages[c]) \in Nat
    BY <1>2, <2>1, Zenon DEF PoppedFrom
  <2>3. Moved(t, "peek_back", c, Head(messages[c]))
    BY <1>1, <1>2, <1>3, <2>2, Moves, Labels, Zenon
  <2>4. Len(messages'[c]) <= Cap
    BY <1>1, <2>1, BoundsAssumption DEF PoppedFrom
  <2> QED
    BY <2>1, <2>3, <2>4, Zenon
<1>4. Enter(t, "peek_back", c, None) => Moved(t, "peek_back", c, None)
  BY <1>1, <1>2, Moves, Labels, Zenon
<1>5. call[t].pc = "idle" /\ c <= dials
  BY Zenon DEF Peek, Enter, At
<1> QED
  BY <1>2, <1>3, <1>4, <1>5, Zenon DEF Peek, Pop

LEMMA PeekBackDeed ==
    ASSUME Typed, NEW t \in Threads, PeekBack(t)
    PROVE  /\ call[t].pc = "peek_back" /\ call[t].on \in 1 .. dials
           /\ \/ Panicked
              \/ /\ Moved(t, "idle", None, None)
                 /\ PushedTo(messages, messages', Conns, Msgs, call[t].on, call[t].arg)
                 /\ Len(messages'[call[t].on]) <= Cap
                 /\ mu' = [mu EXCEPT ![call[t].on] = NoThread]
                 /\ UNCHANGED <<listenerVars, cclosed, next, sent, received, peeked, panic>>
<1> DEFINE c == call[t].on
           m == call[t].arg
<1>1. /\ call[t].pc = "peek_back" /\ c \in 1 .. dials /\ (m \in Msgs \/ cclosed[c])
      /\ call \in [Threads -> Calls] /\ messages \in [Conns -> Seq(Msgs)]
  BY Labels, Zenon DEF PeekBack, At, Typed, TypeOK, Carried, Calls, PCs
<1>2. c \in Conns
  BY <1>1, Numbers, Zenon DEF Typed
<1>3. CASE cclosed[c]
  BY <1>1, <1>3, Zenon DEF PeekBack, Panicked, connVars
<1>4. CASE ~cclosed[c]
  <2>1. /\ messages' = [messages EXCEPT ![c] = Append(@, m)]
        /\ mu' = [mu EXCEPT ![c] = NoThread]
        /\ Return(t) /\ Len(messages[c]) < Cap
        /\ UNCHANGED <<listenerVars, cclosed, next, sent, received, peeked, panic>>
    BY <1>4, Zenon DEF PeekBack, Push
  <2>2. PushedTo(messages, messages', Conns, Msgs, c, m)
    BY <1>1, <1>2, <1>4, <2>1, Pushed, Zenon
  <2>3. Len(messages'[c]) <= Cap
    BY <2>1, <2>2, BoundsAssumption DEF PushedTo
  <2> QED
    BY <1>1, <2>1, <2>2, <2>3, Moves, Zenon
<1> QED
  BY <1>3, <1>4, Zenon

-----------------------------------------------------------------------------
(* Type correctness.                                                       *)

\* Nothing that was made goes away, and nothing is opened again.
Grown == /\ dials <= dials' /\ listens <= listens' /\ next <= next'
         /\ \A c \in Conns : cclosed[c] => cclosed'[c]

LEMMA StillCarried ==
    ASSUME Typed, TypeOK', Grown, NEW u \in Threads, call'[u] = call[u]
    PROVE  Carried(u)'
<1>1. /\ dials \in Nat /\ dials' \in Nat /\ listens \in Nat /\ listens' \in Nat
      /\ next \in Nat /\ next' \in Nat
  BY BoundsAssumption DEF Typed, TypeOK
<1>2. /\ 1 .. dials \subseteq 1 .. dials' /\ 1 .. listens \subseteq 1 .. listens'
      /\ 1 .. next - 1 \subseteq 1 .. next' - 1
  <2>1. dials <= dials' /\ listens <= listens' /\ next <= next'
    BY Zenon DEF Grown
  <2>2. ASSUME NEW a \in Nat, NEW b \in Nat, a <= b
        PROVE  1 .. a \subseteq 1 .. b /\ 1 .. a - 1 \subseteq 1 .. b - 1
    BY <2>2
  <2> QED
    BY <1>1, <2>1, <2>2, Zenon
<1>3. Carried(u)
  BY Zenon DEF Typed
<1>4. call[u].pc \in ConnPC => call[u].on \in Conns
  BY <1>3, Numbers, Zenon DEF Carried, Typed
<1>5. call[u].pc = "peek_back" => call[u].pc \in ConnPC
  BY Labels, Zenon
<1>6. call[u].pc = "peek_back" => \/ call[u].arg \in Msgs
                                  \/ call[u].arg = None /\ cclosed'[call[u].on]
  BY <1>3, <1>4, <1>5, Zenon DEF Carried, Grown
<1> QED
  BY <1>2, <1>3, <1>6, Zenon DEF Carried

LEMMA TypedStep == Typed /\ [Next]_vars => Typed'
<1> SUFFICES ASSUME Typed, [Next]_vars
             PROVE  Typed'
  BY Zenon
<1> USE DEF listenerVars, connVars
<1>1. ASSUME NEW t \in Threads, NEW l, NEW on, NEW arg, Moved(t, l, on, arg),
             TypeOK', Carried(t)', Grown
      PROVE  Typed'
  BY <1>1, StillCarried, Zenon DEF Moved, Typed
<1>2. ASSUME TypeOK', call' = call, Grown
      PROVE  Typed'
  BY <1>2, StillCarried, Zenon DEF Typed
<1>3. dials <= dials /\ listens <= listens /\ next <= next
  BY Numbers DEF Typed
<1>4. ASSUME UNCHANGED <<dials, listens, next, cclosed>>
      PROVE  Grown
  BY <1>3, <1>4, Zenon DEF Grown
<1>5. ASSUME UNCHANGED <<listenerVars, connVars, panic>>, call' \in [Threads -> Calls]
      PROVE  TypeOK' /\ Grown
  <2>1. TypeOK'
    BY <1>5, Zenon DEF Typed, TypeOK, Calls, PCs
  <2> QED
    BY <1>4, <1>5, <2>1, Zenon
<1>6. ASSUME NEW t \in Threads, Listen(t)
      PROVE  Typed'
  <2>1. listens + 1 \in 0 .. MaxListens /\ listens + 1 \in 0 .. listens + 1 /\ listens <= listens + 1
    BY <1>6, Numbers DEF Listen, Typed
  <2>2. TypeOK'
    BY <1>6, <2>1, Zenon DEF Listen, Typed, TypeOK
  <2> QED
    BY <1>2, <1>3, <1>6, <2>1, <2>2, Zenon DEF Listen, Grown
<1>7. ASSUME NEW t \in Threads, CallDial(t)
      PROVE  Typed'
  <2>1. listener \in 1 .. listens /\ Moved(t, "dial_select", dials + 1, listener)
    BY <1>7, Moving, Zenon
  <2>2. dials + 1 \in 0 .. MaxDials /\ dials + 1 \in 1 .. dials + 1 /\ dials <= dials + 1
    BY <1>7, Numbers DEF CallDial, Typed
  <2>3. TypeOK'
    BY <1>7, <2>1, <2>2, Zenon DEF CallDial, Moved, Typed, TypeOK, Calls, PCs
  <2>4. Grown
    BY <1>3, <1>7, <2>2, Zenon DEF CallDial, Grown
  <2>5. Carried(t)'
    BY <1>7, <2>1, <2>2, Labels, Zenon DEF CallDial, Moved, Carried
  <2> QED
    BY <1>1, <2>1, <2>3, <2>4, <2>5, Zenon
<1>8. ASSUME Panicked
      PROVE  Typed'
  <2>1. TypeOK'
    BY <1>8, Zenon DEF Panicked, Typed, TypeOK
  <2> QED
    BY <1>2, <1>4, <1>8, <2>1, Zenon DEF Panicked
<1>9. ASSUME NEW t \in Threads, DialSelect(t)
      PROVE  Typed'
  <2>1. CASE ~Panicked
    <3>1. /\ Moved(t, "idle", None, None)
          /\ PushedTo(lchan, lchan', Listeners, Conns, call[t].arg, call[t].on)
          /\ Len(lchan'[call[t].arg]) <= Cap
          /\ PushedTo(dialed, dialed', Listeners, Conns, call[t].arg, call[t].on)
          /\ UNCHANGED <<limit, closed, listener, lclosed, listens, dials, accepted, connVars, panic>>
      BY <1>9, <2>1, DialSelectDeed, Zenon
    <3>2. /\ lchan' \in [Listeners -> Seq(Conns)] /\ dialed' \in [Listeners -> Seq(Conns)]
          /\ \A k \in Listeners : Len(lchan'[k]) <= Cap
      BY <3>1, Zenon DEF PushedTo, Typed, TypeOK
    <3>3. TypeOK'
      BY <3>1, <3>2, Zenon DEF Moved, Typed, TypeOK, Calls, PCs
    <3>4. Carried(t)'
      BY <3>1, Labels, Zenon DEF Moved, Carried
    <3> QED
      BY <1>1, <1>4, <3>1, <3>3, <3>4, Zenon
  <2> QED
    BY <1>8, <2>1, Zenon
<1>10. ASSUME NEW t \in Threads, Close(t) \/ \E l \in Listeners : CloseListener(t, l)
       PROVE  Typed'
  <2>1. lclosed' \in [Listeners -> BOOLEAN] /\ closed' \in BOOLEAN
    BY <1>10, Zenon DEF Close, CloseListener, Typed, TypeOK
  <2>2. UNCHANGED <<limit, listener, lchan, listens, dials, dialed, accepted, connVars, call, panic>>
    BY <1>10, Zenon DEF Close, CloseListener
  <2>3. TypeOK'
    BY <2>1, <2>2, Zenon DEF Typed, TypeOK
  <2> QED
    BY <1>2, <1>4, <2>2, <2>3, Zenon
<1>11. ASSUME NEW t \in Threads,
              \/ \E l \in Listeners : CallAccept(t, l)
              \/ AcceptCheck(t) \/ Cancelled(t)
              \/ \E c \in Conns : CallRecv(t, c) \/ CallClose(t, c)
              \/ SendCheck(t) \/ RecvCheck(t) \/ RecvHooks(t)
       PROVE  Typed'
  <2>1. UNCHANGED <<listenerVars, connVars, panic>>
    BY <1>11, Zenon DEF CallAccept, AcceptCheck, Cancelled, CallRecv, CallClose, SendCheck,
                        RecvCheck, RecvHooks
  <2>2. Carried(t)
    BY Zenon DEF Typed
  <2>3. ASSUME NEW l, NEW on, NEW arg, Moved(t, l, on, arg), Carried(t)'
        PROVE  Typed'
    BY <1>1, <1>5, <2>1, <2>3, Zenon DEF Moved
  <2>4. CASE Moved(t, "idle", None, None)
    <3>1. Carried(t)'
      BY <2>4, Labels, Zenon DEF Moved, Carried
    <3> QED
      BY <2>3, <2>4, <3>1, Zenon
  <2>5. CASE \E l \in Listeners : CallAccept(t, l)
    <3>1. PICK l \in 1 .. listens : Moved(t, "accept_check", l, None)
      BY <2>5, Moving, Zenon
    <3>2. Carried(t)'
      BY <2>1, <3>1, Labels, Zenon DEF Moved, Carried
    <3> QED
      BY <2>3, <3>1, <3>2, Zenon
  <2>6. CASE \E c \in Conns : CallRecv(t, c) \/ CallClose(t, c)
    <3>1. PICK c \in 1 .. dials, l \in {"recv_check", "close_lock"} : Moved(t, l, c, None)
      BY <2>6, Moving, Zenon
    <3>2. Carried(t)'
      BY <2>1, <3>1, Labels, Zenon DEF Moved, Carried
    <3> QED
      BY <2>3, <3>1, <3>2, Zenon
  <2>7. CASE At(t, "accept_check") /\ Moved(t, "accept_select", call[t].on, call[t].arg)
    <3>1. Carried(t)'
      BY <2>1, <2>2, <2>7, Labels, Zenon DEF Moved, Carried, At
    <3> QED
      BY <2>3, <2>7, <3>1, Zenon
  <2>8. CASE At(t, "send_check") /\ Moved(t, "send_select", call[t].on, call[t].arg)
    <3>1. Carried(t)'
      BY <2>1, <2>2, <2>8, Labels, Zenon DEF Moved, Carried, At
    <3> QED
      BY <2>3, <2>8, <3>1, Zenon
  <2>9. CASE At(t, "recv_check") /\ Moved(t, "recv_select", call[t].on, call[t].arg)
    <3>1. Carried(t)'
      BY <2>1, <2>2, <2>9, Labels, Zenon DEF Moved, Carried, At
    <3> QED
      BY <2>3, <2>9, <3>1, Zenon
  <2> QED
    BY <1>11, <2>4, <2>5, <2>6, <2>7, <2>8, <2>9, Moving, Zenon
<1>12. ASSUME NEW t \in Threads, AcceptSelect(t)
       PROVE  Typed'
  <2>1. /\ Moved(t, "idle", None, None)
        /\ UNCHANGED <<limit, closed, listener, lclosed, listens, dials, dialed, connVars, panic>>
    BY <1>12, AcceptSelectDeed, Zenon
  <2>2. accepted' \in [Listeners -> Seq(Conns)] /\ lchan' \in [Listeners -> Seq(Conns)]
    BY <1>12, AcceptSelectDeed, Zenon DEF PoppedFrom, PushedTo, Typed, TypeOK
  <2>3. \A k \in Listeners : Len(lchan'[k]) <= Cap
    BY <1>12, AcceptSelectDeed, Zenon DEF PoppedFrom, Typed, TypeOK
  <2>4. TypeOK'
    BY <2>1, <2>2, <2>3, Zenon DEF Moved, Typed, TypeOK, Calls, PCs
  <2>5. Carried(t)'
    BY <2>1, Labels, Zenon DEF Moved, Carried
  <2> QED
    BY <1>1, <1>4, <2>1, <2>4, <2>5, Zenon
<1>13. ASSUME NEW t \in Threads, NEW c \in Conns, CallSend(t, c)
       PROVE  Typed'
  <2>1. c \in 1 .. dials /\ Moved(t, "send_check", c, next)
    BY <1>13, Moving, Zenon
  <2>2. next + 1 \in 1 .. MaxMsgs + 1 /\ next \in 1 .. (next + 1) - 1 /\ next <= next + 1
    <3>1. /\ next \in 1 .. MaxMsgs + 1 /\ MaxMsgs \in Nat /\ limit.msgs \in 0 .. MaxMsgs
      BY Numbers, Zenon DEF Typed, TypeOK
    <3>2. next <= limit.msgs
      BY <1>13, Zenon DEF CallSend
    <3> QED
      BY <3>1, <3>2
  <2>3. TypeOK'
    BY <1>13, <2>1, <2>2, Zenon DEF CallSend, Moved, Typed, TypeOK, Calls, PCs
  <2>4. Grown
    BY <1>3, <1>13, <2>2, Zenon DEF CallSend, Grown
  <2>5. Carried(t)'
    BY <1>13, <2>1, <2>2, Labels, Zenon DEF CallSend, Moved, Carried
  <2> QED
    BY <1>1, <2>1, <2>3, <2>4, <2>5, Zenon
<1>14. ASSUME NEW t \in Threads, SendSelect(t)
       PROVE  Typed'
  <2>1. CASE ~Panicked
    <3>1. /\ Moved(t, "idle", None, None)
          /\ PushedTo(messages, messages', Conns, Msgs, call[t].on, call[t].arg)
          /\ Len(messages'[call[t].on]) <= Cap
          /\ PushedTo(sent, sent', Conns, Msgs, call[t].on, call[t].arg)
          /\ UNCHANGED <<listenerVars, cclosed, mu, next, received, peeked, panic>>
      BY <1>14, <2>1, SendSelectDeed, Zenon
    <3>2. /\ messages' \in [Conns -> Seq(Msgs)] /\ sent' \in [Conns -> Seq(Msgs)]
          /\ \A d \in Conns : Len(messages'[d]) <= Cap
      BY <3>1, Zenon DEF PushedTo, Typed, TypeOK
    <3>3. TypeOK'
      BY <3>1, <3>2, Zenon DEF Moved, Typed, TypeOK, Calls, PCs
    <3>4. Carried(t)'
      BY <3>1, Labels, Zenon DEF Moved, Carried
    <3> QED
      BY <1>1, <1>4, <3>1, <3>3, <3>4, Zenon
  <2> QED
    BY <1>8, <2>1, Zenon
<1>15. ASSUME NEW t \in Threads, RecvSelect(t)
       PROVE  Typed'
  <2>1. /\ Moved(t, "recv_hooks", call[t].on, call[t].arg)
        /\ call[t].on \in 1 .. dials
        /\ UNCHANGED <<listenerVars, cclosed, mu, next, sent, peeked, panic>>
    BY <1>15, RecvSelectDeed, Zenon
  <2>2. /\ messages' \in [Conns -> Seq(Msgs)] /\ received' \in [Conns -> Seq(Msgs)]
        /\ \A d \in Conns : Len(messages'[d]) <= Cap
    BY <1>15, RecvSelectDeed, Zenon DEF PoppedFrom, PushedTo, Typed, TypeOK
  <2>3. TypeOK'
    BY <2>1, <2>2, Zenon DEF Moved, Typed, TypeOK, Calls, PCs
  <2>4. Carried(t)'
    BY <2>1, Labels, Zenon DEF Moved, Carried
  <2> QED
    BY <1>1, <1>4, <2>1, <2>3, <2>4, Zenon
<1>16. ASSUME NEW t \in Threads, CloseLock(t)
       PROVE  Typed'
  <2>1. Moved(t, "idle", None, None)
    BY <1>16, Moving, Zenon
  <2>2. /\ cclosed' = [cclosed EXCEPT ![call[t].on] = TRUE]
        /\ UNCHANGED <<listenerVars, mu, messages, next, sent, received, peeked, panic>>
        /\ cclosed \in [Conns -> BOOLEAN]
    BY <1>16, Zenon DEF CloseLock, Typed, TypeOK
  <2>3. cclosed' \in [Conns -> BOOLEAN] /\ \A c \in Conns : cclosed[c] => cclosed'[c]
    BY <2>2, Zenon
  <2>4. TypeOK'
    BY <2>1, <2>2, <2>3, Zenon DEF Moved, Typed, TypeOK, Calls, PCs
  <2>5. Carried(t)'
    BY <2>1, Labels, Zenon DEF Moved, Carried
  <2>6. Grown
    BY <1>3, <2>2, <2>3, Zenon DEF Grown
  <2> QED
    BY <1>1, <2>1, <2>4, <2>5, <2>6, Zenon
<1>17. ASSUME NEW t \in Threads, NEW c \in Conns, Peek(t, c)
       PROVE  Typed'
  <2>1. /\ c \in 1 .. dials /\ mu' = [mu EXCEPT ![c] = t] /\ peeked' = peeked \cup {c}
        /\ UNCHANGED <<listenerVars, cclosed, next, sent, received, panic>>
    BY <1>17, PeekDeed, Zenon
  <2>2. PICK m : /\ Moved(t, "peek_back", c, m)
                 /\ m \in Msgs \/ (m = None /\ cclosed[c])
    BY <1>17, PeekDeed, Zenon DEF PoppedFrom
  <2>3. /\ messages' \in [Conns -> Seq(Msgs)] /\ \A d \in Conns : Len(messages'[d]) <= Cap
        /\ peeked' \subseteq Conns
    BY <1>17, <2>1, PeekDeed, Zenon DEF PoppedFrom, Typed, TypeOK
  <2>4. mu' \in [Conns -> Threads \cup {NoThread}]
    BY <2>1, Zenon DEF Typed, TypeOK
  <2>5. TypeOK'
    BY <2>1, <2>2, <2>3, <2>4, Zenon DEF Moved, Typed, TypeOK, Calls, PCs
  <2>6. Carried(t)'
    BY <2>1, <2>2, Labels, Zenon DEF Moved, Carried
  <2> QED
    BY <1>1, <1>4, <2>1, <2>2, <2>5, <2>6, Zenon
<1>18. ASSUME NEW t \in Threads, PeekBack(t)
       PROVE  Typed'
  <2>1. CASE ~Panicked
    <3>1. /\ Moved(t, "idle", None, None)
          /\ PushedTo(messages, messages', Conns, Msgs, call[t].on, call[t].arg)
          /\ Len(messages'[call[t].on]) <= Cap
          /\ mu' = [mu EXCEPT ![call[t].on] = NoThread]
          /\ UNCHANGED <<listenerVars, cclosed, next, sent, received, peeked, panic>>
      BY <1>18, <2>1, PeekBackDeed, Zenon
    <3>2. /\ messages' \in [Conns -> Seq(Msgs)]
          /\ \A d \in Conns : Len(messages'[d]) <= Cap
      BY <3>1, Zenon DEF PushedTo, Typed, TypeOK
    <3>3. mu' \in [Conns -> Threads \cup {NoThread}]
      BY <3>1, Zenon DEF Typed, TypeOK
    <3>4. TypeOK'
      BY <3>1, <3>2, <3>3, Zenon DEF Moved, Typed, TypeOK, Calls, PCs
    <3>5. Carried(t)'
      BY <3>1, Labels, Zenon DEF Moved, Carried
    <3> QED
      BY <1>1, <1>4, <3>1, <3>4, <3>5, Zenon
  <2> QED
    BY <1>8, <2>1, Zenon
<1>19. ASSUME UNCHANGED vars
       PROVE  Typed'
  <2>1. TypeOK'
    BY <1>19, Zenon DEF vars, Typed, TypeOK
  <2> QED
    BY <1>2, <1>4, <1>19, <2>1, Zenon DEF vars
<1> QED
  BY <1>6, <1>7, <1>9, <1>10, <1>11, <1>12, <1>13, <1>14, <1>15, <1>16, <1>17, <1>18, <1>19, Zenon
  DEF Next, Step

\* The mock keeps its state in shape, and its channels within their capacity.
THEOREM TypeCorrect == Spec => []TypeOK
<1>1. Typed => TypeOK
  BY Zenon DEF Typed
<1> QED
  BY <1>1, TypedInit, TypedStep, PTL DEF Spec

-----------------------------------------------------------------------------
(* From Dial to Accept.                                                    *)

\* Every Dial under way has a connection of its own, which nobody has seen.
DialInv ==
    /\ \A l \in Listeners : \A c \in Range(dialed[l]) : c \in 1 .. dials
    /\ \A t \in Threads : call[t].pc = "dial_select" =>
          \A l \in Listeners : call[t].on \notin Range(dialed[l])
    /\ \A t, u \in Threads :
          call[t].pc = "dial_select" /\ call[u].pc = "dial_select" /\ call[t].on = call[u].on => t = u

\* What the other actions leave alone.
LEMMA NotDelivering ==
    ASSUME Typed, [Next]_vars,
           \A t \in Threads : ~CallDial(t) /\ ~DialSelect(t) /\ ~AcceptSelect(t)
    PROVE  /\ UNCHANGED <<dials, dialed, accepted, lchan>>
           /\ \A t \in Threads : call'[t].pc = "dial_select" => call'[t] = call[t]
<1> USE DEF listenerVars, connVars
<1>1. ASSUME NEW t \in Threads, NEW l, l # "dial_select", NEW on, NEW arg, Moved(t, l, on, arg)
      PROVE  \A u \in Threads : call'[u].pc = "dial_select" => call'[u] = call[u]
  BY <1>1, Zenon DEF Moved
<1>2. ASSUME NEW t \in Threads, Listen(t) \/ Close(t) \/ \E l \in Listeners : CloseListener(t, l)
      PROVE  UNCHANGED <<dials, dialed, accepted, lchan, call>>
  BY <1>2, Zenon DEF Listen, Close, CloseListener
<1>3. ASSUME NEW t \in Threads,
             \/ \E l \in Listeners : CallAccept(t, l)
             \/ AcceptCheck(t) \/ Cancelled(t)
             \/ \E c \in Conns : CallRecv(t, c) \/ CallClose(t, c) \/ CallSend(t, c)
             \/ SendCheck(t) \/ RecvCheck(t) \/ RecvHooks(t) \/ RecvSelect(t) \/ CloseLock(t)
      PROVE  /\ UNCHANGED <<dials, dialed, accepted, lchan>>
             /\ \E l \in {"idle", "accept_check", "accept_select", "recv_check", "recv_select",
                          "recv_hooks", "close_lock", "send_check", "send_select"} :
                    \E on, arg : Moved(t, l, on, arg)
  <2>1. UNCHANGED <<dials, dialed, accepted, lchan>>
    BY <1>3, Zenon DEF CallAccept, AcceptCheck, Cancelled, CallRecv, CallClose, CallSend,
                       SendCheck, RecvCheck, RecvHooks, RecvSelect, CloseLock
  <2> QED
    BY <1>3, <2>1, Moving, Zenon
<1>4. ASSUME NEW t \in Threads, \/ \E c \in Conns : Peek(t, c)
                                \/ PeekBack(t) \/ SendSelect(t)
      PROVE  /\ UNCHANGED <<dials, dialed, accepted, lchan>>
             /\ \/ call' = call
                \/ \E l \in {"idle", "peek_back"} : \E on, arg : Moved(t, l, on, arg)
  BY <1>4, PeekDeed, PeekBackDeed, SendSelectDeed, Zenon DEF Panicked
<1>5. ASSUME UNCHANGED vars
      PROVE  UNCHANGED <<dials, dialed, accepted, lchan, call>>
  BY <1>5, Zenon DEF vars
<1>6. CASE \E t \in Threads : Listen(t) \/ Close(t) \/ \E l \in Listeners : CloseListener(t, l)
  BY <1>2, <1>6, Zenon
<1>7. CASE \E t \in Threads :
              \/ \E l \in Listeners : CallAccept(t, l)
              \/ AcceptCheck(t) \/ Cancelled(t)
              \/ \E c \in Conns : CallRecv(t, c) \/ CallClose(t, c) \/ CallSend(t, c)
              \/ SendCheck(t) \/ RecvCheck(t) \/ RecvHooks(t) \/ RecvSelect(t) \/ CloseLock(t)
  BY <1>1, <1>3, <1>7, Zenon
<1>8. CASE \E t \in Threads : (\E c \in Conns : Peek(t, c)) \/ PeekBack(t) \/ SendSelect(t)
  BY <1>1, <1>4, <1>8, Zenon
<1>9. CASE UNCHANGED vars
  BY <1>5, <1>9, Zenon
<1> QED
  BY <1>6, <1>7, <1>8, <1>9, Zenon DEF Next, Step

LEMMA DeliverInit == Init => DialInv /\ DialedAreDelivered
<1> SUFFICES ASSUME Init
             PROVE  DialInv /\ DialedAreDelivered
  BY Zenon
<1>1. /\ \A t \in Threads : call[t].pc # "dial_select"
      /\ \A l \in Listeners : dialed[l] = <<>> /\ accepted[l] = <<>> /\ lchan[l] = <<>>
  BY Zenon DEF Init, NoCall
<1>2. Range(<<>>) = {} /\ IsInjective(<<>>) /\ <<>> = <<>> \o <<>>
  BY DEF Range, IsInjective
<1> QED
  BY <1>1, <1>2, Zenon DEF DialInv, DialedAreDelivered

LEMMA DialStep == Typed /\ DialInv /\ [Next]_vars => DialInv'
<1> SUFFICES ASSUME Typed, DialInv, [Next]_vars
             PROVE  DialInv'
  BY Zenon
<1>1. CASE \A t \in Threads : ~CallDial(t) /\ ~DialSelect(t) /\ ~AcceptSelect(t)
  BY <1>1, NotDelivering, Zenon DEF DialInv
<1>2. ASSUME NEW t \in Threads, CallDial(t)
      PROVE  DialInv'
  <2>1. /\ Moved(t, "dial_select", dials + 1, listener)
        /\ dials' = dials + 1 /\ dialed' = dialed
    BY <1>2, Moving, Zenon DEF CallDial
  <2>2. /\ \A i \in 1 .. dials : i \in 1 .. dials' /\ i # dials + 1
        /\ \A u \in Threads : call[u].pc = "dial_select" => call[u].on \in 1 .. dials
    BY <2>1, Numbers DEF Typed, Carried
  <2> QED
    BY <2>1, <2>2, Zenon DEF DialInv, Moved
<1>3. ASSUME NEW t \in Threads, DialSelect(t)
      PROVE  DialInv'
  <2>1. CASE Panicked
    BY <2>1, Zenon DEF Panicked, listenerVars, DialInv
  <2>2. CASE ~Panicked
    <3>1. /\ call[t].pc = "dial_select" /\ call[t].on \in 1 .. dials
          /\ Moved(t, "idle", None, None)
          /\ PushedTo(dialed, dialed', Listeners, Conns, call[t].arg, call[t].on)
          /\ dials' = dials
      BY <1>3, <2>2, DialSelectDeed, Zenon
    <3>2. \A k \in Listeners : \A d \in Range(dialed'[k]) :
              d \in Range(dialed[k]) \/ d = call[t].on
      BY <3>1, Zenon DEF PushedTo
    <3>3. \A u \in Threads : call'[u].pc = "dial_select" => u # t /\ call'[u] = call[u]
      BY <3>1, Zenon DEF Moved
    <3>4. \A u \in Threads : call'[u].pc = "dial_select" => call'[u].on # call[t].on
      BY <3>1, <3>3, Zenon DEF DialInv
    <3>5. \A u \in Threads : call'[u].pc = "dial_select" =>
              \A k \in Listeners : call'[u].on \notin Range(dialed'[k])
      BY <3>2, <3>3, <3>4, Zenon DEF DialInv
    <3>6. \A k \in Listeners : \A d \in Range(dialed'[k]) : d \in 1 .. dials'
      BY <3>1, <3>2, Zenon DEF DialInv
    <3> QED
      BY <3>3, <3>5, <3>6, Zenon DEF DialInv
  <2> QED
    BY <2>1, <2>2, Zenon
<1>4. ASSUME NEW t \in Threads, AcceptSelect(t)
      PROVE  DialInv'
  <2>1. Moved(t, "idle", None, None) /\ UNCHANGED <<dials, dialed>>
    BY <1>4, AcceptSelectDeed, Zenon
  <2> QED
    BY <2>1, Zenon DEF DialInv, Moved
<1> QED
  BY <1>1, <1>2, <1>3, <1>4, Zenon

LEMMA DeliverStep ==
    Typed /\ DialInv /\ DialedAreDelivered /\ [Next]_vars => DialedAreDelivered'
<1> SUFFICES ASSUME Typed, DialInv, DialedAreDelivered, [Next]_vars
             PROVE  DialedAreDelivered'
  BY Zenon
<1>1. ASSUME UNCHANGED <<dialed, accepted, lchan>>
      PROVE  DialedAreDelivered'
  BY <1>1, Zenon DEF DialedAreDelivered
<1>2. CASE \A t \in Threads : ~CallDial(t) /\ ~DialSelect(t) /\ ~AcceptSelect(t)
  BY <1>1, <1>2, NotDelivering, Zenon
<1>3. ASSUME NEW t \in Threads, CallDial(t)
      PROVE  DialedAreDelivered'
  BY <1>1, <1>3, Zenon DEF CallDial
<1>4. ASSUME NEW t \in Threads, DialSelect(t), ~Panicked
      PROVE  DialedAreDelivered'
  <2> DEFINE l == call[t].arg
             c == call[t].on
  <2>1. /\ call[t].pc = "dial_select"
        /\ PushedTo(lchan, lchan', Listeners, Conns, l, c)
        /\ PushedTo(dialed, dialed', Listeners, Conns, l, c)
        /\ accepted' = accepted
    BY <1>4, DialSelectDeed, Zenon
  <2>2. /\ l \in Listeners /\ c \in Conns
        /\ lchan[l] \in Seq(Conns) /\ accepted[l] \in Seq(Conns) /\ dialed[l] \in Seq(Conns)
        /\ lchan'[l] = Append(lchan[l], c) /\ dialed'[l] = Append(dialed[l], c)
        /\ Range(dialed'[l]) = Range(dialed[l]) \cup {c}
        /\ \A k \in Listeners : k # l => lchan'[k] = lchan[k] /\ dialed'[k] = dialed[k]
    BY <2>1, Zenon DEF PushedTo, Typed, TypeOK
  <2>3. \A k \in Listeners : c \notin Range(dialed[k])
    BY <2>1, Zenon DEF DialInv
  <2>4. dialed[l] = accepted[l] \o lchan[l] /\ IsInjective(dialed[l])
    BY <2>2, Zenon DEF DialedAreDelivered
  <2>5. dialed'[l] = accepted'[l] \o lchan'[l]
    <3>1. Joins(dialed[l], accepted[l], lchan[l])
      BY <2>4, Zenon DEF Joins
    <3>2. Joins(Append(dialed[l], c), accepted[l], Append(lchan[l], c))
      BY <2>2, <3>1, AppendJoined, Zenon
    <3> QED
      BY <2>1, <2>2, <3>2, Zenon DEF Joins
  <2>6. IsInjective(dialed'[l])
    <3>1. IsInjective(Append(dialed[l], c))
      BY <2>2, <2>3, <2>4, AppendDistinct, Zenon
    <3>2. dialed'[l] = Append(dialed[l], c)
      BY <2>2, Zenon
    <3> QED
      BY <3>1, <3>2, ZenonT(30)
  <2>7. \A k \in Listeners : dialed'[k] = accepted'[k] \o lchan'[k] /\ IsInjective(dialed'[k])
    BY <2>1, <2>2, <2>5, <2>6, Zenon DEF DialedAreDelivered
  <2>8. ASSUME NEW k \in Listeners, NEW j \in Listeners, k # j, NEW d,
               d \in Range(dialed'[k]), d \in Range(dialed'[j])
        PROVE  FALSE
    <3>1. d \in Range(dialed[k]) \/ (k = l /\ d = c)
      BY <2>2, <2>8, Zenon
    <3>2. d \in Range(dialed[j]) \/ (j = l /\ d = c)
      BY <2>2, <2>8, Zenon
    <3>3. ~(d \in Range(dialed[k]) /\ d \in Range(dialed[j]))
      BY <2>8, Zenon DEF DialedAreDelivered
    <3> QED
      BY <2>3, <2>8, <3>1, <3>2, <3>3, Zenon
  <2> QED
    BY <2>7, <2>8, Zenon DEF DialedAreDelivered
<1>5. ASSUME NEW t \in Threads, AcceptSelect(t), ~UNCHANGED <<lchan, accepted>>
      PROVE  DialedAreDelivered'
  <2> DEFINE l == call[t].on
  <2>1. /\ PoppedFrom(lchan, lchan', Listeners, Conns, l)
        /\ PushedTo(accepted, accepted', Listeners, Conns, l, Head(lchan[l]))
        /\ dialed' = dialed
    BY <1>5, AcceptSelectDeed, Zenon
  <2>2. /\ l \in Listeners /\ lchan[l] # <<>>
        /\ lchan[l] \in Seq(Conns) /\ accepted[l] \in Seq(Conns)
        /\ lchan'[l] = Tail(lchan[l]) /\ accepted'[l] = Append(accepted[l], Head(lchan[l]))
        /\ \A k \in Listeners : k # l => lchan'[k] = lchan[k] /\ accepted'[k] = accepted[k]
    BY <2>1, Zenon DEF PoppedFrom, PushedTo, Typed, TypeOK
  <2>3. Append(accepted[l], Head(lchan[l])) \o Tail(lchan[l]) = accepted[l] \o lchan[l]
    BY <2>2, HandOver, Zenon
  <2>4. \A k \in Listeners : accepted'[k] \o lchan'[k] = accepted[k] \o lchan[k]
    BY <2>2, <2>3, Zenon
  <2> QED
    BY <2>1, <2>4, Zenon DEF DialedAreDelivered
<1>6. ASSUME NEW t \in Threads, AcceptSelect(t), UNCHANGED <<lchan, accepted>>
      PROVE  DialedAreDelivered'
  BY <1>1, <1>6, AcceptSelectDeed, Zenon
<1>7. CASE Panicked
  BY <1>1, <1>7, Zenon DEF Panicked, listenerVars
<1> QED
  BY <1>2, <1>3, <1>4, <1>5, <1>6, <1>7, Zenon

\* Every connection Dial has returned is accepted once, in the order of the
\* Dials, at the listener it was dialed at, or waits there and nowhere else.
THEOREM DialDelivers == Spec => []DialedAreDelivered
BY TypedInit, TypedStep, DeliverInit, DialStep, DeliverStep, PTL DEF Spec

-----------------------------------------------------------------------------
(* From Send to Recv.                                                      *)

\* PeekMessage holds the lock of its connection.
PeekInv ==
    \A t \in Threads : call[t].pc = "peek_back" => mu[call[t].on] = t /\ call[t].on \in peeked

\* Every Send under way has a message of its own, which is in no channel yet.
FreshInv ==
    /\ \A c \in Conns : Range(sent[c]) \subseteq 1 .. next - 1
    /\ \A t \in Threads : call[t].pc \in SendPC => \A c \in Conns : call[t].arg \notin Range(sent[c])
    /\ \A t, u \in Threads :
          call[t].pc \in SendPC /\ call[u].pc \in SendPC /\ call[t].arg = call[u].arg => t = u

\* As long as nobody peeks, the channel is a queue.
OrderInv == \A c \in Conns : c \notin peeked => sent[c] = received[c] \o messages[c]

\* A message that was sent is in one place.
Placed(c) ==
    /\ Range(sent[c]) = UNION {Range(received[c]), Range(messages[c]), InHand(c)}
    /\ IsInjective(received[c]) /\ IsInjective(messages[c])
    /\ \A m \in Range(received[c]) : m \notin Range(messages[c])
    /\ \A m \in InHand(c) : m \notin Range(messages[c]) /\ m \notin Range(received[c])

PlaceInv == \A c \in Conns : Placed(c)

\* What the actions that use no channel of messages leave alone.
Quiet ==
    /\ UNCHANGED <<mu, messages, next, sent, received, peeked>>
    /\ \A t \in Threads :
          /\ call'[t].pc \in SendPC => call[t].pc \in SendPC /\ call'[t].arg = call[t].arg
          /\ call'[t].pc = "peek_back" => call'[t] = call[t]
          /\ call[t].pc = "peek_back" => call'[t] = call[t]

LEMMA QuietActions ==
    ASSUME Typed, [Next]_vars,
           \A t \in Threads : /\ ~SendSelect(t) /\ ~RecvSelect(t) /\ ~PeekBack(t)
                              /\ \A c \in Conns : ~CallSend(t, c) /\ ~Peek(t, c)
    PROVE  Quiet
<1> USE DEF listenerVars, connVars
<1>1. ASSUME NEW t \in Threads, call[t].pc # "peek_back",
             NEW l, l \notin SendPC, l # "peek_back", NEW on, NEW arg, Moved(t, l, on, arg),
             UNCHANGED <<mu, messages, next, sent, received, peeked>>
      PROVE  Quiet
  BY <1>1, Zenon DEF Moved, Quiet
<1>2. ASSUME UNCHANGED <<mu, messages, next, sent, received, peeked, call>>
      PROVE  Quiet
  BY <1>2, Zenon DEF Quiet
<1>3. ASSUME NEW t \in Threads, Listen(t) \/ Close(t) \/ \E l \in Listeners : CloseListener(t, l)
      PROVE  Quiet
  BY <1>2, <1>3, Zenon DEF Listen, Close, CloseListener
<1>4. ASSUME NEW t \in Threads,
             \/ CallDial(t) \/ \E l \in Listeners : CallAccept(t, l)
             \/ AcceptCheck(t) \/ Cancelled(t)
             \/ \E c \in Conns : CallRecv(t, c) \/ CallClose(t, c)
             \/ RecvCheck(t) \/ RecvHooks(t) \/ CloseLock(t) \/ AcceptSelect(t)
      PROVE  Quiet
  <2>1. UNCHANGED <<mu, messages, next, sent, received, peeked>>
    BY <1>4, Zenon DEF CallDial, CallAccept, AcceptCheck, Cancelled, CallRecv, CallClose,
                       RecvCheck, RecvHooks, CloseLock, AcceptSelect
  <2>2. PICK l \in {"idle", "dial_select", "accept_check", "accept_select", "recv_check",
                    "recv_select", "close_lock"} : \E on, arg : Moved(t, l, on, arg)
    BY <1>4, Moving, Zenon
  <2>3. call[t].pc # "peek_back"
    BY <1>4, Moving, Zenon DEF Cancelled, At
  <2>4. l \notin SendPC /\ l # "peek_back"
    BY <2>2, Labels, Zenon
  <2> QED
    BY <1>1, <2>1, <2>2, <2>3, <2>4, Zenon
<1>5. ASSUME NEW t \in Threads, SendCheck(t)
      PROVE  Quiet
  <2>1. /\ UNCHANGED <<mu, messages, next, sent, received, peeked>>
        /\ call[t].pc = "send_check"
        /\ \/ Moved(t, "idle", None, None)
           \/ Moved(t, "send_select", call[t].on, call[t].arg)
    BY <1>5, Moving, Zenon DEF SendCheck, At
  <2>2. CASE Moved(t, "idle", None, None)
    <3>1. "idle" \notin SendPC
      BY Labels, Zenon
    <3> QED
      BY <1>1, <2>1, <2>2, <3>1, Zenon
  <2>3. CASE Moved(t, "send_select", call[t].on, call[t].arg)
    BY <2>1, <2>3, Labels, Zenon DEF Moved, Quiet
  <2> QED
    BY <2>1, <2>2, <2>3, Zenon
<1>6. ASSUME NEW t \in Threads, DialSelect(t)
      PROVE  Quiet
  <2>1. "idle" \notin SendPC
    BY Labels
  <2> QED
    BY <1>1, <1>2, <1>6, <2>1, DialSelectDeed, Zenon DEF Panicked
<1>7. CASE UNCHANGED vars
  BY <1>2, <1>7, Zenon DEF vars
<1> QED
  BY <1>3, <1>4, <1>5, <1>6, <1>7, Zenon DEF Next, Step

LEMMA PeekStep == Typed /\ PeekInv /\ [Next]_vars => PeekInv'
<1> SUFFICES ASSUME Typed, PeekInv, [Next]_vars
             PROVE  PeekInv'
  BY Zenon
<1>1. CASE Quiet
  BY <1>1, Zenon DEF Quiet, PeekInv
<1>2. CASE Panicked
  BY <1>2, Zenon DEF Panicked, connVars, PeekInv
<1>3. ASSUME NEW t \in Threads, NEW l, l # "peek_back", NEW on, NEW arg, Moved(t, l, on, arg),
             UNCHANGED <<mu, peeked>>
      PROVE  PeekInv'
  BY <1>3, Zenon DEF Moved, PeekInv
<1>4. ASSUME NEW t \in Threads, \/ \E c \in Conns : CallSend(t, c)
                                \/ SendSelect(t) \/ RecvSelect(t)
      PROVE  PeekInv'
  BY <1>2, <1>3, <1>4, Moving, SendSelectDeed, RecvSelectDeed, Zenon DEF CallSend
<1>5. ASSUME NEW t \in Threads, NEW c \in Conns, Peek(t, c)
      PROVE  PeekInv'
  <2>1. /\ mu[c] = NoThread /\ mu' = [mu EXCEPT ![c] = t] /\ peeked' = peeked \cup {c}
        /\ mu \in [Conns -> Threads \cup {NoThread}]
        /\ \E m : Moved(t, "peek_back", c, m)
    BY <1>5, PeekDeed, Zenon DEF Typed, TypeOK
  <2>2. mu'[c] = t /\ \A d \in Conns : d # c => mu'[d] = mu[d]
    BY <2>1, Zenon
  <2>3. ASSUME NEW u \in Threads, u # t, call'[u].pc = "peek_back"
        PROVE  mu'[call'[u].on] = u /\ call'[u].on \in peeked'
    <3>1. call'[u] = call[u] /\ mu[call[u].on] = u /\ call[u].on \in peeked
      BY <2>1, <2>3, Zenon DEF Moved, PeekInv
    <3>2. call[u].on \in Conns
      BY <3>1, Zenon DEF Typed, TypeOK
    <3>3. call[u].on # c
      BY <2>1, <3>1, NoThreadAssumption, Zenon
    <3> QED
      BY <2>1, <2>2, <3>1, <3>2, <3>3, Zenon
  <2>4. mu'[call'[t].on] = t /\ call'[t].on \in peeked'
    BY <2>1, <2>2, Zenon DEF Moved
  <2> QED
    BY <2>3, <2>4, Zenon DEF PeekInv
<1>6. ASSUME NEW t \in Threads, PeekBack(t), ~Panicked
      PROVE  PeekInv'
  <2>1. /\ call[t].pc = "peek_back"
        /\ Moved(t, "idle", None, None) /\ mu' = [mu EXCEPT ![call[t].on] = NoThread]
        /\ mu \in [Conns -> Threads \cup {NoThread}] /\ peeked' = peeked /\ peeked \subseteq Conns
    BY <1>6, PeekBackDeed, Zenon DEF Typed, TypeOK
  <2>2. \A d \in Conns : d # call[t].on => mu'[d] = mu[d]
    BY <2>1, Zenon
  <2>3. ASSUME NEW u \in Threads, call'[u].pc = "peek_back"
        PROVE  mu'[call'[u].on] = u /\ call'[u].on \in peeked'
    <3>1. u # t /\ call'[u] = call[u] /\ mu[call[u].on] = u /\ call[u].on \in peeked
      BY <2>1, <2>3, Zenon DEF Moved, PeekInv
    <3>2. call[u].on \in Conns /\ call[u].on # call[t].on
      BY <2>1, <3>1, Zenon DEF PeekInv
    <3> QED
      BY <2>1, <2>2, <3>1, <3>2, Zenon
  <2> QED
    BY <2>3, Zenon DEF PeekInv
<1> QED
  BY <1>1, <1>2, <1>4, <1>5, <1>6, QuietActions, Zenon

LEMMA FreshStep == Typed /\ FreshInv /\ [Next]_vars => FreshInv'
<1> SUFFICES ASSUME Typed, FreshInv, [Next]_vars
             PROVE  FreshInv'
  BY Zenon
<1>1. CASE Quiet
  BY <1>1, Zenon DEF Quiet, FreshInv
<1>2. CASE Panicked
  BY <1>2, Zenon DEF Panicked, connVars, FreshInv
<1>3. ASSUME NEW t \in Threads, NEW l, l \notin SendPC, NEW on, NEW arg, Moved(t, l, on, arg),
             UNCHANGED <<next, sent>>
      PROVE  FreshInv'
  BY <1>3, Zenon DEF Moved, FreshInv
<1>4. ASSUME NEW t \in Threads, \/ \E c \in Conns : Peek(t, c)
                                \/ PeekBack(t) /\ ~Panicked
                                \/ RecvSelect(t)
      PROVE  FreshInv'
  <2>1. "idle" \notin SendPC /\ "recv_hooks" \notin SendPC /\ "peek_back" \notin SendPC
    BY Labels, Zenon
  <2> QED
    BY <1>3, <1>4, <2>1, PeekDeed, PeekBackDeed, RecvSelectDeed, Zenon
<1>5. ASSUME NEW t \in Threads, NEW c \in Conns, CallSend(t, c)
      PROVE  FreshInv'
  <2>1. next' = next + 1 /\ sent' = sent /\ Moved(t, "send_check", c, next)
    BY <1>5, Moving, Zenon DEF CallSend
  <2>2. \A i \in 1 .. next - 1 : i \in 1 .. next' - 1 /\ i # next
    BY <2>1, Numbers DEF Typed
  <2>3. \A u \in Threads : call[u].pc \in SendPC => call[u].arg \in 1 .. next - 1
    BY Zenon DEF Typed, Carried
  <2>4. \A d \in Conns : next \notin Range(sent[d])
    BY <2>2, Zenon DEF FreshInv
  <2>5. \A d \in Conns : Range(sent'[d]) \subseteq 1 .. next' - 1
    BY <2>1, <2>2, Zenon DEF FreshInv
  <2> QED
    BY <2>1, <2>2, <2>3, <2>4, <2>5, Zenon DEF Moved, FreshInv
<1>6. ASSUME NEW t \in Threads, SendSelect(t), ~Panicked
      PROVE  FreshInv'
  <2>1. /\ call[t].pc \in SendPC /\ Moved(t, "idle", None, None)
        /\ PushedTo(sent, sent', Conns, Msgs, call[t].on, call[t].arg)
        /\ next' = next
    BY <1>6, SendSelectDeed, Labels, Zenon
  <2>2. "idle" \notin SendPC
    BY Labels, Zenon
  <2>3. \A d \in Conns : \A m \in Range(sent'[d]) : m \in Range(sent[d]) \/ m = call[t].arg
    BY <2>1, Zenon DEF PushedTo
  <2>4. call[t].arg \in 1 .. next - 1
    BY <2>1, Zenon DEF Typed, Carried
  <2>5. \A d \in Conns : Range(sent'[d]) \subseteq 1 .. next' - 1
    BY <2>1, <2>3, <2>4, Zenon DEF FreshInv
  <2>6. \A u \in Threads : call'[u].pc \in SendPC =>
            /\ u # t /\ call'[u] = call[u] /\ call[u].arg # call[t].arg
    BY <2>1, <2>2, Zenon DEF Moved, FreshInv
  <2>7. \A u \in Threads : call'[u].pc \in SendPC =>
            \A d \in Conns : call'[u].arg \notin Range(sent'[d])
    BY <2>3, <2>6, Zenon DEF FreshInv
  <2> QED
    BY <2>5, <2>6, <2>7, Zenon DEF FreshInv
<1> QED
  BY <1>1, <1>2, <1>4, <1>5, <1>6, QuietActions, Zenon

LEMMA OrderStep == Typed /\ PeekInv /\ OrderInv /\ [Next]_vars => OrderInv'
<1> SUFFICES ASSUME Typed, PeekInv, OrderInv, [Next]_vars
             PROVE  OrderInv'
  BY Zenon
<1> USE DEF connVars
<1>1. ASSUME UNCHANGED <<messages, sent, received, peeked>>
      PROVE  OrderInv'
  BY <1>1, Zenon DEF OrderInv
<1>2. CASE Quiet \/ Panicked \/ \E t \in Threads, c \in Conns : CallSend(t, c)
  BY <1>1, <1>2, Zenon DEF Quiet, Panicked, CallSend
<1>3. ASSUME NEW t \in Threads, SendSelect(t), ~Panicked
      PROVE  OrderInv'
  <2> DEFINE c == call[t].on
             m == call[t].arg
  <2>1. /\ PushedTo(messages, messages', Conns, Msgs, c, m)
        /\ PushedTo(sent, sent', Conns, Msgs, c, m)
        /\ UNCHANGED <<received, peeked>>
    BY <1>3, SendSelectDeed, Zenon
  <2>2. /\ c \in Conns /\ m \in Msgs /\ received[c] \in Seq(Msgs) /\ messages[c] \in Seq(Msgs)
        /\ sent'[c] = Append(sent[c], m) /\ messages'[c] = Append(messages[c], m)
    BY <2>1, Zenon DEF PushedTo, Typed, TypeOK
  <2>3. c \notin peeked => sent'[c] = received'[c] \o messages'[c]
    <3>1. c \notin peeked => sent[c] = received[c] \o messages[c]
      BY <2>2, Zenon DEF OrderInv
    <3>2. Joins(sent[c], received[c], messages[c]) => Joins(sent'[c], received[c], messages'[c])
      BY <2>2, AppendJoined, Zenon
    <3> QED
      BY <2>1, <3>1, <3>2, Zenon DEF Joins
  <2>4. \A d \in Conns : d # c => sent'[d] = sent[d] /\ messages'[d] = messages[d]
    BY <2>1, Zenon DEF PushedTo
  <2> QED
    BY <2>1, <2>3, <2>4, Zenon DEF OrderInv
<1>4. ASSUME NEW t \in Threads, RecvSelect(t)
      PROVE  OrderInv'
  <2> DEFINE c == call[t].on
  <2>1. CASE UNCHANGED <<messages, received>>
    BY <1>1, <1>4, <2>1, RecvSelectDeed, Zenon
  <2>2. CASE ~UNCHANGED <<messages, received>>
    <3>1. /\ PoppedFrom(messages, messages', Conns, Msgs, c)
          /\ PushedTo(received, received', Conns, Msgs, c, Head(messages[c]))
          /\ UNCHANGED <<sent, peeked>>
      BY <1>4, <2>2, RecvSelectDeed, Zenon
    <3>2. /\ c \in Conns /\ received[c] \in Seq(Msgs) /\ messages[c] \in Seq(Msgs)
          /\ messages[c] # <<>>
          /\ messages'[c] = Tail(messages[c])
          /\ received'[c] = Append(received[c], Head(messages[c]))
      BY <3>1, Zenon DEF PushedTo, PoppedFrom, Typed, TypeOK
    <3>3. Append(received[c], Head(messages[c])) \o Tail(messages[c]) = received[c] \o messages[c]
      BY <3>2, HandOver, Zenon
    <3>4. received'[c] \o messages'[c] = received[c] \o messages[c]
      BY <3>2, <3>3, Zenon
    <3>5. \A d \in Conns : d # c => received'[d] = received[d] /\ messages'[d] = messages[d]
      BY <3>1, Zenon DEF PushedTo, PoppedFrom
    <3> QED
      BY <3>1, <3>4, <3>5, Zenon DEF OrderInv
  <2> QED
    BY <2>1, <2>2, Zenon
<1>5. ASSUME NEW t \in Threads, NEW c \in Conns, Peek(t, c)
      PROVE  OrderInv'
  <2>1. /\ UNCHANGED <<sent, received>> /\ peeked' = peeked \cup {c}
        /\ \A d \in Conns : d # c => messages'[d] = messages[d]
    BY <1>5, PeekDeed, Zenon DEF PoppedFrom
  <2> QED
    BY <2>1, Zenon DEF OrderInv
<1>6. ASSUME NEW t \in Threads, PeekBack(t), ~Panicked
      PROVE  OrderInv'
  <2>1. /\ UNCHANGED <<sent, received, peeked>> /\ call[t].on \in peeked
        /\ \A d \in Conns : d # call[t].on => messages'[d] = messages[d]
    BY <1>6, PeekBackDeed, Zenon DEF PushedTo, PeekInv
  <2> QED
    BY <2>1, Zenon DEF OrderInv
<1> QED
  BY <1>2, <1>3, <1>4, <1>5, <1>6, QuietActions, Zenon

LEMMA PlaceStep == Typed /\ PeekInv /\ FreshInv /\ PlaceInv /\ [Next]_vars => PlaceInv'
<1> SUFFICES ASSUME Typed, PeekInv, FreshInv, PlaceInv, [Next]_vars, NEW d \in Conns
             PROVE  Placed(d)'
  BY Zenon DEF PlaceInv
<1> USE DEF connVars
<1>0. /\ \A m : m \in InHand(d) <=>
          /\ m # None
          /\ \E t \in Threads : call[t].pc = "peek_back" /\ call[t].on = d /\ call[t].arg = m
      /\ \A m : m \in InHand(d)' <=>
          /\ m # None
          /\ \E t \in Threads : call'[t].pc = "peek_back" /\ call'[t].on = d /\ call'[t].arg = m
  BY Zenon DEF InHand
<1>1. /\ Placed(d)
      /\ messages[d] \in Seq(Msgs) /\ received[d] \in Seq(Msgs) /\ sent[d] \in Seq(Msgs)
      /\ IsInjective(received[d]) /\ IsInjective(messages[d])
  BY Zenon DEF PlaceInv, Placed, Typed, TypeOK
<1>2. ASSUME sent'[d] = sent[d], received'[d] = received[d], messages'[d] = messages[d],
             InHand(d)' = InHand(d)
      PROVE  Placed(d)'
  BY <1>1, <1>2, Zenon DEF Placed
<1>3. ASSUME NEW t \in Threads, NEW l, NEW on, NEW arg, Moved(t, l, on, arg),
             call[t].pc # "peek_back" \/ call[t].on # d, l # "peek_back" \/ on # d
      PROVE  InHand(d)' = InHand(d)
  <2>1. \A m : m \in InHand(d)' <=> m \in InHand(d)
    BY <1>0, <1>3 DEF Moved
  <2> QED
    BY <2>1, Zenon
<1>4. CASE Quiet
  <2>1. \A m : m \in InHand(d)' <=> m \in InHand(d)
    BY <1>0, <1>4 DEF Quiet
  <2>2. InHand(d)' = InHand(d)
    BY <2>1, Zenon
  <2> QED
    BY <1>2, <1>4, <2>2, Zenon DEF Quiet
<1>5. CASE Panicked
  <2>1. InHand(d)' = InHand(d)
    BY <1>5, Zenon DEF Panicked, InHand
  <2> QED
    BY <1>2, <1>5, <2>1, Zenon DEF Panicked
<1>6. ASSUME NEW t \in Threads, NEW c \in Conns, CallSend(t, c)
      PROVE  Placed(d)'
  <2>1. /\ UNCHANGED <<messages, sent, received>> /\ call[t].pc = "idle"
        /\ Moved(t, "send_check", c, next)
    BY <1>6, Moving, Zenon DEF CallSend, At
  <2>2. InHand(d)' = InHand(d)
    BY <1>3, <2>1, Zenon
  <2> QED
    BY <1>2, <2>1, <2>2, Zenon
<1>7. ASSUME NEW t \in Threads, SendSelect(t), ~Panicked
      PROVE  Placed(d)'
  <2> DEFINE m == call[t].arg
  <2>1. /\ PushedTo(messages, messages', Conns, Msgs, call[t].on, m)
        /\ PushedTo(sent, sent', Conns, Msgs, call[t].on, m)
        /\ received' = received /\ call[t].pc = "send_select"
        /\ Moved(t, "idle", None, None)
    BY <1>7, SendSelectDeed, Zenon
  <2>2. InHand(d)' = InHand(d)
    BY <1>3, <2>1, Zenon
  <2>3. CASE call[t].on # d
    BY <1>2, <2>1, <2>2, <2>3, Zenon DEF PushedTo
  <2>4. CASE call[t].on = d
    <3>1. /\ m \in Msgs /\ messages'[d] = Append(messages[d], m)
          /\ Range(messages'[d]) = Range(messages[d]) \cup {m}
          /\ Range(sent'[d]) = Range(sent[d]) \cup {m}
      BY <2>1, <2>4, Zenon DEF PushedTo
    <3>2. m \notin Range(sent[d])
      BY <2>1, Labels, Zenon DEF FreshInv
    <3>3. m \notin Range(messages[d]) /\ m \notin Range(received[d]) /\ m \notin InHand(d)
      BY <1>1, <3>2, Zenon DEF Placed
    <3>4. IsInjective(messages'[d])
      BY <1>1, <3>1, <3>3, AppendDistinct
    <3>5. Range(sent'[d]) = UNION {Range(received'[d]), Range(messages'[d]), InHand(d)'}
      BY <1>1, <2>1, <2>2, <3>1, Zenon DEF Placed
    <3> QED
      BY <1>1, <2>1, <2>2, <3>1, <3>3, <3>4, <3>5, Zenon DEF Placed
  <2> QED
    BY <2>3, <2>4, Zenon
<1>8. ASSUME NEW t \in Threads, RecvSelect(t)
      PROVE  Placed(d)'
  <2>1. /\ Moved(t, "recv_hooks", call[t].on, call[t].arg) /\ call[t].pc = "recv_select"
        /\ sent' = sent
    BY <1>8, RecvSelectDeed, Zenon
  <2>2. InHand(d)' = InHand(d)
    BY <1>3, <2>1
  <2>3. CASE UNCHANGED <<messages, received>>
    BY <1>2, <2>1, <2>2, <2>3, Zenon
  <2>4. CASE ~UNCHANGED <<messages, received>>
    <3>1. /\ PoppedFrom(messages, messages', Conns, Msgs, call[t].on)
          /\ PushedTo(received, received', Conns, Msgs, call[t].on, Head(messages[call[t].on]))
      BY <1>8, <2>4, RecvSelectDeed, Zenon
    <3>2. CASE call[t].on # d
      BY <1>2, <2>1, <2>2, <3>1, <3>2, Zenon DEF PushedTo, PoppedFrom
    <3>3. CASE call[t].on = d
      <4> DEFINE m == Head(messages[d])
      <4>1. /\ m \in Msgs /\ messages[d] # <<>>
            /\ messages'[d] = Tail(messages[d]) /\ received'[d] = Append(received[d], m)
            /\ Range(messages[d]) = Range(messages'[d]) \cup {m}
            /\ Range(received'[d]) = Range(received[d]) \cup {m}
        BY <3>1, <3>3, Zenon DEF PushedTo, PoppedFrom
      <4>2. IsInjective(messages'[d]) /\ m \notin Range(messages'[d])
        BY <1>1, <4>1, TailDistinct, Zenon
      <4>3. m \notin Range(received[d]) /\ m \notin InHand(d)
        BY <1>1, <4>1, Zenon DEF Placed
      <4>4. IsInjective(received'[d])
        BY <1>1, <4>1, <4>3, AppendDistinct
      <4>5. Range(sent'[d]) = UNION {Range(received'[d]), Range(messages'[d]), InHand(d)'}
        <5>1. Range(sent[d]) = Range(received[d]) \cup Range(messages[d]) \cup InHand(d)
          BY <1>1, Zenon DEF Placed
        <5> QED
          BY <2>1, <2>2, <4>1, <5>1, Zenon
      <4> QED
        BY <1>1, <2>2, <4>1, <4>2, <4>3, <4>4, <4>5, Zenon DEF Placed
    <3> QED
      BY <3>2, <3>3, Zenon
  <2> QED
    BY <2>3, <2>4, Zenon
<1>9. ASSUME NEW t \in Threads, NEW c \in Conns, Peek(t, c)
      PROVE  Placed(d)'
  <2>1. /\ call[t].pc = "idle" /\ mu[c] = NoThread /\ UNCHANGED <<sent, received>>
        /\ \/ /\ PoppedFrom(messages, messages', Conns, Msgs, c)
              /\ Moved(t, "peek_back", c, Head(messages[c]))
           \/ /\ messages' = messages /\ Moved(t, "peek_back", c, None)
    BY <1>9, PeekDeed, Zenon
  <2>2. CASE c # d
    <3>1. InHand(d)' = InHand(d)
      BY <1>3, <2>1, <2>2, Zenon
    <3> QED
      BY <1>2, <2>1, <2>2, <3>1, Zenon DEF PoppedFrom
  <2>3. CASE c = d
    <3>1. \A u \in Threads : ~(call[u].pc = "peek_back" /\ call[u].on = d)
      BY <2>1, <2>3, NoThreadAssumption, Zenon DEF PeekInv
    <3>2. InHand(d) = {}
      <4>1. \A m : m \notin InHand(d)
        BY <1>0, <3>1
      <4> QED
        BY <4>1, Zenon
    <3>3. CASE messages' = messages /\ Moved(t, "peek_back", c, None)
      <4>1. \A m : m \notin InHand(d)'
        BY <1>0, <3>1, <3>3 DEF Moved
      <4> QED
        BY <1>2, <2>1, <3>2, <3>3, <4>1, Zenon
    <3>4. CASE /\ PoppedFrom(messages, messages', Conns, Msgs, c)
               /\ Moved(t, "peek_back", c, Head(messages[c]))
      <4> DEFINE m == Head(messages[d])
      <4>1. /\ m \in Msgs /\ messages[d] # <<>> /\ messages'[d] = Tail(messages[d])
            /\ Range(messages[d]) = Range(messages'[d]) \cup {m}
        BY <2>3, <3>4, Zenon DEF PoppedFrom
      <4>2. m # None
        BY <4>1, Numbers, Zenon DEF Typed
      <4>3. \A x : x \in InHand(d)' <=> x = m
        BY <1>0, <2>3, <3>1, <3>4, <4>2 DEF Moved
      <4>4. IsInjective(messages'[d]) /\ m \notin Range(messages'[d])
        BY <1>1, <4>1, TailDistinct, Zenon
      <4>5. m \notin Range(received[d])
        BY <1>1, <4>1, Zenon DEF Placed
      <4>6. Range(sent'[d]) = UNION {Range(received'[d]), Range(messages'[d]), InHand(d)'}
        <5>1. Range(sent[d]) = Range(received[d]) \cup Range(messages[d])
          BY <1>1, <3>2, Zenon DEF Placed
        <5>2. InHand(d)' = {m}
          BY <4>3, Zenon
        <5> QED
          BY <2>1, <4>1, <5>1, <5>2, Zenon
      <4> QED
        BY <1>1, <2>1, <4>1, <4>3, <4>4, <4>5, <4>6, Zenon DEF Placed
    <3> QED
      BY <2>1, <3>3, <3>4, Zenon
  <2> QED
    BY <2>2, <2>3, Zenon
<1>10. ASSUME NEW t \in Threads, PeekBack(t), ~Panicked
       PROVE  Placed(d)'
  <2> DEFINE m == call[t].arg
  <2>1. /\ call[t].pc = "peek_back" /\ UNCHANGED <<sent, received>>
        /\ Moved(t, "idle", None, None)
        /\ PushedTo(messages, messages', Conns, Msgs, call[t].on, m)
    BY <1>10, PeekBackDeed, Zenon
  <2>2. CASE call[t].on # d
    <3>1. InHand(d)' = InHand(d)
      BY <1>3, <2>1, <2>2, Zenon
    <3> QED
      BY <1>2, <2>1, <2>2, <3>1, Zenon DEF PushedTo
  <2>3. CASE call[t].on = d
    <3>1. /\ m \in Msgs /\ messages'[d] = Append(messages[d], m)
          /\ Range(messages'[d]) = Range(messages[d]) \cup {m}
      BY <2>1, <2>3, Zenon DEF PushedTo
    <3>2. m # None
      BY <3>1, Numbers, Zenon DEF Typed
    <3>3. \A u \in Threads : call[u].pc = "peek_back" /\ call[u].on = d => u = t
      BY <2>1, <2>3, Zenon DEF PeekInv
    <3>4. \A x : x \in InHand(d) <=> x = m
      BY <1>0, <2>1, <2>3, <3>2, <3>3, Zenon
    <3>5. \A x : x \notin InHand(d)'
      BY <1>0, <2>1, <3>3 DEF Moved
    <3>6. m \notin Range(messages[d]) /\ m \notin Range(received[d])
      BY <1>1, <3>4, Zenon DEF Placed
    <3>7. IsInjective(messages'[d])
      BY <1>1, <3>1, <3>6, AppendDistinct, Zenon
    <3>8. Range(sent'[d]) = UNION {Range(received'[d]), Range(messages'[d]), InHand(d)'}
      <4>1. InHand(d) = {m} /\ InHand(d)' = {}
        BY <3>4, <3>5, Zenon
      <4>2. Range(sent[d]) = Range(received[d]) \cup Range(messages[d]) \cup {m}
        BY <1>1, <4>1, Zenon DEF Placed
      <4> QED
        BY <2>1, <3>1, <4>1, <4>2, Zenon
    <3> QED
      BY <1>1, <2>1, <3>1, <3>5, <3>6, <3>7, <3>8, Zenon DEF Placed
  <2> QED
    BY <2>2, <2>3, Zenon
<1> QED
  BY <1>4, <1>5, <1>6, <1>7, <1>8, <1>9, <1>10, QuietActions, Zenon

LEMMA SendInit == Init => PeekInv /\ FreshInv /\ OrderInv /\ PlaceInv
<1> SUFFICES ASSUME Init
             PROVE  PeekInv /\ FreshInv /\ OrderInv /\ PlaceInv
  BY Zenon
<1>1. /\ \A t \in Threads : call[t].pc = "idle"
      /\ \A c \in Conns : sent[c] = <<>> /\ received[c] = <<>> /\ messages[c] = <<>>
  BY Zenon DEF Init, NoCall
<1>2. Range(<<>>) = {} /\ IsInjective(<<>>) /\ <<>> = <<>> \o <<>>
  BY DEF Range, IsInjective
<1>3. "idle" \notin SendPC
  BY Labels, Zenon
<1>4. \A c \in Conns : InHand(c) = {}
  BY <1>1, Zenon DEF InHand
<1>5. PeekInv /\ FreshInv /\ OrderInv
  BY <1>1, <1>2, <1>3, Zenon DEF PeekInv, FreshInv, OrderInv
<1>6. ASSUME NEW c \in Conns
      PROVE  Placed(c)
  <2>1. Range(sent[c]) = {} /\ Range(received[c]) = {} /\ Range(messages[c]) = {} /\ InHand(c) = {}
    BY <1>1, <1>2, <1>4, Zenon
  <2> QED
    BY <1>1, <1>2, <2>1, Zenon DEF Placed
<1> QED
  BY <1>5, <1>6, Zenon DEF PlaceInv

\* A message that was put into a connection's channel is received once, still
\* there, or in the hand of a PeekMessage, and only PeekMessage changes the
\* order.
THEOREM PeekAloneReorders == Spec => []OnlyPeekReorders
<1>1. OrderInv /\ PlaceInv => OnlyPeekReorders
  BY Zenon DEF OrderInv, PlaceInv, Placed, OnlyPeekReorders
<1> QED
  BY <1>1, TypedInit, TypedStep, SendInit, PeekStep, FreshStep, OrderStep, PlaceStep, PTL DEF Spec

-----------------------------------------------------------------------------
(* Who holds c.mu.                                                         *)

\* The lock of a connection is held over several steps only by a PeekMessage
\* between its two channel operations, the second of which may wait: there is
\* one such call for each lock that is taken, and one lock for each such call.
LockIsThePeekers ==
    /\ \A c \in Conns : mu[c] # NoThread =>
          call[mu[c]].pc = "peek_back" /\ call[mu[c]].on = c
    /\ \A t \in Threads : call[t].pc = "peek_back" => mu[call[t].on] = t

Held == \A c \in Conns : mu[c] # NoThread => call[mu[c]].pc = "peek_back" /\ call[mu[c]].on = c

LEMMA HeldStep == Typed /\ PeekInv /\ Held /\ [Next]_vars => Held'
<1> SUFFICES ASSUME Typed, PeekInv, Held, [Next]_vars, NEW d \in Conns, mu'[d] # NoThread
             PROVE  call'[mu'[d]].pc = "peek_back" /\ call'[mu'[d]].on = d
  BY Zenon DEF Held
<1>0. mu \in [Conns -> Threads \cup {NoThread}]
  BY Zenon DEF Typed, TypeOK
<1>1. ASSUME NEW t \in Threads, call[t].pc # "peek_back", NEW l, NEW on, NEW arg,
             Moved(t, l, on, arg), mu'[d] = mu[d]
      PROVE  call'[mu'[d]].pc = "peek_back" /\ call'[mu'[d]].on = d
  <2>1. /\ mu[d] \in Threads /\ mu[d] # t
        /\ call[mu[d]].pc = "peek_back" /\ call[mu[d]].on = d
    BY <1>0, <1>1, Zenon DEF Held
  <2> QED
    BY <1>1, <2>1 DEF Moved
<1>2. ASSUME UNCHANGED <<mu, call>>
      PROVE  call'[mu'[d]].pc = "peek_back" /\ call'[mu'[d]].on = d
  BY <1>2, Zenon DEF Held
<1>3. CASE Quiet
  <2>1. mu[d] \in Threads /\ call[mu[d]].pc = "peek_back" /\ call[mu[d]].on = d /\ mu' = mu
    BY <1>0, <1>3, Zenon DEF Quiet, Held
  <2>2. call'[mu[d]] = call[mu[d]]
    BY <1>3, <2>1, Zenon DEF Quiet
  <2> QED
    BY <2>1, <2>2
<1>4. CASE Panicked
  BY <1>2, <1>4, Zenon DEF Panicked, connVars
<1>5. ASSUME NEW t \in Threads, \/ \E c \in Conns : CallSend(t, c)
                                \/ SendSelect(t) \/ RecvSelect(t)
      PROVE  call'[mu'[d]].pc = "peek_back" /\ call'[mu'[d]].on = d
  <2>1. call[t].pc # "peek_back"
    BY <1>5, Moving, SendSelectDeed, Zenon DEF At
  <2>2. Panicked \/ (mu' = mu /\ \E l, on, arg : Moved(t, l, on, arg))
    BY <1>5, Moving, SendSelectDeed, RecvSelectDeed, Zenon DEF CallSend
  <2> QED
    BY <1>1, <1>4, <2>1, <2>2, Zenon
<1>6. ASSUME NEW t \in Threads, NEW c \in Conns, Peek(t, c)
      PROVE  call'[mu'[d]].pc = "peek_back" /\ call'[mu'[d]].on = d
  <2>1. /\ mu' = [mu EXCEPT ![c] = t] /\ call[t].pc = "idle"
        /\ \E m : Moved(t, "peek_back", c, m)
    BY <1>6, PeekDeed, Zenon
  <2>2. CASE d = c
    <3>1. mu'[d] = t /\ call'[t].pc = "peek_back" /\ call'[t].on = d
      BY <1>0, <2>1, <2>2, Zenon DEF Moved
    <3> QED
      BY <3>1
  <2>3. CASE d # c
    <3>1. mu'[d] = mu[d]
      BY <1>0, <2>1, <2>3, Zenon
    <3> QED
      BY <1>1, <2>1, <3>1, Zenon
  <2> QED
    BY <2>2, <2>3, Zenon
<1>7. ASSUME NEW t \in Threads, PeekBack(t), ~Panicked
      PROVE  call'[mu'[d]].pc = "peek_back" /\ call'[mu'[d]].on = d
  <2>1. /\ call[t].pc = "peek_back"
        /\ Moved(t, "idle", None, None) /\ mu' = [mu EXCEPT ![call[t].on] = NoThread]
    BY <1>7, PeekBackDeed, Zenon
  <2>2. d # call[t].on /\ mu'[d] = mu[d]
    BY <1>0, <2>1, Zenon
  <2>3. /\ mu[d] \in Threads /\ mu[d] # t
        /\ call[mu[d]].pc = "peek_back" /\ call[mu[d]].on = d
    BY <1>0, <2>2 DEF Held
  <2> QED
    BY <2>1, <2>2, <2>3 DEF Moved
<1> QED
  BY <1>3, <1>4, <1>5, <1>6, <1>7, QuietActions, Zenon

\* Whoever waits for a connection's lock waits for one PeekMessage, and every
\* PeekMessage that has not returned has the lock.
THEOREM LockHolder == Spec => []LockIsThePeekers
<1>1. Init => Held
  BY Zenon DEF Init, Held
<1>2. Held /\ PeekInv => LockIsThePeekers
  BY Zenon DEF Held, PeekInv, LockIsThePeekers
<1>3. Init => PeekInv
  BY SendInit, Zenon
<1> QED
  BY <1>1, <1>2, <1>3, TypedInit, TypedStep, PeekStep, HeldStep, PTL DEF Spec
=============================================================================
