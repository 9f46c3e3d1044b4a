--------------------------- MODULE MockTransport ---------------------------
(***************************************************************************)
(* The mock transport, its listeners and its connections                   *)
(* (transport/mock.go).  Dial hands one MockConnection to both sides:      *)
(* goroutines Send to, Recv from, PeekMessage at and Close the same        *)
(* channel of messages.                                                    *)
(*                                                                         *)
(* A step is one critical section or one channel operation.  Only          *)
(* PeekMessage keeps a lock across channel operations.  Close of the       *)
(* transport, which holds t.mu while it closes the listeners, is one step. *)
(* There is one address, of which every Listen makes a new listener.       *)
(*                                                                         *)
(* What a test plugs in (the hooks, the dropper, the failure switches) may *)
(* be set at any time, so a step that consults it may go either way.       *)
(***************************************************************************)
EXTENDS Naturals, Sequences, Functions

CONSTANTS Threads,    \* the goroutines that use the transport
          NoThread,   \* no goroutine: c.mu is free
          Cap,        \* capacity of the channels, 64 in the program
          MaxListens, \* bound on the calls of Listen
          MaxDials,   \* bound on the calls of Dial
          MaxMsgs,    \* bound on the messages passed to Send
          Limits      \* how many of each a behaviour makes: no more than that

ASSUME NoThreadAssumption == NoThread \notin Threads

ASSUME BoundsAssumption == {Cap, MaxListens, MaxDials, MaxMsgs} \subseteq Nat \ {0}

ASSUME LimitsAssumption ==
    Limits \subseteq [listens : 0 .. MaxListens, dials : 0 .. MaxDials, msgs : 0 .. MaxMsgs]

\* Listeners, connections and messages are numbered as they are made.
Listeners == 1 .. MaxListens
Conns == 1 .. MaxDials
Msgs == 1 .. MaxMsgs
None == 0

VARIABLES
    limit,     \* the member of Limits that bounds this behaviour
    closed,    \* t.closed
    listener,  \* t.listeners: the listener of the address, or None
    lclosed,   \* lclosed[l]: listener.closed, and its channel is closed
    lchan,     \* lchan[l]: what is buffered in listener.connections
    cclosed,   \* cclosed[c]: c.closed, and c.messages is closed
    mu,        \* mu[c]: the thread that holds c.mu across steps
    messages,  \* messages[c]: what is buffered in c.messages
    call,      \* call[t]: where thread t is in its call, on which listener or
               \*          connection, with which message or listener
    panic,     \* a channel was used after it was closed: the program is over
    \* History of what happened:
    listens,   \* the number of listeners made
    dials,     \* the number of connections made
    next,      \* the next message to be passed to Send
    dialed,    \* dialed[l]: the connections Dial has returned from l, in order
    accepted,  \* accepted[l]: the connections Accept has returned, in order
    sent,      \* sent[c]: the messages put into c.messages, in order
    received,  \* received[c]: the messages Recv has taken, in order
    peeked     \* the connections on which PeekMessage has found a message

listenerVars == <<limit, closed, listener, lclosed, lchan, listens, dials, dialed, accepted>>
connVars == <<cclosed, mu, messages, next, sent, received, peeked>>
vars == <<limit, closed, listener, lclosed, lchan, cclosed, mu, messages, call, panic,
          listens, dials, next, dialed, accepted, sent, received, peeked>>

SendPC == {"send_check", "send_select"}
RecvPC == {"recv_check", "recv_select", "recv_hooks"}
AcceptPC == {"accept_check", "accept_select"}

NoCall == [pc |-> "idle", on |-> None, arg |-> None]

TypeOK ==
    /\ limit \in Limits
    /\ closed \in BOOLEAN /\ panic \in BOOLEAN
    /\ listener \in 0 .. listens
    /\ lclosed \in [Listeners -> BOOLEAN] /\ cclosed \in [Conns -> BOOLEAN]
    /\ lchan \in [Listeners -> Seq(Conns)] /\ messages \in [Conns -> Seq(Msgs)]
    /\ \A l \in Listeners : Len(lchan[l]) <= Cap
    /\ \A c \in Conns : Len(messages[c]) <= Cap
    /\ mu \in [Conns -> Threads \cup {NoThread}]
    /\ call \in [Threads -> [pc : {"idle", "dial_select", "close_lock", "peek_back"}
                                  \cup SendPC \cup RecvPC \cup AcceptPC,
                             on : Nat, arg : Nat]]
    /\ listens \in 0 .. MaxListens /\ dials \in 0 .. MaxDials /\ next \in 1 .. MaxMsgs + 1
    /\ dialed \in [Listeners -> Seq(Conns)] /\ accepted \in [Listeners -> Seq(Conns)]
    /\ peeked \subseteq Conns
    /\ sent \in [Conns -> Seq(Msgs)] /\ received \in [Conns -> Seq(Msgs)]

\* NewMockTransport
Init ==
    /\ limit \in Limits
    /\ closed = FALSE /\ panic = FALSE
    /\ listener = None
    /\ lclosed = [l \in Listeners |-> FALSE] /\ lchan = [l \in Listeners |-> <<>>]
    /\ cclosed = [c \in Conns |-> FALSE] /\ mu = [c \in Conns |-> NoThread]
    /\ messages = [c \in Conns |-> <<>>]
    /\ call = [t \in Threads |-> NoCall]
    /\ listens = 0 /\ dials = 0 /\ next = 1
    /\ dialed = [l \in Listeners |-> <<>>] /\ accepted = [l \in Listeners |-> <<>>]
    /\ peeked = {}
    /\ sent = [c \in Conns |-> <<>>] /\ received = [c \in Conns |-> <<>>]

At(t, l) == ~panic /\ call[t].pc = l
Goto(t, l) == call' = [call EXCEPT ![t].pc = l]
Return(t) == call' = [call EXCEPT ![t] = NoCall]
Enter(t, l, on, arg) ==
    /\ At(t, "idle")
    /\ call' = [call EXCEPT ![t] = [pc |-> l, on |-> on, arg |-> arg]]

\* The receive and the send of a channel operation on function f at index i.
Push(f, i, x) == f' = [f EXCEPT ![i] = Append(@, x)]
Pop(f, i) == f' = [f EXCEPT ![i] = Tail(@)]

-----------------------------------------------------------------------------
(* Listen, Dial, and Close of the transport                                *)

\* The listener of the address is replaced, and not closed.
Listen(t) ==
    /\ At(t, "idle")
    /\ ~closed /\ listens < limit.listens
    /\ listens' = listens + 1
    /\ listener' = listens + 1
    /\ UNCHANGED <<limit, closed, lclosed, lchan, dials, dialed, accepted, connVars, call, panic>>

\* Dial finds the listener and builds a connection, which GetConnection hands
\* out from then on.  t.closed is not looked at.  The lookup, the hook and the
\* registration are one step: whatever happens between them, Dial goes on with
\* the listener it found, and nobody has the connection yet.
CallDial(t) ==
    /\ listener # None /\ dials < limit.dials
    /\ Enter(t, "dial_select", dials + 1, listener)
    /\ dials' = dials + 1
    /\ UNCHANGED <<limit, closed, listener, lclosed, lchan, listens, dialed, accepted, connVars, panic>>

\* Mutant of DialSelect: a full channel does not hold the dialer up.
DialSelectDefault(t) ==
    /\ At(t, "dial_select")
    /\ ~lclosed[call[t].arg]
    /\ IF Len(lchan[call[t].arg]) < Cap
       THEN Push(lchan, call[t].arg, call[t].on)
       ELSE UNCHANGED lchan
    /\ Push(dialed, call[t].arg, call[t].on)
    /\ Return(t)
    /\ UNCHANGED <<limit, closed, listener, lclosed, listens, dials, accepted, connVars, panic>>

\* The connection is delivered to the listener, as soon as there is room.
DialSelect(t) ==
    LET l == call[t].arg
    IN  /\ At(t, "dial_select")
        /\ lclosed[l] \/ Len(lchan[l]) < Cap
        /\ IF lclosed[l]
           THEN panic' = TRUE /\ UNCHANGED <<lchan, dialed, call>>
           ELSE /\ Push(lchan, l, call[t].on)
                /\ Push(dialed, l, call[t].on)
                /\ Return(t)
                /\ UNCHANGED panic
        /\ UNCHANGED <<limit, closed, listener, lclosed, listens, dials, accepted, connVars>>

\* Close of the transport knows the listener of the address only.
Close(t) ==
    /\ At(t, "idle")
    /\ closed' = TRUE
    /\ lclosed' = [l \in Listeners |-> lclosed[l] \/ (~closed /\ l = listener)]
    /\ UNCHANGED <<limit, listener, lchan, listens, dials, dialed, accepted, connVars, call, panic>>

-----------------------------------------------------------------------------
(* Accept, and Close of a listener                                         *)

CallAccept(t, l) ==
    /\ l <= listens
    /\ Enter(t, "accept_check", l, None)
    /\ UNCHANGED <<listenerVars, connVars, panic>>

\* SetAcceptErrorNext makes it fail.
AcceptCheck(t) ==
    /\ At(t, "accept_check")
    /\ Return(t) \/ (~lclosed[call[t].on] /\ Goto(t, "accept_select"))
    /\ UNCHANGED <<listenerVars, connVars, panic>>

\* A closed and empty channel yields nil, without an error.
AcceptSelect(t) ==
    LET l == call[t].on
    IN  /\ At(t, "accept_select")
        /\ \/ /\ lchan[l] # <<>>
              /\ Push(accepted, l, Head(lchan[l]))
              /\ Pop(lchan, l)
           \/ lchan[l] = <<>> /\ lclosed[l] /\ UNCHANGED <<accepted, lchan>>
        /\ Return(t)
        /\ UNCHANGED <<limit, closed, listener, lclosed, listens, dials, dialed, connVars, panic>>

CloseListener(t, l) ==
    /\ At(t, "idle")
    /\ l <= listens
    /\ lclosed' = [lclosed EXCEPT ![l] = TRUE]
    /\ UNCHANGED <<limit, closed, listener, lchan, listens, dials, dialed, accepted, connVars, call, panic>>

-----------------------------------------------------------------------------
(* The connection                                                          *)

CallSend(t, c) ==
    /\ c <= dials /\ next <= limit.msgs
    /\ Enter(t, "send_check", c, next)
    /\ next' = next + 1
    /\ UNCHANGED <<listenerVars, cclosed, mu, messages, sent, received, peeked, panic>>

\* A hook, the dropper or SetFailSend keeps the message out of the channel.
SendCheck(t) ==
    /\ At(t, "send_check")
    /\ mu[call[t].on] = NoThread
    /\ Return(t) \/ (~cclosed[call[t].on] /\ Goto(t, "send_select"))
    /\ UNCHANGED <<listenerVars, connVars, panic>>

\* Mutant of SendSelect: the channel is unbounded.
SendSelectUnbounded(t) ==
    /\ At(t, "send_select")
    /\ ~cclosed[call[t].on]
    /\ Push(messages, call[t].on, call[t].arg)
    /\ Push(sent, call[t].on, call[t].arg)
    /\ Return(t)
    /\ UNCHANGED <<listenerVars, cclosed, mu, next, received, peeked, panic>>

\* Mutant of SendSelect: the message is dropped when the channel is full.
SendSelectDefault(t) ==
    LET c == call[t].on
    IN  /\ At(t, "send_select")
        /\ ~cclosed[c]
        /\ IF Len(messages[c]) < Cap
           THEN Push(messages, c, call[t].arg)
           ELSE UNCHANGED messages
        /\ Push(sent, c, call[t].arg)
        /\ Return(t)
        /\ UNCHANGED <<listenerVars, cclosed, mu, next, received, peeked, panic>>

\* The message is put into the channel, as soon as there is room.
SendSelect(t) ==
    LET c == call[t].on
    IN  /\ At(t, "send_select")
        /\ cclosed[c] \/ Len(messages[c]) < Cap
        /\ IF cclosed[c]
           THEN panic' = TRUE /\ UNCHANGED <<messages, sent, call>>
           ELSE /\ Push(messages, c, call[t].arg)
                /\ Push(sent, c, call[t].arg)
                /\ Return(t)
                /\ UNCHANGED panic
        /\ UNCHANGED <<listenerVars, cclosed, mu, next, received, peeked>>

CallRecv(t, c) ==
    /\ c <= dials
    /\ Enter(t, "recv_check", c, None)
    /\ UNCHANGED <<listenerVars, connVars, panic>>

\* SetFailRecv makes it fail.
RecvCheck(t) ==
    /\ At(t, "recv_check")
    /\ mu[call[t].on] = NoThread
    /\ Return(t) \/ (~cclosed[call[t].on] /\ Goto(t, "recv_select"))
    /\ UNCHANGED <<listenerVars, connVars, panic>>

\* Mutant of RecvSelect: a closed channel does not wake the receiver.
RecvSelectOpenOnly(t) ==
    LET c == call[t].on
    IN  /\ At(t, "recv_select")
        /\ messages[c] # <<>>
        /\ Push(received, c, Head(messages[c]))
        /\ Pop(messages, c)
        /\ Goto(t, "recv_hooks")
        /\ UNCHANGED <<listenerVars, cclosed, mu, next, sent, peeked, panic>>

\* A closed and empty channel yields nil, without an error.
RecvSelect(t) ==
    LET c == call[t].on
    IN  /\ At(t, "recv_select")
        /\ \/ /\ messages[c] # <<>>
              /\ Push(received, c, Head(messages[c]))
              /\ Pop(messages, c)
           \/ messages[c] = <<>> /\ cclosed[c] /\ UNCHANGED <<messages, received>>
        /\ Goto(t, "recv_hooks")
        /\ UNCHANGED <<listenerVars, cclosed, mu, next, sent, peeked, panic>>

\* The hooks are called; c.mu is taken to read one of them.
RecvHooks(t) ==
    /\ At(t, "recv_hooks")
    /\ mu[call[t].on] = NoThread
    /\ Return(t)
    /\ UNCHANGED <<listenerVars, connVars, panic>>

CallClose(t, c) ==
    /\ c <= dials
    /\ Enter(t, "close_lock", c, None)
    /\ UNCHANGED <<listenerVars, connVars, panic>>

CloseLock(t) ==
    /\ At(t, "close_lock")
    /\ mu[call[t].on] = NoThread
    /\ cclosed' = [cclosed EXCEPT ![call[t].on] = TRUE]
    /\ Return(t)
    /\ UNCHANGED <<listenerVars, mu, messages, next, sent, received, peeked, panic>>

\* PeekMessage takes the first message, or the nil of a closed channel, under
\* c.mu, which it keeps.
Peek(t, c) ==
    /\ c <= dials
    /\ mu[c] = NoThread
    /\ \/ /\ messages[c] # <<>>
          /\ Enter(t, "peek_back", c, Head(messages[c]))
          /\ Pop(messages, c)
       \/ /\ messages[c] = <<>> /\ cclosed[c]
          /\ Enter(t, "peek_back", c, None)
          /\ UNCHANGED messages
    /\ mu' = [mu EXCEPT ![c] = t]
    /\ peeked' = peeked \cup {c}
    /\ UNCHANGED <<listenerVars, cclosed, next, sent, received, panic>>

\* Mutant of PeekBack: c.mu is not released.
PeekBackLocked(t) ==
    /\ At(t, "peek_back")
    /\ ~cclosed[call[t].on] /\ Len(messages[call[t].on]) < Cap
    /\ Push(messages, call[t].on, call[t].arg)
    /\ Return(t)
    /\ UNCHANGED <<listenerVars, cclosed, mu, next, sent, received, peeked, panic>>

\* It puts the message back, at the end, as soon as there is room.
PeekBack(t) ==
    LET c == call[t].on
    IN  /\ At(t, "peek_back")
        /\ cclosed[c] \/ Len(messages[c]) < Cap
        /\ IF cclosed[c]
           THEN panic' = TRUE /\ UNCHANGED <<messages, mu, call>>
           ELSE /\ Push(messages, c, call[t].arg)
                /\ mu' = [mu EXCEPT ![c] = NoThread]
                /\ Return(t)
                /\ UNCHANGED panic
        /\ UNCHANGED <<listenerVars, cclosed, next, sent, received, peeked>>

\* The caller's context is done.
Cancelled(t) ==
    /\ ~panic
    /\ call[t].pc \in {"dial_select", "accept_select", "send_select", "recv_select"}
    /\ Return(t)
    /\ UNCHANGED <<listenerVars, connVars, panic>>

-----------------------------------------------------------------------------
\* A step inside a call, which the scheduler eventually grants.
Step(t) == \/ DialSelect(t) \/ AcceptCheck(t) \/ AcceptSelect(t)
           \/ SendCheck(t) \/ SendSelect(t) \/ RecvCheck(t) \/ RecvSelect(t)
           \/ RecvHooks(t) \/ CloseLock(t) \/ PeekBack(t)

Next ==
    \E t \in Threads :
        \/ Listen(t) \/ CallDial(t) \/ Close(t)
        \/ \E l \in Listeners : CallAccept(t, l) \/ CloseListener(t, l)
        \/ \E c \in Conns : \/ CallSend(t, c) \/ CallRecv(t, c)
                            \/ CallClose(t, c) \/ Peek(t, c)
        \/ Step(t) \/ Cancelled(t)

Spec == Init /\ [][Next]_vars

\* Goroutines in a call keep running, and a mutex of Go does not starve who
\* waits for it; nobody is obliged to make a call, and no context need ever
\* be cancelled.
FairSpec == Spec /\ \A t \in Threads : WF_vars(Step(t)) /\ SF_vars(CloseLock(t))

-----------------------------------------------------------------------------
(* Safety.                                                                 *)

\* The message a PeekMessage has in its hand.
InHand(c) == {call[t].arg : t \in {u \in Threads : call[u].pc = "peek_back" /\ call[u].on = c}}
             \ {None}

\* A message that was put into a connection's channel is received once, still
\* there, or in the hand of a PeekMessage, and only PeekMessage changes the
\* order: a test sees what its program sent, whoever closes the connection.
OnlyPeekReorders ==
    \A c \in Conns :
        /\ c \notin peeked => sent[c] = received[c] \o messages[c]
        /\ Range(sent[c]) = UNION {Range(received[c]), Range(messages[c]), InHand(c)}
        /\ IsInjective(received[c])

\* Every connection Dial has returned is accepted once, in the order of the
\* Dials, at the listener it was dialed at, or waits there and nowhere else: one
\* that another Listen has replaced included.
DialedAreDelivered ==
    /\ \A l \in Listeners : /\ dialed[l] = accepted[l] \o lchan[l]
                            /\ IsInjective(dialed[l])
    /\ \A k, l \in Listeners : k # l => Range(dialed[k]) \cap Range(dialed[l]) = {}

-----------------------------------------------------------------------------
(* Liveness, under FairSpec.                                               *)

Over(t) == call[t].pc = "idle" \/ panic

\* Closing a connection releases a Recv that waits on it, and closing its
\* listener an Accept.
ReleasedByClose ==
    \A t \in Threads :
        /\ \A c \in Conns : call[t].pc \in RecvPC /\ call[t].on = c /\ cclosed[c] ~> Over(t)
        /\ \A l \in Listeners : call[t].pc \in AcceptPC /\ call[t].on = l /\ lclosed[l] ~> Over(t)

\* Close of a connection returns, unless a PeekMessage keeps c.mu because a
\* Send has filled the channel behind its back.
OnlyPeekBlocksClose ==
    \A t \in Threads : call[t].pc = "close_lock" ~>
        Over(t) \/ \E c \in Conns : mu[c] # NoThread /\ Len(messages[c]) = Cap
=============================================================================
