---------------------------- MODULE TCPTransport ----------------------------
(***************************************************************************)
(* The TCP transport and its listener (transport/tcp.go): goroutines call  *)
(* Listen, Dial and Close on one TCPTransport, Accept and Close on the     *)
(* listener, and Close on the connections Dial and Accept have returned.   *)
(*                                                                         *)
(* A step is one critical section or one operation on a socket.  t.mu is   *)
(* held across the whole of the transport's Close, which only closes       *)
(* connections meanwhile: Close is one step.  The kernel is external: a    *)
(* connection that DialContext has established waits in the backlog of the *)
(* listening socket until an accept(2) takes it.                           *)
(*                                                                         *)
(* Accept leaves the accepting to a goroutine of its own, so that its      *)
(* caller can give up.  The goroutine does not.                            *)
(***************************************************************************)
EXTENDS Naturals, Sequences, FiniteSets, Functions

CONSTANTS Threads,   \* the goroutines that use the transport
          Addrs,     \* the addresses passed to Dial, names of one listener
          MaxDials,  \* bound on the calls of Dial
          MaxAccepts \* bound on the calls of Accept

ASSUME BoundsAssumption == MaxDials \in Nat /\ MaxAccepts \in Nat

\* A program starts finitely many goroutines, and passes Dial some address.
ASSUME UsersAssumption == IsFiniteSet(Threads) /\ Addrs # {}

\* A connection is the number of the Dial that builds it, a helper goroutine
\* the number of its Accept.
Conns == 1 .. MaxDials
Helpers == 1 .. MaxAccepts
None == 0

VARIABLES
    closed,      \* t.closed
    connections, \* t.connections: the entry of an address, or None
    activeConns, \* t.activeConns
    listening,   \* "no", "open" or "closed": the listening socket
    lclosed,     \* l.closed
    backlog,     \* established and not taken by accept(2), in order
    helper,      \* helper[h]: "none", "accepting", "ready" or "failed"
    connChan,    \* connChan[h]: the connection helper h has put in its channel
    acceptedOpen,\* the ends taken by accept(2) whose socket is open
    call,        \* call[t]: where thread t is in its call, and on what
    open,        \* the dialers' ends whose socket is open
    \* History of what happened:
    dials,       \* the number of calls of Dial
    connected,   \* the connections the kernel has established
    accepts,     \* the number of calls of Accept
    replaced,    \* the connections whose entry another Dial has taken
    late,        \* the connections registered after the transport's Close
    accepted,    \* the connections Accept has returned, in order
    reset,       \* the connections the closing of the socket has destroyed
    cancelled    \* the helpers whose Accept was cancelled

transportVars == <<closed, connections, activeConns>>
listenerVars == <<listening, lclosed, backlog, helper, connChan, acceptedOpen>>
dialHist == <<dials, connected, replaced, late>>
acceptHist == <<accepts, accepted, reset, cancelled>>
vars == <<closed, connections, activeConns, listening, lclosed, backlog, helper, connChan,
          acceptedOpen, call, open, dials, connected, accepts, replaced, late, accepted,
          reset, cancelled>>

DialPC == {"dial_check", "dial_connect", "dial_register", "dial_count"}
AcceptPC == {"accept_check", "accept_wait"}

NoCall == [pc |-> "idle", addr |-> CHOOSE a \in Addrs : TRUE, id |-> None]

TypeOK ==
    /\ {closed, lclosed} \subseteq BOOLEAN
    /\ connections \in [Addrs -> Conns \cup {None}]
    /\ activeConns \in 0 .. Cardinality(connected)
    /\ listening \in {"no", "open", "closed"}
    /\ backlog \in Seq(Conns)
    /\ helper \in [Helpers -> {"none", "accepting", "ready", "failed"}]
    /\ connChan \in [Helpers -> Conns \cup {None}]
    /\ call \in [Threads -> [pc : {"idle", "listen_bind"} \cup DialPC \cup AcceptPC,
                             addr : Addrs, id : Nat]]
    /\ UNION {open, acceptedOpen, connected, replaced, late, reset} \subseteq Conns
    /\ dials \in 0 .. MaxDials /\ accepts \in 0 .. MaxAccepts
    /\ accepted \in Seq(Conns)
    /\ cancelled \subseteq Helpers

\* NewTCPTransport
Init ==
    /\ closed = FALSE /\ lclosed = FALSE
    /\ connections = [a \in Addrs |-> None]
    /\ activeConns = 0
    /\ listening = "no"
    /\ backlog = <<>>
    /\ helper = [h \in Helpers |-> "none"]
    /\ connChan = [h \in Helpers |-> None]
    /\ call = [t \in Threads |-> NoCall]
    /\ dials = 0 /\ accepts = 0
    /\ open = {} /\ acceptedOpen = {}
    /\ connected = {} /\ replaced = {} /\ late = {} /\ reset = {} /\ cancelled = {}
    /\ accepted = <<>>

At(t, l) == call[t].pc = l
Goto(t, l) == call' = [call EXCEPT ![t].pc = l]
Return(t) == call' = [call EXCEPT ![t] = NoCall]
Enter(t, l, a, n) ==
    /\ At(t, "idle")
    /\ call' = [call EXCEPT ![t] = [pc |-> l, addr |-> a, id |-> n]]

-----------------------------------------------------------------------------
(* Listen, Dial, and Close of the transport                                *)

\* Listen looks at t.closed under t.mu, and opens the socket afterwards.
CallListen(t) ==
    /\ ~closed
    /\ Enter(t, "listen_bind", NoCall.addr, None)
    /\ UNCHANGED <<transportVars, listenerVars, open, dialHist, acceptHist>>

\* The address may be refused, and a second socket on it is while the first is
\* open.  What Listen returns after that is a listener of its own, and not followed.
ListenBind(t) ==
    /\ At(t, "listen_bind")
    /\ listening' \in {listening} \cup (IF listening = "no" THEN {"open"} ELSE {})
    /\ Return(t)
    /\ UNCHANGED <<transportVars, lclosed, backlog, helper, connChan, acceptedOpen, open,
                   dialHist, acceptHist>>

CallDial(t, a) ==
    /\ dials < MaxDials
    /\ Enter(t, "dial_check", a, dials + 1)
    /\ dials' = dials + 1
    /\ UNCHANGED <<transportVars, listenerVars, open, connected, replaced, late, acceptHist>>

DialCheck(t) ==
    /\ At(t, "dial_check")
    /\ IF closed THEN Return(t) ELSE Goto(t, "dial_connect")
    /\ UNCHANGED <<transportVars, listenerVars, open, dialHist, acceptHist>>

\* DialContext succeeds at an open socket; nobody need be in Accept.
DialConnect(t) ==
    /\ At(t, "dial_connect")
    /\ listening = "open"
    /\ backlog' = Append(backlog, call[t].id)
    /\ open' = open \cup {call[t].id}
    /\ connected' = connected \cup {call[t].id}
    /\ Goto(t, "dial_register")
    /\ UNCHANGED <<transportVars, listening, lclosed, helper, connChan, acceptedOpen,
                   dials, replaced, late, acceptHist>>

\* Mutant of DialFail: the error is not looked at.
DialFailIgnored(t) ==
    /\ At(t, "dial_connect")
    /\ Goto(t, "dial_register")
    /\ UNCHANGED <<transportVars, listenerVars, open, dialHist, acceptHist>>

\* It fails there too when the context is done or DialTimeout has passed.
DialFail(t) ==
    /\ At(t, "dial_connect")
    /\ Return(t)
    /\ UNCHANGED <<transportVars, listenerVars, open, dialHist, acceptHist>>

\* The entry of the address is overwritten, and t.closed not looked at again.
DialRegister(t) ==
    LET c == call[t].id
        old == connections[call[t].addr]
    IN  /\ At(t, "dial_register")
        /\ connections' = [connections EXCEPT ![call[t].addr] = c]
        /\ replaced' = replaced \cup ({old} \ {None})
        /\ late' = IF closed THEN late \cup {c} ELSE late
        /\ Goto(t, "dial_count")
        /\ UNCHANGED <<closed, activeConns, listenerVars, open, dials, connected, acceptHist>>

DialCount(t) ==
    /\ At(t, "dial_count")
    /\ activeConns' = activeConns + 1
    /\ Return(t)
    /\ UNCHANGED <<closed, connections, listenerVars, open, dialHist, acceptHist>>

\* Mutant of Close: the entries are dropped, their connections left open.
CloseForgets(t) ==
    /\ At(t, "idle")
    /\ closed' = TRUE
    /\ connections' = [a \in Addrs |-> None]
    /\ UNCHANGED <<activeConns, listenerVars, call, open, dialHist, acceptHist>>

\* Close of the transport: the connections that have an entry are closed.  The
\* listener and what it accepts have none.
Close(t) ==
    /\ At(t, "idle")
    /\ closed' = TRUE
    /\ open' = open \ {connections[a] : a \in Addrs}
    /\ connections' = [a \in Addrs |-> None]
    /\ UNCHANGED <<activeConns, listenerVars, call, dialHist, acceptHist>>

\* A connection is closed by who dialed it; the transport keeps its entry.
CloseConn(t, c) ==
    /\ At(t, "idle")
    /\ c \in open
    /\ \A u \in Threads : ~(call[u].pc \in DialPC /\ call[u].id = c)
    /\ open' = open \ {c}
    /\ UNCHANGED <<transportVars, listenerVars, call, dialHist, acceptHist>>

\* An accepted connection is closed by who accepted it.
CloseAccepted(t, c) ==
    /\ At(t, "idle")
    /\ c \in acceptedOpen \cap Range(accepted)
    /\ acceptedOpen' = acceptedOpen \ {c}
    /\ UNCHANGED <<transportVars, listening, lclosed, backlog, helper, connChan, call, open,
                   dialHist, acceptHist>>

-----------------------------------------------------------------------------
(* Accept, and Close of the listener                                       *)

CallAccept(t) ==
    /\ listening # "no"
    /\ accepts < MaxAccepts
    /\ Enter(t, "accept_check", NoCall.addr, accepts + 1)
    /\ accepts' = accepts + 1
    /\ UNCHANGED <<transportVars, listenerVars, open, dialHist, accepted, reset, cancelled>>

\* The helper goroutine is started.
AcceptCheck(t) ==
    /\ At(t, "accept_check")
    /\ IF lclosed
       THEN Return(t) /\ UNCHANGED helper
       ELSE /\ helper' = [helper EXCEPT ![call[t].id] = "accepting"]
            /\ Goto(t, "accept_wait")
    /\ UNCHANGED <<transportVars, listening, lclosed, backlog, connChan, acceptedOpen, open,
                   dialHist, acceptHist>>

\* Mutant of HelperAccept: the goroutine goes on accepting, and its channel
\* keeps the last connection.
HelperAcceptAgain(h) ==
    /\ helper[h] \in {"accepting", "ready"}
    /\ listening = "open" /\ backlog # <<>>
    /\ connChan' = [connChan EXCEPT ![h] = Head(backlog)]
    /\ backlog' = Tail(backlog)
    /\ acceptedOpen' = acceptedOpen \cup {Head(backlog)}
    /\ helper' = [helper EXCEPT ![h] = "ready"]
    /\ UNCHANGED <<transportVars, listening, lclosed, call, open, dialHist, acceptHist>>

\* tcpList.Accept returns in the goroutine, whose channel has room for the
\* result whether or not somebody waits for it.
HelperAccept(h) ==
    /\ helper[h] = "accepting"
    /\ listening = "open" /\ backlog # <<>>
    /\ connChan' = [connChan EXCEPT ![h] = Head(backlog)]
    /\ backlog' = Tail(backlog)
    /\ acceptedOpen' = acceptedOpen \cup {Head(backlog)}
    /\ helper' = [helper EXCEPT ![h] = "ready"]
    /\ UNCHANGED <<transportVars, listening, lclosed, call, open, dialHist, acceptHist>>

\* It returns an error.
HelperFail(h) ==
    /\ helper[h] = "accepting"
    /\ helper' = [helper EXCEPT ![h] = "failed"]
    /\ UNCHANGED <<transportVars, listening, lclosed, backlog, connChan, acceptedOpen, call, open,
                   dialHist, acceptHist>>

\* On a closed socket it must.
HelperClosed(h) == listening = "closed" /\ HelperFail(h)

AcceptResult(t) ==
    LET h == call[t].id
    IN  /\ At(t, "accept_wait")
        /\ helper[h] \in {"ready", "failed"}
        /\ accepted' = IF helper[h] = "ready" THEN Append(accepted, connChan[h]) ELSE accepted
        /\ helper' = [helper EXCEPT ![h] = "none"]
        /\ Return(t)
        /\ UNCHANGED <<transportVars, listening, lclosed, backlog, connChan, acceptedOpen, open,
                       dialHist, accepts, reset, cancelled>>

\* The caller's context is done: the goroutine stays.
AcceptCancelled(t) ==
    /\ At(t, "accept_wait")
    /\ cancelled' = cancelled \cup {call[t].id}
    /\ Return(t)
    /\ UNCHANGED <<transportVars, listenerVars, open, dialHist, accepts, accepted, reset>>

\* Mutant of CloseListener: the socket stays open.
CloseListenerFlag(t) ==
    /\ At(t, "idle")
    /\ listening # "no"
    /\ lclosed' = TRUE
    /\ UNCHANGED <<transportVars, listening, backlog, helper, connChan, acceptedOpen, call, open,
                   dialHist, acceptHist>>

\* Close of the listener: the kernel resets what nobody has accepted.
CloseListener(t) ==
    /\ At(t, "idle")
    /\ listening # "no"
    /\ lclosed' = TRUE
    /\ listening' = "closed"
    /\ reset' = reset \cup Range(backlog)
    /\ backlog' = <<>>
    /\ UNCHANGED <<transportVars, helper, connChan, acceptedOpen, call, open, dialHist,
                   accepts, accepted, cancelled>>

-----------------------------------------------------------------------------
\* A step inside a call or a helper, which the scheduler or the kernel grants.
Step(t) == \/ ListenBind(t) \/ DialCheck(t) \/ DialConnect(t) \/ DialFail(t)
           \/ DialRegister(t) \/ DialCount(t) \/ AcceptCheck(t) \/ AcceptResult(t)
HelperStep(h) == HelperAccept(h) \/ HelperClosed(h)

Next ==
    \/ \E t \in Threads :
          \/ CallListen(t) \/ Close(t) \/ CallAccept(t) \/ CloseListener(t)
          \/ \E a \in Addrs : CallDial(t, a)
          \/ \E c \in Conns : CloseConn(t, c) \/ CloseAccepted(t, c)
          \/ Step(t) \/ AcceptCancelled(t)
    \/ \E h \in Helpers : HelperStep(h) \/ HelperFail(h)

Spec == Init /\ [][Next]_vars

\* Goroutines keep running, and the kernel completes what it can; nobody is
\* obliged to call, and no context need ever be cancelled.
FairSpec == /\ Spec
            /\ \A t \in Threads : WF_vars(Step(t))
            /\ \A h \in Helpers : WF_vars(HelperStep(h))

-----------------------------------------------------------------------------
(* Safety.                                                                 *)

Ready == {h \in Helpers : helper[h] = "ready"}

\* A cancelled Accept costs at most one connection, and nothing else does:
\* every connection that was established is in the backlog, returned once by
\* Accept, reset by the closing of the socket, or in the channel of a helper
\* whose Accept is still to read it or was cancelled.
OneLossPerCancel ==
    /\ connected = UNION {Range(backlog), Range(accepted), reset,
                          {connChan[h] : h \in Ready}}
    /\ IsInjective(accepted)
    /\ \A h \in Ready : \/ h \in cancelled
                        \/ \E t \in Threads : At(t, "accept_wait") /\ call[t].id = h

\* The sockets of the program that are open: the listening one, the dialers'
\* ends and the accepted ones.
Sockets == (IF listening = "open" THEN {<<"listener", None>>} ELSE {})
               \cup {"dialed"} \X open \cup {"accepted"} \X acceptedOpen

\* The dialed connections that the transport's Close does not find: those that
\* another Dial to the same address has pushed out of the map, and those of the
\* Dials that had passed the check of t.closed.
Missed == UNION {replaced, late, {call[t].id : t \in {u \in Threads : At(u, "dial_register")}}}

\* All that can be open after the transport's Close, "all connections" being
\* those with an entry in the map: the listener, every connection that Accept
\* has returned or has still to return, with those a cancelled Accept will
\* never return, and of the dialed connections the missed ones.  No more than
\* one for a goroutine is late.
CloseLeavesOnly ==
    closed =>
        /\ Sockets \subseteq {<<"listener", None>>}
               \cup {"dialed"} \X Missed
               \cup {"accepted"} \X (Range(accepted) \cup {connChan[h] : h \in Ready})
        /\ Cardinality(late) <= Cardinality(Threads)

-----------------------------------------------------------------------------
(* Liveness, under FairSpec.                                               *)

\* The closing of the listener releases every waiting Accept and ends every
\* helper goroutine, those that a cancelled Accept has left behind included;
\* none is started again.
CloseEndsAccepts ==
    /\ lclosed ~> [](\A h \in Helpers : helper[h] # "accepting")
    /\ \A t \in Threads : call[t].pc \in AcceptPC /\ lclosed ~> At(t, "idle")
=============================================================================
