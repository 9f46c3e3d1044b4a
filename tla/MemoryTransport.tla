-------------------------- MODULE MemoryTransport --------------------------
(***************************************************************************)
(* The in-memory transport and its listeners (transport/memory.go):        *)
(* goroutines call Listen, Dial and Close on one MemoryTransport, and      *)
(* Accept and Close on its listeners, concurrently.                        *)
(*                                                                         *)
(* A step is one critical section or one channel operation.  t.mu is held  *)
(* across the whole of the transport's Close, so it is a variable; a       *)
(* listener's mu guards single sections only.  A listener is named by its  *)
(* address: an entry of t.listeners is never removed, so there is at most  *)
(* one per address.  Its connections channel is closed in the section that *)
(* sets its closed flag.                                                   *)
(*                                                                         *)
(* Dial reads t.closed after it has released t.mu (line 105).  A stale     *)
(* read is a read that happened before the write, so the steps of this     *)
(* model include it.                                                       *)
(***************************************************************************)
EXTENDS Naturals, Sequences

CONSTANTS Threads,  \* the goroutines that use the transport
          NoThread, \* no goroutine: t.mu is free
          Addrs,    \* the addresses passed to Listen and Dial
          Cap,      \* capacity of a listener's channel, 128 in the program
          MaxDials  \* bound on the calls of Dial

ASSUME NoThreadAssumption == NoThread \notin Threads

ASSUME AddrsAssumption == Addrs # {}

ASSUME BoundsAssumption == Cap \in Nat \ {0} /\ MaxDials \in Nat

\* A connection is the number of the Dial that builds it.
Conns == 1 .. MaxDials
NoConn == 0

VARIABLES
    closed,      \* t.closed
    mu,          \* the thread that holds t.mu across steps
    listeners,   \* the addresses with an entry in t.listeners
    lclosed,     \* lclosed[a]: listener.closed, and its channel is closed
    connections, \* connections[a]: what is buffered in listener.connections
    call,        \* call[t]: where thread t is in its call, on which address,
                 \*          and the connection its Dial builds
    panic,       \* the run-time panic that ended the program, or "none"
    \* History of what happened:
    next,        \* the connection the next Dial will build
    dialed,      \* dialed[a]: the connections Dial returned for a, in order
    accepted,    \* accepted[a]: the connections Accept returned, in order
    nilAccepted  \* nilAccepted[a]: an Accept returned neither a connection nor
                 \*                 an error

histVars == <<next, dialed, accepted, nilAccepted>>
vars == <<closed, mu, listeners, lclosed, connections, call, panic,
          next, dialed, accepted, nilAccepted>>

DialPC == {"dial_lookup", "dial_check", "dial_deliver"}
AcceptPC == {"accept_check", "accept_wait"}
ClosePC == {"close_lock", "close_listeners"}

Call == [pc : {"idle"} \cup DialPC \cup AcceptPC \cup ClosePC, addr : Addrs,
         conn : Conns \cup {NoConn}]

NoCall == [pc |-> "idle", addr |-> CHOOSE a \in Addrs : TRUE, conn |-> NoConn]

TypeOK ==
    /\ closed \in BOOLEAN
    /\ mu \in Threads \cup {NoThread}
    /\ listeners \in SUBSET Addrs
    /\ lclosed \in [Addrs -> BOOLEAN]
    /\ connections \in [Addrs -> Seq(Conns)]
    /\ \A a \in Addrs : Len(connections[a]) <= Cap
    /\ call \in [Threads -> Call]
    /\ panic \in {"none", "send on closed channel", "listener closed twice"}
    /\ next \in 1 .. MaxDials + 1
    /\ dialed \in [Addrs -> Seq(Conns)]
    /\ accepted \in [Addrs -> Seq(Conns)]
    /\ nilAccepted \in [Addrs -> BOOLEAN]

\* NewMemoryTransport
Init ==
    /\ closed = FALSE
    /\ mu = NoThread
    /\ listeners = {}
    /\ lclosed = [a \in Addrs |-> FALSE]
    /\ connections = [a \in Addrs |-> <<>>]
    /\ call = [t \in Threads |-> NoCall]
    /\ panic = "none"
    /\ next = 1
    /\ dialed = [a \in Addrs |-> <<>>]
    /\ accepted = [a \in Addrs |-> <<>>]
    /\ nilAccepted = [a \in Addrs |-> FALSE]

At(t, l) == panic = "none" /\ call[t].pc = l
Goto(t, l) == call' = [call EXCEPT ![t].pc = l]
Return(t) == call' = [call EXCEPT ![t] = NoCall]
Enter(t, l, a, c) ==
    /\ At(t, "idle")
    /\ call' = [call EXCEPT ![t] = [pc |-> l, addr |-> a, conn |-> c]]

-----------------------------------------------------------------------------
(* Listen and Dial                                                         *)

\* Mutant of Listen: a closed transport accepts new listeners.
ListenUnchecked(t, a) ==
    /\ At(t, "idle")
    /\ mu = NoThread
    /\ a \notin listeners
    /\ listeners' = listeners \cup {a}
    /\ UNCHANGED <<closed, mu, lclosed, connections, call, panic, histVars>>

\* Listen on a closed transport or on an address in use changes nothing.
Listen(t, a) ==
    /\ At(t, "idle")
    /\ mu = NoThread
    /\ ~closed
    /\ a \notin listeners
    /\ listeners' = listeners \cup {a}
    /\ UNCHANGED <<closed, mu, lclosed, connections, call, panic, histVars>>

CallDial(t, a) ==
    /\ next <= MaxDials
    /\ Enter(t, "dial_lookup", a, next)
    /\ next' = next + 1
    /\ UNCHANGED <<closed, mu, listeners, lclosed, connections, panic,
                   dialed, accepted, nilAccepted>>

DialLookup(t) ==
    /\ At(t, "dial_lookup")
    /\ mu = NoThread
    /\ IF call[t].addr \in listeners THEN Goto(t, "dial_check") ELSE Return(t)
    /\ UNCHANGED <<closed, mu, listeners, lclosed, connections, panic, histVars>>

DialCheck(t) ==
    /\ At(t, "dial_check")
    /\ IF closed THEN Return(t) ELSE Goto(t, "dial_deliver")
    /\ UNCHANGED <<closed, mu, listeners, lclosed, connections, panic, histVars>>

\* Mutant of DialDeliver: a full channel is not reported to the caller.
DialDeliverUnreported(t) ==
    LET a == call[t].addr
    IN  /\ At(t, "dial_deliver")
        /\ ~lclosed[a]
        /\ connections' = [connections EXCEPT ![a] =
               IF Len(@) < Cap THEN Append(@, call[t].conn) ELSE @]
        /\ dialed' = [dialed EXCEPT ![a] = Append(@, call[t].conn)]
        /\ Return(t)
        /\ UNCHANGED <<closed, mu, listeners, lclosed, panic,
                       next, accepted, nilAccepted>>

\* The select that hands the server's end to the listener: a send on a closed
\* channel panics, a full channel is an error.
DialDeliver(t) ==
    LET a == call[t].addr
    IN  /\ At(t, "dial_deliver")
        /\ \/ /\ lclosed[a]
              /\ panic' = "send on closed channel"
              /\ UNCHANGED <<connections, dialed, call>>
           \/ /\ ~lclosed[a]
              /\ Len(connections[a]) < Cap
              /\ connections' = [connections EXCEPT ![a] = Append(@, call[t].conn)]
              /\ dialed' = [dialed EXCEPT ![a] = Append(@, call[t].conn)]
              /\ Return(t)
              /\ UNCHANGED panic
           \/ /\ ~lclosed[a]
              /\ Len(connections[a]) = Cap
              /\ Return(t)
              /\ UNCHANGED <<connections, dialed, panic>>
        /\ UNCHANGED <<closed, mu, listeners, lclosed, next, accepted, nilAccepted>>

\* The caller's context is done.
DialCancelled(t) ==
    /\ At(t, "dial_deliver")
    /\ Return(t)
    /\ UNCHANGED <<closed, mu, listeners, lclosed, connections, panic, histVars>>

-----------------------------------------------------------------------------
(* Accept, and Close of a listener.  Nobody has a listener before Listen   *)
(* has returned it.                                                        *)

CallAccept(t, a) ==
    /\ a \in listeners
    /\ Enter(t, "accept_check", a, NoConn)
    /\ UNCHANGED <<closed, mu, listeners, lclosed, connections, panic, histVars>>

AcceptCheck(t) ==
    /\ At(t, "accept_check")
    /\ IF lclosed[call[t].addr] THEN Return(t) ELSE Goto(t, "accept_wait")
    /\ UNCHANGED <<closed, mu, listeners, lclosed, connections, panic, histVars>>

\* Mutant of AcceptWait: a closed channel does not wake the caller.
AcceptWaitOpenOnly(t) ==
    LET a == call[t].addr
    IN  /\ At(t, "accept_wait")
        /\ connections[a] # <<>>
        /\ accepted' = [accepted EXCEPT ![a] = Append(@, Head(connections[a]))]
        /\ connections' = [connections EXCEPT ![a] = Tail(@)]
        /\ Return(t)
        /\ UNCHANGED <<closed, mu, listeners, lclosed, panic, next, dialed, nilAccepted>>

\* Mutant of AcceptWait: a closed listener is reported before its channel is
\* empty.
AcceptWaitClosedFirst(t) ==
    LET a == call[t].addr
    IN  /\ At(t, "accept_wait")
        /\ lclosed[a]
        /\ nilAccepted' = [nilAccepted EXCEPT ![a] = TRUE]
        /\ Return(t)
        /\ UNCHANGED <<closed, mu, listeners, lclosed, connections, panic,
                       next, dialed, accepted>>

\* A closed channel still hands out what it has buffered; once empty it
\* yields a nil connection, which Accept returns without an error.
AcceptWait(t) ==
    LET a == call[t].addr
    IN  /\ At(t, "accept_wait")
        /\ \/ /\ connections[a] # <<>>
              /\ accepted' = [accepted EXCEPT ![a] = Append(@, Head(connections[a]))]
              /\ connections' = [connections EXCEPT ![a] = Tail(@)]
              /\ UNCHANGED nilAccepted
           \/ /\ connections[a] = <<>>
              /\ lclosed[a]
              /\ nilAccepted' = [nilAccepted EXCEPT ![a] = TRUE]
              /\ UNCHANGED <<accepted, connections>>
        /\ Return(t)
        /\ UNCHANGED <<closed, mu, listeners, lclosed, panic, next, dialed>>

\* The caller's context is done.
AcceptCancelled(t) ==
    /\ At(t, "accept_wait")
    /\ Return(t)
    /\ UNCHANGED <<closed, mu, listeners, lclosed, connections, panic, histVars>>

\* memoryListener.Close does not look at the flag it sets.
CloseListener(t, a) ==
    /\ At(t, "idle")
    /\ a \in listeners
    /\ lclosed' = [lclosed EXCEPT ![a] = TRUE]
    /\ panic' = IF lclosed[a] THEN "listener closed twice" ELSE panic
    /\ UNCHANGED <<closed, mu, listeners, connections, call, histVars>>

-----------------------------------------------------------------------------
(* Close of the transport                                                  *)

CallClose(t) ==
    /\ Enter(t, "close_lock", NoCall.addr, NoConn)
    /\ UNCHANGED <<closed, mu, listeners, lclosed, connections, panic, histVars>>

CloseLock(t) ==
    /\ At(t, "close_lock")
    /\ mu = NoThread
    /\ IF closed
       THEN Return(t) /\ UNCHANGED <<closed, mu>>
       ELSE closed' = TRUE /\ mu' = t /\ Goto(t, "close_listeners")
    /\ UNCHANGED <<listeners, lclosed, connections, panic, histVars>>

\* One round of the loop over t.listeners; the order of a map is arbitrary.
\* A listener closed already is skipped.
CloseOne(t, a) ==
    /\ At(t, "close_listeners")
    /\ a \in listeners
    /\ ~lclosed[a]
    /\ lclosed' = [lclosed EXCEPT ![a] = TRUE]
    /\ UNCHANGED <<closed, mu, listeners, connections, call, panic, histVars>>

\* Mutant of CloseDone: t.mu stays locked.
CloseDoneLocked(t) ==
    /\ At(t, "close_listeners")
    /\ \A a \in listeners : lclosed[a]
    /\ Return(t)
    /\ UNCHANGED <<closed, mu, listeners, lclosed, connections, panic, histVars>>

CloseDone(t) ==
    /\ At(t, "close_listeners")
    /\ \A a \in listeners : lclosed[a]
    /\ mu' = NoThread
    /\ Return(t)
    /\ UNCHANGED <<closed, listeners, lclosed, connections, panic, histVars>>

-----------------------------------------------------------------------------
\* A step inside a call, which the scheduler eventually grants.
Step(t) == \/ DialLookup(t) \/ DialCheck(t) \/ DialDeliver(t)
           \/ AcceptCheck(t) \/ AcceptWait(t)
           \/ CloseLock(t) \/ CloseDone(t)
           \/ \E a \in Addrs : CloseOne(t, a)

\* A panic ends the program.
Crashed == panic # "none" /\ UNCHANGED vars

Next ==
    \/ \E t \in Threads, a \in Addrs :
          \/ Listen(t, a) \/ CallDial(t, a) \/ CallAccept(t, a) \/ CloseListener(t, a)
    \/ \E t \in Threads :
          \/ CallClose(t) \/ Step(t) \/ DialCancelled(t) \/ AcceptCancelled(t)
    \/ Crashed

Spec == Init /\ [][Next]_vars

\* Goroutines in a call keep running; nobody is obliged to make a call, and
\* no context need ever be cancelled.
FairSpec == Spec /\ \A t \in Threads : WF_vars(Step(t))

-----------------------------------------------------------------------------
(* Safety.                                                                 *)

\* Every connection Dial has returned is accepted once or still queued, in
\* the order of the dials: a full channel, a Close and a cancelled Accept
\* neither lose nor repeat one.
DialedOnceInOrder == \A a \in Addrs : dialed[a] = accepted[a] \o connections[a]

\* Once the transport's Close has returned, every listener there will ever
\* be is closed, those made while Close was waiting for t.mu included.
CloseIsFinal == closed /\ mu = NoThread => \A a \in listeners : lclosed[a]

\* Accept returns a nil connection without an error only once its listener is
\* closed and every connection queued before the Close has been handed out;
\* nothing can be queued there afterwards.
NilOnlyWhenDrained ==
    \A a \in Addrs : nilAccepted[a] => lclosed[a] /\ connections[a] = <<>>

\* No connection is queued at a closed listener, although Dial looks at the
\* transport's flag only, and before it sends.
ClosedListenersTakeNothing ==
    [][\A a \in Addrs : lclosed[a] => Len(connections'[a]) <= Len(connections[a])]_vars

\* The documented result of Dial when it cannot reach the listener: an error.
DialReturnsError == panic # "send on closed channel"

-----------------------------------------------------------------------------
(* Liveness, under FairSpec.                                               *)

\* Dial and Close always return, as Dial never waits for a slow listener; a
\* waiting Accept returns once its listener is closed, by its own Close or by
\* the transport's.
CallsReturn ==
    \A t \in Threads :
        /\ call[t].pc \in DialPC \cup ClosePC
               ~> call[t].pc = "idle" \/ panic # "none"
        /\ \A a \in Addrs :
               call[t].pc \in AcceptPC /\ call[t].addr = a /\ lclosed[a]
                   ~> call[t].pc = "idle" \/ panic # "none"
=============================================================================
