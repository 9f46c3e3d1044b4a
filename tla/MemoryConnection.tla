-------------------------- MODULE MemoryConnection --------------------------
(***************************************************************************)
(* One connection of the in-memory transport (transport/memory.go): the    *)
(* pair of memoryConnection values that Dial builds over two memQueues.    *)
(*                                                                         *)
(* Threads (goroutines) call Send, Recv, Close and ClearMessages on either *)
(* end, concurrently.  A step of the model is one critical section or one  *)
(* channel operation of the code.  c.mu is held across the whole of Close, *)
(* so it is a variable; a memQueue's mu guards single sections only, which *)
(* are therefore atomic.                                                   *)
(*                                                                         *)
(* A queue is named after the end that sends on it.  Its notifier is a     *)
(* channel of capacity one, closed in the critical section that sets the   *)
(* queue's closed flag.                                                    *)
(***************************************************************************)
EXTENDS Naturals, Sequences, Functions

CONSTANTS Threads,  \* the goroutines that use the connection
          NoThread, \* no goroutine: c.mu is free
          MaxMsgs   \* bound on the messages passed to Send

ASSUME NoThreadAssumption == NoThread \notin Threads

ASSUME MaxMsgsAssumption == MaxMsgs \in Nat

Ends == {"client", "server"}

Peer(e) == IF e = "client" THEN "server" ELSE "client"

Msgs == 1 .. MaxMsgs
NilMsg == 0

VARIABLES
    closed,    \* closed[e]: memoryConnection.closed of end e
    mu,        \* mu[e]: the thread that holds c.mu of end e across steps
    messages,  \* messages[q]: memQueue.messages
    notifier,  \* notifier[q]: a token is buffered in the notifier channel
    qclosed,   \* qclosed[q]: memQueue.closed, and the notifier is closed
    call,      \* call[t]: where thread t is in its call, on which end, and
               \*          the message of its Send
    panic,     \* the run-time panic that ended the program, or "none"
    \* History of what happened:
    next,      \* the next message to be passed to Send
    acked,     \* the messages whose Send returned nil
    earlier,   \* earlier[m]: the messages acked when Send of m was called
    received,  \* received[e]: what Recv on end e returned, in order
    cleared,   \* the messages removed by ClearMessages
    eof        \* eof[e]: a Recv on e found its queue closed

queueVars == <<messages, notifier, qclosed>>
connVars == <<closed, mu>>
histVars == <<next, acked, earlier, received, cleared, eof>>
vars == <<closed, mu, messages, notifier, qclosed, call, panic,
          next, acked, earlier, received, cleared, eof>>

SendPC == {"send_check", "send_append", "send_notify"}
RecvPC == {"recv_check", "recv_pop", "recv_wait"}
ClosePC == {"close_lock", "close_inbound", "close_outbound"}

Call == [pc : {"idle"} \cup SendPC \cup RecvPC \cup ClosePC,
         end : Ends, msg : Msgs \cup {NilMsg}]

NoCall == [pc |-> "idle", end |-> "client", msg |-> NilMsg]

TypeOK ==
    /\ closed \in [Ends -> BOOLEAN]
    /\ mu \in [Ends -> Threads \cup {NoThread}]
    /\ messages \in [Ends -> Seq(Msgs)]
    /\ notifier \in [Ends -> BOOLEAN]
    /\ qclosed \in [Ends -> BOOLEAN]
    /\ call \in [Threads -> Call]
    /\ panic \in {"none", "send on closed channel"}
    /\ next \in 1 .. MaxMsgs + 1
    /\ acked \in SUBSET Msgs
    /\ earlier \in [Msgs -> SUBSET Msgs]
    /\ received \in [Ends -> Seq(Msgs)]
    /\ cleared \in SUBSET Msgs
    /\ eof \in [Ends -> BOOLEAN]

\* The state Dial leaves behind.
Init ==
    /\ closed = [e \in Ends |-> FALSE]
    /\ mu = [e \in Ends |-> NoThread]
    /\ messages = [q \in Ends |-> <<>>]
    /\ notifier = [q \in Ends |-> FALSE]
    /\ qclosed = [q \in Ends |-> FALSE]
    /\ call = [t \in Threads |-> NoCall]
    /\ panic = "none"
    /\ next = 1
    /\ acked = {}
    /\ earlier = [m \in Msgs |-> {}]
    /\ received = [e \in Ends |-> <<>>]
    /\ cleared = {}
    /\ eof = [e \in Ends |-> FALSE]

Inbound(t) == Peer(call[t].end)
Outbound(t) == call[t].end

\* Thread t runs the step that begins at l, or moves on to the next one.
At(t, l) == panic = "none" /\ call[t].pc = l
Goto(t, l) == call' = [call EXCEPT ![t].pc = l]
Return(t) == call' = [call EXCEPT ![t] = NoCall]

\* Thread t, in no call, calls a method of end e.
Enter(t, l, e, m) ==
    /\ At(t, "idle")
    /\ call' = [call EXCEPT ![t] = [pc |-> l, end |-> e, msg |-> m]]

InRecv(t) == call[t].pc \in RecvPC

-----------------------------------------------------------------------------
(* Send                                                                    *)

CallSend(t, e) ==
    /\ next <= MaxMsgs
    /\ Enter(t, "send_check", e, next)
    /\ next' = next + 1
    /\ earlier' = [earlier EXCEPT ![next] = acked]
    /\ UNCHANGED <<connVars, queueVars, panic, acked, received, cleared, eof>>

CallSendNil(t, e) ==
    /\ Enter(t, "send_check", e, NilMsg)
    /\ UNCHANGED <<connVars, queueVars, panic, histVars>>

\* A closed end and a nil message are refused.
SendCheck(t) ==
    /\ At(t, "send_check")
    /\ mu[call[t].end] = NoThread
    /\ IF closed[call[t].end] \/ call[t].msg = NilMsg
       THEN Return(t)
       ELSE Goto(t, "send_append")
    /\ UNCHANGED <<connVars, queueVars, panic, histVars>>

\* The caller's context is done.
SendCancelled(t) ==
    /\ At(t, "send_append")
    /\ Return(t)
    /\ UNCHANGED <<connVars, queueVars, panic, histVars>>

\* Mutant of SendAppend: a closed queue is not reported to the caller.
SendAppendUnreported(t) ==
    LET q == Outbound(t)
    IN  /\ At(t, "send_append")
        /\ IF qclosed[q]
           THEN /\ Return(t)
                /\ acked' = acked \cup {call[t].msg}
                /\ UNCHANGED messages
           ELSE /\ messages' = [messages EXCEPT ![q] = Append(@, call[t].msg)]
                /\ Goto(t, "send_notify")
                /\ UNCHANGED acked
        /\ UNCHANGED <<connVars, notifier, qclosed, panic,
                       next, earlier, received, cleared, eof>>

\* Mutant of SendAppend: new messages go to the front of the queue.
SendPrepends(t) ==
    /\ At(t, "send_append")
    /\ ~qclosed[Outbound(t)]
    /\ messages' = [messages EXCEPT ![Outbound(t)] = <<call[t].msg>> \o @]
    /\ Goto(t, "send_notify")
    /\ UNCHANGED <<connVars, notifier, qclosed, panic, histVars>>

SendAppend(t) ==
    LET q == Outbound(t)
    IN  /\ At(t, "send_append")
        /\ IF qclosed[q]
           THEN Return(t) /\ UNCHANGED messages
           ELSE /\ messages' = [messages EXCEPT ![q] = Append(@, call[t].msg)]
                /\ Goto(t, "send_notify")
        /\ UNCHANGED <<connVars, notifier, qclosed, panic, histVars>>

\* Mutant of SendNotify: no token is left for the receiver.
SendNotifySilent(t) ==
    /\ At(t, "send_notify")
    /\ ~qclosed[Outbound(t)]
    /\ acked' = acked \cup {call[t].msg}
    /\ Return(t)
    /\ UNCHANGED <<connVars, queueVars, panic,
                   next, earlier, received, cleared, eof>>

\* The select after the queue is unlocked: a token if there is room for it.
\* A send on a closed channel panics, with a default case as without one.
SendNotify(t) ==
    LET q == Outbound(t)
    IN  /\ At(t, "send_notify")
        /\ IF qclosed[q]
           THEN /\ panic' = "send on closed channel"
                /\ UNCHANGED <<call, notifier, acked>>
           ELSE /\ notifier' = [notifier EXCEPT ![q] = TRUE]
                /\ acked' = acked \cup {call[t].msg}
                /\ Return(t)
                /\ UNCHANGED panic
        /\ UNCHANGED <<connVars, messages, qclosed,
                       next, earlier, received, cleared, eof>>

-----------------------------------------------------------------------------
(* Recv                                                                    *)

\* Callers keep to one receiving goroutine per connection, as the package
\* documents.
CallRecv(t, e) ==
    /\ \A u \in Threads : ~(InRecv(u) /\ call[u].end = e)
    /\ Enter(t, "recv_check", e, NilMsg)
    /\ UNCHANGED <<connVars, queueVars, panic, histVars>>

RecvCheck(t) ==
    /\ At(t, "recv_check")
    /\ mu[call[t].end] = NoThread
    /\ IF closed[call[t].end] THEN Return(t) ELSE Goto(t, "recv_pop")
    /\ UNCHANGED <<connVars, queueVars, panic, histVars>>

\* Mutant of RecvPop: the closed flag is looked at before the messages.
RecvPopClosedFirst(t) ==
    LET q == Inbound(t)
    IN  /\ At(t, "recv_pop")
        /\ IF qclosed[q]
           THEN /\ Return(t)
                /\ eof' = [eof EXCEPT ![call[t].end] = TRUE]
                /\ UNCHANGED <<messages, received>>
           ELSE IF messages[q] # <<>>
           THEN /\ received' = [received EXCEPT ![call[t].end] = Append(@, Head(messages[q]))]
                /\ messages' = [messages EXCEPT ![q] = Tail(@)]
                /\ Return(t)
                /\ UNCHANGED eof
           ELSE Goto(t, "recv_wait") /\ UNCHANGED <<messages, received, eof>>
        /\ UNCHANGED <<connVars, notifier, qclosed, panic,
                       next, acked, earlier, cleared>>

\* Queued messages are handed out before the closed flag is looked at.
RecvPop(t) ==
    LET q == Inbound(t)
    IN  /\ At(t, "recv_pop")
        /\ IF messages[q] # <<>>
           THEN /\ received' = [received EXCEPT ![call[t].end] = Append(@, Head(messages[q]))]
                /\ messages' = [messages EXCEPT ![q] = Tail(@)]
                /\ Return(t)
                /\ UNCHANGED eof
           ELSE /\ IF qclosed[q] THEN Return(t) ELSE Goto(t, "recv_wait")
                /\ eof' = [eof EXCEPT ![call[t].end] = @ \/ qclosed[q]]
                /\ UNCHANGED <<messages, received>>
        /\ UNCHANGED <<connVars, notifier, qclosed, panic,
                       next, acked, earlier, cleared>>

\* A buffered token is received even from a closed channel.
RecvWake(t) ==
    LET q == Inbound(t)
    IN  /\ At(t, "recv_wait")
        /\ notifier[q] \/ qclosed[q]
        /\ notifier' = [notifier EXCEPT ![q] = FALSE]
        /\ IF notifier[q] THEN Goto(t, "recv_check") ELSE Return(t)
        /\ eof' = [eof EXCEPT ![call[t].end] = @ \/ ~notifier[q]]
        /\ UNCHANGED <<connVars, messages, qclosed, panic,
                       next, acked, earlier, received, cleared>>

\* The caller's context is done.
RecvCancelled(t) ==
    /\ At(t, "recv_wait")
    /\ Return(t)
    /\ UNCHANGED <<connVars, queueVars, panic, histVars>>

-----------------------------------------------------------------------------
(* Close, ClearMessages                                                    *)

CallClose(t, e) ==
    /\ Enter(t, "close_lock", e, NilMsg)
    /\ UNCHANGED <<connVars, queueVars, panic, histVars>>

\* The first Close of an end keeps c.mu until it returns.
CloseLock(t) ==
    LET e == call[t].end
    IN  /\ At(t, "close_lock")
        /\ mu[e] = NoThread
        /\ IF closed[e]
           THEN Return(t) /\ UNCHANGED connVars
           ELSE /\ closed' = [closed EXCEPT ![e] = TRUE]
                /\ mu' = [mu EXCEPT ![e] = t]
                /\ Goto(t, "close_inbound")
        /\ UNCHANGED <<queueVars, panic, histVars>>

\* Closing a queue closes its notifier unless the other end has done so.
CloseQueue(q) ==
    /\ qclosed' = [qclosed EXCEPT ![q] = TRUE]
    /\ UNCHANGED panic

\* Mutant of CloseInbound: blocked receivers are not woken.
CloseInboundSkipped(t) ==
    /\ At(t, "close_inbound")
    /\ Goto(t, "close_outbound")
    /\ UNCHANGED <<connVars, queueVars, panic, histVars>>

CloseInbound(t) ==
    /\ At(t, "close_inbound")
    /\ CloseQueue(Inbound(t))
    /\ Goto(t, "close_outbound")
    /\ UNCHANGED <<connVars, messages, notifier, histVars>>

\* Mutant of CloseOutbound: c.mu is not released.
CloseOutboundKeepsLock(t) ==
    /\ At(t, "close_outbound")
    /\ CloseQueue(Outbound(t))
    /\ Return(t)
    /\ UNCHANGED <<connVars, messages, notifier, histVars>>

CloseOutbound(t) ==
    /\ At(t, "close_outbound")
    /\ CloseQueue(Outbound(t))
    /\ mu' = [mu EXCEPT ![call[t].end] = NoThread]
    /\ Return(t)
    /\ UNCHANGED <<closed, messages, notifier, histVars>>

ClearMessages(t, e) ==
    /\ At(t, "idle")
    /\ messages' = [messages EXCEPT ![e] = <<>>]
    /\ cleared' = cleared \cup Range(messages[e])
    /\ UNCHANGED <<connVars, notifier, qclosed, call, panic,
                   next, acked, earlier, received, eof>>

-----------------------------------------------------------------------------
\* A step inside a call, which the scheduler eventually grants.
Step(t) == \/ SendCheck(t) \/ SendAppend(t) \/ SendNotify(t)
           \/ RecvCheck(t) \/ RecvPop(t) \/ RecvWake(t)
           \/ CloseLock(t) \/ CloseInbound(t) \/ CloseOutbound(t)

\* A panic ends the program.
Crashed == panic # "none" /\ UNCHANGED vars

Next ==
    \/ \E t \in Threads, e \in Ends :
          \/ CallSend(t, e) \/ CallSendNil(t, e) \/ CallRecv(t, e)
          \/ CallClose(t, e) \/ ClearMessages(t, e)
    \/ \E t \in Threads : Step(t) \/ SendCancelled(t) \/ RecvCancelled(t)
    \/ Crashed

Spec == Init /\ [][Next]_vars

\* Goroutines in a call keep running; nobody is obliged to make a call, and
\* no context need ever be cancelled.
FairSpec == Spec /\ \A t \in Threads : WF_vars(Step(t))

-----------------------------------------------------------------------------
(* Safety.                                                                 *)

\* A receiver never sleeps beside a message: if Recv waits on the notifier
\* while its queue holds a message, a token is buffered, the channel is
\* closed, or a sender is about to leave a token.  Send appends under the
\* queue's lock but notifies after it, and drops the token when one is there.
NoLostWakeup ==
    \A t \in Threads :
        call[t].pc = "recv_wait" /\ messages[Inbound(t)] # <<>> =>
            \/ notifier[Inbound(t)]
            \/ qclosed[Inbound(t)]
            \/ \E u \in Threads : call[u].pc = "send_notify" /\ Outbound(u) = Inbound(t)

\* Once Recv has reported its queue closed, no message whose Send returned
\* nil is left behind in it: what was sent before the peer's Close is
\* received before the error.
DrainedBeforeClosed ==
    \A e \in Ends : eof[e] => Range(messages[Peer(e)]) \cap acked = {}

\* Messages arrive in order and at most once: of two messages received on an
\* end, the later one was not acknowledged before Send of the earlier one was
\* even called, whichever goroutines sent them.
DeliveredInOrder ==
    \A e \in Ends : \A i, j \in DOMAIN received[e] :
        i < j => /\ received[e][i] # received[e][j]
                 /\ received[e][j] \notin earlier[received[e][i]]

\* A message whose Send returned nil is queued, received or was removed by
\* ClearMessages: none vanishes in a race of Send, Recv and Close.
AckedNotLost ==
    \A m \in acked : \/ m \in cleared
                      \/ \E e \in Ends : m \in Range(messages[e]) \cup Range(received[e])

\* The documented behaviour of Send on a connection that is being closed: it
\* returns an error.
SendNeverPanics == panic # "send on closed channel"

\* A closed queue takes no further message: Send looks at the flag again
\* under the queue's lock, after the check of the connection's own flag.
NothingQueuedAfterClose ==
    [][\A q \in Ends : qclosed[q] => Len(messages'[q]) <= Len(messages[q])]_vars

-----------------------------------------------------------------------------
(* The connection implements two channels, one per direction.              *)

\* The messages that have been queued so far.
Taken == cleared \cup UNION {Range(messages[e]) \cup Range(received[e]) : e \in Ends}

Abstract == INSTANCE Channel
    WITH Dirs <- Ends, Payloads <- Msgs, queue <- messages,
         delivered <- [q \in Ends |-> received[Peer(q)]],
         taken <- Taken, open <- [q \in Ends |-> ~qclosed[q]]

\* Whatever Sends, Recvs, Closes and ClearMessages interleave, each direction
\* is a channel as the Connection interface promises: accepted while open,
\* handed out at most once and in order, never made up.
ImplementsChannel == Abstract!Spec

-----------------------------------------------------------------------------
(* Liveness, under FairSpec.                                               *)

\* Send and Close always return: neither waits for the other side.
SendAndCloseReturn ==
    \A t \in Threads :
        call[t].pc \in SendPC \cup ClosePC ~> call[t].pc = "idle" \/ panic # "none"

\* A Recv returns if a message stays available to it, and closing either end
\* releases it, one that waits already included.
RecvReturns ==
    \A t \in Threads :
        /\ InRecv(t) /\ messages[Inbound(t)] # <<>>
               ~> ~InRecv(t) \/ messages[Inbound(t)] = <<>> \/ panic # "none"
        /\ InRecv(t) /\ (closed["client"] \/ closed["server"])
               ~> ~InRecv(t) \/ panic # "none"
=============================================================================
