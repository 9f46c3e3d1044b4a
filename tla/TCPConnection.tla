--------------------------- MODULE TCPConnection ---------------------------
(***************************************************************************)
(* One TCP connection seen from both of its ends (transport/tcp.go):       *)
(* goroutines call Send, Recv and Close on the TCPConnection of either     *)
(* end.  A step is one critical section, one access to c.closed outside    *)
(* c.mu, or one operation on the socket; c.mu, sendMu and recvMu are       *)
(* variables because they are held across steps.                           *)
(*                                                                         *)
(* The socket and its buffers are external: wire[e] is what end e has      *)
(* written and its peer has not read.  Its cells are the bytes of a frame, *)
(* a 4- or 8-byte big-endian number being one cell; a name's length takes  *)
(* one byte, so it is kept modulo ByteSize.                                *)
(***************************************************************************)
EXTENDS Naturals, Sequences, FiniteSets

CONSTANTS Threads,        \* the goroutines that use the connection
          NoThread,       \* no goroutine: a lock is free
          Messages,       \* the values passed to Send
          Invalid,        \* no message: an error of deserializeMessage
          OutOfRange,     \* no message: a panic of deserializeMessage
          ByteSize,       \* the values of a byte, 256 in the program
          MaxMessageSize, \* config.MaxMessageSize of either end, in cells
          Uses,           \* who calls which method on which end
          Window,         \* cells in flight beyond which a write blocks
          MaxSends        \* bound on the calls of Send

\* A program starts finitely many goroutines.
ASSUME ThreadsAssumption == IsFiniteSet(Threads) /\ NoThread \notin Threads

\* What a frame carries of a Message: names, sequence number and bytes.  The
\* Timestamp and the Metadata of a Message do not travel.
Message == [from : Seq(Nat), to : Seq(Nat), seq : Nat, body : Seq(Nat), vc : Seq(Nat)]

ASSUME MessagesAssumption ==
    /\ Messages \subseteq Message
    /\ Invalid \notin Message /\ OutOfRange \notin Message /\ Invalid # OutOfRange

Ends == {"dialer", "acceptor"}

ASSUME SizesAssumption == /\ {ByteSize, Window, MaxSends} \subseteq Nat \ {0}
                          /\ MaxMessageSize \in [Ends -> Nat \ {0}]

ASSUME UsesAssumption == Uses \subseteq Threads \X {"Send", "Recv", "Close"} \X Ends

Peer(e) == IF e = "dialer" THEN "acceptor" ELSE "dialer"

-----------------------------------------------------------------------------
(* The frame: serializeMessage and deserializeMessage.                     *)

\* Mutant of serializeMessage: the sender's name is written without its length.
serializeUnframed(m) ==
    m.from \o <<Len(m.to) % ByteSize>> \o m.to \o <<m.seq>>
        \o <<Len(m.body)>> \o m.body \o <<Len(m.vc)>> \o m.vc

serializeMessage(m) ==
    <<Len(m.from) % ByteSize>> \o m.from \o <<Len(m.to) % ByteSize>> \o m.to
        \o <<m.seq>> \o <<Len(m.body)>> \o m.body \o <<Len(m.vc)>> \o m.vc

\* The shortest frame has five cells, 18 bytes; the code asks for 19.
MinData == 6

\* Each length is checked against the data, except that the cell of the second
\* length is read without a look at whether it is there.
deserializeMessage(d) ==
    LET to   == 2 + d[1]
        seq  == to + 1 + d[to]
        body == seq + 1
        vc   == body + 1 + d[body]
    IN  CASE Len(d) < MinData \/ to > Len(d) + 1 -> Invalid
          [] Len(d) >= MinData /\ to = Len(d) + 1 -> OutOfRange
          [] OTHER ->
             IF \/ seq > Len(d) \/ body > Len(d)
                \/ vc > Len(d) \/ vc + d[vc] > Len(d)
             THEN Invalid
             ELSE [from |-> SubSeq(d, 2, to - 1), to |-> SubSeq(d, to + 1, seq - 1),
                   seq |-> d[seq], body |-> SubSeq(d, body + 1, vc - 1),
                   vc |-> SubSeq(d, vc + 1, vc + d[vc])]

\* What Send writes: the length, then the data.
Frame(m) == <<Len(serializeMessage(m))>> \o serializeMessage(m)

\* Names whose length fits a byte, and at least one byte beyond the header.
Fits(m) == /\ Len(m.from) < ByteSize /\ Len(m.to) < ByteSize
           /\ Len(serializeMessage(m)) >= MinData

-----------------------------------------------------------------------------
Locks == {"mu", "send", "recv"}

VARIABLES
    closed, \* closed[e]: c.closed
    lock,   \* lock[e]: who holds c.mu for writing, c.sendMu and c.recvMu
    sock,   \* sock[e]: the socket of end e is open
    werr,   \* werr[e]: c.writer keeps an error, and fails from then on
    wire,   \* wire[e]: the cells written by e and not read by its peer
    call,   \* call[t]: where thread t is in its call, on which end, with
            \*          which message, and the length its Recv has read
    \* History of what happened:
    sends,  \* the number of calls of Send
    sent,   \* sent[e]: the messages whose frame was written, in order
    got,    \* got[e]: what the frames read on e were decoded to, in order
    torn    \* torn[e]: a part of a frame was written

histVars == <<sends, sent, got, torn>>
vars == <<closed, lock, sock, werr, wire, call, sends, sent, got, torn>>

SendPC == {"send_check", "send_lock", "send_write"}
RecvPC == {"recv_check", "recv_lock", "recv_len", "recv_data"}
ClosePC == {"close_lock", "close_check", "close_set", "close_sock"}

NoCall == [pc |-> "idle", end |-> "dialer", msg |-> Invalid, len |-> 0]

TypeOK ==
    /\ closed \in [Ends -> BOOLEAN]
    /\ lock \in [Ends -> [Locks -> Threads \cup {NoThread}]]
    /\ sock \in [Ends -> BOOLEAN]
    /\ werr \in [Ends -> BOOLEAN]
    /\ wire \in [Ends -> Seq(Nat)]
    /\ call \in [Threads -> [pc : {"idle"} \cup SendPC \cup RecvPC \cup ClosePC,
                             end : Ends, msg : Messages \cup {Invalid},
                             len : Nat]]
    /\ \A t \in Threads : call[t].len <= MaxMessageSize[call[t].end]
    /\ sends \in 0 .. MaxSends
    /\ sent \in [Ends -> Seq(Messages)]
    /\ \A e \in Ends : Len(got[e]) <= MaxSends
    /\ torn \in [Ends -> BOOLEAN]

Init ==
    /\ closed = [e \in Ends |-> FALSE]
    /\ lock = [e \in Ends |-> [k \in Locks |-> NoThread]]
    /\ sock = [e \in Ends |-> TRUE]
    /\ werr = [e \in Ends |-> FALSE]
    /\ wire = [e \in Ends |-> <<>>]
    /\ call = [t \in Threads |-> NoCall]
    /\ sends = 0
    /\ sent = [e \in Ends |-> <<>>]
    /\ got = [e \in Ends |-> <<>>]
    /\ torn = [e \in Ends |-> FALSE]

At(t, l) == call[t].pc = l
Goto(t, l) == call' = [call EXCEPT ![t].pc = l]
Enter(t, l, e, m) ==
    /\ At(t, "idle")
    /\ call' = [call EXCEPT ![t] = [NoCall EXCEPT !.pc = l, !.end = e, !.msg = m]]

Acquire(t, k) ==
    /\ lock[call[t].end][k] = NoThread
    /\ lock' = [lock EXCEPT ![call[t].end][k] = t]

\* The deferred unlocks run when the call returns.
Return(t) ==
    /\ call' = [call EXCEPT ![t] = NoCall]
    /\ lock' = [e \in Ends |->
           [k \in Locks |-> IF lock[e][k] = t THEN NoThread ELSE lock[e][k]]]

\* The check of c.closed under c.mu.RLock that begins Send and Recv.
Check(t, l) ==
    LET e == call[t].end
    IN  /\ lock[e]["mu"] = NoThread
        /\ IF closed[e] THEN Return(t) ELSE Goto(t, l) /\ UNCHANGED lock
        /\ UNCHANGED <<closed, sock, werr, wire, histVars>>

-----------------------------------------------------------------------------
(* Send                                                                    *)

CallSend(t, e, m) ==
    /\ sends < MaxSends
    /\ <<t, "Send", e>> \in Uses
    /\ Enter(t, "send_check", e, m)
    /\ sends' = sends + 1
    /\ UNCHANGED <<closed, lock, sock, werr, wire, sent, got, torn>>

SendCheck(t) == At(t, "send_check") /\ Check(t, "send_lock")

\* sendMu is taken, without a second look at c.closed; a message that is too
\* large is refused.
SendLock(t) ==
    /\ At(t, "send_lock")
    /\ lock[call[t].end]["send"] = NoThread
    /\ IF Len(serializeMessage(call[t].msg)) > MaxMessageSize[call[t].end]
       THEN Return(t)
       ELSE Acquire(t, "send") /\ Goto(t, "send_write")
    /\ UNCHANGED <<closed, sock, werr, wire, histVars>>

\* Mutant of SendWrite: an earlier error of the writer is forgotten.
SendWriteRetry(t) ==
    LET e == call[t].end
    IN  /\ At(t, "send_write")
        /\ sock[e] /\ Len(wire[e]) < Window
        /\ wire' = [wire EXCEPT ![e] = @ \o Frame(call[t].msg)]
        /\ sent' = [sent EXCEPT ![e] = Append(@, call[t].msg)]
        /\ Return(t)
        /\ UNCHANGED <<closed, sock, werr, sends, got, torn>>

\* Mutant of SendWrite: the frame is not flushed.
SendWriteUnflushed(t) ==
    LET e == call[t].end
    IN  /\ At(t, "send_write")
        /\ sock[e] /\ ~werr[e] /\ Len(wire[e]) < Window
        /\ sent' = [sent EXCEPT ![e] = Append(@, call[t].msg)]
        /\ Return(t)
        /\ UNCHANGED <<closed, sock, werr, wire, sends, got, torn>>

\* The frame is written and flushed.
SendWrite(t) ==
    LET e == call[t].end
    IN  /\ At(t, "send_write")
        /\ sock[e] /\ ~werr[e] /\ Len(wire[e]) < Window
        /\ wire' = [wire EXCEPT ![e] = @ \o Frame(call[t].msg)]
        /\ sent' = [sent EXCEPT ![e] = Append(@, call[t].msg)]
        /\ Return(t)
        /\ UNCHANGED <<closed, sock, werr, sends, got, torn>>

\* A write fails, with nothing, the length or all but the end of the frame on
\* the wire.
SendFails(t) ==
    LET e == call[t].end
        f == Frame(call[t].msg)
    IN  /\ At(t, "send_write")
        /\ \E n \in IF werr[e] \/ ~sock[e] THEN {0} ELSE {0, 1, Len(f) - 1} :
              /\ wire' = [wire EXCEPT ![e] = @ \o SubSeq(f, 1, n)]
              /\ torn' = [torn EXCEPT ![e] = @ \/ n > 0]
        /\ werr' = [werr EXCEPT ![e] = TRUE]
        /\ Goto(t, "close_check")
        /\ UNCHANGED <<closed, lock, sock, sends, sent, got>>

\* The writer has failed before, or a socket is closed.
SendBroken(t) ==
    /\ werr[call[t].end] \/ ~sock[call[t].end] \/ ~sock[Peer(call[t].end)]
    /\ SendFails(t)

-----------------------------------------------------------------------------
(* Recv                                                                    *)

\* Callers keep to one receiving goroutine per connection, as the package
\* documents: Recv is not called before the Recv under way has returned.
CallRecv(t, e) ==
    /\ lock[e]["recv"] = NoThread
    /\ \A u \in Threads : ~(call[u].pc \in RecvPC /\ call[u].end = e)
    /\ <<t, "Recv", e>> \in Uses
    /\ Enter(t, "recv_check", e, Invalid)
    /\ UNCHANGED <<closed, lock, sock, werr, wire, histVars>>

RecvCheck(t) == At(t, "recv_check") /\ Check(t, "recv_lock")

RecvLock(t) ==
    /\ At(t, "recv_lock")
    /\ Acquire(t, "recv")
    /\ Goto(t, "recv_len")
    /\ UNCHANGED <<closed, sock, werr, wire, histVars>>

\* Mutant of RecvLen: the length is not compared with MaxMessageSize.
RecvLenAny(t) ==
    LET in == wire[Peer(call[t].end)]
    IN  /\ At(t, "recv_len")
        /\ in # <<>>
        /\ wire' = [wire EXCEPT ![Peer(call[t].end)] = Tail(@)]
        /\ call' = [call EXCEPT ![t].pc = "recv_data", ![t].len = Head(in)]
        /\ UNCHANGED <<closed, lock, sock, werr, histVars>>

\* The length is read; one that is too large ends the connection.  The
\* bufio.Reader may have it although the socket of this end is closed by now:
\* a read on a closed socket may succeed or fail.
RecvLen(t) ==
    LET in == wire[Peer(call[t].end)]
    IN  /\ At(t, "recv_len")
        /\ in # <<>>
        /\ wire' = [wire EXCEPT ![Peer(call[t].end)] = Tail(@)]
        /\ IF Head(in) > MaxMessageSize[call[t].end]
           THEN Goto(t, "close_check")
           ELSE call' = [call EXCEPT ![t].pc = "recv_data", ![t].len = Head(in)]
        /\ UNCHANGED <<closed, lock, sock, werr, histVars>>

\* The data is read and decoded; data that cannot be decoded is an error that
\* leaves the connection open.
RecvData(t) ==
    LET e == call[t].end
        in == wire[Peer(e)]
        n == call[t].len
    IN  /\ At(t, "recv_data")
        /\ Len(in) >= n
        /\ got' = [got EXCEPT ![e] = Append(@, deserializeMessage(SubSeq(in, 1, n)))]
        /\ wire' = [wire EXCEPT ![Peer(e)] = SubSeq(@, n + 1, Len(@))]
        /\ Return(t)
        /\ UNCHANGED <<closed, sock, werr, sends, sent, torn>>

\* Mutant of RecvFails: a read that fails is tried again.
RecvRetries(t) == call[t].pc \in {"recv_len", "recv_data"} /\ UNCHANGED vars

\* A read fails.  Nobody reads from this end again.
RecvFails(t) ==
    /\ call[t].pc \in {"recv_len", "recv_data"}
    /\ Goto(t, "close_check")
    /\ UNCHANGED <<closed, lock, sock, werr, wire, histVars>>

\* The socket is closed, or the peer's is and what it wrote does not suffice.
RecvBroken(t) ==
    LET e == call[t].end
        in == wire[Peer(e)]
    IN  /\ ~sock[e] \/ (~sock[Peer(e)] /\ (in = <<>> \/ Len(in) < call[t].len))
        /\ RecvFails(t)

-----------------------------------------------------------------------------
(* Close, and the close() of a failed call, which does not take c.mu.      *)

CallClose(t, e) ==
    /\ <<t, "Close", e>> \in Uses
    /\ Enter(t, "close_lock", e, Invalid)
    /\ UNCHANGED <<closed, lock, sock, werr, wire, histVars>>

\* The first Close keeps c.mu until it returns.
CloseLock(t) ==
    /\ At(t, "close_lock")
    /\ lock[call[t].end]["mu"] = NoThread
    /\ IF closed[call[t].end] THEN Return(t) ELSE Acquire(t, "mu") /\ Goto(t, "close_set")
    /\ UNCHANGED <<closed, sock, werr, wire, histVars>>

CloseCheck(t) ==
    /\ At(t, "close_check")
    /\ IF closed[call[t].end]
       THEN Return(t)
       ELSE Goto(t, "close_set") /\ UNCHANGED lock
    /\ UNCHANGED <<closed, sock, werr, wire, histVars>>

CloseSet(t) ==
    /\ At(t, "close_set")
    /\ closed' = [closed EXCEPT ![call[t].end] = TRUE]
    /\ Goto(t, "close_sock")
    /\ UNCHANGED <<lock, sock, werr, wire, histVars>>

\* Mutant of CloseSock: the socket stays open.
CloseSockSkipped(t) ==
    /\ At(t, "close_sock")
    /\ Return(t)
    /\ UNCHANGED <<closed, sock, werr, wire, histVars>>

CloseSock(t) ==
    /\ At(t, "close_sock")
    /\ sock' = [sock EXCEPT ![call[t].end] = FALSE]
    /\ Return(t)
    /\ UNCHANGED <<closed, werr, wire, histVars>>

\* The network: a reset by a closed end destroys what it had in flight.
Reset(e) ==
    /\ ~sock[e] /\ wire[e] # <<>>
    /\ wire' = [wire EXCEPT ![e] = <<>>]
    /\ UNCHANGED <<closed, lock, sock, werr, call, histVars>>

-----------------------------------------------------------------------------
\* A step inside a call, which the scheduler and the socket eventually grant.
Step(t) == \/ SendCheck(t) \/ SendLock(t) \/ SendWrite(t) \/ SendBroken(t)
           \/ RecvCheck(t) \/ RecvLock(t) \/ RecvLen(t) \/ RecvData(t) \/ RecvBroken(t)
           \/ CloseLock(t) \/ CloseCheck(t) \/ CloseSet(t) \/ CloseSock(t)

\* A deadline, if the configuration sets one, passes.
TimedOut(t) == SendFails(t) \/ RecvFails(t)

Next ==
    \/ \E t \in Threads, e \in Ends :
          \/ \E m \in Messages : CallSend(t, e, m)
          \/ CallRecv(t, e) \/ CallClose(t, e)
    \/ \E t \in Threads : Step(t) \/ TimedOut(t)
    \/ \E e \in Ends : Reset(e)

Spec == Init /\ [][Next]_vars

\* Goroutines in a call keep running, and operations on a closed or broken
\* socket return; nobody is obliged to call, and no deadline need be set.
FairSpec == Spec /\ \A t \in Threads : WF_vars(Step(t))

-----------------------------------------------------------------------------
(* Safety.                                                                 *)

\* The frames read on an end are those its peer wrote, one Recv for one
\* frame: a message whose names fit a byte is returned as it was sent, and one
\* that is mangled or refused does not disturb those that follow it.
ReceivedAsSent ==
    \A e \in Ends : \A i \in DOMAIN got[e] :
        /\ i <= Len(sent[Peer(e)])
        /\ Fits(sent[Peer(e)][i]) => got[e][i] = sent[Peer(e)][i]
        /\ got[e][i] # OutOfRange

\* Nothing follows the fragment a failed Send leaves on the wire, although the
\* close() of the failed call may find c.closed set by a Close that has not
\* closed the socket yet, with other senders waiting for sendMu.
NothingAfterTorn ==
    [][\A e \in Ends : torn[e] => Len(wire'[e]) <= Len(wire[e])]_vars

\* The cells f are the first of w.
Leads(f, w) == Len(f) <= Len(w) /\ SubSeq(w, 1, Len(f)) = f

\* What Send has reported as sent is there for the peer to read: while the
\* sender's socket is open, a Recv that waits beside a message nobody has
\* received finds before it the frame of the oldest such message, or the data of
\* it when it has read its length, whatever Sends have failed since.
SentCanBeRead ==
    \A t \in Threads :
        LET e == call[t].end
            q == Peer(e)
            m == sent[q][Len(got[e]) + 1]
        IN  sock[q] /\ Len(got[e]) < Len(sent[q]) =>
                /\ At(t, "recv_len") => Leads(Frame(m), wire[q])
                /\ At(t, "recv_data") => /\ call[t].len = Len(serializeMessage(m))
                                        /\ Leads(serializeMessage(m), wire[q])

-----------------------------------------------------------------------------
(* Liveness, under FairSpec.                                               *)

\* A Close by anybody, and a failed call, release every other call on the end:
\* those that wait for the peer and those that wait for a lock.
ClosedEndsEveryCall ==
    \A t \in Threads : \A e \in Ends :
        call[t].pc # "idle" /\ call[t].end = e /\ closed[e] ~> call[t].pc = "idle"

\* The flag is never left set with the socket open, whoever sets it.
FlagClosesSocket == \A e \in Ends : closed[e] ~> ~sock[e]
=============================================================================
