---------------------------- MODULE CausalOrder ----------------------------
(***************************************************************************)
(* The message-passing protocol the clock package is for: every node owns  *)
(* a Clock, increments its own entry at each event, attaches a copy of the *)
(* clock to each message, and on receipt merges the message's clock and    *)
(* increments its own entry (Example_messagePassingProtocol and            *)
(* TestTypicalUsagePattern; message.NewMessage makes the copy).  Between   *)
(* processes the clock passes through a serializer of package message      *)
(* (Example_vectorClockIntegration).                                       *)
(*                                                                         *)
(* The network keeps every message ever sent and delivers any of them to   *)
(* any node at any time, so loss, duplication and reordering are covered.  *)
(*                                                                         *)
(* seq, past and log are history variables: they record what really        *)
(* happened and no step depends on them, except for the bound on events.   *)
(***************************************************************************)
EXTENDS ClockCodec

CONSTANTS MaxEvents,   \* bound on the events of one node
          MaxMessages, \* bound on the different messages sent
          NodeLists    \* the node lists a node may pass to NewClock

\* The program allows 2^63 - 1 events per node before a counter wraps.
ASSUME MaxEventsAssumption == MaxEvents \in Nat /\ MaxEvents <= MaxInt64

ASSUME NodeListsAssumption == \A S \in NodeLists : S \subseteq NodeID /\ IsFiniteSet(S)

VARIABLES clock,  \* clock[n]: the Clock owned by node n
          net,    \* every message sent: its clock, and the sender's past
          seq,    \* seq[n]: how many events n has executed
          past,   \* past[n]: the events that causally precede n's present
          log     \* every event: its id, the clock at it, its causal past

vars == <<clock, net, seq, past, log>>

EventID == NodeID \X (1 .. MaxEvents)

ClockMessage == [clock : Clocks, past : SUBSET EventID]
Event == [id : EventID, clock : Clocks, past : SUBSET EventID]

TypeOK == /\ clock \in [NodeID -> Clocks]
          /\ net \in SUBSET ClockMessage
          /\ seq \in [NodeID -> 0 .. MaxEvents]
          /\ past \in [NodeID -> SUBSET EventID]
          /\ log \in SUBSET Event

\* A node may know its peers from the start or meet them as messages arrive.
Init == /\ clock \in [NodeID -> {NewClock(S) : S \in NodeLists}]
        /\ net = {}
        /\ seq = [n \in NodeID |-> 0]
        /\ past = [n \in NodeID |-> {}]
        /\ log = {}

\* Node n executes its next event, with clock c and with the events of p
\* (and the event itself) as its past.
Execute(n, c, p) ==
    LET id == <<n, seq[n] + 1>>
    IN  /\ seq[n] < MaxEvents
        /\ clock' = [clock EXCEPT ![n] = c]
        /\ seq' = [seq EXCEPT ![n] = seq[n] + 1]
        /\ past' = [past EXCEPT ![n] = p \cup {id}]
        /\ log' = log \cup {[id |-> id, clock |-> Copy(c), past |-> p \cup {id}]}

LocalEvent(n) == /\ Execute(n, Increment(clock[n], n), past[n])
                 /\ UNCHANGED net

Send(n) == /\ Cardinality(net) < MaxMessages
           /\ net' = net \cup {[clock |-> Copy(clock[n]), past |-> past[n]]}
           /\ UNCHANGED <<clock, seq, past, log>>

\* What arrives of a clock: the clock itself within one process, else what
\* either serializer makes of its entries.
Arrivals(c) == {c, RebuildClock(ClockData(c))}

\* Mutant of Receive: the receipt is not counted as an event of its own.
ReceiveWithoutIncrement(n, m) ==
    /\ \E c \in Arrivals(m.clock) :
          Execute(n, Merge(clock[n], c), past[n] \cup m.past)
    /\ UNCHANGED net

\* Mutant of Receive: the clock of the message replaces the node's own.
ReceiveReplaces(n, m) ==
    /\ \E c \in Arrivals(m.clock) :
          Execute(n, Increment(Copy(c), n), past[n] \cup m.past)
    /\ UNCHANGED net

Receive(n, m) ==
    /\ \E c \in Arrivals(m.clock) :
          Execute(n, Increment(Merge(clock[n], c), n), past[n] \cup m.past)
    /\ UNCHANGED net

Next == \/ \E n \in NodeID : LocalEvent(n)
        \/ \E n \in NodeID : Send(n)
        \/ \E n \in NodeID, m \in net : Receive(n, m)

Spec == Init /\ [][Next]_vars

-----------------------------------------------------------------------------
\* The true causal relation between two events, from the history alone.
TrueRelation(e, f) ==
    CASE e = f -> "Equal"
      [] e # f /\ e.id \in f.past -> "Before"
      [] e # f /\ e.id \notin f.past /\ f.id \in e.past -> "After"
      [] OTHER -> "Concurrent"

\* Compare answers "Before", "After" or "Concurrent" for the clocks of two
\* events exactly when the first happened before the second, after it, or
\* neither: no false order and no missed conflict, whatever messages were
\* lost, repeated, reordered or serialized and whichever nodes a clock has
\* entries for.
CompareDecidesCausality ==
    \A e, f \in log : Compare(e.clock, f.clock) = TrueRelation(e, f)

\* Every clock there is, with the past it was taken at: of the nodes, of the
\* messages and of the events.
Snapshots == {[clock |-> clock[n], past |-> past[n]] : n \in NodeID}
               \cup net
               \cup {[clock |-> e.clock, past |-> e.past] : e \in log}

\* The events a clock counts.
Counted(c) == {id \in EventID : id[2] <= Get(c, id[1])}

\* A clock counts exactly the events of the causal past it was taken at: its
\* entry for a node is the number of that node's events known there.
ClockEncodesPast == \A s \in Snapshots : s.past = Counted(s.clock)

\* No clock of a node, of a message or of an event counts more events of a
\* node than that node has executed: Merge and Increment never invent events.
NobodyAhead == \A s \in Snapshots, n \in NodeID : Get(s.clock, n) <= seq[n]

\* A step takes a node's clock forward in the order of Compare or leaves it:
\* what a node has seen it never forgets.
ClocksOnlyAdvance ==
    [][\A n \in NodeID : Ancestor(clock[n], clock'[n])]_vars
=============================================================================
