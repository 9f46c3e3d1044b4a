# A TLA+ verification of causalclock

The repository provides vector clocks, version vectors, messages that carry a
clock, and transports that carry messages. This directory holds TLA+ models of
those parts, TLC runs that check them on small instances, and TLAPS proofs of
the central properties for every size. `PROJECT.json` lists the runs, the source
lines each definition stands for, the hazards and the theorems.

## 1. The system

| Component | State | Operations that change it | Interacts with |
|---|---|---|---|
| Vector clock (`clock/clock.go`) | a map from node to int64, possibly nil | NewClock, Copy, Increment, Set, Merge | messages, the protocol |
| Protocol over clocks (examples and tests of `clock`) | one clock per node, messages in flight | local event, send a copy, receive (merge, increment) | clock |
| Version vector (`version/vector.go`) | a map from replica to uint64, possibly nil | NewVersionVector, Copy, Increment, Set, Merge | the replication scheme |
| Replication scheme (examples and tests of `version`) | one versioned object per replica, copies in flight | write, replicate, take over, resolve, read repair | version vector |
| Message, JSON and CBOR serializers (`message/`) | a message; the serializers are stateless | NewMessage, WithMetadata, Validate, Marshal, Unmarshal | clock |
| Serializer registry (`message/serializer.go`) | a map behind an RWMutex | Register, Get | serializers |
| Memory transport, connections (`transport/memory.go`) | two queues with a notifier channel each, two closed flags, locks | Send, Recv, Close, ClearMessages | transport |
| Memory transport, listeners (`transport/memory.go`) | closed flag, listeners, a bounded channel per listener | Listen, Dial, Accept, Close (twice) | connections |
| TCP transport, listeners (`transport/tcp.go`) | closed flags, a map of dialed connections, a helper goroutine per Accept | Listen, Dial, Accept, Close (three times) | kernel, connections |
| TCP transport, connections (`transport/tcp.go`) | a socket, a closed flag and three locks per end | Send, Recv, Close | kernel, framing |
| Mock transport (`transport/mock.go`) | a channel per connection and per listener, hooks, failure switches | Listen, Dial, Accept, Send, Recv, PeekMessage, Close (three times), setters | a test's hooks |
| Connection interface (`transport/transport.go`) | none; what all connections promise | Send, Recv, Close | the three connections |

What makes these parts hard:

- clocks and copies arrive late, repeatedly, out of order or never;
- Compare has separate paths for nil, empty, all-zero and populated operands;
- counters have a width, and Set admits negative values;
- Send, Recv and Close of a memory connection take several locks and use a
  channel, one after the other, so other goroutines run in between;
- channels of capacity one and of capacity 128 are full at times, and panic when
  they are used after a close;
- a TCP Accept that is cancelled leaves a goroutine behind, a failed Send leaves
  a part of a frame on the wire, and a failed call closes without the lock;
- the mock's PeekMessage holds a lock across two channel operations;
- the serializers have limits on both sides, and rebuild a clock entry by entry.

What should be true of each part:

- *Clock*: Compare is the pointwise order, whichever path computes it; Merge is
  the least upper bound.
- *Protocol*: Compare on the clocks of two events decides causality exactly.
- *Version vector and replication*: a conflict is reported exactly when there
  is one; no write is lost by taking over a copy or by read repair.
- *Serializers*: a message that arrives means what was sent.
- *Connection*: nothing acknowledged is lost, repeated or reordered; no
  receiver sleeps beside a message; Close releases everybody.
- *Listeners*: a dialled connection is accepted once and in order; after Close
  nothing is open.
- *TCP*: Recv returns what the peer sent, frame by frame, or nothing, and what was
  sent is there to be received; a close ends every call and every goroutine; what a cancelled Accept or a racing Close
  can cost is bounded.
- *Mock*: a test sees what its program sent, however it closes and peeks.

## 2. Modules

| Module | Models | Kind |
|---|---|---|
| `Clock` | the functions of `clock.go` | operators |
| `ClockAPI`, `MCClockAPI` | a client calling them on two variables | state machine |
| `ClockCodec` | how a serializer writes and rebuilds a clock, EXTENDS `Clock` | operators |
| `CausalOrder`, `MCCausalOrder` | the protocol, serialization of clocks included, EXTENDS `ClockCodec` | state machine |
| `VersionVector` | the functions of `vector.go` | operators |
| `VersionVectorAPI` | a client calling them on two variables | state machine |
| `ReplicatedObject`, `MCReplicatedObject` | the replication scheme, EXTENDS `VersionVector` | state machine |
| `MessageCodec`, `MCMessageCodec` | messages and serializers, EXTENDS `ClockCodec` | state machine and operators |
| `Channel` | what a Connection promises: two FIFO channels that may be shut | abstract state machine |
| `MemoryConnection` | the two ends of a memory connection; implements `Channel` | state machine |
| `MemoryTransport`, `MCMemoryTransport` | memory transport and listeners | state machine |
| `TCPConnection`, `MCTCPConnection` | the two ends of a TCP connection and its frames | state machine and operators |
| `TCPTransport` | TCP transport, listener and helper goroutines | state machine |
| `MockTransport`, `MCMockTransport` | mock transport, listeners and connections | state machine |
| `ClockProofs` | `Clock`, `ClockCodec`, `ClockAPI`, `CausalOrder`, `MessageCodec` | proofs |
| `VersionVectorProofs` | `VersionVector`, `VersionVectorAPI`, `ReplicatedObject` | proofs |
| `SequenceLemmas` | queues: append, take the head off, join, cut | lemmas |
| `MemoryConnectionProofs`, `MemoryTransportProofs` | the modules they are named after | proofs |
| `TCPConnectionProofs`, `TCPTransportProofs` | the modules they are named after | proofs |
| `MockTransportProofs` | the module it is named after | proofs |

**Clocks and vectors.** A `*Clock` is `NilClock` or a function whose domain is
the set of nodes present, so an absent node and a node at 0 differ as they do in
the Go map. A mutating method is an operator that returns the clock after the
call. `Increment` wraps at `MaxInt64`, a constant; `MutationPanics` and
`MergePanics` say when a nil receiver is dereferenced (the repository's README
says "Nil methods don't panic", which holds of the reading methods only). `PointwiseCompare` is the
order the documentation describes, the reference for `Compare`. The early exit of
Compare's loop and the order of a map's iteration do not affect its answer.
`VersionVector` is built the same way on uint64. The two clients name their
initial states, steps and types `ApiInit`, `ApiNext`, `ApiSpec` and `ApiTypeOK`,
so that one module of proofs can speak of a client and of the protocol; those of
`MessageCodec` begin with `Codec` for the same reason.

**ClockCodec.** `ClockData` is the map both serializers write, `RebuildClock` the
clock both make of it: each entry is counted up in a temporary clock (`Ticks`), and
the temporary clocks are merged one after the other.

**CausalOrder.** `clock[n]` is the clock of node n and `net` every message ever
sent; `Receive` may take any of them at any time, so loss, duplication and
reordering are covered. Within a process the clock of a message arrives as it was
sent, else as a serializer rebuilds it, entries of value 0 gone (`Arrivals`). `seq`, `past` and `log` are history: what really
happened, against which the clocks are judged. A node starts with an empty
clock or with all its peers in it; the proofs allow any node lists, finite as an
argument list is.

**ReplicatedObject.** `object[r]` is the copy replica r stores, `net` every copy
sent; an object's `writes` are history. The scheme is put together from the
examples of the package, which has no replica of its own. In particular no code
stores a copy that arrives: `Receive` is the sibling filter of
`Example_riakReadRepair` over two versions, the replica's own and the copy's, when
it drops the replica's own. The coordinator whose counter a resolution increments
is the resolving replica (`ResolveAndWrite`).

**MessageCodec.** Bytes are the record of the fields written, with a size.
Sizes are in units; JSON needs four for three units of payload. A sender ID is
reduced to its validity, and so is a pair of the metadata, of which there may be any
number. `Marshal` and `Unmarshal` are operators, judged in every state on the
message at hand. Node IDs, sender IDs and metadata are valid UTF-8, so that both
encodings are injective on them; Validate accepts other strings, which JSON rewrites
and the CBOR decoder refuses. `MarshalledIsReadable` is exact: Unmarshal refuses
what Marshal wrote if, and only if, a clock entry is negative or, in CBOR, one of
the two maps has more pairs than the decoder allows. Entries of value 0 do not survive a round
trip (a clock is rebuilt by counting up from nothing); `RoundTripKeepsMeaning`
says that no comparison and no merge with a clock a receiver may have can tell.

**MemoryConnection.** One step per critical section or channel operation.
`call[t]` says where goroutine t is, on which end and with which message. c.mu
is held across all of Close, so it is the variable `mu`; a queue's mutex guards
single sections, which are atomic steps. `notifier[q]` is the token in a
queue's channel and `qclosed[q]` both the queue's flag and the closing of its
channel, which happen in one critical section. A send on a closed channel sets
`panic`, after which nothing runs. At most one goroutine receives on an end, as
`transport/README.md` demands of callers.

**MemoryTransport.** In the same style. `mu` is t.mu, held across Close. A
listener is named by its address because an entry of the map is never removed.
A connection is the number of the Dial that builds it. Dial reads `t.closed`
without the lock; a stale read is a read before the write, and the steps of the
model include it.

**Channel.** The abstract connection: each direction accepts messages while it
is open, and delivers them once and in order; messages may be lost from the end
of the queue (ClearMessages), and are never reordered, repeated or made up.
`MemoryConnection` maps its queues to it directly. `TCPConnection` is not shown to
implement it: its wire holds bytes, and which messages they are is just what has to be
shown, by `ReceivedAsSent` (what is received was sent, in order) and `SentCanBeRead`
(what was sent is there to be received).

**TCPConnection.** c.mu, sendMu and recvMu are held across steps and are
variables. `wire[e]` is what end e has written and the peer has not read, a
sequence of cells: a byte is a cell, and so is a 4- or 8-byte number. The
one-byte lengths of the names are kept modulo `ByteSize`, and `deserializeMessage`
follows the checks of the code, the missing one included. A write or a read fails
when a deadline passes or a socket is closed, at any point of the frame; a close
may reset the connection and destroy what is in flight. A Recv may also succeed
after the socket is closed, from what `bufio.Reader` has read ahead. `bufio.Writer` keeps its
first error (`werr`), and that is what keeps frames aligned: see
`NothingAfterTorn`. A goroutine starts a Recv on an end only when no other is in
one, not even in the close of one that failed: `transport/README.md` demands "Only
one goroutine should call Recv per connection". The socket is external, as is the
kernel's backlog below.

**TCPTransport.** One listening socket, addresses that all lead to it, and the
helper goroutine each Accept starts: `helper[h]` and `connChan[h]`. A connection has
two ends, each open until it is closed: `open` are the dialed ends, `acceptedOpen`
those that accept(2) has returned. Listen and accept(2) may fail at any time. The
transport's Close holds t.mu throughout and only closes connections, so it is
one step. A Dial is four steps: the check, the connect, the registration and the
count.

**MockTransport.** Both sides of a connection share one object and one channel,
as in the code. A hook, the dropper or a failure switch may be set at any time,
so the step that consults it may go either way. Only PeekMessage holds c.mu
across steps (`mu`). One address, of which every Listen makes a new listener.
Lookup, hook and registration of a Dial are one step, since Dial goes on with the
listener it found whatever happens in between. `dialed` and `accepted` are history,
kept for each listener.

In all modules an operator called a *mutant* in its comment is a plausible bug;
no action uses it. It documents what the property of the same section rules out.

## 3. Runs

| Run | Instance | Shows |
|---|---|---|
| `clock_api` | 2 nodes, int64 as -3..2 | `CompareIsMirrored`, `CompareIsPointwise`, `MergeIsLeastUpperBound` on every reachable pair of clocks |
| `causal_order` | 3 nodes, 2 events each, 5 messages | `CompareDecidesCausality`, `ClockEncodesPast`, `ClocksOnlyAdvance` |
| `version_vector_api` | 2 replicas, uint64 as 0..3 | `CompareIsPointwise`, `MergeIsLeastUpperBound` |
| `replicated_object` | 3 replicas, 2 writes each, 5 copies | `VersionsTellHistory`, `NoLostUpdate`, `SiblingsCoverAllWrites` |
| `message_codec` | 3 nodes, 3 metadata keys, sizes 15 and 16, map limit 2 | `RoundTripKeepsMeaning`, `MarshalledIsReadable` |
| `memory_connection` | 2 goroutines, 2 messages | `NoLostWakeup`, `DrainedBeforeClosed`, `AckedNotLost`, `ImplementsChannel`, `SendAndCloseReturn`, `RecvReturns` |
| `memory_transport` | 2 goroutines, 2 addresses, capacity 1, 3 dials | `DialedOnceInOrder`, `CloseIsFinal`, `NilOnlyWhenDrained`, `CallsReturn` |
| `tcp_connection` | 2 senders, a receiver that also closes, 2 messages of 4 kinds | `ReceivedAsSent`, `SentCanBeRead`, `NothingAfterTorn`, `ClosedEndsEveryCall`, `FlagClosesSocket` |
| `tcp_transport` | 2 goroutines, 2 addresses, 2 dials, 2 accepts | `OneLossPerCancel`, `CloseLeavesOnly`, `CloseEndsAccepts` |
| `mock_transport` | 2 goroutines, capacity 1; 3 messages, or 2 listeners and 2 dials | `OnlyPeekReorders`, `DialedAreDelivered`, `ReleasedByClose`, `OnlyPeekBlocksClose` |

The runs `version_vector_api` (as `ApiTypeOK`), `message_codec` (as `CodecTypeOK`),
`tcp_connection`, `tcp_transport` and `mock_transport` also check the type invariant
`TypeOK`; it is a theorem of every module. So are four properties the runs do not
repeat: `NobodyAhead`, a consequence of `ClockEncodesPast`;
`DeliveredInOrder` and `NothingQueuedAfterClose`, which spell out what
`ImplementsChannel` contains; and `ClosedListenersTakeNothing`.

Two more runs show where the code and what is written about it part:

| Run | The code | The text |
|---|---|---|
| `memory_connection_panic` | Send panics when a Close comes between its append and its notification | `transport.go`: "Returns error if connection is closed or send fails" |
| `memory_transport_dial` | Dial panics when the listener is closed | `transport.go`: "Should return error if dial fails" |

Other places where they part, which the models have and the properties are
stated around:

- *Clock*: against an empty clock Compare looks for positive entries only
  (`clock.go:194`), while the comment at `clock.go:131` says that negative values
  participate normally. `CompareIsPointwise` leaves out this case and no other:
  where neither clock is empty, negative entries are compared as the comment says.
- *Accept* of the memory and the mock transport, and the mock's Recv, return
  (nil, nil) when a close ends their wait, where `transport.go` asks for an error.
  `NilOnlyWhenDrained` says that such an Accept has left nothing behind. A later one
  returns ErrListenerClosed (`memory.go:177`), whatever is still queued.
- *TCP Close*: "Close closes the transport and all connections" (`tcp.go:124`), and
  "all active connections" (`transport.go:87`), hold only of dialed connections with
  an entry in the map. The listener and every accepted connection stay open, and so
  does a dialed connection that another Dial replaced or that was registered after
  Close. `CloseLeavesOnly` is not that promise: it says that nothing else stays open.
  The memory transport's Close closes no connection at all. A Close that races the close of a failed call closes the socket
  twice, and may return its error.
- *TCP frames*: names of 256 bytes and more are mangled, a message with all
  fields empty is refused (`tcp.go:352` asks for 19 bytes of an 18-byte header), and
  neither Timestamp nor Metadata travels. `ReceivedAsSent` says that the frames that
  follow are not disturbed.
- *CBOR maps*: Marshal writes a clock or metadata of more than 1000 pairs, and
  negative clock values; Unmarshal refuses both, as `MarshalledIsReadable` says.
- *PeekMessage* "returns the next message without removing it" (`mock.go:338`),
  but rotates the queue, panics once the connection is closed, and can wait for
  ever while it holds c.mu.
- The mock's Send and Dial panic when the channel is closed after their check.

**Bounds.** Two nodes suffice for every path of Compare and Merge; the third is
for transitive knowledge. The integer ranges are small enough for increments to
wrap in the API runs. In the protocol runs the number of events stays below the
wrap, as the code's comment on overflow assumes. In `memory_connection`, two
goroutines race every pair of calls, and an operation left half done by one of
them meets any sequence of complete calls of the other; two messages are needed
for a dropped token and for order. More goroutines and messages are covered by
the proofs. In `memory_transport`, three dials fill and refill a channel of
capacity one. In `tcp_connection`, bytes have four values, so that a name of four
bytes overflows its length; the four kinds of message are an ordinary one, an empty
one, one with such a name and one too large for the receiver; two senders queue
for sendMu while one of them fails. In `tcp_transport`, two dials to one
address replace an entry, two to two addresses fill the map, a Dial past the check
meets a Close, and two accepts leave one of two helpers behind. In
`mock_transport`, capacity one makes every second send wait; the limits
admit either three messages on one connection or two listeners and two
connections, whose combination adds nothing, as they share no state. In
`message_codec` the payload limit lies below the message limit and JSON's growth
above it, as in the program, and both the clock and the metadata can exceed the limit
on a map. Symmetry is used where nodes or replicas are
interchangeable, and in no liveness run. Deadlock is not checked in the two protocol
models, which stop when their bounds are used up, nor in the mock's, where a
panic ends the program and PeekMessage may wait for ever; all other runs check it.

**Fairness.** A goroutine inside a call keeps running (weak fairness of its own
steps): the Go scheduler is preemptive. Nobody is obliged to make a call, and no
context or deadline need ever be done, so liveness never rests on a timeout. Weak
fairness is enough for a goroutine waiting for a mutex in the memory and TCP
models: once the Close that holds it has returned, later Closes of the same object
hold it for one step. In the mock, PeekMessage may take c.mu again and again while
Close waits for it; strong fairness of that one step is what Go's mutex gives, which
hands over to a waiter that has starved. The kernel completes what it can: an
operation on a closed socket returns, and an accept takes a waiting connection. An
accept may fail at any time, and must only on a closed socket (`HelperClosed`).

## 4. Proofs

All theorems hold for any set of nodes, replicas or goroutines and for any bound.
The assumptions on the constants stand beside their declaration, and TLC evaluates
them in the runs.

### Clocks and vectors

`ClockProofs` begins with the facts about `Clock`'s operators: what Put, Increment
and Merge do to every entry, and that Compare is `PointwiseCompare` on clocks that
have nodes and on non-negative ones. From them follow, for the client, `CompareMirrored` (negative entries
included), `ComparePointwiseOrder`, `MergeLeastUpperBound` and type correctness.

For the protocol it proves that clocks decide causality (`Causality`), that they
count exactly their past (`EncodesPast`), count nothing that has not happened
(`NoInventedEvents`), and only advance (`MonotoneClocks`). `ClockEncodesPast` is
not inductive alone. The invariant `IInv` adds

- that a node's own entry is the number of its events;
- that every clock (of a node, a message, an event) is faithful: it has finitely
  many entries, is non-negative, counts exactly its past, and its past is closed, that is, it
  contains the past of every event in it;
- that an event is the latest of its node in its own clock, and that no two
  events are in each other's past.

Closure is what turns "e is in the past of f" into "the clock of e is below the
clock of f"; the last clause makes the order strict. A clock that arrives through a
serializer is as faithful as the one that was sent (`ArrivalFaithful`). The
assumptions used are `MaxEvents <= MaxInt64`, that is, no counter wraps, and that a
node list is finite.

For the serializers it proves `RoundTripPreserves`, `MarshalledReadable` and
`CodecTypeCorrect`. The invariant `CodecInv` adds to the types that a clock has
finitely many entries, whatever calls made it; the decoding loop ends only then.
`MarshalledReadable` has both directions: what Unmarshal reads, and what it refuses.
The loop is a fold over the entries. `RebuildKeepsPositive` gives its closed form,
the positive entries of the map, by a minimal counterexample: if the two differed on
some set of entries, there would be a smallest one, and the last round of the loop
on it (`RebuildStep`) makes them agree. The order of a map's iteration thus plays no
role. `TicksCountUp` shows that the value `Ticks` gives a temporary clock is what the
loop of increments computes, one increment at a time and without wrapping.
`RebuiltClock` then says that the clock that was rebuilt answers every Get as
the original does, and `AlikeCompare` that Compare sees nothing else.

`VersionVectorProofs` gives the facts about `VersionVector`'s operators, among
them that Compare is the pointwise order on every path and that Merge is the least
upper bound, and from them, for the client, `ApiTypeCorrect`,
`ComparePointwiseOrder` and `MergeOfClient`: what the run `version_vector_api` checks
of two small vectors, for all of them, at the largest counter too.

For the replication scheme it proves `VersionsAreHistory`, `NoUpdateLost`,
`ReadRepairIsComplete` and type correctness. The invariant `HistoryInv` says that
the writes of every copy are exactly those its vector stands for, the first n of
each replica with counter n, and that no copy is ahead of a replica on that
replica's own writes. The second is needed for a resolution that counts as a
write: the merged vector must not bring a counter the resolving replica has not
reached. Vectors are then ordered as the sets of writes are (`PastOrder`). For
read repair, of the objects that have all the writes of a given one, an object with
the most writes is dominated by none; this uses that replicas are finitely many
(`ReplicaAssumption`) and the least-number principle. `MaxWrites <= MaxUint64` says
that no counter wraps.

### Memory transport

`MemoryConnectionProofs` proves, for any number of goroutines and messages,

- `TypeCorrect`, with the clause that a nil message is refused before the append;
- `WakeupNotLost`, with the clause that an end has one receiver (`WakeInv`):
  only that receiver takes the token, and each append is by a sender whose
  notification is still to come;
- `Drained`: when Recv reports the end, no acknowledged message is left. The
  invariant says that messages are fresh and in one place (`MsgInv`) and that a
  receiver waiting beside an acknowledged message has a token (`DrainInv`);
  NoLostWakeup is too weak for this, as it lets the closed channel stand in for
  the token;
- `ClosedQueuesTakeNothing`, an action property;
- `Refinement`: the connection implements `Channel`; and with it `InOrderDelivery`
  and `AcknowledgedNotLost`. The invariant `ConnInv` adds to the above that a
  message about to be appended is in no queue and no history (`FreshInv`), which is
  the abstract channel's condition for accepting it, and that what was handed out
  and what is queued, joined, are in the order of acceptance (`OrderInv`). Each
  action is then one of four moves on the queues (append, hand over, clear, close)
  or none, and each move is a step of the channel.

`MemoryTransportProofs` proves `HandedOverOnce`, `ClosedTakeNothing`,
`DrainedBeforeNil`, `FinalClose` and type correctness. `CloseIsFinal` is inductive
together with the types: t.mu is held from the setting of the flag until every
listener is closed, and Listen needs both the lock and an open transport.
`LockHolder` (`LockIsTheClosers`) adds that the one Close that set the flag is the
only call to hold t.mu over several steps, so whoever waits for the lock waits for a
loop that does not wait.

### TCP transport

`TCPTransportProofs` proves `TypeCorrect`, `AcceptLosesLittle` and `CloseLeaves`
for any number of goroutines, dials and accepts. The invariant `TransportInv` has
one part per subject:

- `DialInv`: a Dial under way owns its connection, which is established exactly
  from the second half of the call on;
- `CountInv`: activeConns is the number of established connections less those
  whose Dial has still to count them. The bound on the counter that `TypeOK` states is not
  inductive: the increment is a step of its own;
- `AcceptInv`: a helper belongs to one Accept, and one that has a connection is
  waited for or was cancelled;
- `SpreadInv`: every established connection is in the backlog, in the channel of a
  helper, among the results of Accept or reset, and the first three share nothing.
  `OneLossPerCancel` says that it is in some place and handed out once; the second
  is kept only because no two of the three hold the same connection;
- `OpenInv`: what is open has an entry in the map, has lost it to another Dial, or
  is about to get it, and after Close the entries are late ones;
- `TakenInv`: an accepted end that is open was returned by Accept or waits in the
  channel of a helper;
- `LateInv`: late connections and the Dials past the check of t.closed are
  together no more than the goroutines. A goroutine past the check at Close can
  add one, and none passes the check afterwards.

`UsersAssumption` (finitely many goroutines, some address) is for the cardinalities.

`AcceptIsAnswered` (`AcceptHasHelper`) is the safety that `CloseEndsAccepts` rests
on: a waiting Accept has a helper, which it shares with nobody and has not
given up, and the closed flag is set only where the socket is closed. It needs, beside
`AcceptInv`, that no call has the number of a helper that was given up (`HelperInv`).

`TCPConnectionProofs` proves, for any finite set of goroutines, any messages, any
limits and any size of a byte, `TypeCorrect`, `FramesStayAligned`
(`ReceivedAsSent`), `SentReachesReader` (`SentCanBeRead`) and the action property
`TornIsLast` (`NothingAfterTorn`). It has two layers.

The first is about data. `Serialized` says where in a frame each field lies,
`RoundTrip` that decoding gives the message back if its names fit, `SerializedNoPanic`
that decoding stays within the data in any case, the lengths of overlong names being
wrong but small. `Layout` says that a wire is a row of frames, the first of them
perhaps read in part and the last perhaps cut short, with the place where
each ends. It is kept by a complete write, by a torn one if none was
torn before, and by the read of a length or of the data. `Stream` adds where the
reader is: at the beginning of a frame, or behind a length whose data it is owed.
`StreamLeads` says what that means for the reader: the cells of the oldest frame
not read lie first on the wire.

The second is the state machine. The invariant `ConnInv` is the conjunction of

- `Typed`, the types;
- `TornInv`: where a part of a frame is on the wire, the writer keeps its error.
  This is why nothing follows a torn frame, and the only thing `TornIsLast` needs;
- `LockInv`: recvMu is held while a Recv reads and while it closes after a failure,
  by the one receiver of that end. Without it two goroutines could read a length
  each, and then each other's data;
- `AlignInv`: on each end the unread part of the wire is a `Stream` from the next
  frame on; or nobody will read there again, because a Recv has failed and is
  closing with recvMu held or the flag is set and nobody is past its check (`Dead`);
  or the wire is empty and nobody will write on it again (`Cut`, after a reset). A Recv
  that fails behind a length leaves the wire out of step with its frames, and the
  code does not resynchronise: the proof shows that it closes the connection before any
  other Recv gets to read;
- `LenInv`: no length that was read is 0, so that nothing is read from an empty wire;
- `GotInv`: what was returned is, in order, what the frames of the peer decode to;
- `CountInv`: the frames written and the Sends under way are together no more than
  the calls of Send, which bounds what `TypeOK` says an end hands out. It is the only
  part that needs the goroutines to be finitely many.

For `SentReachesReader`, the Recv that waits is proof that the end is not `Dead`, and
the open socket of the sender that it is not `Cut`; what is left of `AlignInv` is the
`Stream`.

Two more invariants are the safety that the liveness of the connection rests on.
`NoLockCycle` (`NoHoldAndWait`): a goroutine holds at most one of the locks of a
connection and waits for no other meanwhile, also in the close of a Send or Recv that
failed, which runs with sendMu or recvMu held and does not take c.mu. So goroutines
never wait for each other in a circle. `FlagIsActedOn` (`FlagHasCloser`): where c.closed
is set and the socket still open, a goroutine is between the two, so a call that
finds the flag set may leave the socket to it.

`ThreadsAssumption` and `MessagesAssumption` say that goroutines are finitely many
and that the messages of an instance are messages; `SizesAssumption` that limits are
positive.

### Mock transport

`MockTransportProofs` proves `TypeCorrect`, `DialDelivers` and `PeekAloneReorders`
for any number of goroutines and any capacities. Type correctness needs that a call
under way works on a connection or listener that was made (`Carried`). `DialInv` says
that a Dial under way has a connection that no listener has seen; with it
`DialedAreDelivered` is inductive, as it has for each listener the whole order, those
accepted and, behind them, those that wait. For the messages,
`FreshInv` says that the message of a Send under way is new, `PeekInv` that a
PeekMessage with a message in its hand holds the lock of its connection, so that
one at most does, and `PlaceInv` that a message is received, in the channel or in
the hand, and only one of these: without it, PeekMessage could put back what
another had received. `OrderInv` is the order while nobody peeks. `LockHolder`
(`LockIsThePeekers`) says that the locks taken and the PeekMessages under way
correspond one to one: a Close that waits for c.mu waits for one PeekMessage, the one
`OnlyPeekBlocksClose` names.

### Model-checked only

Liveness, in all modules: fairness and ENABLED are out of the prover's reach. Every
safety property of the passing runs is a theorem. The theorems `NoLockCycle`,
`FlagIsActedOn`, `AcceptIsAnswered` and the two named `LockHolder` are the safety that
the liveness properties need, for any number of goroutines: whoever waits is owed
something by somebody who can go on. That the latter does go on is for TLC.
TLC has also checked the five invariants on the instances of the runs
`tcp_connection`, `tcp_transport`, `memory_transport` and `mock_transport`.

## 5. Not modelled

- The registry, a map behind a lock; configuration and façade, which have no
  behaviour; counters that are only reported.
- `String` and `ParseClock`: text for debugging. `Message.Size`: an estimate for
  monitoring. Timestamps. Decoding of bytes that no Marshal has written.
- Data races on one clock or vector: callers must lock, as documented. The
  unlocked read and write of a TCP connection's `closed` are steps of their own.
- Several receivers on one end: the package documents one receiving goroutine per
  connection, and both connection models keep to it.
- The pointers in a memory queue: a message changed by its sender after Send.
- Transport and connections of one transport together: they share no state but
  the TCP map of connections, whose effect on them `TCPTransport` has.

## 6. Plan

1. *The protocol over a connection*: `CausalOrder` with messages that pass through a
   `Channel`; what the serializers do to a clock it has already.
2. *Text format*: ParseClock after String.
