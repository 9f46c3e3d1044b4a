------------------------------ MODULE Channel ------------------------------
(***************************************************************************)
(* What the two directions of a Connection promise (the interface in       *)
(* transport/transport.go), whatever carries them: a message is accepted   *)
(* while its direction is open, and handed out at most once, in the order  *)
(* of acceptance.  What was accepted may be discarded from the end of the  *)
(* queue, but is never reordered, repeated or made up.                     *)
(***************************************************************************)
EXTENDS Naturals, Sequences

CONSTANTS Dirs,    \* the directions
          Payloads \* the messages; each is accepted at most once

VARIABLES
    queue,     \* queue[d]: accepted and neither handed out nor discarded
    delivered, \* delivered[d]: handed out, in order
    taken,     \* the messages accepted so far
    open       \* open[d]: the direction still accepts messages

cvars == <<queue, delivered, taken, open>>

Init ==
    /\ queue = [d \in Dirs |-> <<>>]
    /\ delivered = [d \in Dirs |-> <<>>]
    /\ taken = {}
    /\ open = [d \in Dirs |-> TRUE]

\* Send returns nil, or its effect is there although the caller never learns.
Accept(d, m) ==
    /\ open[d]
    /\ m \notin taken
    /\ queue' = [queue EXCEPT ![d] = Append(@, m)]
    /\ taken' = taken \cup {m}
    /\ UNCHANGED <<delivered, open>>

\* Recv returns a message.
Deliver(d) ==
    /\ queue[d] # <<>>
    /\ delivered' = [delivered EXCEPT ![d] = Append(@, Head(queue[d]))]
    /\ queue' = [queue EXCEPT ![d] = Tail(@)]
    /\ UNCHANGED <<taken, open>>

\* Messages are lost from the end of the queue.
Discard(d) ==
    /\ \E n \in 0 .. Len(queue[d]) : queue' = [queue EXCEPT ![d] = SubSeq(@, 1, n)]
    /\ UNCHANGED <<delivered, taken, open>>

\* Close of either end.
Shut(d) ==
    /\ open' = [open EXCEPT ![d] = FALSE]
    /\ UNCHANGED <<queue, delivered, taken>>

Next == \E d \in Dirs : \/ \E m \in Payloads : Accept(d, m)
                        \/ Deliver(d) \/ Discard(d) \/ Shut(d)

Spec == Init /\ [][Next]_cvars
=============================================================================
