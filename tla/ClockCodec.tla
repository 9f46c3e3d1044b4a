----------------------------- MODULE ClockCodec -----------------------------
(***************************************************************************)
(* How the serializers of package message carry a clock: as its entries,   *)
(* from which the receiver builds a new clock by incrementing and merging. *)
(* JSON (json_helpers.go) and CBOR (cbor.go) do the same.                  *)
(***************************************************************************)
EXTENDS Clock, FiniteSetsExt

\* What is written: every entry of the clock, zeros included.
ClockData(c) == [n \in Nodes(c) |-> Get(c, n)]

\* A fresh clock after v increments of one node.
Ticks(node, v) == IF v = 0 THEN EmptyClock ELSE Put(EmptyClock, node, v)

\* Mutant of RebuildClock: each entry replaces the clock built so far.
RebuildClockLast(data) ==
    FoldSet(LAMBDA n, c : Ticks(n, data[n]), EmptyClock, DOMAIN data)

\* Every entry is counted up in a temporary clock that is merged.
RebuildClock(data) ==
    FoldSet(LAMBDA n, c : Merge(c, Ticks(n, data[n])), EmptyClock, DOMAIN data)
=============================================================================
