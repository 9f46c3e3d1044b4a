------------------------- MODULE MCMemoryTransport -------------------------
(***************************************************************************)
(* The memory transport with few goroutines and addresses, for TLC.        *)
(***************************************************************************)
EXTENDS MemoryTransport, TLC

\* Goroutines are interchangeable; used by the runs without liveness.
ThreadSymmetry == Permutations(Threads)
=============================================================================
