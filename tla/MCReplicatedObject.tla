------------------------ MODULE MCReplicatedObject ------------------------
(***************************************************************************)
(* The replicated object with few replicas, writes and copies, for TLC.    *)
(***************************************************************************)
EXTENDS ReplicatedObject, TLC

\* Replicas are interchangeable.
ReplicaSymmetry == Permutations(ReplicaID)
=============================================================================
