--------------------------- MODULE MCCausalOrder ---------------------------
(* Small instances of CausalOrder.  The nodes are interchangeable.         *)
EXTENDS CausalOrder, TLC

NodeSymmetry == Permutations(NodeID)

\* A node starts with an empty clock or knows all its peers.
NoneOrAll == {{}, NodeID}
=============================================================================
