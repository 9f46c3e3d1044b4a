--------------------------- MODULE MCMessageCodec ---------------------------
(***************************************************************************)
(* Messages with small sizes and clocks, for TLC: the limits keep the      *)
(* order they have in the program, 15 : 16 for payload and message.        *)
(***************************************************************************)
EXTENDS MessageCodec, TLC

Symmetry == Permutations(NodeID) \cup Permutations(MetadataKeys)

\* None, what JSON can just carry, the limit, too much.
MCPayloads == {0, 12, 15, 16}

MCAdjustValues == {-1}
=============================================================================
