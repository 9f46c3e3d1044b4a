-------------------------- MODULE MCMockTransport --------------------------
(* Small instances of MockTransport: one connection that carries three     *)
(* messages, and two listeners of an address dialed twice.                 *)
EXTENDS MockTransport

MCLimits == {[listens |-> 1, dials |-> 1, msgs |-> 3], [listens |-> 2, dials |-> 2, msgs |-> 0]}
=============================================================================
