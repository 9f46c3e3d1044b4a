-------------------------- MODULE MCTCPConnection --------------------------
(* Small instances of TCPConnection, with bytes of four values: a message  *)
(* with a name and a body, one with all fields empty, one whose name is as *)
(* long as the values of a byte, and one that only the dialer may send.    *)
EXTENDS TCPConnection

Msg(from, body) == [from |-> from, to |-> <<>>, seq |-> 1, body |-> body, vc |-> <<>>]

MCMessages == {Msg(<<1>>, <<2>>), Msg(<<>>, <<>>), Msg(<<1, 1, 1, 1>>, <<>>),
               Msg(<<1>>, <<1, 1, 1, 1, 1>>)}

MCMaxMessageSize == [e \in Ends |-> IF e = "dialer" THEN 11 ELSE 9]
\* Two senders on the dialer's end; a third thread receives on either end and
\* closes either.
MCUses == {"s1", "s2"} \X {"Send"} \X {"dialer"} \cup {"t"} \X {"Recv", "Close"} \X Ends
=============================================================================
