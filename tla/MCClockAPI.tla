----------------------------- MODULE MCClockAPI -----------------------------
(* Small instance of ClockAPI: an int64 of the range -3..2, so that three  *)
(* increments wrap, and Set with a negative, a zero and a positive value.  *)
EXTENDS ClockAPI

MCSetValues == {-1, 0, 2}
=============================================================================
