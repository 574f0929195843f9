--------------------------- MODULE MCAckTracking ---------------------------
(* TLC instance: two messages, and sweeps that select one row at a time.   *)
EXTENDS AckTracking, TLC

CONSTANTS m1, m2

MCMessages == {m1, m2}
MCSymmetry == Permutations(MCMessages)
=============================================================================
