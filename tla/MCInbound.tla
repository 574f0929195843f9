----------------------------- MODULE MCInbound -----------------------------
(* TLC instance: two environments, two retirements, and two messages, one  *)
(* of them the holder's own.                                               *)
EXTENDS Inbound, TLC

CONSTANTS e1, e2, d1, d2, theirs, own

MCSymmetry == Permutations(Envs) \cup Permutations(Retirers)
=============================================================================
