------------------------------- MODULE MCKeys -------------------------------
(* TLC instance: two values of API_KEY and two calls of the setup routes.  *)
EXTENDS Keys, TLC

CONSTANTS X, Y, f1, f2

\* Values and calls are interchangeable, and only safety is checked.
MCSymmetry == Permutations(Values) \cup Permutations(Flows)
=============================================================================
