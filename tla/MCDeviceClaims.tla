--------------------------- MODULE MCDeviceClaims ---------------------------
(* TLC instance: two projects sharing a number, the first with a sibling
   environment.                                                            *)
EXTENDS DeviceClaims

CONSTANTS p1, p2, live, test, other

MCProjects == {p1, p2}
MCEnvironments == {live, test, other}
MCProjectOf == [e \in MCEnvironments |-> IF e = other THEN p2 ELSE p1]
=============================================================================
