-------------------------- MODULE MCIdempotentSend --------------------------
(* TLC instance: two identical requests and one that reuses their key for
   another body.                                                           *)
EXTENDS IdempotentSend, TLC

CONSTANTS c1, c2, c3, otp, notice

MCCallers == {c1, c2, c3}
MCBodies == {otp, notice}
MCBodyOf == [c \in MCCallers |-> IF c = c3 THEN notice ELSE otp]
MCSymmetry == Permutations({c1, c2})
=============================================================================
