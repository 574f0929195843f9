---------------------------- MODULE MCLiveEvents ----------------------------
(* TLC instance: one tenant's key, two tickets and two streams.            *)
EXTENDS LiveEvents, TLC

CONSTANTS e1, k1, t1, t2, s1, s2

MCHome == k1 :> e1
=============================================================================
