----------------------------- MODULE MCSessions -----------------------------
(* TLC instance: one console asking twice to pair one device.              *)
EXTENDS Sessions, TLC

CONSTANT p1

MCCodes == {"loggedOut", "connectionReplaced", "timedOut"}
=============================================================================
