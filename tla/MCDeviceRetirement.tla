------------------------- MODULE MCDeviceRetirement -------------------------
(* TLC instance: two projects with one environment each, two requests that
   may be retiring the number at once.                                     *)
EXTENDS DeviceRetirement, TLC

CONSTANTS p1, p2, e1, e2, r1, r2

MCProjects == {p1, p2}
MCEnvironments == {e1, e2}
MCProjectOf == [e \in MCEnvironments |-> IF e = e1 THEN p1 ELSE p2]
MCRetirers == {r1, r2}
MCOneRetirer == {r1}
\* Everything but the audit trail and the history, which no action reads, and what tells
\* the states of a device, or the events of a lost connection, apart: every guard only asks
\* whether there is a device, whether it is reserved, and whether an event says connected.
MCDevice == IF device \in {"absent", "retiring"} THEN device ELSE "there"
MCStream == [i \in DOMAIN events |-> events[i] = "connected"]
MCView == <<now, MCDevice, consent, binding, consumer, retirements, pool, creds, session,
            MCStream, handlers, restarts>>
\* The requests are interchangeable, and so are the projects, each taken with
\* its environment.
MCSymmetry ==
    Permutations(MCRetirers)
        \union {(p1 :> p2 @@ p2 :> p1 @@ e1 :> e2 @@ e2 :> e1)}
=============================================================================
