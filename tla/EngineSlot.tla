----------------------------- MODULE EngineSlot -----------------------------
(***************************************************************************)
(* What an engine promises the control plane of one device's slot          *)
(* (DeviceEngine, engine/types.ts): provision, logout "keeping the slot",  *)
(* purge "destroy the slot", and the events subscribe() reports meanwhile. *)
(*                                                                         *)
(* A slot comes up only over a connection it holds, it is lost or let go   *)
(* of only in the ways below, what ends in a reconnect is reported as an   *)
(* outage first, and "recovered" is said once for an outage and of nothing *)
(* else.  A connection may be opened under any slot there is: an engine    *)
(* that is late with one does not break the promise.                       *)
(***************************************************************************)

VARIABLES
    slot,   \* none; slot (no connection); open; linked; down (it will retry)
    lost,   \* a connection was lost since the slot was last up
    told    \* the last thing reported of the device

slotVars == <<slot, lost, told>>

SlotInit == slot = "none" /\ lost = "no" /\ told = "nothing"

Provided ==
    /\ slot = "none" /\ slot' = "slot"
    /\ UNCHANGED <<lost, told>>

\* Pairing, resuming or a retry opened a connection.
Connects ==
    /\ slot # "none"
    /\ slot' = IF slot = "linked" THEN "linked" ELSE "open"
    /\ UNCHANGED <<lost, told>>

Links ==
    /\ slot \in {"open", "linked"}
    /\ slot' = "linked"
    /\ told' = IF lost = "yes" THEN "recovered" ELSE "connected"
    /\ lost' = "no"

\* A connection ended, or one could not be opened: the engine retries, or it says that it
\* does not.
Breaks ==
    /\ slot # "none"
    /\ lost' = "yes"
    /\ \/ slot' = "down" /\ told' \in {"disconnected", "degraded"}
       \/ slot' = "slot" /\ told' = "disconnected"

\* The phone holder unlinks the device, over a connection.
Unlinks ==
    /\ slot \in {"open", "linked"}
    /\ slot' = "slot" /\ lost' = "yes" /\ told' = "logged_out"

\* The control plane's call lets go of the connection, or of the retry.
LetsGo ==
    /\ slot # "none"
    /\ slot' = "slot"
    /\ UNCHANGED <<lost, told>>

\* A logout that waited for the phone is reported even of a slot purged meanwhile.
LogsOut ==
    /\ told' = "logged_out"
    /\ slot' \in IF slot = "none" THEN {"none"} ELSE {slot, "slot"}
    /\ UNCHANGED lost

Destroyed ==
    /\ slot' = "none" /\ lost' = "no"
    /\ UNCHANGED told

SlotNext ==
    \/ Provided \/ Connects \/ LetsGo \/ Destroyed
    \/ Links \/ Breaks \/ Unlinks \/ LogsOut

SlotSpec == SlotInit /\ [][SlotNext]_slotVars
=============================================================================
