----------------------------- MODULE MCDelivery -----------------------------
(* TLC instance: two environments, one with two deliveries.                *)
EXTENDS Delivery, TLC

CONSTANTS e1, e2, d1, d2, d3, d4, d5, d6, d7, d8, d9, none

MCEnvironments == {e1, e2}
MCDeliveries == {d1, d2, d3}
MCEnvironmentOf == d1 :> e1 @@ d2 :> e1 @@ d3 :> e2
MCBackoff == <<1, 2>>

\* A backlog of eight events in one environment, queued a tick before one event in
\* the other: what nine steps of Enqueue and a Tick come to.
MCBacklog == {d1, d2, d3, d4, d5, d6, d7, d8, d9}
MCBacklogOf == [d \in MCBacklog |-> IF d = d9 THEN e2 ELSE e1]
MCBacklogInit ==
    /\ state = [d \in Deliveries |-> "pending"]
    /\ due = [d \in Deliveries |-> IF d = d9 THEN 0 ELSE -1]
    /\ attempts = [d \in Deliveries |-> 0]
    /\ tries = [d \in Deliveries |-> 0]
    /\ circuit = [e \in Environments |-> "closed"]
    /\ failures = [e \in Environments |-> 0]
    /\ since = [e \in Environments |-> 0]
    /\ at = "idle" /\ current = NoDelivery /\ batch = {} /\ age = 0 /\ outcome = "unknown"
    /\ replays = [d \in Deliveries |-> 0]
    /\ answered = {}
    /\ quiet = [e \in Environments |-> ProbeAfter]
    /\ upsets = 0
MCBacklogSpec == MCBacklogInit /\ [][Next]_vars
=============================================================================
