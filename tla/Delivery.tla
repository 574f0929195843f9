------------------------------ MODULE Delivery ------------------------------
(***************************************************************************)
(* Webhook delivery: the queue (src/stores/delivery-store.ts), the worker  *)
(* that empties it (src/delivery/worker.ts), its retry schedule and its    *)
(* circuit breaker (src/delivery/backoff.ts).                              *)
(*                                                                         *)
(* One worker takes one pass after another.  A pass selects due rows once  *)
(* and then goes through them, an await at a time; events, replays and new *)
(* webhook settings arrive between any two of its steps.  Times are ticks  *)
(* relative to now: `due` counts down, `since`, `quiet` and `age` count up.*)
(***************************************************************************)
EXTENDS Integers, FiniteSets, Sequences

CONSTANTS
    Environments,
    Deliveries,        \* an event for an environment: what the unique index keeps
    EnvironmentOf,
    NoDelivery,
    Batch,             \* batchSize
    PerEnvironment,    \* maxPerEnvironment
    MaxAttempts,       \* environment_webhooks.max_attempts
    Backoff, Jitter,   \* BACKOFF_SECONDS and how far a delay strays from it, in ticks
    Threshold,         \* CIRCUIT_FAILURE_THRESHOLD
    ProbeAfter,        \* CIRCUIT_PROBE_AFTER_MS, in ticks
    MaxPass,           \* bound: ticks a pass takes
    MaxLate,           \* bound: ticks a row is told to be overdue
    MaxUpsets          \* bound: replays, changed targets and passes cut short

ASSUME DeliveryAssumption ==
    /\ EnvironmentOf \in [Deliveries -> Environments]
    /\ NoDelivery \notin Deliveries
    /\ Batch \in Nat \ {0} /\ PerEnvironment \in Nat \ {0}
    /\ MaxAttempts \in Nat \ {0} /\ Threshold \in Nat \ {0} /\ ProbeAfter \in Nat
    /\ Backoff \in Seq(Nat \ {0}) /\ Backoff # <<>> /\ Jitter \in Nat
    /\ MaxPass \in Nat /\ MaxLate \in Nat
    /\ MaxUpsets \in Nat

VARIABLES
    state,       \* deliveries.state, or "none" before the row exists
    attempts,    \* deliveries.attempt_count
    due,         \* deliveries.next_attempt_at
    tries,       \* rows of the delivery in delivery_attempts
    circuit,     \* environment_webhooks.circuit_state
    failures,    \* environment_webhooks.consecutive_failures, up to Threshold
    since,       \* ticks since circuit_opened_at, 0 while closed
    at,          \* where the worker is
    current,     \* the delivery it is at
    batch,       \* rows of the pass it has not come to
    age,         \* ticks since the pass read its clock
    outcome,     \* what the target answered
    replays,     \* history: how often each delivery was replayed
    answered,    \* history: deliveries whose 2xx the worker read and did not lose
    quiet,       \* history: ticks since the circuit last counted a failure
    upsets       \* replays, changed targets and passes cut short so far

rows == <<state, attempts, due, tries>>
circuits == <<circuit, failures, since>>
worker == <<at, current, batch, age, outcome>>
history == <<replays, answered, quiet>>
vars == <<rows, circuits, worker, history, upsets>>

Busy == {"choosing", "deferring", "sending", "logging", "recording",
         "closing", "counting", "opening"}

TypeOK ==
    /\ state \in [Deliveries -> {"none", "pending", "delivered", "dead"}]
    /\ attempts \in [Deliveries -> Nat]
    /\ due \in [Deliveries -> Int]
    /\ tries \in [Deliveries -> Nat]
    /\ circuit \in [Environments -> {"closed", "open"}]
    /\ failures \in [Environments -> 0..Threshold]
    /\ since \in [Environments -> 0..(ProbeAfter + MaxPass)]
    /\ at \in {"idle"} \union Busy
    /\ current \in Deliveries \union {NoDelivery}
    /\ at \notin {"idle", "choosing"} => current \in Deliveries
    /\ batch \subseteq Deliveries
    /\ age \in 0..MaxPass
    /\ outcome \in {"unknown", "ok", "failed"}
    /\ replays \in [Deliveries -> Nat]
    /\ answered \subseteq Deliveries
    /\ quiet \in [Environments -> 0..ProbeAfter]
    /\ upsets \in 0..MaxUpsets

Init ==
    /\ state = [d \in Deliveries |-> "none"]
    /\ attempts = [d \in Deliveries |-> 0]
    /\ due = [d \in Deliveries |-> 0]
    /\ tries = [d \in Deliveries |-> 0]
    /\ circuit = [e \in Environments |-> "closed"]
    /\ failures = [e \in Environments |-> 0]
    /\ since = [e \in Environments |-> 0]
    /\ at = "idle" /\ current = NoDelivery /\ batch = {} /\ age = 0 /\ outcome = "unknown"
    /\ replays = [d \in Deliveries |-> 0]
    /\ answered = {}
    /\ quiet = [e \in Environments |-> ProbeAfter]
    /\ upsets = 0

----------------------------------------------------------------------------
(* The policy.                                                             *)

AtMost(n, bound) == IF n < bound THEN n ELSE bound

\* nextAttemptAt: how long after the pass's clock to try again; the last delay
\* of the list stands for all later ones, and jitter moves each.
Delays(n) ==
    LET base == Backoff[AtMost(n, Len(Backoff))] IN
    {t \in 1..(base + Jitter) : base - Jitter <= t}

\* circuitAllows, with the clock the pass started with.
CircuitAllows(e) == circuit[e] = "closed" \/ since[e] - age >= ProbeAfter

\* The n of S that have been due longest: every choice, when some tie.
Longest(S, n) ==
    {T \in SUBSET S : /\ Cardinality(T) = AtMost(Cardinality(S), n)
                      /\ \A t \in T, u \in S \ T : due[t] <= due[u]}

Due == {d \in Deliveries : state[d] = "pending" /\ due[d] <= 0}
Of(e) == {d \in Deliveries : EnvironmentOf[d] = e}

----------------------------------------------------------------------------
(* The queue's other users.                                                *)

\* One more of the things whose number is bounded.
Upset == upsets < MaxUpsets /\ upsets' = upsets + 1

\* enqueue: an event offered again conflicts with its row, and nothing happens.
Enqueue(d) ==
    /\ state[d] = "none"
    /\ state' = [state EXCEPT ![d] = "pending"]
    /\ due' = [due EXCEPT ![d] = 0]
    /\ UNCHANGED <<attempts, tries, circuits, worker, history, upsets>>

\* A replay that does not look at what state the row is in.
ReplayAnything(d) ==
    /\ state[d] \in {"dead", "delivered"}
    /\ state' = [state EXCEPT ![d] = "pending"]
    /\ attempts' = [attempts EXCEPT ![d] = 0]
    /\ due' = [due EXCEPT ![d] = 0]
    /\ replays' = [replays EXCEPT ![d] = @ + 1]
    /\ Upset
    /\ UNCHANGED <<tries, circuits, worker, answered, quiet>>

\* replay: only a dead row.  Nothing but a replay writes one, so its read and
\* its update are a step.
Replay(d) ==
    /\ state[d] = "dead"
    /\ state' = [state EXCEPT ![d] = "pending"]
    /\ attempts' = [attempts EXCEPT ![d] = 0]
    /\ due' = [due EXCEPT ![d] = 0]
    /\ replays' = [replays EXCEPT ![d] = @ + 1]
    /\ Upset
    /\ UNCHANGED <<tries, circuits, worker, answered, quiet>>

\* WebhookStore.upsert with another URL: a new destination, a new circuit.
ChangeTarget(e) ==
    /\ circuit' = [circuit EXCEPT ![e] = "closed"]
    /\ failures' = [failures EXCEPT ![e] = 0]
    /\ since' = [since EXCEPT ![e] = 0]
    /\ Upset
    /\ UNCHANGED <<rows, worker, history>>

----------------------------------------------------------------------------
(* The worker: runOnce.                                                    *)

\* One counter for all environments where each should have its own.
CapTogether ==
    /\ at = "idle"
    /\ Due # {}
    /\ \E claimed \in Longest(Due, 4 * Batch) : batch' \in Longest(claimed, PerEnvironment)
    /\ at' = "choosing"
    /\ age' = 0
    /\ UNCHANGED <<rows, circuits, current, outcome, history, upsets>>

\* claimDue selects across all environments, then each is capped, then the batch.
StartPass ==
    /\ at = "idle"
    /\ Due # {}
    /\ \E claimed \in Longest(Due, 4 * Batch) :
       \E capped \in SUBSET claimed :
          /\ \A e \in Environments :
                capped \intersect Of(e) \in Longest(claimed \intersect Of(e), PerEnvironment)
          /\ batch' \in Longest(capped, Batch)
    /\ at' = "choosing"
    /\ age' = 0
    /\ UNCHANGED <<rows, circuits, current, outcome, history, upsets>>

\* The next row, and what its environment's circuit says.
Choose(d) ==
    /\ at = "choosing"
    /\ d \in batch
    /\ \A u \in batch : due[d] <= due[u]
    /\ batch' = batch \ {d}
    /\ current' = d
    /\ at' = IF CircuitAllows(EnvironmentOf[d]) THEN "sending" ELSE "deferring"
    /\ UNCHANGED <<rows, circuits, age, outcome, history, upsets>>

\* A declined row recorded as an attempt.
DeferCounting ==
    /\ at = "deferring"
    /\ due' = [due EXCEPT ![current] = ProbeAfter - age]
    /\ attempts' = [attempts EXCEPT ![current] = @ + 1]
    /\ at' = "choosing"
    /\ UNCHANGED <<state, tries, circuits, current, batch, age, outcome, history, upsets>>

\* A declined row that starts the circuit's wait again.
DeferRearming ==
    /\ at = "deferring"
    /\ due' = [due EXCEPT ![current] = ProbeAfter - age]
    /\ since' = [since EXCEPT ![EnvironmentOf[current]] = age]
    /\ at' = "choosing"
    /\ UNCHANGED <<state, attempts, tries, circuit, failures, current, batch, age, outcome,
                   history, upsets>>

\* Not tried and not counted: due again a probe's wait after the pass's clock.
Defer ==
    /\ at = "deferring"
    /\ due' = [due EXCEPT ![current] = ProbeAfter - age]
    /\ at' = "choosing"
    /\ UNCHANGED <<state, attempts, tries, circuits, current, batch, age, outcome,
                   history, upsets>>

\* send: a 2xx, or anything else, a timeout and a lost answer among it.
TargetAnswers ==
    /\ at = "sending"
    /\ outcome' \in {"ok", "failed"}
    /\ answered' = IF outcome' = "ok" THEN answered \union {current} ELSE answered
    /\ at' = "logging"
    /\ UNCHANGED <<rows, circuits, current, batch, age, replays, quiet, upsets>>

\* recordAttempt's insert ...
LogAttempt ==
    /\ at = "logging"
    /\ tries' = [tries EXCEPT ![current] = @ + 1]
    /\ at' = "recording"
    /\ UNCHANGED <<state, attempts, due, circuits, current, batch, age, outcome,
                   history, upsets>>

\* ... and its update, after a 2xx ...
RecordDelivered ==
    /\ at = "recording" /\ outcome = "ok"
    /\ state' = [state EXCEPT ![current] = "delivered"]
    /\ attempts' = [attempts EXCEPT ![current] = @ + 1]
    /\ at' = "closing"
    /\ UNCHANGED <<due, tries, circuits, current, batch, age, outcome, history, upsets>>

\* ... after a failure that leaves attempts ...
RecordRetry ==
    /\ at = "recording" /\ outcome = "failed"
    /\ attempts[current] + 1 < MaxAttempts
    /\ attempts' = [attempts EXCEPT ![current] = @ + 1]
    /\ \E t \in Delays(attempts[current] + 1) :
          due' = [due EXCEPT ![current] = t - age]
    /\ at' = "counting"
    /\ UNCHANGED <<state, tries, circuits, current, batch, age, outcome, history, upsets>>

\* ... and after one that leaves none.
RecordDead ==
    /\ at = "recording" /\ outcome = "failed"
    /\ attempts[current] + 1 >= MaxAttempts
    /\ state' = [state EXCEPT ![current] = "dead"]
    /\ attempts' = [attempts EXCEPT ![current] = @ + 1]
    /\ at' = "counting"
    /\ UNCHANGED <<due, tries, circuits, current, batch, age, outcome, history, upsets>>

Target == EnvironmentOf[current]

CloseCircuit ==
    /\ at = "closing"
    /\ circuit' = [circuit EXCEPT ![Target] = "closed"]
    /\ failures' = [failures EXCEPT ![Target] = 0]
    /\ since' = [since EXCEPT ![Target] = 0]
    /\ at' = "choosing"
    /\ UNCHANGED <<rows, current, batch, age, outcome, history, upsets>>

\* recordFailure's first update, and whether the run is long enough ...
CountFailure ==
    /\ at = "counting"
    /\ failures' = [failures EXCEPT ![Target] = AtMost(@ + 1, Threshold)]
    /\ at' = IF failures'[Target] >= Threshold THEN "opening" ELSE "choosing"
    /\ UNCHANGED <<rows, circuit, since, current, batch, age, outcome, history, upsets>>

\* ... and its second, at every failure while the circuit is open.
OpenCircuit ==
    /\ at = "opening"
    /\ circuit' = [circuit EXCEPT ![Target] = "open"]
    /\ since' = [since EXCEPT ![Target] = age]
    /\ quiet' = [quiet EXCEPT ![Target] = 0]
    /\ at' = "choosing"
    /\ UNCHANGED <<rows, failures, current, batch, age, outcome, replays, answered, upsets>>

EndPass ==
    /\ at = "choosing"
    /\ batch = {}
    /\ at' = "idle"
    /\ current' = NoDelivery /\ age' = 0 /\ outcome' = "unknown"
    /\ UNCHANGED <<rows, circuits, batch, history, upsets>>

\* A statement throws, or the process stops and starts again: the pass is over,
\* and an answer it had read and not recorded is lost.
Interrupted ==
    /\ at \in Busy
    /\ answered' = IF at \in {"logging", "recording"} THEN answered \ {current} ELSE answered
    /\ at' = "idle" /\ current' = NoDelivery /\ batch' = {} /\ age' = 0 /\ outcome' = "unknown"
    /\ Upset
    /\ UNCHANGED <<rows, circuits, replays, quiet>>

----------------------------------------------------------------------------
(* Time.  A pass is as long as its requests; their timeout bounds them.    *)

Tick ==
    /\ at \in Busy => age < MaxPass
    /\ age' = IF at \in Busy THEN age + 1 ELSE age
    /\ due' = [d \in Deliveries |->
                 IF state[d] = "pending" /\ due[d] > -MaxLate THEN due[d] - 1 ELSE due[d]]
    /\ since' = [e \in Environments |->
                   IF circuit[e] = "open" THEN AtMost(since[e] + 1, ProbeAfter + MaxPass) ELSE since[e]]
    /\ quiet' = [e \in Environments |-> AtMost(quiet[e] + 1, ProbeAfter)]
    /\ UNCHANGED <<state, attempts, tries, circuit, failures, at, current, batch, outcome,
                   replays, answered, upsets>>

Work ==
    \/ StartPass
    \/ \E d \in Deliveries : Choose(d)
    \/ Defer
    \/ TargetAnswers
    \/ LogAttempt
    \/ RecordDelivered
    \/ RecordRetry
    \/ RecordDead
    \/ CloseCircuit
    \/ CountFailure
    \/ OpenCircuit
    \/ EndPass

Next ==
    \/ \E d \in Deliveries : Enqueue(d) \/ Replay(d)
    \/ \E e \in Environments : ChangeTarget(e)
    \/ Work
    \/ Interrupted
    \/ Tick

\* The loop schedules itself again whatever a pass did, and a request ends.
Fairness == WF_vars(Work) /\ WF_vars(Tick)

Spec == Init /\ [][Next]_vars /\ Fairness
----------------------------------------------------------------------------
(* Properties.                                                             *)

\* The attempts of n full schedules.
Schedules(n) == MaxAttempts * n

\* No delivery ends unearned: "delivered" has had a 2xx, and "dead" has used up
\* the whole schedule of each time it was queued, deferred passes, passes cut
\* short and replays notwithstanding.
EndsAreEarned ==
    \A d \in Deliveries :
        /\ state[d] = "delivered" => d \in answered
        /\ state[d] = "dead" => tries[d] >= Schedules(replays[d] + 1)

\* At least once, but not idly twice: a delivery whose 2xx the worker read is
\* sent again only if the worker was stopped before it had recorded that.
AnsweredIsNotResent ==
    [][at' = "sending" /\ at # "sending" => current' \notin answered]_vars

\* A target that keeps failing is probed, not hammered: from one failure counted
\* by an open circuit to the next request goes a probe's wait, less the length of
\* a pass, for the circuit's clock is the one the failing pass started with.
ProbesSpaced ==
    [][at' = "sending" /\ at # "sending" /\ circuit[EnvironmentOf[current']] = "open"
          => quiet[EnvironmentOf[current']] >= ProbeAfter - MaxPass]_vars

\* The queue drains: no delivery stays pending for ever, through failing targets,
\* open circuits, replays and passes cut short.
QueueDrains == []<>(\A d \in Deliveries : state[d] # "pending")

\* Environments that a pass should have served and did not: they have due rows,
\* and the batch has room left.
LeftOut ==
    {e \in Environments : /\ Due \intersect Of(e) # {}
                          /\ batch' \intersect Of(e) = {}
                          /\ Cardinality(batch') < Batch}

\* One environment's backlog does not fill a pass, as long as the whole queue fits
\* what the pass selects.
SmallBacklogsShare ==
    [][at = "idle" /\ at' = "choosing" /\ Cardinality(Due) <= 4 * Batch
          => LeftOut = {}]_vars

\* The same whatever the backlog, as runOnce says of its cap per environment:
\* "one environment with a long backlog would otherwise fill every batch".
BacklogsShare == [][at = "idle" /\ at' = "choosing" => LeftOut = {}]_vars
=============================================================================
