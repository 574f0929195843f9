------------------------------ MODULE Process -------------------------------
(***************************************************************************)
(* The process (boot.ts): what main starts, in which order, what runs      *)
(* while it serves - requests, the engine's consumer, the housekeeping and *)
(* delivery loops - and the drain that a signal begins.  The rate limits   *)
(* are the state that outlives it: RateLimits is composed with it, a       *)
(* request consuming, a housekeeping pass sweeping, a boot deploying.      *)
(*                                                                         *)
(* An action is what runs between two awaits.  What a handler, an event or *)
(* a pass does is in the other modules; here each has a beginning and, for *)
(* all but a handler, an end.  The drain is one async function, so phase   *)
(* names the await it is at.                                               *)
(***************************************************************************)
EXTENDS RateLimits

CONSTANTS
    MaxRequests,  \* requests open at once (bound)
    MaxBoots      \* processes started (bound)

ASSUME ProcessAssumption == MaxRequests \in Nat /\ MaxBoots \in Nat

VARIABLES
    phase,     \* where main, and then drain, is
    handling,  \* requests whose handler runs
    watching,  \* streams parked on the event bus
    leaving,   \* streams the bus has let go, to finish when their reader reads
    forced,    \* whether the drain deadline closed the connections
    consumer,  \* startEngineConsumer's task
    timer,     \* each loop's setTimeout
    passes,    \* passes each loop has in flight
    engine,    \* the registered adapter
    boots

procVars == <<phase, handling, watching, leaving, forced, consumer, timer,
              passes, engine, boots>>
vars == <<procVars, limitVars>>

Loops == {"housekeeping", "worker"}

\* What drain awaits, in order; before it, bootstrap (no signal handler yet)
\* and serving.
Drain == {"server", "consumers", "housekeeping", "worker", "engines"}
Phases == {"down", "starting", "serving"} \cup Drain

(* A loop never has two passes at once: two would mark one message         *)
(* undelivered twice, or attempt one delivery twice (housekeeping.ts:222,  *)
(* worker.ts:178).                                                         *)
TypeOK ==
    /\ LimitTypeOK
    /\ phase \in Phases
    /\ handling \in 0..MaxRequests /\ watching \in 0..MaxRequests
    /\ leaving \in 0..MaxRequests
    /\ forced \in {"no", "yes"}
    /\ consumer \in {"parked", "handling", "returned", "done"}
    /\ timer \in [Loops -> {"armed", "clear"}]
    /\ passes \in [Loops -> 0..1]
    /\ engine \in {"open", "closed"}
    /\ boots \in 0..MaxBoots

Up == phase # "down"

\* A loop's `stopped`: set when drain reaches its stop function.
Stopped(l) ==
    \/ phase = "engines" \/ phase = "worker"
    \/ l = "housekeeping" /\ phase = "housekeeping"

\* Nothing of a process survives it.
Gone ==
    /\ phase' = "down"
    /\ handling' = 0 /\ watching' = 0 /\ leaving' = 0 /\ forced' = "no"
    /\ consumer' = "done" /\ engine' = "closed"
    /\ timer' = [l \in Loops |-> "clear"]
    /\ passes' = [l \in Loops |-> 0]

Init ==
    /\ LimitInit
    /\ phase = "down" /\ boots = 0
    /\ handling = 0 /\ watching = 0 /\ leaving = 0 /\ forced = "no"
    /\ consumer = "done" /\ engine = "closed"
    /\ timer = [l \in Loops |-> "clear"]
    /\ passes = [l \in Loops |-> 0]

-----------------------------------------------------------------------------
(* Boot.                                                                   *)

\* main up to its last await: the registry, the consumers, the listening
\* server and the two loops.  Without BAILEYS_ENABLED there is no engine.
Boot(w, registered) ==
    /\ phase = "down" /\ boots < MaxBoots
    /\ boots' = boots + 1
    /\ phase' = "starting"
    /\ engine' = IF registered THEN "open" ELSE "closed"
    /\ consumer' = IF registered THEN "parked" ELSE "done"
    /\ timer' = [l \in Loops |-> "armed"]
    /\ Deploy(w)
    /\ UNCHANGED <<handling, watching, leaving, forced, passes>>

\* ensureBootstrap is done; the handlers of SIGINT and SIGTERM are installed.
Bootstrapped ==
    /\ phase = "starting"
    /\ phase' = "serving"
    /\ UNCHANGED <<handling, watching, leaving, forced, consumer, timer, passes,
                   engine, boots, limitVars>>

\* A crash at any time; ensureBootstrap throwing, or a signal, while starting.
Killed ==
    /\ Up
    /\ Gone
    /\ UNCHANGED <<boots, limitVars>>

-----------------------------------------------------------------------------
(* While it runs.  The server accepts from the moment it listens.          *)

Open == handling + watching + leaving

\* A key's request must be within its limit, or it is answered with a 429 and
\* nothing is left of it; health, setup and the stream's ticket consume nothing.
Accept ==
    /\ phase \in {"starting", "serving"}
    /\ Open < MaxRequests
    /\ Consume \/ UNCHANGED limitVars
    /\ handling' = handling + 1
    /\ UNCHANGED <<phase, watching, leaving, forced, consumer, timer, passes, engine, boots>>

Answer ==
    /\ handling > 0
    /\ handling' = handling - 1
    /\ UNCHANGED <<phase, watching, leaving, forced, consumer, timer, passes,
                   engine, boots, limitVars>>

\* The stream's route subscribes; resetBus may already have run.  A request
\* whose connection the deadline closed is aborted and returns instead.
Watch ==
    /\ handling > 0 /\ forced = "no"
    /\ handling' = handling - 1 /\ watching' = watching + 1
    /\ UNCHANGED <<phase, leaving, forced, consumer, timer, passes, engine, boots, limitVars>>

\* A stream's reader goes away, or reads the end the bus gave its stream.
Disconnect ==
    /\ \/ watching > 0 /\ watching' = watching - 1 /\ UNCHANGED leaving
       \/ leaving > 0 /\ leaving' = leaving - 1 /\ UNCHANGED watching
    /\ UNCHANGED <<phase, handling, forced, consumer, timer, passes, engine, boots, limitVars>>

\* An event reaches the consumer's next().
Event ==
    /\ engine = "open" /\ consumer = "parked"
    /\ consumer' = "handling"
    /\ UNCHANGED <<phase, handling, watching, leaving, forced, timer, passes,
                   engine, boots, limitVars>>

\* handleEngineEvent ends, or throws and is logged; next() on an iterator that
\* was returned is done, whatever the adapter still has pending.
EventHandled ==
    /\ consumer = "handling"
    /\ consumer' = IF phase = "consumers" THEN "done" ELSE "parked"
    /\ UNCHANGED <<phase, handling, watching, leaving, forced, timer, passes,
                   engine, boots, limitVars>>

\* tick: the timer fires and a pass begins; the next timer is armed when the
\* pass has ended.  With setInterval the next is armed already.
PassOnInterval(l) ==
    /\ timer[l] = "armed" /\ passes[l] < 2
    /\ passes' = [passes EXCEPT ![l] = @ + 1]
    /\ IF l = "housekeeping" THEN SweepLimits \/ UNCHANGED limitVars
                             ELSE UNCHANGED limitVars
    /\ UNCHANGED <<phase, handling, watching, leaving, forced, consumer, timer, engine, boots>>

\* A housekeeping pass runs five jobs, the limits' sweep among them, and one
\* that fails takes none of the others with it (allSettled).
PassBegins(l) ==
    /\ timer[l] = "armed"
    /\ timer' = [timer EXCEPT ![l] = "clear"]
    /\ passes' = [passes EXCEPT ![l] = @ + 1]
    /\ IF l = "housekeeping" THEN SweepLimits \/ UNCHANGED limitVars
                             ELSE UNCHANGED limitVars
    /\ UNCHANGED <<phase, handling, watching, leaving, forced, consumer, engine, boots>>

\* The pass ends, or fails and is logged.
PassEnds(l) ==
    /\ passes[l] > 0
    /\ passes' = [passes EXCEPT ![l] = @ - 1]
    /\ timer' = [timer EXCEPT ![l] = IF Stopped(l) THEN "clear" ELSE "armed"]
    /\ UNCHANGED <<phase, handling, watching, leaving, forced, consumer, engine,
                   boots, limitVars>>

-----------------------------------------------------------------------------
(* The drain.  shuttingDown makes a second signal no step at all.          *)

\* The first signal: resetBus ends every subscription and server.stop(false)
\* closes the door, in one synchronous stretch.
Signal ==
    /\ phase = "serving"
    /\ phase' = "server"
    /\ watching' = 0 /\ leaving' = leaving + watching
    /\ UNCHANGED <<handling, forced, consumer, timer, passes, engine, boots, limitVars>>

\* The other branch of the race: SHUTDOWN_DRAIN_MS are over and stop(false) is
\* not, so stop(true) closes the connections.  A handler runs on without one.
Deadline ==
    /\ phase = "server" /\ Open > 0 /\ forced = "no"
    /\ forced' = "yes"
    /\ watching' = 0 /\ leaving' = 0
    /\ UNCHANGED <<phase, handling, consumer, timer, passes, engine, boots, limitVars>>

\* What the race is over with: nothing in flight, or the deadline.
ServerIsDone == Open = 0 \/ forced = "yes"

\* Every stop function of startEngineConsumer is called at once: return() ends
\* the iterator and wakes a next() that is parked on it.
\* A generator's return() does not: the task stays parked.
ReturnQueues(c) == c
ReturnWakes(c) == IF c = "parked" THEN "returned" ELSE c

ServerStopped ==
    /\ phase = "server" /\ ServerIsDone
    /\ phase' = "consumers"
    /\ consumer' = ReturnWakes(consumer)
    /\ UNCHANGED <<handling, watching, leaving, forced, timer, passes, engine, boots, limitVars>>

\* server.stop rejects: drain is over, and the finally exits all the same.
StopRejects ==
    /\ phase = "server"
    /\ Gone
    /\ UNCHANGED <<boots, limitVars>>

\* The woken next() finds `done` and the task returns.
ConsumerEnds ==
    /\ consumer = "returned"
    /\ consumer' = "done"
    /\ UNCHANGED <<phase, handling, watching, leaving, forced, timer, passes,
                   engine, boots, limitVars>>

\* stopHousekeeping and stopWorker: `stopped`, clearTimeout, await inFlight.
StopLoop(l, from, to) ==
    /\ phase = from
    /\ phase' = to
    /\ timer' = [timer EXCEPT ![l] = "clear"]
    /\ UNCHANGED <<handling, watching, leaving, forced, consumer, passes, engine, boots, limitVars>>

ConsumersStopped == consumer = "done" /\ StopLoop("housekeeping", "consumers", "housekeeping")

\* What a stop function waits for.
\* What stopWorker's comment says it once did: only the scheduling stops.
ScheduleStopped(l) == timer[l] = "clear"
Idle(l) == passes[l] = 0

HousekeepingStopped == Idle("housekeeping") /\ StopLoop("worker", "housekeeping", "worker")

\* registry.closeAll: every adapter's close, allSettled; stop() resolved first.
WorkerStopped ==
    /\ phase = "worker" /\ Idle("worker")
    /\ phase' = "engines"
    /\ engine' = "closed"
    /\ UNCHANGED <<handling, watching, leaving, forced, consumer, timer, passes, boots, limitVars>>

\* The sockets have ended, or a close failed and was logged: process.exit(0).
Exit ==
    /\ phase = "engines"
    /\ Gone
    /\ UNCHANGED <<boots, limitVars>>

-----------------------------------------------------------------------------
Clock == Tick /\ UNCHANGED procVars

Next ==
    \/ \E w \in Widths : Boot(w, TRUE) \/ Boot(w, FALSE)
    \/ Bootstrapped \/ Killed
    \/ Accept \/ Answer \/ Watch \/ Disconnect
    \/ Event \/ EventHandled
    \/ \E l \in Loops : PassBegins(l) \/ PassEnds(l)
    \/ Signal \/ Deadline \/ ServerStopped \/ StopRejects
    \/ ConsumerEnds \/ ConsumersStopped \/ HousekeepingStopped \/ WorkerStopped \/ Exit
    \/ Clock

(* The timer of the race fires; an await whose promise is settled resumes; *)
(* an event and a pass end, every one of their own awaits being bounded.   *)
(* Nothing says that a handler ends or that a stream's reader reads.       *)
Fairness ==
    /\ WF_vars(Deadline) /\ WF_vars(ServerStopped)
    /\ WF_vars(EventHandled) /\ WF_vars(ConsumerEnds) /\ WF_vars(ConsumersStopped)
    /\ \A l \in Loops : WF_vars(PassEnds(l))
    /\ WF_vars(HousekeepingStopped) /\ WF_vars(WorkerStopped) /\ WF_vars(Exit)

Spec == Init /\ [][Next]_vars /\ Fairness

-----------------------------------------------------------------------------
(* Engines are released last: when a step of the drain closes them, no     *)
(* event and no pass is in the middle of its writes, and a request is only *)
(* if the deadline cut it off ("Order matters", boot.ts:159; "nothing      *)
(* half-written", worker.ts:157; "a deploy drops nothing", boot.ts:126).   *)
EnginesCloseLast ==
    phase = "engines" =>
        /\ consumer = "done"
        /\ \A l \in Loops : passes[l] = 0 /\ timer[l] = "clear"
        /\ Open > 0 => forced = "yes"

(* "The guarantee is: this function exits the process" (boot.ts:147): once *)
(* a signal is taken the process ends, with a handler that hangs, a reader *)
(* that does not read, an idle consumer and passes in flight.              *)
ShutdownEnds == phase \in Drain ~> phase = "down"
=============================================================================
