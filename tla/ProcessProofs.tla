--------------------------- MODULE ProcessProofs ----------------------------
(***************************************************************************)
(* Proofs about the rate limits and the process that uses them: the        *)
(* budget holds for every set of window lengths, every limit, every grace  *)
(* and every length of the run, and the process, in all it does, never     *)
(* treats the limits otherwise than RateLimits says.                       *)
(***************************************************************************)
EXTENDS Process, TLAPS

\* No row counts past the limit.
CountsWithinLimit == \A s \in DOMAIN rows : rows[s].count <= MaxUses

\* What a width granted in its current window is on the row of that window,
\* and the row remembers an end that is not before the window's.
GrantsAreOnTheRow ==
    \A w \in Widths :
        granted[w] > 0 =>
            /\ WindowStart(w, now) \in DOMAIN rows
            /\ granted[w] <= rows[WindowStart(w, now)].count
            /\ WindowStart(w, now) + w <= rows[WindowStart(w, now)].expires

LimitInv == LimitTypeOK /\ CountsWithinLimit /\ GrantsAreOnTheRow

(* A window starts no later than now and has not ended (rate-limit.ts:102). *)
LEMMA WindowHoldsNow ==
    ASSUME NEW t \in Nat, NEW w \in Nat \ {0}
    PROVE  /\ WindowStart(w, t) \in Nat
           /\ WindowStart(w, t) <= t
           /\ t < WindowStart(w, t) + w
<1>1. t % w \in Nat /\ t % w <= t /\ t % w < w
  OBVIOUS
<1> QED BY <1>1 DEF WindowStart

LEMMA LimitInitInv == LimitInit => LimitInv
<1> SUFFICES ASSUME LimitInit PROVE LimitInv
  OBVIOUS
<1>1. LimitTypeOK
  BY DEF LimitInit, LimitTypeOK
<1>2. CountsWithinLimit /\ GrantsAreOnTheRow
  BY DEF LimitInit, CountsWithinLimit, GrantsAreOnTheRow
<1> QED BY <1>1, <1>2 DEF LimitInv

LEMMA ConsumeKeeps == ASSUME LimitInv, Consume PROVE LimitInv'
<1> DEFINE start == WindowStart(width, now)
<1> USE LimitAssumption
<1>1. width \in Widths /\ width \in Nat \ {0} /\ now \in Nat
  BY DEF LimitInv, LimitTypeOK
<1>2. start \in Nat
  BY <1>1, WindowHoldsNow
<1>3. /\ now' = now /\ width' = width
      /\ DOMAIN rows' = DOMAIN rows \cup {start}
      /\ \A s \in DOMAIN rows : s # start => rows'[s] = rows[s]
      /\ rows'[start] = Counted(start)
      /\ granted' = [granted EXCEPT ![width] = @ + 1]
      /\ HasRoom(start)
  BY DEF Consume
<1>4. /\ Counted(start) \in Row
      /\ Counted(start).count <= MaxUses
      /\ start + width <= Counted(start).expires
  <2>1. CASE start \in DOMAIN rows
    <3>1. rows[start] \in Row /\ rows[start].count < MaxUses
      BY <1>3, <2>1 DEF LimitInv, LimitTypeOK, HasRoom
    <3> QED BY <1>1, <1>2, <2>1, <3>1 DEF Counted, Row, Later
  <2>2. CASE start \notin DOMAIN rows
    BY <1>1, <1>2, <2>2 DEF Counted, Row
  <2> QED BY <2>1, <2>2
<1>5. LimitTypeOK'
  BY <1>1, <1>2, <1>3, <1>4 DEF LimitInv, LimitTypeOK
<1>6. CountsWithinLimit'
  BY <1>3, <1>4 DEF LimitInv, CountsWithinLimit
<1>7. GrantsAreOnTheRow'
  <2> SUFFICES ASSUME NEW w \in Widths, granted'[w] > 0
               PROVE  /\ WindowStart(w, now) \in DOMAIN rows'
                      /\ granted'[w] <= rows'[WindowStart(w, now)].count
                      /\ WindowStart(w, now) + w <= rows'[WindowStart(w, now)].expires
    BY <1>3 DEF GrantsAreOnTheRow, WindowStart
  <2>1. granted \in [Widths -> Nat] /\ w \in Nat
    BY DEF LimitInv, LimitTypeOK
  <2>2. CASE w = width
    <3>1. granted'[w] = granted[w] + 1
      BY <1>3, <2>1, <2>2
    <3>2. granted[w] + 1 <= Counted(start).count
      <4>1. CASE start \in DOMAIN rows
        <5>1. granted[w] <= rows[start].count
          BY <2>1, <2>2, <4>1 DEF LimitInv, LimitTypeOK, GrantsAreOnTheRow, Row
        <5>2. rows[start] \in Row /\ Counted(start).count = rows[start].count + 1
          BY <4>1 DEF LimitInv, LimitTypeOK, Counted
        <5> QED BY <2>1, <5>1, <5>2 DEF Row
      <4>2. CASE start \notin DOMAIN rows
        <5>1. granted[w] = 0
          BY <2>1, <2>2, <4>2 DEF LimitInv, GrantsAreOnTheRow
        <5> QED BY <4>2, <5>1 DEF Counted
      <4> QED BY <4>1, <4>2
    <3> QED BY <1>3, <1>4, <2>2, <3>1, <3>2
  <2>3. CASE w # width
    <3> DEFINE mine == WindowStart(w, now)
    <3>1. granted'[w] = granted[w]
      BY <1>3, <2>1, <2>3
    <3>2. /\ mine \in DOMAIN rows /\ granted[w] <= rows[mine].count
          /\ mine + w <= rows[mine].expires /\ rows[mine] \in Row
      BY <3>1 DEF LimitInv, LimitTypeOK, GrantsAreOnTheRow
    <3>3. CASE mine = start
      <4>1. /\ Counted(start).count = rows[start].count + 1
            /\ Counted(start).expires = Later(rows[start].expires, start + width)
        BY <3>2, <3>3 DEF Counted
      <4>2. rows[start].expires <= Counted(start).expires
        BY <1>1, <1>2, <3>2, <3>3, <4>1 DEF Later, Row
      <4>3. mine \in Nat
        BY <1>2, <3>3
      <4>4. granted[w] <= Counted(start).count
        BY <2>1, <3>2, <3>3, <4>1 DEF Row
      <4>5. mine + w <= Counted(start).expires
        BY <1>4, <2>1, <3>2, <3>3, <4>2, <4>3 DEF Row
      <4> QED BY <1>3, <3>1, <3>3, <4>4, <4>5
    <3>4. CASE mine # start
      BY <1>3, <3>1, <3>2, <3>4
    <3> QED BY <3>3, <3>4
  <2> QED BY <2>2, <2>3
<1> QED BY <1>5, <1>6, <1>7 DEF LimitInv

(* The sweep takes no row of a window that is still open: the row ends no  *)
(* earlier than the window does, and that is after now.                    *)
LEMMA SweepKeeps == ASSUME LimitInv, SweepLimits PROVE LimitInv'
<1> USE LimitAssumption
<1>1. /\ now' = now /\ width' = width /\ granted' = granted
      /\ DOMAIN rows' = {t \in DOMAIN rows : rows[t].expires + Grace >= now}
      /\ \A s \in DOMAIN rows' : s \in DOMAIN rows /\ rows'[s] = rows[s]
  BY DEF SweepLimits
<1>2. LimitTypeOK'
  BY <1>1 DEF LimitInv, LimitTypeOK
<1>3. CountsWithinLimit'
  BY <1>1 DEF LimitInv, CountsWithinLimit
<1>4. GrantsAreOnTheRow'
  <2> SUFFICES ASSUME NEW w \in Widths, granted[w] > 0
               PROVE  /\ WindowStart(w, now) \in DOMAIN rows'
                      /\ granted[w] <= rows'[WindowStart(w, now)].count
                      /\ WindowStart(w, now) + w <= rows'[WindowStart(w, now)].expires
    BY <1>1 DEF GrantsAreOnTheRow, WindowStart
  <2> DEFINE mine == WindowStart(w, now)
  <2>1. /\ mine \in DOMAIN rows /\ granted[w] <= rows[mine].count
        /\ mine + w <= rows[mine].expires /\ rows[mine] \in Row
    BY DEF LimitInv, LimitTypeOK, GrantsAreOnTheRow
  <2>2. w \in Nat \ {0} /\ now \in Nat
    BY DEF LimitInv, LimitTypeOK
  <2>3. mine \in Nat /\ now < mine + w
    BY <2>2, WindowHoldsNow
  <2> HIDE DEF mine
  <2>4. rows[mine].expires + Grace >= now
    BY <2>1, <2>2, <2>3 DEF Row
  <2>5. mine \in DOMAIN rows'
    BY <1>1, <2>1, <2>4
  <2> QED BY <1>1, <2>1, <2>5 DEF mine
<1> QED BY <1>2, <1>3, <1>4 DEF LimitInv

LEMMA TickKeeps == ASSUME LimitInv, Tick PROVE LimitInv'
<1> USE LimitAssumption
<1>1. /\ now' = now + 1 /\ width' = width /\ rows' = rows
      /\ granted' = [w \in Widths |->
                       IF WindowStart(w, now + 1) = WindowStart(w, now)
                       THEN granted[w] ELSE 0]
  BY DEF Tick
<1>2. LimitTypeOK'
  BY <1>1 DEF LimitInv, LimitTypeOK
<1>3. CountsWithinLimit'
  BY <1>1 DEF LimitInv, CountsWithinLimit
<1>4. GrantsAreOnTheRow'
  <2> SUFFICES ASSUME NEW w \in Widths, granted'[w] > 0
               PROVE  /\ WindowStart(w, now + 1) \in DOMAIN rows
                      /\ granted'[w] <= rows[WindowStart(w, now + 1)].count
                      /\ WindowStart(w, now + 1) + w <= rows[WindowStart(w, now + 1)].expires
    BY <1>1 DEF GrantsAreOnTheRow, WindowStart
  <2>1. WindowStart(w, now + 1) = WindowStart(w, now) /\ granted'[w] = granted[w]
    BY <1>1
  <2> QED BY <2>1 DEF LimitInv, GrantsAreOnTheRow
<1> QED BY <1>2, <1>3, <1>4 DEF LimitInv

LEMMA LimitStep == ASSUME LimitInv, [LimitNext]_limitVars PROVE LimitInv'
<1>1. CASE Consume
  BY <1>1, ConsumeKeeps
<1>2. CASE SweepLimits
  BY <1>2, SweepKeeps
<1>3. CASE Tick
  BY <1>3, TickKeeps
<1>4. ASSUME NEW w \in Widths, Deploy(w) PROVE LimitInv'
  BY <1>4 DEF Deploy, LimitInv, LimitTypeOK, CountsWithinLimit, GrantsAreOnTheRow,
              WindowStart
<1>5. CASE UNCHANGED limitVars
  BY <1>5 DEF limitVars, LimitInv, LimitTypeOK, CountsWithinLimit,
              GrantsAreOnTheRow, WindowStart
<1> QED BY <1>1, <1>2, <1>3, <1>4, <1>5 DEF LimitNext

(* The invariant gives the budget: what was granted is on a row, and no    *)
(* row counts past the limit.                                              *)
LEMMA LimitInvBudget == LimitInv => BudgetHolds
<1> SUFFICES ASSUME LimitInv, NEW w \in Widths PROVE granted[w] <= MaxUses
  BY DEF BudgetHolds
<1> USE LimitAssumption
<1>1. granted[w] \in Nat
  BY DEF LimitInv, LimitTypeOK
<1>2. CASE granted[w] > 0
  <2> DEFINE mine == WindowStart(w, now)
  <2>1. mine \in DOMAIN rows /\ granted[w] <= rows[mine].count
    BY <1>2 DEF LimitInv, GrantsAreOnTheRow
  <2>2. rows[mine] \in Row /\ rows[mine].count <= MaxUses
    BY <2>1 DEF LimitInv, LimitTypeOK, CountsWithinLimit
  <2> QED BY <1>1, <2>1, <2>2 DEF Row
<1>3. CASE granted[w] = 0
  BY <1>3
<1> QED BY <1>1, <1>2, <1>3

(* Every use of the limits by whatever process keeps them as they are      *)
(* specified: types, and no window past its budget (rate-limit.ts:95-192). *)
THEOREM LimitsAlone == LimitSpec => [](LimitTypeOK /\ BudgetHolds)
<1>1. LimitInv => LimitTypeOK /\ BudgetHolds
  BY LimitInvBudget DEF LimitInv
<1> QED BY <1>1, LimitInitInv, LimitStep, PTL DEF LimitSpec

-----------------------------------------------------------------------------
(* A step of the process is, for the limits, one of their own steps or     *)
(* none: only a request consumes, only a housekeeping pass sweeps.         *)
LEMMA ProcessStep == ASSUME [Next]_vars PROVE [LimitNext]_limitVars
<1>1. ASSUME NEW w \in Widths, Boot(w, TRUE) \/ Boot(w, FALSE)
      PROVE  LimitNext
  BY <1>1 DEF Boot, LimitNext
<1>2. CASE Accept
  BY <1>2 DEF Accept, LimitNext
<1>3. ASSUME NEW l \in Loops, PassBegins(l) \/ PassEnds(l)
      PROVE  [LimitNext]_limitVars
  BY <1>3 DEF PassBegins, PassEnds, LimitNext
<1>4. CASE Clock
  BY <1>4 DEF Clock, LimitNext
<1>5. CASE Bootstrapped \/ Killed \/ Answer \/ Watch \/ Disconnect \/ Event \/ EventHandled
  BY <1>5 DEF Bootstrapped, Killed, Answer, Watch, Disconnect, Event, EventHandled
<1>6. CASE Signal \/ Deadline \/ ServerStopped \/ StopRejects \/ ConsumerEnds
  BY <1>6 DEF Signal, Deadline, ServerStopped, StopRejects, ConsumerEnds
<1>7. CASE ConsumersStopped \/ HousekeepingStopped \/ WorkerStopped \/ Exit
  BY <1>7 DEF ConsumersStopped, HousekeepingStopped, WorkerStopped, StopLoop, Exit
<1>8. CASE UNCHANGED vars
  BY <1>8 DEF vars
<1> QED BY <1>1, <1>2, <1>3, <1>4, <1>5, <1>6, <1>7, <1>8 DEF Next

(* Processes that come and go on one database, each with a window length   *)
(* of its own, use the limits as specified: the composition implements     *)
(* LimitSpec, and so keeps its budget.                                     *)
THEOREM ProcessImplementsLimits == Spec => LimitSpec
<1>1. Init => LimitInit
  BY DEF Init
<1> QED BY <1>1, ProcessStep, PTL DEF Spec, LimitSpec

(* BudgetHolds of the composition, for every bound (rate-limit.ts:109).    *)
THEOREM ProcessKeepsBudget == Spec => []BudgetHolds
<1>1. LimitSpec => []BudgetHolds
  BY LimitsAlone, PTL
<1> QED BY <1>1, ProcessImplementsLimits, PTL

-----------------------------------------------------------------------------
\* The requests open at once are no more than the bound, all kinds together.
OpenIsBounded == Open <= MaxRequests

\* A loop arms its timer only when its pass is over.
ArmedMeansIdle == \A l \in Loops : timer[l] = "armed" => passes[l] = 0

\* What each await of the drain leaves behind it.
DrainedSoFar ==
    /\ phase \in Drain \ {"server"} => Open = 0 \/ forced = "yes"
    /\ phase \in {"housekeeping", "worker", "engines"} =>
          consumer = "done" /\ timer["housekeeping"] = "clear"
    /\ phase \in {"worker", "engines"} =>
          passes["housekeeping"] = 0 /\ timer["worker"] = "clear"
    /\ phase = "engines" => passes["worker"] = 0

\* Nothing of a process is there when none runs.
DownIsEmpty ==
    phase = "down" =>
        /\ Open = 0 /\ forced = "no" /\ consumer = "done"
        /\ \A l \in Loops : passes[l] = 0 /\ timer[l] = "clear"

ProcInv == TypeOK /\ OpenIsBounded /\ ArmedMeansIdle /\ DrainedSoFar /\ DownIsEmpty

LEMMA ProcInit == Init => ProcInv
<1> SUFFICES ASSUME Init PROVE ProcInv
  OBVIOUS
<1>1. LimitTypeOK
  BY LimitInitInv DEF Init, LimitInv
<1> USE LimitAssumption, ProcessAssumption
<1>2. TypeOK
  BY <1>1 DEF Init, TypeOK, Phases, Drain, Loops
<1>3. OpenIsBounded /\ ArmedMeansIdle /\ DrainedSoFar /\ DownIsEmpty
  BY DEF Init, OpenIsBounded, Open, ArmedMeansIdle, DrainedSoFar, DownIsEmpty, Drain, Loops
<1> QED BY <1>2, <1>3 DEF ProcInv

(* Leaving the process leaves nothing of it.                               *)
LEMMA GoneKeeps ==
  ASSUME ProcInv, LimitTypeOK', Gone, boots' = boots
  PROVE  ProcInv'
<1> USE LimitAssumption, ProcessAssumption
<1>1. TypeOK'
  BY DEF ProcInv, TypeOK, Gone, Phases, Drain, Loops
<1>2. OpenIsBounded' /\ ArmedMeansIdle' /\ DrainedSoFar' /\ DownIsEmpty'
  BY DEF Gone, OpenIsBounded, Open, ArmedMeansIdle, DrainedSoFar, DownIsEmpty, Drain, Loops
<1> QED BY <1>1, <1>2 DEF ProcInv

(* The step of every action, given that the limits keep their types.       *)
LEMMA ProcStep == ASSUME ProcInv, LimitTypeOK', [Next]_vars PROVE ProcInv'
<1> USE LimitAssumption, ProcessAssumption
<1> USE DEF ProcInv, TypeOK, Phases, Drain, Loops, OpenIsBounded, Open,
            ArmedMeansIdle, DrainedSoFar, DownIsEmpty
<1>1. ASSUME NEW w \in Widths, Boot(w, TRUE) \/ Boot(w, FALSE) PROVE ProcInv'
  <2>1. CASE Boot(w, TRUE)
    BY <2>1 DEF Boot
  <2>2. CASE Boot(w, FALSE)
    BY <2>2 DEF Boot
  <2> QED BY <1>1, <2>1, <2>2
<1>2. CASE Bootstrapped
  BY <1>2 DEF Bootstrapped
<1>3. CASE Killed
  BY <1>3, GoneKeeps DEF Killed
<1>4. CASE Accept
  BY <1>4 DEF Accept
<1>5. CASE Answer
  BY <1>5 DEF Answer
<1>6. CASE Watch
  BY <1>6 DEF Watch
<1>7. CASE Disconnect
  BY <1>7 DEF Disconnect
<1>8. CASE Event
  BY <1>8 DEF Event
<1>9. CASE EventHandled
  BY <1>9 DEF EventHandled
<1>10. ASSUME NEW l \in Loops, PassBegins(l) PROVE ProcInv'
  <2>1. /\ timer[l] = "armed" /\ passes[l] = 0
        /\ timer' = [timer EXCEPT ![l] = "clear"] /\ passes' = [passes EXCEPT ![l] = @ + 1]
        /\ UNCHANGED <<phase, handling, watching, leaving, forced, consumer, engine, boots>>
    BY <1>10 DEF PassBegins
  <2> QED BY <2>1
<1>11. ASSUME NEW l \in Loops, PassEnds(l) PROVE ProcInv'
  <2>1. passes[l] = 1
    BY <1>11 DEF PassEnds
  <2>2. passes' \in [Loops -> 0..1] /\ passes'[l] = 0
        /\ \A k \in Loops \ {l} : passes'[k] = passes[k]
    BY <1>11, <2>1 DEF PassEnds
  <2>3. timer' \in [Loops -> {"armed", "clear"}]
        /\ \A k \in Loops \ {l} : timer'[k] = timer[k]
    BY <1>11 DEF PassEnds
  <2> QED BY <1>11, <2>1, <2>2, <2>3 DEF PassEnds, Stopped
<1>12. CASE Signal
  BY <1>12 DEF Signal
<1>13. CASE Deadline
  BY <1>13 DEF Deadline
<1>14. CASE ServerStopped
  BY <1>14 DEF ServerStopped, ServerIsDone, ReturnWakes
<1>15. CASE StopRejects
  BY <1>15, GoneKeeps DEF StopRejects
<1>16. CASE ConsumerEnds
  BY <1>16 DEF ConsumerEnds
<1>17. CASE ConsumersStopped
  BY <1>17 DEF ConsumersStopped, StopLoop
<1>18. CASE HousekeepingStopped
  BY <1>18 DEF HousekeepingStopped, Idle, StopLoop
<1>19. CASE WorkerStopped
  BY <1>19 DEF WorkerStopped, Idle
<1>20. CASE Exit
  BY <1>20, GoneKeeps DEF Exit
<1>21. CASE Clock
  BY <1>21 DEF Clock, procVars
<1>22. CASE UNCHANGED vars
  BY <1>22 DEF vars, procVars
<1> QED BY <1>1, <1>2, <1>3, <1>4, <1>5, <1>6, <1>7, <1>8, <1>9, <1>10, <1>11, <1>12,
           <1>13, <1>14, <1>15, <1>16, <1>17, <1>18, <1>19, <1>20, <1>21, <1>22 DEF Next

LEMMA ProcAlways == Spec => []ProcInv
<1>1. LimitSpec => []LimitTypeOK
  BY LimitsAlone, PTL
<1>2. Spec => []LimitTypeOK
  BY <1>1, ProcessImplementsLimits, PTL
<1> QED BY <1>2, ProcInit, ProcStep, PTL DEF Spec

(* The process's types, and with them that a loop never has two passes at  *)
(* once (housekeeping.ts:222, worker.ts:178), for any number of requests,  *)
(* processes and window lengths.                                           *)
THEOREM ProcessTyped == Spec => []TypeOK
<1>1. ProcInv => TypeOK
  BY DEF ProcInv
<1> QED BY <1>1, ProcAlways, PTL

(* The order of the drain: while the engines close, no request, event or   *)
(* pass is left that uses them (boot.ts, drain).                           *)
THEOREM ProcessSafe == Spec => []EnginesCloseLast
<1>1. ProcInv => EnginesCloseLast
  BY DEF ProcInv, TypeOK, DrainedSoFar, EnginesCloseLast, Drain, Loops
<1> QED BY <1>1, ProcAlways, PTL
=============================================================================
