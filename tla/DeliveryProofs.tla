--------------------------- MODULE DeliveryProofs ---------------------------
(***************************************************************************)
(* Proofs of the safety properties of Delivery, for any environments and   *)
(* deliveries, any batch, schedule and thresholds, and any length of pass. *)
(* That the queue drains is a liveness property, and stays with TLC.       *)
(***************************************************************************)
EXTENDS Delivery, FiniteSetTheorems, TLAPS

\* Where the row the worker is at has not been written yet.
Unwritten == {"deferring", "sending", "logging", "recording"}
\* Where the worker holds an answer it has not recorded.
Holding == {"logging", "recording"}

\* What a pass has not come to, and what it is at, is still pending; between passes
\* the worker is at nothing.
BatchIsPending ==
    /\ \A d \in batch : state[d] = "pending" /\ d # current
    /\ at \in Unwritten => state[current] = "pending"
    /\ at = "idle" => current = NoDelivery

\* A row's counter never runs ahead of its log, over all the schedules it had,
\* and lags behind it by the attempt being recorded.
AttemptsAreLogged ==
    \A d \in Deliveries :
        /\ attempts[d] + Schedules(replays[d]) <= tries[d]
        /\ at = "recording" /\ d = current =>
              attempts[d] + 1 + Schedules(replays[d]) <= tries[d]

\* A 2xx the worker read is in its hands, or in the row.
AnswerWhere ==
    \A d \in Deliveries :
        d \in answered <=> \/ state[d] = "delivered"
                           \/ at \in Holding /\ d = current /\ outcome = "ok"

\* The clock of an open circuit is at most a pass ahead of the last failure.
ClockLag == \A e \in Environments : circuit[e] = "open" => quiet[e] >= since[e] - MaxPass

Sound == TypeOK /\ BatchIsPending /\ AttemptsAreLogged /\ EndsAreEarned /\ AnswerWhere /\ ClockLag

----------------------------------------------------------------------------
\* What the proofs need to know of the constants other than the schedule.
LEMMA Numbers ==
  /\ EnvironmentOf \in [Deliveries -> Environments]
  /\ NoDelivery \notin Deliveries
  /\ MaxAttempts \in Nat \ {0} /\ Threshold \in Nat \ {0}
  /\ ProbeAfter \in Nat /\ MaxPass \in Nat /\ MaxLate \in Nat /\ MaxUpsets \in Nat
  BY DeliveryAssumption

\* A delay is a whole number of ticks, at least one.
LEMMA DelayType ==
  ASSUME NEW n \in Nat \ {0}, NEW t \in Delays(n)
  PROVE  t \in Nat \ {0}
<1>1. AtMost(n, Len(Backoff)) \in 1..Len(Backoff)
  BY DeliveryAssumption DEF AtMost
<1>2. Backoff[AtMost(n, Len(Backoff))] \in Nat
  BY <1>1, DeliveryAssumption
<1> QED
  BY <1>2, DeliveryAssumption DEF Delays

\* A pass selects due rows and nothing else.
LEMMA PassSelectsDue ==
  ASSUME StartPass
  PROVE  batch' \subseteq Due
  BY DEF StartPass, Longest

\* Using up the schedule once more.
LEMMA OneMoreSchedule ==
  /\ Schedules(0) = 0
  /\ \A n \in Nat : Schedules(n) \in Nat /\ Schedules(n + 1) = Schedules(n) + MaxAttempts
  BY DeliveryAssumption DEF Schedules

\* Every reachable state of the queue, its log, the pass and the circuits fits together:
\* the strengthening the theorems below follow from.
THEOREM SoundAlways == Spec => []Sound
<1>1. Init => Sound
  <2> SUFFICES ASSUME Init PROVE Sound
    OBVIOUS
  <2> QED
    BY OneMoreSchedule, Numbers DEF Init, Sound, TypeOK, BatchIsPending, AttemptsAreLogged,
       EndsAreEarned, AnswerWhere, ClockLag, Unwritten, Holding, Busy
<1>2. Sound /\ [Next]_vars => Sound'
  <2> SUFFICES ASSUME Sound, [Next]_vars
               PROVE  Sound'
    OBVIOUS
  <2> USE Numbers, OneMoreSchedule
          DEF Sound, TypeOK, BatchIsPending, AttemptsAreLogged, EndsAreEarned, AnswerWhere,
              ClockLag, Unwritten, Holding, Busy, rows, circuits, worker, history
  <2>1. ASSUME NEW d \in Deliveries, Enqueue(d)
        PROVE  Sound'
    BY <2>1 DEF Enqueue
  <2>2. ASSUME NEW d \in Deliveries, Replay(d)
        PROVE  Sound'
    BY <2>2 DEF Replay, Upset
  <2>3. ASSUME NEW e \in Environments, ChangeTarget(e)
        PROVE  Sound'
    BY <2>3 DEF ChangeTarget, Upset
  <2>4. CASE StartPass
    <3>1. batch' \subseteq Due
      BY <2>4, PassSelectsDue
    <3>2. /\ at' = "choosing" /\ age' = 0
          /\ UNCHANGED <<rows, circuits, current, outcome, history, upsets>>
      BY <2>4 DEF StartPass
    <3>3. at = "idle"
      BY <2>4 DEF StartPass
    <3>4. \A d \in batch' : d \in Deliveries /\ state[d] = "pending"
      BY <3>1 DEF Due
    <3> QED
      BY <3>2, <3>3, <3>4
  <2>5. ASSUME NEW d \in Deliveries, Choose(d)
        PROVE  Sound'
    BY <2>5 DEF Choose
  <2>6. CASE Defer
    BY <2>6 DEF Defer
  <2>7. CASE TargetAnswers
    BY <2>7 DEF TargetAnswers
  <2>8. CASE LogAttempt
    BY <2>8 DEF LogAttempt
  <2>9. CASE RecordDelivered
    BY <2>9 DEF RecordDelivered
  <2>10. CASE RecordRetry
    <3>1. PICK t \in Delays(attempts[current] + 1) : due' = [due EXCEPT ![current] = t - age]
      BY <2>10 DEF RecordRetry
    <3>2. t \in Nat
      <4>1. attempts[current] + 1 \in Nat \ {0}
        BY <2>10 DEF RecordRetry
      <4> QED
        BY <4>1, <3>1, DelayType
    <3> QED
      BY <2>10, <3>1, <3>2 DEF RecordRetry
  <2>11. CASE RecordDead
    BY <2>11 DEF RecordDead
  <2>12. CASE CloseCircuit
    BY <2>12 DEF CloseCircuit, Target
  <2>13. CASE CountFailure
    BY <2>13 DEF CountFailure, Target, AtMost
  <2>14. CASE OpenCircuit
    BY <2>14 DEF OpenCircuit, Target
  <2>15. CASE EndPass
    BY <2>15 DEF EndPass
  <2>16. CASE Interrupted
    BY <2>16 DEF Interrupted, Upset
  <2>17. CASE Tick
    BY <2>17 DEF Tick, AtMost
  <2>18. CASE UNCHANGED vars
    BY <2>18 DEF vars
  <2> QED
    BY <2>1, <2>2, <2>3, <2>4, <2>5, <2>6, <2>7, <2>8, <2>9, <2>10, <2>11, <2>12, <2>13,
       <2>14, <2>15, <2>16, <2>17, <2>18 DEF Next, Work
<1> QED
  BY <1>1, <1>2, PTL DEF Spec

\* In every reachable state a delivered row has had a 2xx, and a dead one the
\* whole schedule for every time it was queued.
THEOREM Earned == Spec => [](TypeOK /\ EndsAreEarned)
<1>1. Sound => TypeOK /\ EndsAreEarned
  BY DEF Sound
<1> QED
  BY <1>1, SoundAlways, PTL

\* The worker begins to send only in one way.
LEMMA SendingFromChoose ==
  ASSUME TypeOK, Next, at' = "sending", at # "sending"
  PROVE  \E d \in Deliveries : Choose(d)
  BY DEF Next, Work, Enqueue, Replay, ChangeTarget, StartPass, Defer, TargetAnswers,
     LogAttempt, RecordDelivered, RecordRetry, RecordDead, CloseCircuit, CountFailure,
     OpenCircuit, EndPass, Interrupted, Tick, TypeOK, Busy, worker, vars

\* No step begins to send a delivery whose 2xx the worker read and kept.
THEOREM NotResent == Spec => AnsweredIsNotResent
<1>1. Sound /\ [Next]_vars =>
        [at' = "sending" /\ at # "sending" => current' \notin answered]_vars
  <2> SUFFICES ASSUME Sound, Next, at' = "sending", at # "sending"
               PROVE  current' \notin answered
    OBVIOUS
  <2>1. PICK d \in Deliveries : Choose(d)
    BY SendingFromChoose DEF Sound
  <2> QED
    BY <2>1 DEF Choose, Sound, TypeOK, BatchIsPending, AnswerWhere, Holding
<1> QED
  BY <1>1, SoundAlways, PTL DEF Spec, AnsweredIsNotResent

\* From a failure an open circuit counted to the next request to its target goes
\* a probe's wait, less the length of a pass.
THEOREM Spaced == Spec => ProbesSpaced
<1>1. Sound /\ [Next]_vars =>
        [at' = "sending" /\ at # "sending" /\ circuit[EnvironmentOf[current']] = "open"
            => quiet[EnvironmentOf[current']] >= ProbeAfter - MaxPass]_vars
  <2> SUFFICES ASSUME Sound, Next, at' = "sending", at # "sending",
                      circuit[EnvironmentOf[current']] = "open"
               PROVE  quiet[EnvironmentOf[current']] >= ProbeAfter - MaxPass
    OBVIOUS
  <2>1. PICK d \in Deliveries : Choose(d)
    BY SendingFromChoose DEF Sound
  <2>2. CircuitAllows(EnvironmentOf[d]) /\ current' = d
    BY <2>1 DEF Choose
  <2> QED
    BY <2>2, Numbers DEF CircuitAllows, Sound, TypeOK, ClockLag
<1> QED
  BY <1>1, SoundAlways, PTL DEF Spec, ProbesSpaced

----------------------------------------------------------------------------
(* A pass and the environments it serves.                                  *)

\* Deliveries are queued one by one, so that there are finitely many to choose from.
Queued == {d \in Deliveries : state[d] # "none"}

LEMMA FinitelyQueued == Spec => []IsFiniteSet(Queued)
<1>1. Init => IsFiniteSet(Queued)
  <2> SUFFICES ASSUME Init PROVE Queued = {}
    BY FS_EmptySet
  <2> QED
    BY DEF Init, Queued
<1>2. Sound /\ IsFiniteSet(Queued) /\ [Next]_vars => IsFiniteSet(Queued)'
  <2> SUFFICES ASSUME Sound, IsFiniteSet(Queued), [Next]_vars
               PROVE  IsFiniteSet(Queued')
    OBVIOUS
  <2>1. ASSUME NEW d \in Deliveries, Enqueue(d)
        PROVE  IsFiniteSet(Queued')
    <3>1. Queued' \subseteq Queued \cup {d}
      BY <2>1 DEF Enqueue, Queued, TypeOK, Sound
    <3>2. IsFiniteSet(Queued \cup {d})
      BY FS_AddElement
    <3> QED
      BY <3>1, <3>2, FS_Subset
  <2>2. ASSUME \A d \in Deliveries : state'[d] # "none" => state[d] # "none"
        PROVE  IsFiniteSet(Queued')
    <3>1. Queued' \subseteq Queued
      BY <2>2 DEF Queued
    <3> QED
      BY <3>1, FS_Subset
  <2>3. CASE UNCHANGED state
    BY <2>2, <2>3
  <2>4. ASSUME NEW d \in Deliveries, Replay(d)
        PROVE  IsFiniteSet(Queued')
    BY <2>2, <2>4 DEF Replay, TypeOK, Sound
  <2>5. CASE RecordDelivered \/ RecordDead
    <3>1. state[current] = "pending"
      BY <2>5 DEF RecordDelivered, RecordDead, Sound, BatchIsPending, Unwritten
    <3> QED
      BY <2>2, <2>5, <3>1 DEF RecordDelivered, RecordDead, TypeOK, Sound
  <2> QED
    BY <2>1, <2>3, <2>4, <2>5
    DEF Next, Work, vars, rows, ChangeTarget, StartPass, Choose, Defer, TargetAnswers, LogAttempt,
        RecordRetry, CloseCircuit, CountFailure, OpenCircuit, EndPass, Interrupted, Tick
<1> QED
  BY <1>1, <1>2, SoundAlways, PTL DEF Spec

\* Among finitely many rows, n of them are as many as there are, when n is enough: then the
\* selection leaves none out.
LEMMA LongestIsAll ==
  ASSUME NEW S, IsFiniteSet(S), NEW n \in Nat, NEW T \in Longest(S, n), Cardinality(S) <= n
  PROVE  T = S
<1>1. Cardinality(S) \in Nat
  BY FS_CardinalityType
<1>2. T \subseteq S /\ Cardinality(T) = Cardinality(S)
  BY <1>1 DEF Longest, AtMost
<1> QED
  BY <1>2, FS_Subset

\* A selection of at least one takes some of what there is, and one that did not fill its
\* bound has taken everything.
LEMMA LongestTakes ==
  ASSUME NEW S, IsFiniteSet(S), NEW n \in Nat, NEW T \in Longest(S, n)
  PROVE  /\ T \subseteq S /\ IsFiniteSet(T)
         /\ n > 0 /\ S # {} => T # {}
         /\ Cardinality(T) < n => T = S
<1>1. Cardinality(S) \in Nat
  BY FS_CardinalityType
<1>2. T \subseteq S /\ Cardinality(T) = AtMost(Cardinality(S), n)
  BY DEF Longest
<1>3. IsFiniteSet(T)
  BY <1>2, FS_Subset
<1>4. ASSUME n > 0, S # {} PROVE T # {}
  <2>1. Cardinality(S) # 0 /\ Cardinality({}) = 0
    BY <1>4, FS_EmptySet
  <2>2. Cardinality(T) # 0
    BY <1>1, <1>2, <1>4, <2>1 DEF AtMost
  <2> QED
    BY <2>1, <2>2
<1>5. ASSUME Cardinality(T) < n PROVE T = S
  <2>1. Cardinality(S) <= n
    BY <1>1, <1>2, <1>5 DEF AtMost
  <2> QED
    BY <2>1, LongestIsAll
<1> QED
  BY <1>2, <1>3, <1>4, <1>5

\* A pass that selected the whole queue leaves no environment with due rows out while its
\* batch has room: the cap takes at least one row of each, and a batch that is not full is
\* everything the caps took (worker.ts, runOnce).
THEOREM Share == Spec => SmallBacklogsShare
<1>1. Sound /\ IsFiniteSet(Queued) /\ [Next]_vars =>
        [at = "idle" /\ at' = "choosing" /\ Cardinality(Due) <= 4 * Batch => LeftOut = {}]_vars
  <2> SUFFICES ASSUME Sound, IsFiniteSet(Queued), Next, at = "idle", at' = "choosing",
                      Cardinality(Due) <= 4 * Batch
               PROVE  LeftOut = {}
    OBVIOUS
  <2>1. StartPass
    BY DEF Next, Work, Enqueue, Replay, ChangeTarget, Choose, Defer, TargetAnswers,
       LogAttempt, RecordDelivered, RecordRetry, RecordDead, CloseCircuit, CountFailure,
       OpenCircuit, EndPass, Interrupted, Tick, Busy, worker
  <2>2. PICK claimed \in Longest(Due, 4 * Batch) :
          \E capped \in SUBSET claimed :
            /\ \A e \in Environments :
                 capped \intersect Of(e) \in Longest(claimed \intersect Of(e), PerEnvironment)
            /\ batch' \in Longest(capped, Batch)
    BY <2>1 DEF StartPass
  <2>3. Batch \in Nat \ {0} /\ PerEnvironment \in Nat \ {0} /\ 4 * Batch \in Nat
    BY DeliveryAssumption
  <2>4. IsFiniteSet(Due)
    <3>1. Due \subseteq Queued
      BY DEF Due, Queued
    <3> QED
      BY <3>1, FS_Subset
  <2>5. claimed = Due
    BY <2>2, <2>3, <2>4, LongestIsAll
  <2>6. PICK capped \in SUBSET claimed :
          /\ \A e \in Environments :
                capped \intersect Of(e) \in Longest(claimed \intersect Of(e), PerEnvironment)
          /\ batch' \in Longest(capped, Batch)
    BY <2>2
  <2>7. IsFiniteSet(capped)
    BY <2>4, <2>5, <2>6, FS_Subset
  <2> SUFFICES ASSUME NEW e \in Environments, Due \intersect Of(e) # {},
                      batch' \intersect Of(e) = {}, Cardinality(batch') < Batch
               PROVE  FALSE
    BY DEF LeftOut
  <2>8. capped \intersect Of(e) # {}
    <3>1. IsFiniteSet(Due \intersect Of(e))
      BY <2>4, FS_Subset
    <3>2. capped \intersect Of(e) \in Longest(Due \intersect Of(e), PerEnvironment)
      BY <2>5, <2>6
    <3> QED
      BY <2>3, <3>1, <3>2, LongestTakes
  <2>9. batch' = capped
    BY <2>3, <2>6, <2>7, LongestTakes
  <2> QED
    BY <2>8, <2>9
<1> QED
  BY <1>1, SoundAlways, FinitelyQueued, PTL DEF Spec, SmallBacklogsShare
=============================================================================
