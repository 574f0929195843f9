--------------------------- MODULE InboundProofs ---------------------------
(***************************************************************************)
(* Proofs about a message that comes in.  About the conversation history,  *)
(* for any environments, messages, resends, retirements, changes of        *)
(* bindings and faults: the badge is exact, every tenant of the phone      *)
(* records the message, and what was erased stays erased.  About the rules *)
(* it runs, for any definitions and any analysis of patterns: the plan is  *)
(* what the rules say.                                                     *)
(***************************************************************************)
EXTENDS Inbound, Rules, FiniteSetTheorems, SequenceTheorems, TLAPS

InStream(m) == m \in {stream[i] : i \in DOMAIN stream}

\* What a thread remembers: its rows and what was seen are among what was filed.
Remembered ==
    \A e \in Envs : /\ rows[e] \subseteq filed[e] /\ seen[e] \subseteq filed[e]
                    /\ IsFiniteSet(filed[e])

\* A message that was swept is in nobody's hands and does not come again.
SweptIsPast ==
    \A e \in Envs : \A m \in filed[e] \ rows[e] :
        /\ m \in came /\ resends = MaxResends
        /\ ~InStream(m)
        /\ consumer = Idle \/ consumer.message # m

\* The bindings that stood all along stand now.
SteadyStands == consumer # Idle => consumer.steady \subseteq active

\* In the middle of the loop, those it has come to have the message.
RecordedSoFar ==
    consumer # Idle /\ consumer.pc = "record" =>
        \A e \in (consumer.steady \ consumer.failed) \ consumer.todo :
            consumer.message \in filed[e]

\* Who is bound is not among those whose history is erased.
ErasedUnbound == erased \cap active = {}

InboundInv ==
    /\ TypeOK /\ Remembered /\ SweptIsPast /\ SteadyStands /\ RecordedSoFar
    /\ ErasedUnbound /\ UnreadIsExact /\ EachBindingRecords /\ ForgottenIsGone

Handed == [pc : Steps, message : Messages, todo : SUBSET Envs,
           steady : SUBSET Envs, failed : SUBSET Envs]

\* What a retirement does, for the history.
Retirement(d) == Reserve(d) \/ RetireFails(d) \/ EraseMessages(d) \/ EraseThreads(d) \/ Retired(d)

(* What taking an event makes of the stream.                               *)
LEMMA TakingLeaves ==
    ASSUME stream \in Seq(Messages), stream # <<>>
    PROVE  /\ Head(stream) \in Messages /\ Tail(stream) \in Seq(Messages)
           /\ InStream(Head(stream))
           /\ \A i \in DOMAIN Tail(stream) : InStream(Tail(stream)[i])
<1>1. Head(stream) \in Messages /\ Tail(stream) \in Seq(Messages)
  BY HeadTailProperties
<1>2. /\ Len(stream) \in Nat /\ Len(stream) >= 1 /\ DOMAIN stream = 1..Len(stream)
      /\ Head(stream) = stream[1]
  BY EmptySeq, LenProperties, HeadTailProperties
<1>3. 1 \in DOMAIN stream
  BY <1>2
<1>4. DOMAIN Tail(stream) = 1..(Len(stream) - 1)
  BY <1>1, HeadTailProperties, LenProperties
<1>5. ASSUME NEW i \in DOMAIN Tail(stream)
      PROVE  InStream(Tail(stream)[i])
  <2>1. i + 1 \in DOMAIN stream
    BY <1>2, <1>4
  <2>2. Tail(stream)[i] = stream[i + 1]
    BY <1>2, <1>4, HeadTailProperties
  <2> QED BY <2>1, <2>2 DEF InStream
<1> QED BY <1>1, <1>2, <1>3, <1>5 DEF InStream

LEMMA ArrivingAdds ==
    ASSUME stream \in Seq(Messages), NEW m \in Messages
    PROVE  /\ Append(stream, m) \in Seq(Messages)
           /\ \A i \in DOMAIN Append(stream, m) :
                  InStream(Append(stream, m)[i]) \/ Append(stream, m)[i] = m
<1>1. /\ Append(stream, m) \in Seq(Messages)
      /\ Len(stream) \in Nat /\ DOMAIN stream = 1..Len(stream)
      /\ DOMAIN Append(stream, m) = 1..(Len(stream) + 1)
      /\ \A i \in 1..Len(stream) : Append(stream, m)[i] = stream[i]
      /\ Append(stream, m)[Len(stream) + 1] = m
  BY AppendProperties, LenProperties
<1> QED BY <1>1 DEF InStream

(* What the steps of the consumer make of the event they handle.           *)
LEMMA Updating ==
    ASSUME NEW c \in Handed
    PROVE  /\ c # Idle
           /\ \A p \in Steps : [c EXCEPT !.pc = p] \in Handed
           /\ \A p \in Steps : \A t \in SUBSET Envs : [c EXCEPT !.pc = p, !.todo = t] \in Handed
           /\ \A p \in Steps : [c EXCEPT !.pc = p, !.failed = Envs] \in Handed
           /\ \A e \in Envs : [c EXCEPT !.todo = @ \ {e}] \in Handed
           /\ \A e \in Envs : [c EXCEPT !.todo = @ \ {e}, !.failed = @ \cup {e}] \in Handed
           /\ \A g \in SUBSET Envs : [c EXCEPT !.steady = @ \ g] \in Handed
<1>1. c # Idle
  <2>1. c.pc \in Steps
    BY DEF Handed
  <2>2. Idle.pc = "idle" /\ "idle" \notin Steps
    BY DEF Idle, Steps
  <2> QED BY <2>1, <2>2
<1>2. \A p \in Steps : [c EXCEPT !.pc = p] \in Handed
  BY DEF Handed
<1>3. \A p \in Steps : \A t \in SUBSET Envs : [c EXCEPT !.pc = p, !.todo = t] \in Handed
  BY DEF Handed
<1>4. \A p \in Steps : [c EXCEPT !.pc = p, !.failed = Envs] \in Handed
  BY DEF Handed
<1>5. \A e \in Envs : [c EXCEPT !.todo = @ \ {e}] \in Handed
  BY DEF Handed
<1>6. \A e \in Envs : [c EXCEPT !.todo = @ \ {e}, !.failed = @ \cup {e}] \in Handed
  BY DEF Handed
<1>7. \A g \in SUBSET Envs : [c EXCEPT !.steady = @ \ g] \in Handed
  BY DEF Handed
<1> QED BY <1>1, <1>2, <1>3, <1>4, <1>5, <1>6, <1>7

LEMMA ConsumerStep ==
    ASSUME TypeOK, Next
    PROVE  consumer' = Idle \/ consumer' \in Handed
<1>1. consumer = Idle \/ consumer \in Handed
  BY DEF TypeOK, Handed
<1>2. "record" \in Steps /\ "rules" \in Steps /\ "fanOut" \in Steps /\ "enqueue" \in Steps
      /\ "lookup" \in Steps /\ active \in SUBSET Envs
  BY DEF Steps, TypeOK
<1>3. CASE UNCHANGED consumer \/ consumer' = Idle
  BY <1>1, <1>3
<1>4. CASE Take
  <2>1. Head(stream) \in Messages
    BY <1>4, TakingLeaves DEF Take, TypeOK
  <2> QED BY <1>4, <1>2, <2>1 DEF Take, Handed
<1>5. CASE Lookup
  <2>1. consumer \in Handed
    BY <1>5, <1>1 DEF Lookup, Handling
  <2>2. [consumer EXCEPT !.pc = "record", !.todo = active] \in Handed
    BY <2>1, <1>2, Updating
  <2>3. [consumer EXCEPT !.pc = "rules", !.failed = Envs] \in Handed
    BY <2>1, <1>2, Updating
  <2> QED BY <1>5, <2>2, <2>3 DEF Lookup
<1>6. ASSUME NEW e \in Envs, RecordOne(e) PROVE consumer' = Idle \/ consumer' \in Handed
  BY <1>6, <1>1, <1>2, Updating DEF RecordOne, Handling, Remains
<1>7. CASE Recorded \/ RunRules
  <2>1. consumer \in Handed
    BY <1>7, <1>1 DEF Recorded, RunRules, Handling
  <2>2. [consumer EXCEPT !.pc = "rules"] \in Handed /\ [consumer EXCEPT !.pc = "fanOut"] \in Handed
    BY <2>1, <1>2, Updating
  <2> QED BY <1>7, <2>2 DEF Recorded, RunRules
<1>8. CASE FanOut
  <2>1. consumer \in Handed
    BY <1>8, <1>1 DEF FanOut, Handling
  <2>2. [consumer EXCEPT !.pc = "enqueue", !.todo = active] \in Handed
    BY <2>1, <1>2, Updating
  <2> QED BY <1>8, <2>2 DEF FanOut
<1>9. ASSUME NEW e \in Envs, EnqueueOne(e) PROVE consumer' = Idle \/ consumer' \in Handed
  BY <1>9, <1>1, <1>2, Updating DEF EnqueueOne, Handling
<1>10. ASSUME NEW g \in SUBSET Envs, Unsteady(g) PROVE consumer' = Idle \/ consumer' \in Handed
  BY <1>10, <1>1, Updating DEF Unsteady
<1>11. ASSUME NEW e \in Envs, MarkRead(e) \/ FindThread(e) \/ RecordReply(e) \/ Begin(e)
       PROVE  UNCHANGED consumer
  BY <1>11 DEF MarkRead, FindThread, RecordReply, Begin
<1>12. ASSUME NEW m \in Messages, Arrive(m) \/ SweepOlderThan(m) PROVE UNCHANGED consumer
  BY <1>12 DEF Arrive, SweepOlderThan
<1>13. CASE Handled \/ Restart
  BY <1>13, <1>3 DEF Handled, Restart
<1>14. ASSUME NEW e \in Envs, End(e) PROVE consumer' = Idle \/ consumer' \in Handed
  BY <1>10, <1>14 DEF End
<1>15. ASSUME NEW d \in Retirers, Retirement(d) PROVE consumer' = Idle \/ consumer' \in Handed
  BY <1>2, <1>3, <1>10, <1>15 DEF Retirement, Reserve, RetireFails, EraseMessages, EraseThreads, Retired
<1> QED
  BY <1>3, <1>4, <1>5, <1>6, <1>7, <1>8, <1>9, <1>11, <1>12, <1>13, <1>14, <1>15
  DEF Next, Consume, Retirement

-----------------------------------------------------------------------------
(* Every variable keeps its type, whatever the process does next.          *)
LEMMA TypeInit == Init => TypeOK
<1> SUFFICES ASSUME Init PROVE TypeOK
  OBVIOUS
<1>1. stream \in Seq(Messages)
  BY EmptySeq DEF Init
<1>2. thread \in [Envs -> [held : BOOLEAN, unread : Nat]]
  BY DEF Init, NoThread
<1>3. /\ rows \in [Envs -> SUBSET Messages] /\ filed \in [Envs -> SUBSET Messages]
      /\ seen \in [Envs -> SUBSET Messages]
      /\ reply \in [Envs -> {"none", "found", "pending"}]
  BY DEF Init
<1>4. changes \in 0..MaxChanges /\ resends \in 0..MaxResends /\ faults \in 0..MaxFaults
  BY InboundAssumption DEF Init
<1>5. /\ active \subseteq Envs /\ erased \subseteq Envs /\ came \subseteq Messages /\ consumer = Idle
      /\ reserved \in BOOLEAN /\ retirer \in [Retirers -> Stages] /\ carried \in [Envs -> Nat]
  BY DEF Init, Stages
<1> QED BY <1>1, <1>2, <1>3, <1>4, <1>5 DEF TypeOK

LEMMA TypeStep == TypeOK /\ [Next]_vars => TypeOK'
<1> SUFFICES ASSUME TypeOK, Next PROVE TypeOK'
  BY DEF TypeOK, vars
<1> USE DEF Unmoved, history, others, arriving, Fault, NoFault
<1>1. stream' \in Seq(Messages)
  <2>1. ASSUME NEW m \in Messages, Arrive(m) PROVE stream' \in Seq(Messages)
    BY <2>1, ArrivingAdds DEF Arrive, TypeOK
  <2>2. CASE Take
    BY <2>2, TakingLeaves DEF Take, TypeOK
  <2>3. CASE Restart
    BY <2>3, EmptySeq DEF Restart
  <2>4. CASE UNCHANGED stream
    BY <2>4 DEF TypeOK
  <2> QED
    BY <2>1, <2>2, <2>3, <2>4 DEF Next, Consume, Lookup, Recorded, RunRules, FanOut, Handled,
       RecordOne, EnqueueOne, SweepOlderThan, MarkRead, FindThread, RecordReply, Begin, End, Reserve,
       RetireFails, EraseMessages, EraseThreads, Retired
<1>2. consumer' = Idle \/ consumer' \in Handed
  BY ConsumerStep
<1>3. /\ rows' \in [Envs -> SUBSET Messages] /\ filed' \in [Envs -> SUBSET Messages]
      /\ seen' \in [Envs -> SUBSET Messages]
  <2> /\ rows \in [Envs -> SUBSET Messages] /\ filed \in [Envs -> SUBSET Messages]
      /\ seen \in [Envs -> SUBSET Messages]
    BY DEF TypeOK
  <2>1. ASSUME NEW e \in Envs, RecordOne(e) PROVE <1>3!:
    <3>1. consumer.message \in Messages
      BY <2>1 DEF RecordOne, Handling, TypeOK
    <3> QED BY <2>1, <3>1 DEF RecordOne, Record
  <2>2. ASSUME NEW e \in Envs, MarkRead(e) PROVE <1>3!:
    BY <2>2 DEF MarkRead
  <2>3. ASSUME NEW m \in Messages, SweepOlderThan(m) PROVE <1>3!:
    BY <2>3 DEF SweepOlderThan
  <2>4. ASSUME NEW d \in Retirers, EraseMessages(d) \/ EraseThreads(d) PROVE <1>3!:
    BY <2>4 DEF EraseMessages, EraseThreads
  <2>5. CASE UNCHANGED <<rows, filed, seen>>
    BY <2>5
  <2> QED
    BY <2>1, <2>2, <2>3, <2>4, <2>5 DEF Next, Consume, Take, Lookup, Recorded, RunRules, FanOut,
       Handled, EnqueueOne, Arrive, FindThread, RecordReply, Begin, End, Restart, Reserve, RetireFails,
       Retired
<1>4. thread' \in [Envs -> [held : BOOLEAN, unread : Nat]]
  <2> thread \in [Envs -> [held : BOOLEAN, unread : Nat]]
    BY DEF TypeOK
  <2>1. ASSUME NEW e \in Envs, RecordOne(e) PROVE <1>4!:
    <3>1. Unread(e, consumer.message) \in Nat
      BY DEF Unread
    <3>2. \/ thread' = thread
          \/ thread' = [thread EXCEPT ![e] = [held |-> TRUE, unread |-> Unread(e, consumer.message)]]
      BY <2>1 DEF RecordOne, Record
    <3>3. [held |-> TRUE, unread |-> Unread(e, consumer.message)] \in [held : BOOLEAN, unread : Nat]
      BY <3>1
    <3> QED BY <3>2, <3>3
  <2>2. ASSUME NEW e \in Envs, MarkRead(e) PROVE <1>4!:
    BY <2>2 DEF MarkRead
  <2>3. ASSUME NEW e \in Envs, RecordReply(e) PROVE <1>4!:
    BY <2>3 DEF RecordReply, Files
  <2>4. ASSUME NEW d \in Retirers, EraseThreads(d) PROVE <1>4!:
    BY <2>4 DEF EraseThreads, NoThread
  <2>5. CASE UNCHANGED thread
    BY <2>5
  <2> QED
    BY <2>1, <2>2, <2>3, <2>4, <2>5 DEF Next, Consume, Take, Lookup, Recorded, RunRules, FanOut,
       Handled, EnqueueOne, Arrive, FindThread, Begin, End, Restart, SweepOlderThan, Reserve,
       RetireFails, EraseMessages, Retired
<1>5. reply' \in [Envs -> {"none", "found", "pending"}]
  <2> reply \in [Envs -> {"none", "found", "pending"}]
    BY DEF TypeOK
  <2>1. ASSUME NEW e \in Envs, FindThread(e) \/ RecordReply(e) PROVE <1>5!:
    BY <2>1 DEF FindThread, RecordReply
  <2>2. CASE RepliesGone \/ Restart
    BY <2>2 DEF RepliesGone, Restart
  <2>3. CASE UNCHANGED reply
    BY <2>3
  <2> QED
    BY <2>1, <2>2, <2>3 DEF Next, Consume, Take, Lookup, Recorded, RunRules, FanOut,
       Handled, RecordOne, EnqueueOne, Arrive, Begin, End, SweepOlderThan, MarkRead, Reserve,
       RetireFails, EraseMessages, EraseThreads, Retired
<1>6. carried' \in [Envs -> Nat]
  <2> carried \in [Envs -> Nat] /\ thread \in [Envs -> [held : BOOLEAN, unread : Nat]]
    BY DEF TypeOK
  <2>1. ASSUME NEW e \in Envs, MarkRead(e) PROVE <1>6!:
    BY <2>1 DEF MarkRead
  <2>2. ASSUME NEW d \in Retirers, EraseMessages(d) \/ EraseThreads(d) PROVE <1>6!:
    BY <2>2 DEF EraseMessages, EraseThreads
  <2>3. CASE UNCHANGED carried
    BY <2>3
  <2> QED
    BY <2>1, <2>2, <2>3 DEF Next, Consume, Take, Lookup, Recorded, RunRules, FanOut, Handled,
       RecordOne, EnqueueOne, Arrive, FindThread, RecordReply, Begin, End, SweepOlderThan, Restart,
       Reserve, RetireFails, Retired
<1>7. active' \subseteq Envs /\ erased' \subseteq Envs /\ reserved' \in BOOLEAN
  BY DEF TypeOK, Next, Consume, Take, Lookup, Recorded, RunRules, FanOut, Handled, RecordOne, EnqueueOne,
       Arrive, Begin, End, SweepOlderThan, MarkRead, FindThread, RecordReply, Restart, Reserve,
       RetireFails, EraseMessages, EraseThreads, Retired
<1>8. retirer' \in [Retirers -> Stages]
  <2> retirer \in [Retirers -> Stages]
    BY DEF TypeOK
  <2>1. ASSUME NEW d \in Retirers, Retirement(d) PROVE <1>8!:
    <3>1. \/ UNCHANGED retirer
          \/ \E at, to \in Stages : RetirerAt(d, at, to)
      BY <2>1 DEF Retirement, Reserve, RetireFails, EraseMessages, EraseThreads, Retired, Stages
    <3> QED BY <3>1 DEF RetirerAt
  <2>2. CASE Restart
    BY <2>2 DEF Restart, Stages
  <2>3. CASE UNCHANGED retirer
    BY <2>3
  <2> QED
    BY <2>1, <2>2, <2>3 DEF Retirement, Next, Consume, Take, Lookup, Recorded, RunRules, FanOut, Handled,
       RecordOne, EnqueueOne, Arrive, Begin, End, SweepOlderThan, MarkRead, FindThread, RecordReply
<1>9. came' \subseteq Messages
  BY DEF TypeOK, Next, Consume, Take, Lookup, Recorded, RunRules, FanOut, Handled, RecordOne, EnqueueOne,
       Arrive, Begin, End, SweepOlderThan, MarkRead, FindThread, RecordReply, Restart, Reserve,
       RetireFails, EraseMessages, EraseThreads, Retired
<1>10. /\ resends' = resends \/ (resends < MaxResends /\ resends' = resends + 1)
       /\ faults' = faults \/ (faults < MaxFaults /\ faults' = faults + 1)
       /\ changes' = changes \/ (changes < MaxChanges /\ changes' = changes + 1)
  BY DEF Next, Consume, Take, Lookup, Recorded, RunRules, FanOut, Handled, RecordOne, EnqueueOne,
       Arrive, Begin, End, SweepOlderThan, MarkRead, FindThread, RecordReply, Restart, Reserve,
       RetireFails, EraseMessages, EraseThreads, Retired
<1>11. changes' \in 0..MaxChanges /\ resends' \in 0..MaxResends /\ faults' \in 0..MaxFaults
  BY <1>10, InboundAssumption DEF TypeOK
<1> QED BY <1>1, <1>2, <1>3, <1>4, <1>5, <1>6, <1>7, <1>8, <1>9, <1>11 DEF TypeOK, Handed

-----------------------------------------------------------------------------
(* The parts of the invariant, one lemma each.                             *)
LEMMA ErasedStep == ASSUME Next, ErasedUnbound PROVE ErasedUnbound'
  BY DEF ErasedUnbound, Unmoved, history, others, arriving, Next, Consume, Take, Lookup, Recorded,
     RunRules, FanOut, Handled, RecordOne, EnqueueOne, Arrive, Begin, End, SweepOlderThan, MarkRead,
     FindThread, RecordReply, Restart, Reserve, RetireFails, EraseMessages, EraseThreads, Retired

LEMMA SteadyStep == ASSUME TypeOK, Next, SteadyStands PROVE SteadyStands'
<1> USE DEF SteadyStands, Unmoved, others
<1>1. ASSUME consumer # Idle PROVE consumer \in Handed
  BY <1>1 DEF TypeOK, Handed
<1>2. CASE Take
  BY <1>2 DEF Take
<1>3. CASE Lookup
  BY <1>3, <1>1 DEF Lookup, Handling, Handed
<1>4. CASE Recorded \/ RunRules \/ FanOut
  BY <1>4, <1>1 DEF Recorded, RunRules, FanOut, Handling, Handed
<1>5. ASSUME NEW e \in Envs, RecordOne(e) \/ EnqueueOne(e) PROVE SteadyStands'
  BY <1>5, <1>1 DEF RecordOne, EnqueueOne, Handling, Handed
<1>6. ASSUME NEW e \in Envs, End(e) PROVE SteadyStands'
  BY <1>6, <1>1 DEF End, Unsteady, Handed
<1>7. ASSUME NEW e \in Envs, Begin(e) PROVE SteadyStands'
  BY <1>7 DEF Begin
<1>8. CASE Handled \/ Restart
  BY <1>8 DEF Handled, Restart
<1>9. CASE UNCHANGED <<consumer, active>>
  BY <1>9
<1>10. ASSUME NEW d \in Retirers, Reserve(d) PROVE SteadyStands'
  BY <1>10, <1>1 DEF Reserve, Unsteady, Handed
<1>11. ASSUME NEW d \in Retirers, EraseMessages(d) \/ EraseThreads(d) PROVE SteadyStands'
  BY <1>11, <1>1 DEF EraseMessages, EraseThreads, Unsteady, Handed
<1> QED
  BY <1>2, <1>3, <1>4, <1>5, <1>6, <1>7, <1>8, <1>9, <1>10, <1>11 DEF Next, Consume, Arrive,
     SweepOlderThan, MarkRead, FindThread, RecordReply, RetireFails, Retired

LEMMA RememberedStep ==
    ASSUME TypeOK, Next, Remembered PROVE Remembered'
<1> USE DEF Unmoved, history
<1>0. /\ rows \in [Envs -> SUBSET Messages] /\ filed \in [Envs -> SUBSET Messages]
      /\ seen \in [Envs -> SUBSET Messages]
  BY DEF TypeOK
<1>1. ASSUME NEW e \in Envs, RecordOne(e), NEW d \in Envs
      PROVE  rows'[d] \subseteq filed'[d] /\ seen'[d] \subseteq filed'[d] /\ IsFiniteSet(filed'[d])
  <2>1. IsFiniteSet(filed[d]) /\ IsFiniteSet(filed[d] \cup {consumer.message})
    BY FS_AddElement DEF Remembered
  <2>2. seen' = seen
    BY <1>1 DEF RecordOne
  <2>3. \/ rows' = rows /\ filed' = filed
        \/ /\ rows' = [rows EXCEPT ![e] = @ \cup {consumer.message}]
           /\ filed' = [filed EXCEPT ![e] = @ \cup {consumer.message}]
    BY <1>1 DEF RecordOne, Record
  <2>4. \/ rows'[d] = rows[d] /\ filed'[d] = filed[d]
        \/ /\ rows'[d] = rows[d] \cup {consumer.message}
           /\ filed'[d] = filed[d] \cup {consumer.message}
    BY <1>0, <2>3
  <2> QED BY <2>1, <2>2, <2>4 DEF Remembered
<1>2. ASSUME NEW e \in Envs, MarkRead(e) PROVE Remembered'
  BY <1>0, <1>2 DEF MarkRead, Remembered
<1>3. ASSUME NEW m \in Messages, SweepOlderThan(m) PROVE Remembered'
  BY <1>0, <1>3 DEF SweepOlderThan, Remembered
<1>4. ASSUME NEW d \in Retirers, EraseMessages(d) \/ EraseThreads(d) PROVE Remembered'
  BY <1>4, FS_EmptySet DEF EraseMessages, EraseThreads, Remembered
<1>5. CASE UNCHANGED <<rows, filed, seen>>
  BY <1>5 DEF Remembered
<1>6. ASSUME NEW e \in Envs, RecordOne(e) PROVE Remembered'
  BY <1>1, <1>6 DEF Remembered
<1> QED
  BY <1>2, <1>3, <1>4, <1>5, <1>6 DEF Next, Consume, Take, Lookup, Recorded, RunRules, FanOut,
     Handled, EnqueueOne, Arrive, FindThread, RecordReply, Begin, End, Restart, Reserve, RetireFails,
     Retired

LEMMA ForgottenStep ==
    ASSUME TypeOK, Next, ErasedUnbound, ForgottenIsGone PROVE ForgottenIsGone'
<1> USE DEF Unmoved, history, others, ForgottenIsGone
<1>0. /\ rows \in [Envs -> SUBSET Messages] /\ thread \in [Envs -> [held : BOOLEAN, unread : Nat]]
      /\ reply \in [Envs -> {"none", "found", "pending"}] /\ erased \subseteq Envs
  BY DEF TypeOK
<1>1. ASSUME NEW e \in Envs, RecordOne(e) PROVE ForgottenIsGone'
  <2>1. e \in erased => ~Files(e)
    BY DEF ErasedUnbound, Files
  <2>2. UNCHANGED <<erased, reply>>
    BY <1>1 DEF RecordOne
  <2>3. \A d \in Envs : d # e \/ ~Files(e) => rows'[d] = rows[d] /\ thread'[d] = thread[d]
    BY <1>0, <1>1 DEF RecordOne, Record
  <2> QED BY <1>0, <2>1, <2>2, <2>3
<1>2. ASSUME NEW e \in Envs, RecordReply(e) PROVE ForgottenIsGone'
  <2>1. e \in erased => ~Files(e)
    BY DEF ErasedUnbound, Files
  <2> QED BY <1>0, <1>2, <2>1 DEF RecordReply
<1>3. ASSUME NEW e \in Envs, MarkRead(e) \/ FindThread(e) PROVE ForgottenIsGone'
  BY <1>0, <1>3 DEF MarkRead, FindThread
<1>4. ASSUME NEW m \in Messages, SweepOlderThan(m) PROVE ForgottenIsGone'
  BY <1>0, <1>4 DEF SweepOlderThan
<1>5. ASSUME NEW d \in Retirers, EraseMessages(d) \/ EraseThreads(d) PROVE ForgottenIsGone'
  BY <1>0, <1>5 DEF EraseMessages, EraseThreads, RepliesGone, NoThread
<1>6. CASE Restart
  BY <1>0, <1>6 DEF Restart
<1>7. CASE UNCHANGED <<rows, thread, reply>> /\ erased' \subseteq erased
  BY <1>7
<1> QED
  BY <1>1, <1>2, <1>3, <1>4, <1>5, <1>6, <1>7 DEF Next, Consume, Take, Lookup, Recorded, RunRules,
     FanOut, Handled, EnqueueOne, Arrive, Begin, End, Reserve, RetireFails, Retired

LEMMA SweptStep ==
    ASSUME TypeOK, Next, SweptIsPast PROVE SweptIsPast'
<1> USE DEF Unmoved, history, arriving
<1>0. /\ rows \in [Envs -> SUBSET Messages] /\ filed \in [Envs -> SUBSET Messages]
      /\ resends \in 0..MaxResends /\ MaxResends \in Nat
      /\ consumer = Idle \/ consumer \in Handed
  BY InboundAssumption DEF TypeOK, Handed
<1> DEFINE Past(m) == /\ m \in came /\ resends = MaxResends
                      /\ ~InStream(m)
                      /\ consumer = Idle \/ consumer.message # m
<1>1. ASSUME NEW m \in Messages, Arrive(m), NEW w, Past(w) PROVE Past(w)'
  <2>1. w # m /\ came' = came \cup {m} /\ resends' = resends /\ consumer' = consumer
    BY <1>0, <1>1 DEF Arrive
  <2>2. ~InStream(w)'
    BY <1>1, <2>1, ArrivingAdds DEF Arrive, InStream, TypeOK
  <2> QED BY <1>1, <2>1, <2>2
<1>2. ASSUME Take, NEW w, Past(w) PROVE Past(w)'
  <2>1. /\ InStream(Head(stream)) /\ \A i \in DOMAIN Tail(stream) : InStream(Tail(stream)[i])
    BY <1>2, TakingLeaves DEF Take, TypeOK
  <2>2. ~InStream(w)'
    BY <1>2, <2>1 DEF Take, InStream
  <2>3. consumer'.message = Head(stream)
    BY <1>2 DEF Take
  <2>4. Head(stream) # w
    BY <1>2, <2>1
  <2> QED BY <1>2, <2>2, <2>3, <2>4 DEF Take
<1> DEFINE Onward == /\ UNCHANGED <<came, resends, stream>>
                     /\ consumer # Idle
                     /\ consumer' = Idle \/ consumer'.message = consumer.message
<1>3. ASSUME Consume, ~Take PROVE Onward
  <2>1. CASE Lookup
    BY <1>0, <2>1 DEF Lookup, Handling, Handed
  <2>2. CASE Recorded \/ RunRules \/ FanOut \/ Handled
    BY <1>0, <2>2 DEF Recorded, RunRules, FanOut, Handled, Handling, Handed
  <2>3. ASSUME NEW e \in Envs, RecordOne(e) \/ EnqueueOne(e) PROVE Onward
    BY <1>0, <2>3 DEF RecordOne, EnqueueOne, Handling, Handed
  <2> QED BY <1>3, <2>1, <2>2, <2>3 DEF Consume
<1>4. ASSUME Consume, ~Take, NEW w, Past(w) PROVE Past(w)'
  BY <1>3, <1>4 DEF InStream
<1>5. ASSUME NEW w, Past(w), Restart PROVE Past(w)'
  BY <1>5, EmptySeq DEF Restart, InStream
<1>6. ASSUME NEW w, Past(w), NEW g \in SUBSET Envs, Unsteady(g),
             UNCHANGED <<came, resends, stream>>
      PROVE  Past(w)'
  BY <1>0, <1>6 DEF Unsteady, InStream, Handed
<1>7. ASSUME NEW w, Past(w), UNCHANGED <<came, resends, stream, consumer>> PROVE Past(w)'
  BY <1>7 DEF InStream
<1>8. ASSUME NEW w, Past(w) PROVE Past(w)'
  <2>1. ASSUME NEW e \in Envs, End(e) PROVE Past(w)'
    BY <1>6, <1>8, <2>1 DEF End
  <2>2. ASSUME NEW d \in Retirers, Reserve(d) \/ EraseMessages(d) \/ EraseThreads(d)
        PROVE  Past(w)'
    <3>1. active \in SUBSET Envs /\ Envs \in SUBSET Envs
      BY DEF TypeOK
    <3> QED BY <1>6, <1>8, <2>2, <3>1 DEF Reserve, EraseMessages, EraseThreads
  <2> QED
    BY <1>1, <1>2, <1>4, <1>5, <1>7, <1>8, <2>1, <2>2 DEF Next, SweepOlderThan, MarkRead, FindThread,
       RecordReply, Begin, RetireFails, Retired
<1>9. ASSUME NEW e \in Envs, NEW w \in filed'[e] \ rows'[e]
      PROVE  w \in filed[e] \ rows[e] \/ Past(w)
  <2>1. ASSUME NEW d \in Envs, RecordOne(d) PROVE w \in filed[e] \ rows[e]
    <3>1. \/ rows' = rows /\ filed' = filed
          \/ /\ rows' = [rows EXCEPT ![d] = @ \cup {consumer.message}]
             /\ filed' = [filed EXCEPT ![d] = @ \cup {consumer.message}]
      BY <2>1 DEF RecordOne, Record
    <3> QED BY <1>0, <3>1
  <2>2. ASSUME NEW m \in Messages, SweepOlderThan(m) PROVE w \in filed[e] \ rows[e] \/ Past(w)
    BY <1>0, <2>2 DEF SweepOlderThan, InStream
  <2>3. ASSUME NEW d \in Retirers, EraseMessages(d) \/ EraseThreads(d) PROVE FALSE
    BY <2>3 DEF EraseMessages, EraseThreads
  <2>4. CASE UNCHANGED <<rows, filed>>
    BY <2>4
  <2> QED
    BY <2>1, <2>2, <2>3, <2>4 DEF Next, Consume, Take, Lookup, Recorded, RunRules, FanOut, Handled,
       EnqueueOne, Arrive, MarkRead, FindThread, RecordReply, Begin, End, Restart, Reserve,
       RetireFails, Retired
<1> QED BY <1>8, <1>9 DEF SweptIsPast

(* RecordOne on a message it does not hold counts it; nothing else does.   *)
LEMMA UnreadStep ==
    ASSUME TypeOK, Next, Remembered, SweptIsPast, UnreadIsExact PROVE UnreadIsExact'
<1> USE DEF Unmoved, history
<1>0. /\ filed \in [Envs -> SUBSET Messages] /\ seen \in [Envs -> SUBSET Messages]
      /\ thread \in [Envs -> [held : BOOLEAN, unread : Nat]] /\ carried \in [Envs -> Nat]
  BY DEF TypeOK
<1>1. ASSUME NEW e \in Envs, RecordOne(e) PROVE UnreadIsExact'
  <2> DEFINE m == consumer.message
             News(d) == (filed[d] \ Mine) \ seen[d]
  <2>1. seen' = seen /\ carried' = carried /\ consumer # Idle
    BY <1>1 DEF RecordOne, Handling
  <2>2. CASE UNCHANGED <<thread, filed>>
    BY <2>1, <2>2 DEF UnreadIsExact
  <2>3. CASE /\ m \notin rows[e]
             /\ thread' = [thread EXCEPT ![e] = [held |-> TRUE, unread |-> Unread(e, m)]]
             /\ filed' = [filed EXCEPT ![e] = @ \cup {m}]
    <3>1. m \notin filed[e] /\ m \notin seen[e] /\ IsFiniteSet(News(e))
      <4>1. m \notin filed[e]
        BY <2>1, <2>3 DEF SweptIsPast
      <4>2. IsFiniteSet(filed[e])
        BY DEF Remembered
      <4>3. News(e) \subseteq filed[e]
        OBVIOUS
      <4>4. IsFiniteSet(News(e))
        BY <4>2, <4>3, FS_Subset
      <4> QED BY <4>1, <4>4 DEF Remembered
    <3>2. News(e)' = IF m \in Mine THEN News(e) ELSE News(e) \cup {m}
      BY <1>0, <2>1, <2>3, <3>1
    <3>3. Cardinality(News(e)') = Cardinality(News(e)) + IF m \in Mine THEN 0 ELSE 1
      <4>1. Cardinality(News(e)) \in Nat
        BY <3>1, FS_CardinalityType
      <4>2. CASE m \in Mine
        BY <3>2, <4>1, <4>2
      <4>3. CASE m \notin Mine
        <5>1. Cardinality(News(e) \cup {m}) = Cardinality(News(e)) + 1
          BY <3>1, FS_AddElement
        <5> QED BY <3>2, <4>3, <5>1
      <4> QED BY <4>2, <4>3
    <3>4. thread'[e].unread = carried[e] + Cardinality(News(e)')
      <4>1. Cardinality(News(e)) \in Nat /\ carried[e] \in Nat
        BY <1>0, <3>1, FS_CardinalityType
      <4>2. thread[e].unread = carried[e] + Cardinality(News(e))
        BY DEF UnreadIsExact
      <4>3. thread'[e].unread = Unread(e, m)
        BY <1>0, <2>3
      <4> HIDE DEF News
      <4> QED BY <3>3, <4>1, <4>2, <4>3 DEF Unread
    <3>5. ASSUME NEW d \in Envs \ {e}
          PROVE  thread'[d].unread = carried[d] + Cardinality(News(d)')
      <4>1. thread'[d] = thread[d] /\ News(d)' = News(d)
        BY <1>0, <2>1, <2>3
      <4> QED BY <4>1 DEF UnreadIsExact
    <3> QED BY <2>1, <3>4, <3>5 DEF UnreadIsExact
  <2> QED BY <1>1, <2>2, <2>3 DEF RecordOne, Record
<1>2. ASSUME NEW e \in Envs, MarkRead(e) PROVE UnreadIsExact'
  <2>1. ASSUME NEW d \in Envs
        PROVE  thread'[d].unread = carried'[d] + Cardinality((filed'[d] \ Mine) \ seen'[d])
    <3>1. CASE d = e
      <4>1. (filed'[d] \ Mine) \ seen'[d] = {} /\ thread'[d].unread = 0 /\ carried'[d] = 0
        BY <1>0, <1>2, <3>1 DEF MarkRead
      <4> QED BY <4>1, FS_EmptySet
    <3>2. CASE d # e
      BY <1>0, <1>2, <3>2 DEF MarkRead, UnreadIsExact
    <3> QED BY <3>1, <3>2
  <2> QED BY <2>1 DEF UnreadIsExact
<1>3. ASSUME NEW e \in Envs, RecordReply(e) PROVE UnreadIsExact'
  <2>1. \A d \in Envs : thread'[d].unread = thread[d].unread
    BY <1>0, <1>3 DEF RecordReply
  <2> QED BY <1>3, <2>1 DEF RecordReply, UnreadIsExact
<1>4. ASSUME NEW d \in Retirers, EraseMessages(d) \/ EraseThreads(d) PROVE UnreadIsExact'
  <2>1. Cardinality(({} \ Mine) \ {}) = 0
    <3>1. ({} \ Mine) \ {} = {}
      OBVIOUS
    <3> QED BY <3>1, FS_EmptySet
  <2>2. \A e \in Envs : /\ filed'[e] = {} /\ seen'[e] = {}
                        /\ thread'[e].unread = carried'[e] /\ carried'[e] \in Nat
    BY <1>0, <1>4 DEF EraseMessages, EraseThreads, NoThread
  <2>3. ASSUME NEW e \in Envs
        PROVE  thread'[e].unread = carried'[e] + Cardinality((filed'[e] \ Mine) \ seen'[e])
    <3>1. (filed'[e] \ Mine) \ seen'[e] = ({} \ Mine) \ {}
      BY <2>2
    <3>2. thread'[e].unread = carried'[e] /\ carried'[e] \in Nat
      BY <2>2
    <3>3. Cardinality((filed'[e] \ Mine) \ seen'[e]) = 0
      BY <2>1, <3>1
    <3> QED BY <3>2, <3>3
  <2> QED BY <2>3 DEF UnreadIsExact
<1>5. CASE UNCHANGED <<thread, filed, seen, carried>>
  BY <1>5 DEF UnreadIsExact
<1> QED
  BY <1>1, <1>2, <1>3, <1>4, <1>5 DEF Next, Consume, Take, Lookup, Recorded, RunRules, FanOut,
     Handled, EnqueueOne, Arrive, SweepOlderThan, FindThread, Begin, End, Restart, Reserve,
     RetireFails, Retired

(* What the loop over the bindings has come to is filed or failed, and     *)
(* nothing filed is lost while a binding stands and its history stays.     *)
LEMMA RecordsStep ==
    ASSUME TypeOK, Next, Remembered, SteadyStands, RecordedSoFar, EachBindingRecords
    PROVE  RecordedSoFar' /\ EachBindingRecords'
<1> USE DEF Unmoved, history, others
<1> DEFINE Goal == RecordedSoFar' /\ EachBindingRecords'
<1>0. /\ rows \in [Envs -> SUBSET Messages] /\ filed \in [Envs -> SUBSET Messages]
      /\ consumer = Idle \/ consumer \in Handed
      /\ active \subseteq Envs
  BY DEF TypeOK, Handed
<1>1. CASE Take
  BY <1>1 DEF Take, RecordedSoFar, EachBindingRecords
<1>2. CASE Lookup
  <2>1. consumer \in Handed /\ consumer.steady \subseteq active /\ filed' = filed
    BY <1>0, <1>2 DEF Lookup, Handling, SteadyStands
  <2>2. CASE consumer' = [consumer EXCEPT !.pc = "record", !.todo = active]
    <3>1. consumer'.pc = "record" /\ consumer'.todo = active /\ consumer'.steady = consumer.steady
      BY <2>1, <2>2 DEF Handed
    <3> QED BY <2>1, <3>1 DEF RecordedSoFar, EachBindingRecords
  <2>3. CASE consumer' = [consumer EXCEPT !.pc = "rules", !.failed = Envs]
    <3>1. consumer'.pc = "rules" /\ consumer'.failed = Envs /\ consumer'.steady = consumer.steady
      BY <2>1, <2>3 DEF Handed
    <3> QED BY <1>0, <2>1, <3>1 DEF RecordedSoFar, EachBindingRecords
  <2> QED BY <1>2, <2>2, <2>3 DEF Lookup
<1>3. ASSUME NEW e \in Envs, RecordOne(e) PROVE Goal
  <2>1. /\ consumer \in Handed /\ consumer.pc = "record" /\ consumer.steady \subseteq active
        /\ consumer # Idle
    BY <1>0, <1>3 DEF RecordOne, Handling, SteadyStands
  <2>2. \A d \in Envs : filed[d] \subseteq filed'[d]
    BY <1>0, <1>3 DEF RecordOne, Record
  <2>3. /\ consumer'.pc = "record" /\ consumer'.message = consumer.message
        /\ consumer'.steady = consumer.steady /\ consumer'.todo = consumer.todo \ {e}
        /\ consumer.failed \subseteq consumer'.failed
        /\ \/ consumer'.failed = consumer.failed /\ Record(e, consumer.message)
           \/ e \in consumer'.failed
    BY <1>3, <2>1 DEF RecordOne, Remains, Handed
  <2>4. Record(e, consumer.message) => e \notin active \/ consumer.message \in filed'[e]
    BY <1>0 DEF Record, Files, Remembered
  <2>5. ASSUME NEW d \in (consumer'.steady \ consumer'.failed) \ consumer'.todo
        PROVE  consumer.message \in filed'[d]
    <3>1. d \in active /\ d \in Envs /\ d \in consumer.steady \ consumer.failed
      BY <1>0, <2>1, <2>3
    <3>2. CASE d = e
      BY <2>3, <2>4, <3>1, <3>2
    <3>3. CASE d # e
      BY <2>1, <2>2, <2>3, <3>1, <3>3 DEF RecordedSoFar
    <3> QED BY <3>2, <3>3
  <2> QED BY <2>3, <2>5 DEF RecordedSoFar, EachBindingRecords
<1>4. CASE Recorded
  <2>1. consumer \in Handed /\ consumer.pc = "record" /\ consumer.todo = {} /\ filed' = filed /\ consumer # Idle
    BY <1>0, <1>4 DEF Recorded, Handling
  <2>2. /\ consumer'.pc = "rules" /\ consumer'.message = consumer.message
        /\ consumer'.steady = consumer.steady /\ consumer'.failed = consumer.failed
    BY <1>4, <2>1 DEF Recorded, Handed
  <2> QED BY <2>1, <2>2 DEF RecordedSoFar, EachBindingRecords
<1>5. CASE RunRules \/ FanOut
  <2>1. /\ consumer \in Handed /\ consumer.pc \in {"rules", "fanOut"} /\ filed' = filed /\ consumer # Idle
        /\ consumer.steady \subseteq active
    BY <1>0, <1>5 DEF RunRules, FanOut, Handling, SteadyStands
  <2>2. CASE consumer' = Idle
    BY <2>2 DEF RecordedSoFar, EachBindingRecords
  <2>3. CASE consumer' # Idle
    <3>1. /\ consumer'.pc \in {"fanOut", "enqueue"} /\ consumer'.message = consumer.message
          /\ consumer'.steady = consumer.steady /\ consumer'.failed = consumer.failed
      BY <1>5, <2>1, <2>3 DEF RunRules, FanOut, Handed
    <3> QED BY <2>1, <3>1 DEF RecordedSoFar, EachBindingRecords
  <2> QED BY <2>2, <2>3
<1>6. ASSUME NEW e \in Envs, EnqueueOne(e) PROVE Goal
  <2>1. consumer \in Handed /\ consumer.pc = "enqueue" /\ filed' = filed /\ consumer # Idle
    BY <1>0, <1>6 DEF EnqueueOne, Handling
  <2>2. CASE consumer' = Idle
    BY <2>2 DEF RecordedSoFar, EachBindingRecords
  <2>3. CASE consumer' # Idle
    <3>1. /\ consumer'.pc = "enqueue" /\ consumer'.message = consumer.message
          /\ consumer'.steady = consumer.steady /\ consumer'.failed = consumer.failed
      BY <1>6, <2>1, <2>3 DEF EnqueueOne, Handed
    <3> QED BY <2>1, <3>1 DEF RecordedSoFar, EachBindingRecords
  <2> QED BY <2>2, <2>3
<1>7. ASSUME NEW g \in SUBSET Envs, Unsteady(g),
             \A e \in Envs : filed'[e] = filed[e] \/ e \in g \/ e \notin active
      PROVE  Goal
  <2>1. CASE consumer = Idle
    BY <1>7, <2>1 DEF Unsteady, RecordedSoFar, EachBindingRecords
  <2>2. CASE consumer # Idle
    <3>1. /\ consumer'.pc = consumer.pc /\ consumer'.message = consumer.message
          /\ consumer'.steady = consumer.steady \ g /\ consumer'.failed = consumer.failed
          /\ consumer'.todo = consumer.todo /\ consumer.steady \subseteq active
      BY <1>0, <1>7, <2>2 DEF Unsteady, Handed, SteadyStands
    <3> QED BY <1>0, <1>7, <2>2, <3>1 DEF RecordedSoFar, EachBindingRecords
  <2> QED BY <2>1, <2>2
<1>8. ASSUME NEW e \in Envs, End(e) PROVE Goal
  BY <1>7, <1>8 DEF End
<1>9. ASSUME NEW d \in Retirers, Reserve(d) \/ EraseMessages(d) \/ EraseThreads(d) PROVE Goal
  <2>1. active \in SUBSET Envs /\ Envs \in SUBSET Envs
    BY <1>0
  <2> QED BY <1>7, <1>9, <2>1 DEF Reserve, EraseMessages, EraseThreads
<1>10. CASE Handled \/ Restart
  BY <1>10 DEF Handled, Restart, RecordedSoFar, EachBindingRecords
<1>11. CASE UNCHANGED <<consumer, filed>>
  BY <1>11 DEF RecordedSoFar, EachBindingRecords
<1> QED
  BY <1>1, <1>2, <1>3, <1>4, <1>5, <1>6, <1>8, <1>9, <1>10, <1>11 DEF Next, Consume, Arrive,
     SweepOlderThan, MarkRead, FindThread, RecordReply, Begin, RetireFails, Retired

-----------------------------------------------------------------------------
LEMMA InvInit == Init => InboundInv
<1> SUFFICES ASSUME Init PROVE InboundInv
  OBVIOUS
<1>1. UnreadIsExact
  <2>1. ({} \ Mine) \ {} = {}
    OBVIOUS
  <2> QED BY <2>1, FS_EmptySet DEF Init, NoThread, UnreadIsExact
<1>2. Remembered /\ SweptIsPast /\ SteadyStands /\ RecordedSoFar /\ ErasedUnbound
  BY FS_EmptySet DEF Init, Remembered, SweptIsPast, SteadyStands, RecordedSoFar, ErasedUnbound
<1>3. EachBindingRecords /\ ForgottenIsGone
  BY DEF Init, EachBindingRecords, ForgottenIsGone
<1> QED BY <1>1, <1>2, <1>3, TypeInit DEF InboundInv

LEMMA InvStep == InboundInv /\ [Next]_vars => InboundInv'
<1> SUFFICES ASSUME InboundInv, [Next]_vars PROVE InboundInv'
  OBVIOUS
<1>1. TypeOK'
  BY TypeStep DEF InboundInv
<1>2. CASE Next
  BY <1>1, <1>2, ErasedStep, SteadyStep, RememberedStep, ForgottenStep, SweptStep, UnreadStep,
     RecordsStep DEF InboundInv
<1>3. CASE UNCHANGED vars
  BY <1>1, <1>3 DEF vars, InboundInv, Remembered, SweptIsPast, SteadyStands, RecordedSoFar,
     ErasedUnbound, UnreadIsExact, EachBindingRecords, ForgottenIsGone, InStream
<1> QED BY <1>2, <1>3

(* The inductive invariant holds throughout: every part of it in every     *)
(* reachable state of the stream, the consumer and the history.            *)
THEOREM InboundInvariant == Spec => []InboundInv
<1> QED BY InvInit, InvStep, PTL DEF Spec

(* The badge of every conversation is exact (stores/chat-store.ts:106),    *)
(* for any number of messages, resends, faults and tenants.                *)
THEOREM BadgeExact == Spec => []UnreadIsExact
<1>1. InboundInv => UnreadIsExact
  BY DEF InboundInv
<1> QED BY <1>1, InboundInvariant, PTL

(* A binding that stands all the while has the message in its history by   *)
(* the time rules run, unless its own write failed or the history was      *)
(* erased (engine/consumer.ts:210-236), whatever failed for the others.    *)
THEOREM EveryoneRecords == Spec => []EachBindingRecords
<1>1. InboundInv => EachBindingRecords
  BY DEF InboundInv
<1> QED BY <1>1, InboundInvariant, PTL

(* What a retirement erased stays erased for whoever has not been bound to *)
(* the device since (stores/chat-store.ts:314), whatever writes were on    *)
(* their way, retirements ran beside each other or failed half way.        *)
THEOREM ErasedStaysErased == Spec => []ForgottenIsGone
<1>1. InboundInv => ForgottenIsGone
  BY DEF InboundInv
<1> QED BY <1>1, InboundInvariant, PTL

-----------------------------------------------------------------------------
(* The rules a message runs.                                               *)

\* The rules the loop has come to, and those of them that fired.
Visited == Prepared \ todo
Fired == {r \in Visited : Sound(r)}

\* Nothing is said before an event is evaluated.
QuietBefore ==
    event = NoEvent => todo = {} /\ matched = <<>> /\ timedOut = {} /\ ~stopped

\* The loop goes through the rules in their order.
InOrder == event # NoEvent => \A q \in Visited, r \in todo : Before(q, r)

\* It left at the rule that stops the rest, and at no other.
StopsWhereTold ==
    event # NoEvent =>
        /\ stopped <=> \E r \in Fired : r.stop
        /\ \A q \in Fired, r \in Visited : q.stop => ~Before(q, r)

\* What the plan says so far.
MatchedSoFar ==
    event # NoEvent =>
        /\ ToSet(matched) = {r.name : r \in Fired}
        /\ \A q, r \in Fired, m, n \in DOMAIN matched :
              matched[m] = q.name /\ matched[n] = r.name => (m < n <=> Before(q, r))

TimedOutSoFar ==
    event # NoEvent => timedOut = {r.name : r \in {q \in Visited : Overran(q)}}

RulesInv ==
    /\ rules \subseteq Definitions /\ RulesTypeOK
    /\ QuietBefore /\ InOrder /\ StopsWhereTold /\ MatchedSoFar /\ TimedOutSoFar

(* The order the rules came in is total, asymmetric and by priority, then  *)
(* as the query put those of one priority.                                 *)
LEMMA BeforeOrders ==
    ASSUME RulesInv, event # NoEvent, NEW q \in Prepared, NEW r \in Prepared
    PROVE  /\ Before(q, r) => ~Before(r, q)
           /\ q # r => Before(q, r) \/ Before(r, q)
           /\ Sooner(q, r) <=> Before(q, r)
<1>1. place \in Orders
  BY DEF RulesInv, RulesTypeOK
<1>2. /\ place[q] \in Int /\ place[r] \in Int
      /\ q # r => /\ place[q] # place[r]
                  /\ q.priority < r.priority => place[q] < place[r]
                  /\ r.priority < q.priority => place[r] < place[q]
  BY <1>1 DEF Orders
<1>3. q.priority \in Nat /\ r.priority \in Nat
  BY RulesAssumption DEF RulesInv, Prepared
<1> QED BY <1>2, <1>3 DEF Before, Sooner

(* A prepared rule matches in the loop exactly when it is sound.           *)
LEMMA MatchingIsSound ==
    ASSUME NEW r \in Prepared
    PROVE  Sound(r) <=> MatchRule(r)
<1>1. r.enabled /\ PrepareRule(r)
  BY DEF Prepared
<1>2. ASSUME ~Overran(r), NEW c
      PROVE  RunMatch(r, c) <=> Test(c, Subject(event))
  BY <1>2 DEF Overran, RunMatch
<1>3. CASE Overran(r)
  BY <1>3 DEF Sound, MatchRule
<1>4. CASE ~Overran(r)
  <2>1. MatchRule(r) => Sound(r)
    BY <1>1, <1>2, <1>4 DEF Sound, MatchRule
  <2>2. Sound(r) => MatchRule(r)
    BY <1>1, <1>2, <1>4 DEF Sound, MatchRule
  <2> QED BY <2>1, <2>2
<1> QED BY <1>3, <1>4

(* A rule that is sound is one the evaluation was given.                   *)
LEMMA SoundIsPrepared == \A r \in rules : Sound(r) => r \in Prepared
BY DEF Sound, Prepared

(* An edit stores rules of different names with something to test, and the *)
(* last plan is forgotten.                                                 *)
LEMMA EditKeeps ==
    ASSUME RulesInv, Edit
    PROVE  RulesInv'
<1>1. /\ event' = NoEvent /\ place' = <<>> /\ slow' = {} /\ todo' = {}
      /\ matched' = <<>> /\ timedOut' = {} /\ stopped' = FALSE
  BY DEF Edit
<1> DEFINE WellFormed(s) == /\ s \subseteq Definitions
                            /\ \A q, r \in s : q # r => q.name # r.name
                            /\ \A r \in s : Conditions(r) # {}
<1>2. WellFormed(rules)
  BY DEF RulesInv, RulesTypeOK
<1>3. WellFormed(rules')
  <2>1. ASSUME NEW r \in Admitted, Create(r)
        PROVE  WellFormed(rules')
    <3>1. r \in Definitions /\ Conditions(r) # {}
      BY <2>1, RulesAssumption DEF Admitted, Create, PrepareRule
    <3>2. rules' = rules \cup {r} /\ \A q \in rules : q.name # r.name
      BY <2>1 DEF Create, Names
    <3> QED BY <1>2, <3>1, <3>2
  <2>2. ASSUME NEW old \in rules, NEW r \in Companions, Update(old, r)
        PROVE  WellFormed(rules')
    <3>1. r \in Definitions /\ Conditions(r) # {}
      BY <2>2, RulesAssumption DEF Update, PrepareRule
    <3>2. rules' = (rules \ {old}) \cup {r} /\ \A q \in rules \ {old} : q.name # r.name
      BY <2>2 DEF Update
    <3> QED BY <1>2, <3>1, <3>2
  <2>3. ASSUME NEW r \in rules, RemoveRule(r)
        PROVE  WellFormed(rules')
    BY <1>2, <2>3 DEF RemoveRule
  <2>4. ASSUME Reconfigure
        PROVE  WellFormed(rules')
    BY <1>2, <2>4 DEF Reconfigure
  <2> QED BY <2>1, <2>2, <2>3, <2>4 DEF Edit
<1>4. insecure' \in BOOLEAN
  BY DEF Edit, Create, Update, RemoveRule, Reconfigure, RulesInv, RulesTypeOK
<1>5. matched' \in Seq(Names')
  BY <1>1, EmptySeq
<1>6. RulesTypeOK'
  BY <1>1, <1>3, <1>4, <1>5 DEF RulesTypeOK, Conditions
<1> QED BY <1>1, <1>3, <1>6 DEF RulesInv, QuietBefore, InOrder, StopsWhereTold, MatchedSoFar,
                               TimedOutSoFar

(* What depends on the rows and the setting alone.                         *)
LEMMA SameRows ==
    ASSUME rules' = rules, insecure' = insecure
    PROVE  Prepared' = Prepared /\ Names' = Names /\ Matches' = Matches /\ Orders' = Orders
<1>1. Prepared' = Prepared
  BY DEF Prepared, PrepareRule, Conditions
<1>2. Names' = Names
  BY DEF Names
<1>3. Matches' = Matches
  BY <1>1 DEF Matches, Conditions
<1>4. Orders' = Orders
  BY <1>1 DEF Orders
<1> QED BY <1>1, <1>2, <1>3, <1>4

(* Loading the rules starts a loop that has come to none of them.          *)
LEMMA LoadKeeps ==
    ASSUME RulesInv, NEW e \in Events, NEW p \in Orders, NEW s \in SUBSET Matches, LoadRules(e, p, s)
    PROVE  RulesInv'
<1>1. /\ event = NoEvent /\ event' = e /\ place' = p /\ slow' = s /\ todo' = Prepared
      /\ rules' = rules /\ insecure' = insecure
      /\ matched' = matched /\ timedOut' = timedOut /\ stopped' = stopped
  BY DEF LoadRules
<1>2. todo = {} /\ matched = <<>> /\ timedOut = {} /\ ~stopped
  BY <1>1 DEF RulesInv, QuietBefore
<1>3. Prepared' = Prepared /\ Names' = Names /\ Matches' = Matches /\ Orders' = Orders
  BY <1>1, SameRows
<1>4. e # NoEvent
  BY RulesAssumption
<1>5. RulesTypeOK'
  BY <1>1, <1>3, <1>4 DEF RulesInv, RulesTypeOK, Conditions
<1>6. Visited' = {}
  BY <1>1, <1>3 DEF Visited
<1>7. Fired' = {}
  BY <1>6 DEF Fired
<1>8. ToSet(matched') = {} /\ DOMAIN matched' = {}
  BY <1>1, <1>2 DEF ToSet
<1>9. QuietBefore' /\ InOrder' /\ TimedOutSoFar'
  BY <1>1, <1>2, <1>4, <1>6 DEF QuietBefore, InOrder, TimedOutSoFar
<1>10. StopsWhereTold'
  BY <1>1, <1>2, <1>7 DEF StopsWhereTold
<1>11. MatchedSoFar'
  BY <1>1, <1>7, <1>8 DEF MatchedSoFar
<1>12. rules' \subseteq Definitions
  BY <1>1 DEF RulesInv
<1> QED BY <1>5, <1>9, <1>10, <1>11, <1>12 DEF RulesInv

(* What a step that leaves the rows and the question alone leaves alone.   *)
Asked ==
    /\ rules' = rules /\ insecure' = insecure /\ event' = event
    /\ place' = place /\ slow' = slow

LEMMA SameQuestion ==
    ASSUME Asked
    PROVE  /\ Prepared' = Prepared /\ Names' = Names /\ Matches' = Matches /\ Orders' = Orders
           /\ \A r : (Sound(r)' <=> Sound(r)) /\ (Overran(r)' <=> Overran(r))
           /\ \A q, r : Before(q, r)' <=> Before(q, r)
<1>1. Prepared' = Prepared /\ Names' = Names /\ Matches' = Matches /\ Orders' = Orders
  BY SameRows DEF Asked
<1>2. \A r : (Sound(r)' <=> Sound(r)) /\ (Overran(r)' <=> Overran(r))
  BY DEF Asked, Sound, Overran, PrepareRule, Conditions
<1>3. \A q, r : Before(q, r)' <=> Before(q, r)
  BY DEF Asked, Before
<1> QED BY <1>1, <1>2, <1>3

(* A round of the loop, as far as it does not depend on the rule it is at. *)
Round(k) ==
    /\ event # NoEvent /\ ~stopped
    /\ k \in Prepared /\ k \in rules /\ k \notin Visited
    /\ Prepared' = Prepared /\ Names' = Names /\ Matches' = Matches /\ Orders' = Orders
    /\ rules' = rules /\ event' = event /\ insecure' = insecure
    /\ place' = place /\ slow' = slow
    /\ todo' = todo \ {k} /\ Visited' = Visited \cup {k}
    /\ \A r : (Sound(r)' <=> Sound(r)) /\ (Overran(r)' <=> Overran(r))
    /\ \A q, r : Before(q, r)' <=> Before(q, r)
    /\ \A q \in Visited : Before(q, k)
    /\ InOrder'

(* What a round of the loop leaves alone, and where it comes to.           *)
LEMMA RoundComesTo ==
    ASSUME RulesInv, NEW k \in todo, ComesTo(k)
    PROVE  Round(k)
<1>1. /\ Asked /\ todo' = todo \ {k} /\ Evaluating
      /\ \A r \in todo \ {k} : Before(k, r)
  BY DEF ComesTo, Asked
<1>2. event # NoEvent /\ ~stopped
  BY <1>1 DEF Evaluating, RulesInv, QuietBefore
<1>3. todo \subseteq Prepared
  BY DEF RulesInv, RulesTypeOK
<1>4. /\ Prepared' = Prepared /\ Names' = Names /\ Matches' = Matches /\ Orders' = Orders
      /\ \A r : (Sound(r)' <=> Sound(r)) /\ (Overran(r)' <=> Overran(r))
      /\ \A q, r : Before(q, r)' <=> Before(q, r)
  BY <1>1, SameQuestion
<1>5. k \in Prepared /\ k \in rules /\ k \notin Visited
  BY <1>3 DEF Prepared, Visited
<1>6. Visited' = Visited \cup {k}
  BY <1>1, <1>3, <1>4, <1>5 DEF Visited
<1>7. \A q \in Visited : Before(q, k)
  BY <1>2 DEF RulesInv, InOrder
<1>8. InOrder'
  <2>1. ASSUME NEW q \in Visited \cup {k}, NEW r \in todo \ {k}
        PROVE  Before(q, r)
    BY <1>1, <1>2 DEF RulesInv, InOrder
  <2> QED BY <1>1, <1>4, <1>6, <2>1 DEF InOrder
<1> QED BY <1>1, <1>2, <1>4, <1>5, <1>6, <1>7, <1>8 DEF Round, Asked

(* What the plan says stays true when neither it nor the rules that fired  *)
(* change.                                                                 *)
LEMMA SamePlan ==
    ASSUME MatchedSoFar, event' = event, matched' = matched, Fired' = Fired,
           \A q, r : Before(q, r)' <=> Before(q, r)
    PROVE  MatchedSoFar'
<1> SUFFICES ASSUME event # NoEvent PROVE MatchedSoFar'
  BY DEF MatchedSoFar
<1>1. ToSet(matched)' = ToSet(matched)
  BY DEF ToSet
<1>2. ToSet(matched) = {r.name : r \in Fired}
  BY DEF MatchedSoFar
<1>3. ASSUME NEW q \in Fired, NEW r \in Fired, NEW m \in DOMAIN matched, NEW n \in DOMAIN matched,
             matched[m] = q.name, matched[n] = r.name
      PROVE  m < n <=> Before(q, r)'
  <2>1. m < n <=> Before(q, r)
    BY <1>3 DEF MatchedSoFar
  <2> QED BY <2>1
<1>4. ToSet(matched)' = {r.name : r \in Fired'}
  BY <1>1, <1>2
<1> QED BY <1>3, <1>4 DEF MatchedSoFar

(* A round in which the rule does not fire.                                *)
LEMMA SilentRoundKeeps ==
    ASSUME RulesInv, NEW k \in todo, TimesOut(k) \/ PassesBy(k)
    PROVE  RulesInv'
<1>1. ComesTo(k) /\ matched' = matched /\ stopped' = stopped
  BY DEF TimesOut, PassesBy
<1> USE DEF Round
<1>2. Round(k)
  BY <1>1, RoundComesTo
<1>3. ~Sound(k)
  <2>1. Sound(k) <=> MatchRule(k)
    BY <1>2, MatchingIsSound
  <2> QED BY <2>1 DEF TimesOut, PassesBy, Sound
<1>4. Fired' = Fired
  BY <1>2, <1>3 DEF Fired
<1>5. timedOut' \subseteq Names
  <2>1. k.name \in Names
    BY <1>2 DEF Names
  <2> QED BY <2>1 DEF TimesOut, PassesBy, RulesInv, RulesTypeOK
<1>6. RulesTypeOK'
  BY <1>1, <1>2, <1>5 DEF RulesInv, RulesTypeOK, Conditions
<1>7. QuietBefore'
  BY <1>2 DEF QuietBefore
<1>8. StopsWhereTold'
  <2>1. \A q \in Fired : ~q.stop
    BY <1>2 DEF RulesInv, StopsWhereTold
  <2> QED BY <1>1, <1>2, <1>4, <2>1 DEF StopsWhereTold
<1>9. MatchedSoFar'
  <2>1. MatchedSoFar
    BY DEF RulesInv
  <2> QED BY <1>1, <1>2, <1>4, <2>1, SamePlan
<1>10. TimedOutSoFar'
  <2>1. CASE TimesOut(k)
    BY <1>2, <2>1 DEF TimesOut, TimedOutSoFar, RulesInv
  <2>2. CASE PassesBy(k)
    BY <1>2, <2>2 DEF PassesBy, TimedOutSoFar, RulesInv
  <2> QED BY <2>1, <2>2
<1> QED BY <1>2, <1>6, <1>7, <1>8, <1>9, <1>10 DEF RulesInv

(* A round in which the rule fires.                                        *)
LEMMA FiringRoundKeeps ==
    ASSUME RulesInv, NEW k \in todo, Fires(k)
    PROVE  RulesInv'
<1>1. /\ ComesTo(k) /\ MatchRule(k) /\ ~Overran(k)
      /\ matched' = Append(matched, k.name)
      /\ stopped' = k.stop /\ timedOut' = timedOut
  BY DEF Fires, MatchRule
<1> USE DEF Round
<1>2. Round(k)
  BY <1>1, RoundComesTo
<1>3. Sound(k)
  BY <1>1, <1>2, MatchingIsSound
<1>4. /\ Visited \subseteq Prepared /\ Fired \subseteq Visited /\ k \notin Fired
      /\ Prepared \subseteq rules
  BY <1>2 DEF Visited, Prepared, Fired
<1>5. Fired' = Fired \cup {k}
  BY <1>2, <1>3, <1>4 DEF Fired
<1>6. \A r \in rules : r # k => r.name # k.name
  BY <1>2 DEF RulesInv, RulesTypeOK
<1>7. /\ matched \in Seq(Names) /\ Len(matched) \in Nat /\ DOMAIN matched = 1..Len(matched)
      /\ matched' \in Seq(Names) /\ DOMAIN matched' = 1..(Len(matched) + 1)
      /\ \A n \in 1..Len(matched) : matched'[n] = matched[n]
      /\ matched'[Len(matched) + 1] = k.name
  <2>1. k.name \in Names
    BY <1>2 DEF Names
  <2>2. matched \in Seq(Names)
    BY DEF RulesInv, RulesTypeOK
  <2> QED BY <1>1, <2>1, <2>2, AppendProperties, LenProperties
<1>8. RulesTypeOK'
  <2>1. stopped' \in BOOLEAN
    <3>1. k \in Definitions
      BY <1>2 DEF RulesInv
    <3> QED BY <1>1, <3>1, RulesAssumption
  <2> QED BY <1>1, <1>2, <1>7, <2>1 DEF RulesInv, RulesTypeOK, Conditions
<1>9. QuietBefore'
  BY <1>2 DEF QuietBefore
<1>10. StopsWhereTold'
  <2>1. \A r \in Fired : ~r.stop
    BY <1>2 DEF RulesInv, StopsWhereTold
  <2>2. \A r \in Visited \cup {k} : ~Before(k, r)
    BY <1>2, <1>4, BeforeOrders
  <2>3. stopped' <=> \E r \in Fired \cup {k} : r.stop
    BY <1>1, <2>1
  <2>4. \A q \in Fired \cup {k}, r \in Visited \cup {k} : q.stop => ~Before(q, r)
    BY <2>1, <2>2
  <2> QED BY <1>2, <1>5, <2>3, <2>4 DEF StopsWhereTold
<1>11. TimedOutSoFar'
  BY <1>1, <1>2 DEF TimedOutSoFar, RulesInv
<1>12. MatchedSoFar'
  <2> DEFINE N == Len(matched)
  <2>1. ToSet(matched) = {r.name : r \in Fired}
    BY <1>2 DEF RulesInv, MatchedSoFar
  <2>2. ToSet(matched') = {r.name : r \in Fired \cup {k}}
    <3>1. ToSet(matched') = ToSet(matched) \cup {k.name}
      BY <1>7 DEF ToSet
    <3> QED BY <2>1, <3>1
  <2>3. ASSUME NEW n \in 1..N, NEW q \in Fired \cup {k}, matched'[n] = q.name
        PROVE  q \in Fired
    <3>1. matched[n] \in ToSet(matched) /\ matched'[n] = matched[n]
      BY <1>7 DEF ToSet
    <3>2. PICK r \in Fired : matched[n] = r.name
      BY <2>1, <3>1
    <3>3. r \in rules /\ r # k
      BY <1>4
    <3> QED BY <1>6, <2>3, <3>1, <3>2, <3>3
  <2>4. ASSUME NEW q \in Fired \cup {k}, matched'[N + 1] = q.name
        PROVE  q = k
    BY <1>2, <1>4, <1>6, <1>7, <2>4
  <2>5. ASSUME NEW q \in Fired \cup {k}, NEW r \in Fired \cup {k},
               NEW m \in 1..(N + 1), NEW n \in 1..(N + 1),
               matched'[m] = q.name, matched'[n] = r.name
        PROVE  m < n <=> Before(q, r)
    <3>1. q \in Prepared /\ r \in Prepared
      BY <1>2, <1>4
    <3>2. CASE m \in 1..N /\ n \in 1..N
      <4>1. q \in Fired /\ r \in Fired
        BY <2>3, <2>5, <3>2
      <4>2. matched[m] = q.name /\ matched[n] = r.name
        BY <1>7, <2>5, <3>2
      <4> QED BY <1>2, <1>7, <3>2, <4>1, <4>2 DEF RulesInv, MatchedSoFar
    <3>3. CASE m \in 1..N /\ n = N + 1
      <4>1. q \in Fired /\ r = k
        BY <2>3, <2>4, <2>5, <3>3
      <4>2. Before(q, r)
        BY <1>2, <1>4, <4>1
      <4> QED BY <1>7, <3>3, <4>2
    <3>4. CASE m = N + 1 /\ n \in 1..N
      <4>1. q = k /\ r \in Fired
        BY <2>3, <2>4, <2>5, <3>4
      <4>2. Before(r, k)
        BY <1>2, <1>4, <4>1
      <4>3. ~Before(q, r)
        BY <1>2, <3>1, <4>1, <4>2, BeforeOrders
      <4> QED BY <1>7, <3>4, <4>3
    <3>5. CASE m = N + 1 /\ n = N + 1
      <4>1. q = k /\ r = k
        BY <2>4, <2>5, <3>5
      <4>2. ~Before(q, r)
        BY <1>2, <3>1, <4>1, BeforeOrders
      <4> QED BY <1>7, <3>5, <4>2
    <3> QED BY <1>7, <3>2, <3>3, <3>4, <3>5
  <2> HIDE DEF N
  <2>6. ASSUME NEW q \in Fired', NEW r \in Fired', NEW m \in DOMAIN matched', NEW n \in DOMAIN matched',
               matched'[m] = q.name, matched'[n] = r.name
        PROVE  m < n <=> Before(q, r)'
    <3>1. m < n <=> Before(q, r)
      BY <1>5, <1>7, <2>5, <2>6 DEF N
    <3> QED BY <1>2, <3>1
  <2>7. ToSet(matched)' = {r.name : r \in Fired'}
    BY <1>5, <2>2 DEF ToSet
  <2> QED BY <2>6, <2>7 DEF MatchedSoFar
<1> QED BY <1>2, <1>8, <1>9, <1>10, <1>11, <1>12 DEF RulesInv

(* The invariant holds initially, and every step keeps it.                 *)
LEMMA RulesInvHolds == RulesSpec => []RulesInv
<1>1. RulesInit => RulesInv
  <2> SUFFICES ASSUME RulesInit PROVE RulesInv
    OBVIOUS
  <2>1. matched \in Seq(Names)
    BY EmptySeq DEF RulesInit
  <2>2. RulesTypeOK
    BY <2>1 DEF RulesInit, RulesTypeOK
  <2> QED BY <2>2 DEF RulesInit, RulesInv, QuietBefore, InOrder, StopsWhereTold,
                      MatchedSoFar, TimedOutSoFar
<1>2. RulesInv /\ [RulesNext]_ruleVars => RulesInv'
  <2> SUFFICES ASSUME RulesInv, [RulesNext]_ruleVars PROVE RulesInv'
    OBVIOUS
  <2>1. CASE Edit
    BY <2>1, EditKeeps
  <2>2. ASSUME NEW e \in Events, NEW p \in Orders, NEW s \in SUBSET Matches, LoadRules(e, p, s)
        PROVE  RulesInv'
    BY <2>2, LoadKeeps
  <2>3. ASSUME NEW r \in todo, TimesOut(r) \/ Fires(r) \/ PassesBy(r)
        PROVE  RulesInv'
    BY <2>3, SilentRoundKeeps, FiringRoundKeeps
  <2>4. CASE UNCHANGED ruleVars
    <3>1. Asked /\ UNCHANGED <<todo, matched, timedOut, stopped>>
      BY <2>4 DEF ruleVars, loop, Asked
    <3>2. /\ Prepared' = Prepared /\ Names' = Names /\ Matches' = Matches /\ Orders' = Orders
          /\ \A r : (Sound(r)' <=> Sound(r)) /\ (Overran(r)' <=> Overran(r))
          /\ \A q, r : Before(q, r)' <=> Before(q, r)
      BY <3>1, SameQuestion
    <3>3. Visited' = Visited
      BY <3>1, <3>2 DEF Visited
    <3>4. Fired' = Fired
      BY <3>2, <3>3 DEF Fired
    <3>5. rules' \subseteq Definitions /\ RulesTypeOK' /\ QuietBefore'
      BY <3>1, <3>2 DEF RulesInv, RulesTypeOK, QuietBefore, Conditions, Asked
    <3>6. InOrder' /\ StopsWhereTold'
      BY <3>1, <3>2, <3>3, <3>4 DEF RulesInv, InOrder, StopsWhereTold, Asked
    <3>7. MatchedSoFar'
      <4>1. MatchedSoFar /\ event' = event /\ matched' = matched
        BY <3>1 DEF RulesInv, Asked
      <4> QED BY <3>2, <3>4, <4>1, SamePlan
    <3>8. TimedOutSoFar'
      BY <3>1, <3>2, <3>3 DEF RulesInv, TimedOutSoFar, Asked
    <3> QED BY <3>5, <3>6, <3>7, <3>8 DEF RulesInv
  <2> QED BY <2>1, <2>2, <2>3, <2>4 DEF RulesNext
<1> QED BY <1>1, <1>2, PTL DEF RulesSpec

(* The binding's rows have different names and something to test, and an   *)
(* evaluation speaks of them, for any definitions and any pattern analysis *)
(* (stores/rule-store.ts:26).                                              *)
THEOREM RulesTyped == RulesSpec => []RulesTypeOK
<1>1. RulesInv => RulesTypeOK
  BY DEF RulesInv
<1> QED BY <1>1, RulesInvHolds, PTL

(* The plan is what the rules say, whatever the rules, the order the query *)
(* gives those of one priority in, the matches that overrun and the        *)
(* analysis that accepted them (rules/evaluate.ts:74).                     *)
THEOREM PlanSaysTheRules == RulesSpec => []PlanIsAsWritten
<1>1. RulesInv => PlanIsAsWritten
  <2> SUFFICES ASSUME RulesInv, event # NoEvent, ~Evaluating
               PROVE  /\ ToSet(matched) = {r.name : r \in Firing}
                      /\ \A q, r \in Firing, m, n \in DOMAIN matched :
                            matched[m] = q.name /\ matched[n] = r.name =>
                                (m < n <=> Sooner(q, r))
                      /\ timedOut = {r.name : r \in Late}
    BY DEF PlanIsAsWritten
  <2>1. todo \subseteq Prepared /\ Prepared \subseteq rules /\ Visited \subseteq Prepared
    BY DEF RulesInv, RulesTypeOK, Prepared, Visited
  <2>2. ASSUME NEW r \in Visited
        PROVE  Reached(r)
    <3>1. ASSUME NEW q \in rules, Sound(q), Sooner(q, r)
          PROVE  ~q.stop
      <4>1. q \in Prepared
        BY <3>1, SoundIsPrepared
      <4>2. Before(q, r) /\ ~Before(r, q)
        BY <2>1, <3>1, <4>1, BeforeOrders
      <4>3. q \notin todo
        BY <4>2 DEF RulesInv, InOrder
      <4>4. q \in Fired
        BY <3>1, <4>1, <4>3 DEF Fired, Visited
      <4> QED BY <4>2, <4>4 DEF RulesInv, StopsWhereTold
    <3> QED BY <3>1 DEF Reached
  <2>3. ASSUME NEW r \in todo
        PROVE  ~Reached(r)
    <3>1. PICK q \in Fired : q.stop
      BY <2>3 DEF Evaluating, RulesInv, StopsWhereTold
    <3>2. q \in Visited /\ q \in rules /\ Sound(q)
      BY <2>1, <3>1 DEF Fired
    <3>3. Before(q, r)
      BY <3>2 DEF RulesInv, InOrder
    <3>4. Sooner(q, r)
      BY <2>1, <3>2, <3>3, BeforeOrders
    <3> QED BY <3>1, <3>2, <3>4 DEF Reached
  <2>4. Prepared \ todo = Visited
    BY DEF Visited
  <2>5. Firing = Fired
    BY <2>1, <2>2, <2>3, <2>4, SoundIsPrepared DEF Firing, Fired
  <2>6. Late = {r \in Visited : Overran(r)}
    BY <2>1, <2>2, <2>3, <2>4 DEF Late
  <2>7. \A q, r \in Fired : Sooner(q, r) <=> Before(q, r)
    BY <2>1, BeforeOrders DEF Fired
  <2> QED BY <2>5, <2>6, <2>7 DEF RulesInv, MatchedSoFar, TimedOutSoFar
<1> QED BY <1>1, RulesInvHolds, PTL
=============================================================================
