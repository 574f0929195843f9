--------------------------- MODULE SendingProofs ----------------------------
(***************************************************************************)
(* What holds of a message on its way out, for any set of requests and     *)
(* messages, any TTL, timeout and limit on a sweep: first the requests     *)
(* that share an idempotency key (IdempotentSend), then the row of a sent  *)
(* message (AckTracking).  That silence is noticed stays with TLC.         *)
(*                                                                         *)
(* The argument about the key: a request past reserve() is younger than a  *)
(* TTL, and its reservation is no older than itself, so nobody finds it    *)
(* expired.  That makes the holder unique (HolderOwnsKey).  A message      *)
(* WhatsApp has is then in one of two positions (EveryTakenPlaced): its    *)
(* reservation still is the row, and nobody else holds it; or its window   *)
(* is over, and so it was when the present row, if any, was reserved.      *)
(***************************************************************************)
EXTENDS IdempotentSend, AckTracking, TLAPS

After == {"record", "complete", "failed", "accepted", "unrecorded", "error", "gone"}

\* Where a request whose message is out can be, and which must have one.
TakenWhere ==
    /\ \A c \in taken : pc[c] \in After
    /\ \A c \in Callers : pc[c] \in {"record", "complete", "failed"} => c \in taken

\* No clock was read in the future, and live requests are younger than a TTL.
Clocks ==
    /\ \A c \in Callers : start[c] <= now /\ window[c] <= now
    /\ \A c \in Callers : Live(c) => now < start[c] + TTL
    /\ Present => key.created <= now

\* A reservation is made after its request began.
WindowAfterStart == \A c \in Callers : pc[c] \in Holding => start[c] <= window[c]

Standing(c) ==
    /\ Present
    /\ key.created = window[c]
    /\ \A d \in Callers : pc[d] \in Holding => d = c

Past(c) ==
    /\ now > window[c] + TTL
    /\ Present => key.created > window[c] + TTL

EveryTakenPlaced == \A c \in taken : Standing(c) \/ Past(c)

\* A completed row answers for a message that is out, with the same body.
AnswerBacked ==
    key.state \in {"accepted", "unrecorded"} =>
        \E c \in taken : BodyOf[c] = key.body

OnceInv ==
    /\ SendTypeOK
    /\ TakenWhere
    /\ Clocks
    /\ WindowAfterStart
    /\ HolderOwnsKey
    /\ EveryTakenPlaced
    /\ OncePerWindow
    /\ AnswerBacked

\* The same of an engine that may throw for a message it took: the request
\* that sent it goes on to release, and once it has it is in neither position.
TakenAnywhere ==
    /\ \A c \in taken : pc[c] \in After \union {"release", "unavailable"}
    /\ \A c \in Callers : pc[c] \in {"record", "complete", "failed"} => c \in taken
    /\ ThrowsAfterTaking \/ \A c \in taken : pc[c] \in After

PlacedUnlessFailed == \A c \in taken : pc[c] = "unavailable" \/ Standing(c) \/ Past(c)

HoldInv ==
    /\ SendTypeOK
    /\ TakenAnywhere
    /\ Clocks
    /\ WindowAfterStart
    /\ HolderOwnsKey
    /\ PlacedUnlessFailed
    /\ RepeatNeedsFailure
    /\ AnswerBacked

----------------------------------------------------------------------------

LEMMA AbsentType == Absent \in [state : KeyStates, body : Bodies \union {"none"}, created : Nat]
  BY DEF Absent, KeyStates

LEMMA ReservationType ==
  ASSUME NEW c \in Callers, NEW at \in Nat
  PROVE  Reservation(c, at) \in [state : KeyStates, body : Bodies \union {"none"}, created : Nat]
  BY SendAssumption DEF Reservation, KeyStates

\* The declared types of the row, the requests and the history hold of every
\* reachable state of the send protocol.
THEOREM TypeCorrect == Spec => []SendTypeOK
<1>1. Init => SendTypeOK
  BY AbsentType DEF Init, SendTypeOK
<1>2. SendTypeOK /\ [Next]_vars => SendTypeOK'
  <2> SUFFICES ASSUME SendTypeOK, [Next]_vars
               PROVE  SendTypeOK'
    OBVIOUS
  <2> USE SendAssumption, AbsentType DEF SendTypeOK
  <2>1. ASSUME NEW c \in Callers, Request(c)
        PROVE  SendTypeOK'
    <3>1. CASE Arrive(c)
      BY <3>1 DEF Arrive, Goto, Reserving
    <3>2. CASE Lookup(c, "lookup", "insert")
      BY <3>2 DEF Lookup, Goto, Found, Reserving, Ended
    <3>3. CASE Insert(c)
      BY <3>3, ReservationType DEF Insert, Goto, Holding
    <3>4. CASE InsertLost(c)
      BY <3>4 DEF InsertLost, Goto, Reserving
    <3>5. CASE Reread(c)
      BY <3>5 DEF Reread, Goto, Reserving
    <3>6. CASE TakeOver(c)
      BY <3>6, ReservationType DEF TakeOver, Goto, Holding
    <3>7. CASE TakeOverLost(c)
      BY <3>7 DEF TakeOverLost, Goto, Reserving
    <3>8. CASE Lookup(c, "again", "in_flight")
      BY <3>8 DEF Lookup, Goto, Found, Ended
    <3>9. CASE Resolve(c)
      BY <3>9 DEF Resolve, Goto, Holding
    <3>10. CASE EngineTakes(c)
      BY <3>10 DEF EngineTakes, Goto, Holding
    <3>11. CASE EngineThrows(c)
      BY <3>11 DEF EngineThrows, Goto, Holding
    <3>12. CASE Record(c)
      BY <3>12 DEF Record, Goto, Holding
    <3>13. CASE Complete(c, "complete", "accepted")
      BY <3>13 DEF Complete, Goto, Ended, KeyStates
    <3>14. CASE Complete(c, "failed", "unrecorded")
      BY <3>14 DEF Complete, Goto, Ended, KeyStates
    <3>15. CASE Release(c)
      BY <3>15 DEF Release, Goto, Ended
    <3>16. CASE StoreFails(c)
      BY <3>16 DEF StoreFails, Goto, Ended
    <3> QED
      BY <2>1, <3>1, <3>2, <3>3, <3>4, <3>5, <3>6, <3>7, <3>8, <3>9, <3>10,
         <3>11, <3>12, <3>13, <3>14, <3>15, <3>16 DEF Request
  <2>2. CASE SweepKeys
    BY <2>2 DEF SweepKeys
  <2>3. CASE Crash
    BY <2>3 DEF Crash, Ended
  <2>4. CASE Tick
    BY <2>4 DEF Tick
  <2>5. CASE UNCHANGED vars
    BY <2>5 DEF vars
  <2> QED
    BY <2>1, <2>2, <2>3, <2>4, <2>5 DEF Next
<1> QED
  BY <1>1, <1>2, PTL DEF Spec

----------------------------------------------------------------------------
\* HoldInv is inductive when requests are prompt.
THEOREM HoldInductive ==
  ASSUME Prompt
  PROVE  Spec => []HoldInv
<1>1. Init => HoldInv
  BY AbsentType DEF Init, HoldInv, SendTypeOK, TakenAnywhere, Clocks, WindowAfterStart,
     HolderOwnsKey, PlacedUnlessFailed, RepeatNeedsFailure, AnswerBacked, Live, Present,
     Absent, Reserving, Holding, Ended
<1>2. HoldInv /\ SendTypeOK' /\ [Next]_vars => HoldInv'
  <2> SUFFICES ASSUME HoldInv, SendTypeOK', [Next]_vars
               PROVE  HoldInv'
    OBVIOUS
  <2> USE SendAssumption DEF HoldInv, SendTypeOK, TakenAnywhere, Clocks, WindowAfterStart,
          HolderOwnsKey, PlacedUnlessFailed, RepeatNeedsFailure, AnswerBacked, Live, Present,
          Standing, Past, Reserving, Holding, After, Reservation
  <2>1. ASSUME NEW c \in Callers, Request(c)
        PROVE  HoldInv'
    <3>1. CASE Arrive(c)
      BY <3>1 DEF Arrive, Goto
    <3>2. CASE Lookup(c, "lookup", "insert")
      BY <3>2 DEF Lookup, Goto, Found
    <3>3. CASE Insert(c)
      BY <3>3 DEF Insert, Goto, Reservation
    <3>4. CASE InsertLost(c)
      BY <3>4 DEF InsertLost, Goto
    <3>5. CASE Reread(c)
      BY <3>5 DEF Reread, Goto
    <3>6. CASE TakeOver(c)
      BY <3>6 DEF TakeOver, Goto, Reservation
    <3>7. CASE TakeOverLost(c)
      BY <3>7 DEF TakeOverLost, Goto
    <3>8. CASE Lookup(c, "again", "in_flight")
      BY <3>8 DEF Lookup, Goto, Found
    <3>9. CASE Resolve(c)
      BY <3>9 DEF Resolve, Goto
    <3>10. CASE EngineTakes(c)
      BY <3>10 DEF EngineTakes, Goto
    <3>11. CASE EngineThrows(c)
      BY <3>11 DEF EngineThrows, Goto
    <3>12. CASE Record(c)
      BY <3>12 DEF Record, Goto
    <3>13. CASE Complete(c, "complete", "accepted")
      BY <3>13 DEF Complete, Goto
    <3>14. CASE Complete(c, "failed", "unrecorded")
      BY <3>14 DEF Complete, Goto
    <3>15. CASE Release(c)
      BY <3>15 DEF Release, Goto, Absent
    <3>16. CASE StoreFails(c)
      BY <3>16 DEF StoreFails, Goto
    <3> QED
      BY <2>1, <3>1, <3>2, <3>3, <3>4, <3>5, <3>6, <3>7, <3>8, <3>9, <3>10, <3>11, <3>12, <3>13, <3>14, <3>15, <3>16 DEF Request
  <2>2. CASE SweepKeys
    BY <2>2 DEF SweepKeys, Absent
  <2>3. CASE Crash
    BY <2>3 DEF Crash
  <2>4. CASE Tick
    BY <2>4 DEF Tick
  <2>5. CASE UNCHANGED vars
    BY <2>5 DEF vars
  <2> QED
    BY <2>1, <2>2, <2>3, <2>4, <2>5 DEF Next
<1> QED
  BY <1>1, <1>2, TypeCorrect, PTL DEF Spec

\* Of an engine that never throws for a message it took, OnceInv holds too.
LEMMA HonestEngine ==
  ASSUME ~ThrowsAfterTaking, HoldInv
  PROVE  OnceInv
<1>1. \A c \in taken : pc[c] \in After /\ pc[c] # "unavailable"
  BY DEF HoldInv, TakenAnywhere, After
<1>2. TakenWhere
  BY <1>1 DEF HoldInv, TakenAnywhere, TakenWhere
<1>3. EveryTakenPlaced
  BY <1>1 DEF HoldInv, PlacedUnlessFailed, EveryTakenPlaced
<1>4. OncePerWindow
  BY <1>1 DEF HoldInv, RepeatNeedsFailure, OncePerWindow
<1> QED
  BY <1>2, <1>3, <1>4 DEF HoldInv, OnceInv

\* OnceInv is an invariant when requests are prompt and the engine is honest.
THEOREM OnceInductive ==
  ASSUME Prompt, ~ThrowsAfterTaking
  PROVE  Spec => []OnceInv
<1>1. HoldInv => OnceInv
  BY HonestEngine
<1> QED
  BY <1>1, HoldInductive, PTL

\* The requests past reserve() number at most one, and the row of the key is
\* that request's own reservation: complete() and release() need no owner.
\* This is so whether or not the engine throws for messages it took.
THEOREM HolderAlone ==
  ASSUME Prompt
  PROVE  Spec => []HolderOwnsKey
<1>1. HoldInv => HolderOwnsKey
  BY DEF HoldInv
<1> QED
  BY <1>1, HoldInductive, PTL

\* Whatever is retried, crashes, expires or races, no two messages go out under
\* one key within a TTL of each other's reservation.
THEOREM SentOncePerWindow ==
  ASSUME Prompt, ~ThrowsAfterTaking
  PROVE  Spec => []OncePerWindow
<1>1. OnceInv => OncePerWindow
  BY DEF OnceInv
<1> QED
  BY <1>1, OnceInductive, PTL

\* Whatever the engine does with a message before it throws, a second one is
\* out too early only if the caller of one of the two was told it failed.
THEOREM RepeatAfterFailure ==
  ASSUME Prompt
  PROVE  Spec => []RepeatNeedsFailure
<1>1. HoldInv => RepeatNeedsFailure
  BY DEF HoldInv
<1> QED
  BY <1>1, HoldInductive, PTL

----------------------------------------------------------------------------
(* The refinement: the rows and the requests seen as SendOnce sees them.   *)

Out == {[body |-> BodyOf[c], at |-> window[c]] : c \in taken}
Said == [c \in Callers |-> IF pc[c] \in Ended THEN pc[c] ELSE "nothing"]

\* A request that has not ended is not answered, and one that ends now is.
LEMMA EndingTells ==
  ASSUME SendTypeOK, NEW c \in Callers, NEW answer \in Ended,
         pc[c] \notin Ended, pc' = [pc EXCEPT ![c] = answer], Out' = Out,
         answer \in Promise!Sent => \E m \in Out : m.body = BodyOf[c]
  PROVE  Promise!PromiseNext
<1>1. Said[c] = "nothing" /\ Said' = [Said EXCEPT ![c] = answer]
  BY DEF Said, SendTypeOK
<1>2. answer \in Promise!Sent \union Promise!NotSent \union Promise!NoWord
  BY DEF Ended, Promise!Sent, Promise!NotSent, Promise!NoWord
<1>3. Promise!Tell(c, answer)
  BY <1>1 DEF Promise!Tell, Said, Out
<1> QED
  BY <1>2, <1>3 DEF Promise!PromiseNext, Promise!Answer, Out

\* A request that moves without ending says nothing.
LEMMA MovingTellsNothing ==
  ASSUME SendTypeOK, NEW c \in Callers, NEW to \in Reserving \union Holding,
         pc[c] \notin Ended, pc' = [pc EXCEPT ![c] = to]
  PROVE  Said' = Said
  BY DEF Said, SendTypeOK, Reserving, Holding, Ended

\* lookup() has three outcomes.
LEMMA FoundThree ==
  ASSUME NEW c \in Callers
  PROVE  Found(c) \in {"nothing", "conflict", "replayed"}
  BY Zenon DEF Found

\* A message that is out is among those SendOnce sees, with its body.
LEMMA OutHas ==
  ASSUME NEW c \in taken
  PROVE  \E m \in Out : m.body = BodyOf[c]
<1> DEFINE m == [body |-> BodyOf[c], at |-> window[c]]
<1>1. m \in Out
  BY DEF Out
<1>2. m.body = BodyOf[c]
  OBVIOUS
<1> QED
  BY <1>1, <1>2

\* A replayed answer is one that complete() stored for a message that is out.
LEMMA FoundAnswer ==
  ASSUME OnceInv, NEW c \in Callers, Found(c) = "replayed"
  PROVE  \E m \in Out : m.body = BodyOf[c]
<1>1. Current(c) /\ key.body = BodyOf[c] /\ key.state # "reserved"
  BY Zenon DEF Found
<1>2. key.state \in {"accepted", "unrecorded"}
  BY <1>1 DEF Current, Present, OnceInv, SendTypeOK, KeyStates
<1>3. PICK d \in taken : BodyOf[d] = key.body
  BY <1>2 DEF OnceInv, AnswerBacked
<1> QED
  BY <1>1, <1>3, OutHas

\* What the send route does, seen from its callers and from WhatsApp, is what
\* SendOnce promises: one message a window, and no word of one that is not out.
THEOREM ImplementsPromise ==
  ASSUME Prompt, ~ThrowsAfterTaking
  PROVE  Spec => SendsOnce
<1>1. Init => Promise!PromiseInit
  BY DEF Init, Promise!PromiseInit, Ended
<1>2. OnceInv /\ OnceInv' /\ [Next]_vars =>
        [Promise!PromiseNext]_<<Out, Said>>
  <2> SUFFICES ASSUME OnceInv, OnceInv', [Next]_vars
               PROVE  Promise!PromiseNext \/ (Out' = Out /\ Said' = Said)
    BY DEF Out, Said
  <2> USE SendAssumption DEF OnceInv
  <2>1. ASSUME NEW c \in Callers, Request(c)
        PROVE  Promise!PromiseNext \/ (Out' = Out /\ Said' = Said)
    <3>1. CASE Arrive(c)
      <4>1. Said' = Said
        BY <3>1, MovingTellsNothing DEF Arrive, Goto, Reserving, Ended
      <4>2. Out' = Out
        BY <3>1 DEF Arrive, Goto, Reserving, Ended, Out, TakenWhere, After, SendTypeOK
      <4> QED
        BY <4>1, <4>2
    <3>2. CASE Lookup(c, "lookup", "insert")
      <4>1. Out' = Out
        BY <3>2 DEF Lookup, Out
      <4>2. pc[c] \notin Ended
        BY <3>2 DEF Lookup, Goto, Ended
      <4>3. CASE Found(c) = "nothing"
        BY <4>1, <4>2, <4>3, <3>2, MovingTellsNothing DEF Lookup, Goto, Reserving
      <4>4. CASE Found(c) = "conflict"
        <5>1. "conflict" \in Ended /\ "conflict" \notin Promise!Sent
          BY DEF Ended, Promise!Sent
        <5>2. pc' = [pc EXCEPT ![c] = "conflict"]
          BY <4>4, <3>2 DEF Lookup, Goto
        <5> QED
          BY <4>1, <4>2, <5>1, <5>2, EndingTells
      <4>5. CASE Found(c) = "replayed"
        <5>1. "replayed" \in Ended
          BY DEF Ended
        <5>2. pc' = [pc EXCEPT ![c] = "replayed"]
          BY <4>5, <3>2 DEF Lookup, Goto
        <5>3. \E m \in Out : m.body = BodyOf[c]
          BY <4>5, FoundAnswer
        <5> QED
          BY <4>1, <4>2, <5>1, <5>2, <5>3, EndingTells
      <4> QED
        BY <4>3, <4>4, <4>5, FoundThree
    <3>3. CASE Insert(c)
      <4>1. Said' = Said
        BY <3>3, MovingTellsNothing DEF Insert, Goto, Holding, Ended
      <4>2. Out' = Out
        BY <3>3 DEF Insert, Goto, Holding, Ended, Out, TakenWhere, After, SendTypeOK
      <4> QED
        BY <4>1, <4>2
    <3>4. CASE InsertLost(c)
      <4>1. Said' = Said
        BY <3>4, MovingTellsNothing DEF InsertLost, Goto, Reserving, Ended
      <4>2. Out' = Out
        BY <3>4 DEF InsertLost, Goto, Reserving, Ended, Out, TakenWhere, After, SendTypeOK
      <4> QED
        BY <4>1, <4>2
    <3>5. CASE Reread(c)
      <4>1. Said' = Said
        BY <3>5, MovingTellsNothing DEF Reread, Goto, Reserving, Ended
      <4>2. Out' = Out
        BY <3>5 DEF Reread, Goto, Reserving, Ended, Out, TakenWhere, After, SendTypeOK
      <4> QED
        BY <4>1, <4>2
    <3>6. CASE TakeOver(c)
      <4>1. Said' = Said
        BY <3>6, MovingTellsNothing DEF TakeOver, Goto, Holding, Ended
      <4>2. Out' = Out
        BY <3>6 DEF TakeOver, Goto, Holding, Ended, Out, TakenWhere, After, SendTypeOK
      <4> QED
        BY <4>1, <4>2
    <3>7. CASE TakeOverLost(c)
      <4>1. Said' = Said
        BY <3>7, MovingTellsNothing DEF TakeOverLost, Goto, Reserving, Ended
      <4>2. Out' = Out
        BY <3>7 DEF TakeOverLost, Goto, Reserving, Ended, Out, TakenWhere, After, SendTypeOK
      <4> QED
        BY <4>1, <4>2
    <3>8. CASE Lookup(c, "again", "in_flight")
      <4>1. Out' = Out
        BY <3>8 DEF Lookup, Out
      <4>2. pc[c] \notin Ended
        BY <3>8 DEF Lookup, Goto, Ended
      <4>3. CASE Found(c) = "nothing"
        <5>1. "in_flight" \in Ended /\ "in_flight" \notin Promise!Sent
          BY DEF Ended, Promise!Sent
        <5>2. pc' = [pc EXCEPT ![c] = "in_flight"]
          BY <4>3, <3>8 DEF Lookup, Goto
        <5> QED
          BY <4>1, <4>2, <5>1, <5>2, EndingTells
      <4>4. CASE Found(c) = "conflict"
        <5>1. "conflict" \in Ended /\ "conflict" \notin Promise!Sent
          BY DEF Ended, Promise!Sent
        <5>2. pc' = [pc EXCEPT ![c] = "conflict"]
          BY <4>4, <3>8 DEF Lookup, Goto
        <5> QED
          BY <4>1, <4>2, <5>1, <5>2, EndingTells
      <4>5. CASE Found(c) = "replayed"
        <5>1. "replayed" \in Ended
          BY DEF Ended
        <5>2. pc' = [pc EXCEPT ![c] = "replayed"]
          BY <4>5, <3>8 DEF Lookup, Goto
        <5>3. \E m \in Out : m.body = BodyOf[c]
          BY <4>5, FoundAnswer
        <5> QED
          BY <4>1, <4>2, <5>1, <5>2, <5>3, EndingTells
      <4> QED
        BY <4>3, <4>4, <4>5, FoundThree
    <3>9. CASE Resolve(c)
      <4>1. Said' = Said
        BY <3>9, MovingTellsNothing DEF Resolve, Goto, Holding, Ended
      <4>2. Out' = Out
        BY <3>9 DEF Resolve, Goto, Holding, Ended, Out, TakenWhere, After, SendTypeOK
      <4> QED
        BY <4>1, <4>2
    <3>10. CASE EngineTakes(c)
      <4> DEFINE new == [body |-> BodyOf[c], at |-> window[c]]
      <4>1. Said' = Said
        BY <3>10, MovingTellsNothing DEF EngineTakes, Goto, Holding, Ended
      <4>2. Out' = Out \union {new}
        BY <3>10 DEF EngineTakes, Out
      <4>3. ASSUME NEW m \in Out
            PROVE  new.at > m.at + TTL
        <5>1. PICK d \in taken : m = [body |-> BodyOf[d], at |-> window[d]]
          BY DEF Out
        <5>2. pc[c] \in Holding /\ c # d
          BY <3>10 DEF EngineTakes, Goto, Holding, TakenWhere, After
        <5>3. Past(d) /\ Present /\ key.created = window[c]
          BY <5>2 DEF EveryTakenPlaced, Standing, HolderOwnsKey, Reservation, Present
        <5> QED
          BY <5>1, <5>3 DEF Past
      <4>4. new \in Out' /\ new.body \in Bodies
        BY <4>2
      <4> QED
        BY <4>1, <4>2, <4>3, <4>4 DEF Promise!PromiseNext, Promise!Accept, Out, Said
    <3>11. CASE EngineThrows(c)
      <4>1. Said' = Said
        BY <3>11, MovingTellsNothing DEF EngineThrows, Goto, Holding, Ended
      <4>2. Out' = Out
        BY <3>11 DEF EngineThrows, Goto, Holding, Ended, Out, TakenWhere, After, SendTypeOK
      <4> QED
        BY <4>1, <4>2
    <3>12. CASE Record(c)
      <4>1. Said' = Said
        BY <3>12, MovingTellsNothing DEF Record, Goto, Holding, Ended
      <4>2. Out' = Out
        BY <3>12 DEF Record, Goto, Holding, Ended, Out, TakenWhere, After, SendTypeOK
      <4> QED
        BY <4>1, <4>2
    <3>13. CASE Complete(c, "complete", "accepted")
      <4>1. Out' = Out
        BY <3>13 DEF Complete, Out
      <4>2. pc[c] \notin Ended /\ pc' = [pc EXCEPT ![c] = "accepted"] /\ "accepted" \in Ended
        BY <3>13 DEF Complete, Goto, Ended
      <4>3. c \in taken
        BY <3>13 DEF Complete, Goto, TakenWhere
      <4>4. \E m \in Out : m.body = BodyOf[c]
        BY <4>3, OutHas
      <4> QED
        BY <4>1, <4>2, <4>4, EndingTells
    <3>14. CASE Complete(c, "failed", "unrecorded")
      <4>1. Out' = Out
        BY <3>14 DEF Complete, Out
      <4>2. pc[c] \notin Ended /\ pc' = [pc EXCEPT ![c] = "unrecorded"] /\ "unrecorded" \in Ended
        BY <3>14 DEF Complete, Goto, Ended
      <4>3. c \in taken
        BY <3>14 DEF Complete, Goto, TakenWhere
      <4>4. \E m \in Out : m.body = BodyOf[c]
        BY <4>3, OutHas
      <4> QED
        BY <4>1, <4>2, <4>4, EndingTells
    <3>15. CASE Release(c)
      <4>1. Out' = Out
        BY <3>15 DEF Release, Out
      <4>2. /\ pc[c] \notin Ended /\ pc' = [pc EXCEPT ![c] = "unavailable"]
            /\ "unavailable" \in Ended /\ "unavailable" \notin Promise!Sent
        BY <3>15 DEF Release, Goto, Ended, Promise!Sent
      <4> QED
        BY <4>1, <4>2, EndingTells
    <3>16. CASE StoreFails(c)
      <4>1. Out' = Out
        BY <3>16 DEF StoreFails, Out
      <4>2. /\ pc[c] \notin Ended /\ pc' = [pc EXCEPT ![c] = "error"]
            /\ "error" \in Ended /\ "error" \notin Promise!Sent
        BY <3>16 DEF StoreFails, Goto, Ended, Reserving, Promise!Sent
      <4> QED
        BY <4>1, <4>2, EndingTells
    <3> QED
      BY <2>1, <3>1, <3>2, <3>3, <3>4, <3>5, <3>6, <3>7, <3>8, <3>9, <3>10, <3>11, <3>12, <3>13, <3>14, <3>15, <3>16 DEF Request
  <2>2. CASE SweepKeys
    BY <2>2 DEF SweepKeys, Out, Said
  <2>3. CASE Crash
    <3> DEFINE lost == {c \in Callers : Live(c)}
    <3>1. lost \in SUBSET {c \in Callers : Said[c] = "nothing"}
      BY DEF Said, Live, Reserving, Holding, Ended, SendTypeOK
    <3>2. Said' = [c \in Callers |-> IF c \in lost THEN "gone" ELSE Said[c]]
      BY <2>3 DEF Crash, Said, Ended
    <3>3. Out' = Out
      BY <2>3 DEF Crash, Out
    <3> QED
      BY <3>1, <3>2, <3>3 DEF Promise!PromiseNext, Promise!Silence, Out, Said
  <2>4. CASE Tick
    BY <2>4 DEF Tick, Out, Said
  <2>5. CASE UNCHANGED vars
    BY <2>5 DEF vars, Out, Said
  <2> QED
    BY <2>1, <2>2, <2>3, <2>4, <2>5 DEF Next
<1> QED
  BY <1>1, <1>2, OnceInductive, PTL
     DEF Spec, SendsOnce, Promise!PromiseSpec, Out, Said

-----------------------------------------------------------------------------
(* Acknowledgements and silence (AckTracking).                             *)

\* A row is there only once the route that sends the message is done.
RowAfterRoute == \A m \in Messages : route[m] # "ended" => state[m] = "none"

\* The consumer holds an acknowledgement only of a message that has a row.
InHandHasRow == consumer # Idle => state[consumer[1]] # "none"

\* What was heard of was acknowledged, or will never have a row.
HeardWhere ==
    \A m \in heard :
        \/ state[m] \in Acked
        \/ state[m] = "none" /\ route[m] = "ended"

Safe == AckTypeOK /\ UndeliveredMeansAnnounced /\ RowAfterRoute /\ InHandHasRow

\* The acknowledgement in the consumer's hands is a message and a status.
LEMMA InHand ==
  ASSUME AckTypeOK, consumer # Idle
  PROVE  consumer[1] \in Messages /\ consumer[2] \in Acked
  BY DEF AckTypeOK

\* The invariants that carry the three properties are inductive together.
THEOREM SafeAlways == AckSpec => []Safe
<1>1. AckInit => Safe
  BY AckAssumption DEF AckInit, Safe, AckTypeOK, UndeliveredMeansAnnounced, RowAfterRoute,
     InHandHasRow, Acked
<1>2. Safe /\ [AckNext]_ackVars => Safe'
  <2> SUFFICES ASSUME Safe, [AckNext]_ackVars
               PROVE  Safe'
    OBVIOUS
  <2> USE AckAssumption DEF Safe, AckTypeOK, UndeliveredMeansAnnounced, RowAfterRoute,
          InHandHasRow, Acked
  <2>1. ASSUME NEW m \in Messages, EngineAccepts(m)
        PROVE  Safe'
    BY <2>1 DEF EngineAccepts
  <2>2. ASSUME NEW m \in Messages, RecordAccepted(m)
        PROVE  Safe'
    BY <2>2 DEF RecordAccepted
  <2>3. ASSUME NEW m \in Messages, NEW status \in Acked, EngineAcks(m, status)
        PROVE  Safe'
    BY <2>3 DEF EngineAcks
  <2>4. ASSUME NEW m \in Messages, NEW status \in Acked, FindAcked(m, status)
        PROVE  Safe'
    <3>1. <<m, status>> \in Messages \X Acked /\ <<m, status>>[1] = m
      OBVIOUS
    <3>2. consumer' = Idle \/ (consumer' = <<m, status>> /\ state[m] # "none")
      BY <2>4 DEF FindAcked
    <3>3. consumer' \in {Idle} \union (Messages \X Acked) /\ InHandHasRow'
      BY <2>4, <3>1, <3>2 DEF FindAcked
    <3>4. acks' \subseteq Messages \X Acked /\ heard' \subseteq Messages
      BY <2>4 DEF FindAcked
    <3> QED
      BY <2>4, <3>3, <3>4 DEF FindAcked
  <2>5. ASSUME NEW m \in Messages, MarkUndelivered(m)
        PROVE  Safe'
    BY <2>5 DEF MarkUndelivered
  <2>6. ASSUME NEW m \in Messages, SkipMessage(m)
        PROVE  Safe'
    BY <2>6 DEF SkipMessage
  <2>7. CASE RecordAck
    BY <2>7, InHand DEF RecordAck, AckableFrom
  <2>8. CASE RecordAckFails
    BY <2>8 DEF RecordAckFails
  <2>9. CASE FindUnacked
    BY <2>9 DEF FindUnacked, Unacked
  <2>10. CASE TimePasses
    BY <2>10 DEF TimePasses
  <2>11. CASE ProcessRestart
    BY <2>11 DEF ProcessRestart
  <2>12. CASE UNCHANGED ackVars
    BY <2>12 DEF ackVars
  <2> QED
    BY <2>1, <2>2, <2>3, <2>4, <2>5, <2>6, <2>7, <2>8, <2>9, <2>10, <2>11, <2>12
       DEF AckNext
<1> QED
  BY <1>1, <1>2, PTL DEF AckSpec

\* A row is undelivered only with its event in the queue, and announced only
\* once it left "accepted", in every reachable state.
THEOREM UndeliveredAnnounced == AckSpec => [](AckTypeOK /\ UndeliveredMeansAnnounced)
<1>1. Safe => AckTypeOK /\ UndeliveredMeansAnnounced
  BY DEF Safe
<1> QED
  BY <1>1, SafeAlways, PTL

\* No step takes an acknowledged message back: not a repeated or late
\* acknowledgement, not the sweep that selected it before it was acknowledged.
THEOREM Monotone == AckSpec => NeverRegresses
<1>1. Safe /\ [AckNext]_ackVars =>
        [\A m \in Messages :
            /\ state[m] = "read" => state'[m] = "read"
            /\ state[m] = "delivered" => state'[m] \in Acked]_ackVars
  <2> SUFFICES ASSUME Safe, AckNext
               PROVE  \A m \in Messages :
                        /\ state[m] = "read" => state'[m] = "read"
                        /\ state[m] = "delivered" => state'[m] \in Acked
    BY DEF Safe, AckTypeOK, Acked
  <2> USE DEF Safe, AckTypeOK, Acked
  <2>1. ASSUME NEW n \in Messages, MarkUndelivered(n)
        PROVE  state' = [state EXCEPT ![n] = "undelivered"] /\ state[n] = "accepted"
    BY <2>1 DEF MarkUndelivered
  <2>2. ASSUME NEW n \in Messages, RecordAccepted(n)
        PROVE  state' \in {state, [state EXCEPT ![n] = "accepted"]} /\ state[n] = "none"
    BY <2>2 DEF RecordAccepted, RowAfterRoute
  <2>3. CASE RecordAck
    BY <2>3, InHand DEF RecordAck, AckableFrom
  <2>4. state' = state \/ RecordAck \/ (\E n \in Messages : MarkUndelivered(n) \/ RecordAccepted(n))
    BY DEF AckNext, EngineAccepts, EngineAcks, FindAcked, SkipMessage, RecordAckFails,
           FindUnacked, TimePasses, ProcessRestart
  <2> QED
    BY <2>1, <2>2, <2>3, <2>4
<1> QED
  BY <1>1, SafeAlways, PTL DEF AckSpec, NeverRegresses

\* When acknowledgements are consumed only after the insert, no message is
\* announced undelivered after the consumer heard an acknowledgement of it.
THEOREM HeardNotAnnounced ==
  ASSUME AckAfterRecord
  PROVE  AckSpec => HeardIsNotAnnounced
<1>1. AckInit => HeardWhere
  BY DEF AckInit, HeardWhere
<1>2. Safe /\ HeardWhere /\ [AckNext]_ackVars => HeardWhere'
  <2> SUFFICES ASSUME Safe, HeardWhere, [AckNext]_ackVars
               PROVE  HeardWhere'
    OBVIOUS
  <2> USE DEF Safe, AckTypeOK, HeardWhere, Acked
  <2>1. ASSUME NEW m \in Messages, EngineAccepts(m)
        PROVE  HeardWhere'
    BY <2>1 DEF EngineAccepts
  <2>2. ASSUME NEW m \in Messages, RecordAccepted(m)
        PROVE  HeardWhere'
    BY <2>2 DEF RecordAccepted, RowAfterRoute
  <2>3. ASSUME NEW m \in Messages, NEW status \in Acked, FindAcked(m, status)
        PROVE  HeardWhere'
    BY <2>3 DEF FindAcked
  <2>4. ASSUME NEW m \in Messages, MarkUndelivered(m)
        PROVE  HeardWhere'
    BY <2>4 DEF MarkUndelivered
  <2>5. CASE RecordAck
    BY <2>5, InHand DEF RecordAck, AckableFrom, InHandHasRow, UndeliveredMeansAnnounced
  <2>6. CASE ProcessRestart
    BY <2>6 DEF ProcessRestart
  <2>7. CASE UNCHANGED <<route, state, heard>>
    BY <2>7
  <2> QED
    BY <2>1, <2>2, <2>3, <2>4, <2>5, <2>6, <2>7
       DEF AckNext, ackVars, EngineAcks, SkipMessage, RecordAckFails, FindUnacked, TimePasses
<1>3. Safe /\ HeardWhere /\ [AckNext]_ackVars =>
        [\A m \in announced' \ announced : m \notin heard]_ackVars
  <2> SUFFICES ASSUME Safe, HeardWhere, AckNext,
                      NEW m \in announced' \ announced
               PROVE  m \notin heard
    BY DEF Safe
  <2>1. MarkUndelivered(m)
    BY DEF AckNext, EngineAccepts, RecordAccepted, EngineAcks, FindAcked, MarkUndelivered,
           SkipMessage, RecordAck, RecordAckFails, FindUnacked, TimePasses, ProcessRestart
  <2> QED
    BY <2>1 DEF MarkUndelivered, HeardWhere, Acked
<1> QED
  BY <1>1, <1>2, <1>3, SafeAlways, PTL DEF AckSpec, HeardIsNotAnnounced
=============================================================================
