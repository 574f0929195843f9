---------------------------- MODULE AckTracking ----------------------------
(***************************************************************************)
(* What happens to messages once the engine took them: the row the send    *)
(* route inserts (`outbound_messages`), the acknowledgements the engine's  *)
(* event stream brings (src/engine/consumer.ts), and the sweep that turns  *)
(* silence into a `message.undelivered` event (src/ops/housekeeping.ts),   *)
(* all through src/stores/message-store.ts.                                *)
(*                                                                         *)
(* The route, the consumer and the sweep are three flows of one process;   *)
(* a step is what one of them does between two awaits.  The environment is *)
(* one that has a webhook for message.undelivered; for any other, enqueue  *)
(* does nothing and there is nobody to tell.                               *)
(***************************************************************************)
EXTENDS Integers, FiniteSets

CONSTANTS
    Messages,
    AckTimeout,       \* ACK_TIMEOUT_MS, in ticks
    Limit,            \* rows a sweep selects at most (500)
    AckAfterRecord,   \* whether an ack is consumed only once its row is there
    MaxRestarts       \* bound: process restarts

ASSUME AckAssumption ==
    /\ AckTimeout \in Nat
    /\ Limit \in Nat \ {0}
    /\ AckAfterRecord \in BOOLEAN
    /\ MaxRestarts \in Nat

VARIABLES
    route,      \* where the request sending each message is
    state,      \* outbound_messages.state, or "none" while there is no row
    age,        \* how long ago accepted_at was, up to just past the timeout
    acks,       \* acknowledgements in the engine's event stream
    consumer,   \* the acknowledgement whose row was found, and not yet updated
    batch,      \* what the sweep selected and has not come to yet
    announced,  \* messages whose undelivered event is in the delivery queue
    heard,      \* history: messages of which an ack was handled without an error
    restarts    \* process restarts so far

ackVars == <<route, state, age, acks, consumer, batch, announced, heard, restarts>>

Acked == {"delivered", "read"}
Idle == <<>>

AckTypeOK ==
    /\ route \in [Messages -> {"sending", "recording", "ended"}]
    /\ state \in [Messages -> {"none", "accepted", "undelivered"} \union Acked]
    /\ age \in [Messages -> 0..(AckTimeout + 1)]
    /\ acks \subseteq Messages \X Acked
    /\ consumer \in {Idle} \union (Messages \X Acked)
    /\ batch \subseteq Messages
    /\ announced \subseteq Messages
    /\ heard \subseteq Messages
    /\ restarts \in Nat

AckInit ==
    /\ route = [m \in Messages |-> "sending"]
    /\ state = [m \in Messages |-> "none"]
    /\ age = [m \in Messages |-> 0]
    /\ acks = {}
    /\ consumer = Idle
    /\ batch = {}
    /\ announced = {}
    /\ heard = {}
    /\ restarts = 0

----------------------------------------------------------------------------
(* The send route.                                                         *)

EngineAccepts(m) ==
    /\ route[m] = "sending"
    /\ route' = [route EXCEPT ![m] = "recording"]
    /\ UNCHANGED <<state, age, acks, consumer, batch, announced, heard, restarts>>

\* recordAccepted, or its failure: then the message is out and has no row.
RecordAccepted(m) ==
    /\ route[m] = "recording"
    /\ route' = [route EXCEPT ![m] = "ended"]
    /\ state' \in {state, [state EXCEPT ![m] = "accepted"]}
    /\ UNCHANGED <<age, acks, consumer, batch, announced, heard, restarts>>

----------------------------------------------------------------------------
(* Acknowledgements: WhatsApp may repeat and reorder them.                 *)

EngineAcks(m, status) ==
    /\ route[m] # "sending"
    /\ acks' = acks \union {<<m, status>>}
    /\ UNCHANGED <<route, state, age, consumer, batch, announced, heard, restarts>>

\* ackMessage's select: without a row there is nothing to acknowledge.
FindAcked(m, status) ==
    /\ consumer = Idle
    /\ <<m, status>> \in acks
    /\ AckAfterRecord => route[m] = "ended"
    /\ acks' = acks \ {<<m, status>>}
    /\ IF state[m] = "none"
       THEN consumer' = Idle /\ heard' = heard \union {m}
       ELSE consumer' = <<m, status>> /\ UNCHANGED heard
    /\ UNCHANGED <<route, state, age, batch, announced, restarts>>

\* ackableFrom: "read" is terminal, and a late answer still counts.
AckableFrom(status) ==
    {"accepted", "undelivered"} \union (IF status = "read" THEN {"delivered"} ELSE {})

\* recordAckById: an update that may match nothing any more.
RecordAck ==
    /\ consumer # Idle
    /\ LET m == consumer[1]  status == consumer[2] IN
          /\ state' = IF state[m] \in AckableFrom(status)
                      THEN [state EXCEPT ![m] = status] ELSE state
          /\ heard' = heard \union {m}
    /\ consumer' = Idle
    /\ UNCHANGED <<route, age, acks, batch, announced, restarts>>

\* The update throws: the event loop logs it, and the event is gone.
RecordAckFails ==
    /\ consumer # Idle
    /\ consumer' = Idle
    /\ UNCHANGED <<route, state, age, acks, batch, announced, heard, restarts>>

----------------------------------------------------------------------------
(* The sweep.                                                              *)

\* A timeout that only catches messages at the moment they reach it.
JustUnacked == {m \in Messages : state[m] = "accepted" /\ age[m] = AckTimeout}

Unacked == {m \in Messages : state[m] = "accepted" /\ age[m] > AckTimeout}

\* findUnacked: as many rows as the limit allows, in no particular order.
FindUnacked ==
    /\ batch = {}
    /\ Unacked # {}
    /\ batch' \in SUBSET Unacked
    /\ \/ Cardinality(batch') = Limit
       \/ Cardinality(batch') < Limit /\ batch' = Unacked
    /\ UNCHANGED <<route, state, age, acks, consumer, announced, heard, restarts>>

\* The update by primary key alone, believed to have matched.
MarkWithoutLooking(m) ==
    /\ m \in batch
    /\ batch' = batch \ {m}
    /\ state' = [state EXCEPT ![m] = "undelivered"]
    /\ announced' = announced \union {m}
    /\ UNCHANGED <<route, age, acks, consumer, heard, restarts>>

\* The event queued after the row was committed: a stop between loses it.
MarkThenEnqueue(m) ==
    /\ m \in batch
    /\ batch' = batch \ {m}
    /\ state[m] = "accepted"
    /\ state' = [state EXCEPT ![m] = "undelivered"]
    /\ announced' \in {announced, announced \union {m}}
    /\ UNCHANGED <<route, age, acks, consumer, heard, restarts>>

\* One transaction: markUndelivered matched a row, and the event is queued.
MarkUndelivered(m) ==
    /\ m \in batch
    /\ batch' = batch \ {m}
    /\ state[m] = "accepted"
    /\ state' = [state EXCEPT ![m] = "undelivered"]
    /\ announced' = announced \union {m}
    /\ UNCHANGED <<route, age, acks, consumer, heard, restarts>>

\* An ack came first, so nothing matched; or the transaction was rolled back.
SkipMessage(m) ==
    /\ m \in batch
    /\ batch' = batch \ {m}
    /\ UNCHANGED <<route, state, age, acks, consumer, announced, heard, restarts>>

----------------------------------------------------------------------------
(* Time, and the process.                                                  *)

TimePasses ==
    /\ \E m \in Messages : state[m] # "none" /\ age[m] <= AckTimeout
    /\ age' = [m \in Messages |->
                 IF state[m] # "none" /\ age[m] <= AckTimeout THEN age[m] + 1 ELSE age[m]]
    /\ UNCHANGED <<route, state, acks, consumer, batch, announced, heard, restarts>>

\* Requests, the event stream and the sweep's list are in memory.
ProcessRestart ==
    /\ restarts < MaxRestarts
    /\ restarts' = restarts + 1
    /\ route' = [m \in Messages |-> IF route[m] = "recording" THEN "ended" ELSE route[m]]
    /\ acks' = {}
    /\ consumer' = Idle
    /\ batch' = {}
    /\ UNCHANGED <<state, age, announced, heard>>

AckNext ==
    \/ \E m \in Messages :
          \/ EngineAccepts(m)
          \/ RecordAccepted(m)
          \/ \E status \in Acked : EngineAcks(m, status) \/ FindAcked(m, status)
          \/ MarkUndelivered(m)
          \/ SkipMessage(m)
    \/ RecordAck
    \/ RecordAckFails
    \/ FindUnacked
    \/ TimePasses
    \/ ProcessRestart

\* The housekeeping loop reschedules itself whatever a pass did, and a database
\* does not refuse the same message's transaction for ever.
AckFairness ==
    /\ WF_ackVars(TimePasses)
    /\ WF_ackVars(FindUnacked)
    /\ \A m \in Messages :
          WF_ackVars(MarkUndelivered(m) \/ SkipMessage(m)) /\ SF_ackVars(MarkUndelivered(m))

AckSpec == AckInit /\ [][AckNext]_ackVars /\ AckFairness

----------------------------------------------------------------------------
(* Properties.                                                             *)

\* A message is announced undelivered if and when its row says so, and the row
\* never stands without the event, wherever the process stops.
UndeliveredMeansAnnounced ==
    \A m \in Messages :
        /\ state[m] = "undelivered" => m \in announced
        /\ m \in announced => state[m] \notin {"none", "accepted"}

\* Nothing takes a message back: "read" stays read through repeated, reordered
\* and late acknowledgements, and a sweep under way leaves an acknowledged one.
NeverRegresses ==
    [][\A m \in Messages :
          /\ state[m] = "read" => state'[m] = "read"
          /\ state[m] = "delivered" => state'[m] \in Acked]_ackVars

\* Silence is always noticed: a recorded message ends up acknowledged or
\* announced, through restarts, failures and a limit on what a sweep selects.
SilenceIsNoticed ==
    \A m \in Messages : state[m] = "accepted" ~> state[m] # "accepted"

\* A message the consumer has heard an acknowledgement of is not reported
\* undelivered (sweepUnacked), as long as acks are not heard before the insert.
HeardIsNotAnnounced ==
    [][\A m \in announced' \ announced : m \notin heard]_ackVars
=============================================================================
