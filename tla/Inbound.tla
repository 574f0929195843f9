------------------------------ MODULE Inbound ------------------------------
(***************************************************************************)
(* A message that comes in on one device: the engine's stream, the         *)
(* consumer that handles one event at a time (engine/consumer.ts), and the *)
(* conversation history it is filed in (stores/chat-store.ts), which the   *)
(* console reads, marks read and replies in (api/routes/chat.ts) while     *)
(* bindings begin and end, and retirements of the device erase it.         *)
(*                                                                         *)
(* An action is what runs between two awaits, ChatStore.record one write   *)
(* transaction.  One peer writes, so each environment has one thread.  The *)
(* rules a message runs are in Rules: they change nothing here, but        *)
(* loading them may throw.  Any statement may fail, at most MaxFaults      *)
(* times; a restart counts as one.                                         *)
(***************************************************************************)
EXTENDS Naturals, Sequences, FiniteSets

CONSTANTS
    Envs,       \* environments that may hold a binding of the device
    Messages,   \* messages, by their WhatsApp id
    Mine,       \* of them, those the phone's holder sent
    NoPeer,     \* of them, those without a chat id
    Retirers,   \* DELETE requests that retire the device
    MaxResends, \* times WhatsApp hands over a message it handed over before (bound)
    MaxChanges, \* bindings that begin or end, and retirements (bound)
    MaxFaults   \* statements that fail and restarts (bound)

ASSUME InboundAssumption ==
    /\ Mine \subseteq Messages /\ NoPeer \subseteq Messages
    /\ MaxResends \in Nat /\ MaxChanges \in Nat /\ MaxFaults \in Nat

VARIABLES
    active,    \* environments whose binding is active
    reserved,  \* is devices.state "retiring"?
    retirer,   \* how far each retirement is
    came,      \* messages that were handed over
    stream,    \* events the consumer has not taken yet
    consumer,  \* the event it handles
    rows,      \* chat_messages with a provider id, by environment
    thread,    \* the environment's chat_threads row
    filed,     \* history: every message filed in the thread since it was last erased
    seen,      \* history: those filed when it was last marked read
    carried,   \* history: what the badge counted when an erasure took the messages
    erased,    \* history: environments not bound since the history was last erased
    reply,     \* POST /chats/:id/messages, by environment
    changes, resends, faults

history == <<rows, thread, filed, seen, carried>>
others == <<active, reserved, retirer, erased, changes>>
arriving == <<came, stream, resends>>
vars == <<active, reserved, retirer, came, stream, consumer, rows, thread, filed, seen,
          carried, erased, reply, changes, resends, faults>>

Idle == [pc |-> "idle"]
NoThread == [held |-> FALSE, unread |-> 0]
Steps == {"lookup", "record", "rules", "fanOut", "enqueue"}
Stages == {"idle", "messages", "threads", "mark"}

TypeOK ==
    /\ active \subseteq Envs /\ erased \subseteq Envs
    /\ reserved \in BOOLEAN /\ retirer \in [Retirers -> Stages]
    /\ came \subseteq Messages /\ stream \in Seq(Messages)
    /\ consumer = Idle \/ consumer \in [pc : Steps, message : Messages, todo : SUBSET Envs,
                                        steady : SUBSET Envs, failed : SUBSET Envs]
    /\ rows \in [Envs -> SUBSET Messages] /\ filed \in [Envs -> SUBSET Messages]
    /\ seen \in [Envs -> SUBSET Messages] /\ carried \in [Envs -> Nat]
    /\ thread \in [Envs -> [held : BOOLEAN, unread : Nat]]
    /\ reply \in [Envs -> {"none", "found", "pending"}]
    /\ changes \in 0..MaxChanges /\ resends \in 0..MaxResends /\ faults \in 0..MaxFaults

Init ==
    /\ active \in SUBSET Envs /\ active # {} /\ erased = {}
    /\ reserved = FALSE /\ retirer = [d \in Retirers |-> "idle"]
    /\ came = {} /\ stream = <<>> /\ consumer = Idle
    /\ rows = [e \in Envs |-> {}] /\ thread = [e \in Envs |-> NoThread]
    /\ filed = [e \in Envs |-> {}] /\ seen = [e \in Envs |-> {}]
    /\ carried = [e \in Envs |-> 0]
    /\ reply = [e \in Envs |-> "none"]
    /\ changes = 0 /\ resends = 0 /\ faults = 0

Fault == faults < MaxFaults /\ faults' = faults + 1
NoFault == UNCHANGED faults

-----------------------------------------------------------------------------
(* The engine hands over a message, perhaps one it handed over before.     *)
Arrive(m) ==
    /\ \/ m \notin came /\ UNCHANGED resends
       \/ m \in came /\ resends < MaxResends /\ resends' = resends + 1
    /\ came' = came \cup {m}
    /\ stream' = Append(stream, m)
    /\ UNCHANGED <<consumer, history, reply, others, faults>>

\* startEngineConsumer takes the next event once the last one is handled.
Take ==
    /\ consumer = Idle /\ stream # <<>>
    /\ LET m == Head(stream)
       IN  consumer' = [pc |-> IF m \in NoPeer THEN "rules" ELSE "lookup", message |-> m,
                        todo |-> {}, steady |-> active, failed |-> {}]
    /\ stream' = Tail(stream)
    /\ UNCHANGED <<came, resends, history, reply, others, faults>>

Handling(pc) == consumer # Idle /\ consumer.pc = pc
Unmoved == UNCHANGED <<arriving, reply, others>>

Lookup ==
    /\ Handling("lookup")
    /\ \/ NoFault /\ consumer' = [consumer EXCEPT !.pc = "record", !.todo = active]
       \/ Fault /\ consumer' = [consumer EXCEPT !.pc = "rules", !.failed = Envs]
    /\ UNCHANGED history /\ Unmoved

(* ChatStore.record: nothing happens when the binding is not active any    *)
(* more (it throws) or the message is held already (it returns null).      *)
\* Mutant: the caller's environment is trusted.
FilesWhatCallerSays(e) == TRUE
Files(e) == e \in active

Unread(e, m) == thread[e].unread + IF m \in Mine THEN 0 ELSE 1

\* Mutant: the badge is counted up before the resend is noticed.
RecordCountsFirst(e, m) ==
    /\ thread' = [thread EXCEPT ![e] = IF Files(e) THEN [held |-> TRUE, unread |-> Unread(e, m)] ELSE @]
    /\ rows' = [rows EXCEPT ![e] = IF Files(e) THEN @ \cup {m} ELSE @]
    /\ filed' = [filed EXCEPT ![e] = IF Files(e) THEN @ \cup {m} ELSE @]
Record(e, m) ==
    IF Files(e) /\ m \notin rows[e]
    THEN /\ thread' = [thread EXCEPT ![e] = [held |-> TRUE, unread |-> Unread(e, m)]]
         /\ rows' = [rows EXCEPT ![e] = @ \cup {m}]
         /\ filed' = [filed EXCEPT ![e] = @ \cup {m}]
    ELSE UNCHANGED <<thread, rows, filed>>

\* Mutant: a write that fails ends the loop over the bindings.
RemainsAfterEscaping(e) == {}
Remains(e) == consumer.todo \ {e}

RecordOne(e) ==
    /\ Handling("record") /\ e \in consumer.todo
    /\ \/ NoFault /\ Record(e, consumer.message)
          /\ consumer' = [consumer EXCEPT !.todo = @ \ {e}]
       \/ Fault /\ UNCHANGED <<thread, rows, filed>>
          /\ consumer' = [consumer EXCEPT !.todo = Remains(e), !.failed = @ \cup {e}]
    /\ UNCHANGED <<seen, carried>> /\ Unmoved

Recorded ==
    /\ Handling("record") /\ consumer.todo = {}
    /\ consumer' = [consumer EXCEPT !.pc = "rules"]
    /\ NoFault /\ UNCHANGED history /\ Unmoved

\* runRules writes nothing; when it throws, the event is logged and dropped.
RunRules ==
    /\ Handling("rules")
    /\ \/ NoFault /\ consumer' = [consumer EXCEPT !.pc = "fanOut"]
       \/ Fault /\ consumer' = Idle
    /\ UNCHANGED history /\ Unmoved

FanOut ==
    /\ Handling("fanOut")
    /\ \/ NoFault /\ consumer' = [consumer EXCEPT !.pc = "enqueue", !.todo = active]
       \/ Fault /\ consumer' = Idle
    /\ UNCHANGED history /\ Unmoved

\* Enqueued, then published; the binding is not looked at again, and a failure is not
\* caught: the tenants that were to come are not told.
EnqueueOne(e) ==
    /\ Handling("enqueue") /\ e \in consumer.todo
    /\ \/ NoFault /\ consumer' = [consumer EXCEPT !.todo = @ \ {e}]
       \/ Fault /\ consumer' = Idle
    /\ UNCHANGED history /\ Unmoved

Handled ==
    /\ Handling("enqueue") /\ consumer.todo = {}
    /\ consumer' = Idle
    /\ NoFault /\ UNCHANGED history /\ Unmoved

-----------------------------------------------------------------------------
(* The console.                                                            *)
MarkRead(e) ==
    /\ thread[e].held
    /\ thread' = [thread EXCEPT ![e].unread = 0]
    /\ seen' = [seen EXCEPT ![e] = filed[e]]
    /\ carried' = [carried EXCEPT ![e] = 0]
    /\ UNCHANGED <<rows, filed, consumer, faults>> /\ Unmoved

FindThread(e) ==
    /\ thread[e].held /\ reply[e] = "none"
    /\ reply' = [reply EXCEPT ![e] = "found"]
    /\ UNCHANGED <<arriving, consumer, history, others, faults>>

\* An outbound row without a provider id: never a resend, and it counts nothing.
RecordReply(e) ==
    /\ reply[e] = "found"
    /\ reply' = [reply EXCEPT ![e] = IF Files(e) THEN "pending" ELSE "none"]
    /\ thread' = [thread EXCEPT ![e].held = @ \/ Files(e)]
    /\ UNCHANGED <<arriving, consumer, rows, filed, seen, carried, others, faults>>

-----------------------------------------------------------------------------
(* The rest of the process.                                                *)
\* A claim is refused while the device is reserved, and not once it was retired.
Begin(e) ==
    /\ e \notin active /\ ~reserved /\ changes < MaxChanges
    /\ active' = active \cup {e}
    /\ erased' = erased \ {e}
    /\ changes' = changes + 1
    /\ UNCHANGED <<reserved, retirer, arriving, consumer, history, reply, faults>>

\* For the properties: the tenants left of those that stood since the event was taken.
Unsteady(gone) ==
    consumer' = IF consumer = Idle THEN Idle ELSE [consumer EXCEPT !.steady = @ \ gone]

\* Revoked, removed or lapsed; the history stays.
End(e) ==
    /\ e \in active /\ changes < MaxChanges
    /\ active' = active \ {e}
    /\ changes' = changes + 1
    /\ Unsteady({e})
    /\ UNCHANGED <<reserved, retirer, erased, arriving, history, reply, faults>>

(* Retirement, as far as the history goes: DeviceRetirement has the rest.  *)
RetirerAt(d, from, to) ==
    /\ retirer[d] = from
    /\ retirer' = [retirer EXCEPT ![d] = to]

\* Every claim is ended and the device reserved, in one transaction.
Reserve(d) ==
    /\ RetirerAt(d, "idle", "messages") /\ changes < MaxChanges
    /\ active' = {} /\ reserved' = TRUE
    /\ changes' = changes + 1
    /\ Unsteady(active)
    /\ UNCHANGED <<erased, arriving, history, reply, faults>>

\* A statement throws; the reservation is given back, unless that throws too.
RetireFails(d) ==
    /\ Fault
    /\ \E at \in {"messages", "threads", "mark"} : RetirerAt(d, at, "idle")
    /\ reserved' \in {FALSE, reserved}
    /\ UNCHANGED <<active, erased, changes, arriving, consumer, history, reply>>

\* forgetDevice, and no transaction around it: the messages, replies among them, ...
RepliesGone ==
    reply' = [e \in Envs |-> IF reply[e] = "pending" THEN "none" ELSE reply[e]]

EraseMessages(d) ==
    /\ RetirerAt(d, "messages", "threads")
    /\ rows' = [e \in Envs |-> {}]
    /\ carried' = [e \in Envs |-> thread[e].unread]
    /\ filed' = [e \in Envs |-> {}] /\ seen' = [e \in Envs |-> {}]
    /\ RepliesGone /\ Unsteady(Envs)
    /\ UNCHANGED <<active, reserved, erased, changes, thread, arriving, faults>>

\* ... then the threads, with any message that was written since (a cascade).
EraseThreads(d) ==
    /\ RetirerAt(d, "threads", "mark")
    /\ rows' = [e \in Envs |-> {}] /\ thread' = [e \in Envs |-> NoThread]
    /\ carried' = [e \in Envs |-> 0]
    /\ filed' = [e \in Envs |-> {}] /\ seen' = [e \in Envs |-> {}]
    /\ erased' = Envs \ active
    /\ RepliesGone /\ Unsteady(Envs)
    /\ UNCHANGED <<active, reserved, changes, arriving, faults>>

\* markRetired: the device is there to be claimed again.
Retired(d) ==
    /\ RetirerAt(d, "mark", "idle")
    /\ reserved' = FALSE
    /\ UNCHANGED <<active, erased, changes, arriving, consumer, history, reply, faults>>

\* ChatStore.sweepOlderThan, after 90 days: such a message does not come again.
SweepOlderThan(m) ==
    /\ m \in came /\ resends = MaxResends
    /\ m \notin {stream[i] : i \in DOMAIN stream}
    /\ consumer = Idle
    /\ \E e \in Envs : m \in rows[e]
    /\ rows' = [e \in Envs |-> rows[e] \ {m}]
    /\ UNCHANGED <<thread, filed, seen, carried, consumer, faults>> /\ Unmoved

\* What the stream held and what was being handled is gone; a reservation stays.
Restart ==
    /\ Fault
    /\ stream' = <<>> /\ consumer' = Idle
    /\ reply' = [e \in Envs |-> IF reply[e] = "found" THEN "none" ELSE reply[e]]
    /\ retirer' = [d \in Retirers |-> "idle"]
    /\ UNCHANGED <<came, resends, history, active, reserved, erased, changes>>

Consume ==
    \/ Take \/ Lookup \/ Recorded \/ RunRules \/ FanOut \/ Handled
    \/ \E e \in Envs : RecordOne(e) \/ EnqueueOne(e)

Next ==
    \/ Consume \/ Restart
    \/ \E d \in Retirers : \/ Reserve(d) \/ RetireFails(d)
                           \/ EraseMessages(d) \/ EraseThreads(d) \/ Retired(d)
    \/ \E m \in Messages : Arrive(m) \/ SweepOlderThan(m)
    \/ \E e \in Envs : MarkRead(e) \/ FindThread(e) \/ RecordReply(e) \/ Begin(e) \/ End(e)

Spec == Init /\ [][Next]_vars

-----------------------------------------------------------------------------
(* Properties.                                                             *)

(* The badge of a conversation (stores/chat-store.ts:106) is the number of *)
(* messages the peer sent since it was last marked read: each once however *)
(* often WhatsApp resends it, none of the holder's own, and no matter how  *)
(* arrivals, reads, replies, the retention sweep and an erasure that stops *)
(* half way fall.  That erasure leaves the badge of what it took.          *)
UnreadIsExact ==
    \A e \in Envs :
        thread[e].unread = carried[e] + Cardinality((filed[e] \ Mine) \ seen[e])

(* An environment whose binding was active, and whose history stayed, all  *)
(* the while an event was handled has the message in its history by the    *)
(* time rules run, unless the write of that very environment failed        *)
(* (engine/consumer.ts:210-236): each write has its own catch.  The rules  *)
(* and the fan-out have none, and promise nothing like it.                 *)
EachBindingRecords ==
    consumer # Idle /\ consumer.pc \in {"rules", "fanOut", "enqueue"}
                    /\ consumer.message \notin NoPeer =>
        \A e \in consumer.steady \ consumer.failed : consumer.message \in filed[e]

(* What a retirement erased (stores/chat-store.ts:314) stays erased for    *)
(* whoever has not been bound to the device since, whatever the consumer   *)
(* and the replies that had looked before still write.                     *)
ForgottenIsGone ==
    \A e \in erased : rows[e] = {} /\ ~thread[e].held /\ reply[e] # "pending"
=============================================================================
