-------------------------- MODULE DeviceRetirement --------------------------
(***************************************************************************)
(* The request handlers around DeviceStore, for the same one number: the   *)
(* tail of a claim that starts pairing, repair and logout                  *)
(* (src/api/routes/devices.ts), the two DELETEs and the retireDevice call  *)
(* they share (src/ops/retire-device.ts), the engine they talk to, and the *)
(* event stream by which the engine answers (src/engine/consumer.ts).      *)
(*                                                                         *)
(* The store operations are the actions of DeviceClaims, each one a        *)
(* transaction; a handler is a program counter that moves at every await.  *)
(* The engine is taken at its interface (src/engine/types.ts): one slot    *)
(* per device, which may hold a socket.                                    *)
(***************************************************************************)
EXTENDS DeviceClaims, Sequences

CONSTANTS
    Retirers,      \* DELETE requests that end up retiring the device
    Overlap,       \* whether pairing requests run beside a retirement
    Forgotten,     \* whether a reconnect timer may outlive the session that set it
    MaxEvents,     \* bound: engine events not yet consumed
    MaxRestarts    \* bound: process restarts

ASSUME RetirementAssumption ==
    /\ Overlap \in BOOLEAN /\ Forgotten \in BOOLEAN
    /\ MaxEvents \in Nat \ {0}
    /\ MaxRestarts \in Nat

VARIABLES
    pool,       \* devices.engine_pool_id is set
    creds,      \* credentials and Signal keys are stored for the device
    session,    \* the engine's slot: none, slot (no socket), open, linked, down
    events,     \* engine events not yet consumed, oldest first
    pairer,     \* the pairing request of each environment
    retirer,    \* the retirement each request is carrying out
    restarts    \* process restarts so far

handlers == <<pairer, retirer>>
engine == <<pool, creds, session, events>>
allVars == <<vars, engine, handlers, restarts>>

EventKinds == {"connected", "disconnected", "degraded", "logged_out"}

HandlersTypeOK ==
    /\ pool \in BOOLEAN
    /\ creds \in BOOLEAN
    /\ session \in {"none", "slot", "open", "linked", "down"}
    /\ events \in Seq(EventKinds)
    /\ pairer \in [Environments -> {"idle", "choose", "provision", "assign",
                                    "reprovision", "pair"}]
    /\ retirer \in [Retirers -> {"idle", "read", "logout", "purge", "forget",
                                 "erase", "mark", "cancel"}]
    /\ restarts \in Nat

RetirementTypeOK == TypeOK /\ HandlersTypeOK

RetirementInit ==
    /\ Init
    /\ pool = FALSE
    /\ creds = FALSE
    /\ session = "none"
    /\ events = <<>>
    /\ pairer = [e \in Environments |-> "idle"]
    /\ retirer = [r \in Retirers |-> "idle"]
    /\ restarts = 0

Emit(kind) ==
    /\ Len(events) < MaxEvents
    /\ events' = Append(events, kind)

Retiring == \E r \in Retirers : retirer[r] # "idle"
Pairing == \E e \in Environments : pairer[e] # "idle"

PairerAt(e, from, to) ==
    /\ pairer[e] = from
    /\ pairer' = [pairer EXCEPT ![e] = to]

RetirerAt(r, from, to) ==
    /\ retirer[r] = from
    /\ retirer' = [retirer EXCEPT ![r] = to]

----------------------------------------------------------------------------
(* Requests that only touch the store.                                     *)

\* A claim answered by the store alone: already granted, or a person is asked.
ClaimWithoutPairing(e, t) ==
    /\ ClaimUnderGrant(e, t) \/ ClaimJoiningQuestion(e, t) \/ ClaimAsking(e, t)
    /\ UNCHANGED <<engine, handlers, restarts>>

AnswerOrRevoke(p, t) ==
    /\ Respond(p, t) \/ RevokeConsent(p)
    /\ UNCHANGED <<engine, handlers, restarts>>

ReleaseClaim(p, t) ==
    /\ ReleaseShared(p, t)
    /\ UNCHANGED <<engine, handlers, restarts>>

----------------------------------------------------------------------------
(* Pairing: the tail of a claim, and repair.                               *)

\* The claim's outcome is pending_pairing: the handler goes on to the engine.
ClaimToPair(e, t) ==
    /\ Overlap \/ ~Retiring
    /\ PairerAt(e, "idle", "choose")
    /\ ClaimNewDevice(e, t)
    /\ UNCHANGED <<engine, retirer, restarts>>

\* countByPool and chooseAny: a pool with room for the device.
ChoosePool(e) ==
    /\ PairerAt(e, "choose", "provision")
    /\ UNCHANGED <<vars, engine, retirer, restarts>>

\* The claim taken back by dropping its binding, and nothing else of it.
NoCapacityUndone(e) ==
    /\ PairerAt(e, "choose", "idle")
    /\ binding' = [binding EXCEPT ![e] = "none"]
    /\ UNCHANGED <<now, device, consent, trail, consumer, retirements, history>>
    /\ UNCHANGED <<engine, retirer, restarts>>

\* No pool has room (503), or the count failed: the claim stays committed.
NoCapacity(e) ==
    /\ PairerAt(e, "choose", "idle")
    /\ UNCHANGED <<vars, engine, retirer, restarts>>

Slotted == IF session = "none" THEN "slot" ELSE session

ProvisionSlot(e) ==
    /\ PairerAt(e, "provision", "assign")
    /\ session' = Slotted
    /\ UNCHANGED <<vars, pool, creds, events, retirer, restarts>>

\* The pool that took the device is not written down.
AssignForgotten(e) ==
    /\ PairerAt(e, "assign", "pair")
    /\ UNCHANGED <<vars, engine, retirer, restarts>>

AssignPool(e) ==
    /\ PairerAt(e, "assign", "pair")
    /\ pool' = TRUE
    /\ UNCHANGED <<vars, creds, session, events, retirer, restarts>>

\* The row could not be written: the slot stays, no pool recorded.
AssignFails(e) ==
    /\ PairerAt(e, "assign", "idle")
    /\ UNCHANGED <<vars, engine, retirer, restarts>>

\* Repair looks a binding up whatever its status, and needs a recorded pool.
Repair(e) ==
    /\ Overlap \/ ~Retiring
    /\ binding[e] # "none"
    /\ pool
    /\ PairerAt(e, "idle", "reprovision")
    /\ UNCHANGED <<vars, engine, retirer, restarts>>

Reprovision(e) ==
    /\ PairerAt(e, "reprovision", "pair")
    /\ session' = Slotted
    /\ UNCHANGED <<vars, pool, creds, events, retirer, restarts>>

\* What startPairing does before it opens a socket: a slot that is not there is
\* provisioned, a socket opened for another intent is closed, and no event says so.
ReadySlot(e) ==
    /\ pairer[e] = "pair"
    /\ session \in {"none", "open", "linked"}
    /\ session' = "slot"
    /\ UNCHANGED <<vars, pool, creds, events, handlers, restarts>>

\* startPairing: a socket for this intent, the one there is or a new one.
StartPairing(e) ==
    /\ PairerAt(e, "pair", "idle")
    /\ session # "none"
    /\ session' = IF session = "linked" THEN "linked" ELSE "open"
    /\ UNCHANGED <<vars, pool, creds, events, retirer, restarts>>

\* startPairing throws: pairing by code is refused, the slot was purged meanwhile, or the
\* socket did not open.
PairingFails(e) ==
    /\ PairerAt(e, "pair", "idle")
    /\ UNCHANGED <<vars, engine, retirer, restarts>>

----------------------------------------------------------------------------
(* Retirement.                                                             *)

\* The tenant's DELETE, when it ends the last claim.
ReleaseToRetire(r, p, t) ==
    /\ Overlap \/ ~Pairing
    /\ RetirerAt(r, "idle", "read")
    /\ ReleaseLast(p, t)
    /\ UNCHANGED <<engine, pairer, restarts>>

\* The operator's DELETE.
OperatorRetire(r) ==
    /\ Overlap \/ ~Pairing
    /\ RetirerAt(r, "idle", "read")
    /\ RetireFor
    /\ UNCHANGED <<engine, pairer, restarts>>

\* retireDevice reads the row once; without a recorded pool no engine is asked.
ReadPool(r) ==
    /\ RetirerAt(r, "read", IF pool THEN "logout" ELSE "forget")
    /\ UNCHANGED <<vars, engine, pairer, restarts>>

\* engine.logout: the socket ends, the slot stays, and the stream is told.  It waits for
\* the phone, so its slot may be purged by the time it says so, or another be there.
LoggedOut ==
    \/ session = "none" /\ UNCHANGED <<session, events>>
    \/ /\ session' \in IF session = "none" THEN {"none"} ELSE {session, "slot"}
       /\ Emit("logged_out")

RetireLogout(r) ==
    /\ RetirerAt(r, "logout", "purge")
    /\ LoggedOut
    /\ UNCHANGED <<vars, pool, creds, pairer, restarts>>

RetirePurge(r) ==
    /\ RetirerAt(r, "purge", "forget")
    /\ session' = "none"
    /\ UNCHANGED <<vars, pool, creds, events, pairer, restarts>>

RetireForget(r) ==
    /\ RetirerAt(r, "forget", "erase")
    /\ creds' = FALSE
    /\ UNCHANGED <<vars, pool, session, events, pairer, restarts>>

\* ChatStore.forgetDevice: the history itself is not modelled, its failure is.
RetireErase(r) ==
    /\ RetirerAt(r, "erase", "mark")
    /\ UNCHANGED <<vars, engine, pairer, restarts>>

RetireMark(r) ==
    /\ RetirerAt(r, "mark", "idle")
    /\ MarkRetired
    /\ pool' = FALSE
    /\ UNCHANGED <<creds, session, events, pairer, restarts>>

\* A handler without the catch block around retireDevice.
RetireThrows(r) ==
    /\ \E at \in {"read", "forget", "erase", "mark"} : RetirerAt(r, at, "idle")
    /\ AbandonRetirement
    /\ UNCHANGED <<engine, pairer, restarts>>

\* A statement of retireDevice throws (both engine calls are caught inside it): the
\* handler's catch block awaits cancelRetirement.
RetireFails(r) ==
    /\ \E at \in {"read", "forget", "erase", "mark"} : RetirerAt(r, at, "cancel")
    /\ UNCHANGED <<vars, engine, pairer, restarts>>

GiveBack(r) ==
    /\ RetirerAt(r, "cancel", "idle")
    /\ CancelRetirement
    /\ UNCHANGED <<engine, pairer, restarts>>

\* cancelRetirement is an update of the same database, and throws where that does: the
\* handler ends with the reservation still on the row.
GiveBackFails(r) ==
    /\ RetirerAt(r, "cancel", "idle")
    /\ AbandonRetirement
    /\ UNCHANGED <<engine, pairer, restarts>>

\* The logout route: unlink, keep the slot and the binding.
LogoutRoute(e) ==
    /\ binding[e] # "none"
    /\ pool
    /\ LoggedOut
    /\ UNCHANGED <<vars, pool, creds, handlers, restarts>>

----------------------------------------------------------------------------
(* The engine.                                                             *)

\* A slot without a connection may still have a reconnect nobody cancelled: the session
\* remembers one timer, and a second loss sets another beside it.  A device without a
\* recorded pool has not been paired in this session, so a timer there was forgotten by
\* an earlier one.
LateAttempt == session = "slot" /\ (pool \/ Forgotten)

\* The phone scans, or stored credentials are accepted, over the first socket or one that
\* replaced it; the socket stores them.
Linked ==
    /\ session \in {"open", "linked"}
    /\ session' = "linked"
    /\ creds' = TRUE
    /\ Emit("connected")
    /\ UNCHANGED <<vars, pool, handlers, restarts>>

\* The connection is lost, or none could be opened: to be tried again, or not.  A failure
\* that makes it the third in a row is reported as degraded too, in a step of its own.
Dropped ==
    /\ session \in {"open", "linked", "down"} \/ LateAttempt
    /\ \/ session' \in {"down", "slot"} /\ Emit("disconnected")
       \/ session' = "down" /\ Emit("degraded")
    /\ UNCHANGED <<vars, pool, creds, handlers, restarts>>

Reconnected ==
    /\ session = "down" \/ LateAttempt
    /\ session' = "open"
    /\ UNCHANGED <<vars, pool, creds, events, handlers, restarts>>

\* The phone holder unlinks: the slot stays, and so do the stored credentials.
RemoteLogout ==
    /\ session \in {"open", "linked"}
    /\ session' = "slot"
    /\ Emit("logged_out")
    /\ UNCHANGED <<vars, pool, creds, handlers, restarts>>

----------------------------------------------------------------------------
(* The consumer, and the process.                                          *)

ConsumeConnected ==
    /\ events # <<>>
    /\ Head(events) = "connected"
    /\ DeviceConnected
    /\ events' = Tail(events)
    /\ UNCHANGED <<pool, creds, session, handlers, restarts>>

ConsumeActivate ==
    /\ ActivatePaired
    /\ UNCHANGED <<engine, handlers, restarts>>

ConsumeLost ==
    /\ events # <<>>
    /\ Head(events) # "connected"
    /\ DeviceLost(Head(events))
    /\ events' = Tail(events)
    /\ UNCHANGED <<pool, creds, session, handlers, restarts>>

\* Slots, sockets, events and requests are in memory; nothing opens them again.
ProcessRestart ==
    /\ restarts < MaxRestarts
    /\ restarts' = restarts + 1
    /\ \/ Restart
       \/ retirements = 0 /\ consumer = "idle" /\ UNCHANGED vars
    /\ session' = "none"
    /\ events' = <<>>
    /\ pairer' = [e \in Environments |-> "idle"]
    /\ retirer' = [r \in Retirers |-> "idle"]
    /\ UNCHANGED <<pool, creds>>

ClockTick ==
    /\ Tick
    /\ UNCHANGED <<engine, handlers, restarts>>

----------------------------------------------------------------------------
PairingStep(e) ==
    \/ ChoosePool(e)
    \/ NoCapacity(e)
    \/ ProvisionSlot(e)
    \/ AssignPool(e)
    \/ AssignFails(e)
    \/ Repair(e)
    \/ Reprovision(e)
    \/ ReadySlot(e)
    \/ StartPairing(e)
    \/ PairingFails(e)
    \/ LogoutRoute(e)

RetireStep(r) ==
    \/ OperatorRetire(r)
    \/ ReadPool(r)
    \/ RetireLogout(r)
    \/ RetirePurge(r)
    \/ RetireForget(r)
    \/ RetireErase(r)
    \/ RetireMark(r)
    \/ RetireFails(r)
    \/ GiveBack(r)
    \/ GiveBackFails(r)

RetirementNext ==
    \/ \E e \in Environments, t \in Readings :
          ClaimWithoutPairing(e, t) \/ ClaimToPair(e, t)
    \/ \E p \in Projects, t \in Readings : AnswerOrRevoke(p, t) \/ ReleaseClaim(p, t)
    \/ \E e \in Environments : PairingStep(e)
    \/ \E r \in Retirers, p \in Projects, t \in Readings : ReleaseToRetire(r, p, t)
    \/ \E r \in Retirers : RetireStep(r)
    \/ Linked
    \/ Dropped
    \/ Reconnected
    \/ RemoteLogout
    \/ ConsumeConnected
    \/ ConsumeActivate
    \/ ConsumeLost
    \/ ProcessRestart
    \/ ClockTick

RetirementSpec == RetirementInit /\ [][RetirementNext]_allVars

----------------------------------------------------------------------------
(* Properties.                                                             *)

\* A device without a recorded pool has nothing an engine could be asked to end:
\* retireDevice skips the engine for it, and whatever were left would stay.
UnassignedMeansGone ==
    ~pool => ~creds /\ session \in {"none", "slot"}

\* A reservation is taken together with the request that will end it, and outlives the
\* last such request only if the process stopped under it, or retireDevice threw and giving
\* back threw too: no other failure, and no retirement beside it, strands the number.
StrandedOnlyByFailure ==
    [][/\ device # "retiring" /\ device' = "retiring" => Retiring'
       /\ Retiring /\ ~Retiring' /\ device' = "retiring" =>
             restarts' # restarts \/ \E r \in Retirers : GiveBackFails(r)]_allVars

\* What the catch blocks' comment says ("the reservation goes back, or the number is
\* unclaimable for ever"): a reserved device has a request that will end it.
RetiringHasOwner == device = "retiring" => Retiring

\* What releaseFor promises: no claim succeeds between the decision to retire
\* and the end of the retirement.
NoClaimWhileRetiring ==
    [][Retiring => \A e \in Environments : Bound(e)' => Bound(e)]_allVars

\* What the claim and repair routes promise between them: an environment whose
\* number still has to be scanned can ask for another code.
HeldCanPair ==
    \A e \in Environments :
        binding[e] = "pending_pairing" => pool \/ pairer[e] # "idle"
=============================================================================
