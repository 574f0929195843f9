---------------------------- MODULE DeviceClaims ----------------------------
(***************************************************************************)
(* One phone number (a row of `devices`), the consent each project holds   *)
(* for it (`device_consents`), and the binding each environment has to it  *)
(* (`virtual_devices`): src/stores/device-store.ts, with the writes the    *)
(* engine event consumer makes to the same rows (src/engine/consumer.ts).  *)
(*                                                                         *)
(* Every operation of DeviceStore here runs inside withTransaction (BEGIN  *)
(* IMMEDIATE on a connection of its own), so it is one action.  What is    *)
(* NOT inside the transaction is its clock: each operation takes           *)
(* `now: Date = new Date()` when it is CALLED, and then waits for the      *)
(* write lock.  An action therefore reads a clock up to Lag ticks old.     *)
(* Lag = 0 is a process that never waits for the lock.                     *)
(*                                                                         *)
(* Numbers never interact: no operation reads or writes two devices, so    *)
(* one device is modelled.  The engine is left free: its events reach the  *)
(* consumer whenever the row exists, in any order.                         *)
(***************************************************************************)
EXTENDS Integers, FiniteSets

CONSTANTS
    Projects,
    Environments,
    ProjectOf,       \* the project of each environment
    ConsentTTL,      \* CONSENT_TTL_MS, in ticks
    Lag,             \* how old a call's clock may be when it gets the lock
    MaxTime,         \* bound: the clock stops here
    MaxTokens,       \* bound: challenge tokens minted per project
    MaxRetirements   \* bound: retirements in flight at once

ASSUME ClaimsAssumption ==
    /\ ProjectOf \in [Environments -> Projects]
    /\ ConsentTTL \in Nat \ {0}
    /\ Lag \in Nat
    /\ MaxTime \in Nat
    /\ MaxTokens \in Nat
    /\ MaxRetirements \in Nat

VARIABLES
    now,          \* wall clock
    device,       \* devices.state, or "absent" while no row exists
    consent,      \* the device_consents row of each project
    trail,        \* the latest consent_events action of each project's row
    binding,      \* virtual_devices.status of each environment
    consumer,     \* "activating" between the two awaits of onConnected
    retirements,  \* retireDevice calls reserved and not yet finished
    refused,      \* history: projects whose last answer from a person was no
    toldLapsed    \* history: projects whose open question was answered too late

vars == <<now, device, consent, trail, binding, consumer, retirements,
          refused, toldLapsed>>

history == <<refused, toldLapsed>>

DeviceStates == {"absent", "unpaired", "connected", "disconnected",
                 "degraded", "logged_out", "retiring"}
ConsentStatuses == {"none", "pending", "granted", "denied", "revoked", "expired"}
BindingStatuses == {"none", "pending_pairing", "pending_consent", "active",
                    "revoked"}

\* `implicit` is evidence.implicit, `deadline` is expires_at (0 for null), and
\* `token` counts the challenge tokens minted for the row: a fresh UUID each.
ConsentRow == [status : ConsentStatuses, implicit : BOOLEAN,
               token : Nat, deadline : Nat]

NoRow == [status |-> "none", implicit |-> FALSE, token |-> 0, deadline |-> 0]

TypeOK ==
    /\ now \in Nat
    /\ device \in DeviceStates
    /\ consent \in [Projects -> ConsentRow]
    /\ trail \in [Projects -> {"none", "requested", "granted", "denied", "revoked"}]
    /\ binding \in [Environments -> BindingStatuses]
    /\ consumer \in {"idle", "activating"}
    /\ retirements \in Nat
    /\ refused \subseteq Projects
    /\ toldLapsed \subseteq Projects

Init ==
    /\ now = 0
    /\ device = "absent"
    /\ consent = [p \in Projects |-> NoRow]
    /\ trail = [p \in Projects |-> "none"]
    /\ binding = [e \in Environments |-> "none"]
    /\ consumer = "idle"
    /\ retirements = 0
    /\ refused = {}
    /\ toldLapsed = {}

----------------------------------------------------------------------------
(* Reading the rows.                                                       *)

\* The clock readings a call that now holds the lock may have taken.
Readings == {t \in 0..now : now - t <= Lag}

Lapsed(row, t) == row.status = "pending" /\ row.deadline <= t

\* Only a pending question lapses; every other status means what it says.
EffectiveStatus(row, t) == IF Lapsed(row, t) THEN "expired" ELSE row.status

\* hasStandingClaim overlooking the decision that matters most, a grant.
StandingIgnoresGrants(t) ==
    \E p \in Projects :
        EffectiveStatus(consent[p], t) \in {"pending", "denied", "revoked"}

\* Whether anybody has ever decided, or is still being asked, about the device.
HasStandingClaim(t) ==
    \E p \in Projects : EffectiveStatus(consent[p], t) \notin {"none", "expired"}

Undecided(p, t) == EffectiveStatus(consent[p], t) \in {"none", "expired"}

Bound(e) == binding[e] \notin {"none", "revoked"}

\* projectsHolding without its second status: an open question holds nothing.
HoldingGrantedOnly(rows, bindings, t) ==
    {p \in Projects :
        /\ \E e \in Environments :
              ProjectOf[e] = p /\ bindings[e] \notin {"none", "revoked"}
        /\ EffectiveStatus(rows[p], t) = "granted"}

\* projectsHolding: who would lose something if the number went away.
Holding(rows, bindings, t) ==
    {p \in Projects :
        /\ \E e \in Environments :
              ProjectOf[e] = p /\ bindings[e] \notin {"none", "revoked"}
        /\ EffectiveStatus(rows[p], t) \in {"granted", "pending"}}

\* projectsBound: the structural question, whatever the consent says.
ProjectsBound == {ProjectOf[e] : e \in {f \in Environments : Bound(f)}}

----------------------------------------------------------------------------
(* Claiming a number.                                                      *)

Claimable(e) == device # "retiring" /\ ~Bound(e)

Provisioned == IF device = "absent" THEN "unpaired" ELSE device

\* The project has consent already: nothing is asked of anyone.
ClaimUnderGrant(e, t) ==
    /\ Claimable(e)
    /\ EffectiveStatus(consent[ProjectOf[e]], t) = "granted"
    /\ device' = Provisioned
    /\ binding' = [binding EXCEPT ![e] = "active"]
    /\ UNCHANGED <<now, consent, trail, consumer, retirements, history>>

\* Nobody has an interest in the number: pairing it is consent for it.
ClaimNewDevice(e, t) ==
    LET p == ProjectOf[e] IN
    /\ Claimable(e)
    /\ Undecided(p, t)
    /\ ~HasStandingClaim(t)
    /\ consent[p].token < MaxTokens
    /\ device' = Provisioned
    /\ consent' = [consent EXCEPT ![p] =
                     [status |-> "granted", implicit |-> TRUE,
                      token |-> @.token + 1, deadline |-> 0]]
    /\ trail' = [trail EXCEPT ![p] = "granted"]
    /\ binding' = [binding EXCEPT ![e] = "pending_pairing"]
    /\ toldLapsed' = toldLapsed \ {p}
    /\ UNCHANGED <<now, consumer, retirements, refused>>

MustAsk(e, t) ==
    LET p == ProjectOf[e] IN
    /\ Claimable(e)
    /\ EffectiveStatus(consent[p], t) # "granted"
    /\ ~(Undecided(p, t) /\ ~HasStandingClaim(t))

\* A question is open already: the second environment waits on the same one.
ClaimJoiningQuestion(e, t) ==
    LET p == ProjectOf[e] IN
    /\ MustAsk(e, t)
    /\ EffectiveStatus(consent[p], t) = "pending"
    /\ device' = Provisioned
    /\ binding' = [binding EXCEPT ![e] = "pending_consent"]
    /\ UNCHANGED <<now, consent, trail, consumer, retirements, history>>

\* requestConsent without the reuse branch: every claim mints a challenge.
ReaskEveryClaim(e, t) ==
    LET p == ProjectOf[e] IN
    /\ MustAsk(e, t)
    /\ consent[p].token < MaxTokens
    /\ device' = Provisioned
    /\ consent' = [consent EXCEPT ![p] =
                     [status |-> "pending", implicit |-> FALSE,
                      token |-> @.token + 1, deadline |-> t + ConsentTTL]]
    /\ trail' = [trail EXCEPT ![p] = "requested"]
    /\ binding' = [binding EXCEPT ![e] = "pending_consent"]
    /\ toldLapsed' = toldLapsed \ {p}
    /\ UNCHANGED <<now, consumer, retirements, refused>>

\* requestConsent without its audit call.
AskUnrecorded(e, t) ==
    LET p == ProjectOf[e] IN
    /\ MustAsk(e, t)
    /\ EffectiveStatus(consent[p], t) # "pending"
    /\ consent[p].token < MaxTokens
    /\ device' = Provisioned
    /\ consent' = [consent EXCEPT ![p] =
                     [status |-> "pending", implicit |-> FALSE,
                      token |-> @.token + 1, deadline |-> t + ConsentTTL]]
    /\ binding' = [binding EXCEPT ![e] = "pending_consent"]
    /\ toldLapsed' = toldLapsed \ {p}
    /\ UNCHANGED <<now, trail, consumer, retirements, refused>>

\* Ask the phone holder: a fresh token and a fresh deadline.
ClaimAsking(e, t) ==
    LET p == ProjectOf[e] IN
    /\ MustAsk(e, t)
    /\ EffectiveStatus(consent[p], t) # "pending"
    /\ consent[p].token < MaxTokens
    /\ device' = Provisioned
    /\ consent' = [consent EXCEPT ![p] =
                     [status |-> "pending", implicit |-> FALSE,
                      token |-> @.token + 1, deadline |-> t + ConsentTTL]]
    /\ trail' = [trail EXCEPT ![p] = "requested"]
    /\ binding' = [binding EXCEPT ![e] = "pending_consent"]
    /\ toldLapsed' = toldLapsed \ {p}
    /\ UNCHANGED <<now, consumer, retirements, refused>>

----------------------------------------------------------------------------
(* The phone holder's answer.                                              *)

\* activateBindingsFor: only bindings that were waiting on this answer.
ActivatedFor(p) ==
    [e \in Environments |->
        IF ProjectOf[e] = p /\ binding[e] \in {"pending_consent", "pending_pairing"}
        THEN "active" ELSE binding[e]]

RespondYes(p, t) ==
    /\ consent[p].status = "pending"
    /\ ~Lapsed(consent[p], t)
    /\ consent' = [consent EXCEPT ![p].status = "granted", ![p].implicit = FALSE]
    /\ trail' = [trail EXCEPT ![p] = "granted"]
    /\ binding' = ActivatedFor(p)
    /\ refused' = refused \ {p}
    /\ UNCHANGED <<now, device, consumer, retirements, toldLapsed>>

RespondNo(p, t) ==
    /\ consent[p].status = "pending"
    /\ ~Lapsed(consent[p], t)
    /\ consent' = [consent EXCEPT ![p].status = "denied", ![p].implicit = FALSE]
    /\ trail' = [trail EXCEPT ![p] = "denied"]
    /\ refused' = refused \union {p}
    /\ UNCHANGED <<now, device, binding, consumer, retirements, toldLapsed>>

\* The answer comes after the deadline.  respondWithin writes status "expired"
\* and an "expired" audit row and then THROWS inside the transaction, so both
\* are rolled back: the caller is told, and the rows stay as they were.
RespondTooLate(p, t) ==
    /\ Lapsed(consent[p], t)
    /\ toldLapsed' = toldLapsed \union {p}
    /\ UNCHANGED <<now, device, consent, trail, binding, consumer,
                   retirements, refused>>

----------------------------------------------------------------------------
(* Giving a claim up, and retiring the number.                             *)

\* revokeWithin for each project of ps: the row and every binding it has.
RevokedRows(ps) ==
    [p \in Projects |->
        IF p \in ps THEN [consent[p] EXCEPT !.status = "revoked"] ELSE consent[p]]

RevokedTrail(ps) ==
    [p \in Projects |-> IF p \in ps THEN "revoked" ELSE trail[p]]

RevokedBindings(ps) ==
    [e \in Environments |->
        IF ProjectOf[e] \in ps /\ binding[e] # "none" THEN "revoked" ELSE binding[e]]

\* revokeConsent by the phone holder.
RevokeConsent(p) ==
    /\ consent[p].status # "none"
    /\ consent' = RevokedRows({p})
    /\ trail' = RevokedTrail({p})
    /\ binding' = RevokedBindings({p})
    /\ refused' = refused \union {p}
    /\ UNCHANGED <<now, device, consumer, retirements, toldLapsed>>

\* releaseFor when somebody else still holds the number: this claim ends, no more.
ReleaseShared(p, t) ==
    /\ consent[p].status # "none"
    /\ Holding(RevokedRows({p}), RevokedBindings({p}), t) # {}
    /\ consent' = RevokedRows({p})
    /\ trail' = RevokedTrail({p})
    /\ binding' = RevokedBindings({p})
    /\ UNCHANGED <<now, device, consumer, retirements, history>>

\* releaseFor for the last holder: the same transaction reserves the device.
ReleaseLast(p, t) ==
    /\ consent[p].status # "none"
    /\ Holding(RevokedRows({p}), RevokedBindings({p}), t) = {}
    /\ retirements < MaxRetirements
    /\ consent' = RevokedRows({p})
    /\ trail' = RevokedTrail({p})
    /\ binding' = RevokedBindings({p})
    /\ device' = "retiring"
    /\ retirements' = retirements + 1
    /\ UNCHANGED <<now, consumer, history>>

\* retireFor: an operator ends every claim.  revokeWithin throws for a project
\* without a consent row, which would abort the whole transaction.
RetireFor ==
    /\ device # "absent"
    /\ retirements < MaxRetirements
    /\ \A p \in ProjectsBound : consent[p].status # "none"
    /\ consent' = RevokedRows(ProjectsBound)
    /\ trail' = RevokedTrail(ProjectsBound)
    /\ binding' = RevokedBindings(ProjectsBound)
    /\ device' = "retiring"
    /\ retirements' = retirements + 1
    /\ UNCHANGED <<now, consumer, history>>

\* retireDevice threw: the reservation is given back, if it is still there.
CancelRetirement ==
    /\ retirements > 0
    /\ retirements' = retirements - 1
    /\ device' = IF device = "retiring" THEN "disconnected" ELSE device
    /\ UNCHANGED <<now, consent, trail, binding, consumer, history>>

\* The statement that gives the reservation back throws as well: the row keeps it.
AbandonRetirement ==
    /\ retirements > 0
    /\ retirements' = retirements - 1
    /\ UNCHANGED <<now, device, consent, trail, binding, consumer, history>>

\* retireDevice ended: the device must pair again.
MarkRetired ==
    /\ retirements > 0
    /\ retirements' = retirements - 1
    /\ device' = "unpaired"
    /\ UNCHANGED <<now, consent, trail, binding, consumer, history>>

----------------------------------------------------------------------------
(* The engine event consumer, one event at a time.                         *)

\* onConnected's first write: the device row, whatever its state was.
DeviceConnected ==
    /\ consumer = "idle"
    /\ device # "absent"
    /\ device' = "connected"
    /\ consumer' = "activating"
    /\ UNCHANGED <<now, consent, trail, binding, retirements, history>>

\* Every binding waiting, for a scan or for a person, activated by the scan.
ActivateAllWaiting ==
    /\ consumer = "activating"
    /\ binding' = [e \in Environments |->
                     IF binding[e] \in {"pending_pairing", "pending_consent"}
                     THEN "active" ELSE binding[e]]
    /\ consumer' = "idle"
    /\ UNCHANGED <<now, device, consent, trail, retirements, history>>

\* onConnected's second write: only bindings that waited on the scan.
ActivatePaired ==
    /\ consumer = "activating"
    /\ binding' = [e \in Environments |->
                     IF binding[e] = "pending_pairing" THEN "active" ELSE binding[e]]
    /\ consumer' = "idle"
    /\ UNCHANGED <<now, device, consent, trail, retirements, history>>

\* onLoggedOut and setState: the row takes the engine's word for its state.
DeviceLost(s) ==
    /\ consumer = "idle"
    /\ device # "absent"
    /\ device' = s
    /\ UNCHANGED <<now, consent, trail, binding, consumer, retirements, history>>

\* The process stops and starts again: calls and events in flight are gone.
Restart ==
    /\ retirements > 0 \/ consumer = "activating"
    /\ retirements' = 0
    /\ consumer' = "idle"
    /\ UNCHANGED <<now, device, consent, trail, binding, history>>

Tick ==
    /\ now < MaxTime
    /\ now' = now + 1
    /\ UNCHANGED <<device, consent, trail, binding, consumer, retirements, history>>

----------------------------------------------------------------------------
Claim(e, t) ==
    \/ ClaimUnderGrant(e, t)
    \/ ClaimNewDevice(e, t)
    \/ ClaimJoiningQuestion(e, t)
    \/ ClaimAsking(e, t)

Respond(p, t) == RespondYes(p, t) \/ RespondNo(p, t) \/ RespondTooLate(p, t)

ReleaseFor(p, t) == ReleaseShared(p, t) \/ ReleaseLast(p, t)

Next ==
    \/ \E e \in Environments, t \in Readings : Claim(e, t)
    \/ \E p \in Projects, t \in Readings : Respond(p, t) \/ ReleaseFor(p, t)
    \/ \E p \in Projects : RevokeConsent(p)
    \/ RetireFor
    \/ CancelRetirement
    \/ AbandonRetirement
    \/ MarkRetired
    \/ DeviceConnected
    \/ ActivatePaired
    \/ \E s \in {"disconnected", "degraded", "logged_out"} : DeviceLost(s)
    \/ Restart
    \/ Tick

Spec == Init /\ [][Next]_vars

----------------------------------------------------------------------------
(* Properties.                                                             *)

\* A binding that carries traffic, or will as soon as the phone scans, belongs
\* to a project with consent: no claim, answer, release, retirement or engine
\* event leaves access standing that the consent row does not grant.
UsableOnlyUnderGrant ==
    \A e \in Environments :
        binding[e] \in {"active", "pending_pairing"} =>
            consent[ProjectOf[e]].status = "granted"

\* Of the projects sharing a number at most one got there by pairing it: every
\* other grant was given by the phone holder in answer to a question.
SharedOnlyByAnswer ==
    \A p, q \in Projects :
        /\ consent[p].status = "granted" /\ consent[p].implicit
        /\ consent[q].status = "granted" /\ consent[q].implicit
        => p = q

\* A bound project has a consent row and a grant has a binding, so retireFor can
\* always revoke what it finds and ends every grant there is.
BoundIffConsidered ==
    /\ \A e \in Environments : Bound(e) => consent[ProjectOf[e]].status # "none"
    /\ \A p \in Projects :
          consent[p].status = "granted" =>
              \E e \in Environments : ProjectOf[e] = p /\ Bound(e)

\* consent_events ends with the decision the row shows: what was agreed can be
\* read back from the trail alone.
TrailExplainsRow ==
    \A p \in Projects :
        consent[p].status = CASE trail[p] = "none" -> "none"
                              [] trail[p] = "requested" -> "pending"
                              [] OTHER -> trail[p]

\* While a device is reserved for retirement nobody has live access to it
\* (releaseFor: the decision and the reservation are one transaction).
ReservedMeansUnheld ==
    device = "retiring" => \A e \in Environments : binding[e] # "active"

\* A question inside its deadline is neither replaced nor extended: the
\* challenge the phone holder is looking at stays the one that can be answered.
LiveQuestionStands ==
    [][\A p \in Projects :
          (consent[p].status = "pending" /\ consent[p].deadline > now
             /\ consent'[p].status = "pending")
          => consent'[p] = consent[p]]_vars

\* No single step turns a refusal into a grant: between them lies a question.
RefusalNeedsQuestion ==
    [][\A p \in Projects :
          consent[p].status \in {"denied", "revoked"} =>
              consent'[p].status # "granted"]_vars

\* What hasStandingClaim's comment promises: a refusal is never silently undone,
\* only the phone holder saying yes undoes it.
RefusalUndoneOnlyByYes ==
    \A p \in refused : consent[p].status # "granted"

\* What respondWithin writes when the answer is late: the question expired.
LateAnswerRecorded ==
    \A p \in toldLapsed : consent[p].status # "pending"
=============================================================================
