---------------------------- MODULE DeviceProofs ----------------------------
(***************************************************************************)
(* What holds of a device for any projects, environments, requests, time   *)
(* to live, lock delay and bounds: first of its claims, then of the        *)
(* handlers and its retirement, which implement DeviceClaims, so that      *)
(* everything proved of the claims holds there, and strand no reservation  *)
(* but by a stop or a failure to give it back; and that the engine they    *)
(* assume is the contract of EngineSlot.                                   *)
(***************************************************************************)
EXTENDS DeviceRetirement, TLAPS

\* BoundIffConsidered is not inductive: the phone holder's yes turns a pending
\* row into a grant, so a pending row must be known to have a binding too.
DecidedRowsBound ==
    \A p \in Projects :
        consent[p].status \in {"pending", "granted", "denied"} =>
            \E e \in Environments : ProjectOf[e] = p /\ Bound(e)

BoundRowsExist ==
    \A e \in Environments : Bound(e) => consent[ProjectOf[e]].status # "none"

\* With a punctual clock a reserved device has no grant and no live question.
ReservedMeansUndecided ==
    device = "retiring" =>
        \A p \in Projects :
            /\ consent[p].status # "granted"
            /\ consent[p].status = "pending" => consent[p].deadline <= now

USE ClaimsAssumption

----------------------------------------------------------------------------
(* The rows after each kind of write.                                      *)

\* A claim that mints a token leaves a well-formed row.
LEMMA RowType ==
    ASSUME TypeOK, NEW p \in Projects, NEW s \in ConsentStatuses,
           NEW i \in BOOLEAN, NEW d \in Nat
    PROVE  [status |-> s, implicit |-> i, token |-> consent[p].token + 1,
            deadline |-> d] \in ConsentRow
BY DEF TypeOK, ConsentRow

\* revokeWithin changes the status of a row and nothing else of it.
LEMMA RevokedRowsType ==
    ASSUME TypeOK, NEW ps
    PROVE  /\ RevokedRows(ps) \in [Projects -> ConsentRow]
           /\ \A p \in Projects : p \in ps => RevokedRows(ps)[p].status = "revoked"
           /\ \A p \in Projects : p \notin ps => RevokedRows(ps)[p] = consent[p]
BY DEF TypeOK, RevokedRows, ConsentRow, ConsentStatuses

\* ... and the bindings of the projects it is asked about, all of them.
LEMMA RevokedBindingsType ==
    ASSUME TypeOK, NEW ps
    PROVE  /\ RevokedBindings(ps) \in [Environments -> BindingStatuses]
           /\ \A e \in Environments :
                 ProjectOf[e] \in ps => RevokedBindings(ps)[e] \in {"none", "revoked"}
           /\ \A e \in Environments :
                 ProjectOf[e] \notin ps => RevokedBindings(ps)[e] = binding[e]
BY DEF TypeOK, RevokedBindings, BindingStatuses

----------------------------------------------------------------------------
\* Every variable keeps its type, whatever the bounds.
THEOREM TypeCorrect == Spec => []TypeOK
<1>1. Init => TypeOK
  BY DEF Init, TypeOK, DeviceStates, ConsentRow, ConsentStatuses, BindingStatuses, NoRow
<1>2. TypeOK /\ [Next]_vars => TypeOK'
  <2> SUFFICES ASSUME TypeOK, [Next]_vars PROVE TypeOK'
    OBVIOUS
  <2>1. ASSUME NEW e \in Environments, NEW t \in Readings, Claim(e, t)
        PROVE  TypeOK'
    <3>0. /\ ProjectOf[e] \in Projects
          /\ t \in Nat
          /\ t + ConsentTTL \in Nat
          /\ Provisioned \in DeviceStates
      BY DEF Readings, TypeOK, Provisioned, DeviceStates
    <3>1. CASE ClaimUnderGrant(e, t)
      BY <3>0, <3>1 DEF ClaimUnderGrant, TypeOK, BindingStatuses, history
    <3>2. CASE ClaimNewDevice(e, t)
      <4>1. [status |-> "granted", implicit |-> TRUE,
             token |-> consent[ProjectOf[e]].token + 1, deadline |-> 0] \in ConsentRow
        BY <3>0, RowType DEF ConsentStatuses
      <4>2. QED
        BY <3>0, <3>2, <4>1 DEF ClaimNewDevice, TypeOK, BindingStatuses
    <3>3. CASE ClaimJoiningQuestion(e, t)
      BY <3>0, <3>3 DEF ClaimJoiningQuestion, TypeOK, BindingStatuses, history
    <3>4. CASE ClaimAsking(e, t)
      <4>1. [status |-> "pending", implicit |-> FALSE,
             token |-> consent[ProjectOf[e]].token + 1,
             deadline |-> t + ConsentTTL] \in ConsentRow
        BY <3>0, RowType DEF ConsentStatuses
      <4>2. QED
        BY <3>0, <3>4, <4>1 DEF ClaimAsking, TypeOK, BindingStatuses
    <3>5. QED
      BY <2>1, <3>1, <3>2, <3>3, <3>4 DEF Claim
  <2>2. ASSUME NEW p \in Projects, NEW t \in Readings, Respond(p, t)
        PROVE  TypeOK'
    <3>1. CASE RespondYes(p, t)
      BY <3>1 DEF RespondYes, ActivatedFor, TypeOK, ConsentRow, ConsentStatuses,
                  BindingStatuses
    <3>2. CASE RespondNo(p, t)
      BY <3>2 DEF RespondNo, TypeOK, ConsentRow, ConsentStatuses
    <3>3. CASE RespondTooLate(p, t)
      BY <3>3 DEF RespondTooLate, TypeOK
    <3>4. QED
      BY <2>2, <3>1, <3>2, <3>3 DEF Respond
  <2>3. ASSUME NEW p \in Projects, NEW t \in Readings, ReleaseFor(p, t)
        PROVE  TypeOK'
    BY <2>3, RevokedRowsType, RevokedBindingsType
       DEF ReleaseFor, ReleaseShared, ReleaseLast, RevokedTrail, TypeOK,
           DeviceStates, history
  <2>4. ASSUME NEW p \in Projects, RevokeConsent(p)
        PROVE  TypeOK'
    BY <2>4, RevokedRowsType, RevokedBindingsType
       DEF RevokeConsent, RevokedTrail, TypeOK
  <2>5. CASE RetireFor
    BY <2>5, RevokedRowsType, RevokedBindingsType
       DEF RetireFor, RevokedTrail, TypeOK, DeviceStates, history
  <2>6. CASE CancelRetirement \/ AbandonRetirement
    BY <2>6 DEF CancelRetirement, AbandonRetirement, TypeOK, DeviceStates, history
  <2>7. CASE MarkRetired
    BY <2>7 DEF MarkRetired, TypeOK, DeviceStates, history
  <2>8. CASE DeviceConnected
    BY <2>8 DEF DeviceConnected, TypeOK, DeviceStates, history
  <2>9. CASE ActivatePaired
    BY <2>9 DEF ActivatePaired, TypeOK, BindingStatuses, history
  <2>10. ASSUME NEW s \in {"disconnected", "degraded", "logged_out"}, DeviceLost(s)
         PROVE  TypeOK'
    BY <2>10 DEF DeviceLost, TypeOK, DeviceStates, history
  <2>11. CASE Restart
    BY <2>11 DEF Restart, TypeOK, history
  <2>12. CASE Tick
    BY <2>12 DEF Tick, TypeOK, history
  <2>13. CASE UNCHANGED vars
    BY <2>13 DEF vars, TypeOK
  <2>14. QED
    BY <2>1, <2>2, <2>3, <2>4, <2>5, <2>6, <2>7, <2>8, <2>9, <2>10, <2>11,
       <2>12, <2>13 DEF Next
<1>3. QED
  BY <1>1, <1>2, PTL DEF Spec

----------------------------------------------------------------------------
\* No claim, answer, release, retirement or engine event leaves a usable binding
\* of a project without consent.
THEOREM UsableUnderGrant == Spec => []UsableOnlyUnderGrant
<1>1. Init => UsableOnlyUnderGrant
  BY DEF Init, UsableOnlyUnderGrant
<1>2. TypeOK /\ UsableOnlyUnderGrant /\ [Next]_vars => UsableOnlyUnderGrant'
  <2> SUFFICES ASSUME TypeOK, UsableOnlyUnderGrant, [Next]_vars,
                      NEW e \in Environments,
                      binding'[e] \in {"active", "pending_pairing"}
               PROVE  consent'[ProjectOf[e]].status = "granted"
    BY DEF UsableOnlyUnderGrant
  <2> DEFINE pe == ProjectOf[e]
  <2>0. /\ pe \in Projects
        /\ binding[e] \in {"active", "pending_pairing"} => consent[pe].status = "granted"
    BY DEF UsableOnlyUnderGrant
  <2>1. ASSUME NEW f \in Environments, NEW t \in Readings, Claim(f, t)
        PROVE  consent'[pe].status = "granted"
    <3>0. ProjectOf[f] \in Projects
      OBVIOUS
    <3>1. CASE ClaimUnderGrant(f, t)
      BY <2>0, <3>0, <3>1 DEF ClaimUnderGrant, EffectiveStatus, TypeOK
    <3>2. CASE ClaimNewDevice(f, t)
      BY <2>0, <3>0, <3>2 DEF ClaimNewDevice, TypeOK
    <3>3. CASE ClaimJoiningQuestion(f, t)
      BY <2>0, <3>0, <3>3 DEF ClaimJoiningQuestion, TypeOK
    <3>4. CASE ClaimAsking(f, t)
      <4>1. consent[ProjectOf[f]].status # "granted"
        BY <3>4 DEF ClaimAsking, MustAsk, EffectiveStatus, Lapsed
      <4>2. binding[e] \in {"active", "pending_pairing"} /\ pe # ProjectOf[f]
        BY <2>0, <3>0, <3>4, <4>1 DEF ClaimAsking, TypeOK
      <4>3. QED
        BY <2>0, <3>0, <3>4, <4>2 DEF ClaimAsking, TypeOK
    <3>5. QED
      BY <2>1, <3>1, <3>2, <3>3, <3>4 DEF Claim
  <2>2. ASSUME NEW p \in Projects, NEW t \in Readings, Respond(p, t)
        PROVE  consent'[pe].status = "granted"
    <3>1. CASE RespondYes(p, t)
      BY <2>0, <3>1 DEF RespondYes, ActivatedFor, TypeOK, ConsentRow
    <3>2. CASE RespondNo(p, t)
      BY <2>0, <3>2 DEF RespondNo, TypeOK, ConsentRow
    <3>3. CASE RespondTooLate(p, t)
      BY <2>0, <3>3 DEF RespondTooLate
    <3>4. QED
      BY <2>2, <3>1, <3>2, <3>3 DEF Respond
  <2>3. ASSUME NEW ps, consent' = RevokedRows(ps), binding' = RevokedBindings(ps)
        PROVE  consent'[pe].status = "granted"
    BY <2>0, <2>3, RevokedRowsType, RevokedBindingsType
  <2>4. ASSUME NEW p \in Projects, NEW t \in Readings, ReleaseFor(p, t)
        PROVE  consent'[pe].status = "granted"
    BY <2>3, <2>4 DEF ReleaseFor, ReleaseShared, ReleaseLast
  <2>5. ASSUME NEW p \in Projects, RevokeConsent(p)
        PROVE  consent'[pe].status = "granted"
    BY <2>3, <2>5 DEF RevokeConsent
  <2>6. CASE RetireFor
    BY <2>3, <2>6 DEF RetireFor
  <2>7. CASE ActivatePaired
    BY <2>0, <2>7 DEF ActivatePaired, TypeOK
  <2>8. ASSUME UNCHANGED <<consent, binding>>
        PROVE  consent'[pe].status = "granted"
    BY <2>0, <2>8
  <2>9. QED
    BY <2>1, <2>2, <2>4, <2>5, <2>6, <2>7, <2>8
       DEF Next, CancelRetirement, AbandonRetirement, MarkRetired, DeviceConnected, DeviceLost,
           Restart, Tick, vars
<1>3. QED
  BY <1>1, <1>2, TypeCorrect, PTL DEF Spec

----------------------------------------------------------------------------
\* At most one project ever holds a number by having paired it; every other
\* grant was an answer.  An implicit grant is made only when no row stands.
THEOREM SharedByAnswer == Spec => []SharedOnlyByAnswer
<1>1. Init => SharedOnlyByAnswer
  BY DEF Init, SharedOnlyByAnswer, NoRow
<1>2. TypeOK /\ SharedOnlyByAnswer /\ [Next]_vars => SharedOnlyByAnswer'
  <2> DEFINE Paired(p) == consent[p].status = "granted" /\ consent[p].implicit
  <2> SUFFICES ASSUME TypeOK, SharedOnlyByAnswer, [Next]_vars,
                      NEW p \in Projects, NEW q \in Projects,
                      Paired(p)', Paired(q)'
               PROVE  p = q
    BY DEF SharedOnlyByAnswer
  <2>0. Paired(p) /\ Paired(q) => p = q
    BY DEF SharedOnlyByAnswer
  <2>1. ASSUME NEW f \in Environments, NEW t \in Readings, Claim(f, t)
        PROVE  p = q
    <3>0. ProjectOf[f] \in Projects
      OBVIOUS
    <3>1. CASE ClaimNewDevice(f, t)
      <4>1. \A r \in Projects : ~Paired(r)
        BY <3>1 DEF ClaimNewDevice, HasStandingClaim, EffectiveStatus, Lapsed
      <4>2. \A r \in Projects : r # ProjectOf[f] => ~Paired(r)'
        BY <3>0, <3>1, <4>1 DEF ClaimNewDevice, TypeOK
      <4>3. QED
        BY <4>2
    <3>2. CASE ClaimAsking(f, t)
      BY <2>0, <3>0, <3>2 DEF ClaimAsking, TypeOK
    <3>3. CASE UNCHANGED consent
      BY <2>0, <3>3
    <3>4. QED
      BY <2>1, <3>1, <3>2, <3>3 DEF Claim, ClaimUnderGrant, ClaimJoiningQuestion
  <2>2. ASSUME NEW r \in Projects, NEW t \in Readings, Respond(r, t)
        PROVE  p = q
    <3>1. CASE RespondYes(r, t)
      BY <2>0, <3>1 DEF RespondYes, TypeOK, ConsentRow
    <3>2. CASE RespondNo(r, t)
      BY <2>0, <3>2 DEF RespondNo, TypeOK, ConsentRow
    <3>3. CASE RespondTooLate(r, t)
      BY <2>0, <3>3 DEF RespondTooLate
    <3>4. QED
      BY <2>2, <3>1, <3>2, <3>3 DEF Respond
  <2>3. ASSUME NEW ps, consent' = RevokedRows(ps)
        PROVE  p = q
    BY <2>0, <2>3, RevokedRowsType
  <2>4. ASSUME UNCHANGED consent
        PROVE  p = q
    BY <2>0, <2>4
  <2>5. QED
    BY <2>1, <2>2, <2>3, <2>4
       DEF Next, ReleaseFor, ReleaseShared, ReleaseLast, RevokeConsent, RetireFor,
           CancelRetirement, AbandonRetirement, MarkRetired, DeviceConnected, ActivatePaired,
           DeviceLost, Restart, Tick, vars
<1>3. QED
  BY <1>1, <1>2, TypeCorrect, PTL DEF Spec

----------------------------------------------------------------------------
\* A row with a decision or an open question belongs to a bound project, and a
\* bound project has a row.
LEMMA ConsideredRows == Spec => [](DecidedRowsBound /\ BoundRowsExist)
<1> DEFINE IInv == DecidedRowsBound /\ BoundRowsExist
<1>1. Init => IInv
  BY DEF Init, DecidedRowsBound, BoundRowsExist, Bound, NoRow
<1>2. TypeOK /\ IInv /\ [Next]_vars => IInv'
  <2> SUFFICES ASSUME TypeOK, IInv, [Next]_vars PROVE IInv'
    OBVIOUS
  <2> USE DEF DecidedRowsBound, BoundRowsExist, Bound
  <2>1. ASSUME NEW f \in Environments, NEW t \in Readings, Claim(f, t)
        PROVE  IInv'
    <3>0. /\ ProjectOf[f] \in Projects
          /\ binding'[f] \in {"active", "pending_pairing", "pending_consent"}
          /\ \A e \in Environments : e # f => binding'[e] = binding[e]
          /\ consent'[ProjectOf[f]].status # "none"
          /\ \A p \in Projects : p # ProjectOf[f] => consent'[p] = consent[p]
      BY <2>1 DEF Claim, ClaimUnderGrant, ClaimNewDevice, ClaimJoiningQuestion,
                  ClaimAsking, EffectiveStatus, Lapsed, TypeOK
    <3>1. DecidedRowsBound'
      <4> SUFFICES ASSUME NEW p \in Projects,
                          consent'[p].status \in {"pending", "granted", "denied"}
                   PROVE  \E e \in Environments :
                             ProjectOf[e] = p /\ binding'[e] \notin {"none", "revoked"}
        OBVIOUS
      <4>1. CASE p = ProjectOf[f]
        BY <3>0, <4>1
      <4>2. CASE p # ProjectOf[f]
        <5>1. PICK e \in Environments :
                 ProjectOf[e] = p /\ binding[e] \notin {"none", "revoked"}
          BY <3>0, <4>2
        <5>2. QED
          BY <3>0, <4>2, <5>1
      <4>3. QED
        BY <4>1, <4>2
    <3>2. BoundRowsExist'
      BY <3>0
    <3>3. QED
      BY <3>1, <3>2
  <2>2. ASSUME NEW q \in Projects, NEW t \in Readings, Respond(q, t)
        PROVE  IInv'
    <3>1. /\ \A e \in Environments :
                binding'[e] \in {"none", "revoked"} <=> binding[e] \in {"none", "revoked"}
          /\ \A p \in Projects :
                consent'[p].status \in {"pending", "granted", "denied"} =>
                   consent[p].status \in {"pending", "granted", "denied"}
          /\ \A p \in Projects : consent'[p].status = "none" => consent[p].status = "none"
      <4>1. CASE RespondYes(q, t)
        BY <4>1 DEF RespondYes, ActivatedFor, TypeOK, ConsentRow, BindingStatuses
      <4>2. CASE RespondNo(q, t)
        BY <4>2 DEF RespondNo, TypeOK, ConsentRow
      <4>3. CASE RespondTooLate(q, t)
        BY <4>3 DEF RespondTooLate
      <4>4. QED
        BY <2>2, <4>1, <4>2, <4>3 DEF Respond
    <3>2. QED
      BY <3>1
  <2>3. ASSUME NEW ps, consent' = RevokedRows(ps), binding' = RevokedBindings(ps)
        PROVE  IInv'
    <3>1. DecidedRowsBound'
      <4> SUFFICES ASSUME NEW p \in Projects,
                          consent'[p].status \in {"pending", "granted", "denied"}
                   PROVE  \E e \in Environments :
                             ProjectOf[e] = p /\ binding'[e] \notin {"none", "revoked"}
        OBVIOUS
      <4>1. p \notin ps /\ consent'[p] = consent[p]
        BY <2>3, RevokedRowsType
      <4>2. PICK e \in Environments :
               ProjectOf[e] = p /\ binding[e] \notin {"none", "revoked"}
        BY <4>1
      <4>3. QED
        BY <2>3, <4>1, <4>2, RevokedBindingsType
    <3>2. BoundRowsExist'
      BY <2>3, RevokedRowsType, RevokedBindingsType
    <3>3. QED
      BY <3>1, <3>2
  <2>4. CASE ActivatePaired
    <3>1. \A e \in Environments :
             binding'[e] \in {"none", "revoked"} <=> binding[e] \in {"none", "revoked"}
      BY <2>4 DEF ActivatePaired, TypeOK
    <3>2. QED
      BY <2>4, <3>1 DEF ActivatePaired
  <2>5. ASSUME UNCHANGED <<consent, binding>>
        PROVE  IInv'
    BY <2>5
  <2>6. QED
    BY <2>1, <2>2, <2>3, <2>4, <2>5
       DEF Next, ReleaseFor, ReleaseShared, ReleaseLast, RevokeConsent, RetireFor,
           CancelRetirement, AbandonRetirement, MarkRetired, DeviceConnected, DeviceLost, Restart,
           Tick, vars
<1>3. QED
  BY <1>1, <1>2, TypeCorrect, PTL DEF Spec

\* An operator can end every claim there is: a bound project has a row for
\* revokeWithin to find, and a row that grants anything has a binding to find it by.
THEOREM ConsideredIffBound == Spec => []BoundIffConsidered
<1>1. DecidedRowsBound /\ BoundRowsExist => BoundIffConsidered
  BY DEF DecidedRowsBound, BoundRowsExist, BoundIffConsidered
<1>2. QED
  BY <1>1, ConsideredRows, PTL

----------------------------------------------------------------------------
\* The audit trail's last entry always names the decision the row shows.
THEOREM TrailExplains == Spec => []TrailExplainsRow
<1>1. Init => TrailExplainsRow
  BY DEF Init, TrailExplainsRow, NoRow
<1>2. TypeOK /\ TrailExplainsRow /\ [Next]_vars => TrailExplainsRow'
  <2> SUFFICES ASSUME TypeOK, TrailExplainsRow, [Next]_vars
               PROVE  TrailExplainsRow'
    OBVIOUS
  <2> USE DEF TrailExplainsRow
  <2>1. ASSUME NEW f \in Environments, NEW t \in Readings, Claim(f, t)
        PROVE  TrailExplainsRow'
    <3>0. ProjectOf[f] \in Projects
      OBVIOUS
    <3>1. CASE ClaimNewDevice(f, t)
      BY <3>0, <3>1 DEF ClaimNewDevice, TypeOK
    <3>2. CASE ClaimAsking(f, t)
      BY <3>0, <3>2 DEF ClaimAsking, TypeOK
    <3>3. CASE UNCHANGED <<consent, trail>>
      BY <3>3
    <3>4. QED
      BY <2>1, <3>1, <3>2, <3>3 DEF Claim, ClaimUnderGrant, ClaimJoiningQuestion
  <2>2. ASSUME NEW p \in Projects, NEW t \in Readings, Respond(p, t)
        PROVE  TrailExplainsRow'
    <3>1. CASE RespondYes(p, t)
      BY <3>1 DEF RespondYes, TypeOK, ConsentRow
    <3>2. CASE RespondNo(p, t)
      BY <3>2 DEF RespondNo, TypeOK, ConsentRow
    <3>3. CASE RespondTooLate(p, t)
      BY <3>3 DEF RespondTooLate
    <3>4. QED
      BY <2>2, <3>1, <3>2, <3>3 DEF Respond
  <2>3. ASSUME NEW ps, consent' = RevokedRows(ps), trail' = RevokedTrail(ps)
        PROVE  TrailExplainsRow'
    BY <2>3, RevokedRowsType DEF RevokedTrail
  <2>4. ASSUME UNCHANGED <<consent, trail>>
        PROVE  TrailExplainsRow'
    BY <2>4
  <2>5. QED
    BY <2>1, <2>2, <2>3, <2>4
       DEF Next, ReleaseFor, ReleaseShared, ReleaseLast, RevokeConsent, RetireFor,
           CancelRetirement, AbandonRetirement, MarkRetired, DeviceConnected, ActivatePaired,
           DeviceLost, Restart, Tick, vars
<1>3. QED
  BY <1>1, <1>2, TypeCorrect, PTL DEF Spec

----------------------------------------------------------------------------
\* No step, of any actor, takes a project from refused or revoked to granted:
\* a question has to be asked in between.
THEOREM RefusalMustBeAsked == Spec => RefusalNeedsQuestion
<1>1. TypeOK /\ [Next]_vars =>
        \A p \in Projects :
           consent[p].status \in {"denied", "revoked"} => consent'[p].status # "granted"
  <2> SUFFICES ASSUME TypeOK, [Next]_vars, NEW p \in Projects,
                      consent[p].status \in {"denied", "revoked"}
               PROVE  consent'[p].status # "granted"
    OBVIOUS
  <2>1. ASSUME NEW f \in Environments, NEW t \in Readings, Claim(f, t)
        PROVE  consent'[p].status # "granted"
    <3>0. ProjectOf[f] \in Projects
      OBVIOUS
    <3>1. CASE ClaimNewDevice(f, t)
      <4>1. p # ProjectOf[f]
        BY <3>1 DEF ClaimNewDevice, Undecided, EffectiveStatus, Lapsed
      <4>2. QED
        BY <3>0, <3>1, <4>1 DEF ClaimNewDevice, TypeOK
    <3>2. CASE ClaimAsking(f, t)
      BY <3>0, <3>2 DEF ClaimAsking, TypeOK
    <3>3. CASE UNCHANGED consent
      BY <3>3
    <3>4. QED
      BY <2>1, <3>1, <3>2, <3>3 DEF Claim, ClaimUnderGrant, ClaimJoiningQuestion
  <2>2. ASSUME NEW q \in Projects, NEW t \in Readings, Respond(q, t)
        PROVE  consent'[p].status # "granted"
    BY <2>2 DEF Respond, RespondYes, RespondNo, RespondTooLate, TypeOK
  <2>3. ASSUME NEW ps, consent' = RevokedRows(ps)
        PROVE  consent'[p].status # "granted"
    BY <2>3, RevokedRowsType
  <2>4. ASSUME UNCHANGED consent
        PROVE  consent'[p].status # "granted"
    BY <2>4
  <2>5. QED
    BY <2>1, <2>2, <2>3, <2>4
       DEF Next, ReleaseFor, ReleaseShared, ReleaseLast, RevokeConsent, RetireFor,
           CancelRetirement, AbandonRetirement, MarkRetired, DeviceConnected, ActivatePaired,
           DeviceLost, Restart, Tick, vars
<1>2. QED
  BY <1>1, TypeCorrect, PTL DEF Spec, RefusalNeedsQuestion

----------------------------------------------------------------------------
\* The challenge the phone holder is looking at stays the one that can be
\* answered: a claim that finds a live question joins it, however long ago it
\* read its clock.
THEOREM LiveQuestionKept == Spec => LiveQuestionStands
<1>1. TypeOK /\ [Next]_vars =>
        \A p \in Projects :
           (consent[p].status = "pending" /\ consent[p].deadline > now
              /\ consent'[p].status = "pending")
           => consent'[p] = consent[p]
  <2> SUFFICES ASSUME TypeOK, [Next]_vars, NEW p \in Projects,
                      consent[p].status = "pending", consent[p].deadline > now,
                      consent'[p].status = "pending"
               PROVE  consent'[p] = consent[p]
    OBVIOUS
  <2>0. now \in Nat /\ consent[p].deadline \in Nat
    BY DEF TypeOK, ConsentRow
  <2>1. ASSUME NEW f \in Environments, NEW t \in Readings, Claim(f, t)
        PROVE  consent'[p] = consent[p]
    <3>0. ProjectOf[f] \in Projects /\ t \in Nat /\ t <= now
      BY DEF Readings, TypeOK
    <3>1. CASE ClaimNewDevice(f, t)
      BY <3>0, <3>1 DEF ClaimNewDevice, TypeOK
    <3>2. CASE ClaimAsking(f, t)
      <4>1. p # ProjectOf[f]
        BY <2>0, <3>0, <3>2 DEF ClaimAsking, EffectiveStatus, Lapsed
      <4>2. QED
        BY <3>0, <3>2, <4>1 DEF ClaimAsking, TypeOK
    <3>3. CASE UNCHANGED consent
      BY <3>3
    <3>4. QED
      BY <2>1, <3>1, <3>2, <3>3 DEF Claim, ClaimUnderGrant, ClaimJoiningQuestion
  <2>2. ASSUME NEW q \in Projects, NEW t \in Readings, Respond(q, t)
        PROVE  consent'[p] = consent[p]
    BY <2>2 DEF Respond, RespondYes, RespondNo, RespondTooLate, TypeOK, ConsentRow
  <2>3. ASSUME NEW ps, consent' = RevokedRows(ps)
        PROVE  consent'[p] = consent[p]
    BY <2>3, RevokedRowsType
  <2>4. ASSUME UNCHANGED consent
        PROVE  consent'[p] = consent[p]
    BY <2>4
  <2>5. QED
    BY <2>1, <2>2, <2>3, <2>4
       DEF Next, ReleaseFor, ReleaseShared, ReleaseLast, RevokeConsent, RetireFor,
           CancelRetirement, AbandonRetirement, MarkRetired, DeviceConnected, ActivatePaired,
           DeviceLost, Restart, Tick, vars
<1>2. QED
  BY <1>1, TypeCorrect, PTL DEF Spec, LiveQuestionStands

----------------------------------------------------------------------------
\* If no call ever waits for the write lock, a reserved device has no binding
\* with access: the reservation is taken when nothing is granted and no question
\* is live, and a question that lapsed stays lapsed.
THEOREM ReservedUnheld == ASSUME Lag = 0 PROVE Spec => []ReservedMeansUnheld
<1> DEFINE IInv == DecidedRowsBound /\ UsableOnlyUnderGrant /\ ReservedMeansUndecided
<1>1. Spec => [](TypeOK /\ UsableOnlyUnderGrant)
  BY TypeCorrect, UsableUnderGrant, PTL
<1>2. Spec => []DecidedRowsBound
  BY ConsideredRows, PTL
<1>3. Init => ReservedMeansUndecided
  BY DEF Init, ReservedMeansUndecided
<1>4. TypeOK /\ DecidedRowsBound /\ ReservedMeansUndecided /\ [Next]_vars
        => ReservedMeansUndecided'
  <2> SUFFICES ASSUME TypeOK, DecidedRowsBound, ReservedMeansUndecided, [Next]_vars,
                      device' = "retiring", NEW p \in Projects
               PROVE  /\ consent'[p].status # "granted"
                      /\ consent'[p].status = "pending" => consent'[p].deadline <= now'
    BY DEF ReservedMeansUndecided
  <2> DEFINE Undecided1 ==
               /\ consent'[p].status # "granted"
               /\ consent'[p].status = "pending" => consent'[p].deadline <= now'
  <2>0. now \in Nat /\ consent[p].deadline \in Nat /\ \A t \in Readings : t = now
    BY DEF TypeOK, ConsentRow, Readings
  <2>1. ASSUME NEW f \in Environments, NEW t \in Readings, Claim(f, t)
        PROVE  FALSE
    BY <2>1 DEF Claim, ClaimUnderGrant, ClaimNewDevice, ClaimJoiningQuestion,
                ClaimAsking, MustAsk, Claimable, Provisioned
  <2>2. ASSUME NEW q \in Projects, NEW t \in Readings, Respond(q, t)
        PROVE  Undecided1
    <3>1. CASE RespondYes(q, t)
      BY <2>0, <3>1 DEF RespondYes, Lapsed, ReservedMeansUndecided
    <3>2. CASE RespondNo(q, t)
      BY <2>0, <3>2 DEF RespondNo, Lapsed, ReservedMeansUndecided
    <3>3. CASE RespondTooLate(q, t)
      BY <3>3 DEF RespondTooLate, ReservedMeansUndecided
    <3>4. QED
      BY <2>2, <3>1, <3>2, <3>3 DEF Respond
  <2>3. ASSUME NEW ps, consent' = RevokedRows(ps), device' = device, now' = now
        PROVE  Undecided1
    BY <2>3, RevokedRowsType DEF ReservedMeansUndecided
  <2>4. ASSUME NEW q \in Projects, NEW t \in Readings, ReleaseLast(q, t)
        PROVE  Undecided1
    <3> SUFFICES ASSUME p # q
                 PROVE  Undecided1
      BY <2>4, RevokedRowsType DEF ReleaseLast
    <3>1. consent'[p] = consent[p] /\ now' = now /\ t = now
      BY <2>0, <2>4, RevokedRowsType DEF ReleaseLast
    <3>2. CASE consent[p].status \in {"pending", "granted"}
      <4>1. PICK e \in Environments :
               ProjectOf[e] = p /\ binding[e] \notin {"none", "revoked"}
        BY <3>2 DEF DecidedRowsBound, Bound
      <4>2. RevokedBindings({q})[e] \notin {"none", "revoked"}
        BY <4>1, RevokedBindingsType
      <4>3. RevokedRows({q})[p] = consent[p]
        BY RevokedRowsType
      <4>4. EffectiveStatus(consent[p], now) \notin {"granted", "pending"}
        BY <2>4, <3>1, <4>1, <4>2, <4>3 DEF ReleaseLast, Holding
      <4>5. QED
        BY <3>1, <3>2, <4>4 DEF EffectiveStatus, Lapsed
    <3>3. QED
      BY <3>1, <3>2
  <2>5. CASE RetireFor
    <3>1. consent' = RevokedRows(ProjectsBound) /\ now' = now
      BY <2>5 DEF RetireFor
    <3>2. CASE p \in ProjectsBound
      BY <3>1, <3>2, RevokedRowsType
    <3>3. CASE p \notin ProjectsBound
      <4>1. consent'[p] = consent[p]
        BY <3>1, <3>3, RevokedRowsType
      <4>2. consent[p].status \notin {"pending", "granted"}
        BY <3>3 DEF ProjectsBound, DecidedRowsBound
      <4>3. QED
        BY <4>1, <4>2
    <3>4. QED
      BY <3>2, <3>3
  <2>6. CASE Tick
    BY <2>0, <2>6 DEF Tick, ReservedMeansUndecided
  <2>7. ASSUME UNCHANGED <<consent, device, now>>
        PROVE  Undecided1
    BY <2>7 DEF ReservedMeansUndecided
  <2>8. ASSUME NEW q \in Projects, NEW t \in Readings, ReleaseShared(q, t)
        PROVE  Undecided1
    BY <2>3, <2>8 DEF ReleaseShared
  <2>9. ASSUME NEW q \in Projects, RevokeConsent(q)
        PROVE  Undecided1
    BY <2>3, <2>9 DEF RevokeConsent
  <2>10. CASE CancelRetirement
    BY <2>10 DEF CancelRetirement, ReservedMeansUndecided
  <2>11. QED
    BY <2>1, <2>2, <2>4, <2>5, <2>6, <2>7, <2>8, <2>9, <2>10
       DEF Next, ReleaseFor, AbandonRetirement, MarkRetired, DeviceConnected,
           ActivatePaired, DeviceLost, Restart, vars
<1>5. TypeOK /\ UsableOnlyUnderGrant /\ ReservedMeansUndecided => ReservedMeansUnheld
  BY DEF UsableOnlyUnderGrant, ReservedMeansUndecided, ReservedMeansUnheld
<1>6. QED
  BY <1>1, <1>2, <1>3, <1>4, <1>5, PTL DEF Spec

-----------------------------------------------------------------------------
(* The request handlers and retirement (DeviceRetirement).                 *)

HIDE ClaimsAssumption
USE RetirementAssumption

\* Requests answered by the store alone, the clock, and the activation of
\* bindings change nothing that this module adds.
StoreOnly ==
    \/ \E e \in Environments, t \in Readings : ClaimWithoutPairing(e, t)
    \/ \E p \in Projects, t \in Readings : AnswerOrRevoke(p, t) \/ ReleaseClaim(p, t)
    \/ ConsumeActivate
    \/ ClockTick

LEMMA StoreOnlyKeeps == StoreOnly => UNCHANGED <<engine, handlers, restarts>>
BY DEF StoreOnly, ClaimWithoutPairing, AnswerOrRevoke, ReleaseClaim,
       ConsumeActivate, ClockTick

\* The queue holds kinds the consumer knows, whoever appends to it.
LEMMA EmittedKnown ==
    ASSUME events \in Seq(EventKinds), NEW k \in EventKinds, Emit(k)
    PROVE  events' \in Seq(EventKinds)
BY DEF Emit

LEMMA LoggedOutKnown ==
    ASSUME events \in Seq(EventKinds), LoggedOut,
           session \in {"none", "slot", "open", "linked", "down"}
    PROVE  /\ events' \in Seq(EventKinds)
           /\ session' \in {session, "slot"}
           /\ session = "none" => session' = "none"
<1>1. CASE UNCHANGED <<session, events>>
  BY <1>1
<1>2. CASE Emit("logged_out")
  BY <1>2, EmittedKnown, "logged_out" \in EventKinds DEF LoggedOut, EventKinds
<1>3. QED
  BY <1>1, <1>2 DEF LoggedOut

----------------------------------------------------------------------------
\* The variables of the handlers and the engine keep their types.
THEOREM HandlersTyped == RetirementSpec => []HandlersTypeOK
<1>1. RetirementInit => HandlersTypeOK
  <2>1. <<>> \in Seq(EventKinds)
    OBVIOUS
  <2>2. RetirementInit => pool \in BOOLEAN /\ creds \in BOOLEAN
    BY DEF RetirementInit
  <2>3. QED
    BY <2>1, <2>2 DEF RetirementInit, HandlersTypeOK
<1>2. HandlersTypeOK /\ [RetirementNext]_allVars => HandlersTypeOK'
  <2> SUFFICES ASSUME HandlersTypeOK, [RetirementNext]_allVars
               PROVE  HandlersTypeOK'
    OBVIOUS
  <2> USE DEF HandlersTypeOK, engine, handlers
  <2>1. CASE StoreOnly
    BY <2>1, StoreOnlyKeeps
  <2>2. ASSUME NEW e \in Environments, NEW t \in Readings, ClaimToPair(e, t)
        PROVE  HandlersTypeOK'
    BY <2>2 DEF ClaimToPair, PairerAt
  <2>3. ASSUME NEW e \in Environments, PairingStep(e)
        PROVE  HandlersTypeOK'
    <3>1. CASE LogoutRoute(e)
      BY <3>1, LoggedOutKnown DEF LogoutRoute
    <3>2. CASE \/ ProvisionSlot(e) \/ Reprovision(e) \/ ReadySlot(e)
               \/ StartPairing(e) \/ PairingFails(e)
      BY <3>2 DEF ProvisionSlot, Reprovision, ReadySlot, StartPairing, PairingFails,
                  Slotted, PairerAt
    <3>3. CASE ChoosePool(e) \/ NoCapacity(e) \/ AssignFails(e) \/ Repair(e)
      BY <3>3 DEF ChoosePool, NoCapacity, AssignFails, Repair, PairerAt
    <3>4. CASE AssignPool(e)
      BY <3>4 DEF AssignPool, PairerAt
    <3>5. QED
      BY <2>3, <3>1, <3>2, <3>3, <3>4 DEF PairingStep
  <2>4. ASSUME NEW r \in Retirers, NEW p \in Projects, NEW t \in Readings,
               ReleaseToRetire(r, p, t)
        PROVE  HandlersTypeOK'
    BY <2>4 DEF ReleaseToRetire, RetirerAt
  <2>5. ASSUME NEW r \in Retirers, RetireStep(r)
        PROVE  HandlersTypeOK'
    <3>1. CASE RetireLogout(r)
      BY <3>1, LoggedOutKnown DEF RetireLogout, RetirerAt
    <3>2. CASE RetirePurge(r)
      BY <3>2 DEF RetirePurge, RetirerAt
    <3>3. CASE RetireForget(r) \/ RetireMark(r)
      BY <3>3 DEF RetireForget, RetireMark, RetirerAt
    <3>4. CASE \/ OperatorRetire(r) \/ ReadPool(r) \/ RetireErase(r) \/ RetireFails(r)
               \/ GiveBack(r) \/ GiveBackFails(r)
      BY <3>4 DEF OperatorRetire, ReadPool, RetireErase, RetireFails, GiveBack,
                  GiveBackFails, RetirerAt
    <3>5. QED
      BY <2>5, <3>1, <3>2, <3>3, <3>4 DEF RetireStep
  <2>6. CASE Linked \/ Dropped \/ Reconnected \/ RemoteLogout
    <3>1. {"connected", "disconnected", "degraded", "logged_out"} \subseteq EventKinds
      BY DEF EventKinds
    <3>2. CASE Linked
      <4>1. events' \in Seq(EventKinds)
        BY <3>1, <3>2, EmittedKnown DEF Linked
      <4>2. QED
        BY <3>2, <4>1 DEF Linked
    <3>3. CASE Dropped \/ RemoteLogout
      BY <3>1, <3>3, EmittedKnown DEF Dropped, RemoteLogout
    <3>4. CASE Reconnected
      BY <3>4 DEF Reconnected
    <3>5. QED
      BY <2>6, <3>2, <3>3, <3>4
  <2>7. CASE ConsumeConnected \/ ConsumeLost
    <3>1. events \in Seq(EventKinds) /\ events # <<>> /\ events' = Tail(events)
      BY <2>7 DEF ConsumeConnected, ConsumeLost
    <3>2. events' \in Seq(EventKinds)
      BY <3>1
    <3>3. QED
      BY <2>7, <3>2 DEF ConsumeConnected, ConsumeLost
  <2>8. CASE ProcessRestart
    <3>1. <<>> \in Seq(EventKinds)
      OBVIOUS
    <3>2. QED
      BY <2>8, <3>1 DEF ProcessRestart
  <2>9. CASE UNCHANGED allVars
    BY <2>9 DEF allVars
  <2>10. QED
    BY <2>1, <2>2, <2>3, <2>4, <2>5, <2>6, <2>7, <2>8, <2>9
       DEF RetirementNext, StoreOnly
<1>3. QED
  BY <1>1, <1>2, PTL DEF RetirementSpec

----------------------------------------------------------------------------
\* The handlers around the store only ever do to the rows what DeviceStore and
\* the consumer do: the composed system implements DeviceClaims.
THEOREM ImplementsClaims == RetirementSpec => Spec
<1>1. RetirementInit => Init
  BY DEF RetirementInit
<1>2. HandlersTypeOK /\ [RetirementNext]_allVars => [Next]_vars
  <2> SUFFICES ASSUME HandlersTypeOK, [RetirementNext]_allVars
               PROVE  [Next]_vars
    OBVIOUS
  <2>1. ASSUME NEW e \in Environments, NEW t \in Readings,
               ClaimWithoutPairing(e, t) \/ ClaimToPair(e, t)
        PROVE  Next
    BY <2>1 DEF ClaimWithoutPairing, ClaimToPair, Next, Claim
  <2>2. ASSUME NEW p \in Projects, NEW t \in Readings,
               AnswerOrRevoke(p, t) \/ ReleaseClaim(p, t)
        PROVE  Next
    BY <2>2 DEF AnswerOrRevoke, ReleaseClaim, Next, ReleaseFor
  <2>3. ASSUME NEW e \in Environments, PairingStep(e)
        PROVE  UNCHANGED vars
    BY <2>3 DEF PairingStep, ChoosePool, NoCapacity, ProvisionSlot, AssignPool,
                AssignFails, Repair, Reprovision, ReadySlot, StartPairing,
                PairingFails,
                LogoutRoute
  <2>4. ASSUME NEW r \in Retirers, NEW p \in Projects, NEW t \in Readings,
               ReleaseToRetire(r, p, t)
        PROVE  Next
    BY <2>4 DEF ReleaseToRetire, Next, ReleaseFor
  <2>5. ASSUME NEW r \in Retirers, RetireStep(r)
        PROVE  Next \/ UNCHANGED vars
    BY <2>5 DEF RetireStep, OperatorRetire, ReadPool, RetireLogout, RetirePurge,
                RetireForget, RetireErase, RetireMark, RetireFails, GiveBack,
                GiveBackFails, Next
  <2>6. CASE Linked \/ Dropped \/ Reconnected \/ RemoteLogout
    BY <2>6 DEF Linked, Dropped, Reconnected, RemoteLogout
  <2>7. CASE ConsumeConnected
    BY <2>7 DEF ConsumeConnected, Next
  <2>8. CASE ConsumeLost
    <3>1. Head(events) \in {"disconnected", "degraded", "logged_out"}
      BY <2>8 DEF ConsumeLost, HandlersTypeOK, EventKinds
    <3>2. QED
      BY <2>8, <3>1 DEF ConsumeLost, Next
  <2>9. CASE ConsumeActivate \/ ClockTick
    BY <2>9 DEF ConsumeActivate, ClockTick, Next
  <2>10. CASE ProcessRestart
    BY <2>10 DEF ProcessRestart, Next
  <2>11. CASE UNCHANGED allVars
    BY <2>11 DEF allVars, vars
  <2>12. QED
    BY <2>1, <2>2, <2>3, <2>4, <2>5, <2>6, <2>7, <2>8, <2>9, <2>10, <2>11
       DEF RetirementNext
<1>3. QED
  BY <1>1, <1>2, HandlersTyped, PTL DEF RetirementSpec, Spec

\* Every variable of the composed system keeps its type.
THEOREM RetirementTyped == RetirementSpec => []RetirementTypeOK
BY ImplementsClaims, TypeCorrect, HandlersTyped, PTL DEF RetirementTypeOK

\* With a punctual clock a reserved device has no active binding, whatever the
\* handlers, the engine and the consumer do around the store.
THEOREM RetirementReservedUnheld ==
    ASSUME Lag = 0
    PROVE  RetirementSpec => []ReservedMeansUnheld
BY ImplementsClaims, ReservedUnheld, PTL

----------------------------------------------------------------------------
\* A reservation is taken together with a request, and is left behind by the last one
\* only when the process stops or a failed retirement cannot give it back either.
THEOREM ReservationOwned == RetirementSpec => StrandedOnlyByFailure
<1> DEFINE Owned == device # "retiring" /\ device' = "retiring" => Retiring'
           Excused == Retiring /\ ~Retiring' /\ device' = "retiring" =>
                         restarts' # restarts \/ \E r \in Retirers : GiveBackFails(r)
<1>1. HandlersTypeOK /\ [RetirementNext]_allVars => [Owned /\ Excused]_allVars
  <2> SUFFICES ASSUME HandlersTypeOK, RetirementNext PROVE Owned /\ Excused
    OBVIOUS
  <2> USE DEF Retiring, engine, handlers
  <2>1. ASSUME retirer' = retirer, device' \in {device} \/ device' # "retiring"
        PROVE  Owned /\ Excused
    BY <2>1
  <2>2. ASSUME NEW e \in Environments, NEW t \in Readings,
               ClaimWithoutPairing(e, t) \/ ClaimToPair(e, t)
        PROVE  Owned /\ Excused
    BY <2>1, <2>2 DEF ClaimWithoutPairing, ClaimToPair, ClaimUnderGrant,
                ClaimJoiningQuestion, ClaimAsking, ClaimNewDevice, MustAsk,
                Claimable, Provisioned
  <2>3. ASSUME NEW p \in Projects, NEW t \in Readings,
               AnswerOrRevoke(p, t) \/ ReleaseClaim(p, t)
        PROVE  Owned /\ Excused
    BY <2>1, <2>3 DEF AnswerOrRevoke, Respond, RespondYes, RespondNo, RespondTooLate,
                RevokeConsent, ReleaseClaim, ReleaseShared
  <2>4. ASSUME NEW e \in Environments, PairingStep(e)
        PROVE  Owned /\ Excused
    BY <2>1, <2>4 DEF PairingStep, ChoosePool, NoCapacity, ProvisionSlot, AssignPool,
                AssignFails, Repair, Reprovision, ReadySlot, StartPairing,
                PairingFails, LogoutRoute, vars
  <2>5. ASSUME NEW r \in Retirers, retirer'[r] # "idle"
        PROVE  Owned /\ Excused
    BY <2>5
  <2>6. ASSUME NEW r \in Retirers, NEW p \in Projects, NEW t \in Readings,
               ReleaseToRetire(r, p, t)
        PROVE  Owned /\ Excused
    BY <2>5, <2>6 DEF ReleaseToRetire, RetirerAt, HandlersTypeOK
  <2>7. ASSUME NEW r \in Retirers, RetireStep(r)
        PROVE  Owned /\ Excused
    <3>1. CASE RetireMark(r) \/ GiveBack(r)
      BY <3>1 DEF RetireMark, GiveBack, MarkRetired, CancelRetirement
    <3>2. CASE GiveBackFails(r)
      BY <3>2 DEF GiveBackFails, AbandonRetirement
    <3>3. CASE \/ OperatorRetire(r) \/ ReadPool(r) \/ RetireLogout(r) \/ RetirePurge(r)
               \/ RetireForget(r) \/ RetireErase(r) \/ RetireFails(r)
      BY <2>5, <3>3 DEF OperatorRetire, ReadPool, RetireLogout, RetirePurge, RetireForget,
                  RetireErase, RetireFails, RetirerAt, HandlersTypeOK
    <3>4. QED
      BY <2>7, <3>1, <3>2, <3>3 DEF RetireStep
  <2>8. CASE Linked \/ Dropped \/ Reconnected \/ RemoteLogout
    BY <2>1, <2>8 DEF Linked, Dropped, Reconnected, RemoteLogout, vars
  <2>9. CASE ConsumeConnected \/ ConsumeActivate
    BY <2>1, <2>9 DEF ConsumeConnected, ConsumeActivate, DeviceConnected, ActivatePaired
  <2>10. CASE ConsumeLost
    <3>1. Head(events) # "retiring"
      BY <2>10 DEF ConsumeLost, HandlersTypeOK, EventKinds
    <3>2. QED
      BY <2>1, <2>10, <3>1 DEF ConsumeLost, DeviceLost
  <2>11. CASE ProcessRestart
    <3>1. device' = device /\ restarts' # restarts
      BY <2>11 DEF ProcessRestart, Restart, vars, HandlersTypeOK
    <3>2. QED
      BY <3>1
  <2>12. CASE ClockTick
    BY <2>1, <2>12 DEF ClockTick, Tick
  <2>13. QED
    BY <2>2, <2>3, <2>4, <2>6, <2>7, <2>8, <2>9, <2>10, <2>11, <2>12
       DEF RetirementNext
<1>2. QED
  BY <1>1, HandlersTyped, PTL DEF RetirementSpec, StrandedOnlyByFailure

-----------------------------------------------------------------------------
(* The engine of DeviceRetirement is the contract of EngineSlot: it takes  *)
(* every step the contract allows an engine, and no other.                 *)

VARIABLES
    lost,   \* as in EngineSlot
    told

Contract == INSTANCE EngineSlot WITH slot <- session

\* The last word of the stream in a step, if it says anything.
Heard == IF Len(events') > Len(events) THEN events'[Len(events')] ELSE "nothing"

\* What the contract remembers of a slot, read off the steps: a connection said to be up
\* after an outage is a recovery, a slot that is gone is remembered by nothing.
Remembers ==
    /\ told' = IF Heard = "nothing" THEN told
               ELSE IF Heard = "connected" /\ lost = "yes" THEN "recovered" ELSE Heard
    /\ lost' = IF session' = "none" \/ Heard = "connected" THEN "no"
               ELSE IF Heard \in {"disconnected", "degraded"} THEN "yes" ELSE lost

RememberingInit == RetirementInit /\ lost = "no" /\ told = "nothing"
RememberingNext == RetirementNext /\ Remembers
RememberingVars == <<allVars, lost, told>>

\* A slot that is not there has lost nothing.
GoneIsForgotten == session = "none" => lost = "no"

(* What an emitted event leaves to be heard, and what silence does.        *)
LEMMA EmittedIsHeard ==
    ASSUME events \in Seq(EventKinds), NEW k \in EventKinds, Emit(k)
    PROVE  Heard = k
<1>1. Len(events') = Len(events) + 1 /\ events'[Len(events')] = k
  BY DEF Emit
<1>2. QED
  BY <1>1 DEF Heard

LEMMA SilenceIsHeard ==
    ASSUME events \in Seq(EventKinds),
           \/ events' = events
           \/ events' = <<>>
           \/ events # <<>> /\ events' = Tail(events)
    PROVE  Heard = "nothing"
<1>1. Len(events) \in Nat /\ Len(events') <= Len(events)
  OBVIOUS
<1>2. QED
  BY <1>1 DEF Heard

(* A step that says nothing and leaves the slot alone is no step of the    *)
(* contract.                                                               *)
LEMMA QuietKeeps ==
    ASSUME GoneIsForgotten, Remembers, Heard = "nothing", session' = session
    PROVE  UNCHANGED Contract!slotVars
BY DEF GoneIsForgotten, Remembers, Contract!slotVars

(* Each step of the composed system is, to the contract, one of its steps  *)
(* or none.                                                                *)
ContractStep == Contract!SlotNext \/ UNCHANGED Contract!slotVars

LEMMA StoreStepsContract ==
    ASSUME HandlersTypeOK, GoneIsForgotten, Remembers,
           UNCHANGED <<session, events>>
    PROVE  ContractStep
BY SilenceIsHeard, QuietKeeps DEF HandlersTypeOK, ContractStep

LEMMA LoggedOutContract ==
    ASSUME HandlersTypeOK, GoneIsForgotten, Remembers, LoggedOut
    PROVE  ContractStep
<1>1. CASE UNCHANGED <<session, events>>
  BY <1>1, StoreStepsContract
<1>2. CASE /\ session' \in IF session = "none" THEN {"none"} ELSE {session, "slot"}
           /\ Emit("logged_out")
  <2>1. Heard = "logged_out"
    BY <1>2, EmittedIsHeard DEF HandlersTypeOK, EventKinds
  <2>2. told' = "logged_out" /\ lost' = lost
    BY <1>2, <2>1 DEF Remembers, GoneIsForgotten, HandlersTypeOK
  <2>3. Contract!LogsOut
    BY <1>2, <2>2 DEF Contract!LogsOut
  <2>4. QED
    BY <2>3 DEF ContractStep, Contract!SlotNext
<1>3. QED
  BY <1>1, <1>2 DEF LoggedOut

LEMMA PairingContract ==
    ASSUME HandlersTypeOK, GoneIsForgotten, Remembers,
           NEW e \in Environments, PairingStep(e)
    PROVE  ContractStep
<1>1. CASE LogoutRoute(e)
  BY <1>1, LoggedOutContract DEF LogoutRoute
<1>2. CASE ChoosePool(e) \/ NoCapacity(e) \/ AssignPool(e) \/ AssignFails(e) \/ Repair(e)
           \/ PairingFails(e)
  BY <1>2, StoreStepsContract
     DEF ChoosePool, NoCapacity, AssignPool, AssignFails, Repair, PairingFails, engine
<1>3. ASSUME events' = events, session' # "none"
      PROVE  UNCHANGED <<lost, told>>
  BY <1>3, SilenceIsHeard DEF Remembers, HandlersTypeOK
<1>4. CASE ProvisionSlot(e) \/ Reprovision(e)
  <2>1. events' = events /\ session' = Slotted /\ session' # "none"
    BY <1>4 DEF ProvisionSlot, Reprovision, Slotted
  <2>2. UNCHANGED <<lost, told>>
    BY <1>3, <2>1
  <2>3. QED
    BY <2>1, <2>2 DEF Slotted, ContractStep, Contract!SlotNext, Contract!Provided,
                      Contract!slotVars
<1>5. CASE ReadySlot(e)
  <2>1. UNCHANGED <<lost, told>>
    BY <1>3, <1>5 DEF ReadySlot
  <2>2. Contract!Provided \/ Contract!LetsGo
    BY <1>5, <2>1 DEF ReadySlot, Contract!Provided, Contract!LetsGo
  <2>3. QED
    BY <2>2 DEF ContractStep, Contract!SlotNext
<1>6. CASE StartPairing(e)
  <2>1. UNCHANGED <<lost, told>>
    BY <1>3, <1>6 DEF StartPairing
  <2>2. Contract!Connects
    BY <1>6, <2>1 DEF StartPairing, Contract!Connects
  <2>3. QED
    BY <2>2 DEF ContractStep, Contract!SlotNext
<1>7. QED
  BY <1>1, <1>2, <1>4, <1>5, <1>6 DEF PairingStep

LEMMA DestroyedContract ==
    ASSUME HandlersTypeOK, Remembers, session' = "none",
           events' = events \/ events' = <<>>
    PROVE  ContractStep
<1>1. told' = told /\ lost' = "no"
  BY SilenceIsHeard DEF Remembers, HandlersTypeOK
<1>2. Contract!Destroyed
  BY <1>1 DEF Contract!Destroyed
<1>3. QED
  BY <1>2 DEF ContractStep, Contract!SlotNext

LEMMA RetireContract ==
    ASSUME HandlersTypeOK, GoneIsForgotten, Remembers,
           NEW r \in Retirers, RetireStep(r)
    PROVE  ContractStep
<1>1. CASE RetireLogout(r)
  BY <1>1, LoggedOutContract DEF RetireLogout
<1>2. CASE RetirePurge(r)
  BY <1>2, DestroyedContract DEF RetirePurge
<1>3. CASE OperatorRetire(r) \/ ReadPool(r) \/ RetireForget(r) \/ RetireErase(r)
           \/ RetireMark(r) \/ RetireFails(r) \/ GiveBack(r) \/ GiveBackFails(r)
  BY <1>3, StoreStepsContract
     DEF OperatorRetire, ReadPool, RetireForget, RetireErase, RetireMark, RetireFails,
         GiveBack, GiveBackFails, engine
<1>4. QED
  BY <1>1, <1>2, <1>3 DEF RetireStep

LEMMA EngineContract ==
    ASSUME HandlersTypeOK, GoneIsForgotten, Remembers,
           Linked \/ Dropped \/ Reconnected \/ RemoteLogout
    PROVE  ContractStep
<1>1. {"connected", "disconnected", "degraded", "logged_out"} \subseteq EventKinds
      /\ events \in Seq(EventKinds)
  BY DEF EventKinds, HandlersTypeOK
<1>2. CASE Linked
  <2>1. Heard = "connected"
    BY <1>1, <1>2, EmittedIsHeard DEF Linked
  <2>2. Contract!Links
    BY <1>2, <2>1 DEF Linked, Remembers, Contract!Links
  <2>3. QED
    BY <2>2 DEF ContractStep, Contract!SlotNext
<1>3. CASE Dropped
  <2>1. session # "none" /\ session' \in {"down", "slot"}
    BY <1>3 DEF Dropped, LateAttempt
  <2>2. \/ Heard = "disconnected"
        \/ Heard = "degraded" /\ session' = "down"
    BY <1>1, <1>3, EmittedIsHeard DEF Dropped
  <2>3. told' = Heard /\ lost' = "yes"
    BY <2>1, <2>2 DEF Remembers
  <2>4. Contract!Breaks
    BY <2>1, <2>2, <2>3 DEF Contract!Breaks
  <2>5. QED
    BY <2>4 DEF ContractStep, Contract!SlotNext
<1>4. CASE Reconnected
  <2>1. UNCHANGED <<lost, told>> /\ session \in {"down", "slot"} /\ session' = "open"
    BY <1>1, <1>4, SilenceIsHeard DEF Reconnected, LateAttempt, Remembers
  <2>2. Contract!Connects
    BY <2>1 DEF Contract!Connects
  <2>3. QED
    BY <2>2 DEF ContractStep, Contract!SlotNext
<1>5. CASE RemoteLogout
  <2>1. Heard = "logged_out"
    BY <1>1, <1>5, EmittedIsHeard DEF RemoteLogout
  <2>2. Contract!LogsOut
    BY <1>5, <2>1 DEF RemoteLogout, Remembers, Contract!LogsOut
  <2>3. QED
    BY <2>2 DEF ContractStep, Contract!SlotNext
<1>6. QED
  BY <1>2, <1>3, <1>4, <1>5

\* What the handlers, the engine and the stream do to a device's slot is within the
\* engine's contract (engine/types.ts): no step of the composed system asks of an engine,
\* or assumes of it, more than EngineSlot lets it do.  Remembers only follows along: it
\* says what lost and told become at every step, and so restrains none.
THEOREM WithinContract ==
    RememberingInit /\ [][RememberingNext]_RememberingVars => Contract!SlotSpec
<1>1. RememberingInit => RetirementInit /\ GoneIsForgotten /\ Contract!SlotInit
  BY DEF RememberingInit, RetirementInit, GoneIsForgotten, Contract!SlotInit
<1>2. [RememberingNext]_RememberingVars => [RetirementNext]_allVars
  BY DEF RememberingNext, RememberingVars
<1>3. GoneIsForgotten /\ [RememberingNext]_RememberingVars => GoneIsForgotten'
  BY DEF GoneIsForgotten, RememberingNext, RememberingVars, Remembers, allVars, engine
<1>4. HandlersTypeOK /\ GoneIsForgotten /\ [RememberingNext]_RememberingVars
        => [Contract!SlotNext]_(Contract!slotVars)
  <2> SUFFICES ASSUME HandlersTypeOK, GoneIsForgotten, RememberingNext
               PROVE  ContractStep
    BY DEF ContractStep, RememberingVars, allVars, engine, Contract!slotVars
  <2>1. RetirementNext /\ Remembers
    BY DEF RememberingNext
  <2>2. CASE StoreOnly
    BY <2>1, <2>2, StoreOnlyKeeps, StoreStepsContract DEF engine
  <2>3. ASSUME NEW e \in Environments, NEW t \in Readings, ClaimToPair(e, t)
        PROVE  ContractStep
    BY <2>1, <2>3, StoreStepsContract DEF ClaimToPair, engine
  <2>4. ASSUME NEW e \in Environments, PairingStep(e)
        PROVE  ContractStep
    BY <2>1, <2>4, PairingContract
  <2>5. ASSUME NEW r \in Retirers, NEW p \in Projects, NEW t \in Readings,
               ReleaseToRetire(r, p, t)
        PROVE  ContractStep
    BY <2>1, <2>5, StoreStepsContract DEF ReleaseToRetire, engine
  <2>6. ASSUME NEW r \in Retirers, RetireStep(r)
        PROVE  ContractStep
    BY <2>1, <2>6, RetireContract
  <2>7. CASE Linked \/ Dropped \/ Reconnected \/ RemoteLogout
    BY <2>1, <2>7, EngineContract
  <2>8. CASE ConsumeConnected \/ ConsumeLost
    <3>1. session' = session /\ events # <<>> /\ events' = Tail(events)
      BY <2>8 DEF ConsumeConnected, ConsumeLost
    <3>2. Heard = "nothing"
      BY <3>1, SilenceIsHeard DEF HandlersTypeOK
    <3>3. QED
      BY <2>1, <3>1, <3>2, QuietKeeps DEF ContractStep
  <2>9. CASE ProcessRestart
    BY <2>1, <2>9, DestroyedContract DEF ProcessRestart
  <2>10. QED
    BY <2>1, <2>2, <2>3, <2>4, <2>5, <2>6, <2>7, <2>8, <2>9 DEF RetirementNext, StoreOnly
<1>5. QED
  BY <1>1, <1>2, <1>3, <1>4, HandlersTyped, PTL DEF RetirementSpec, Contract!SlotSpec

\* The converse: whatever the contract lets an engine do of itself, DeviceRetirement lets
\* its engine do, with the same word on the stream ("recovered" only follows a "connected",
\* and handleEngineEvent writes no row for it); a logout may end in any way the contract has
\* for one.  What is proved of the composed system therefore holds with any engine that
\* keeps the contract and whose reconnects do not reach into a slot that a later claim has
\* not recorded yet, unless Forgotten allows them to.
THEOREM ContractIsAssumed ==
    ASSUME HandlersTypeOK,
           session = "slot" /\ ~pool => Forgotten,
           UNCHANGED <<vars, pool, handlers, restarts>>
    PROVE  /\ Contract!Connects /\ UNCHANGED <<creds, events>>
                => Reconnected \/ UNCHANGED allVars
           /\ Contract!Links /\ creds' = TRUE /\ Emit("connected") => Linked
           /\ Contract!Breaks /\ UNCHANGED creds /\ Emit(told') => Dropped
           /\ Contract!Unlinks /\ UNCHANGED creds /\ Emit(told') => RemoteLogout
           /\ Contract!LogsOut /\ Emit(told') => LoggedOut
<1>1. session = "slot" => LateAttempt
  BY DEF LateAttempt
<1>2. session \in {"none", "slot", "open", "linked", "down"}
  BY DEF HandlersTypeOK
<1>3. Contract!Connects /\ UNCHANGED <<creds, events>> => Reconnected \/ UNCHANGED allVars
  BY <1>1, <1>2 DEF Contract!Connects, Reconnected, allVars, engine
<1>4. Contract!Links /\ creds' = TRUE /\ Emit("connected") => Linked
  BY DEF Contract!Links, Linked
<1>5. Contract!Breaks /\ UNCHANGED creds /\ Emit(told') => Dropped
  BY <1>1, <1>2 DEF Contract!Breaks, Dropped
<1>6. Contract!Unlinks /\ UNCHANGED creds /\ Emit(told') => RemoteLogout
  BY DEF Contract!Unlinks, RemoteLogout
<1>7. Contract!LogsOut /\ Emit(told') => LoggedOut
  BY DEF Contract!LogsOut, LoggedOut
<1>8. QED
  BY <1>3, <1>4, <1>5, <1>6, <1>7
=============================================================================
