----------------------------- MODULE KeysProofs -----------------------------
(***************************************************************************)
(* Proofs about the keys, for any values of API_KEY, any calls of the      *)
(* setup routes and any number of rows and starts: a setup token mints one *)
(* key, API_KEY alone is in force once it was registered, and a request is *)
(* not let in as a row that had ended when it came.                        *)
(***************************************************************************)
EXTENDS Keys, FiniteSetTheorems, WellFoundedInduction, TLAPS

Rows == [kind : RowKinds, value : Values \cup {"own"}, state : RowStates, token : 0..MaxBoots]
CallRecords == [pc : CallStates, kind : {"status", "setup", "boot"},
                presents : 0..MaxBoots, configured : {"yes", "no"}]
Requests == [pc : RequestStates, row : 0..MaxRows, seen : RowStates, ended : SUBSET Ids]

\* What a request is resolved to is a row.
RequestHasRow == request.pc # "idle" => request.row \in Used

\* A registration has something to register.
RegistersAValue == \A f \in Calls : At(f, "commit") => apiKey # "unset"

Typed == TypeOK /\ RequestHasRow /\ RegistersAValue

LEMMA Bounds ==
    /\ MaxBoots \in Nat /\ 0 \in 0..MaxBoots /\ 1 \in 1..MaxBoots
    /\ MaxRows \in Nat /\ 0 \in 0..MaxRows
  BY KeysAssumption

(* The smallest id that is not used, while one is left.                    *)
LEMMA FreshIsUnused ==
    ASSUME Used # Ids PROVE Fresh \in Ids /\ row[Fresh].kind = "none"
<1>1. Ids \ Used \subseteq Nat /\ Ids \ Used # {}
  BY KeysAssumption DEF Ids, Used
<1>2. \E i \in Ids \ Used : \A j \in Ids \ Used : i <= j
  <2> DEFINE Less == {p \in Nat \X Nat : p[1] < p[2]}
  <2>1. IsWellFoundedOn(Less, Nat)
    BY NatLessThanWellFounded DEF OpToRel
  <2>2. PICK i \in Ids \ Used : \A j \in Ids \ Used : <<j, i>> \notin Less
    <3> HIDE DEF Less
    <3> QED BY <1>1, <2>1, WFMin
  <2>3. ASSUME NEW j \in Ids \ Used PROVE i <= j
    <3>1. i \in Nat /\ j \in Nat /\ <<j, i>> \in Nat \X Nat
      BY <1>1
    <3>2. ~(j < i)
      BY <2>2, <3>1
    <3> QED BY <3>1, <3>2
  <2> QED BY <2>3
<1>3. Fresh \in Ids \ Used
  BY <1>2 DEF Fresh, Min
<1> QED BY <1>3 DEF Used

(* A row is written once; after that it may only cease to be live.         *)
Kept(old, new) ==
    /\ new.kind = old.kind /\ new.value = old.value /\ new.token = old.token
    /\ \/ new.state = old.state
       \/ old.state = "live" /\ new.state \in {"superseded", "revoked"}

LEMMA Superseding ==
    ASSUME row \in [Ids -> Rows]
    PROVE  /\ Superseded \in [Ids -> Rows]
           /\ \A i \in Ids : Kept(row[i], Superseded[i])
           /\ \A i \in Ids : i \in LiveEnv => Superseded[i].state = "superseded"
           /\ \A i \in Ids : i \notin LiveEnv => Superseded[i] = row[i]
<1>1. ASSUME NEW i \in Ids
      PROVE  /\ [row[i] EXCEPT !.state = "superseded"] \in Rows
             /\ [row[i] EXCEPT !.state = "superseded"].state = "superseded"
             /\ [row[i] EXCEPT !.state = "superseded"].kind = row[i].kind
             /\ [row[i] EXCEPT !.state = "superseded"].value = row[i].value
             /\ [row[i] EXCEPT !.state = "superseded"].token = row[i].token
  BY DEF Rows, RowStates
<1>2. \A i \in Ids : i \in LiveEnv => row[i].state = "live"
  BY DEF LiveEnv
<1>3. Superseded \in [Ids -> Rows]
  BY <1>1 DEF Superseded
<1>4. \A i \in Ids : Superseded[i] = IF i \in LiveEnv THEN [row[i] EXCEPT !.state = "superseded"]
                                                    ELSE row[i]
  BY DEF Superseded
<1> QED BY <1>1, <1>2, <1>3, <1>4 DEF Kept

LEMMA Revoking ==
    ASSUME row \in [Ids -> Rows], NEW i \in Ids, row[i].state = "live",
           row' = [row EXCEPT ![i].state = "revoked"]
    PROVE  /\ row' \in [Ids -> Rows] /\ \A j \in Ids : Kept(row[j], row'[j])
           /\ row'[i].state = "revoked" /\ \A j \in Ids \ {i} : row'[j] = row[j]
  BY DEF Rows, RowStates, Kept

LEMMA Writing ==
    ASSUME row \in [Ids -> Rows], Used # Ids, NEW new \in Rows, new.kind # "none",
           row' = [row EXCEPT ![Fresh] = new]
    PROVE  /\ row' \in [Ids -> Rows] /\ row'[Fresh] = new
           /\ Fresh \in Ids /\ row[Fresh].kind = "none"
           /\ \A j \in Ids \ {Fresh} : row'[j] = row[j]
  BY FreshIsUnused

LEMMA RowMoves ==
    ASSUME Typed, Next
    PROVE  /\ row' \in [Ids -> Rows]
           /\ \A i \in Used : Kept(row[i], row'[i])
<1> DEFINE Goal == row' \in [Ids -> Rows] /\ \A i \in Used : Kept(row[i], row'[i])
<1>0. /\ row \in [Ids -> Rows] /\ Used \subseteq Ids /\ token \in 0..MaxBoots
      /\ \A i \in Ids : i \in Used <=> row[i].kind # "none"
      /\ flow \in [Calls -> CallRecords] /\ Flows \subseteq Calls
      /\ apiKey \in Values \cup {"unset"} /\ 0 \in 0..MaxBoots
  BY KeysAssumption DEF Typed, TypeOK, Rows, Used, CallRecords, Calls
<1>1. CASE UNCHANGED row
  BY <1>0, <1>1 DEF Kept
<1>2. ASSUME NEW f \in Calls, Retire(f) PROVE Goal
  BY <1>0, <1>2, Superseding DEF Retire
<1>3. ASSUME NEW i \in Ids, Ends(i) \/ RevokeByPrefix(i) PROVE Goal
  BY <1>0, <1>3, Revoking DEF Ends, RevokeByPrefix
<1>4. CASE Create
  <2>1. [kind |-> "tenant", value |-> "own", state |-> "live", token |-> 0] \in Rows
    BY <1>0 DEF Rows, RowKinds, RowStates
  <2> QED BY <1>0, <1>4, <2>1, Writing DEF Create, Kept
<1>5. ASSUME NEW f \in Flows, Mint(f) PROVE Goal
  <2>1. [kind |-> "setup", value |-> "own", state |-> "live", token |-> flow[f].presents] \in Rows
    BY <1>0 DEF Rows, RowKinds, RowStates, CallRecords
  <2>2. CASE row' = [row EXCEPT ![Fresh] = [kind |-> "setup", value |-> "own", state |-> "live",
                                           token |-> flow[f].presents]]
    BY <1>0, <1>5, <2>1, <2>2, Writing DEF Mint, Kept
  <2> QED BY <1>1, <1>5, <2>2 DEF Mint
<1>6. ASSUME NEW f \in Calls, Register(f) PROVE Goal
  <2>1. [kind |-> "env", value |-> apiKey, state |-> "live", token |-> 0] \in Rows
    BY <1>0, <1>6 DEF Rows, RowKinds, RowStates, Register, Typed, RegistersAValue
  <2>2. Fresh \in Ids /\ row[Fresh].kind = "none"
    BY <1>6, FreshIsUnused DEF Register
  <2>3. row' = [Superseded EXCEPT ![Fresh] = [kind |-> "env", value |-> apiKey, state |-> "live", token |-> 0]]
    BY <1>6 DEF Register
  <2> QED BY <1>0, <2>1, <2>2, <2>3, Superseding
<1> QED
  BY <1>0, <1>1, <1>2, <1>3, <1>4, <1>5, <1>6 DEF Next, Called, SetupStarts, Starts, CallFails,
     ReadHistory, Count, ProcessRestart, RequestSame, Arrive, ReadCandidates, Verified,
     TenantChecked, Handled

-----------------------------------------------------------------------------
(* Types.                                                                  *)
LEMMA TypeInit == Init => Typed
<1> SUFFICES ASSUME Init PROVE Typed
  OBVIOUS
<1>1. row \in [Ids -> Rows]
  <2>2. NoRow \in Rows
    BY Bounds DEF NoRow, Rows, RowKinds, RowStates
  <2>3. CASE row = [i \in Ids |-> NoRow]
    BY <2>2, <2>3
  <2>4. ASSUME NEW v \in Values, NEW w \in Values, NEW first \in {"live", "superseded"},
               row = Rotated(<<v, w>>, first)
        PROVE  row \in [Ids -> Rows]
    <3>1. DOMAIN <<v, w>> = 1..2 /\ \A i \in 1..2 : <<v, w>>[i] \in Values
      <4>1. DOMAIN <<v, w>> = 1..2 /\ <<v, w>>[1] = v /\ <<v, w>>[2] = w
        OBVIOUS
      <4>2. \A i \in 1..2 : i = 1 \/ i = 2
        OBVIOUS
      <4> QED BY <4>1, <4>2
    <3>2. \A x \in Values, s \in {"live", "superseded"} :
             [NoRow EXCEPT !.kind = "env", !.value = x, !.state = s] \in Rows
      BY Bounds DEF NoRow, Rows, RowKinds, RowStates
    <3> QED BY <2>2, <2>4, <3>1, <3>2 DEF Rotated
  <2> QED BY <2>3, <2>4 DEF Init
<1>2. flow \in [Calls -> CallRecords]
  <2>1. Idle \in CallRecords /\ Booting \in CallRecords
    BY Bounds DEF Idle, Booting, CallRecords, CallStates
  <2> QED BY <2>1 DEF Init
<1>3. request \in Requests /\ request.pc = "idle"
  BY KeysAssumption DEF Init, NoRequest, Requests, RequestStates, RowStates
<1>4. \A f \in Calls : ~At(f, "commit")
  BY DEF Init, At, Booting, Idle
<1>5. /\ apiKey \in Values \cup {"unset"} /\ boots \in 1..MaxBoots /\ token \in 0..boots
      /\ ready \in {"yes", "no"} /\ overtaken \in {"yes", "no"}
  BY KeysAssumption DEF Init
<1> QED
  BY <1>1, <1>2, <1>3, <1>4, <1>5
  DEF Typed, TypeOK, RequestHasRow, RegistersAValue, Rows, CallRecords, Requests

LEMMA TypeStep == Typed /\ [Next]_vars => Typed'
<1> SUFFICES ASSUME Typed, Next PROVE Typed'
  <2>1. ASSUME Typed, UNCHANGED vars PROVE Typed'
    BY <2>1 DEF vars, Typed, TypeOK, RequestHasRow, RegistersAValue, Used, At
  <2> QED BY <2>1
<1>0. /\ flow \in [Calls -> CallRecords] /\ Flows \subseteq Calls /\ "boot" \in Calls
      /\ apiKey \in Values \cup {"unset"} /\ boots \in 1..MaxBoots /\ token \in 0..boots
      /\ ready \in {"yes", "no"} /\ overtaken \in {"yes", "no"}
      /\ MaxBoots \in Nat /\ MaxRows \in Nat
      /\ request \in Requests
  BY KeysAssumption DEF Typed, TypeOK, CallRecords, Calls, Requests
<1>1. row' \in [Ids -> Rows] /\ Used \subseteq Used'
  BY RowMoves DEF Kept, Used, Typed
<1>2. flow' \in [Calls -> CallRecords]
  <2>1. Idle \in CallRecords /\ Booting \in CallRecords
    BY Bounds DEF Idle, Booting, CallRecords, CallStates
  <2>2. ASSUME NEW f \in Flows, NEW kind \in {"status", "setup"}, NEW b \in 0..MaxBoots, Called(f, kind, b)
        PROVE  flow' \in [Calls -> CallRecords]
    <3>1. \A pc \in CallStates :
              [Idle EXCEPT !.kind = kind, !.presents = b, !.pc = pc] \in CallRecords
      BY DEF Idle, CallRecords
    <3>2. "queued" \in CallStates /\ "ensure" \in CallStates
      BY DEF CallStates
    <3> QED BY <1>0, <2>2, <3>1, <3>2 DEF Called
  <2>3. ASSUME NEW f \in Calls, NEW pc \in CallStates, Goes(f, pc)
        PROVE  flow' \in [Calls -> CallRecords]
    <3>1. [flow[f] EXCEPT !.pc = pc] \in CallRecords
      BY <1>0 DEF CallRecords
    <3> QED BY <1>0, <2>3, <3>1 DEF Goes
  <2>4. ASSUME NEW f \in Calls, Over(f) PROVE flow' \in [Calls -> CallRecords]
    BY <1>0, <2>1, <2>4 DEF Over
  <2>5. ASSUME NEW f \in Calls, Count(f) PROVE flow' \in [Calls -> CallRecords]
    <3>1. CASE Over(f)
      BY <2>4, <3>1
    <3>2. ASSUME NEW c \in {"yes", "no"},
                 flow' = [flow EXCEPT ![f].pc = "mint", ![f].configured = c]
          PROVE  flow' \in [Calls -> CallRecords]
      <4>1. [flow[f] EXCEPT !.pc = "mint", !.configured = c] \in CallRecords
        BY <1>0 DEF CallRecords, CallStates
      <4>2. flow' = [flow EXCEPT ![f] = [flow[f] EXCEPT !.pc = "mint", !.configured = c]]
        BY <1>0, <3>2 DEF CallRecords
      <4> QED BY <1>0, <4>1, <4>2
    <3> QED BY <2>5, <3>1, <3>2 DEF Count
  <2>6. CASE ProcessRestart
    BY <2>1, <2>6 DEF ProcessRestart
  <2>7. CASE UNCHANGED flow
    BY <1>0, <2>7
  <2>8. /\ "ensure" \in CallStates /\ "count" \in CallStates /\ "retire" \in CallStates
        /\ "commit" \in CallStates /\ \A b \in 1..boots : b \in 0..MaxBoots
        /\ 0 \in 0..MaxBoots
    BY <1>0 DEF CallStates
  <2>9. ASSUME NEW f \in Calls, ReadHistory(f) PROVE flow' \in [Calls -> CallRecords]
    BY <2>3, <2>8, <2>9 DEF ReadHistory
  <2>10. ASSUME NEW f \in Flows, SetupStarts(f) \/ Mint(f) \/ CallFails(f)
         PROVE  flow' \in [Calls -> CallRecords]
    BY <1>0, <2>3, <2>4, <2>8, <2>10 DEF SetupStarts, Starts, Mint, CallFails
  <2>11. ASSUME NEW f \in Calls, Retire(f) \/ Register(f) PROVE flow' \in [Calls -> CallRecords]
    BY <2>3, <2>8, <2>11 DEF Retire, Register
  <2>12. ASSUME NEW f \in Flows, Called(f, "status", 0) \/ \E b \in 1..boots : Called(f, "setup", b)
         PROVE  flow' \in [Calls -> CallRecords]
    BY <2>2, <2>8, <2>12
  <2> QED
    BY <2>5, <2>6, <2>7, <2>9, <2>10, <2>11, <2>12 DEF Next, Create, Ends, RevokeByPrefix,
       RequestSame, Arrive, ReadCandidates, Verified, TenantChecked, Handled
<1>3. request' \in Requests /\ RequestHasRow'
  <2>1. NoRequest \in Requests /\ NoRequest.pc = "idle"
    BY <1>0 DEF NoRequest, Requests, RequestStates, RowStates
  <2>2. ASSUME NEW i \in Ids, Arrive(i) PROVE request' \in Requests /\ RequestHasRow'
    <3>1. Candidates(i) \subseteq Ids /\ i \in 0..MaxRows /\ i \in Used
      BY <1>0, <2>2 DEF Arrive, Candidates, EnvRows, Used, Ids
    <3>2. request' \in Requests /\ request'.row = i
      BY <1>0, <2>1, <2>2, <3>1 DEF Arrive, Requests, RequestStates
    <3> QED BY <1>1, <3>1, <3>2 DEF RequestHasRow
  <2>3. CASE ReadCandidates
    <3>1. PICK j \in Candidates(request.row) :
              request' = [request EXCEPT !.pc = "verify", !.row = j, !.seen = row[j].state,
                                         !.ended = @ \cap {j}]
      BY <2>3 DEF ReadCandidates
    <3>2. request.row \in Used
      BY <2>3 DEF ReadCandidates, Typed, RequestHasRow
    <3>3. j \in Used /\ j \in 0..MaxRows /\ row[j].state \in RowStates
      BY <1>0, <3>1, <3>2 DEF Candidates, EnvRows, Used, Ids, Typed, TypeOK
    <3>4. request' \in Requests /\ request'.row = j
      BY <1>0, <3>1, <3>3 DEF Requests, RequestStates
    <3> QED BY <1>1, <3>3, <3>4 DEF RequestHasRow
  <2>4. CASE Verified \/ TenantChecked
    <3>1. CASE request' = NoRequest
      BY <2>1, <3>1 DEF RequestHasRow
    <3>2. ASSUME NEW pc \in {"tenant", "in"},
                 \/ request' = [request EXCEPT !.seen = "none", !.pc = pc]
                 \/ request' = [request EXCEPT !.pc = pc]
          PROVE  request' \in Requests /\ RequestHasRow'
      <4>1. request' \in Requests /\ request'.row = request.row
        BY <1>0, <3>2 DEF Requests, RequestStates, RowStates
      <4>2. request.row \in Used
        BY <2>4 DEF Verified, TenantChecked, Typed, RequestHasRow
      <4> QED BY <1>1, <4>1, <4>2 DEF RequestHasRow
    <3> QED BY <2>4, <3>1, <3>2 DEF Verified, TenantChecked
  <2>5. CASE Handled \/ ProcessRestart
    BY <2>1, <2>5 DEF Handled, ProcessRestart, RequestHasRow
  <2>6. CASE UNCHANGED request
    BY <1>0, <1>1, <2>6 DEF Typed, RequestHasRow
  <2> QED
    BY <2>2, <2>3, <2>4, <2>5, <2>6 DEF Next, Called, SetupStarts, Starts, Mint, CallFails,
       ReadHistory, Retire, Register, Count, Create, Ends, RevokeByPrefix
<1>4. RegistersAValue'
  <2>1. ASSUME NEW g \in Calls, At(g, "commit")' PROVE apiKey' # "unset"
    <3>1. CASE ProcessRestart
      BY <2>1, <3>1 DEF ProcessRestart, At, Booting, Idle
    <3>2. CASE At(g, "commit") /\ UNCHANGED apiKey
      BY <3>2 DEF Typed, RegistersAValue
    <3>3. CASE ReadHistory(g)
      BY <1>0, <2>1, <3>3 DEF ReadHistory, Goes, At
    <3>4. ASSUME NEW f \in Calls, f # g, flow'[g] = flow[g], UNCHANGED apiKey PROVE apiKey' # "unset"
      BY <2>1, <3>4 DEF Typed, RegistersAValue, At
    <3>5. ASSUME NEW f \in Flows, NEW kind \in {"status", "setup"}, NEW b \in 0..MaxBoots,
                 Called(f, kind, b)
          PROVE  apiKey' # "unset"
      BY <1>0, <2>1, <3>4, <3>5 DEF Called, At, Idle
    <3>6. ASSUME NEW f \in Calls, NEW pc \in {"ensure", "count"}, Goes(f, pc), UNCHANGED apiKey
          PROVE  apiKey' # "unset"
      BY <1>0, <2>1, <3>4, <3>6 DEF Goes, At, CallRecords
    <3>7. ASSUME NEW f \in Calls, Over(f), UNCHANGED apiKey PROVE apiKey' # "unset"
      BY <1>0, <2>1, <3>4, <3>7 DEF Over, At, Idle
    <3>8. ASSUME NEW f \in Calls, Count(f) PROVE apiKey' # "unset"
      BY <1>0, <2>1, <3>4, <3>7, <3>8 DEF Count, At, CallRecords
    <3>9. ASSUME NEW f \in Calls, ReadHistory(f), f # g PROVE apiKey' # "unset"
      BY <1>0, <3>4, <3>9 DEF ReadHistory, Goes
    <3>10. CASE UNCHANGED <<flow, apiKey>>
      BY <2>1, <3>10 DEF Typed, RegistersAValue, At
    <3>11. ASSUME NEW f \in Flows, SetupStarts(f) \/ Mint(f) \/ CallFails(f) PROVE apiKey' # "unset"
      BY <1>0, <3>6, <3>7, <3>11 DEF SetupStarts, Starts, Mint, CallFails
    <3>12. ASSUME NEW f \in Calls, Retire(f) \/ Register(f) PROVE apiKey' # "unset"
      BY <3>6, <3>12 DEF Retire, Register
    <3>13. ASSUME NEW f \in Flows, Called(f, "status", 0) \/ \E b \in 1..boots : Called(f, "setup", b)
           PROVE  apiKey' # "unset"
      <4>1. 0 \in 0..MaxBoots /\ \A b \in 1..boots : b \in 0..MaxBoots
        BY <1>0
      <4> QED BY <3>5, <3>13, <4>1
    <3> QED
      BY <3>1, <3>3, <3>8, <3>9, <3>10, <3>11, <3>12, <3>13 DEF Next, Create, Ends, RevokeByPrefix,
         RequestSame, Arrive, ReadCandidates, Verified, TenantChecked, Handled
  <2> QED BY <2>1 DEF RegistersAValue
<1>5. /\ apiKey' \in Values \cup {"unset"} /\ boots' \in 1..MaxBoots /\ token' \in 0..boots'
      /\ ready' \in {"yes", "no"} /\ overtaken' \in {"yes", "no"}
  <2>1. CASE ProcessRestart
    BY <1>0, <2>1 DEF ProcessRestart
  <2>2. ASSUME NEW f \in Calls, Count(f) PROVE <1>5!:
    BY <1>0, <2>2 DEF Count
  <2>3. ASSUME NEW f \in Flows, Mint(f) PROVE <1>5!:
    BY <1>0, <2>3 DEF Mint
  <2>4. CASE UNCHANGED <<apiKey, boots, token, ready>> /\ overtaken' \in {overtaken, "yes"}
    BY <1>0, <2>4
  <2> QED
    BY <2>1, <2>2, <2>3, <2>4 DEF Next, Called, SetupStarts, Starts, CallFails, ReadHistory, Retire,
       Register, Create, Ends, RevokeByPrefix, RequestSame, Arrive, ReadCandidates, Verified,
       TenantChecked, Handled
<1>6. request'.pc = "in" => row'[request'.row].kind # "none"
  BY <1>3 DEF RequestHasRow, Used
<1> QED
  BY <1>1, <1>2, <1>3, <1>4, <1>5, <1>6 DEF Typed, TypeOK, Rows, CallRecords, Requests

-----------------------------------------------------------------------------
(* A setup token mints one key.                                            *)

\* The boot is one call, and only a setup queues or mints.
CallsKnow ==
    \A f \in Calls :
        /\ flow[f].pc # "idle" => (flow[f].kind = "boot" <=> f = "boot")
        /\ flow[f].pc \in {"queued", "mint"} => flow[f].kind = "setup"

\* A token is this boot's, which is over.
TokenOfBoot == token # 0 => token = boots /\ flow["boot"].pc = "idle"

\* What is about to be spent is the token there is.
MintHoldsToken ==
    \A f \in Calls : flow[f].pc = "mint" => token # 0 /\ flow[f].presents = token

\* One setup at a time is past the queue.
InSetup(f) == flow[f].kind = "setup" /\ flow[f].pc \notin {"idle", "queued"}
OneSetup == \A f, g \in Flows : InSetup(f) /\ InSetup(g) => f = g

\* No key was minted with the token there is, nor with the one the boot may issue.
SpentBefore ==
    \A i \in Used : row[i].kind = "setup" =>
        /\ row[i].token \in 1..boots
        /\ token # 0 \/ flow["boot"].pc # "idle" => row[i].token < boots

TokenInv ==
    /\ CallsKnow /\ TokenOfBoot /\ MintHoldsToken /\ OneSetup /\ SpentBefore
    /\ TokenMintsOnce

LEMMA TokenInit == Init => TokenInv
<1> SUFFICES ASSUME Init PROVE TokenInv
  OBVIOUS
<1>1. \A f \in Calls : flow[f] = IF f = "boot" THEN Booting ELSE Idle
  BY DEF Init
<1>2. "boot" \in Calls /\ Flows \subseteq Calls /\ "boot" \notin Flows
  BY KeysAssumption DEF Calls
<1>3. \A i \in Used : row[i].kind = "env"
  <2>1. CASE row = [i \in Ids |-> NoRow]
    BY <2>1 DEF Used, NoRow
  <2>2. ASSUME NEW v \in Values, NEW w \in Values, NEW first \in {"live", "superseded"},
               row = Rotated(<<v, w>>, first)
        PROVE  \A i \in Used : row[i].kind = "env"
    BY <2>2 DEF Used, Rotated, NoRow
  <2> QED BY <2>1, <2>2 DEF Init
<1>4. token = 0
  BY DEF Init
<1>5. Idle.pc = "idle" /\ Booting.pc = "ensure" /\ Booting.kind = "boot"
  BY DEF Idle, Booting
<1>6. CallsKnow /\ MintHoldsToken
  BY <1>1, <1>5 DEF CallsKnow, MintHoldsToken
<1>7. OneSetup
  BY <1>1, <1>2, <1>5 DEF OneSetup, InSetup
<1>8. TokenOfBoot /\ SpentBefore /\ TokenMintsOnce
  BY <1>3, <1>4 DEF TokenOfBoot, SpentBefore, TokenMintsOnce
<1> QED BY <1>6, <1>7, <1>8 DEF TokenInv

(* Only Mint writes a row of the kind setup.                               *)
LEMMA SetupRowsStay ==
    ASSUME Typed, Next, \A f \in Flows : ~Mint(f)
    PROVE  \A i \in Used' : row'[i].kind = "setup" =>
               i \in Used /\ row[i].kind = "setup" /\ row'[i].token = row[i].token
<1>0. row \in [Ids -> Rows]
  BY DEF Typed, TypeOK, Rows
<1> SUFFICES ASSUME NEW i \in Ids, row'[i].kind = "setup"
             PROVE  i \in Used /\ row[i].kind = "setup" /\ row'[i].token = row[i].token
  BY DEF Used
<1>1. CASE i \in Used
  BY <1>1, RowMoves DEF Kept
<1>2. CASE i \notin Used
  <2>1. row[i].kind = "none"
    BY <1>2 DEF Used
  <2>2. CASE UNCHANGED row
    BY <2>1, <2>2
  <2>3. ASSUME NEW f \in Calls, Retire(f) PROVE FALSE
    BY <1>0, <2>1, <2>3, Superseding DEF Retire, Kept
  <2>4. ASSUME NEW j \in Ids, Ends(j) \/ RevokeByPrefix(j) PROVE FALSE
    BY <1>0, <2>1, <2>4, Revoking DEF Ends, RevokeByPrefix, Kept
  <2>5. CASE Create
    <3>1. [kind |-> "tenant", value |-> "own", state |-> "live", token |-> 0].kind = "tenant"
      OBVIOUS
    <3> QED BY <1>0, <2>1, <2>5, <3>1, FreshIsUnused DEF Create
  <2>6. ASSUME NEW f \in Calls, Register(f) PROVE FALSE
    BY <1>0, <2>1, <2>6, FreshIsUnused, Superseding DEF Register, Kept
  <2> QED
    BY <2>2, <2>3, <2>4, <2>5, <2>6 DEF Next, Called, SetupStarts, Starts, CallFails,
       ReadHistory, Count, ProcessRestart, RequestSame, Arrive, ReadCandidates, Verified,
       TenantChecked, Handled
<1> QED BY <1>1, <1>2

LEMMA SpentStays ==
    ASSUME Typed, Next, TokenInv, \A f \in Flows : ~Mint(f),
           \/ boots' = boots /\ (token' # 0 \/ flow'["boot"].pc # "idle"
                                    => token # 0 \/ flow["boot"].pc # "idle")
           \/ boots' = boots + 1
    PROVE  SpentBefore' /\ TokenMintsOnce'
<1>1. \A i \in Used' : row'[i].kind = "setup" =>
          i \in Used /\ row[i].kind = "setup" /\ row'[i].token = row[i].token
  BY SetupRowsStay
<1>2. TokenMintsOnce'
  BY <1>1 DEF TokenMintsOnce, TokenInv
<1>3. boots \in 1..MaxBoots /\ MaxBoots \in Nat
  BY Bounds DEF Typed, TypeOK
<1>4. SpentBefore'
  BY <1>1, <1>3 DEF SpentBefore, TokenInv
<1> QED BY <1>2, <1>4

LEMMA TokenStep ==
    ASSUME Typed, Next, TokenInv PROVE TokenInv'
<1>0. /\ flow \in [Calls -> CallRecords] /\ Flows \subseteq Calls /\ "boot" \in Calls
      /\ "boot" \notin Flows /\ boots \in 1..MaxBoots /\ token \in 0..boots
      /\ MaxBoots \in Nat /\ row \in [Ids -> Rows]
      /\ CallsKnow /\ TokenOfBoot /\ MintHoldsToken /\ OneSetup
  BY KeysAssumption DEF Typed, TypeOK, CallRecords, Calls, TokenInv, Rows
<1> DEFINE Calling == CallsKnow' /\ MintHoldsToken' /\ OneSetup'
<1>1. CASE UNCHANGED <<flow, token, boots>> /\ \A f \in Flows : ~Mint(f)
  <2>1. Calling /\ TokenOfBoot'
    BY <1>0, <1>1 DEF CallsKnow, MintHoldsToken, OneSetup, TokenOfBoot, InSetup
  <2> QED BY <1>1, <2>1, SpentStays DEF TokenInv
<1>2. ASSUME NEW f \in Flows, NEW kind \in {"status", "setup"}, NEW b, Called(f, kind, b),
             \A g \in Flows : ~Mint(g)
      PROVE  TokenInv'
  <2>1. /\ flow'[f].pc = IF kind = "setup" THEN "queued" ELSE "ensure"
        /\ flow'[f].kind = kind /\ \A g \in Calls \ {f} : flow'[g] = flow[g]
        /\ UNCHANGED <<token, boots>>
    BY <1>0, <1>2 DEF Called, Idle
  <2>2. Calling /\ TokenOfBoot'
    BY <1>0, <2>1 DEF CallsKnow, MintHoldsToken, OneSetup, TokenOfBoot, InSetup
  <2>3. flow'["boot"] = flow["boot"]
    BY <1>0, <2>1
  <2> QED BY <1>2, <2>1, <2>2, <2>3, SpentStays DEF TokenInv
<1>3. ASSUME NEW f \in Flows, SetupStarts(f), \A g \in Flows : ~Mint(g) PROVE TokenInv'
  <2>1. /\ flow[f].pc = "queued" /\ flow'[f].pc = "ensure" /\ flow'[f].kind = flow[f].kind
        /\ \A g \in Calls \ {f} : flow'[g] = flow[g]
        /\ UNCHANGED <<token, boots>>
    BY <1>0, <1>3 DEF SetupStarts, Starts, At, Goes, CallRecords
  <2>2. CallsKnow' /\ MintHoldsToken' /\ TokenOfBoot'
    BY <1>0, <2>1 DEF CallsKnow, MintHoldsToken, TokenOfBoot
  <2>3. \A g \in Flows : ~InSetup(g)
    BY <1>3 DEF SetupStarts, InSetup
  <2>4. OneSetup'
    BY <1>0, <2>1, <2>3 DEF OneSetup, InSetup
  <2>5. flow'["boot"] = flow["boot"]
    BY <1>0, <2>1
  <2> QED BY <1>3, <2>1, <2>2, <2>4, <2>5, SpentStays DEF TokenInv
<1>4. ASSUME NEW f \in Calls, ReadHistory(f) \/ Retire(f) \/ Register(f), \A g \in Flows : ~Mint(g)
      PROVE  TokenInv'
  <2>1. /\ flow[f].pc \in {"ensure", "retire", "commit"}
        /\ flow'[f].pc \in {"count", "retire", "commit"} /\ flow'[f].kind = flow[f].kind
        /\ \A g \in Calls \ {f} : flow'[g] = flow[g]
        /\ UNCHANGED <<token, boots>>
    BY <1>0, <1>4 DEF ReadHistory, Retire, Register, At, Goes, CallRecords
  <2>2. Calling
    BY <1>0, <2>1 DEF CallsKnow, MintHoldsToken, OneSetup, InSetup
  <2>3. flow["boot"].pc = "idle" <=> flow'["boot"].pc = "idle"
    BY <1>0, <2>1
  <2>4. TokenOfBoot'
    BY <1>0, <2>1, <2>3 DEF TokenOfBoot
  <2> QED BY <1>4, <2>1, <2>2, <2>3, <2>4, SpentStays DEF TokenInv
<1>5. ASSUME NEW f \in Calls, Over(f), UNCHANGED <<token, boots>>, \A g \in Flows : ~Mint(g)
      PROVE  TokenInv'
  <2>1. flow'[f].pc = "idle" /\ \A g \in Calls \ {f} : flow'[g] = flow[g]
    BY <1>0, <1>5 DEF Over, Idle
  <2>2. Calling
    BY <1>0, <1>5, <2>1 DEF CallsKnow, MintHoldsToken, OneSetup, InSetup
  <2>3. flow'["boot"].pc # "idle" => flow["boot"].pc # "idle"
    BY <1>0, <2>1
  <2>4. TokenOfBoot'
    BY <1>0, <1>5, <2>3 DEF TokenOfBoot
  <2> QED BY <1>5, <2>2, <2>3, <2>4, SpentStays DEF TokenInv
<1>6. ASSUME NEW f \in Calls, Count(f), \A g \in Flows : ~Mint(g) PROVE TokenInv'
  <2>0. flow[f].pc = "count" /\ boots' = boots
    BY <1>6 DEF Count, At
  <2>1. CASE Over(f) /\ UNCHANGED token
    BY <1>5, <1>6, <2>0, <2>1
  <2>2. CASE flow[f].kind = "boot" /\ token' = boots /\ Over(f)
    <3>1. f = "boot" /\ token = 0
      BY <1>0, <2>0, <2>2 DEF CallsKnow, TokenOfBoot
    <3>2. flow'[f].pc = "idle" /\ \A g \in Calls \ {f} : flow'[g] = flow[g]
      BY <1>0, <2>2 DEF Over, Idle
    <3>3. \A g \in Calls : flow'[g].pc # "mint"
      BY <1>0, <3>1, <3>2 DEF MintHoldsToken
    <3>4. Calling
      BY <1>0, <3>1, <3>2, <3>3 DEF CallsKnow, MintHoldsToken, OneSetup, InSetup
    <3>5. TokenOfBoot'
      BY <2>0, <2>2, <3>1, <3>2 DEF TokenOfBoot
    <3> QED BY <1>6, <2>0, <3>1, <3>4, <3>5, SpentStays DEF TokenInv
  <2>3. CASE /\ flow[f].kind = "setup" /\ token # 0 /\ flow[f].presents = token /\ UNCHANGED token
             /\ flow' = [flow EXCEPT ![f].pc = "mint",
                                     ![f].configured = IF Configured THEN "yes" ELSE "no"]
    <3>1. /\ flow'[f].pc = "mint" /\ flow'[f].kind = "setup" /\ flow'[f].presents = token
          /\ \A g \in Calls \ {f} : flow'[g] = flow[g]
      BY <1>0, <2>3 DEF CallRecords
    <3>2. f # "boot"
      BY <1>0, <2>0, <2>3 DEF CallsKnow
    <3>3. Calling
      BY <1>0, <2>0, <2>3, <3>1, <3>2 DEF CallsKnow, MintHoldsToken, OneSetup, InSetup
    <3>4. flow'["boot"] = flow["boot"]
      BY <1>0, <3>1, <3>2
    <3>5. TokenOfBoot'
      BY <1>0, <2>0, <2>3, <3>4 DEF TokenOfBoot
    <3> QED BY <1>6, <2>0, <2>3, <3>3, <3>4, <3>5, SpentStays DEF TokenInv
  <2> QED BY <1>6, <2>1, <2>2, <2>3 DEF Count
<1>7. ASSUME NEW f \in Flows, Mint(f) PROVE TokenInv'
  <2>1. /\ flow[f].pc = "mint" /\ flow[f].presents = token /\ token # 0 /\ token = boots
        /\ flow["boot"].pc = "idle" /\ flow[f].kind = "setup"
    BY <1>0, <1>7 DEF Mint, At, MintHoldsToken, TokenOfBoot, CallsKnow
  <2>2. /\ flow'[f].pc = "idle" /\ \A g \in Calls \ {f} : flow'[g] = flow[g]
        /\ token' = 0 /\ boots' = boots
    BY <1>0, <1>7 DEF Mint, Over, Idle
  <2>3. \A g \in Calls : flow'[g].pc # "mint"
    <3>1. \A g \in Flows : InSetup(g) => g = f
      BY <1>0, <2>1 DEF OneSetup, InSetup
    <3>2. \A g \in Calls : flow[g].pc = "mint" => g \in Flows
      BY <1>0 DEF CallsKnow, Calls
    <3> QED BY <1>0, <2>2, <3>1, <3>2 DEF InSetup, CallsKnow
  <2>4. Calling
    BY <1>0, <2>2, <2>3 DEF CallsKnow, MintHoldsToken, OneSetup, InSetup
  <2>5. TokenOfBoot' /\ flow'["boot"].pc = "idle"
    BY <1>0, <2>1, <2>2 DEF TokenOfBoot
  <2>6. \A i \in Used : row[i].kind = "setup" => row[i].token \in 1..boots /\ row[i].token < boots
    BY <2>1 DEF TokenInv, SpentBefore
  <2>7. CASE row' = row
    BY <2>2, <2>4, <2>5, <2>7 DEF TokenInv, SpentBefore, TokenMintsOnce, Used
  <2>8. CASE row' = [row EXCEPT ![Fresh] = [kind |-> "setup", value |-> "own", state |-> "live",
                                           token |-> flow[f].presents]]
    <3>1. Fresh \in Ids /\ row[Fresh].kind = "none"
      BY <1>7, FreshIsUnused DEF Mint
    <3>2. row'[Fresh].token = boots /\ \A i \in Ids \ {Fresh} : row'[i] = row[i]
      BY <1>0, <2>1, <2>8, <3>1
    <3>3. Used' = Used \cup {Fresh} /\ Fresh \notin Used
      BY <1>0, <2>8, <3>1, <3>2 DEF Used
    <3>4. SpentBefore'
      BY <1>0, <2>2, <2>5, <2>6, <3>2, <3>3 DEF SpentBefore, Used
    <3>5. \A i \in Used : row[i].kind = "setup" => row'[i].token # row'[Fresh].token
      BY <1>0, <2>6, <3>2, <3>3 DEF Used
    <3>6. TokenMintsOnce'
      BY <3>2, <3>3, <3>5 DEF TokenInv, TokenMintsOnce, Used
    <3> QED BY <2>4, <2>5, <3>4, <3>6 DEF TokenInv
  <2> QED BY <1>7, <2>7, <2>8 DEF Mint
<1>8. CASE ProcessRestart /\ \A f \in Flows : ~Mint(f)
  <2>1. /\ \A f \in Calls : flow'[f] = IF f = "boot" THEN Booting ELSE Idle
        /\ token' = 0 /\ boots' = boots + 1
    BY <1>8 DEF ProcessRestart
  <2>2. Idle.pc = "idle" /\ Booting.pc = "ensure" /\ Booting.kind = "boot"
    BY DEF Idle, Booting
  <2>3. CallsKnow' /\ MintHoldsToken'
    BY <2>1, <2>2 DEF CallsKnow, MintHoldsToken
  <2>4. OneSetup'
    BY <1>0, <2>1, <2>2 DEF OneSetup, InSetup
  <2>5. TokenOfBoot'
    BY <2>1 DEF TokenOfBoot
  <2> QED BY <1>8, <2>1, <2>3, <2>4, <2>5, SpentStays DEF TokenInv
<1>9. ASSUME NEW f \in Flows, CallFails(f), \A g \in Flows : ~Mint(g) PROVE TokenInv'
  BY <1>0, <1>5, <1>9 DEF CallFails
<1>10. ASSUME NEW f \in Flows, Called(f, "status", 0) \/ \E b \in 1..boots : Called(f, "setup", b),
              \A g \in Flows : ~Mint(g)
       PROVE  TokenInv'
  BY <1>2, <1>10
<1> QED
  BY <1>1, <1>3, <1>4, <1>6, <1>7, <1>8, <1>9, <1>10 DEF Next, Create, Ends, RevokeByPrefix,
     RequestSame, Arrive, ReadCandidates, Verified, TenantChecked, Handled

(* A setup token mints at most one key (api/routes/setup.ts), whatever     *)
(* calls present it, fail, or meet a restart.                              *)
THEOREM OneKeyPerToken == Spec => []TokenMintsOnce
<1>1. Init => Typed /\ TokenInv
  BY TypeInit, TokenInit
<1>2. Typed /\ TokenInv /\ [Next]_vars => (Typed /\ TokenInv)'
  <2>1. ASSUME TokenInv, UNCHANGED vars PROVE TokenInv'
    BY <2>1 DEF vars, TokenInv, CallsKnow, TokenOfBoot, MintHoldsToken, OneSetup, InSetup,
       SpentBefore, TokenMintsOnce, Used
  <2> QED BY <2>1, TypeStep, TokenStep
<1>3. TokenInv => TokenMintsOnce
  BY DEF TokenInv
<1> QED BY <1>1, <1>2, <1>3, PTL DEF Spec

(* Every variable keeps its type, and no request is let in as nobody       *)
(* (auth/middleware.ts): what it was resolved to is a row.                 *)
THEOREM KeysTyped == Spec => []TypeOK
<1>1. Typed => TypeOK
  BY DEF Typed
<1> QED BY <1>1, TypeInit, TypeStep, PTL DEF Spec

-----------------------------------------------------------------------------
(* The value of API_KEY alone is in force.                                 *)

\* A registration is of a value nobody disabled, unless it was overtaken; a
\* retirement is on behalf of one that somebody did.
RegistersTheLive ==
    \A f \in Calls :
        /\ At(f, "commit") => (ByHand(apiKey) => overtaken = "yes")
        /\ At(f, "retire") => ByHand(apiKey)

\* What ensureBootstrap leaves behind.
Alone ==
    /\ \A i, j \in LiveEnv : row[i].value = apiKey /\ i = j
    /\ ByHand(apiKey) \/ LiveEnv # {}
    /\ ByHand(apiKey) /\ overtaken = "no" => LiveEnv = {}

Settled == ready = "yes" \/ \E f \in Calls : At(f, "count") \/ At(f, "mint")

KeyInv == RegistersTheLive /\ (Settled /\ apiKey # "unset" => Alone)

LEMMA KeyInit == Init => KeyInv
<1> SUFFICES ASSUME Init PROVE KeyInv
  OBVIOUS
<1>1. \A f \in Calls : flow[f].pc \in {"idle", "ensure"}
  BY DEF Init, Idle, Booting
<1> QED BY <1>1 DEF Init, KeyInv, RegistersTheLive, Settled, At

(* Nothing was written about the environment's key.                        *)
EnvSame ==
    \A i \in Ids : row[i].kind = "env" \/ row'[i].kind = "env" => row'[i] = row[i]

LEMMA EnvSameMeans ==
    ASSUME EnvSame, UNCHANGED apiKey
    PROVE  /\ LiveEnv' = LiveEnv /\ \A i \in LiveEnv : row'[i] = row[i]
           /\ ByHand(apiKey)' <=> ByHand(apiKey)
<1>1. /\ \A i \in Ids : i \in EnvRows <=> row[i].kind = "env"
      /\ \A i \in Ids : i \in EnvRows' <=> row'[i].kind = "env"
      /\ EnvRows \subseteq Ids /\ EnvRows' \subseteq Ids
  BY DEF EnvRows, Used
<1>2. EnvRows' = EnvRows /\ \A i \in EnvRows : row'[i] = row[i]
  BY <1>1 DEF EnvSame
<1> QED BY <1>2 DEF LiveEnv, ByHand

LEMMA OthersWrite ==
    ASSUME Typed, Create \/ (\E i \in Ids : Ends(i)) \/ (\E f \in Flows : Mint(f)) \/ UNCHANGED row
    PROVE  EnvSame
<1>0. row \in [Ids -> Rows]
  BY DEF Typed, TypeOK, Rows
<1>1. CASE Create
  BY <1>0, <1>1, FreshIsUnused DEF Create, EnvSame
<1>2. ASSUME NEW i \in Ids, Ends(i) PROVE EnvSame
  BY <1>0, <1>2, Revoking DEF Ends, EnvSame, Kept
<1>3. ASSUME NEW f \in Flows, Mint(f) PROVE EnvSame
  <2>1. Fresh \in Ids /\ row[Fresh].kind = "none"
    BY <1>3, FreshIsUnused DEF Mint
  <2> QED BY <1>0, <1>3, <2>1 DEF Mint, EnvSame
<1>4. CASE UNCHANGED row
  BY <1>4 DEF EnvSame
<1> QED BY <1>1, <1>2, <1>3, <1>4

\* A step that is neither a registration nor its beginning.
LEMMA KeysStay ==
    ASSUME KeyInv, EnvSame, UNCHANGED <<apiKey, overtaken>>,
           \A g \in Calls : flow'[g].pc \in {"commit", "retire"} => flow'[g].pc = flow[g].pc,
           Settled' => Settled
    PROVE  KeyInv'
<1>1. /\ LiveEnv' = LiveEnv /\ \A i \in LiveEnv : row'[i] = row[i]
      /\ ByHand(apiKey)' <=> ByHand(apiKey)
  BY EnvSameMeans
<1>2. RegistersTheLive'
  BY <1>1 DEF KeyInv, RegistersTheLive, At
<1>3. Alone => Alone'
  BY <1>1 DEF Alone
<1> QED BY <1>2, <1>3 DEF KeyInv

LEMMA KeyStep ==
    ASSUME Typed, Next, KeyInv PROVE KeyInv'
<1>0. /\ flow \in [Calls -> CallRecords] /\ Flows \subseteq Calls /\ row \in [Ids -> Rows]
      /\ RegistersAValue /\ RegistersTheLive
  BY DEF Typed, TypeOK, CallRecords, Calls, Rows, KeyInv
\* A call moves to a position that promises nothing.
<1>1. ASSUME NEW f \in Calls, flow'[f].pc \in {"idle", "queued", "ensure"},
             \A g \in Calls \ {f} : flow'[g] = flow[g], EnvSame,
             UNCHANGED <<apiKey, overtaken, ready>>
      PROVE  KeyInv'
  <2>1. Settled' => Settled
    BY <1>1 DEF Settled, At
  <2> QED BY <1>1, <2>1, KeysStay
<1>2. CASE /\ UNCHANGED <<apiKey, ready, flow, overtaken>>
           /\ Create \/ (\E i \in Ids : Ends(i)) \/ UNCHANGED row
  <2>1. Settled' => Settled
    BY <1>2 DEF Settled, At
  <2> QED BY <1>2, <2>1, KeysStay, OthersWrite
<1>3. ASSUME NEW f \in Flows, Called(f, "status", 0) \/ \E b \in 1..boots : Called(f, "setup", b)
      PROVE  KeyInv'
  <2>1. /\ flow'[f].pc \in {"queued", "ensure"} /\ \A g \in Calls \ {f} : flow'[g] = flow[g]
        /\ UNCHANGED <<row, apiKey, ready, overtaken>>
    BY <1>0, <1>3 DEF Called, Idle
  <2> QED BY <1>0, <1>1, <2>1, OthersWrite
<1>4. ASSUME NEW f \in Flows, SetupStarts(f) PROVE KeyInv'
  <2>1. /\ flow'[f].pc = "ensure" /\ \A g \in Calls \ {f} : flow'[g] = flow[g]
        /\ UNCHANGED <<row, apiKey, ready, overtaken>>
    BY <1>0, <1>4 DEF SetupStarts, Starts, Goes, CallRecords
  <2> QED BY <1>0, <1>1, <2>1, OthersWrite
<1>5. ASSUME NEW f \in Flows, Mint(f) \/ CallFails(f) PROVE KeyInv'
  <2>1. /\ flow'[f].pc = "idle" /\ \A g \in Calls \ {f} : flow'[g] = flow[g]
        /\ UNCHANGED <<apiKey, ready, overtaken>>
    BY <1>0, <1>5 DEF Mint, CallFails, Over, Idle
  <2>2. EnvSame
    BY <1>5, OthersWrite DEF CallFails
  <2> QED BY <1>0, <1>1, <2>1, <2>2
<1>6. ASSUME NEW f \in Calls, Count(f) PROVE KeyInv'
  <2>1. flow[f].pc = "count" /\ UNCHANGED <<row, apiKey, overtaken>>
    BY <1>6 DEF Count, At
  <2>2. \A g \in Calls \ {f} : flow'[g] = flow[g]
    BY <1>0, <1>6 DEF Count, Over
  <2>3. flow'[f].pc \in {"idle", "mint"}
    BY <1>0, <1>6 DEF Count, Over, Idle, CallRecords
  <2>4. Settled
    BY <2>1 DEF Settled, At
  <2> QED BY <2>1, <2>2, <2>3, <2>4, KeysStay, OthersWrite
<1>7. ASSUME NEW f \in Calls, ReadHistory(f) PROVE KeyInv'
  <2>1. /\ UNCHANGED <<row, apiKey, ready, overtaken>>
        /\ \A g \in Calls \ {f} : flow'[g] = flow[g]
    BY <1>0, <1>7 DEF ReadHistory, Goes
  <2>2. flow'[f].pc = IF apiKey = "unset" THEN "count"
                      ELSE IF ByHand(apiKey) THEN "retire"
                      ELSE IF Cardinality(LiveEnv) = 1 /\ \A i \in LiveEnv : row[i].value = apiKey
                      THEN "count" ELSE "commit"
    BY <1>0, <1>7 DEF ReadHistory, Goes, CallRecords
  <2>3. /\ LiveEnv' = LiveEnv /\ (ByHand(apiKey)' <=> ByHand(apiKey)) /\ (Alone' <=> Alone)
    BY <2>1 DEF LiveEnv, EnvRows, Used, ByHand, Alone
  <2>4. RegistersTheLive'
    BY <1>0, <2>1, <2>2, <2>3 DEF RegistersTheLive, At
  \* It goes straight on only when the one row in force is of this value.
  <2>5. flow'[f].pc \in {"count", "mint"} /\ apiKey # "unset" => Alone
    <3>1. ASSUME Cardinality(LiveEnv) = 1, \A i \in LiveEnv : row[i].value = apiKey, ~ByHand(apiKey)
          PROVE  Alone
      <4>1. IsFiniteSet(LiveEnv)
        <5>1. IsFiniteSet(Ids)
          BY KeysAssumption, FS_Interval DEF Ids
        <5> QED BY <5>1, FS_Subset DEF LiveEnv, EnvRows, Used
      <4>2. PICK x : LiveEnv = {x}
        BY <3>1, <4>1, FS_Singleton
      <4> QED BY <3>1, <4>2 DEF Alone
    <3> QED BY <2>2, <3>1
  <2>6. Settled' => Settled \/ flow'[f].pc \in {"count", "mint"}
    BY <2>1 DEF Settled, At
  <2> QED BY <2>1, <2>3, <2>4, <2>5, <2>6 DEF KeyInv
<1>8. ASSUME NEW f \in Calls, Retire(f) PROVE KeyInv'
  <2>1. /\ flow[f].pc = "retire" /\ flow'[f].pc = "count" /\ \A g \in Calls \ {f} : flow'[g] = flow[g]
        /\ row' = Superseded /\ UNCHANGED <<apiKey, overtaken>>
    BY <1>0, <1>8 DEF Retire, At, Goes, CallRecords
  <2>2. ByHand(apiKey)
    BY <1>0, <2>1 DEF RegistersTheLive, At
  <2>3. /\ \A i \in Ids : Kept(row[i], row'[i])
        /\ \A i \in Ids : i \in LiveEnv => row'[i].state = "superseded"
        /\ \A i \in Ids : i \notin LiveEnv => row'[i] = row[i]
    BY <1>0, <2>1, Superseding
  <2>4. EnvRows' = EnvRows /\ EnvRows \subseteq Ids
    BY <2>3 DEF EnvRows, Used, Kept
  <2>5. LiveEnv' = {}
    BY <2>3, <2>4 DEF LiveEnv
  <2>6. ByHand(apiKey)'
    <3>1. PICK i \in EnvRows : row[i].value = apiKey /\ row[i].state = "revoked"
      BY <2>2 DEF ByHand
    <3>2. i \notin LiveEnv
      BY <3>1 DEF LiveEnv
    <3> QED BY <2>1, <2>3, <2>4, <3>1, <3>2 DEF ByHand
  <2>7. Alone'
    BY <2>5, <2>6 DEF Alone
  <2>8. RegistersTheLive'
    BY <1>0, <2>1, <2>2, <2>6 DEF RegistersTheLive, At
  <2> QED BY <2>7, <2>8 DEF KeyInv
<1>9. ASSUME NEW f \in Calls, Register(f) PROVE KeyInv'
  <2>1. /\ flow[f].pc = "commit" /\ flow'[f].pc = "count" /\ \A g \in Calls \ {f} : flow'[g] = flow[g]
        /\ UNCHANGED <<apiKey, overtaken>>
    BY <1>0, <1>9 DEF Register, At, Goes, CallRecords
  <2>2. ByHand(apiKey) => overtaken = "yes"
    BY <1>0, <2>1 DEF RegistersTheLive, At
  <2>3. Fresh \in Ids /\ row[Fresh].kind = "none"
    BY <1>9, FreshIsUnused DEF Register
  <2>4. /\ row'[Fresh] = [kind |-> "env", value |-> apiKey, state |-> "live", token |-> 0]
        /\ \A i \in Ids \ {Fresh} : row'[i] = Superseded[i]
    BY <1>0, <1>9, <2>3, Superseding DEF Register
  <2>5. /\ row'[Fresh].kind = "env" /\ row'[Fresh].value = apiKey /\ row'[Fresh].state = "live"
    BY <2>4
  <2>6. EnvRows' = EnvRows \cup {Fresh} /\ EnvRows \subseteq Ids \ {Fresh}
    BY <1>0, <2>3, <2>4, <2>5, Superseding DEF EnvRows, Used, Kept
  <2>7. \A i \in EnvRows : /\ row'[i].value = row[i].value /\ row'[i].state # "live"
                           /\ row[i].state = "revoked" <=> row'[i].state = "revoked"
    BY <1>0, <2>4, <2>6, Superseding DEF Kept, LiveEnv
  <2>8. LiveEnv' = {Fresh}
    BY <2>5, <2>6, <2>7 DEF LiveEnv
  <2>9. ByHand(apiKey)' <=> ByHand(apiKey)
    BY <2>1, <2>5, <2>6, <2>7 DEF ByHand
  <2>10. Alone'
    BY <2>1, <2>2, <2>5, <2>8, <2>9 DEF Alone
  <2>11. RegistersTheLive'
    BY <1>0, <2>1, <2>9 DEF RegistersTheLive, At
  <2> QED BY <2>10, <2>11 DEF KeyInv
<1>10. ASSUME NEW i \in Ids, RevokeByPrefix(i) PROVE KeyInv'
  <2>1. /\ row[i].state = "live" /\ row[i].kind # "tenant" /\ i \in Used
        /\ row' = [row EXCEPT ![i].state = "revoked"] /\ UNCHANGED <<apiKey, ready, flow>>
        /\ overtaken' = IF row[i].value = apiKey /\ Registering # {} THEN "yes" ELSE overtaken
    BY <1>10 DEF RevokeByPrefix
  <2>2. /\ \A j \in Ids : Kept(row[j], row'[j]) /\ row'[i].state = "revoked"
        /\ \A j \in Ids \ {i} : row'[j] = row[j]
    BY <1>0, <2>1, Revoking
  <2>3. CASE i \notin EnvRows
    <3>1. EnvSame
      BY <2>1, <2>2, <2>3 DEF EnvSame, EnvRows, Kept
    <3>2. /\ LiveEnv' = LiveEnv /\ \A j \in LiveEnv : row'[j] = row[j]
          /\ ByHand(apiKey)' <=> ByHand(apiKey)
      BY <2>1, <3>1, EnvSameMeans
    <3>3. RegistersTheLive' /\ (Alone => Alone') /\ (Settled' => Settled)
      BY <1>0, <2>1, <3>2 DEF RegistersTheLive, At, Alone, Settled
    <3> QED BY <2>1, <3>3 DEF KeyInv
  <2>4. CASE i \in EnvRows
    <3>1. EnvRows' = EnvRows /\ EnvRows \subseteq Ids
      BY <2>2 DEF EnvRows, Used, Kept
    <3>2. LiveEnv' = LiveEnv \ {i} /\ i \in LiveEnv
      BY <2>1, <2>2, <2>4, <3>1 DEF LiveEnv
    <3>3. ByHand(apiKey) => ByHand(apiKey)'
      BY <2>1, <2>2, <3>1 DEF ByHand, Kept
    <3>4. row[i].value = apiKey => ByHand(apiKey)'
      BY <2>1, <2>2, <2>4, <3>1 DEF ByHand, Kept
    <3>5. row[i].value # apiKey => (ByHand(apiKey)' <=> ByHand(apiKey))
      BY <2>1, <2>2, <3>1 DEF ByHand, Kept
    <3>6. RegistersTheLive'
      BY <1>0, <2>1, <3>3, <3>5 DEF RegistersTheLive, At, Registering
    <3>7. Alone => Alone'
      BY <2>1, <2>2, <3>1, <3>2, <3>3, <3>4 DEF Alone
    <3>8. Settled' => Settled
      BY <2>1 DEF Settled, At
    <3> QED BY <2>1, <3>6, <3>7, <3>8 DEF KeyInv
  <2> QED BY <2>3, <2>4
<1>11. CASE ProcessRestart
  <2>1. ready' = "no" /\ \A f \in Calls : flow'[f].pc \in {"idle", "ensure"}
    BY <1>11 DEF ProcessRestart, Idle, Booting
  <2> QED BY <2>1 DEF KeyInv, RegistersTheLive, Settled, At
<1> QED
  BY <1>2, <1>3, <1>4, <1>5, <1>6, <1>7, <1>8, <1>9, <1>10, <1>11 DEF Next, RequestSame, Arrive,
     ReadCandidates, Verified, TenantChecked, Handled, Create, Ends

(* Once a start has registered API_KEY (ops/bootstrap.ts, registerEnvKey): *)
(* no other value is in force and it is in one row, it is in force unless  *)
(* a person disabled it, and what a person disabled stays out but for a    *)
(* registration that had read the rows before.  For any values, rows and   *)
(* starts, whatever database the first start finds.                        *)
THEOREM OneValueInForce == Spec => []EnvKeyAlone
<1>1. Init => Typed /\ KeyInv
  BY TypeInit, KeyInit
<1>2. Typed /\ KeyInv /\ [Next]_vars => (Typed /\ KeyInv)'
  <2>1. ASSUME KeyInv, UNCHANGED vars PROVE KeyInv'
    BY <2>1 DEF vars, KeyInv, RegistersTheLive, Settled, Alone, At, ByHand, LiveEnv, EnvRows, Used
  <2> QED BY <2>1, TypeStep, KeyStep
<1>3. KeyInv => EnvKeyAlone
  BY DEF KeyInv, Settled, Alone, EnvKeyAlone
<1> QED BY <1>1, <1>2, <1>3, PTL DEF Spec

-----------------------------------------------------------------------------
(* A request is judged by a row as it read it, after it came; and a row    *)
(* that had ended by then is not live again.                               *)
JudgedAsItCame ==
    /\ \A i \in request.ended : i \in Used /\ row[i].state # "live"
    /\ request.pc = "verify" /\ request.seen = "live" => request.row \notin request.ended
    /\ request.pc \in {"tenant", "in"} => request.row \notin request.ended

LEMMA JudgedStep ==
    ASSUME Typed, Next, JudgedAsItCame PROVE JudgedAsItCame'
<1>0. /\ request \in Requests /\ \A i \in Used : Kept(row[i], row'[i]) /\ i \in Used'
      /\ Used \subseteq Ids
  BY RowMoves DEF Typed, TypeOK, Requests, Used, Kept
<1>1. ASSUME NEW i \in Ids, Arrive(i) PROVE JudgedAsItCame'
  <2>1. /\ request'.pc = "arrived" /\ row' = row /\ i \in Used
        /\ request'.ended = {j \in Candidates(i) : row[j].state # "live"}
    BY <1>1 DEF Arrive, RequestSame, NoRequest
  <2>2. Candidates(i) \subseteq Used
    BY <2>1 DEF Candidates, EnvRows
  <2> QED BY <1>0, <2>1, <2>2 DEF JudgedAsItCame
<1>2. CASE ReadCandidates
  <2>1. PICK j \in Candidates(request.row) :
            request' = [request EXCEPT !.pc = "verify", !.row = j, !.seen = row[j].state,
                                       !.ended = @ \cap {j}]
    BY <1>2 DEF ReadCandidates
  <2>2. /\ request'.pc = "verify" /\ request'.seen = row[j].state /\ request'.row = j
        /\ request'.ended = request.ended \cap {j} /\ row' = row
    BY <1>0, <1>2, <2>1 DEF Requests, ReadCandidates, RequestSame
  <2> QED BY <1>0, <2>2 DEF JudgedAsItCame
<1>3. CASE Verified
  <2>1. CASE request' = NoRequest
    BY <2>1 DEF JudgedAsItCame, NoRequest
  <2>2. ASSUME NEW pc \in {"tenant", "in"}, request.seen = "live",
               request' = [request EXCEPT !.seen = "none", !.pc = pc]
        PROVE  JudgedAsItCame'
    <3>1. /\ request'.pc = pc /\ request'.ended = request.ended /\ request'.row = request.row
          /\ request.pc = "verify" /\ row' = row
      BY <1>0, <1>3, <2>2 DEF Requests, Verified, RequestSame
    <3> QED BY <1>0, <2>2, <3>1 DEF JudgedAsItCame
  <2> QED BY <1>3, <2>1, <2>2 DEF Verified
<1>4. CASE TenantChecked
  <2>1. CASE request' = NoRequest
    BY <2>1 DEF JudgedAsItCame, NoRequest
  <2>2. CASE request' = [request EXCEPT !.pc = "in"]
    <3>1. /\ request'.pc = "in" /\ request'.ended = request.ended /\ request'.row = request.row
          /\ request.pc = "tenant" /\ row' = row
      BY <1>0, <1>4, <2>2 DEF Requests, TenantChecked, RequestSame
    <3> QED BY <1>0, <3>1 DEF JudgedAsItCame
  <2> QED BY <1>4, <2>1, <2>2 DEF TenantChecked
<1>5. CASE Handled \/ ProcessRestart
  BY <1>5 DEF Handled, ProcessRestart, NoRequest, JudgedAsItCame
<1>6. CASE UNCHANGED request
  BY <1>0, <1>6 DEF JudgedAsItCame, Kept
<1> QED
  BY <1>1, <1>2, <1>3, <1>4, <1>5, <1>6 DEF Next, Called, SetupStarts, Starts, Mint, CallFails,
     ReadHistory, Retire, Register, Count, Create, Ends, RevokeByPrefix

(* A request is not let in as a row that was revoked, expired or           *)
(* superseded when it came (stores/api-key-store.ts, resolve).  One that   *)
(* came before the end may be: that is what the code does.                 *)
THEOREM RevokedStaysOut == Spec => []RevokedIsRefused
<1>1. Init => Typed /\ JudgedAsItCame
  <2>1. ASSUME request = NoRequest PROVE JudgedAsItCame
    BY <2>1 DEF NoRequest, JudgedAsItCame
  <2> QED BY <2>1, TypeInit DEF Init
<1>2. Typed /\ JudgedAsItCame /\ [Next]_vars => (Typed /\ JudgedAsItCame)'
  <2>1. ASSUME JudgedAsItCame, UNCHANGED vars PROVE JudgedAsItCame'
    BY <2>1 DEF vars, JudgedAsItCame, Used
  <2> QED BY <2>1, TypeStep, JudgedStep
<1>3. JudgedAsItCame => RevokedIsRefused
  BY DEF JudgedAsItCame, RevokedIsRefused
<1> QED BY <1>1, <1>2, <1>3, PTL DEF Spec
=============================================================================
