-------------------------------- MODULE Keys --------------------------------
(***************************************************************************)
(* Who may call the API: the rows of api_keys, how the first of them comes *)
(* to be (ops/bootstrap.ts and api/routes/setup.ts), how they end          *)
(* (stores/api-key-store.ts, ops/key-cli.ts) and how a request is resolved *)
(* to one (ApiKeyStore.resolve behind auth/middleware.ts).                 *)
(*                                                                         *)
(* ensureBootstrap runs at boot, when the server already listens, and      *)
(* again in every call of the two setup routes; only POST /setup is        *)
(* serialised.  An action is what runs between two awaits; hashing and     *)
(* verifying with Argon2 are the long ones.  A key is named by the value   *)
(* that is presented: the prefix it is looked up by and the hash it is     *)
(* verified against both follow from the value.  Scopes are constants of a *)
(* row and left out; the limits a key consumes are in RateLimits.          *)
(***************************************************************************)
EXTENDS Naturals, FiniteSets, FiniteSetsExt

CONSTANTS
    Values,     \* values the API_KEY variable may have
    Flows,      \* calls of the setup routes
    MaxRows,    \* rows ever inserted (bound)
    MaxBoots,   \* starts of the process (bound)
    Earlier     \* may the database hold the rows of starts before these?

ASSUME KeysAssumption ==
    /\ MaxRows \in Nat \ {0} /\ MaxBoots \in Nat \ {0}
    /\ Earlier \in BOOLEAN
    /\ "unset" \notin Values /\ "own" \notin Values
    /\ "boot" \notin Flows

VARIABLES
    row,     \* api_keys
    apiKey,  \* API_KEY of this process, or "unset"
    boots,   \* starts so far
    token,   \* the setup token: the boot that issued it, 0 for null
    ready,   \* has ensureBootstrap finished in this process?
    flow,    \* the boot and the calls of the setup routes
    request, \* one request that presents a key
    overtaken \* history: was API_KEY disabled by hand in this process while a
              \* registration of it was between its read and its last write?

vars == <<row, apiKey, boots, token, ready, flow, request, overtaken>>

Ids == 1..MaxRows
Calls == Flows \cup {"boot"}
\* A live row ends superseded (by a registration) or revoked (by a person, with no
\* revoked_reason); a tenant key that expired is not told from a revoked one.
RowStates == {"none", "live", "superseded", "revoked"}
RowKinds == {"none", "env", "setup", "tenant"}
NoRow == [kind |-> "none", value |-> "own", state |-> "none", token |-> 0]
Idle == [pc |-> "idle", kind |-> "status", presents |-> 0, configured |-> "no"]
NoRequest == [pc |-> "idle", row |-> 0, seen |-> "none", ended |-> {}]
CallStates == {"idle", "queued", "ensure", "retire", "commit", "count", "mint"}
RequestStates == {"idle", "arrived", "verify", "tenant", "in"}

(* The middleware never lets a row that is not there in.                   *)
TypeOK ==
    /\ row \in [Ids -> [kind : RowKinds, value : Values \cup {"own"},
                        state : RowStates, token : 0..MaxBoots]]
    /\ apiKey \in Values \cup {"unset"}
    /\ boots \in 1..MaxBoots /\ token \in 0..boots
    /\ ready \in {"yes", "no"}
    /\ flow \in [Calls -> [pc : CallStates, kind : {"status", "setup", "boot"},
                           presents : 0..MaxBoots, configured : {"yes", "no"}]]
    /\ request \in [pc : RequestStates, row : 0..MaxRows,
                    seen : RowStates, ended : SUBSET Ids]
    /\ overtaken \in {"yes", "no"}
    /\ request.pc = "in" => row[request.row].kind # "none"

Used == {i \in Ids : row[i].kind # "none"}
Fresh == Min(Ids \ Used)
EnvRows == {i \in Used : row[i].kind = "env"}
LiveEnv == {i \in EnvRows : row[i].state = "live"}
Usable == {i \in Used : row[i].state = "live"}
\* A row of this value that a person revoked: revoked, and no reason recorded.
ByHand(v) == \E i \in EnvRows : row[i].value = v /\ row[i].state = "revoked"

\* Starts before these left a row of each value.  A rotation superseded the first;
\* one from before rotations retired anything left it live.
Rotated(values, first) ==
    [i \in Ids |-> IF i \in DOMAIN values
                   THEN [NoRow EXCEPT !.kind = "env", !.value = values[i],
                                      !.state = IF i = 1 THEN first ELSE "live"]
                   ELSE NoRow]

Booting == [Idle EXCEPT !.pc = "ensure", !.kind = "boot"]

Init ==
    /\ \/ row = [i \in Ids |-> NoRow]
       \/ /\ Earlier
          /\ \E v, w \in Values, first \in {"live", "superseded"} :
                v # w /\ row = Rotated(<<v, w>>, first)
    /\ apiKey \in Values \cup {"unset"}
    /\ boots = 1 /\ token = 0 /\ ready = "no"
    /\ flow = [f \in Calls |-> IF f = "boot" THEN Booting ELSE Idle]
    /\ request = NoRequest
    /\ overtaken = "no"

At(f, pc) == flow[f].pc = pc
Goes(f, pc) == flow' = [flow EXCEPT ![f].pc = pc]
Over(f) == flow' = [flow EXCEPT ![f] = Idle]

\* A registration between its read of the history and its last write.
Registering == {f \in Calls : flow[f].pc \in {"commit", "retire"}}

-----------------------------------------------------------------------------
(* ensureBootstrap.                                                        *)

\* A call of GET /setup/status, or of POST /setup with some boot's token.
Called(f, kind, presents) ==
    /\ f \in Flows /\ At(f, "idle")
    /\ flow' = [flow EXCEPT ![f] = [Idle EXCEPT !.kind = kind, !.presents = presents,
                                    !.pc = IF kind = "setup" THEN "queued" ELSE "ensure"]]
    /\ UNCHANGED <<row, apiKey, boots, token, ready, request, overtaken>>

\* serialised: a setup starts when the one before it has settled.
\* A slip: POST /setup as it was, not serialised.
Starts(f) ==
    /\ At(f, "queued")
    /\ Goes(f, "ensure")
    /\ UNCHANGED <<row, apiKey, boots, token, ready, request, overtaken>>

SetupStarts(f) ==
    /\ \A g \in Flows : flow[g].kind = "setup" => flow[g].pc \in {"idle", "queued"}
    /\ Starts(f)

\* registerEnvKey: one read of every bootstrap row decides what happens; the
\* registration goes on by hashing the key, and then to its transaction.
ReadHistory(f) ==
    /\ At(f, "ensure")
    /\ Goes(f, IF apiKey = "unset" THEN "count"
               ELSE IF ByHand(apiKey) THEN "retire"
               ELSE IF Cardinality(LiveEnv) = 1 /\ \A i \in LiveEnv : row[i].value = apiKey
               THEN "count" ELSE "commit")
    /\ UNCHANGED <<row, apiKey, boots, token, ready, request, overtaken>>

\* What the code did once: the previous API_KEY stayed as it was.
SupersededNone == row

\* revokeLiveBootstrapKeys, alone or in the registration's transaction.
Superseded == [i \in Ids |-> IF i \in LiveEnv THEN [row[i] EXCEPT !.state = "superseded"] ELSE row[i]]

Retire(f) ==
    /\ At(f, "retire")
    /\ row' = Superseded
    /\ Goes(f, "count")
    /\ UNCHANGED <<apiKey, boots, token, ready, request, overtaken>>

Register(f) ==
    /\ At(f, "commit") /\ Used # Ids
    /\ row' = [Superseded EXCEPT ![Fresh] = [kind |-> "env", value |-> apiKey,
                                             state |-> "live", token |-> 0]]
    /\ Goes(f, "count")
    /\ UNCHANGED <<apiKey, boots, token, ready, request, overtaken>>

\* hasAnyKey, and what the caller does with it before its next await: the boot
\* issues a token when nobody can authenticate, a status is answered, and a setup
\* whose token does not match is refused.
Configured == apiKey # "unset" \/ Usable # {}

Count(f) ==
    /\ At(f, "count")
    /\ \/ /\ flow[f].kind = "boot"
          /\ token' = IF Configured THEN token ELSE boots
          /\ Over(f)
       \/ /\ flow[f].kind = "status" \/ token = 0 \/ flow[f].presents # token
          /\ flow[f].kind # "boot"
          /\ Over(f) /\ UNCHANGED token
       \/ /\ flow[f].kind = "setup" /\ token # 0 /\ flow[f].presents = token
          /\ flow' = [flow EXCEPT ![f].pc = "mint",
                                  ![f].configured = IF Configured THEN "yes" ELSE "no"]
          /\ UNCHANGED token
    /\ ready' = "yes"
    /\ UNCHANGED <<row, apiKey, boots, request, overtaken>>

\* POST /setup's transaction and what follows it: the first key, unless there
\* was one, and in either case the token is spent.
Mint(f) ==
    /\ At(f, "mint") /\ Used # Ids
    /\ row' = IF flow[f].configured = "yes" THEN row
              ELSE [row EXCEPT ![Fresh] = [kind |-> "setup", value |-> "own",
                                           state |-> "live", token |-> flow[f].presents]]
    /\ token' = 0
    /\ Over(f)
    /\ UNCHANGED <<apiKey, boots, ready, request, overtaken>>

\* A read, the hash or a transaction throws (a slug already taken): the call
\* answers an error, and a setup leaves its token for the retry.
CallFails(f) ==
    /\ f \in Flows /\ flow[f].pc \notin {"idle", "queued"}
    /\ Over(f)
    /\ UNCHANGED <<row, apiKey, boots, token, ready, request, overtaken>>

\* A crash or a deploy, with the same API_KEY, a new one or an old one; at first no call is
\* there, and the server listens while the boot is in ensureBootstrap.
ProcessRestart ==
    /\ boots < MaxBoots
    /\ boots' = boots + 1
    /\ apiKey' \in Values \cup {"unset"}
    /\ token' = 0 /\ ready' = "no" /\ overtaken' = "no"
    /\ flow' = [f \in Calls |-> IF f = "boot" THEN Booting ELSE Idle]
    /\ request' = NoRequest
    /\ UNCHANGED row

-----------------------------------------------------------------------------
(* The keys of projects, and the ends of keys.                             *)

\* ApiKeyStore.create: the admin route, which needs an admin key, and key:new.
Create ==
    /\ Used # Ids
    /\ row' = [row EXCEPT ![Fresh] = [kind |-> "tenant", value |-> "own",
                                      state |-> "live", token |-> 0]]
    /\ UNCHANGED <<apiKey, boots, token, ready, flow, request, overtaken>>

\* ApiKeyStore.revoke (rows that have an environment and no revoked_at), and
\* time reaching expires_at.
Ends(i) ==
    /\ row[i].kind = "tenant" /\ row[i].state = "live"
    /\ row' = [row EXCEPT ![i].state = "revoked"]
    /\ UNCHANGED <<apiKey, boots, token, ready, flow, request, overtaken>>

\* key:revoke, from another process: the first row it finds with the prefix is
\* stamped; a reason that is there stays.
RevokeByPrefix(i) ==
    /\ i \in Used /\ row[i].state = "live" /\ row[i].kind # "tenant"
    /\ row' = [row EXCEPT ![i].state = "revoked"]
    /\ overtaken' = IF row[i].value = apiKey /\ Registering # {} THEN "yes" ELSE overtaken
    /\ UNCHANGED <<apiKey, boots, token, ready, flow, request>>

-----------------------------------------------------------------------------
(* A request, through ApiKeyStore.resolve.                                 *)

\* Rows a presented key selects: those of its prefix, in no order that is asked
\* for.  A registration made twice leaves two of one value.
Candidates(i) ==
    IF row[i].kind = "env" THEN {j \in EnvRows : row[j].value = row[i].value} ELSE {i}

\* The loop returns at the first candidate whose hash verifies, usable or not.
Accepts(i) == \A j \in Candidates(i) : row[j].state = "live"

RequestSame == UNCHANGED <<row, apiKey, boots, token, ready, flow, overtaken>>

\* A key is named by the first row it has.
Arrive(i) ==
    /\ request.pc = "idle" /\ i \in Used /\ \A j \in Candidates(i) : i <= j
    /\ request' = [NoRequest EXCEPT !.pc = "arrived", !.row = i,
                      !.ended = {j \in Candidates(i) : row[j].state # "live"}]
    /\ RequestSame

\* A slip: what a lookup finds nothing for is let in as somebody unknown.
ReadAnything ==
    /\ request.pc = "arrived"
    /\ request' = [request EXCEPT !.pc = "in", !.row = Fresh]
    /\ RequestSame

ReadCandidates ==
    /\ request.pc = "arrived"
    /\ \E j \in Candidates(request.row) :
        request' = [request EXCEPT !.pc = "verify", !.row = j, !.seen = row[j].state,
                                   !.ended = @ \cap {j}]
    /\ RequestSame

\* Verified against the row as it was read: a key that is not usable is
\* refused, an admin key goes on, a tenant key has its tenant looked up.
\* A slip: the state is not looked at once the hash matched.
VerifiedOnly ==
    /\ request.pc = "verify"
    /\ request' = [request EXCEPT !.seen = "none",
                      !.pc = IF row[request.row].kind = "tenant" THEN "tenant" ELSE "in"]
    /\ RequestSame

Verified ==
    /\ request.pc = "verify"
    /\ request' = IF request.seen # "live" THEN NoRequest
                  ELSE [request EXCEPT !.seen = "none",
                          !.pc = IF row[request.row].kind = "tenant" THEN "tenant" ELSE "in"]
    /\ RequestSame

\* The project or the environment may be suspended, which is read afresh.
TenantChecked ==
    /\ request.pc = "tenant"
    /\ request' \in {[request EXCEPT !.pc = "in"], NoRequest}
    /\ RequestSame

Handled ==
    /\ request.pc = "in"
    /\ request' = NoRequest
    /\ RequestSame

-----------------------------------------------------------------------------
Next ==
    \/ \E f \in Flows : \/ Called(f, "status", 0)
                        \/ \E b \in 1..boots : Called(f, "setup", b)
                        \/ SetupStarts(f) \/ Mint(f) \/ CallFails(f)
    \/ \E f \in Calls : ReadHistory(f) \/ Retire(f) \/ Register(f) \/ Count(f)
    \/ ProcessRestart
    \/ Create
    \/ \E i \in Ids : Ends(i) \/ RevokeByPrefix(i) \/ Arrive(i)
    \/ ReadCandidates \/ Verified \/ TenantChecked \/ Handled

Spec == Init /\ [][Next]_vars

-----------------------------------------------------------------------------
(* Properties.                                                             *)

\* Once ensureBootstrap has run with an API_KEY, no other value is in force and it is in
\* one row; it is in force unless a person disabled it; and what a person disabled is out
\* whatever the variable does afterwards (registerEnvKey), unless a registration that
\* had read the rows before was still to write.  Through rotations, rollbacks, an upgrade
\* of an old database, stops in between, and registrations beside each other.
EnvKeyAlone ==
    ready = "yes" /\ apiKey # "unset" =>
        /\ \A i, j \in LiveEnv : row[i].value = apiKey /\ i = j
        /\ ByHand(apiKey) \/ LiveEnv # {}
        /\ ByHand(apiKey) /\ overtaken = "no" => LiveEnv = {}

\* The key of the environment is accepted, whichever of the rows it may be resolved
\* through comes first: what registering it again after a rollback is for
\* (registerEnvKey: it "silently locked them out").
EnvKeyAccepted ==
    ready = "yes" /\ apiKey # "unset" /\ ~ByHand(apiKey) =>
        \A i \in LiveEnv : Accepts(i)

\* Disabling API_KEY by hand "has to survive whatever the variable does afterwards".
DisabledStaysDisabled ==
    ready = "yes" /\ apiKey # "unset" /\ ByHand(apiKey) => LiveEnv = {} \/ Registering # {}

\* A setup token mints at most one key, however many calls present it at once:
\* the serialised route spends it before the next one looks.
TokenMintsOnce ==
    \A i, j \in Used :
        row[i].kind = "setup" /\ row[j].kind = "setup" /\ row[i].token = row[j].token => i = j

\* A request is never let in as a row that was revoked, expired or superseded when it
\* came, whatever happened to the rows since (revoke: "takes effect immediately").  One
\* that came before may: its row is read, and judged after a slow verification.
RevokedIsRefused == request.pc = "in" => request.row \notin request.ended
=============================================================================
