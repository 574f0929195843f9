# bunwa: a TLA+ model of the proxy

bunwa is a multi-tenant WhatsApp proxy. Projects, and the environments inside them, claim phone
numbers, send messages through an engine (Baileys) and receive events by webhook. It is one Bun
process over one SQLite database. This directory models the parts of it where order, failure and
time decide the result, checks them with TLC on small instances, and proves the central facts with
TLAPS for every value of the constants.

Paths below are relative to the repository (`src/stores/device-store.ts` and so on). `PROJECT.json`
lists the runs, the mutants that show each property can fail, the lines each definition stands for,
the disagreements found and the theorems.

## 1. Inventory

Processes are not threads: every handler, the delivery worker, the housekeeping loop and one event
consumer per engine run on one JavaScript thread and interleave at every `await`. A transaction
(`db/transaction.ts`) runs on a connection of its own under SQLite's write lock.

| Component | State it keeps | Operations | Talks to | What is hard | What makes it correct |
|---|---|---|---|---|---|
| Claims and consent (`stores/device-store.ts`) | `devices.state`, `device_consents`, `consent_events`, `virtual_devices` | claim, respondToConsent, revokeConsent, releaseFor, retireFor, cancelRetirement, markRetired | handlers; the consumer writes the same rows | questions that lapse without anything being written; clocks read before the lock; decisions overwritten in place | access only under a grant; at most one implicit grant; refusals not undone; trail equals row; reserve and decide together |
| Handlers and retirement (`api/routes/devices.ts`, `admin.ts`, `ops/retire-device.ts`) | program counters only | claim's tail, repair, logout, two DELETEs, retireDevice | store, registry, engine, credential store | committed claim followed by steps that fail; two retirements; pairing beside a retirement; restart | no socket or credentials left behind; a reservation outlives its request only where the database or the process fails |
| Consumer (`engine/consumer.ts`) | position in the event stream | connected, disconnected, degraded, logged out, message.ack, message.received, fan-out | store, delivery queue, rules, bus | events queued before a decision and applied after it | events never grant |
| Engine interface and registry (`engine/types.ts`, `registry.ts`, `fake.ts`) | slots, pools | provision, startPairing, send, logout, purge, events | handlers, consumer | pools with a capacity counted before and recorded after | a slot outlives its socket; a purged slot is gone |
| Baileys adapter (`engine/baileys/*`) | sessions, sockets, timers | connect, pump, reconnect with backoff, drop, close | WhatsApp | awaits without a second look; timers that outlive what they reopen | what says connected can send; an outage is retried until it ends |
| Idempotent send (`api/routes/messages.ts`, `stores/idempotency-store.ts`) | `idempotency_keys` | reserve, complete, release, sweep | engine, message store | four statements without a transaction; expiry; crash at any await | one message a window; true answers |
| Acknowledgements (`stores/message-store.ts`, `ops/housekeeping.ts`) | `outbound_messages` | recordAccepted, recordAckById, findUnacked, markUndelivered | consumer, delivery queue | repeated, reordered, early and late acks; select then update | no false alarm, no lost alarm, no regress |
| Webhook delivery (`delivery/*`, `stores/delivery-store.ts`) | `deliveries`, `delivery_attempts`, circuit in `environment_webhooks` | enqueue, claimDue, recordAttempt, defer, replay | tenant's server | no lease; crash between send and record; circuit thresholds | at least once; every delivery ends delivered or dead; blocked targets do not starve others |
| Transactions (`db/transaction.ts`) | the write lock, `busy_timeout` | withTransaction | all stores | a synchronous wait for a lock its own thread must release | waits end |
| Event bus, SSE, tickets (`events/bus.ts`, `api/routes/events.ts`, `stores/stream-ticket-store.ts`) | subscribers with a bounded queue; single-use tickets | publish, subscribe, close; mint, spend, sweep | console, consumer | overflow, readers that leave at any await, keys that end meanwhile | no gap that is not told; a ticket buys one stream; a gone reader is released |
| Rate limits (`ops/rate-limit.ts`) | fixed windows, shared by every process that ever runs | consume, sweep | routes, housekeeping | deploys that change a window's length; the sweep in the middle of one | never above the limit in a window |
| Keys and first run (`ops/bootstrap.ts`, `api/routes/setup.ts`, `stores/api-key-store.ts`) | API keys, the setup token | mint once, rotate, revoke, resolve | every route | two first-run requests; rotation at start; slow verification of a row already read | one value in force; one key a token; a revoked key refused |
| Rules (`rules/*`, `stores/rule-store.ts`) | rules of a binding | validate, save, load, evaluate | consumer | patterns that backtrack; stop, priority and timeout together | agrees with a reference definition; accepted patterns divide a text one way |
| Chat history (`stores/chat-store.ts`, `api/routes/chat.ts`) | threads, messages | record, markRead, reply, sweep, forget | consumer | repeats, and a per-binding loop that is not atomic | the badge is exact; one tenant's failing write does not lose another's copy; what is erased stays erased |
| Process (`boot.ts`, the loops of `ops/housekeeping.ts` and `delivery/worker.ts`) | what is running | start, signal, drain | everything | readers, handlers, consumers and passes that never end; order of the drain | it always ends; engines close last |
| Migrations, backup, pressure, config, logging, console | files, ring buffers | | | staging and rename | ordered prefix; a backup is whole |

`respondToConsent` and `revokeConsent` have no caller in the application yet (`todo.txt`, item 1):
they are modelled as the store offers them. The binding status `suspended` and the device states
`pairing` and `deleted` exist in the schema and are written by no code, so no module has them.

## 2. Modules

| Module | Models | Composed with |
|---|---|---|
| `DeviceClaims` | one number: device row, each project's consent, each environment's binding, the latest audit entry, and the consumer's writes | stands alone with a free engine |
| `EngineSlot` | the engine's contract for one device's slot: what provision, pairing, logout, purge and the events may do to it | the abstract specification of `Sessions`, and exactly what `DeviceRetirement` assumes of an engine |
| `DeviceRetirement` | the request handlers, the engine's slot, the event stream | EXTENDS `DeviceClaims`; its store steps are that module's actions, and `Spec` of `DeviceClaims` is what it implements |
| `SendOnce` | the promise made to the callers of one idempotency key | the abstract specification of `IdempotentSend` |
| `IdempotentSend` | every statement of the send route and of the key store | implements `SendOnce` under a refinement mapping |
| `AckTracking` | sent messages from acceptance to acknowledgement or alarm | stands alone; its `EngineAccepts` and `RecordAccepted` are the two awaits of the send route |
| `Delivery` | the webhook queue, the worker's pass, retries, the circuit, replay | stands alone; `Enqueue` is what `MarkUndelivered` of `AckTracking` and the consumer's fan-out call |
| `Sessions` | one device's session in the Baileys adapter, its sockets, pumps and timers | implements `EngineSlot` under a refinement mapping; its pairing, logout and purge are the engine calls of `DeviceRetirement` |
| `LiveEvents` | stream tickets, the event bus, the stream's route | stands alone; `Publish` is what `EnqueueOne` of `Inbound` ends with |
| `Keys` | `api_keys`, the first run, rotation at start, a request being resolved | stands alone; `Accept` of `Process` is a request that got in |
| `Rules` | the stored rules of one binding, their conditions, and an evaluation round by round, for any analysis of patterns | stands alone; `LoadRules` and its rounds are `RunRules` of `Inbound` for one binding |
| `PatternAnalysis` | which patterns are accepted when a rule is saved, and in how many ways one divides a text | EXTENDS `Rules`; the instance gives `Rules`' `Compiles` and `Found` its definitions |
| `Inbound` | a received message from the engine's stream to history, rules and the delivery queue, the routes on the same threads, and what a retirement does to them | stands alone; `EraseMessages` and `EraseThreads` are the `erase` step of `DeviceRetirement`, in two |
| `RateLimits` | one subject and bucket's windows, under deploys and sweeps | what `Process` uses, and is shown to implement |
| `Process` | boot, requests, streams, consumer, the two loops, and the drain | EXTENDS `RateLimits`; its steps on the limits are that module's actions |
| `DeviceProofs`, `SendingProofs`, `DeliveryProofs`, `ProcessProofs`, `InboundProofs`, `KeysProofs`, `LiveEventsProofs`, `SessionsProofs` | theorems | `DeviceProofs` EXTENDS `DeviceRetirement` and so `DeviceClaims`; `SendingProofs` EXTENDS `IdempotentSend` and `AckTracking`, `InboundProofs` `Inbound` and `Rules`; the others the module named |
| `MC*` | constants of the TLC instances | EXTEND the module named |

### State and actions against the code

**DeviceClaims.** `device` is `devices.state`, or `absent` before the row exists. `consent[p]` is the
row of project p: status, whether `evidence` says the grant was implicit, a count of the tokens
minted for it (each is a fresh UUID, so only "same or new" matters) and `expires_at`. `trail[p]` is
the action of its last `consent_events` row. `binding[e]` is `virtual_devices.status`. The four
`Claim...` actions are the enumerated cases of `claimWithin`; `RespondYes`, `RespondNo` and
`RespondTooLate` are `respondWithin`'s three ends; `ReleaseShared` and `ReleaseLast` are `releaseFor`
with and without other holders. Each is one step because `withTransaction` makes it one, and reads a
clock up to `Lag` ticks old, because each takes `now = new Date()` as a default argument, before it
waits for the lock. `DeviceConnected` and `ActivatePaired` are the two awaits of `onConnected`, with
no transaction around them. `refused` and `toldLapsed` are history: who was last answered no, and
whose late answer was refused.

**DeviceRetirement.** `pool` says `engine_pool_id` is set, `creds` that credentials are stored,
`session` what the engine's slot holds, `events` the stream. A pairing request moves through
`choose`, `provision`, `assign`, `pair`; a repair through `reprovision`, `pair`; a retirement through
`read`, `logout`, `purge`, `forget`, `erase`, `mark`: one position per await. A statement of it that
throws (`RetireFails`) leads to `cancel`, the catch block of both DELETE handlers, which awaits
`cancelRetirement`: that gives the reservation back (`GiveBack`) or throws as well (`GiveBackFails`), and the
request then ends with the reservation on the row. `ProcessRestart` drops what is in memory; nothing in the code
opens a session again, so the model does not.

The engine of `DeviceRetirement` takes the steps of `EngineSlot`: `Provided` is `ProvisionSlot`,
`Reprovision` and the first half of `ReadySlot`, whose second is `LetsGo`; `Connects` is `StartPairing` and
`Reconnected`, `Links` is `Linked`, `Breaks` is `Dropped`, `Unlinks` is `RemoteLogout` (which, seen by slot and
stream alone, is a `LogsOut` too, and `WithinContract` reads it so), `LogsOut` is `LoggedOut`, `Destroyed` is `RetirePurge` and `ProcessRestart`. `LateAttempt` is the part of the contract a
caller does not expect: the adapter remembers one reconnect timer, a loss while one is pending sets
another beside it, and the forgotten one opens, or fails to open, a socket under whatever slot is there
by then. A logout waits for the phone, so `LoggedOut` may also find its slot purged, or another in its
place. Where the adapter reports two things at once (`disconnected` and `degraded`, `connected` and
`recovered`) `told` is the second; the stream of `DeviceRetirement` takes the first pair in two steps and
leaves `recovered` out, which no row is written for.

**IdempotentSend.** `key` is the row; its state says whether `response` is null or which answer it
holds. A request's `pc` is the await it is at: `lookup`, `insert`, `reread`, `takeover`, `again`
(`reserve`), then `resolve`, `send`, `record`, `complete` or `failed`, and `release`; or how it ended.
`start` is the clock it read when it called `reserve`, which is what its expiry tests use, while the
insert's `created_at` is the clock of the database. The comparison in `lookup` is `<=` and those in
the takeover and the sweep are `<`, as in the code.

**AckTracking.** `route`, `consumer` and `batch` are the places of the three flows between their
awaits: a send between the engine's answer and the insert, an acknowledgement between finding its
row and updating it, a sweep between selecting rows and coming to each. `age` is how old a row is, up
to just past the timeout, which is all the query can tell.

**Delivery.** `state`, `attempts` and `due` are columns of a delivery and `tries` counts its rows in
`delivery_attempts`; `circuit`, `failures` and `since` are those of its webhook, `failures` no further
than the threshold. `at` is the await the worker is at within a pass. All times are relative, so
that the clock needs no bound: `due` counts down to a row's next attempt and is not told apart past
`MaxLate` ticks late, `since` and `age` count up from the circuit's opening and from the pass's one
reading of the clock. `circuitAllows`, the delay of a retry, the deferral and the opening time all use
that reading, hence `since - age` and `t - age`. A batch is a set: rows are taken from it in the order
of `due`, and where rows tie every order is allowed. The worker's branch for a missing webhook is left
out: no code deletes a webhook or an environment. Nor does any code write the delivery state `failed`
or the circuit state `half_open`.

**Sessions.** `session` is the entry of the adapter's map; `gen` tells an entry from the one that
replaced it after a purge. `socket[h]` is what WhatsApp, the library and the pump hold of a socket:
its state, the events nobody drained yet and whether its pump runs. `timers` are the pending
`setTimeout`s, which outlive the session they were made for. `caller` is a pairing request at
`dropSocket`, at `open` or at the QR or code it waits for; `ending` the logout and purge at their
awaits. `OnDisconnected` is `onDisconnected`, with `Retry` scheduling and `TimerFires`, `OpenFails`
the callback and its catch. `told` is the last state event emitted, and `owed` is history: a socket was
lost in a way that reconnecting can mend, and the device has not connected, been ended or been paired
anew since. `SlotState` reads a session as the contract's slot: `linked` is `connected`, `open` a handle
that is not, `down` no handle and a reconnect owed, and `lost` is `downSince`.

**LiveEvents.** `ticket` is a row of `stream_tickets`, or a minting between its two statements.
`waiter[s]` is a subscription: what is `pending`, why it was `closed`, and where the bus's generator is.
`stream[s].at` is where the route's generator is suspended, `last` the last envelope its reader got,
`gone` that the connection ended, `listens` that the abort listener is installed. The heartbeat is the
alternative `tick` of the race.

**Keys.** `row` is `api_keys` in insertion order; a row is `superseded` when a registration ended it and
`revoked` when a person did, which is what `revoked_reason` tells. `flow` is each call of
`ensureBootstrap`, the boot's own and those of the setup routes, at the await it is at (`retire` and
`commit` are the hash and the transaction of `registerEnvKey`). `request` is a request at the
verification of a row it already read; its `ended` is history, which of the rows it may be resolved to had
ended when it arrived, and `overtaken` is history too: whether `API_KEY` was disabled by hand while a
registration was between its read and its write. `Earlier` lets the database hold the rows of two
starts before these, as `Rotated` says: the first superseded, or still live if they ran before rotations
retired anything; either may hold the value that is configured now.

**Rules.** `rules` is the table's rows for the binding, a set because their names differ. `place` is where
the query put each: by priority, and any way it likes where priorities tie (`rule-store.ts:143` asks for no
more, and the sort of `evaluate` is stable). `todo` is the rules the loop of `evaluate` has not come to,
`matched`, `timedOut` and `stopped` what the loop has written so far. A round of the loop is `TimesOut`,
`Fires` or `PassesBy` at the first rule left in the order of the sort, and nothing interleaves with it:
`Edit` waits, because `evaluate` is synchronous. `slow` is the set of matches, each a condition of one rule,
that overran: chosen freely, since a clock decides, so that a pattern may overrun in one rule and not in
another. A condition that a rule repeats is matched once (a bound). What accepts a pattern and what it finds
are the constant operators `Compiles` and `Found`, so that `Rules` is proved for any analysis; in
`PatternAnalysis` a pattern is its parse (see the module's head), the analysis is the code's, the scans over
text replaced by quantifiers over items, and `Ways` counts in how many ways a backtracking matcher makes a
pattern of a text: it is the reference the analysis is judged by, and what `matches` tests.

**Inbound.** `stream` and `consumer` are the consumer's task: `todo` the bindings the loop it is in has
not come to. `rows` holds the messages with a provider id, `thread` the badge, and `filed` and `seen` are
history: everything filed since the thread was last erased, and what of it was filed when the thread was
last marked read. `steady` and `failed` are history of the event in hand: environments bound, with their
history, all the while, and those whose own write failed. A retirement is `Reserve` (`retireFor`,
`releaseFor`), which ends every claim and reserves the device (`reserved`), the two deletes of
`forgetDevice` that matter here (`EraseMessages`, then `EraseThreads`; no transaction is around them, and
media rows go with the messages) and `Retired`; a statement between them may throw, and the reservation is
then given back or not. A retired device is there to be claimed again, so `Begin` is refused while it is
reserved and at no other time. `carried` is what a badge counted when an erasure that stopped half way took
its messages, and `erased` the environments not bound since the last erasure.

**RateLimits and Process.** `rows` is keyed by window start, as the table is; `granted` is history, uses
allowed under each window length in its current window. `phase` is the await main or `drain` is at.
`handling`, `watching` and `leaving` count requests whose handler runs, streams parked on the bus, and
streams the bus let go whose reader has not read the end. `consumer` is the one task of the one
engine, `timer` and `passes` the two loops. A request beyond its limit leaves nothing behind and has
no action, nor has a second signal, which `shuttingDown` makes a no-op. `server.stop(false)` is
external: it accepts nothing new and resolves when nothing is open.

### Granularity

bun:sqlite answers synchronously, so an `await` of a statement yields only to promise callbacks that
are already due, while an `await` of the network, of the engine or of a transaction's turn lets
everything else run. The models let any flow run at every `await`. For a property that holds this
claims more than is needed; the runs that expect a violation need only network awaits, or no
interleaving at all.

## 3. What the runs check

| Run | Instance and bounds | Shows |
|---|---|---|
| `device_claims` | two projects, three environments (two of one project), a question lives 2 ticks, clock to 3, lag 1, two tokens a project, one retirement at a time | access, sharing, trail and live questions through every interleaving |
| `device_retirement` | the same number with two projects of one environment each, two concurrent retirements, three events in flight, one restart, one token a project, clock to 1, no pairing beside a retirement and no timer that outlives its session; the fingerprint leaves out what no action reads | nothing left behind; a reservation is stranded only by a restart or by the failure of the statement that gives it back; and that the handlers implement `DeviceClaims` |
| `idempotent_send` | three requests (two alike, one with another body), TTL 2, clock to 4, so a key expires, is taken over and expires again | one message a window, true answers: the refinement of `SendOnce` |
| `ack_tracking` | two messages, a sweep limit of one, a timeout of one tick, one restart | no false or half alarm, and under fairness every silence noticed |
| `delivery` | three deliveries to two webhooks, two attempts a schedule, a circuit that opens after two failures and waits two ticks, a pass of at most one tick, and one replay, changed target or interrupted pass | nothing ends unearned, nothing is sent again idly, small backlogs share a pass, and under fairness the queue drains |
| `sessions` | one console that pairs twice, by QR or code, three sockets of one queued event each, three reasons to close (gone for good, replaced, recoverable), and two upsets: closes, failed opens, logouts, purges, the adapter's close | a session that says connected can send and was reported, an outage is retried until a socket is there, and the adapter keeps the contract of `EngineSlot` |
| `live_events` | one tenant's key, two tickets, two streams, a buffer of one (20 in the code) and three envelopes an environment, so a stream overflows while another keeps up | no gap that is not told, a ticket buys one stream, a gone reader is released |
| `keys` | two values of `API_KEY`, two calls of the setup routes beside the boot's, three rows, two starts, over no rows or the two that earlier starts left (both live, or the first superseded, so that the second start may roll back to it) | one value in force through rotations, rollbacks and registrations beside each other; one key a token; keys that ended before a request came refuse it |
| `rules` | every pattern of one group, plain or quantified in each way, of up to two alternatives of up to two items one of which may be a group; eight rules of every kind of condition, three at a time; every text of up to three letters, a number, a date and nothing; each order of those that tie, and each subset of the matches overrunning | accepted patterns divide a text one way; a plan, made a rule at a time, is what the rules say together |
| `inbound` | two environments, a peer's message and the holder's own, one resend, two retirements, three changes (bindings that begin or end, retirements), one failed statement or restart, so that a retirement fails after another erased and the device is claimed again | the badge is exact; a tenant's own copy is filed whatever fails for another; what is erased stays erased |
| `process` | two processes, two requests at a time, a limit of two uses, windows of one tick and of three, no grace, clock to 3 | the drain ends, engines close last, passes never overlap, the budget holds |
| `env_key_refused` (violation) | two values of `API_KEY`, three starts on an empty database, no setup calls | the finding below |

The bounds are the smallest that hold the cases that differ: a sharing project and a sibling
environment, a question that lapses and is asked again, a second retirement, a takeover of a key that
was itself taken over, a sweep that must come back for the second message, a row that is declined while
another is probed, a socket lost while its replacement opens, a stream that overflows beside one that
does not, a key rotated twice, a rule that stops another, a resend after a read, a deploy in the middle
of a window. The proofs remove them where there are proofs.

`process` follows one subject and one bucket of the limits, since rows of two never meet, and two
processes: one whose drain is watched and one that finds its rows. A rule is evaluated once between two
edits (`rules`): an evaluation reads nothing an earlier one left. In `inbound` a message older than the
retention does not come again, which ninety days make safe to assume.

The finding. `registerEnvKey` (`ops/bootstrap.ts:169`) registers a value again when a deployment rolls
back to it, "the whole point of recording why". The value then has two rows with one prefix and one
secret, and `ApiKeyStore.resolve` (`api-key-store.ts:234`) answers null at the first of them that
verifies and is revoked, without looking at the live one: the operator stays locked out.
`env_key_refused` (`EnvKeyAccepted`) finds it in three starts on an empty database, with `API_KEY` X, Y and
X again: the third registers X a second time, beside the row the second start superseded.

### Divergences met on the way

These disagree with a sentence of the repository, a hazard in `PROJECT.json` names each, and a
configuration TLC refutes reproduces each. They are not among the runs.

| Configuration (module, property) | The sentence | What happens |
|---|---|---|
| `DeviceClaimsRefusal` (`MCDeviceClaims`, `RefusalUndoneOnlyByYes`) | `device-store.ts:251`: a refusal is never silently undone | the refusal is overwritten by a later question; when that lapses the row reads as nobody's |
| `DeviceClaimsLateAnswer` (`MCDeviceClaims`, `LateAnswerRecorded`) | `docs/02-requirements.md:39`: questions expire rather than linger | the expiry is rolled back by the error that reports it |
| `RetirementOwnEvent` (`MCDeviceRetirement`, `NoClaimWhileRetiring`) | `device-store.ts:555`: a reserved device refuses claims | an event consumed while the retirement awaits the network overwrites the reservation |
| `RetirementClaimStuck` (`MCDeviceRetirement`, `HeldCanPair`) | `devices.ts:103`: after a 503 the caller should retry | neither claim nor repair is accepted any more |
| `RetirementStranded` (`MCDeviceRetirement`, `RetiringHasOwner`) | `devices.ts:269`: "the reservation goes back, or the number is unclaimable for ever" | the statement that gives it back throws as well, likely after another just did; the row stays `retiring`, and only a DELETE by the operator, or an event, moves it on |
| `RetirementOverlap` (`MCDeviceRetirement`, `UnassignedMeansGone`) | `devices.ts:233`: retirement leaves no session or credentials | a pairing in flight records its pool or opens its socket after retirement looked |
| `RetirementForgottenTimer` (`MCDeviceRetirement`, `UnassignedMeansGone`) | the same | a reconnect timer of an earlier session fires into the slot a new claim provisioned and has not recorded yet |
| `DeliveryBacklog` (`MCDelivery`, `BacklogsShare`) | `worker.ts:39`: one backlog does not fill a pass | rows are selected across environments before they are capped, so a backlog of four batches is all a pass sees |
| `IdempotentSendNoId` (`MCIdempotentSend`, `OncePerWindow`) | `messages.ts:129`: once the engine has it, the reservation stands | Baileys throws for a message it took |
| `KeysOvertaken` (`MCKeys`, `DisabledStaysDisabled`) | `bootstrap.ts:130`: disabling a key by hand has to survive whatever the variable does | a registration that had read the rows before writes the value as a live row afterwards |
| `SessionsStaleQr` (`MCSessions`, `QrIsOfTheLiveSocket`) | none | `lastQr` outlives its socket and answers the next pairing request |

Smaller ones, seen and not checked: the dry run's `patternTimedOut` (`routes/rules.ts:138`) looks for a
name among ids and is always false; nothing sends the pending row `POST /chats/:id/messages` records,
and `markStatus` and `disableForTimeout` have no caller; a statement of the fan-out that throws loses
the bindings after it, and a resend fans out again; the retention sweep leaves the badge counting
messages it removed; `RuleStore.update` reads `version` and writes it back plus one; a stream outlives
the key that bought it; a signal during start kills without a drain, and so does the end of the drain a
handler the deadline cut off; events an adapter still holds when its consumer is stopped are dropped.

### Assumptions that are switches

* `Lag = 0` is a process whose calls never wait for the write lock. `ReservedMeansUnheld` needs it:
  with an older clock `releaseFor` can judge a question that has lapsed as open, or the reverse.
* `Overlap = FALSE` (`DeviceRetirement`) keeps claims and repairs that pair apart from retirements.
  `UnassignedMeansGone` needs it, as `RetirementOverlap.cfg` shows.
* `Forgotten = FALSE` says that a reconnect timer does not outlive the session that set it. The adapter
  does not see to that: two losses with a pairing between them, a purge and a new claim are enough.
  The same property needs it; `RetirementForgottenTimer.cfg` shows it fail.
* `Prompt = TRUE` says a send ends within a day, the life of its key. `complete` and `release` name
  the row by key alone, and a request older than its reservation would write somebody else's.
* `ThrowsAfterTaking = FALSE` says an engine that throws did not take the message. `OncePerWindow` and
  `SendsOnce` need it (`IdempotentSendNoId.cfg`); `HolderOwnsKey` and `RepeatNeedsFailure` do not.
* `AckAfterRecord = TRUE` says an acknowledgement is consumed after the insert of its message. Nothing in
  `DeviceEngine` promises it; without it an early acknowledgement is dropped and the sweep reports a
  message that was delivered (`HeardIsNotAnnounced` fails).

`DeliveryBacklog.cfg` starts from nine queued rows instead of from nothing: nine steps of `Enqueue` and a
tick reach that state. `device_retirement` fingerprints states without the audit trail and the history,
which no action reads; what those carry in `DeviceClaims`' properties is proved through `ImplementsClaims`
instead. It also tells the states of a device apart only as far as a guard does (none, reserved, any
other), and the events only as `connected` or not: two states alike in that have the same steps.

### Fairness

Five runs check a liveness property. In `ack_tracking` time passes; the housekeeping loop reschedules
itself whatever a pass did (`startHousekeeping`), so a sweep that can select does (`WF` of
`FindUnacked`) and a sweep under way comes to its next message (`WF` of marking or skipping it); and a
database does not refuse the same message's transaction for ever (`SF` of `MarkUndelivered`).
Acknowledgements, requests and restarts are owed nothing. Without the strong fairness a message
whose transaction always fails is never announced, and the code cannot do better.

In `delivery` time passes and the worker moves on (`WF` of `Work`): `startWorker` schedules the next pass
whatever became of the last one, and a request ends by its timeout. Targets may fail for ever, and
the passes cut short are bounded; a database that refuses every statement delivers nothing.

In `sessions` a pairing request that may go on does, an `open` settles, a pump takes the next event, a
timer fires and a close settles: promises and timers of one thread. WhatsApp, the phone and the network
are owed nothing, and may close sockets as long as the bound lets them.

In `live_events` the bus's generator and the route go on when their promise is settled (`WF` of `Serve`),
and a reader that has not left reads (`WF` of `Read`). No publisher and no heartbeat is owed anything.

In `process` the drain deadline fires, an await of the drain whose promise is settled resumes, an event and
a pass in flight end (each of their own awaits is bounded: a request by its timeout, a statement by
`busy_timeout`), and the process exits at the end. A handler need not end and a stream's reader need not
read; that is what the deadline is for.

`CHECK_DEADLOCK FALSE` stands where the instance runs out of clock, tokens or requests: the bounds
stop there, not the system.

## 4. What is proved

All from the named assumptions on the constants (`ClaimsAssumption`, `RetirementAssumption`,
`SendAssumption`, `AckAssumption`, `DeliveryAssumption`, `LimitAssumption`, `ProcessAssumption`,
`InboundAssumption`, `RulesAssumption`, `KeysAssumption`, `LiveAssumption`, `SessionsAssumption`) and the
switches stated in each theorem. Every safety property of the runs is proved but `AcceptedPatternsAreSafe` and
`UnassignedMeansGone`, which holds only where two switches exclude what the code does not. Some of what is proved no
run repeats, because it holds of every instance: the type invariants of claims, retirement, sending,
acknowledgements, delivery, `Inbound` and the bus, `BoundIffConsidered`, `RefusalNeedsQuestion`,
`HolderOwnsKey`, `RepeatNeedsFailure`, `NeverRegresses`, `ProbesSpaced`, `OpenedByTicket` and `Retried`.

**DeviceClaims.** `UsableOnlyUnderGrant`, `SharedOnlyByAnswer`, `BoundIffConsidered` and
`TrailExplainsRow` are inductive together with the types; the proof takes each action once and each
conjunct under it. They hold for any lag, because no action writes a grant by comparing clocks alone:
a row that is granted never lapses. `RefusalNeedsQuestion` and `LiveQuestionStands` are action
properties that follow from them. `ReservedMeansUnheld` needs `Lag = 0` and two strengthenings:
decided rows are the bound ones, and a reserved device has only undecided or revoked projects.

**DeviceRetirement.** `ImplementsClaims` shows every step of the handlers, engine and consumer to be a
step of `DeviceClaims` or one that leaves its variables alone, so its theorems carry over.
`ReservationOwned` goes through the steps: one that reserves the device puts a request at `read`, one that
ends a request's retirement marks the device or gives the reservation back unless the statement that would
have done so failed, and of all others only a restart ends a request. It needs no switch and holds past
any number of restarts.

**The engine between the two.** `AdapterKeepsSlot` (below) shows that the adapter does only what
`EngineSlot` allows. `ContractIsAssumed` shows that whatever the contract allows an engine to do of itself,
`DeviceRetirement` lets its engine do: so the theorems about the handlers hold with the adapter, and with
any other engine that keeps the contract, under the switch `Forgotten` for the late reconnect. And
`WithinContract` shows that `DeviceRetirement` assumes no more than that, as a refinement: `lost` and
`told`, which its state does not have, are read off its steps (`Remembers`, which says what they become
at every step and restrains none), and a slot that is gone has lost nothing.

**IdempotentSend.** The invariant ties the row to the request that holds it (`Standing`) and keeps
every message's window behind the row's (`Past`): a row that is absent, expired or retaken is more
than a TTL after each window that sent. Where an engine may throw for a message it took, that is all that
can be said of every message but those whose caller was told `unavailable` (`PlacedUnlessFailed`, in
`HoldInv`): such a request released its key, and the next one takes it at once. So `HolderOwnsKey` and
`RepeatNeedsFailure` hold with any engine: what repeats a message inside a window is an answer that said it
was not sent, never a race, a crash or an expiry. With an engine that throws only for what it did not take
no such answer stands for a sent message (`HonestEngine`), and `OncePerWindow` follows, and then the refinement: the step at which the engine takes a message is
`Accept`, each ending is `Answer`, a crash is `Silence`, and everything else stutters.

**AckTracking.** `NeverRegresses` and `UndeliveredMeansAnnounced` follow from the types; for
`HeardIsNotAnnounced` the invariant says that a message somebody heard an acknowledgement of has a
row past `accepted`, or no row and never will have.

**Delivery.** The invariant says that what a pass has not come to is still pending (so no replay
touches it), that a row's counter never runs ahead of its log, over all its schedules, that a 2xx
the worker read is in its hands or in the row, and that an open circuit's clock is at most a pass
ahead of the last failure it counted. `EndsAreEarned`, `AnsweredIsNotResent` and `ProbesSpaced` follow.
`SmallBacklogsShare` counts: the queue is finite because rows come one at a time, so a selection that
does not reach its bound is all that is due, and a batch that is not full is all the caps took, at least
one row of each environment.

**RateLimits and Process.** The invariant says that no row counts past the limit, and that what a width was
granted in its current window is on the row of that window, whose remembered end is not before the window's:
so neither a deploy that writes to a shorter window's row nor the sweep can lose it (`LimitsAlone`).
`ProcessImplementsLimits` shows every step of the process to be a step of `LimitSpec` or one that leaves its
variables alone, and the budget follows for the process (`ProcessKeepsBudget`). `ProcessTyped` and
`ProcessSafe` need what each await of the drain leaves behind: after the consumers no event is in hand,
after a loop's stop its timer is clear and stays so, and what is open after the deadline is a handler.

**Inbound.** `BadgeExact` needs that a message not among a thread's rows was never filed there, or was
swept and is in nobody's hands any more (`SweptIsPast`): only then does `Record`, which looks at the
rows alone, count nothing twice. `EveryoneRecords` needs that the bindings which stood all along stand now
and that those the loop has come to have the message (`SteadyStands`, `RecordedSoFar`), whichever others
failed; nothing like it holds of the rules and the fan-out, whose statements nobody catches.
`ErasedStaysErased` needs that an environment not bound since the erasure is not bound now
(`ErasedUnbound`), so that `Files` refuses every late write for it; that the device is claimed again by
another, or by it, is part of the proof.

**Rules.** `PlanSaysTheRules` holds for any definitions, any event and any `Compiles` and `Found`. A plan
compares a loop that may leave early with a statement about all the rules at once, and the invariant is
what the loop knows in the middle (`RulesInv`): it goes through the rules in their order (`InOrder`),
the query's, which is total and asymmetric because no two rules have one place (`BeforeOrders`); it was left
at a rule that fired and stops, and no rule it came to lies behind one (`StopsWhereTold`); and what it
has written is what fired and what overran among the rules it has come to (`MatchedSoFar`,
`TimedOutSoFar`). That no rule left in `todo` when the loop ends could have fired follows from the second,
and that a name says which rule it was from the types: no two rows share one (`RulesTyped`).

**Keys.** For `OneKeyPerToken` the invariant says that a token is this boot's and the boot's own call is
over (it issues at most one), that one setup at a time is past the queue and a call about to mint holds
the token there is, and that every key minted before came from an earlier boot's token. Overtaken
registrations write other rows and do not matter. For `OneValueInForce` it says what holds from the first
registration that is through (`Settled`): the live row has the value of `API_KEY` and is the only one, or a
person disabled that value (`Alone`); a registration that decided to write did so when none was or when an
old one stood (`RegistersTheLive`), and whatever order two of them commit in, each leaves its own row alone.
Only a hand that disables the value in between is overtaken, which the property says. `RevokedStaysOut`
follows from what a request is judged by (`JudgedAsItCame`): a row that had ended when the request came
never becomes live again, so whenever it is read it is refused.

**LiveEvents.** `NoGap` is about a concatenation; the invariant says it position by position (`Follows`): of
a watched stream the subscription is open, what the bus's generator holds is the envelope after the last one
read, what is pending follows on, and together they reach the last one published. It needs to know where the
two generators stand together (`InStep`): a stream that is not open has no subscription, and one the route
works on is not in the middle of the bus's. `TicketSpentOnce` follows from `OpenedByTicket`: a stream that
was opened has its ticket's row gone, and only the one `DELETE` that finds the row opens another.

**Sessions.** `ConnectedIsKnown` is inductive with one fact about generations: the first session of a slot
is ended by no logout but its own, so a logout that ends while it is there takes the connection down with
the report. `OutageIsAlwaysRetried` needs more. An entry that is not there owes nothing; a socket under
way belongs to a session and is not taken for another; whoever closes a socket to pair anew has given the
reconnect up, until the close returns; and the attempt an outage waits for is the timer's own
(`Retried`), since that of a pairing request is not repeated when it fails. `NextTimer` is free because
there are more numbers than timers, a pigeonhole over the finite set of timers.

`AdapterKeepsSlot` shows every step of the adapter to be a step of `EngineSlot` or none. It uses both
invariants: a connected session has a handle, so dropping one that has none changes nothing; a request
that drops a socket owes no reconnect, so the slot it lets go of is not left `down`; an open that
settles has a generation, so it opens no slot that is not there. And an entry that is not there is the
empty one, so nothing of a purged session is remembered by the next (`NothingRemembered`).

Liveness (`SilenceIsNoticed`, `QueueDrains`, `Recovers`, `OverflowIsTold`, `GoneIsReleased`,
`ShutdownEnds`) is model-checked only: fairness is outside what the prover handles. So is
`AcceptedPatternsAreSafe`: the analysis and the matcher are recursive over a pattern, and what a recursion
computes for every input needs an induction the installed provers cannot instantiate.

## 5. Not modelled

SQL text, JSON, encryption, HTTP, logging and the console; message content; what the phone holder
sees. Devices never interact in the modelled operations, so one is modelled; pool capacity, where
they do, is a choice that may fail. A database error is a step that does nothing but move the caller
on. Disk loss is not modelled.

Transactions are one step each. `withTransaction`'s `BEGIN IMMEDIATE` waits synchronously, so a
transaction that starts while another holds the lock across an await (`setup.ts` awaits Argon2 in one)
stops the only thread that could release it, until `busy_timeout` ends the wait in an error. Whether
and how long depends on timings that no source states, and the error is one the models already allow.

Migrations, backup, pressure and the command-line tools run alone over files. Configuration, formatting
and the console keep no state another part reads. Of `admin.ts`, tenants and credentials only what the
other modules touch is modelled: the rest is single statements guarded by unique indexes.

Media, `message.sent` events and sending through the adapter are data passed on: the adapter is the
external engine of `IdempotentSend`. Rules' captures and actions are planned and then dropped by the
code, so they are left out.

## 6. Plan

Done: the modules above, and proofs of every safety property a run checks but the one about the recursive
pattern analysis and the one that needs pairing kept apart from retirement; and the chain from the adapter over the engine's contract to the handlers. What is left
is to state what of `UnassignedMeansGone` survives without its two switches, and pools: two devices that
compete for the last place of one.
