--------------------------- MODULE IdempotentSend ---------------------------
(***************************************************************************)
(* The requests that send with one idempotency key in one environment      *)
(* (src/api/routes/messages.ts), and the row of `idempotency_keys` they    *)
(* share (src/stores/idempotency-store.ts).  Keys never interact, so one   *)
(* is modelled.                                                            *)
(*                                                                         *)
(* reserve() is four statements with an await between any two of them and  *)
(* no transaction around them: each is a step here.  So is every later     *)
(* await of the handler.  complete() and release() name the row by its key *)
(* alone: nothing in them says whose reservation it is.                    *)
(***************************************************************************)
EXTENDS Integers

CONSTANTS
    Callers,             \* requests, retries included
    Bodies,              \* request hashes
    BodyOf,              \* the hash of each request
    TTL,                 \* IDEMPOTENCY_TTL_MS, in ticks
    Prompt,              \* whether every request ends within TTL of its start
    ThrowsAfterTaking,   \* whether engine.send may throw for a message it took
    MaxTime              \* bound: the clock stops here

ASSUME SendAssumption ==
    /\ BodyOf \in [Callers -> Bodies]
    /\ TTL \in Nat \ {0}
    /\ Prompt \in BOOLEAN
    /\ ThrowsAfterTaking \in BOOLEAN
    /\ MaxTime \in Nat

VARIABLES
    now,      \* wall clock
    key,      \* the idempotency_keys row
    pc,       \* where each request is, or how it ended
    start,    \* the clock each request read when it called reserve
    window,   \* history: created_at of the reservation each request won
    taken     \* history: the requests whose message WhatsApp has

vars == <<now, key, pc, start, window, taken>>

Reserving == {"lookup", "insert", "reread", "takeover", "again"}
Holding == {"resolve", "send", "record", "complete", "failed", "release"}
Ended == {"accepted", "unrecorded", "replayed", "unavailable", "conflict",
          "in_flight", "error", "gone"}

\* Reserved while the response column is null; then the answer to replay.
KeyStates == {"absent", "reserved", "accepted", "unrecorded"}
Absent == [state |-> "absent", body |-> "none", created |-> 0]
Reservation(c, at) == [state |-> "reserved", body |-> BodyOf[c], created |-> at]

SendTypeOK ==
    /\ now \in Nat
    /\ key \in [state : KeyStates, body : Bodies \union {"none"}, created : Nat]
    /\ pc \in [Callers -> {"idle"} \union Reserving \union Holding \union Ended]
    /\ start \in [Callers -> Nat]
    /\ window \in [Callers -> Nat]
    /\ taken \subseteq Callers

Init ==
    /\ now = 0
    /\ key = Absent
    /\ pc = [c \in Callers |-> "idle"]
    /\ start = [c \in Callers |-> 0]
    /\ window = [c \in Callers |-> 0]
    /\ taken = {}

Live(c) == pc[c] \in Reserving \union Holding

Goto(c, from, to) ==
    /\ pc[c] = from
    /\ pc' = [pc EXCEPT ![c] = to]

----------------------------------------------------------------------------
(* Reserving the key.                                                      *)

Arrive(c) ==
    /\ Goto(c, "idle", "lookup")
    /\ start' = [start EXCEPT ![c] = now]
    /\ UNCHANGED <<now, key, window, taken>>

\* lookup() reports a row past its TTL as absent.
Present == key.state # "absent"
Expired(c) == Present /\ key.created + TTL <= start[c]
Current(c) == Present /\ ~Expired(c)

\* lookup() without the comparison of request hashes.
FoundAnyBody(c) ==
    IF Current(c) /\ key.state # "reserved" THEN "replayed" ELSE "nothing"

\* A current row answers for its own request only, once it is completed.
Found(c) ==
    CASE Current(c) /\ key.body # BodyOf[c] -> "conflict"
      [] Current(c) /\ key.body = BodyOf[c] /\ key.state # "reserved" -> "replayed"
      [] OTHER -> "nothing"

Lookup(c, from, otherwise) ==
    /\ Goto(c, from, IF Found(c) = "nothing" THEN otherwise ELSE Found(c))
    /\ UNCHANGED <<now, key, start, window, taken>>

\* insert ... on conflict do nothing; created_at defaults to the clock.
Insert(c) ==
    /\ ~Present
    /\ Goto(c, "insert", "resolve")
    /\ key' = Reservation(c, now)
    /\ window' = [window EXCEPT ![c] = now]
    /\ UNCHANGED <<now, start, taken>>

InsertLost(c) ==
    /\ Present
    /\ Goto(c, "insert", "reread")
    /\ UNCHANGED <<now, key, start, window, taken>>

Reread(c) ==
    /\ \/ Expired(c) /\ Goto(c, "reread", "takeover")
       \/ ~Expired(c) /\ Goto(c, "reread", "again")
    /\ UNCHANGED <<now, key, start, window, taken>>

\* The takeover decided by the row that was read, whatever it is by now.
TakeOverAnyway(c) ==
    /\ Present
    /\ Goto(c, "takeover", "resolve")
    /\ key' = Reservation(c, start[c])
    /\ window' = [window EXCEPT ![c] = start[c]]
    /\ UNCHANGED <<now, start, taken>>

\* The expiry is in the WHERE clause too, and there it is strict.
TakeOver(c) ==
    /\ Present
    /\ key.created < start[c] - TTL
    /\ Goto(c, "takeover", "resolve")
    /\ key' = Reservation(c, start[c])
    /\ window' = [window EXCEPT ![c] = start[c]]
    /\ UNCHANGED <<now, start, taken>>

TakeOverLost(c) ==
    /\ ~Present \/ key.created >= start[c] - TTL
    /\ Goto(c, "takeover", "again")
    /\ UNCHANGED <<now, key, start, window, taken>>

----------------------------------------------------------------------------
(* Sending under the reservation.                                          *)

\* The binding, the rate limit and the pool; any of them may refuse.
Resolve(c) ==
    /\ Goto(c, "resolve", "send") \/ Goto(c, "resolve", "release")
    /\ UNCHANGED <<now, key, start, window, taken>>

\* engine.send resolves: WhatsApp has the message.
EngineTakes(c) ==
    /\ Goto(c, "send", "record")
    /\ taken' = taken \union {c}
    /\ UNCHANGED <<now, key, start, window>>

\* engine.send throws.  Baileys also throws when it accepted the message but
\* returned no id to correlate an acknowledgement with.
EngineThrows(c) ==
    /\ Goto(c, "send", "release")
    /\ taken' \in {taken} \union (IF ThrowsAfterTaking THEN {taken \union {c}} ELSE {})
    /\ UNCHANGED <<now, key, start, window>>

\* recordAccepted; when it throws, the failure becomes the answer to replay.
Record(c) ==
    /\ Goto(c, "record", "complete") \/ Goto(c, "record", "failed")
    /\ UNCHANGED <<now, key, start, window, taken>>

\* complete(): an update by key, which may find no row.
Complete(c, from, answer) ==
    /\ Goto(c, from, answer)
    /\ key' = IF Present THEN [key EXCEPT !.state = answer] ELSE key
    /\ UNCHANGED <<now, start, window, taken>>

\* release(): deletes the row of the key while it has no response.
Release(c) ==
    /\ Goto(c, "release", "unavailable")
    /\ key' = IF key.state = "reserved" THEN Absent ELSE key
    /\ UNCHANGED <<now, start, window, taken>>

\* A statement throws: nothing is written, and the row stays as it is.
StoreFails(c) ==
    /\ \E at \in Reserving \union {"complete", "failed", "release"} : Goto(c, at, "error")
    /\ UNCHANGED <<now, key, start, window, taken>>

----------------------------------------------------------------------------
(* Around the requests.                                                    *)

\* Housekeeping drops expired keys, prompt or late.
SweepKeys ==
    /\ Present
    /\ key.created < now - TTL
    /\ key' = Absent
    /\ UNCHANGED <<now, pc, start, window, taken>>

Crash ==
    /\ \E c \in Callers : Live(c)
    /\ pc' = [c \in Callers |-> IF Live(c) THEN "gone" ELSE pc[c]]
    /\ UNCHANGED <<now, key, start, window, taken>>

Tick ==
    /\ now < MaxTime
    /\ Prompt => \A c \in Callers : Live(c) => now + 1 < start[c] + TTL
    /\ now' = now + 1
    /\ UNCHANGED <<key, pc, start, window, taken>>

Request(c) ==
    \/ Arrive(c)
    \/ Lookup(c, "lookup", "insert")
    \/ Insert(c)
    \/ InsertLost(c)
    \/ Reread(c)
    \/ TakeOver(c)
    \/ TakeOverLost(c)
    \/ Lookup(c, "again", "in_flight")
    \/ Resolve(c)
    \/ EngineTakes(c)
    \/ EngineThrows(c)
    \/ Record(c)
    \/ Complete(c, "complete", "accepted")
    \/ Complete(c, "failed", "unrecorded")
    \/ Release(c)
    \/ StoreFails(c)

Next ==
    \/ \E c \in Callers : Request(c)
    \/ SweepKeys
    \/ Crash
    \/ Tick

Spec == Init /\ [][Next]_vars

----------------------------------------------------------------------------
(* Properties.                                                             *)

\* A request past reserve() holds the row, alone: what complete() and release()
\* do to the row of the key, they do to the request's own reservation, though
\* neither says which one it means.
HolderOwnsKey ==
    \A c \in Callers : pc[c] \in Holding =>
        /\ key = Reservation(c, window[c])
        /\ \A d \in Callers : pc[d] \in Holding => c = d

\* Whatever is retried, crashes, expires or races, WhatsApp takes no second
\* message under the key until more than a TTL after the first reservation.
OncePerWindow ==
    \A c, d \in taken :
        c # d => window[c] > window[d] + TTL \/ window[d] > window[c] + TTL

\* When the engine may throw for a message it took, two messages can be closer
\* than that; but only if the caller of one of them was told it failed, after
\* its reservation was given up.  A release that throws, a crash or an answer
\* that is not recorded never lets a second message out.
RepeatNeedsFailure ==
    \A c, d \in taken :
        \/ c = d
        \/ window[c] > window[d] + TTL
        \/ window[d] > window[c] + TTL
        \/ "unavailable" \in {pc[c], pc[d]}

\* The handlers implement the promise.
Promise == INSTANCE SendOnce WITH
    accepted <- {[body |-> BodyOf[c], at |-> window[c]] : c \in taken},
    told <- [c \in Callers |-> IF pc[c] \in Ended THEN pc[c] ELSE "nothing"]

SendsOnce == Promise!PromiseSpec
=============================================================================
