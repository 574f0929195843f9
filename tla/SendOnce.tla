------------------------------ MODULE SendOnce ------------------------------
(***************************************************************************)
(* What POST /v1/devices/:ref/messages promises the callers who share one  *)
(* idempotency key (src/api/routes/messages.ts): WhatsApp takes at most    *)
(* one message in a window of IDEMPOTENCY_TTL_MS, and an answer that says  *)
(* a message went out is given only about one that did, with that body.    *)
(***************************************************************************)
EXTENDS Integers

CONSTANTS Callers, Bodies, BodyOf, TTL

VARIABLES
    accepted,   \* messages WhatsApp has: the body, and when its key was reserved
    told        \* what each caller has been answered

Sent == {"accepted", "unrecorded", "replayed"}
NotSent == {"unavailable"}
NoWord == {"conflict", "in_flight", "error", "gone"}

PromiseInit ==
    /\ accepted = {}
    /\ told = [c \in Callers |-> "nothing"]

\* One more message, unless the window of an earlier one is still open.
Accept ==
    /\ \E new \in accepted' :
          /\ new.body \in Bodies
          /\ \A m \in accepted : new.at > m.at + TTL
          /\ accepted' = accepted \union {new}
    /\ UNCHANGED told

Tell(c, answer) ==
    /\ told[c] = "nothing"
    /\ answer \in Sent => \E m \in accepted : m.body = BodyOf[c]
    /\ told' = [told EXCEPT ![c] = answer]

Answer ==
    /\ \E c \in Callers, answer \in Sent \union NotSent \union NoWord : Tell(c, answer)
    /\ UNCHANGED accepted

\* The process stops: whoever was still waiting is never answered.
Silence ==
    /\ \E lost \in SUBSET {c \in Callers : told[c] = "nothing"} :
          told' = [c \in Callers |-> IF c \in lost THEN "gone" ELSE told[c]]
    /\ UNCHANGED accepted

PromiseNext == Accept \/ Answer \/ Silence

PromiseSpec == PromiseInit /\ [][PromiseNext]_<<accepted, told>>
=============================================================================
