----------------------------- MODULE LiveEvents -----------------------------
(***************************************************************************)
(* Watching a tenant's events live: the event bus (events/bus.ts), the     *)
(* stream route that reads from it (api/routes/events.ts) and the tickets  *)
(* that open a stream (stores/stream-ticket-store.ts).                     *)
(*                                                                         *)
(* Three asynchronous parties meet in a subscriber's buffer: the consumer  *)
(* that publishes, the bus's generator that empties it, and the route's    *)
(* generator that races it against a heartbeat and hands what it gets to a *)
(* reader who may stop reading or go away at any await.  An action is what *)
(* runs between two awaits or yields.  Envelopes are numbered per          *)
(* environment; the clock is reduced to tickets and keys that end.         *)
(***************************************************************************)
EXTENDS Naturals, Sequences

CONSTANTS
    Envs, Keys, Tickets,
    Streams,     \* requests for the stream
    Home,        \* the environment an API key belongs to
    MaxPending,  \* MAX_PENDING, 20 in the code
    MaxEvents    \* envelopes published to each environment (bound)

ASSUME LiveAssumption ==
    /\ Home \in [Keys -> Envs]
    /\ MaxPending \in Nat \ {0} /\ MaxEvents \in Nat
    /\ "none" \notin Tickets \cup Envs

VARIABLES
    usable,     \* keys neither revoked nor expired
    ticket,     \* rows of stream_tickets, and mintings between their statements
    published,  \* envelopes published to each environment
    watching,   \* the streams in the bus's map of waiters
    waiter,     \* a subscription's buffer, why it closed, and its generator
    stream      \* the route's generator and the request it serves

vars == <<usable, ticket, published, watching, waiter, stream>>

TicketStates == {"none", "checked", "fresh", "stale", "gone"}
Reasons == {"open", "closed", "overflow"}
\* Where the bus's generator is: at a yield or not begun, parked on the
\* promise, resolved and about to run, finished with a value, or returned.
Readers == {"idle", "parked", "woken", "holds", "ended"}
\* Where the route's generator is: its first line, suspended at the yield of
\* stream.open, an event, a ping or stream.overflow, in the race, or finished.
Places == {"none", "resolved", "open", "sent", "tick", "race", "told", "done"}

Free == [pending |-> <<>>, closed |-> "open", reader |-> "idle", held |-> 0]
Unopened == [at |-> "none", ticket |-> "none", env |-> "none", last |-> 0,
             gone |-> "no", listens |-> "no"]

WaiterType == [pending : Seq(1..MaxEvents), closed : Reasons, reader : Readers,
               held : 0..MaxEvents]
StreamType == [at : Places, ticket : Tickets \cup {"none"}, env : Envs \cup {"none"},
               last : 0..MaxEvents, gone : {"yes", "no"}, listens : {"yes", "no"}]

\* No buffer outgrows its cap, and what is closed has nothing left to read.
WithinCap(w) ==
    /\ Len(w.pending) <= MaxPending
    /\ w.closed # "open" => w.pending = <<>>

TypeOK ==
    /\ usable \subseteq Keys
    /\ ticket \in [Tickets -> [state : TicketStates, key : Keys]]
    /\ published \in [Envs -> 0..MaxEvents]
    /\ watching \subseteq Streams
    /\ waiter \in [Streams -> WaiterType]
    /\ stream \in [Streams -> StreamType]
    /\ \A s \in Streams : WithinCap(waiter[s])

Init ==
    /\ usable = Keys
    /\ ticket \in [Tickets -> [state : {"none"}, key : Keys]]
    /\ published = [e \in Envs |-> 0]
    /\ watching = {}
    /\ waiter = [s \in Streams |-> Free]
    /\ stream = [s \in Streams |-> Unopened]

-----------------------------------------------------------------------------
(* Tickets.                                                                *)

\* mintTicket: the key is read in one statement and the row inserted in the
\* next; the key may end between the two.
Mint(t) ==
    /\ ticket[t].state = "none"
    /\ ticket[t].key \in usable
    /\ ticket' = [ticket EXCEPT ![t].state = "checked"]
    /\ UNCHANGED <<usable, published, watching, waiter, stream>>

Insert(t) ==
    /\ ticket[t].state = "checked"
    /\ ticket' = [ticket EXCEPT ![t].state = "fresh"]
    /\ UNCHANGED <<usable, published, watching, waiter, stream>>

\* Time: a ticket reaches expires_at, a key is revoked or reaches its own.
TicketExpires(t) ==
    /\ ticket[t].state = "fresh"
    /\ ticket' = [ticket EXCEPT ![t].state = "stale"]
    /\ UNCHANGED <<usable, published, watching, waiter, stream>>

KeyEnds(k) ==
    /\ k \in usable
    /\ usable' = usable \ {k}
    /\ UNCHANGED <<ticket, published, watching, waiter, stream>>

\* sweepTickets: rows nobody can spend any more.
Sweep ==
    /\ \E t \in Tickets : ticket[t].state = "stale"
    /\ ticket' = [t \in Tickets |->
                    IF ticket[t].state = "stale" THEN [ticket[t] EXCEPT !.state = "gone"]
                                                 ELSE ticket[t]]
    /\ UNCHANGED <<usable, published, watching, waiter, stream>>

\* spendTicket's one DELETE, which returns the row it removed.
\* What the first version did, in the words of its comment: no look at the key.
SpendUnchecked(t) ==
    /\ ticket[t].state = "fresh"
    /\ ticket' = [ticket EXCEPT ![t].state = "gone"]

Spend(t) ==
    /\ ticket[t].state = "fresh"
    /\ ticket[t].key \in usable
    /\ ticket' = [ticket EXCEPT ![t].state = "gone"]

\* The route's resolve: spend the ticket and subscribe to its environment.
\* A ticket that is not there answers 401 and changes nothing.
Resolve(s, t) ==
    /\ stream[s].at = "none" /\ stream[s].gone = "no"
    /\ Spend(t)
    /\ LET env == Home[ticket[t].key]
       IN  stream' = [stream EXCEPT ![s].at = "resolved", ![s].ticket = t,
                                    ![s].env = env, ![s].last = published[env]]
    /\ watching' = watching \cup {s}
    /\ UNCHANGED <<usable, published, waiter>>

-----------------------------------------------------------------------------
(* The bus.                                                                *)

\* waiter.resolve?.(): the parked generator will run again.
Woken(w) == IF w.reader = "parked" THEN [w EXCEPT !.reader = "woken"] ELSE w

\* close() and the end of an overflow: why, once, and nothing left to read.
Closed(w, why) ==
    Woken([w EXCEPT !.closed = IF @ = "open" THEN why ELSE @, !.pending = <<>>])

\* publish: the synchronous loop over one environment's waiters.
Slow(s) == Len(waiter[s].pending) >= MaxPending
Reached(e) == {s \in watching : stream[s].env = e /\ waiter[s].closed = "open"}

\* A slip in the loop: the oldest envelope makes room, and nobody is told.
PublishTrimming(e) ==
    /\ published[e] < MaxEvents
    /\ published' = [published EXCEPT ![e] = @ + 1]
    /\ LET n == published[e] + 1
           Kept(s) == IF Slow(s) THEN Tail(waiter[s].pending) ELSE waiter[s].pending
       IN  waiter' = [s \in Streams |->
                        IF s \in Reached(e)
                        THEN Woken([waiter[s] EXCEPT !.pending = Append(Kept(s), n)])
                        ELSE waiter[s]]
    /\ UNCHANGED <<usable, ticket, watching, stream>>

Publish(e) ==
    /\ published[e] < MaxEvents
    /\ published' = [published EXCEPT ![e] = @ + 1]
    /\ waiter' = [s \in Streams |->
                    IF s \notin Reached(e) THEN waiter[s]
                    ELSE IF Slow(s) THEN Closed(waiter[s], "overflow")
                    ELSE Woken([waiter[s] EXCEPT !.pending = Append(@, published[e] + 1)])]
    /\ watching' = watching \ {s \in Reached(e) : Slow(s)}
    /\ UNCHANGED <<usable, ticket, stream>>

\* The loop of the subscription's generator, up to its next await or yield;
\* its finally marks the waiter closed and detaches it.
Advanced(w) ==
    IF w.pending # <<>>
    THEN [w EXCEPT !.pending = Tail(@), !.held = Head(w.pending), !.reader = "holds"]
    ELSE IF w.closed # "open" THEN [w EXCEPT !.reader = "ended"]
    ELSE [w EXCEPT !.reader = "parked"]

Advance(s) ==
    /\ waiter' = [waiter EXCEPT ![s] = Advanced(@)]
    /\ watching' = IF waiter'[s].reader = "ended" THEN watching \ {s} ELSE watching

Wake(s) ==
    /\ waiter[s].reader = "woken"
    /\ Advance(s)
    /\ UNCHANGED <<usable, ticket, published, stream>>

\* Subscription.close.
Close(s) ==
    /\ waiter' = [waiter EXCEPT ![s] = Closed(@, "closed")]
    /\ watching' = watching \ {s}

\* resetBus: the first thing a shutdown does.
Reset ==
    /\ watching # {}
    /\ waiter' = [s \in Streams |-> IF s \in watching THEN Closed(waiter[s], "closed") ELSE waiter[s]]
    /\ watching' = {}
    /\ UNCHANGED <<usable, ticket, published, stream>>

-----------------------------------------------------------------------------
(* The stream route's generator.                                           *)

Moves(s, from, to) ==
    /\ stream[s].at \in from
    /\ stream' = [stream EXCEPT ![s].at = to]

\* The finally: the listener goes and the subscription closes.  Nobody reads what
\* is left of either, so a finished stream keeps only its ticket.
Finish(s) ==
    /\ stream' = [stream EXCEPT ![s] = [Unopened EXCEPT !.at = "done", !.ticket = stream[s].ticket]]
    /\ waiter' = [waiter EXCEPT ![s] = Free]
    /\ watching' = watching \ {s}

\* The body runs at the first pull, which the framework makes itself; a
\* listener for the abort is registered, and an abort already past is seen.
\* A slip: only the listener, which an abort already past never calls.
BodyListens(s) ==
    /\ stream[s].at = "resolved"
    /\ stream' = [stream EXCEPT ![s].at = "open", ![s].listens = "yes"]
    /\ UNCHANGED <<usable, ticket, published, watching, waiter>>

Body(s) ==
    /\ stream[s].at = "resolved"
    /\ \/ stream[s].gone = "yes" /\ Finish(s)
       \/ /\ stream[s].gone = "no"
          /\ stream' = [stream EXCEPT ![s].at = "open", ![s].listens = "yes"]
          /\ UNCHANGED <<watching, waiter>>
    /\ UNCHANGED <<usable, ticket, published>>

\* The reader takes what was yielded and the generator goes on: after the
\* opening and after an event it asks for the next one, after a ping it still
\* holds the answer it asked for.
AsksNext(s) ==
    /\ Moves(s, {"open", "sent"}, "race")
    /\ Advance(s)
    /\ UNCHANGED <<usable, ticket, published>>

AsksOn(s) ==
    /\ Moves(s, {"tick"}, "race")
    /\ UNCHANGED <<usable, ticket, published, watching, waiter>>

\* The race is settled by the heartbeat: a timer, so after every promise that
\* is already resolved.
Heartbeat(s) ==
    /\ waiter[s].reader = "parked"
    /\ Moves(s, {"race"}, "tick")
    /\ UNCHANGED <<usable, ticket, published, watching, waiter>>

\* It is settled by an event, which is yielded.
Delivers(s) ==
    /\ stream[s].at = "race" /\ waiter[s].reader = "holds"
    /\ stream' = [stream EXCEPT ![s].at = "sent", ![s].last = waiter[s].held]
    /\ waiter' = [waiter EXCEPT ![s].reader = "idle", ![s].held = 0]
    /\ UNCHANGED <<usable, ticket, published, watching>>

\* The race is settled by the end of the subscription: an overflow is said before
\* the finally runs, any other end goes straight to it.
\* A slip: every end is silent.
EndsSilent(s) ==
    /\ stream[s].at = "race" /\ waiter[s].reader = "ended"
    /\ Finish(s)
    /\ UNCHANGED <<usable, ticket, published>>

Ends(s) ==
    /\ stream[s].at = "race" /\ waiter[s].reader = "ended"
    /\ \/ /\ waiter[s].closed = "overflow"
          /\ Moves(s, {"race"}, "told")
          /\ UNCHANGED <<watching, waiter>>
       \/ waiter[s].closed # "overflow" /\ Finish(s)
    /\ UNCHANGED <<usable, ticket, published>>

\* The last pull after stream.overflow, or the framework ending a response
\* whose generator stands at a yield: the finally closes the subscription.
Returns(s) ==
    /\ \/ stream[s].at = "told"
       \/ stream[s].gone = "yes" /\ stream[s].at \in {"open", "sent", "tick"}
    /\ Finish(s)
    /\ UNCHANGED <<usable, ticket, published>>

\* The client goes away; the listener, where there is one, closes.
Abort(s) ==
    /\ stream[s].at \notin {"none", "done"} /\ stream[s].gone = "no"
    /\ stream' = [stream EXCEPT ![s].gone = "yes"]
    /\ IF stream[s].listens = "yes" THEN Close(s) ELSE UNCHANGED <<watching, waiter>>
    /\ UNCHANGED <<usable, ticket, published>>

-----------------------------------------------------------------------------
Serve(s) == Wake(s) \/ Body(s) \/ Delivers(s) \/ Ends(s)
Read(s) == AsksNext(s) \/ AsksOn(s) \/ Returns(s)

Next ==
    \/ \E t \in Tickets : Mint(t) \/ Insert(t) \/ TicketExpires(t)
    \/ \E k \in Keys : KeyEnds(k)
    \/ Sweep
    \/ \E e \in Envs : Publish(e)
    \/ Reset
    \/ \E s \in Streams : \/ \E t \in Tickets : Resolve(s, t)
                          \/ Wake(s) \/ Body(s) \/ AsksNext(s) \/ AsksOn(s) \/ Heartbeat(s)
                          \/ Delivers(s) \/ Ends(s) \/ Returns(s) \/ Abort(s)

\* Promises that are resolved run on, and a reader that is still there goes on
\* reading; nobody is owed an event, a heartbeat or a disconnection.
Fairness ==
    \A s \in Streams : WF_vars(Serve(s)) /\ WF_vars(stream[s].gone = "no" /\ Read(s))

Spec == Init /\ [][Next]_vars /\ Fairness

-----------------------------------------------------------------------------
(* Properties.                                                             *)

\* What a subscription still has to hand over, oldest first.
Waiting(s) ==
    (IF waiter[s].reader = "holds" THEN <<waiter[s].held>> ELSE <<>>) \o waiter[s].pending

\* A watched stream misses nothing: what its reader has, what the bus's
\* generator holds and what is buffered are all the envelopes published since
\* it subscribed, in order and once.  (publish closes a subscriber that is too
\* slow and never trims it; the pending next() is kept across heartbeats.)
NoGap ==
    \A s \in watching :
        /\ waiter[s].closed = "open"
        /\ Len(Waiting(s)) = published[stream[s].env] - stream[s].last
        /\ \A i \in DOMAIN Waiting(s) : Waiting(s)[i] = stream[s].last + i

\* A ticket opens at most one stream, and only while its key may still act:
\* a key that ended between mintTicket's two statements, or after them, opens
\* none (spendTicket decides both in its one statement).
TicketBuysOneStream ==
    [][\A s \in Streams :
        stream[s].at = "none" /\ stream'[s].at # "none" =>
            /\ ticket[stream'[s].ticket].key \in usable
            /\ \A o \in Streams \ {s} : stream[o].ticket # stream'[s].ticket]_vars

\* A reader cut loose for being slow is told so before its stream ends: a
\* console must not take a stream with a gap for a live one.
OverflowIsTold ==
    \A s \in Streams :
        waiter[s].closed = "overflow" /\ stream[s].at # "done"
            ~> stream[s].at = "told" \/ stream[s].gone = "yes"

\* A reader that went away leaves the bus, wherever its stream was: before the
\* route's first line, at a yield or inside the race (three calls of close).
GoneIsReleased == \A s \in Streams : stream[s].gone = "yes" ~> s \notin watching
=============================================================================
