-------------------------- MODULE LiveEventsProofs --------------------------
(***************************************************************************)
(* What holds of LiveEvents for any environments, keys, tickets, streams,  *)
(* cap on a buffer and number of envelopes.  That an overflow is told and  *)
(* that a gone reader leaves the bus are liveness, and stay with TLC.      *)
(*                                                                         *)
(* NoGap is not inductive: a stream must be known to hold nothing before   *)
(* it subscribes, and its bus's generator to be idle while the reader has  *)
(* the last event, so that the next one is not taken over an unread one.   *)
(***************************************************************************)
EXTENDS LiveEvents, SequenceTheorems, TLAPS

USE LiveAssumption

\* Where the two generators of a stream stand together.
InStep ==
    \A s \in Streams :
        /\ stream[s].at \in {"none", "done"} => waiter[s] = Free /\ s \notin watching
        /\ stream[s].at \in {"resolved", "open", "sent"} => waiter[s].reader = "idle"

\* NoGap of one stream, position by position instead of by concatenation.
Taken(s) == IF waiter[s].reader = "holds" THEN 1 ELSE 0

Follows(s) ==
    /\ waiter[s].closed = "open"
    /\ stream[s].env \in Envs
    /\ Len(waiter[s].pending) + Taken(s) = published[stream[s].env] - stream[s].last
    /\ waiter[s].reader = "holds" => waiter[s].held = stream[s].last + 1
    /\ \A i \in 1..Len(waiter[s].pending) :
          waiter[s].pending[i] = stream[s].last + Taken(s) + i

AllFollow == \A s \in watching : Follows(s)

\* A stream was opened with a ticket that is spent, of a key of its environment.
OpenedByTicket ==
    \A s \in Streams :
        /\ stream[s].at = "none" => stream[s].ticket = "none"
        /\ stream[s].at # "none" =>
              stream[s].ticket \in Tickets /\ ticket[stream[s].ticket].state = "gone"
        /\ stream[s].at \notin {"none", "done"} =>
              stream[s].env = Home[ticket[stream[s].ticket].key]

----------------------------------------------------------------------------
(* The bus's operations on one subscription.                               *)

LEMMA FreeType == Free \in WaiterType /\ WithinCap(Free)
<1>1. <<>> \in Seq(1..MaxEvents) /\ Len(<<>>) = 0
  BY EmptySeq
<1>2. QED
  BY <1>1 DEF Free, WaiterType, WithinCap, Reasons, Readers

\* Waking a parked generator changes nothing else.
LEMMA WokenType ==
    ASSUME NEW w \in WaiterType
    PROVE  /\ Woken(w) \in WaiterType
           /\ Woken(w).pending = w.pending /\ Woken(w).closed = w.closed
           /\ Woken(w).held = w.held
           /\ Woken(w).reader = (IF w.reader = "parked" THEN "woken" ELSE w.reader)
BY DEF Woken, WaiterType, Readers

\* Closing empties the buffer and keeps the first reason.
LEMMA ClosedType ==
    ASSUME NEW w \in WaiterType, NEW why \in Reasons \ {"open"}
    PROVE  /\ Closed(w, why) \in WaiterType /\ WithinCap(Closed(w, why))
           /\ Closed(w, why).closed # "open"
           /\ w.reader = "idle" => Closed(w, why).reader = "idle"
<1> DEFINE v == [w EXCEPT !.closed = IF @ = "open" THEN why ELSE @, !.pending = <<>>]
<1>1. <<>> \in Seq(1..MaxEvents) /\ Len(<<>>) = 0
  BY EmptySeq
<1>2. v \in WaiterType /\ v.pending = <<>> /\ v.closed # "open" /\ v.reader = w.reader
  BY <1>1 DEF WaiterType, Reasons
<1>3. Closed(w, why) = Woken(v)
  BY DEF Closed
<1> HIDE DEF v
<1>4. /\ Woken(v) \in WaiterType /\ Woken(v).pending = <<>> /\ Woken(v).closed # "open"
      /\ w.reader = "idle" => Woken(v).reader = "idle"
  BY <1>2, WokenType
<1>5. Len(Woken(v).pending) = 0
  BY <1>1, <1>4
<1>6. QED
  BY <1>3, <1>4, <1>5 DEF WithinCap

\* An envelope is appended where the cap leaves room.
Received(w, n) == Woken([w EXCEPT !.pending = Append(@, n)])

LEMMA ReceivedType ==
    ASSUME NEW w \in WaiterType, WithinCap(w), w.closed = "open",
           ~(Len(w.pending) >= MaxPending), NEW n \in 1..MaxEvents,
           NEW v, v = Received(w, n)
    PROVE  /\ v \in WaiterType /\ WithinCap(v) /\ v.closed = "open" /\ v.held = w.held
           /\ v.reader = (IF w.reader = "parked" THEN "woken" ELSE w.reader)
           /\ Len(v.pending) = Len(w.pending) + 1
           /\ \A i \in 1..Len(w.pending) : v.pending[i] = w.pending[i]
           /\ v.pending[Len(w.pending) + 1] = n
<1> DEFINE u == [w EXCEPT !.pending = Append(@, n)]
<1>1. w.pending \in Seq(1..MaxEvents) /\ Len(w.pending) \in Nat
  BY LenProperties DEF WaiterType
<1>2. /\ Append(w.pending, n) \in Seq(1..MaxEvents)
      /\ Len(Append(w.pending, n)) = Len(w.pending) + 1
      /\ \A i \in 1..Len(w.pending) : Append(w.pending, n)[i] = w.pending[i]
      /\ Append(w.pending, n)[Len(w.pending) + 1] = n
  BY <1>1, AppendProperties
<1>3. /\ u \in WaiterType /\ u.pending = Append(w.pending, n)
      /\ u.closed = w.closed /\ u.held = w.held /\ u.reader = w.reader
  BY <1>2 DEF WaiterType
<1>4. v = Woken(u)
  BY DEF Received
<1> HIDE DEF u
<1>5. /\ v \in WaiterType /\ v.pending = u.pending /\ v.closed = u.closed
      /\ v.held = u.held
      /\ v.reader = (IF u.reader = "parked" THEN "woken" ELSE u.reader)
  BY <1>3, <1>4, WokenType
<1>6. v.pending = Append(w.pending, n) /\ Len(v.pending) = Len(w.pending) + 1
  BY <1>2, <1>3, <1>5
<1>7. WithinCap(v)
  BY <1>1, <1>3, <1>5, <1>6 DEF WithinCap
<1>8. QED
  BY <1>2, <1>3, <1>5, <1>6, <1>7

\* The generator takes the oldest, ends, or parks.
LEMMA AdvancedType ==
    ASSUME NEW w \in WaiterType, WithinCap(w)
    PROVE  /\ Advanced(w) \in WaiterType /\ WithinCap(Advanced(w))
           /\ Advanced(w).closed = w.closed
           /\ \/ /\ Advanced(w).reader = "holds" /\ w.pending # <<>>
                 /\ Advanced(w).held = w.pending[1]
                 /\ Len(Advanced(w).pending) = Len(w.pending) - 1
                 /\ \A i \in 1..Len(Advanced(w).pending) :
                       Advanced(w).pending[i] = w.pending[i + 1]
              \/ Advanced(w).reader = "ended"
              \/ Advanced(w).reader = "parked" /\ Advanced(w).pending = w.pending
<1>1. w.pending \in Seq(1..MaxEvents) /\ Len(w.pending) \in Nat
  BY LenProperties DEF WaiterType
<1>2. CASE w.pending # <<>>
  <2>1. /\ Head(w.pending) \in 1..MaxEvents /\ Tail(w.pending) \in Seq(1..MaxEvents)
        /\ Len(Tail(w.pending)) = Len(w.pending) - 1
        /\ \A i \in 1..Len(Tail(w.pending)) : Tail(w.pending)[i] = w.pending[i + 1]
    BY <1>1, <1>2, HeadTailProperties
  <2>2. Head(w.pending) = w.pending[1]
    BY <1>1, <1>2
  <2>3. Advanced(w) = [w EXCEPT !.pending = Tail(@), !.held = Head(w.pending),
                                !.reader = "holds"]
    BY <1>2 DEF Advanced
  <2> "holds" \in Readers
    BY DEF Readers
  <2> DEFINE h == Head(w.pending)
             q == Tail(w.pending)
  <2> h \in 0..MaxEvents /\ q \in Seq(1..MaxEvents)
    BY <2>1
  <2>4. Advanced(w) = [w EXCEPT !.pending = q, !.held = h, !.reader = "holds"]
    BY <2>3
  <2> HIDE DEF h, q
  <2>5. /\ Advanced(w) \in WaiterType /\ Advanced(w).pending = q
        /\ Advanced(w).held = h /\ Advanced(w).reader = "holds"
        /\ Advanced(w).closed = w.closed
    BY <2>4 DEF WaiterType
  <2>6. /\ Advanced(w).pending = Tail(w.pending) /\ Advanced(w).held = Head(w.pending)
    BY <2>5 DEF h, q
  <2>7. WithinCap(Advanced(w))
    BY <1>1, <1>2, <2>1, <2>5, <2>6 DEF WithinCap
  <2>8. QED
    BY <1>2, <2>1, <2>2, <2>5, <2>6, <2>7
<1>3. CASE w.pending = <<>>
  BY <1>3 DEF Advanced, WaiterType, Readers, WithinCap
<1>4. QED
  BY <1>2, <1>3

----------------------------------------------------------------------------
(* Types.                                                                  *)

\* Setting one subscription, or one stream, keeps the types of all.
LEMMA OneWaiterTyped ==
    ASSUME TypeOK, NEW s \in Streams, NEW w \in WaiterType, WithinCap(w),
           waiter' = [waiter EXCEPT ![s] = w]
    PROVE  waiter' \in [Streams -> WaiterType] /\ \A r \in Streams : WithinCap(waiter'[r])
BY DEF TypeOK

LEMMA OneStreamTyped ==
    ASSUME TypeOK, NEW s \in Streams, NEW r \in StreamType, stream' = [stream EXCEPT ![s] = r]
    PROVE  stream' \in [Streams -> StreamType]
BY DEF TypeOK

\* What the route writes in a stream.
LEMMA StreamAt ==
    ASSUME NEW r \in StreamType, NEW p \in Places
    PROVE  [r EXCEPT !.at = p] \in StreamType
BY DEF StreamType

LEMMA StreamListens ==
    ASSUME NEW r \in StreamType, NEW p \in Places
    PROVE  [r EXCEPT !.at = p, !.listens = "yes"] \in StreamType
BY DEF StreamType

LEMMA StreamGone ==
    ASSUME NEW r \in StreamType
    PROVE  [r EXCEPT !.gone = "yes"] \in StreamType
BY DEF StreamType

LEMMA StreamReads ==
    ASSUME NEW r \in StreamType, NEW p \in Places, NEW n \in 0..MaxEvents
    PROVE  [r EXCEPT !.at = p, !.last = n] \in StreamType
BY DEF StreamType

LEMMA StreamResolved ==
    ASSUME NEW r \in StreamType, NEW p \in Places, NEW t \in Tickets, NEW e \in Envs,
           NEW n \in 0..MaxEvents
    PROVE  [r EXCEPT !.at = p, !.ticket = t, !.env = e, !.last = n] \in StreamType
<1>1. t \in Tickets \cup {"none"} /\ e \in Envs \cup {"none"}
  OBVIOUS
<1>2. QED
  BY <1>1 DEF StreamType

LEMMA StreamOver ==
    ASSUME NEW r \in StreamType
    PROVE  [Unopened EXCEPT !.at = "done", !.ticket = r.ticket] \in StreamType
<1>1. r.ticket \in Tickets \cup {"none"} /\ "none" \in Envs \cup {"none"} /\ "done" \in Places
      /\ 0 \in 0..MaxEvents
  BY DEF StreamType, Places
<1>2. Unopened \in StreamType
  BY <1>1 DEF Unopened, StreamType, Places
<1>3. QED
  BY <1>1, <1>2 DEF StreamType

LEMMA TicketRow ==
    ASSUME TypeOK, NEW t \in Tickets, NEW st \in TicketStates,
           ticket' = [ticket EXCEPT ![t].state = st]
    PROVE  /\ ticket' \in [Tickets -> [state : TicketStates, key : Keys]]
           /\ \A u \in Tickets : ticket'[u].key = ticket[u].key
           /\ ticket'[t].state = st /\ \A u \in Tickets \ {t} : ticket'[u] = ticket[u]
BY DEF TypeOK

\* Every subscription, ticket and stream is well typed in every reachable
\* state: no buffer outgrows MAX_PENDING (publish in events/bus.ts), and one
\* that was closed has nothing left to read.
THEOREM LiveTyped == Spec => []TypeOK
<1>1. Init => TypeOK
  <2> SUFFICES ASSUME Init PROVE TypeOK
    OBVIOUS
  <2>1. \A s \in Streams : waiter[s] = Free
    BY DEF Init
  <2>2. waiter \in [Streams -> WaiterType]
    BY FreeType DEF Init
  <2>3. \A s \in Streams : WithinCap(waiter[s])
    BY <2>1, FreeType
  <2>4. stream \in [Streams -> StreamType]
    BY DEF Init, Unopened, StreamType, Places
  <2>5. QED
    BY <2>2, <2>3, <2>4 DEF Init, TypeOK, TicketStates
<1>2. TypeOK /\ [Next]_vars => TypeOK'
  <2> SUFFICES ASSUME TypeOK, [Next]_vars PROVE TypeOK'
    OBVIOUS
  <2> DEFINE WaiterOK == /\ waiter \in [Streams -> WaiterType]
                         /\ \A s \in Streams : WithinCap(waiter[s])
             StreamOK == stream \in [Streams -> StreamType] /\ watching \subseteq Streams
             RowsOK == /\ usable \subseteq Keys
                       /\ ticket \in [Tickets -> [state : TicketStates, key : Keys]]
                       /\ published \in [Envs -> 0..MaxEvents]
  <2>1. WaiterOK /\ StreamOK /\ RowsOK
    BY DEF TypeOK
  <2>2. (WaiterOK' /\ StreamOK' /\ RowsOK') => TypeOK'
    BY DEF TypeOK
  <2>3. ASSUME NEW s \in Streams
        PROVE  /\ waiter[s] \in WaiterType /\ WithinCap(waiter[s])
               /\ stream[s] \in StreamType
    BY <2>1, <2>3
  <2>4. ASSUME NEW t \in Tickets, Mint(t) \/ Insert(t) \/ TicketExpires(t)
        PROVE  TypeOK'
    <3>1. RowsOK'
      <4>1. PICK st \in TicketStates : ticket' = [ticket EXCEPT ![t].state = st]
        BY <2>4 DEF Mint, Insert, TicketExpires, TicketStates
      <4>2. QED
        BY <2>1, <2>4, <4>1, TicketRow DEF Mint, Insert, TicketExpires
    <3>2. UNCHANGED <<waiter, stream, watching>>
      BY <2>4 DEF Mint, Insert, TicketExpires
    <3>3. WaiterOK' /\ StreamOK'
      BY <2>1, <3>2
    <3>4. QED
      BY <2>2, <3>1, <3>3
  <2>5. ASSUME NEW k \in Keys, KeyEnds(k)
        PROVE  TypeOK'
    <3>1. RowsOK' /\ WaiterOK' /\ StreamOK'
      BY <2>1, <2>5 DEF KeyEnds
    <3>2. QED
      BY <2>2, <3>1
  <2>6. CASE Sweep
    <3>1. RowsOK'
      BY <2>1, <2>6 DEF Sweep, TicketStates
    <3>2. WaiterOK' /\ StreamOK'
      BY <2>1, <2>6 DEF Sweep
    <3>3. QED
      BY <2>2, <3>1, <3>2
  <2>7. ASSUME NEW e \in Envs, Publish(e)
        PROVE  TypeOK'
    <3>1. RowsOK'
      BY <2>1, <2>7 DEF Publish
    <3>2. StreamOK'
      BY <2>1, <2>7 DEF Publish
    <3> DEFINE F(s) == IF s \notin Reached(e) THEN waiter[s]
                       ELSE IF Slow(s) THEN Closed(waiter[s], "overflow")
                       ELSE Woken([waiter[s] EXCEPT !.pending = Append(@, published[e] + 1)])
    <3>3. waiter' = [s \in Streams |-> F(s)]
      BY <2>7 DEF Publish
    <3>4. ASSUME NEW s \in Streams
          PROVE  F(s) \in WaiterType /\ WithinCap(F(s))
      <4>1. CASE s \notin Reached(e)
        BY <2>3, <4>1
      <4>2. CASE s \in Reached(e) /\ Slow(s)
        <5>1. "overflow" \in Reasons \ {"open"}
          BY DEF Reasons
        <5>2. QED
          BY <2>3, <4>2, <5>1, ClosedType
      <4>3. CASE s \in Reached(e) /\ ~Slow(s)
        <5>1. published[e] + 1 \in 1..MaxEvents
          BY <2>1, <2>7 DEF Publish
        <5>2. waiter[s].closed = "open" /\ ~(Len(waiter[s].pending) >= MaxPending)
          BY <4>3 DEF Reached, Slow
        <5>3. QED
          BY <2>3, <4>3, <5>1, <5>2, ReceivedType DEF Received
      <4>4. QED
        BY <4>1, <4>2, <4>3
    <3> HIDE DEF F
    <3>5. WaiterOK'
      BY <3>3, <3>4
    <3>6. QED
      BY <2>2, <3>1, <3>2, <3>5
  <2>8. CASE Reset
    <3> DEFINE F(s) == IF s \in watching THEN Closed(waiter[s], "closed") ELSE waiter[s]
    <3>1. waiter' = [s \in Streams |-> F(s)]
      BY <2>8 DEF Reset
    <3>2. \A s \in Streams : F(s) \in WaiterType /\ WithinCap(F(s))
      <4>1. "closed" \in Reasons \ {"open"}
        BY DEF Reasons
      <4>2. QED
        BY <2>3, <4>1, ClosedType
    <3> HIDE DEF F
    <3>3. WaiterOK'
      BY <3>1, <3>2
    <3>4. StreamOK' /\ RowsOK'
      BY <2>1, <2>8 DEF Reset
    <3>5. QED
      BY <2>2, <3>3, <3>4
  <2>9. ASSUME NEW s \in Streams, NEW t \in Tickets, Resolve(s, t)
        PROVE  TypeOK'
    <3>1. RowsOK'
      BY <2>1, <2>9 DEF Resolve, Spend, TicketStates
    <3>2. Home[ticket[t].key] \in Envs /\ published[Home[ticket[t].key]] \in 0..MaxEvents
      BY <2>1
    <3>3. StreamOK'
      <4> DEFINE e == Home[ticket[t].key]
      <4>1. stream' = [stream EXCEPT ![s] = [stream[s] EXCEPT !.at = "resolved", !.ticket = t,
                                                        !.env = e, !.last = published[e]]]
        BY <2>1, <2>9 DEF Resolve
      <4>2. "resolved" \in Places
        BY DEF Places
      <4> HIDE DEF e
      <4>3. [stream[s] EXCEPT !.at = "resolved", !.ticket = t, !.env = e,
                              !.last = published[e]] \in StreamType
        BY <2>3, <3>2, <4>2, StreamResolved DEF e
      <4>4. QED
        BY <2>1, <2>9, <4>1, <4>3, OneStreamTyped DEF Resolve
    <3>4. WaiterOK'
      BY <2>1, <2>9 DEF Resolve
    <3>5. QED
      BY <2>2, <3>1, <3>3, <3>4
  <2>10. ASSUME NEW s \in Streams, Advance(s) PROVE WaiterOK'
    BY <2>1, <2>3, <2>10, AdvancedType, OneWaiterTyped DEF Advance
  <2>11. ASSUME NEW s \in Streams, Finish(s) PROVE WaiterOK' /\ StreamOK'
    <3>1. WaiterOK'
      BY <2>1, <2>11, FreeType, OneWaiterTyped DEF Finish
    <3>2. StreamOK'
      BY <2>1, <2>3, <2>11, OneStreamTyped, StreamOver DEF Finish
    <3>3. QED
      BY <3>1, <3>2
  <2>12. ASSUME NEW s \in Streams, NEW from, NEW to \in Places, Moves(s, from, to)
         PROVE  stream' \in [Streams -> StreamType]
    BY <2>1, <2>12 DEF Moves, StreamType
  <2>13. ASSUME NEW s \in Streams, Wake(s)
         PROVE  TypeOK'
    <3>1. WaiterOK'
      BY <2>10, <2>13 DEF Wake
    <3>2. StreamOK' /\ RowsOK'
      BY <2>1, <2>13 DEF Wake, Advance
    <3>3. QED
      BY <2>2, <3>1, <3>2
  <2>14. ASSUME NEW s \in Streams, Body(s)
         PROVE  TypeOK'
    <3>1. RowsOK'
      BY <2>1, <2>14 DEF Body
    <3>2. CASE Finish(s)
      BY <2>2, <2>11, <3>1, <3>2
    <3>3. CASE /\ stream' = [stream EXCEPT ![s].at = "open", ![s].listens = "yes"]
               /\ UNCHANGED <<watching, waiter>>
      <4>1. StreamOK'
        <5>1. stream' = [stream EXCEPT ![s] = [stream[s] EXCEPT !.at = "open", !.listens = "yes"]]
          BY <2>1, <3>3
        <5>2. "open" \in Places
          BY DEF Places
        <5>3. QED
          BY <2>1, <2>3, <3>3, <5>1, <5>2, OneStreamTyped, StreamListens
      <4>2. WaiterOK'
        BY <2>1, <3>3
      <4>3. QED
        BY <2>2, <3>1, <4>1, <4>2
    <3>4. QED
      BY <2>14, <3>2, <3>3 DEF Body
  <2>15. ASSUME NEW s \in Streams, AsksNext(s)
         PROVE  TypeOK'
    <3>1. WaiterOK'
      BY <2>10, <2>15 DEF AsksNext
    <3>2. StreamOK' /\ RowsOK'
      BY <2>1, <2>12, <2>15, "race" \in Places DEF AsksNext, Advance, Places
    <3>3. QED
      BY <2>2, <3>1, <3>2
  <2>16. ASSUME NEW s \in Streams, AsksOn(s) \/ Heartbeat(s)
         PROVE  TypeOK'
    <3>1. WaiterOK'
      BY <2>1, <2>16 DEF AsksOn, Heartbeat
    <3>2. StreamOK' /\ RowsOK'
      BY <2>1, <2>12, <2>16 DEF AsksOn, Heartbeat, Places
    <3>3. QED
      BY <2>2, <3>1, <3>2
  <2>17. ASSUME NEW s \in Streams, Delivers(s)
         PROVE  TypeOK'
    <3>1. [waiter[s] EXCEPT !.reader = "idle", !.held = 0] \in WaiterType
      <4>1. "idle" \in Readers /\ 0 \in 0..MaxEvents
        BY DEF Readers
      <4>2. QED
        BY <2>3, <4>1 DEF WaiterType
    <3>2. WithinCap([waiter[s] EXCEPT !.reader = "idle", !.held = 0])
      BY <2>3 DEF WithinCap, WaiterType
    <3>3. waiter' = [waiter EXCEPT ![s] = [waiter[s] EXCEPT !.reader = "idle", !.held = 0]]
      BY <2>17 DEF Delivers
    <3>4. WaiterOK'
      BY <2>1, <3>1, <3>2, <3>3, OneWaiterTyped
    <3>5. StreamOK' /\ RowsOK'
      <4>1. waiter[s].held \in 0..MaxEvents /\ "sent" \in Places
        BY <2>3 DEF WaiterType, Places
      <4>2. stream' = [stream EXCEPT ![s] = [stream[s] EXCEPT !.at = "sent",
                                                              !.last = waiter[s].held]]
        BY <2>1, <2>17 DEF Delivers
      <4>3. QED
        BY <2>1, <2>3, <2>17, <4>1, <4>2, OneStreamTyped, StreamReads DEF Delivers
    <3>6. QED
      BY <2>2, <3>4, <3>5
  <2>18. ASSUME NEW s \in Streams, Ends(s)
         PROVE  TypeOK'
    <3>1. RowsOK'
      BY <2>1, <2>18 DEF Ends
    <3>2. CASE Finish(s)
      BY <2>2, <2>11, <3>1, <3>2
    <3>3. CASE Moves(s, {"race"}, "told") /\ UNCHANGED <<watching, waiter>>
      <4>1. StreamOK'
        BY <2>1, <2>12, <3>3 DEF Places
      <4>2. WaiterOK'
        BY <2>1, <3>3
      <4>3. QED
        BY <2>2, <3>1, <4>1, <4>2
    <3>4. QED
      BY <2>18, <3>2, <3>3 DEF Ends
  <2>19. ASSUME NEW s \in Streams, Returns(s)
         PROVE  TypeOK'
    <3>1. RowsOK'
      BY <2>1, <2>19 DEF Returns
    <3>2. QED
      BY <2>2, <2>11, <2>19, <3>1 DEF Returns
  <2>20. ASSUME NEW s \in Streams, Abort(s)
         PROVE  TypeOK'
    <3>1. RowsOK' /\ StreamOK'
      BY <2>1, <2>20 DEF Abort, Close, StreamType
    <3>2. WaiterOK'
      <4>1. CASE UNCHANGED waiter
        BY <2>1, <4>1
      <4>2. CASE waiter' = [waiter EXCEPT ![s] = Closed(waiter[s], "closed")]
        <5>1. "closed" \in Reasons \ {"open"}
          BY DEF Reasons
        <5>2. QED
          BY <2>1, <2>3, <4>2, <5>1, ClosedType, OneWaiterTyped
      <4>3. QED
        BY <2>20, <4>1, <4>2 DEF Abort, Close
    <3>3. QED
      BY <2>2, <3>1, <3>2
  <2>21. CASE UNCHANGED vars
    BY <2>21 DEF vars, TypeOK
  <2>22. QED
    BY <2>4, <2>5, <2>6, <2>7, <2>8, <2>9, <2>13, <2>14, <2>15, <2>16, <2>17, <2>18,
       <2>19, <2>20, <2>21 DEF Next
<1>3. QED
  BY <1>1, <1>2, PTL DEF Spec

----------------------------------------------------------------------------
(* A watched stream misses nothing.                                        *)

\* Position by position or by concatenation, the same is said of a stream.
LEMMA FollowsIsGapless ==
    ASSUME TypeOK, NEW s \in Streams, Follows(s)
    PROVE  /\ Len(Waiting(s)) = published[stream[s].env] - stream[s].last
           /\ \A i \in DOMAIN Waiting(s) : Waiting(s)[i] = stream[s].last + i
<1> DEFINE q == waiter[s].pending
           h == waiter[s].held
<1>1. q \in Seq(Nat) /\ h \in Nat /\ stream[s].last \in Nat
  <2>1. waiter[s] \in WaiterType /\ stream[s] \in StreamType
    BY DEF TypeOK
  <2>2. q \in Seq(1..MaxEvents) /\ h \in 0..MaxEvents /\ stream[s].last \in 0..MaxEvents
    BY <2>1 DEF WaiterType, StreamType
  <2>3. q \in Seq(Nat)
    BY <2>2, SeqMonotonic, 1..MaxEvents \subseteq Nat
  <2>4. QED
    BY <2>2, <2>3
<1>2. Len(q) \in Nat /\ DOMAIN q = 1..Len(q)
  BY <1>1, LenProperties
<1>3. CASE waiter[s].reader = "holds"
  <2>1. <<h>> \in Seq(Nat) /\ Len(<<h>>) = 1 /\ <<h>>[1] = h
    BY <1>1
  <2>2. Waiting(s) = <<h>> \o q
    BY <1>3 DEF Waiting
  <2> HIDE DEF q, h
  <2>3. /\ Waiting(s) \in Seq(Nat) /\ Len(Waiting(s)) = 1 + Len(q)
        /\ \A i \in 1..(1 + Len(q)) :
              Waiting(s)[i] = IF i <= 1 THEN <<h>>[i] ELSE q[i - 1]
    BY <1>1, <2>1, <2>2, ConcatProperties
  <2>4. DOMAIN Waiting(s) = 1..(1 + Len(q))
    BY <2>3, LenProperties
  <2>5. /\ Len(q) + 1 = published[stream[s].env] - stream[s].last
        /\ h = stream[s].last + 1
        /\ \A i \in 1..Len(q) : q[i] = stream[s].last + 1 + i
    BY <1>3 DEF Follows, Taken, q, h
  <2>6. ASSUME NEW i \in 1..(1 + Len(q))
        PROVE  Waiting(s)[i] = stream[s].last + i
    <3>1. CASE i = 1
      BY <2>1, <2>3, <2>5, <3>1
    <3>2. CASE i > 1
      <4>1. i - 1 \in 1..Len(q)
        BY <1>2, <3>2
      <4>2. q[i - 1] = stream[s].last + 1 + (i - 1)
        BY <2>5, <4>1
      <4>3. Waiting(s)[i] = q[i - 1]
        BY <1>2, <2>3, <3>2
      <4>4. QED
        BY <1>1, <1>2, <4>2, <4>3
    <3>3. QED
      BY <1>2, <3>1, <3>2
  <2>7. QED
    BY <1>2, <2>3, <2>4, <2>5, <2>6
<1>4. CASE waiter[s].reader # "holds"
  <2>1. <<>> \o q = q
    BY <1>1, ConcatEmptySeq
  <2>2. Waiting(s) = q
    BY <1>4, <2>1 DEF Waiting
  <2>3. /\ Len(q) = published[stream[s].env] - stream[s].last
        /\ \A i \in 1..Len(q) : q[i] = stream[s].last + i
    BY <1>1, <1>2, <1>4 DEF Follows, Taken
  <2>4. QED
    BY <1>2, <2>2, <2>3
<1>5. QED
  BY <1>3, <1>4

\* A stream follows as before while nothing it depends on changes.
LEMMA FollowsStill ==
    ASSUME NEW s \in Streams, Follows(s), waiter'[s] = waiter[s],
           stream'[s].env = stream[s].env, stream'[s].last = stream[s].last,
           published'[stream[s].env] = published[stream[s].env]
    PROVE  Follows(s)'
BY DEF Follows, Taken

\* The generator moves what is next from the buffer into its hands.
LEMMA FollowsAdvanced ==
    ASSUME TypeOK, NEW s \in Streams, Follows(s), waiter[s].reader # "holds",
           waiter'[s] = Advanced(waiter[s]), waiter'[s].reader # "ended",
           stream'[s].env = stream[s].env, stream'[s].last = stream[s].last,
           published' = published
    PROVE  Follows(s)'
<1> DEFINE w == waiter[s]
           v == waiter'[s]
           last == stream[s].last
<1>1. w \in WaiterType /\ WithinCap(w) /\ last \in Nat
  BY DEF TypeOK, StreamType
<1>2. Len(w.pending) \in Nat
  BY <1>1, LenProperties DEF WaiterType
<1>3. /\ w.closed = "open" /\ stream[s].env \in Envs
      /\ Len(w.pending) = published[stream[s].env] - last
      /\ \A i \in 1..Len(w.pending) : w.pending[i] = last + i
  BY <1>1, <1>2 DEF Follows, Taken
<1>4. /\ v.closed = w.closed
      /\ \/ /\ v.reader = "holds" /\ w.pending # <<>>
            /\ v.held = w.pending[1]
            /\ Len(v.pending) = Len(w.pending) - 1
            /\ \A i \in 1..Len(v.pending) : v.pending[i] = w.pending[i + 1]
         \/ v.reader = "parked" /\ v.pending = w.pending
  BY <1>1, AdvancedType
<1>5. CASE v.reader = "holds"
  <2>1. Len(w.pending) >= 1
    BY <1>1, <1>2, <1>4, <1>5, EmptySeq DEF WaiterType
  <2>2. v.held = last + 1
    BY <1>3, <1>4, <1>5, <2>1, <1>2
  <2>3. \A i \in 1..Len(v.pending) : v.pending[i] = last + 1 + i
    <3>1. ASSUME NEW i \in 1..Len(v.pending) PROVE v.pending[i] = last + 1 + i
      <4>1. i + 1 \in 1..Len(w.pending)
        BY <1>2, <1>4, <1>5
      <4>2. w.pending[i + 1] = last + (i + 1) /\ v.pending[i] = w.pending[i + 1]
        BY <1>3, <1>4, <1>5, <4>1
      <4>3. QED
        BY <1>1, <4>2
    <3>2. QED
      BY <3>1
  <2>4. Len(v.pending) + 1 = published[stream[s].env] - last
    BY <1>2, <1>3, <1>4, <1>5
  <2>5. QED
    BY <1>3, <1>4, <1>5, <2>2, <2>3, <2>4 DEF Follows, Taken
<1>6. CASE v.reader # "holds"
  <2>1. v.pending = w.pending
    BY <1>4, <1>6
  <2>2. \A i \in 1..Len(v.pending) : v.pending[i] = last + 0 + i
    BY <1>1, <1>3, <2>1
  <2>3. Len(v.pending) + 0 = published[stream[s].env] - last
    BY <1>2, <1>3, <2>1
  <2>4. QED
    BY <1>3, <1>4, <1>6, <2>2, <2>3 DEF Follows, Taken
<1>7. QED
  BY <1>5, <1>6

\* An envelope reaches whoever still has room, and drops whoever has not.
LEMMA FollowsPublished ==
    ASSUME TypeOK, NEW e \in Envs, Publish(e), NEW s \in watching, Follows(s), s \in watching'
    PROVE  Follows(s)'
<1> DEFINE w == waiter[s]
           v == waiter'[s]
           last == stream[s].last
           n == published[e] + 1
<1>1. /\ s \in Streams /\ w \in WaiterType /\ WithinCap(w) /\ last \in Nat
      /\ published[e] \in Nat /\ n \in 1..MaxEvents /\ published' = [published EXCEPT ![e] = n]
      /\ stream' = stream
  BY DEF TypeOK, StreamType, Publish
<1>2. CASE stream[s].env # e
  <2>1. s \notin Reached(e)
    BY <1>2 DEF Reached
  <2>2. v = w
    BY <1>1, <2>1 DEF Publish
  <2>3. published'[stream[s].env] = published[stream[s].env]
    BY <1>1, <1>2 DEF TypeOK, Follows
  <2>4. QED
    BY <1>1, <2>2, <2>3, FollowsStill
<1>3. CASE stream[s].env = e
  <2>1. s \in Reached(e) /\ w.closed = "open"
    BY <1>3 DEF Reached, Follows
  <2>2. ~Slow(s) /\ ~(Len(w.pending) >= MaxPending)
    BY <2>1 DEF Publish, Slow
  <2>3. v = Received(w, n)
    BY <1>1, <2>1, <2>2 DEF Publish, Received
  <2>4. /\ v.closed = "open" /\ v.held = w.held
        /\ v.reader = (IF w.reader = "parked" THEN "woken" ELSE w.reader)
        /\ Len(v.pending) = Len(w.pending) + 1
        /\ \A i \in 1..Len(w.pending) : v.pending[i] = w.pending[i]
        /\ v.pending[Len(w.pending) + 1] = n
    <3>1. /\ w \in WaiterType /\ WithinCap(w) /\ w.closed = "open" /\ n \in 1..MaxEvents
          /\ ~(Len(w.pending) >= MaxPending)
      BY <1>1, <2>1, <2>2
    <3> HIDE DEF w, v, n
    <3>2. QED
      BY ONLY <2>3, <3>1, ReceivedType
  <2>5. Len(w.pending) \in Nat
    BY <1>1, LenProperties DEF WaiterType
  <2>6. Taken(s)' = Taken(s) /\ Taken(s) \in {0, 1} /\ (v.reader = "holds" <=> w.reader = "holds")
    BY <2>4 DEF Taken
  <2>7. /\ Len(w.pending) + Taken(s) = published[e] - last
        /\ w.reader = "holds" => w.held = last + 1
        /\ \A i \in 1..Len(w.pending) : w.pending[i] = last + Taken(s) + i
    BY <1>3 DEF Follows
  <2>8. ASSUME NEW i \in 1..Len(v.pending)
        PROVE  v.pending[i] = last + Taken(s) + i
    <3>1. CASE i \in 1..Len(w.pending)
      BY <2>4, <2>7, <3>1
    <3>2. CASE i = Len(w.pending) + 1
      <4>1. v.pending[i] = n
        BY <2>4, <3>2
      <4>2. /\ published[e] \in Nat /\ last \in Nat /\ Taken(s) \in {0, 1}
            /\ Len(w.pending) + Taken(s) = published[e] - last
        BY <1>1, <2>6, <2>7
      <4> HIDE DEF w, v, last
      <4>3. n = last + Taken(s) + i
        BY <2>5, <3>2, <4>2
      <4>4. QED
        BY <4>1, <4>3
    <3>3. QED
      BY <2>4, <2>5, <3>1, <3>2
  <2>9. Len(v.pending) + Taken(s) = n - last
    <3>1. Len(v.pending) = Len(w.pending) + 1
      BY <2>4
    <3> HIDE DEF w, v
    <3>2. QED
      BY <1>1, <2>5, <2>6, <2>7, <3>1
  <2>10. published'[e] = n
    BY <1>1 DEF TypeOK
  <2>11. QED
    BY <1>1, <1>3, <2>4, <2>6, <2>7, <2>8, <2>9, <2>10 DEF Follows
<1>4. QED
  BY <1>2, <1>3

\* Where the generators of one stream stand, for the streams nothing happens to.
LEMMA InStepStill ==
    ASSUME InStep, NEW s \in Streams, waiter'[s] = waiter[s], stream'[s] = stream[s],
           watching' \subseteq watching
    PROVE  /\ stream'[s].at \in {"none", "done"} => waiter'[s] = Free /\ s \notin watching'
           /\ stream'[s].at \in {"resolved", "open", "sent"} => waiter'[s].reader = "idle"
BY DEF InStep

\* A stream that ended is watched no more and holds nothing.
LEMMA Finished ==
    ASSUME TypeOK, NEW s \in Streams, Finish(s)
    PROVE  /\ stream'[s].at = "done" /\ waiter'[s] = Free /\ s \notin watching'
           /\ stream'[s].ticket = stream[s].ticket
           /\ watching' \subseteq watching
           /\ \A r \in Streams \ {s} : waiter'[r] = waiter[r] /\ stream'[r] = stream[r]
BY DEF TypeOK, Finish, Unopened

\* A watched stream misses nothing: what its reader has, what the generator
\* of subscribe holds and what is buffered are every envelope published since
\* it subscribed, in order and once, whatever the cap (publish and subscribe in
\* events/bus.ts under the route's race in api/routes/events.ts).
THEOREM NothingMissed == Spec => []NoGap
<1> DEFINE Inv == InStep /\ AllFollow
<1>1. Init => Inv
  <2>1. ASSUME Init PROVE InStep
    BY <2>1 DEF Init, InStep, Unopened
  <2>2. ASSUME Init PROVE AllFollow
    BY <2>2 DEF Init, AllFollow
  <2>3. QED
    BY <2>1, <2>2
<1>2. TypeOK /\ TypeOK' /\ Inv /\ [Next]_vars => Inv'
  <2> SUFFICES ASSUME TypeOK, TypeOK', InStep, AllFollow, [Next]_vars
               PROVE  InStep' /\ AllFollow'
    OBVIOUS
  <2>1. ASSUME NEW s \in Streams PROVE waiter[s] \in WaiterType /\ WithinCap(waiter[s])
    BY <2>1 DEF TypeOK
  <2>2. watching \subseteq Streams /\ \A s \in watching : s \in Streams /\ Follows(s)
    BY DEF TypeOK, AllFollow
  <2>3. ASSUME NEW s \in Streams, Finish(s), UNCHANGED published
        PROVE  InStep' /\ AllFollow'
    <3>1. InStep'
      BY <2>3, Finished, InStepStill DEF InStep
    <3>2. ASSUME NEW r \in watching' PROVE Follows(r)'
      <4>1. r \in watching /\ r # s
        BY <2>3, Finished
      <4>2. QED
        BY <2>2, <2>3, <4>1, Finished, FollowsStill
    <3>3. QED
      BY <3>1, <3>2 DEF AllFollow
  <2>4. CASE UNCHANGED <<published, watching, waiter, stream>>
    <3>1. InStep'
      BY <2>4 DEF InStep
    <3>2. AllFollow'
      BY <2>2, <2>4, FollowsStill DEF AllFollow
    <3>3. QED
      BY <3>1, <3>2
  <2>5. ASSUME NEW e \in Envs, Publish(e)
        PROVE  InStep' /\ AllFollow'
    <3>1. AllFollow'
      BY <2>2, <2>5, FollowsPublished DEF AllFollow, Publish
    <3>2. ASSUME NEW s \in Streams
          PROVE  /\ stream'[s].at \in {"none", "done"} => waiter'[s] = Free /\ s \notin watching'
                 /\ stream'[s].at \in {"resolved", "open", "sent"} => waiter'[s].reader = "idle"
      <4>1. CASE s \notin Reached(e)
        BY <2>5, <4>1, InStepStill DEF Publish
      <4>2. CASE s \in Reached(e) /\ Slow(s)
        <5>1. "overflow" \in Reasons \ {"open"}
          BY DEF Reasons
        <5>2. waiter'[s] = Closed(waiter[s], "overflow") /\ stream' = stream
          BY <2>5, <4>2 DEF Publish
        <5>3. s \in watching
          BY <4>2 DEF Reached
        <5>4. QED
          BY <2>1, <5>1, <5>2, <5>3, ClosedType DEF InStep
      <4>3. CASE s \in Reached(e) /\ ~Slow(s)
        <5>1. published[e] + 1 \in 1..MaxEvents
          BY <2>5 DEF TypeOK, Publish
        <5>2. /\ waiter'[s] = Woken([waiter[s] EXCEPT !.pending = Append(@, published[e] + 1)])
              /\ stream' = stream
          BY <2>5, <4>3 DEF Publish
        <5>3. s \in watching /\ waiter[s].closed = "open" /\ ~(Len(waiter[s].pending) >= MaxPending)
          BY <4>3 DEF Reached, Slow
        <5>4. waiter'[s].reader = (IF waiter[s].reader = "parked" THEN "woken"
                                   ELSE waiter[s].reader)
          BY <2>1, <5>1, <5>2, <5>3, ReceivedType DEF Received
        <5>5. QED
          BY <5>2, <5>3, <5>4 DEF InStep
      <4>4. QED
        BY <4>1, <4>2, <4>3
    <3>3. QED
      BY <3>1, <3>2 DEF InStep
  <2>6. CASE Reset
    <3>1. AllFollow'
      BY <2>6 DEF Reset, AllFollow
    <3>2. ASSUME NEW s \in Streams
          PROVE  /\ stream'[s].at \in {"none", "done"} => waiter'[s] = Free /\ s \notin watching'
                 /\ stream'[s].at \in {"resolved", "open", "sent"} => waiter'[s].reader = "idle"
      <4>1. CASE s \notin watching
        BY <2>6, <4>1, InStepStill DEF Reset
      <4>2. CASE s \in watching
        <5>1. "closed" \in Reasons \ {"open"}
          BY DEF Reasons
        <5>2. waiter'[s] = Closed(waiter[s], "closed") /\ stream' = stream
          BY <2>6, <4>2 DEF Reset
        <5>3. QED
          BY <2>1, <4>2, <5>1, <5>2, ClosedType DEF InStep
      <4>3. QED
        BY <4>1, <4>2
    <3>3. QED
      BY <3>1, <3>2 DEF InStep
  <2>7. ASSUME NEW s \in Streams, NEW t \in Tickets, Resolve(s, t)
        PROVE  InStep' /\ AllFollow'
    <3> DEFINE env == Home[ticket[t].key]
    <3>1. /\ env \in Envs /\ published[env] \in Nat
          /\ waiter[s] = Free /\ s \notin watching
          /\ waiter' = waiter /\ published' = published /\ watching' = watching \cup {s}
      BY <2>7 DEF TypeOK, Resolve, InStep
    <3>2. /\ stream'[s].at = "resolved" /\ stream'[s].env = env
          /\ stream'[s].last = published[env]
          /\ \A r \in Streams \ {s} : stream'[r] = stream[r]
      BY <2>7 DEF TypeOK, StreamType, Resolve
    <3>3. Follows(s)'
      <4>1. Len(Free.pending) = 0 /\ Free.closed = "open" /\ Free.reader = "idle"
        BY EmptySeq DEF Free
      <4>2. Taken(s)' = 0 /\ Len(waiter'[s].pending) = 0
        BY <3>1, <4>1 DEF Taken
      <4>3. Len(waiter'[s].pending) + Taken(s)' = published'[stream'[s].env] - stream'[s].last
        BY <3>1, <3>2, <4>2
      <4>4. QED
        BY <3>1, <3>2, <4>1, <4>2, <4>3 DEF Follows
    <3>4. AllFollow'
      BY <2>2, <3>1, <3>2, <3>3, FollowsStill DEF AllFollow
    <3>5. InStep'
      BY <3>1, <3>2 DEF InStep, Free
    <3>6. QED
      BY <3>4, <3>5
  <2>8. ASSUME NEW s \in Streams, Advance(s), waiter[s].reader # "holds",
               stream[s].at \notin {"none", "done"}, stream'[s].at = "race",
               stream'[s].env = stream[s].env, stream'[s].last = stream[s].last,
               \A r \in Streams \ {s} : stream'[r] = stream[r], UNCHANGED published
        PROVE  InStep' /\ AllFollow'
    <3>1. /\ waiter'[s] = Advanced(waiter[s])
          /\ \A r \in Streams \ {s} : waiter'[r] = waiter[r]
          /\ watching' \subseteq watching
          /\ s \in watching' => waiter'[s].reader # "ended"
      BY <2>8 DEF TypeOK, Advance
    <3>2. InStep'
      BY <2>8, <3>1, InStepStill DEF InStep
    <3>3. ASSUME NEW r \in watching' PROVE Follows(r)'
      <4>1. CASE r = s
        BY <2>2, <2>8, <3>1, <4>1, FollowsAdvanced
      <4>2. CASE r # s
        BY <2>2, <2>8, <3>1, <4>2, FollowsStill
      <4>3. QED
        BY <4>1, <4>2
    <3>4. QED
      BY <3>2, <3>3 DEF AllFollow
  <2>9. ASSUME NEW s \in Streams, Wake(s)
        PROVE  InStep' /\ AllFollow'
    <3>1. waiter[s].reader = "woken" /\ Advance(s) /\ UNCHANGED <<stream, published>>
      BY <2>9 DEF Wake
    <3>2. stream[s].at \notin {"none", "done", "resolved", "open", "sent"}
      BY <3>1 DEF InStep, Free
    <3>3. /\ waiter'[s] = Advanced(waiter[s])
          /\ \A r \in Streams \ {s} : waiter'[r] = waiter[r]
          /\ watching' \subseteq watching
          /\ s \in watching' => waiter'[s].reader # "ended"
      BY <3>1 DEF TypeOK, Advance
    <3>4. InStep'
      BY <3>1, <3>2, <3>3, InStepStill DEF InStep
    <3>5. ASSUME NEW r \in watching' PROVE Follows(r)'
      <4>1. CASE r = s
        BY <2>2, <3>1, <3>3, <4>1, FollowsAdvanced
      <4>2. CASE r # s
        BY <2>2, <3>1, <3>3, <4>2, FollowsStill
      <4>3. QED
        BY <4>1, <4>2
    <3>6. QED
      BY <3>4, <3>5 DEF AllFollow
  <2>10. ASSUME NEW s \in Streams, Body(s)
         PROVE  InStep' /\ AllFollow'
    <3>1. CASE Finish(s)
      BY <2>3, <2>10, <3>1 DEF Body
    <3>2. CASE /\ stream[s].at = "resolved"
               /\ stream' = [stream EXCEPT ![s].at = "open", ![s].listens = "yes"]
               /\ UNCHANGED <<watching, waiter, published>>
      <4>1. /\ stream'[s].at = "open" /\ stream'[s].env = stream[s].env
            /\ stream'[s].last = stream[s].last
            /\ \A r \in Streams \ {s} : stream'[r] = stream[r]
        BY <3>2 DEF TypeOK, StreamType
      <4>2. InStep'
        BY <3>2, <4>1 DEF InStep
      <4>3. AllFollow'
        BY <2>2, <3>2, <4>1, FollowsStill DEF AllFollow
      <4>4. QED
        BY <4>2, <4>3
    <3>3. QED
      BY <2>10, <3>1, <3>2 DEF Body
  <2>11. ASSUME NEW s \in Streams, NEW from, NEW to, Moves(s, from, to)
         PROVE  /\ stream[s].at \in from /\ stream'[s].at = to
                /\ stream'[s].env = stream[s].env /\ stream'[s].last = stream[s].last
                /\ \A r \in Streams \ {s} : stream'[r] = stream[r]
    BY <2>11 DEF TypeOK, StreamType, Moves
  <2>12. ASSUME NEW s \in Streams, AsksNext(s)
         PROVE  InStep' /\ AllFollow'
    <3>1. Moves(s, {"open", "sent"}, "race") /\ Advance(s) /\ UNCHANGED published
      BY <2>12 DEF AsksNext
    <3>2. stream[s].at \in {"open", "sent"} /\ waiter[s].reader = "idle"
      BY <2>11, <3>1 DEF InStep
    <3>3. QED
      BY <2>8, <2>11, <3>1, <3>2
  <2>13. ASSUME NEW s \in Streams, NEW from, from \cap {"none", "done"} = {},
                NEW to \in {"race", "tick", "told"}, Moves(s, from, to),
                UNCHANGED <<watching, waiter, published>>
         PROVE  InStep' /\ AllFollow'
    <3>1. InStep'
      BY <2>11, <2>13 DEF InStep
    <3>2. AllFollow'
      BY <2>2, <2>11, <2>13, FollowsStill DEF AllFollow
    <3>3. QED
      BY <3>1, <3>2
  <2>14. ASSUME NEW s \in Streams, AsksOn(s) \/ Heartbeat(s)
         PROVE  InStep' /\ AllFollow'
    BY <2>13, <2>14 DEF AsksOn, Heartbeat
  <2>15. ASSUME NEW s \in Streams, Delivers(s)
         PROVE  InStep' /\ AllFollow'
    <3>1. /\ waiter[s].reader = "holds" /\ stream[s].at = "race"
          /\ waiter'[s].reader = "idle" /\ waiter'[s].pending = waiter[s].pending
          /\ waiter'[s].closed = waiter[s].closed
          /\ \A r \in Streams \ {s} : waiter'[r] = waiter[r]
          /\ UNCHANGED <<watching, published>>
      BY <2>15 DEF TypeOK, WaiterType, Delivers
    <3>2. /\ stream'[s].at = "sent" /\ stream'[s].last = waiter[s].held
          /\ stream'[s].env = stream[s].env
          /\ \A r \in Streams \ {s} : stream'[r] = stream[r]
      BY <2>15 DEF TypeOK, StreamType, Delivers
    <3>3. InStep'
      BY <3>1, <3>2 DEF InStep
    <3>4. ASSUME s \in watching PROVE Follows(s)'
      <4> DEFINE q == waiter[s].pending
                 last == stream[s].last
      <4>1. last \in Nat /\ Len(q) \in Nat /\ Follows(s)
        BY <2>1, <2>2, <3>4, LenProperties DEF TypeOK, StreamType, WaiterType
      <4>2. /\ waiter[s].closed = "open" /\ stream[s].env \in Envs
            /\ published[stream[s].env] \in Nat
        BY <4>1 DEF Follows, TypeOK
      <4>3. /\ Len(q) + 1 = published[stream[s].env] - last
            /\ waiter[s].held = last + 1
            /\ \A i \in 1..Len(q) : q[i] = last + 1 + i
        BY <3>1, <4>1 DEF Follows, Taken
      <4>4. Len(q) + 0 = published[stream[s].env] - (last + 1)
        BY <4>1, <4>2, <4>3
      <4>5. \A i \in 1..Len(q) : q[i] = (last + 1) + 0 + i
        BY <4>1, <4>3
      <4>6. Taken(s)' = 0
        BY <3>1 DEF Taken
      <4>7. QED
        BY <3>1, <3>2, <4>2, <4>3, <4>4, <4>5, <4>6 DEF Follows
    <3>5. AllFollow'
      BY <2>2, <3>1, <3>2, <3>4, FollowsStill DEF AllFollow
    <3>6. QED
      BY <3>3, <3>5
  <2>16. ASSUME NEW s \in Streams, Ends(s)
         PROVE  InStep' /\ AllFollow'
    <3>1. CASE Finish(s)
      BY <2>3, <2>16, <3>1 DEF Ends
    <3>2. CASE Moves(s, {"race"}, "told") /\ UNCHANGED <<watching, waiter>>
      BY <2>13, <2>16, <3>2 DEF Ends
    <3>3. QED
      BY <2>16, <3>1, <3>2 DEF Ends
  <2>17. ASSUME NEW s \in Streams, Returns(s)
         PROVE  InStep' /\ AllFollow'
    BY <2>3, <2>17 DEF Returns
  <2>18. ASSUME NEW s \in Streams, Abort(s)
         PROVE  InStep' /\ AllFollow'
    <3>1. /\ stream[s].at \notin {"none", "done"} /\ stream'[s].at = stream[s].at
          /\ stream'[s].env = stream[s].env /\ stream'[s].last = stream[s].last
          /\ \A r \in Streams \ {s} : stream'[r] = stream[r]
          /\ published' = published
      BY <2>18 DEF TypeOK, StreamType, Abort
    <3>2. CASE UNCHANGED <<watching, waiter>>
      <4>1. InStep'
        BY <3>1, <3>2 DEF InStep
      <4>2. AllFollow'
        BY <2>2, <3>1, <3>2, FollowsStill DEF AllFollow
      <4>3. QED
        BY <4>1, <4>2
    <3>3. CASE Close(s)
      <4>1. "closed" \in Reasons \ {"open"}
        BY DEF Reasons
      <4>2. /\ waiter'[s] = Closed(waiter[s], "closed") /\ watching' = watching \ {s}
            /\ \A r \in Streams \ {s} : waiter'[r] = waiter[r]
        BY <3>3 DEF TypeOK, Close
      <4>3. waiter[s].reader = "idle" => waiter'[s].reader = "idle"
        BY <2>1, <4>1, <4>2, ClosedType
      <4>4. InStep'
        BY <3>1, <4>2, <4>3 DEF InStep
      <4>5. AllFollow'
        BY <2>2, <3>1, <4>2, FollowsStill DEF AllFollow
      <4>6. QED
        BY <4>4, <4>5
    <3>4. QED
      BY <2>18, <3>2, <3>3 DEF Abort
  <2>19. QED
    BY <2>4, <2>5, <2>6, <2>7, <2>9, <2>10, <2>12, <2>14, <2>15, <2>16, <2>17, <2>18
       DEF Next, vars, Mint, Insert, TicketExpires, KeyEnds, Sweep
<1>3. TypeOK /\ Inv => NoGap
  <2> SUFFICES ASSUME TypeOK, AllFollow, NEW s \in watching
               PROVE  /\ waiter[s].closed = "open"
                      /\ Len(Waiting(s)) = published[stream[s].env] - stream[s].last
                      /\ \A i \in DOMAIN Waiting(s) : Waiting(s)[i] = stream[s].last + i
    BY DEF NoGap
  <2>1. s \in Streams /\ Follows(s) /\ waiter[s].closed = "open"
    BY DEF TypeOK, AllFollow, Follows
  <2>2. QED
    BY <2>1, FollowsIsGapless
<1>4. QED
  BY <1>1, <1>2, <1>3, LiveTyped, PTL DEF Spec

----------------------------------------------------------------------------
(* Tickets.                                                                *)

\* Rows change their state only, and a spent ticket stays spent.
LEMMA TicketsOnlyEnd ==
    ASSUME TypeOK, [Next]_vars
    PROVE  \A t \in Tickets :
              /\ ticket'[t].key = ticket[t].key
              /\ ticket[t].state = "gone" => ticket'[t].state = "gone"
<1>1. ASSUME NEW u \in Tickets, NEW st \in TicketStates, ticket[u].state # "gone",
             ticket' = [ticket EXCEPT ![u].state = st]
      PROVE  \A t \in Tickets : /\ ticket'[t].key = ticket[t].key
                                /\ ticket[t].state = "gone" => ticket'[t].state = "gone"
  BY <1>1, TicketRow
<1>2. ASSUME NEW t \in Tickets, Mint(t) \/ Insert(t) \/ TicketExpires(t)
      PROVE  \E st \in TicketStates : /\ ticket[t].state # "gone"
                                      /\ ticket' = [ticket EXCEPT ![t].state = st]
  BY <1>2 DEF Mint, Insert, TicketExpires, TicketStates
<1>3. ASSUME NEW s \in Streams, NEW t \in Tickets, Resolve(s, t)
      PROVE  \E st \in TicketStates : /\ ticket[t].state # "gone"
                                      /\ ticket' = [ticket EXCEPT ![t].state = st]
  BY <1>3 DEF Resolve, Spend, TicketStates
<1>4. CASE Sweep
  BY <1>4 DEF Sweep, TypeOK
<1>5. CASE ticket' = ticket
  BY <1>5
<1>6. QED
  BY <1>1, <1>2, <1>3, <1>4, <1>5
     DEF Next, vars, KeyEnds, Publish, Reset, Wake, Body, AsksNext, AsksOn, Heartbeat,
         Delivers, Ends, Returns, Abort

\* What a step does to a stream's ticket and environment: nothing, unless it
\* is opened; a stream that ends keeps its ticket.
LEMMA StreamKeepsTicket ==
    ASSUME TypeOK, [Next]_vars, NEW s \in Streams
    PROVE  \/ \E t \in Tickets : Resolve(s, t)
           \/ /\ stream'[s].ticket = stream[s].ticket
              /\ stream'[s].at = "none" <=> stream[s].at = "none"
              /\ stream'[s].at # "done" => stream'[s].env = stream[s].env
              /\ stream[s].at = "done" => stream'[s].at = "done"
<1> DEFINE Same == /\ stream'[s].ticket = stream[s].ticket
                   /\ stream'[s].at = "none" <=> stream[s].at = "none"
                   /\ stream'[s].at # "done" => stream'[s].env = stream[s].env
                   /\ stream[s].at = "done" => stream'[s].at = "done"
<1>1. CASE stream'[s] = stream[s]
  BY <1>1
<1>2. ASSUME NEW r \in Streams, Finish(r), stream[r].at # "none" PROVE Same
  BY <1>2, Finished
<1>3. ASSUME NEW r \in Streams, NEW from, NEW to, Moves(r, from, to),
             from \cap {"none", "done"} = {}, to \notin {"none", "done"}
      PROVE  Same
  BY <1>3 DEF TypeOK, StreamType, Moves
<1>4. ASSUME NEW r \in Streams, Body(r) PROVE Same
  <2>1. stream[r].at = "resolved" /\ stream[r] \in StreamType
    BY <1>4 DEF Body, TypeOK
  <2>2. CASE Finish(r)
    BY <1>2, <2>1, <2>2
  <2>3. CASE stream' = [stream EXCEPT ![r].at = "open", ![r].listens = "yes"]
    BY <2>1, <2>3 DEF TypeOK, StreamType
  <2>4. QED
    BY <1>4, <2>2, <2>3 DEF Body
<1>5. ASSUME NEW r \in Streams, AsksNext(r) \/ AsksOn(r) \/ Heartbeat(r) PROVE Same
  BY <1>3, <1>5 DEF AsksNext, AsksOn, Heartbeat
<1>6. ASSUME NEW r \in Streams, Delivers(r) PROVE Same
  BY <1>6 DEF TypeOK, StreamType, Delivers
<1>7. ASSUME NEW r \in Streams, Ends(r) PROVE Same
  BY <1>2, <1>3, <1>7 DEF Ends
<1>8. ASSUME NEW r \in Streams, Returns(r) PROVE Same
  BY <1>2, <1>8 DEF Returns
<1>9. ASSUME NEW r \in Streams, Abort(r) PROVE Same
  BY <1>9 DEF TypeOK, StreamType, Abort
<1>10. ASSUME NEW r \in Streams \ {s}, NEW t \in Tickets, Resolve(r, t) PROVE Same
  BY <1>10 DEF TypeOK, Resolve
<1>11. QED
  BY <1>1, <1>4, <1>5, <1>6, <1>7, <1>8, <1>9, <1>10
     DEF Next, vars, Mint, Insert, TicketExpires, KeyEnds, Sweep, Publish, Reset, Wake

\* The ticket a request opens its stream with is there and of a usable key.
LEMMA Opens ==
    ASSUME TypeOK, NEW s \in Streams, NEW t \in Tickets, Resolve(s, t)
    PROVE  /\ stream[s].at = "none" /\ stream'[s].at = "resolved" /\ stream'[s].ticket = t
           /\ stream'[s].env = Home[ticket[t].key]
           /\ ticket[t].state = "fresh" /\ ticket[t].key \in usable
           /\ ticket'[t].state = "gone"
BY DEF TypeOK, StreamType, Resolve, Spend

\* A stream only ever reads the environment of the key its ticket was minted
\* for, and its ticket is spent (mintTicket and spendTicket in
\* stores/stream-ticket-store.ts, resolve in api/routes/events.ts).
THEOREM StreamsAreOpenedByTicket == Spec => []OpenedByTicket
<1>1. Init => OpenedByTicket
  BY DEF Init, OpenedByTicket, Unopened
<1>2. TypeOK /\ OpenedByTicket /\ [Next]_vars => OpenedByTicket'
  <2> SUFFICES ASSUME TypeOK, OpenedByTicket, [Next]_vars, NEW s \in Streams
               PROVE  /\ stream'[s].at = "none" => stream'[s].ticket = "none"
                      /\ stream'[s].at # "none" => /\ stream'[s].ticket \in Tickets
                                                   /\ ticket'[stream'[s].ticket].state = "gone"
                      /\ stream'[s].at \notin {"none", "done"} =>
                            stream'[s].env = Home[ticket'[stream'[s].ticket].key]
    BY DEF OpenedByTicket
  <2>1. CASE \E t \in Tickets : Resolve(s, t)
    BY <2>1, Opens, TicketsOnlyEnd
  <2>2. CASE ~\E t \in Tickets : Resolve(s, t)
    BY <2>2, StreamKeepsTicket, TicketsOnlyEnd DEF OpenedByTicket
  <2>3. QED
    BY <2>1, <2>2
<1>3. QED
  BY <1>1, <1>2, LiveTyped, PTL DEF Spec

\* A ticket opens at most one stream, and only while its key may still act,
\* however the mintings, expiries, sweeps and requests interleave (spendTicket
\* decides in one DELETE).
THEOREM TicketSpentOnce == Spec => TicketBuysOneStream
<1>1. TypeOK /\ OpenedByTicket /\ [Next]_vars =>
        [\A s \in Streams :
            stream[s].at = "none" /\ stream'[s].at # "none" =>
                /\ ticket[stream'[s].ticket].key \in usable
                /\ \A o \in Streams \ {s} : stream[o].ticket # stream'[s].ticket]_vars
  <2> SUFFICES ASSUME TypeOK, OpenedByTicket, [Next]_vars, NEW s \in Streams,
                      stream[s].at = "none", stream'[s].at # "none"
               PROVE  /\ ticket[stream'[s].ticket].key \in usable
                      /\ \A o \in Streams \ {s} : stream[o].ticket # stream'[s].ticket
    OBVIOUS
  <2>1. PICK t \in Tickets : Resolve(s, t)
    BY StreamKeepsTicket
  <2>2. /\ stream'[s].ticket = t /\ ticket[t].key \in usable /\ ticket[t].state = "fresh"
    BY <2>1, Opens
  <2>3. ASSUME NEW o \in Streams PROVE stream[o].ticket # t
    <3>1. CASE stream[o].at = "none"
      BY <3>1 DEF OpenedByTicket
    <3>2. CASE stream[o].at # "none"
      BY <2>2, <3>2 DEF OpenedByTicket
    <3>3. QED
      BY <3>1, <3>2
  <2>4. QED
    BY <2>2, <2>3
<1>2. QED
  BY <1>1, LiveTyped, StreamsAreOpenedByTicket, PTL DEF Spec, TicketBuysOneStream
=============================================================================
