--------------------------- MODULE SessionsProofs ---------------------------
(***************************************************************************)
(* What holds of Sessions for any callers, calls, sockets, queue length,   *)
(* upsets and status codes, and that the adapter implements EngineSlot.    *)
(* That an outage ends is liveness, and stays with TLC.                    *)
(***************************************************************************)
EXTENDS Sessions, FiniteSetTheorems, SequenceTheorems, TLAPS

USE SessionsAssumption

\* NextTimer chooses among as many numbers as it takes to have a free one.
Typed == TypeOK /\ IsFiniteSet(timers)

----------------------------------------------------------------------------
(* What the functions share, operator by operator.                         *)

\* A timer's handle is none of those pending: there are more numbers to
\* choose from than timers.
LEMMA NextTimerFree ==
    ASSUME IsFiniteSet(timers)
    PROVE  NextTimer \in Nat \ {0} /\ \A t \in timers : t.id # NextTimer
<1> DEFINE c == Cardinality(timers)
           S == 1..(c + 1)
<1>1. c \in Nat
  BY FS_CardinalityType
<1>2. IsFiniteSet(S) /\ Cardinality(S) = c + 1
  BY <1>1, FS_Interval
<1>3. \E n \in S : \A t \in timers : t.id # n
  <2> SUFFICES ASSUME \A n \in S : \E t \in timers : t.id = n
               PROVE  FALSE
    OBVIOUS
  <2> DEFINE f == [n \in S |-> CHOOSE t \in timers : t.id = n]
  <2>1. \A n \in S : f[n] \in timers /\ f[n].id = n
    OBVIOUS
  <2>2. f \in [S -> timers]
    BY <2>1
  <2> HIDE DEF f, S
  <2>3. c < Cardinality(S)
    BY <1>1, <1>2
  <2>4. \E x, y \in S : x # y /\ f[x] = f[y]
    BY <1>2, <2>2, <2>3, FS_PigeonHole
  <2>5. QED
    BY <2>1, <2>4
<1>4. NextTimer \in S /\ \A t \in timers : t.id # NextTimer
  BY <1>3 DEF NextTimer
<1>5. QED
  BY <1>1, <1>4

LEMMA NoSocketIsNone == NoSocket \notin SocketIds
BY DEF NoSocket, SocketIds

LEMMA NoSessionType == NoSession \in SessionType
BY DEF NoSession, SessionType, Intents

LEMMA UnusedType == Unused \in SocketType
<1>1. <<>> \in Seq(Events) /\ "nobody" \in Owners /\ "none" \in Intents
  BY EmptySeq DEF Owners, Intents
<1>2. QED
  BY <1>1 DEF Unused, SocketType

LEMMA ProvisionedType ==
    ASSUME TypeOK
    PROVE  /\ Provisioned \in SessionType /\ Provisioned.gen # 0
           /\ Provision => generations' \in Nat
<1>1. [NoSession EXCEPT !.gen = generations + 1] \in SessionType
  BY NoSessionType DEF TypeOK, SessionType
<1>2. [NoSession EXCEPT !.gen = generations + 1].gen = generations + 1
  BY DEF NoSession
<1>3. QED
  BY <1>1, <1>2 DEF TypeOK, Provisioned, Provision

\* Session records are changed a few fields at a time.
LEMMA LostType ==
    ASSUME NEW s \in SessionType
    PROVE  /\ Lost(s) \in SessionType /\ Lost(s).handle = NoSocket /\ Lost(s).link = "down"
           /\ Lost(s).gen = s.gen /\ Lost(s).stopping = s.stopping
           /\ Lost(s).timer = s.timer /\ Lost(s).failures = s.failures
BY DEF SessionType, Lost, Intents

LEMMA OwedType ==
    ASSUME NEW s \in SessionType, NEW o \in {"yes", "no"}
    PROVE  [s EXCEPT !.owed = o] \in SessionType
BY DEF SessionType

LEMMA ClearedType ==
    ASSUME NEW s \in SessionType
    PROVE  ClearReconnect(s) \in SessionType
BY DEF SessionType, ClearReconnect

LEMMA EndedType ==
    ASSUME NEW s \in SessionType
    PROVE  [s EXCEPT !.stopping = "yes", !.owed = "no"] \in SessionType
BY DEF SessionType

LEMMA DroppedType ==
    ASSUME NEW s \in SessionType
    PROVE  [s EXCEPT !.handle = NoSocket, !.intent = "none", !.link = "down"] \in SessionType
BY DEF SessionType, Intents

LEMMA LetGoType ==
    ASSUME NEW s \in SessionType
    PROVE  [s EXCEPT !.handle = NoSocket, !.intent = "none", !.link = "down",
                     !.stopping = "no", !.lastQr = NoSocket, !.owed = "no"] \in SessionType
BY DEF SessionType, Intents

LEMMA HeldType ==
    ASSUME NEW s \in SessionType, NEW h \in SocketIds, NEW i \in Intents
    PROVE  [s EXCEPT !.handle = h, !.intent = i] \in SessionType
BY DEF SessionType

LEMMA RetriedType ==
    ASSUME NEW s \in SessionType, NEW n \in Nat
    PROVE  [Lost(s) EXCEPT !.failures = @ + 1, !.timer = n, !.owed = "yes"] \in SessionType
<1> DEFINE l == Lost(s)
<1>1. l \in SessionType /\ l.failures + 1 \in Nat
  BY LostType DEF SessionType
<1> HIDE DEF l
<1>2. [l EXCEPT !.failures = l.failures + 1, !.timer = n, !.owed = "yes"] \in SessionType
  BY <1>1 DEF SessionType
<1>3. QED
  BY <1>2 DEF l

LEMMA UpType ==
    ASSUME NEW s \in SessionType
    PROVE  [s EXCEPT !.link = "up", !.failures = 0, !.outage = "no", !.owed = "no"]
              \in SessionType
BY DEF SessionType

LEMMA QrType ==
    ASSUME NEW s \in SessionType, NEW h \in SocketIds
    PROVE  [s EXCEPT !.lastQr = h] \in SessionType
BY DEF SessionType

\* One socket set, the sockets stay typed.
LEMMA OneSocketTyped ==
    ASSUME TypeOK, NEW h \in SocketIds, NEW r \in SocketType, socket' = [socket EXCEPT ![h] = r]
    PROVE  socket' \in [SocketIds -> SocketType]
BY DEF TypeOK

LEMMA ClosedType ==
    ASSUME NEW r \in SocketType
    PROVE  [r EXCEPT !.state = "closed"] \in SocketType
BY DEF SocketType

\* close() closes an open socket and touches no other.
LEMMA CloseTyped ==
    ASSUME TypeOK, NEW h
    PROVE  /\ Close(h) \in [SocketIds -> SocketType]
           /\ \A s \in SocketIds : /\ Close(h)[s].state = "opening" <=> socket[s].state = "opening"
                                   /\ Close(h)[s].by = socket[s].by
                                   /\ Close(h)[s].gen = socket[s].gen
                                   /\ Close(h)[s].pump = socket[s].pump
<1>1. ASSUME NEW s \in SocketIds
      PROVE  /\ socket[s] \in SocketType
             /\ [socket[s] EXCEPT !.state = "closed"] \in SocketType
  <2>1. socket[s] \in SocketType
    BY DEF TypeOK
  <2>2. QED
    BY <2>1, ClosedType
<1>2. \A s \in SocketIds :
        Close(h)[s] = IF s = h /\ socket[s].state = "open"
                      THEN [socket[s] EXCEPT !.state = "closed"] ELSE socket[s]
  BY DEF Close
<1>3. Close(h) \in [SocketIds -> SocketType]
  BY <1>1 DEF Close
<1>4. QED
  BY <1>1, <1>2, <1>3 DEF SocketType

\* connect takes a socket nobody looks at.
LEMMA DialTyped ==
    ASSUME TypeOK, NEW s \in SessionType, NEW who \in Owners, NEW intent \in Intents,
           Dial(s, who, intent)
    PROVE  /\ socket' \in [SocketIds -> SocketType]
           /\ \E h \in Free : /\ h \in SocketIds
                              /\ socket'[h] = [Unused EXCEPT !.state = "opening",
                                         !.intent = intent, !.gen = s.gen, !.by = who]
                              /\ \A g \in SocketIds \ {h} : socket'[g] = socket[g]
<1>1. PICK h \in Free :
        socket' = [socket EXCEPT ![h] = [Unused EXCEPT !.state = "opening", !.intent = intent,
                                                       !.gen = s.gen, !.by = who]]
  BY DEF Dial
<1>2. h \in SocketIds
  BY DEF Free
<1> DEFINE r == [Unused EXCEPT !.state = "opening", !.intent = intent, !.gen = s.gen, !.by = who]
<1>3. r \in SocketType
  BY UnusedType DEF SocketType, SessionType
<1> HIDE DEF r
<1>4. socket' = [socket EXCEPT ![h] = r]
  BY <1>1 DEF r
<1>5. socket' \in [SocketIds -> SocketType] /\ socket'[h] = r
      /\ \A g \in SocketIds \ {h} : socket'[g] = socket[g]
  BY <1>2, <1>3, <1>4, OneSocketTyped DEF TypeOK
<1>6. QED
  BY <1>2, <1>5 DEF r

LEMMA CallerRow ==
    ASSUME TypeOK, NEW c \in Callers, NEW r \in CallerType, caller' = [caller EXCEPT ![c] = r]
    PROVE  caller' \in [Callers -> CallerType]
BY DEF TypeOK

LEMMA IdleType ==
    /\ Idle \in CallerType
    /\ \A p \in {"waiting", "asking"} : [Idle EXCEPT !.pc = p] \in CallerType
BY DEF Idle, CallerType

LEMMA ObtainsTyped ==
    ASSUME TypeOK, NEW c \in Callers, NEW m, NEW s, Obtains(c, m, s)
    PROVE  /\ caller' \in [Callers -> CallerType] /\ caller'[c].pc # "dropping"
           /\ \A d \in Callers \ {c} : caller'[d] = caller[d]
<1>1. \E r \in CallerType : r.pc # "dropping" /\ caller' = [caller EXCEPT ![c] = r]
  BY IdleType DEF Obtains, Idle
<1>2. QED
  BY <1>1, CallerRow DEF TypeOK

LEMMA SocketForTyped ==
    ASSUME TypeOK, NEW c \in Callers, NEW m \in Methods \cup {"none"}, NEW s \in SessionType,
           SocketFor(c, m, s)
    PROVE  /\ socket' \in [SocketIds -> SocketType]
           /\ caller' \in [Callers -> CallerType] /\ caller'[c].pc # "dropping"
           /\ \A d \in Callers \ {c} : caller'[d] = caller[d]
<1>1. CASE /\ Dial(s, c, m)
           /\ caller' = [caller EXCEPT ![c] = [pc |-> "opening", method |-> m, gen |-> s.gen]]
  <2>1. c \in Owners /\ m \in Intents
    BY DEF Owners, Intents
  <2>2. [pc |-> "opening", method |-> m, gen |-> s.gen] \in CallerType
    BY DEF CallerType, SessionType
  <2>3. QED
    BY <1>1, <2>1, <2>2, DialTyped, CallerRow DEF TypeOK
<1>2. CASE Obtains(c, m, s) /\ UNCHANGED socket
  BY <1>2, ObtainsTyped DEF TypeOK
<1>3. QED
  BY <1>1, <1>2 DEF SocketFor

\* An event is queued on a socket that exists, and at most ends it.
LEMMA ClassifiedKind == \A code : Classify(code) \in Kinds
BY DEF Classify, Kinds

LEMMA QueuedTyped ==
    ASSUME TypeOK, NEW h \in SocketIds, NEW e \in Events, Queued(h, e)
    PROVE  /\ socket' \in [SocketIds -> SocketType]
           /\ socket'[h].state \in {socket[h].state, "closed"}
           /\ socket'[h].pump = socket[h].pump
           /\ socket'[h].gen = socket[h].gen /\ socket'[h].by = socket[h].by
           /\ \A g \in SocketIds \ {h} : socket'[g] = socket[g]
<1> DEFINE q == Append(socket[h].queue, e)
           p == IF e = "connected" THEN "linked"
                ELSE IF e \in Kinds THEN "over" ELSE socket[h].phase
           st == IF e \in Kinds THEN "closed" ELSE socket[h].state
           r == [socket[h] EXCEPT !.queue = q, !.phase = p, !.state = st]
<1>1. socket[h] \in SocketType
  BY DEF TypeOK
<1>2. q \in Seq(Events)
  BY <1>1, AppendProperties DEF SocketType
<1>3. p \in {"handshake", "linked", "over"} /\ st \in {"unused", "opening", "open", "closed"}
  BY <1>1 DEF SocketType
<1>4. socket' = [socket EXCEPT ![h] = r]
  BY DEF Queued, TypeOK
<1> HIDE DEF q, p
<1>5. r \in SocketType /\ r.state = st /\ r.pump = socket[h].pump
      /\ r.gen = socket[h].gen /\ r.by = socket[h].by
  BY <1>1, <1>2, <1>3 DEF SocketType
<1> HIDE DEF r
<1>6. QED
  BY <1>4, <1>5, OneSocketTyped DEF TypeOK

\* What the policy for a lost socket writes.
LEMMA RetryTyped ==
    ASSUME Typed, NEW s \in SessionType, Retry(s)
    PROVE  /\ session' \in SessionType /\ session'.gen = s.gen
           /\ session'.handle = NoSocket /\ session'.link = "down"
           /\ session'.owed = "yes" /\ session'.stopping = s.stopping
           /\ timers' \subseteq TimerType /\ IsFiniteSet(timers') /\ timers' # {}
           /\ told' \in Reports
<1> DEFINE intent == IF s.intent = "none" THEN "resume" ELSE s.intent
           n == NextTimer
           t == [id |-> n, intent |-> intent, gen |-> s.gen]
<1>1. n \in Nat \ {0}
  BY NextTimerFree DEF Typed
<1>2. intent \in Intents \ {"none"} /\ s.gen \in Nat
  BY DEF SessionType, Intents
<1>3. /\ session' = [Lost(s) EXCEPT !.failures = @ + 1, !.timer = n, !.owed = "yes"]
      /\ timers' = timers \cup {t}
      /\ told' \in Reports
  BY DEF Retry, Reports
<1> HIDE DEF intent, n
<1>4. t \in TimerType
  BY <1>1, <1>2 DEF TimerType
<1> HIDE DEF t
<1>5. timers' \subseteq TimerType /\ IsFiniteSet(timers') /\ timers' # {}
  BY <1>3, <1>4, FS_AddElement DEF Typed, TypeOK
<1>6. session' \in SessionType
  BY <1>1, <1>3, RetriedType
<1> DEFINE l == Lost(s)
<1>7. l \in SessionType /\ l.handle = NoSocket /\ l.link = "down" /\ l.gen = s.gen
      /\ l.stopping = s.stopping
  BY LostType
<1>8. session' = [l EXCEPT !.failures = l.failures + 1, !.timer = n, !.owed = "yes"]
  BY <1>3
<1> HIDE DEF l
<1>9. session'.gen = l.gen /\ session'.handle = l.handle /\ session'.link = l.link
      /\ session'.owed = "yes" /\ session'.stopping = l.stopping
  BY <1>7, <1>8 DEF SessionType
<1>10. QED
  BY <1>3, <1>5, <1>6, <1>7, <1>9

LEMMA PolicyTyped ==
    ASSUME Typed, NEW s \in SessionType, NEW kind, OnDisconnected(s, kind)
    PROVE  /\ session' \in SessionType /\ session'.gen = s.gen
           /\ session'.handle = NoSocket /\ session'.link = "down"
           /\ session'.stopping = s.stopping
           /\ session'.owed = "yes" => timers' # {}
           /\ timers' \subseteq TimerType /\ IsFiniteSet(timers')
           /\ told' \in Reports
<1>1. CASE Retry(s)
  BY <1>1, RetryTyped
<1>2. CASE /\ session' = [Lost(s) EXCEPT !.owed = "no"] /\ UNCHANGED timers
           /\ told' \in Reports
  <2> DEFINE l == Lost(s)
  <2>1. l \in SessionType /\ l.handle = NoSocket /\ l.link = "down" /\ l.gen = s.gen
        /\ l.stopping = s.stopping
    BY LostType
  <2> HIDE DEF l
  <2>2. session' = [l EXCEPT !.owed = "no"]
    BY <1>2 DEF l
  <2>3. /\ session' \in SessionType /\ session'.gen = l.gen /\ session'.handle = l.handle
        /\ session'.link = l.link /\ session'.owed = "no" /\ session'.stopping = l.stopping
    BY <2>1, <2>2 DEF SessionType
  <2>4. QED
    BY <1>2, <2>1, <2>3 DEF Typed, TypeOK
<1>3. QED
  BY <1>1, <1>2 DEF OnDisconnected, Reports

-----------------------------------------------------------------------------
(* Every variable keeps its type, and only finitely many timers wait.      *)

\* Cancelling a timer leaves some of those there were.
LEMMA WithoutTimerTyped ==
    ASSUME Typed, NEW s
    PROVE  WithoutTimer(s) \subseteq timers /\ WithoutTimer(s) \subseteq TimerType
           /\ IsFiniteSet(WithoutTimer(s))
BY FS_Subset DEF WithoutTimer, Typed, TypeOK

LEMMA StartPairingTyped ==
    ASSUME Typed, NEW c \in Callers, NEW m \in Methods, StartPairing(c, m)
    PROVE  Typed'
<1> DEFINE s == Provisioned
<1>1. s \in SessionType /\ generations' \in Nat
  BY ProvisionedType DEF Typed, StartPairing
<1> HIDE DEF s
<1>2. /\ ending' = ending /\ shutdown' = shutdown /\ told' = told /\ upsets' = upsets
      /\ calls' = calls + 1
  BY DEF StartPairing
<1>3. /\ session' \in SessionType /\ timers' \subseteq TimerType /\ IsFiniteSet(timers')
      /\ socket' \in [SocketIds -> SocketType] /\ caller' \in [Callers -> CallerType]
  <2>1. CASE /\ session' = [ClearReconnect(s) EXCEPT !.owed = "no"]
             /\ timers' = WithoutTimer(s)
             /\ socket' = Close(s.handle)
             /\ caller' = [caller EXCEPT ![c] = [pc |-> "dropping", method |-> m, gen |-> s.gen]]
    <3>1. session' \in SessionType
      BY <1>1, <2>1, ClearedType, OwedType
    <3>2. timers' \subseteq TimerType /\ IsFiniteSet(timers')
      BY <2>1, WithoutTimerTyped
    <3>3. socket' \in [SocketIds -> SocketType]
      BY <2>1, CloseTyped DEF Typed
    <3>4. [pc |-> "dropping", method |-> m, gen |-> s.gen] \in CallerType
      BY <1>1 DEF CallerType, SessionType
    <3>5. caller' \in [Callers -> CallerType]
      BY <2>1, <3>4, CallerRow DEF Typed
    <3>6. QED
      BY <3>1, <3>2, <3>3, <3>5
  <2>2. CASE session' = s /\ SocketFor(c, m, s) /\ UNCHANGED timers
    BY <1>1, <2>2, SocketForTyped DEF Typed, TypeOK
  <2>3. QED
    BY <2>1, <2>2 DEF StartPairing, s
<1>4. QED
  BY <1>1, <1>2, <1>3 DEF Typed, TypeOK

LEMMA DroppedTyped ==
    ASSUME Typed, NEW c \in Callers, Dropped(c)
    PROVE  Typed'
<1> DEFINE s == IF session.gen # caller[c].gen THEN session
                ELSE [session EXCEPT !.handle = NoSocket, !.intent = "none", !.link = "down"]
           m == caller[c].method
<1>1. s \in SessionType
  BY DroppedType DEF Typed, TypeOK
<1> HIDE DEF s
<1>2. m \in Methods \cup {"none"}
  BY DEF Typed, TypeOK, CallerType
<1>3. /\ socket' \in [SocketIds -> SocketType] /\ caller' \in [Callers -> CallerType]
  BY <1>1, <1>2, SocketForTyped DEF Typed, Dropped, s
<1>4. QED
  BY <1>1, <1>3 DEF Typed, TypeOK, Dropped, s

LEMMA OpenedTyped ==
    ASSUME Typed, NEW h \in SocketIds, Opened(h)
    PROVE  Typed'
<1> DEFINE r == [Unused EXCEPT !.state = "open", !.pump = "on"]
<1>1. r \in SocketType
  BY UnusedType DEF SocketType
<1>2. socket[h] \in SocketType /\ session \in SessionType
  BY DEF Typed, TypeOK
<1>3. socket[h].intent \in Intents
  BY <1>2 DEF SocketType
<1>4. socket' \in [SocketIds -> SocketType]
  BY <1>1, OneSocketTyped DEF Opened, Typed
<1>5. session' \in SessionType
  BY <1>2, <1>3, HeldType DEF Opened
<1>6. caller' \in [Callers -> CallerType]
  <2>1. PICK s : \/ socket[h].by \in Callers /\ Obtains(socket[h].by, caller[socket[h].by].method, s)
                 \/ UNCHANGED caller
    BY DEF Opened
  <2>2. QED
    BY <2>1, ObtainsTyped DEF Typed, TypeOK
<1>7. QED
  BY <1>4, <1>5, <1>6 DEF Opened, Typed, TypeOK

LEMMA RequestEndsTyped ==
    ASSUME Typed, NEW c \in Callers, QrArrives(c) \/ QrTimesOut(c) \/ CodeAnswered(c)
    PROVE  Typed'
<1>1. caller' = [caller EXCEPT ![c] = Idle]
      /\ UNCHANGED <<session, generations, socket, timers, ending, shutdown, told, upsets, calls>>
  BY DEF QrArrives, QrTimesOut, CodeAnswered
<1>2. caller' \in [Callers -> CallerType]
  BY <1>1, IdleType, CallerRow DEF Typed
<1>3. QED
  BY <1>1, <1>2 DEF Typed, TypeOK

LEMMA UpstreamTyped ==
    ASSUME Typed, NEW h \in SocketIds, Handshake(h) \/ SocketCloses(h) \/ EndReported(h)
    PROVE  Typed'
<1>1. PICK e \in Events : Queued(h, e)
  BY ClassifiedKind DEF Handshake, SocketCloses, EndReported, Events, Kinds
<1>2. socket' \in [SocketIds -> SocketType]
  BY <1>1, QueuedTyped DEF Typed
<1>3. UNCHANGED <<session, generations, timers, caller, ending, shutdown, told, calls>>
      /\ upsets' \in Nat
  BY DEF Handshake, SocketCloses, EndReported, Typed, TypeOK
<1>4. QED
  BY <1>2, <1>3 DEF Typed, TypeOK

\* What a pump takes from a queue leaves a queue of events.
LEMMA TailType ==
    ASSUME NEW r \in SocketType, r.queue # <<>>
    PROVE  [r EXCEPT !.queue = Tail(@)] \in SocketType /\ Head(r.queue) \in Events
<1>1. r.queue \in Seq(Events)
  BY DEF SocketType
<1>2. Tail(r.queue) \in Seq(Events) /\ Head(r.queue) \in Events
  BY <1>1, HeadTailProperties
<1>3. QED
  BY <1>2 DEF SocketType

LEMMA PumpHandlesTyped ==
    ASSUME Typed, NEW h \in SocketIds, PumpHandles(h)
    PROVE  Typed'
<1>1. socket[h] \in SocketType /\ session \in SessionType
  BY DEF Typed, TypeOK
<1>2. [socket[h] EXCEPT !.queue = Tail(@)] \in SocketType
  BY <1>1, TailType DEF PumpHandles
<1>3. socket' \in [SocketIds -> SocketType]
  <2>1. socket' = [socket EXCEPT ![h] = [socket[h] EXCEPT !.queue = Tail(@)]]
    BY DEF PumpHandles, Typed, TypeOK
  <2>2. QED
    BY <1>2, <2>1, OneSocketTyped DEF Typed
<1>4. session' \in SessionType /\ timers' \subseteq TimerType /\ IsFiniteSet(timers')
      /\ told' \in Reports
  <2> DEFINE e == Head(socket[h].queue)
  <2>1. CASE OnDisconnected(session, e)
    BY <1>1, <2>1, PolicyTyped
  <2>2. CASE OnConnected(session)
    BY <1>1, <2>2, UpType DEF OnConnected, Typed, TypeOK, Reports
  <2>3. CASE session' = [session EXCEPT !.lastQr = h] /\ UNCHANGED <<timers, told>>
    BY <1>1, <2>3, QrType DEF Typed, TypeOK
  <2>4. QED
    BY <2>1, <2>2, <2>3 DEF PumpHandles
<1>5. QED
  BY <1>3, <1>4 DEF Typed, TypeOK, PumpHandles

LEMMA PumpReturnsTyped ==
    ASSUME Typed, NEW h \in SocketIds, PumpReturns(h)
    PROVE  Typed'
<1> DEFINE r == IF socket[h].state = "closed" THEN Unused
                ELSE [Unused EXCEPT !.state = "open", !.pump = "done"]
<1>1. r \in SocketType
  BY UnusedType DEF SocketType
<1>2. socket' = [socket EXCEPT ![h] = r]
  BY DEF PumpReturns, Typed, TypeOK
<1> HIDE DEF r
<1>3. socket' \in [SocketIds -> SocketType]
  BY <1>1, <1>2, OneSocketTyped DEF Typed
<1>4. QED
  BY <1>3 DEF Typed, TypeOK, PumpReturns

LEMMA TimerFiresTyped ==
    ASSUME Typed, NEW t \in timers, TimerFires(t)
    PROVE  Typed'
<1>1. t \in TimerType /\ session \in SessionType
  BY DEF Typed, TypeOK
<1>2. t.intent \in Intents /\ "timer" \in Owners
  BY <1>1 DEF TimerType, Owners
<1>3. session' \in SessionType
  BY <1>1 DEF TimerFires, SessionType
<1>4. socket' \in [SocketIds -> SocketType]
  BY <1>2, <1>3, DialTyped DEF TimerFires, Typed, TypeOK
<1>5. timers' \subseteq TimerType /\ IsFiniteSet(timers')
  BY FS_RemoveElement DEF TimerFires, Typed, TypeOK
<1>6. QED
  BY <1>3, <1>4, <1>5 DEF TimerFires, Typed, TypeOK

LEMMA OpenFailsTyped ==
    ASSUME Typed, NEW h \in SocketIds, OpenFails(h)
    PROVE  Typed'
<1>1. socket' \in [SocketIds -> SocketType]
  BY UnusedType, OneSocketTyped DEF OpenFails, Typed
<1>2. session \in SessionType /\ upsets' \in Nat
      /\ UNCHANGED <<generations, ending, shutdown, calls>>
  BY DEF OpenFails, Typed, TypeOK
<1>3. /\ session' \in SessionType /\ timers' \subseteq TimerType /\ IsFiniteSet(timers')
      /\ told' \in Reports /\ caller' \in [Callers -> CallerType]
  <2> DEFINE c == socket[h].by
  <2>1. CASE c \in Callers /\ caller' = [caller EXCEPT ![c] = Idle] /\ UNCHANGED <<session, timers, told>>
    BY <2>1, IdleType, CallerRow DEF Typed, TypeOK
  <2>2. CASE OnDisconnected(session, "transient") /\ UNCHANGED caller
    BY <1>2, <2>2, PolicyTyped DEF Typed, TypeOK
  <2>3. CASE UNCHANGED <<caller, session, timers, told>>
    BY <2>3 DEF Typed, TypeOK
  <2>4. QED
    BY <2>1, <2>2, <2>3 DEF OpenFails
<1>4. QED
  BY <1>1, <1>2, <1>3 DEF Typed, TypeOK

\* A logout and a purge begin alike.
LEMMA EndStartsTyped ==
    ASSUME Typed, NEW what \in {"logout", "purge"}, EndStarts(what)
    PROVE  /\ session' \in SessionType /\ upsets' \in Nat
           /\ timers' \subseteq TimerType /\ IsFiniteSet(timers')
           /\ ending' \in [{"logout", "purge"} -> EndingType]
<1>1. session \in SessionType
  BY DEF Typed, TypeOK
<1>2. session' \in SessionType
  <2>1. ClearReconnect(session) \in SessionType
    BY <1>1, ClearedType
  <2>2. QED
    BY <2>1, EndedType DEF EndStarts
<1>3. timers' \subseteq TimerType /\ IsFiniteSet(timers')
  BY WithoutTimerTyped DEF EndStarts
<1> DEFINE r == [gen |-> session.gen, sock |-> session.handle]
<1>4. r \in EndingType
  BY <1>1 DEF EndingType, SessionType
<1>5. ending' = [ending EXCEPT ![what] = r] /\ upsets' \in Nat
  BY DEF EndStarts, Typed, TypeOK
<1> HIDE DEF r
<1>6. ending' \in [{"logout", "purge"} -> EndingType]
  BY <1>4, <1>5 DEF Typed, TypeOK
<1>7. QED
  BY <1>2, <1>3, <1>5, <1>6

LEMMA NotEndingType == NotEnding \in EndingType
BY DEF NotEnding, EndingType

LEMMA EndsTyped ==
    ASSUME Typed, LogoutStarts \/ LogoutEnds \/ PurgeStarts \/ PurgeEnds
    PROVE  Typed'
<1>1. CASE LogoutStarts
  BY <1>1, EndStartsTyped DEF LogoutStarts, Typed, TypeOK
<1>2. CASE LogoutEnds
  <2>1. session' \in SessionType
    BY <1>2, LetGoType DEF LogoutEnds, Typed, TypeOK
  <2>2. socket' \in [SocketIds -> SocketType]
    BY <1>2, CloseTyped DEF LogoutEnds, Typed, TypeOK
  <2>3. ending' \in [{"logout", "purge"} -> EndingType] /\ told' \in Reports
    BY <1>2, NotEndingType DEF LogoutEnds, Typed, TypeOK, Reports
  <2>4. QED
    BY <1>2, <2>1, <2>2, <2>3 DEF LogoutEnds, Typed, TypeOK
<1>3. CASE PurgeStarts
  <2>1. socket' \in [SocketIds -> SocketType]
    BY <1>3, CloseTyped DEF PurgeStarts, Typed
  <2>2. QED
    BY <1>3, <2>1, EndStartsTyped DEF PurgeStarts, Typed, TypeOK
<1>4. CASE PurgeEnds
  <2>1. ending' \in [{"logout", "purge"} -> EndingType]
    BY <1>4, NotEndingType DEF PurgeEnds, Typed, TypeOK
  <2>2. QED
    BY <1>4, <2>1, NoSessionType DEF PurgeEnds, Typed, TypeOK
<1>5. QED
  BY <1>1, <1>2, <1>3, <1>4

LEMMA AdapterTyped ==
    ASSUME Typed, AdapterCloses \/ AdapterClosed
    PROVE  Typed'
<1>1. CASE AdapterCloses
  <2>1. session \in SessionType
    BY DEF Typed, TypeOK
  <2>2. ClearReconnect(session) \in SessionType
    BY <2>1, ClearedType
  <2>3. session' \in SessionType
    BY <1>1, <2>1, <2>2, EndedType DEF AdapterCloses
  <2>4. socket' \in [SocketIds -> SocketType]
    BY <1>1, CloseTyped DEF AdapterCloses, Typed
  <2>5. timers' \subseteq TimerType /\ IsFiniteSet(timers')
    BY <1>1, WithoutTimerTyped DEF AdapterCloses
  <2>6. QED
    BY <1>1, <2>3, <2>4, <2>5 DEF AdapterCloses, Typed, TypeOK
<1>2. CASE AdapterClosed
  BY <1>2, NoSessionType DEF AdapterClosed, Typed, TypeOK
<1>3. QED
  BY <1>1, <1>2

LEMMA InitTyped == Init => Typed
<1> SUFFICES ASSUME Init PROVE Typed
  OBVIOUS
<1>1. session \in SessionType /\ socket \in [SocketIds -> SocketType]
  BY NoSessionType, UnusedType DEF Init
<1>2. caller \in [Callers -> CallerType] /\ ending \in [{"logout", "purge"} -> EndingType]
  BY IdleType, NotEndingType DEF Init
<1>3. timers \subseteq TimerType /\ IsFiniteSet(timers)
  BY FS_EmptySet DEF Init
<1>4. QED
  BY <1>1, <1>2, <1>3 DEF Init, Typed, TypeOK, Reports

LEMMA NextTyped == Typed /\ [Next]_vars => Typed'
<1> SUFFICES ASSUME Typed, [Next]_vars PROVE Typed'
  OBVIOUS
<1>1. CASE UNCHANGED vars
  BY <1>1 DEF vars, Typed, TypeOK
<1>2. CASE \E c \in Callers : \/ \E m \in Methods : StartPairing(c, m)
                              \/ Dropped(c) \/ QrArrives(c) \/ QrTimesOut(c) \/ CodeAnswered(c)
  BY <1>2, StartPairingTyped, DroppedTyped, RequestEndsTyped
<1>3. CASE \E h \in SocketIds : \/ Opened(h) \/ OpenFails(h)
                                \/ Handshake(h) \/ SocketCloses(h) \/ EndReported(h)
                                \/ PumpHandles(h) \/ PumpReturns(h)
  BY <1>3, OpenedTyped, OpenFailsTyped, UpstreamTyped, PumpHandlesTyped, PumpReturnsTyped
<1>4. CASE \E t \in timers : TimerFires(t)
  BY <1>4, TimerFiresTyped
<1>5. CASE LogoutStarts \/ LogoutEnds \/ PurgeStarts \/ PurgeEnds
  BY <1>5, EndsTyped
<1>6. CASE AdapterCloses \/ AdapterClosed
  BY <1>6, AdapterTyped
<1>7. QED
  BY <1>1, <1>2, <1>3, <1>4, <1>5, <1>6 DEF Next

\* Every variable keeps its type, whatever the pumps, timers and requests of the
\* Baileys adapter do in whichever order.
THEOREM SessionsTyped == Spec => []TypeOK
<1>1. Typed => TypeOK
  BY DEF Typed
<1>2. QED
  BY <1>1, InitTyped, NextTyped, PTL DEF Spec

LEMMA AlwaysTyped == Spec => []Typed
BY InitTyped, NextTyped, PTL DEF Spec

-----------------------------------------------------------------------------
(* What send() may rely on.                                                *)

\* The session is the last one provisioned, and no logout or purge is of a later one: a
\* logout that ends while the first session is there is that session's own, and takes the
\* connection down with it.
Generations ==
    /\ session.gen \in {0, generations}
    /\ \A e \in {"logout", "purge"} : ending[e].gen <= generations

Known == Generations /\ SendableIsKnown

\* A step that leaves the session its slot, tells nobody and connects nothing.
LEMMA KnownKept ==
    ASSUME Known, session'.gen = session.gen,
           session'.link = "up" => session.link = "up" /\ session'.handle # NoSocket,
           UNCHANGED <<generations, ending, told>>
    PROVE  Known'
BY DEF Known, Generations, SendableIsKnown

\* Cancelling a reconnect, and marking the session as one somebody ends, leave the rest.
LEMMA ClearedKeeps ==
    ASSUME NEW s \in SessionType
    PROVE  LET r == [ClearReconnect(s) EXCEPT !.owed = "no"]
           IN  /\ r.gen = s.gen /\ r.handle = s.handle /\ r.link = s.link /\ r.owed = "no"
               /\ r.stopping = s.stopping
BY DEF SessionType, ClearReconnect

LEMMA EndedKeeps ==
    ASSUME NEW s \in SessionType
    PROVE  LET r == [ClearReconnect(s) EXCEPT !.stopping = "yes", !.owed = "no"]
           IN  /\ r.gen = s.gen /\ r.handle = s.handle /\ r.link = s.link /\ r.owed = "no"
               /\ r.stopping = "yes"
BY DEF SessionType, ClearReconnect

LEMMA FreshSlot ==
    ASSUME NEW n
    PROVE  LET r == [NoSession EXCEPT !.gen = n]
           IN  r.gen = n /\ r.handle = NoSocket /\ r.link = "down" /\ r.owed = "no"
BY DEF NoSession

\* The policy tells of a session only that it is down.
LEMMA KnownDown ==
    ASSUME Known, session'.gen \in {0, generations'}, session'.link = "down",
           generations' = generations, ending' = ending
    PROVE  Known'
BY DEF Known, Generations, SendableIsKnown

LEMMA StartPairingKnown ==
    ASSUME Typed, Known, NEW c \in Callers, NEW m \in Methods, StartPairing(c, m)
    PROVE  Known'
<1> DEFINE s == Provisioned
<1>1. s \in SessionType /\ s.gen # 0
  BY ProvisionedType DEF Typed
<1>2. session'.gen = s.gen /\ session'.handle = s.handle /\ session'.link = s.link
  <2>1. CASE session' = [ClearReconnect(s) EXCEPT !.owed = "no"]
    BY <1>1, <2>1, ClearedKeeps
  <2>2. CASE session' = s
    BY <2>2
  <2>3. QED
    BY <2>1, <2>2 DEF StartPairing
<1>3. CASE session.gen # 0
  BY <1>2, <1>3, KnownKept DEF StartPairing, Provision, Provisioned, Known, SendableIsKnown
<1>4. CASE session.gen = 0
  <2>1. s = [NoSession EXCEPT !.gen = generations + 1] /\ generations' = generations + 1
    BY <1>4 DEF Provisioned, Provision, StartPairing
  <2>2. session'.gen = generations' /\ session'.link = "down"
    BY <1>2, <2>1, FreshSlot
  <2>3. \A e \in {"logout", "purge"} : ending'[e].gen <= generations'
    BY <2>1 DEF StartPairing, Known, Generations, Typed, TypeOK, EndingType
  <2>4. QED
    BY <2>2, <2>3 DEF Known, Generations, SendableIsKnown
<1>5. QED
  BY <1>3, <1>4

LEMMA DroppedKnown ==
    ASSUME Typed, Known, NEW c \in Callers, Dropped(c)
    PROVE  Known'
<1>1. session'.gen = session.gen
      /\ (session' = session \/ session'.link = "down")
  BY DEF Dropped, Typed, TypeOK, SessionType
<1>2. QED
  BY <1>1, KnownKept DEF Dropped, Known, SendableIsKnown

LEMMA OpenedKnown ==
    ASSUME Typed, Known, NEW h \in SocketIds, Opened(h)
    PROVE  Known'
<1>1. session'.gen = session.gen /\ session'.link = session.link
      /\ session'.handle \in {session.handle, h}
  BY DEF Opened, Typed, TypeOK, SessionType
<1>2. QED
  BY <1>1, KnownKept, NoSocketIsNone DEF Opened, Known, SendableIsKnown

LEMMA PumpHandlesKnown ==
    ASSUME Typed, Known, NEW h \in SocketIds, PumpHandles(h)
    PROVE  Known'
<1>1. session \in SessionType
  BY DEF Typed, TypeOK
<1>2. session.handle = h /\ h # NoSocket /\ generations' = generations /\ ending' = ending
  BY NoSocketIsNone DEF PumpHandles, Live
<1> DEFINE e == Head(socket[h].queue)
<1>3. CASE OnDisconnected(session, e)
  BY <1>1, <1>2, <1>3, PolicyTyped, KnownDown DEF Known, Generations
<1>4. CASE OnConnected(session)
  <2>1. session'.gen = session.gen /\ session'.handle = h
        /\ told' \in {"connected", "recovered"}
    BY <1>1, <1>2, <1>4 DEF OnConnected, SessionType
  <2>2. QED
    BY <1>2, <2>1 DEF Known, Generations, SendableIsKnown
<1>5. CASE session' = [session EXCEPT !.lastQr = h] /\ UNCHANGED <<timers, told>>
  <2>1. session'.gen = session.gen /\ session'.handle = session.handle
        /\ session'.link = session.link
    BY <1>1, <1>5 DEF SessionType
  <2>2. QED
    BY <1>2, <1>5, <2>1, KnownKept
<1>6. QED
  BY <1>3, <1>4, <1>5 DEF PumpHandles

LEMMA OpenFailsKnown ==
    ASSUME Typed, Known, NEW h \in SocketIds, OpenFails(h)
    PROVE  Known'
<1>1. generations' = generations /\ ending' = ending /\ session \in SessionType
  BY DEF OpenFails, Typed, TypeOK
<1>2. CASE UNCHANGED <<session, timers, told>>
  BY <1>1, <1>2, KnownKept DEF Known, SendableIsKnown
<1>3. CASE OnDisconnected(session, "transient")
  BY <1>1, <1>3, PolicyTyped, KnownDown DEF Known, Generations
<1>4. QED
  BY <1>2, <1>3 DEF OpenFails

\* What starts a logout or a purge leaves the session connected, and is of this session.
LEMMA EndStartsKnown ==
    ASSUME Typed, Known, NEW what \in {"logout", "purge"}, EndStarts(what),
           UNCHANGED <<generations, told>>
    PROVE  Known'
<1>1. session'.gen = session.gen /\ session'.handle = session.handle
      /\ session'.link = session.link
  BY EndedKeeps DEF EndStarts, Typed, TypeOK
<1>2. \A e \in {"logout", "purge"} : ending'[e].gen \in {ending[e].gen, session.gen}
  BY DEF EndStarts, Typed, TypeOK
<1>3. session.gen <= generations
  BY DEF Typed, TypeOK, SessionType, Known, Generations
<1>4. QED
  BY <1>1, <1>2, <1>3 DEF Known, Generations, SendableIsKnown

LEMMA LogoutEndsKnown ==
    ASSUME Typed, Known, LogoutEnds
    PROVE  Known'
<1> DEFINE e == ending["logout"]
<1>1. session \in SessionType /\ generations \in Nat /\ e.gen \in Nat
  BY DEF Typed, TypeOK, EndingType
<1>2. \A w \in {"logout", "purge"} : ending'[w].gen \in {0, ending[w].gen}
  BY DEF LogoutEnds, NotEnding, Typed, TypeOK
<1>3. e.gen # 0 /\ e.gen <= generations /\ generations' = generations
  BY DEF LogoutEnds, Known, Generations
<1>4. \A w \in {"logout", "purge"} : ending'[w].gen <= generations'
  BY <1>1, <1>2, <1>3 DEF Known, Generations
<1>5. CASE session.gen = e.gen
  <2>1. session'.gen = session.gen /\ session'.link = "down"
    BY <1>1, <1>5 DEF LogoutEnds, SessionType
  <2>2. QED
    BY <1>3, <1>4, <2>1 DEF Known, Generations, SendableIsKnown
<1>6. CASE session.gen # e.gen
  <2>1. session' = session
    BY <1>6 DEF LogoutEnds
  <2>2. session.gen # 1
    BY <1>1, <1>3, <1>6 DEF Known, Generations
  <2>3. QED
    BY <1>3, <1>4, <2>1, <2>2 DEF Known, Generations, SendableIsKnown
<1>7. QED
  BY <1>5, <1>6

LEMMA GoneKnown ==
    ASSUME Typed, Known, PurgeEnds \/ AdapterClosed
    PROVE  Known'
<1>1. session'.gen = 0 /\ session'.link = "down" /\ generations' = generations
  BY DEF PurgeEnds, AdapterClosed, NoSession
<1>2. \A w \in {"logout", "purge"} : ending'[w].gen \in {0, ending[w].gen}
  BY DEF PurgeEnds, AdapterClosed, NotEnding, Typed, TypeOK
<1>3. QED
  BY <1>1, <1>2 DEF Known, Generations, SendableIsKnown, Typed, TypeOK

LEMMA AdapterClosesKnown ==
    ASSUME Typed, Known, AdapterCloses
    PROVE  Known'
<1>1. session'.gen = session.gen /\ session'.handle = session.handle
      /\ session'.link = session.link
  BY EndedKeeps DEF AdapterCloses, Typed, TypeOK
<1>2. QED
  BY <1>1, KnownKept DEF AdapterCloses, Known, SendableIsKnown

LEMMA TimerFiresKnown ==
    ASSUME Typed, Known, NEW t \in timers, TimerFires(t)
    PROVE  Known'
<1>1. session'.gen = session.gen /\ session'.handle = session.handle
      /\ session'.link = session.link
  BY DEF TimerFires, Typed, TypeOK, SessionType
<1>2. QED
  BY <1>1, KnownKept DEF TimerFires, Known, SendableIsKnown

LEMMA InitKnown == Init => Known
BY DEF Init, Known, Generations, SendableIsKnown, NoSession, NotEnding

LEMMA NextKnown == Typed /\ Known /\ [Next]_vars => Known'
<1> SUFFICES ASSUME Typed, Known, [Next]_vars PROVE Known'
  OBVIOUS
<1>1. CASE UNCHANGED <<session, generations, ending, told>>
  BY <1>1, KnownKept DEF Known, SendableIsKnown
<1>2. CASE \E c \in Callers : \/ \E m \in Methods : StartPairing(c, m)
                              \/ Dropped(c) \/ QrArrives(c) \/ QrTimesOut(c) \/ CodeAnswered(c)
  BY <1>1, <1>2, StartPairingKnown, DroppedKnown DEF QrArrives, QrTimesOut, CodeAnswered
<1>3. CASE \E h \in SocketIds : \/ Opened(h) \/ OpenFails(h)
                                \/ Handshake(h) \/ SocketCloses(h) \/ EndReported(h)
                                \/ PumpHandles(h) \/ PumpReturns(h)
  BY <1>1, <1>3, OpenedKnown, OpenFailsKnown, PumpHandlesKnown
  DEF Handshake, SocketCloses, EndReported, PumpReturns
<1>4. CASE \E t \in timers : TimerFires(t)
  BY <1>4, TimerFiresKnown
<1>5. CASE LogoutStarts \/ PurgeStarts
  BY <1>5, EndStartsKnown DEF LogoutStarts, PurgeStarts
<1>6. CASE LogoutEnds \/ PurgeEnds \/ AdapterCloses \/ AdapterClosed
  BY <1>6, LogoutEndsKnown, GoneKnown, AdapterClosesKnown
<1>7. QED
  BY <1>1, <1>2, <1>3, <1>4, <1>5, <1>6 DEF Next, vars

\* A session that says it is connected holds a socket, and the last thing the control
\* plane was told of the first session of a slot is that it is up: what send() dispatches
\* to is there (adapter.ts, send and onConnected).
THEOREM ConnectedIsKnown == Spec => []SendableIsKnown
<1>1. Known => SendableIsKnown
  BY DEF Known
<1>2. QED
  BY <1>1, InitKnown, NextKnown, AlwaysTyped, PTL DEF Spec

-----------------------------------------------------------------------------
(* An outage is retried.                                                   *)

\* There is no session: no socket is held and no reconnect is owed.
EmptySlot == session.gen = 0 => session.owed = "no" /\ session.handle = NoSocket

\* A socket under way is of a session there was, and is not one that may be taken again.
Opening == \A h \in SocketIds :
    socket[h].state = "opening" => socket[h].pump = "off" /\ socket[h].gen # 0

\* Whoever closes a socket to pair anew has given the reconnect up: until the close
\* returns, the session still names that socket and nobody opens another.
DroppedOwesNothing == \A c \in Callers :
    caller[c].pc = "dropping" /\ session.gen = caller[c].gen /\ session.handle # NoSocket =>
        session.owed = "no"

\* A reconnect that is owed waits in a timer, or is the timer's own attempt under way for
\* this session: a pairing request's attempt would not be repeated when it fails.
Reconnecting(h) ==
    socket[h].state = "opening" /\ socket[h].by = "timer" /\ socket[h].gen = session.gen

Retried ==
    session.owed = "yes" /\ ~Stopped(session) =>
        \/ session.handle # NoSocket
        \/ timers # {}
        \/ \E h \in SocketIds : Reconnecting(h)

Owing == EmptySlot /\ Opening /\ DroppedOwesNothing /\ Retried

\* What connect adds: a socket under way, in a place nobody was using.
LEMMA DialOpens ==
    ASSUME Typed, Opening, NEW s \in SessionType, NEW who \in Owners, NEW intent \in Intents,
           s.gen # 0, Dial(s, who, intent)
    PROVE  /\ Opening'
           /\ \A h \in SocketIds : socket[h].state = "opening" => socket'[h] = socket[h]
           /\ \E h \in SocketIds : /\ socket'[h].state = "opening" /\ socket'[h].by = who
                                   /\ socket'[h].gen = s.gen
<1>1. /\ TypeOK
      /\ \E h \in Free : /\ h \in SocketIds
                         /\ socket'[h] = [Unused EXCEPT !.state = "opening",
                                    !.intent = intent, !.gen = s.gen, !.by = who]
                         /\ \A g \in SocketIds \ {h} : socket'[g] = socket[g]
  <2>1. TypeOK
    BY DEF Typed
  <2>2. QED
    BY <2>1, DialTyped
<1>2. PICK h \in Free :
        /\ h \in SocketIds
        /\ socket'[h] = [Unused EXCEPT !.state = "opening",
                                       !.intent = intent, !.gen = s.gen, !.by = who]
        /\ \A g \in SocketIds \ {h} : socket'[g] = socket[g]
  BY <1>1
<1>3. socket'[h].state = "opening" /\ socket'[h].by = who /\ socket'[h].gen = s.gen
      /\ socket'[h].pump = "off"
  BY <1>2 DEF Unused
<1>4. socket[h].state # "opening"
  BY <1>2 DEF Free, Opening
<1>5. Opening'
  BY <1>2, <1>3 DEF Opening
<1>6. \A g \in SocketIds : socket[g].state = "opening" => socket'[g] = socket[g]
  BY <1>2, <1>4
<1>7. QED
  BY <1>2, <1>3, <1>5, <1>6

\* socketFor opens a socket or none, and takes none that is under way.
LEMMA SocketForOpens ==
    ASSUME Typed, Opening, NEW c \in Callers, NEW m \in Methods \cup {"none"},
           NEW s \in SessionType, SocketFor(c, m, s)
    PROVE  /\ Opening'
           /\ \A h \in SocketIds : socket[h].state = "opening" => socket'[h] = socket[h]
           /\ caller'[c].pc # "dropping"
           /\ \A d \in Callers \ {c} : caller'[d] = caller[d]
<1>1. Opening' /\ \A h \in SocketIds : socket[h].state = "opening" => socket'[h] = socket[h]
  <2>1. CASE s.gen # 0 /\ Dial(s, c, m)
    <3>1. c \in Owners /\ m \in Intents
      BY DEF Owners, Intents
    <3>2. QED
      BY <2>1, <3>1, DialOpens
  <2>2. CASE UNCHANGED socket
    BY <2>2 DEF Opening
  <2>3. QED
    BY <2>1, <2>2 DEF SocketFor
<1>2. QED
  BY <1>1, SocketForTyped DEF Typed

\* A step after which nothing is owed, or the session is ended, has nothing to retry.
LEMMA NothingOwed ==
    ASSUME Opening', session'.owed = "no",
           session'.gen = 0 => session'.handle = NoSocket
    PROVE  Owing'
BY DEF Owing, EmptySlot, DroppedOwesNothing, Retried

\* A step that opens and closes no socket and leaves what is owed as it was.
LEMMA OwingKept ==
    ASSUME Owing, Opening',
           session'.gen = session.gen, session'.handle = session.handle,
           session'.owed = session.owed, session'.stopping = session.stopping,
           UNCHANGED <<timers, shutdown>>,
           \A h \in SocketIds : Reconnecting(h) => Reconnecting(h)',
           \A c \in Callers : caller'[c].pc = "dropping" => caller'[c] = caller[c]
    PROVE  Owing'
BY DEF Owing, EmptySlot, DroppedOwesNothing, Retried, Stopped

\* A socket that ends while its session is there: nothing is owed, or a timer is set.
LEMMA PolicyOwes ==
    ASSUME Opening', EmptySlot, session'.gen = session.gen, session.gen # 0,
           session'.handle = NoSocket, session'.owed = "yes" => timers' # {}
    PROVE  Owing'
BY DEF Owing, EmptySlot, DroppedOwesNothing, Retried

\* Closing a handle disturbs no socket under way.
LEMMA CloseOpens ==
    ASSUME Typed, Opening, NEW h, socket' = Close(h)
    PROVE  Opening' /\ \A g \in SocketIds : /\ socket'[g].state = "opening" <=> socket[g].state = "opening"
                                            /\ socket'[g].by = socket[g].by
                                            /\ socket'[g].gen = socket[g].gen
BY CloseTyped DEF Opening, Typed

LEMMA StartPairingOwes ==
    ASSUME Typed, Owing, NEW c \in Callers, NEW m \in Methods, StartPairing(c, m)
    PROVE  Owing'
<1> DEFINE s == Provisioned
<1>1. s \in SessionType /\ s.gen # 0
  BY ProvisionedType DEF Typed
<1>2. CASE /\ session' = [ClearReconnect(s) EXCEPT !.owed = "no"]
           /\ socket' = Close(s.handle)
  BY <1>1, <1>2, ClearedKeeps, CloseOpens, NothingOwed DEF Owing
<1>3. CASE session' = s /\ SocketFor(c, m, s) /\ UNCHANGED timers
  <2>1. /\ Opening'
        /\ \A h \in SocketIds : socket[h].state = "opening" => socket'[h] = socket[h]
        /\ caller'[c].pc # "dropping"
        /\ \A d \in Callers \ {c} : caller'[d] = caller[d]
    BY <1>1, <1>3, SocketForOpens DEF Owing
  <2>2. CASE session.gen = 0
    <3>1. s = [NoSession EXCEPT !.gen = generations + 1]
      BY <2>2 DEF Provisioned
    <3>2. session'.owed = "no"
      BY <1>3, <3>1, FreshSlot
    <3>3. QED
      BY <1>1, <1>3, <2>1, <3>2, NothingOwed
  <2>3. CASE session.gen # 0
    <3>1. session' = session
      BY <1>3, <2>3 DEF Provisioned
    <3>2. QED
      BY <1>3, <2>1, <3>1, OwingKept DEF StartPairing, Reconnecting
  <2>4. QED
    BY <2>2, <2>3
<1>4. QED
  BY <1>2, <1>3 DEF StartPairing

LEMMA DroppedOwes ==
    ASSUME Typed, Owing, NEW c \in Callers, Dropped(c)
    PROVE  Owing'
<1> DEFINE s == IF session.gen # caller[c].gen THEN session
                ELSE [session EXCEPT !.handle = NoSocket, !.intent = "none", !.link = "down"]
           m == caller[c].method
<1>1. session \in SessionType /\ m \in Methods \cup {"none"}
  BY DEF Typed, TypeOK, CallerType
<1>2. s \in SessionType
  BY <1>1, DroppedType
<1>3. session' = s /\ SocketFor(c, m, s) /\ UNCHANGED <<timers, shutdown>>
  BY DEF Dropped
<1> HIDE DEF s
<1>4. /\ Opening'
      /\ \A h \in SocketIds : socket[h].state = "opening" => socket'[h] = socket[h]
      /\ caller'[c].pc # "dropping"
      /\ \A d \in Callers \ {c} : caller'[d] = caller[d]
  BY <1>1, <1>2, <1>3, SocketForOpens DEF Owing
<1>5. CASE session.gen # caller[c].gen
  BY <1>3, <1>4, <1>5, OwingKept DEF Reconnecting, s
<1>6. CASE session.gen = caller[c].gen
  <2>1. session'.handle = NoSocket /\ session'.gen = session.gen
        /\ session'.owed = session.owed /\ session'.stopping = session.stopping
    BY <1>1, <1>3, <1>6 DEF s, SessionType
  <2>2. session.handle # NoSocket => session.owed = "no"
    BY <1>6 DEF Owing, DroppedOwesNothing, Dropped
  <2>3. Retried'
    BY <1>3, <1>4, <2>1, <2>2 DEF Owing, Retried, Stopped, Reconnecting
  <2>4. EmptySlot' /\ DroppedOwesNothing'
    BY <2>1 DEF Owing, EmptySlot, DroppedOwesNothing
  <2>5. QED
    BY <1>4, <2>3, <2>4 DEF Owing
<1>7. QED
  BY <1>5, <1>6

LEMMA OpenedOwes ==
    ASSUME Typed, Owing, NEW h \in SocketIds, Opened(h)
    PROVE  Owing'
<1>1. socket[h].state = "opening" /\ socket[h].gen # 0
  BY DEF Opened, Owing, Opening
<1>2. socket'[h].state = "open" /\ \A g \in SocketIds \ {h} : socket'[g] = socket[g]
  BY DEF Opened, Typed, TypeOK, Unused
<1>3. Opening'
  BY <1>2 DEF Owing, Opening
<1>4. \A c \in Callers : caller'[c].pc # "dropping"
  <2>1. \A c \in Callers : caller[c].pc # "dropping"
    BY DEF Opened, Settled
  <2>2. PICK s : \/ socket[h].by \in Callers /\ Obtains(socket[h].by, caller[socket[h].by].method, s)
                 \/ UNCHANGED caller
    BY DEF Opened
  <2>3. QED
    BY <2>1, <2>2, ObtainsTyped DEF Typed
<1>5. UNCHANGED <<timers, shutdown>> /\ session \in SessionType
  BY DEF Opened, Typed, TypeOK
<1>6. CASE session.gen # socket[h].gen
  BY <1>2, <1>3, <1>4, <1>5, <1>6, OwingKept DEF Opened, Reconnecting
<1>7. CASE session.gen = socket[h].gen
  <2>1. session'.gen = session.gen /\ session'.handle = h
    BY <1>5, <1>7 DEF Opened, SessionType
  <2>2. QED
    BY <1>1, <1>3, <1>4, <1>7, <2>1, NoSocketIsNone
    DEF Owing, EmptySlot, DroppedOwesNothing, Retried
<1>8. QED
  BY <1>6, <1>7

LEMMA RequestEndsOwes ==
    ASSUME Typed, Owing, NEW c \in Callers, QrArrives(c) \/ QrTimesOut(c) \/ CodeAnswered(c)
    PROVE  Owing'
<1>1. caller' = [caller EXCEPT ![c] = Idle] /\ UNCHANGED <<session, socket, timers, shutdown>>
  BY DEF QrArrives, QrTimesOut, CodeAnswered
<1>2. \A d \in Callers : caller'[d].pc = "dropping" => caller'[d] = caller[d]
  BY <1>1 DEF Idle, Typed, TypeOK
<1>3. Opening'
  BY <1>1 DEF Owing, Opening
<1>4. QED
  BY <1>1, <1>2, <1>3, OwingKept DEF Reconnecting

\* What happens to a socket that is there disturbs none that is under way.
LEMMA OneSocketOwes ==
    ASSUME Owing, NEW h \in SocketIds, socket[h].state # "opening", socket'[h].state # "opening",
           \A g \in SocketIds \ {h} : socket'[g] = socket[g],
           UNCHANGED <<session, timers, caller, shutdown>>
    PROVE  Owing'
<1>1. Opening'
  BY DEF Owing, Opening
<1>2. QED
  BY <1>1, OwingKept DEF Reconnecting

LEMMA UpstreamOwes ==
    ASSUME Typed, Owing, NEW h \in SocketIds, Handshake(h) \/ SocketCloses(h) \/ EndReported(h)
    PROVE  Owing'
<1>1. PICK e \in Events : Queued(h, e)
  BY ClassifiedKind DEF Handshake, SocketCloses, EndReported, Events, Kinds
<1>2. /\ socket'[h].state \in {socket[h].state, "closed"}
      /\ \A g \in SocketIds \ {h} : socket'[g] = socket[g]
  BY <1>1, QueuedTyped DEF Typed
<1>3. socket[h].state # "opening" /\ UNCHANGED <<session, timers, caller, shutdown>>
  BY DEF Handshake, SocketCloses, EndReported
<1>4. QED
  BY <1>2, <1>3, OneSocketOwes

LEMMA PumpReturnsOwes ==
    ASSUME Typed, Owing, NEW h \in SocketIds, PumpReturns(h)
    PROVE  Owing'
<1>1. socket[h].state # "opening"
  BY DEF PumpReturns, Owing, Opening
<1>2. socket'[h].state # "opening" /\ \A g \in SocketIds \ {h} : socket'[g] = socket[g]
  BY DEF PumpReturns, Unused, Typed, TypeOK
<1>3. QED
  BY <1>1, <1>2, OneSocketOwes DEF PumpReturns

LEMMA PumpHandlesOwes ==
    ASSUME Typed, Owing, NEW h \in SocketIds, PumpHandles(h)
    PROVE  Owing'
<1>1. session \in SessionType /\ socket[h] \in SocketType
  BY DEF Typed, TypeOK
<1>2. session.handle = h /\ session.gen # 0 /\ UNCHANGED <<caller, shutdown>>
  BY NoSocketIsNone DEF PumpHandles, Live, Owing, EmptySlot
<1>3. \A g \in SocketIds : /\ socket'[g].state = socket[g].state /\ socket'[g].by = socket[g].by
                           /\ socket'[g].gen = socket[g].gen /\ socket'[g].pump = socket[g].pump
  <2>1. socket' = [socket EXCEPT ![h] = [socket[h] EXCEPT !.queue = Tail(@)]]
    BY DEF PumpHandles
  <2>2. QED
    BY <1>1, <2>1 DEF SocketType, Typed, TypeOK
<1>4. Opening'
  BY <1>3 DEF Owing, Opening
<1> DEFINE e == Head(socket[h].queue)
<1>5. CASE OnDisconnected(session, e)
  BY <1>1, <1>2, <1>4, <1>5, PolicyTyped, PolicyOwes DEF Owing
<1>6. CASE OnConnected(session)
  <2>1. session'.owed = "no" /\ session'.gen # 0
    BY <1>1, <1>2, <1>6 DEF OnConnected, SessionType
  <2>2. QED
    BY <1>4, <2>1, NothingOwed
<1>7. CASE session' = [session EXCEPT !.lastQr = h] /\ UNCHANGED <<timers, told>>
  <2>1. session'.gen = session.gen /\ session'.handle = session.handle
        /\ session'.owed = session.owed /\ session'.stopping = session.stopping
    BY <1>1, <1>7 DEF SessionType
  <2>2. QED
    BY <1>2, <1>3, <1>4, <1>7, <2>1, OwingKept DEF Reconnecting
<1>8. QED
  BY <1>5, <1>6, <1>7 DEF PumpHandles

LEMMA TimerFiresOwes ==
    ASSUME Typed, Owing, NEW t \in timers, TimerFires(t)
    PROVE  Owing'
<1>1. session \in SessionType /\ t \in TimerType /\ shutdown' = shutdown /\ caller' = caller
  BY DEF TimerFires, Typed, TypeOK
<1>2. /\ session' \in SessionType
      /\ session'.gen = session.gen /\ session'.handle = session.handle
      /\ session'.owed = session.owed /\ session'.stopping = session.stopping
  BY <1>1 DEF TimerFires, SessionType
<1>3. EmptySlot' /\ DroppedOwesNothing'
  BY <1>1, <1>2 DEF Owing, EmptySlot, DroppedOwesNothing
<1>4. CASE session'.gen # 0 /\ Dial(session', "timer", t.intent)
  <2>1. t.intent \in Intents /\ "timer" \in Owners
    BY <1>1 DEF TimerType, Owners
  <2>2. Opening' /\ \E h \in SocketIds : Reconnecting(h)'
    BY <1>2, <1>4, <2>1, DialOpens DEF Owing, Reconnecting
  <2>3. QED
    BY <1>3, <2>2 DEF Owing, Retried
<1>5. CASE (session'.gen = 0 \/ Stopped(session')) /\ UNCHANGED socket
  <2>1. Opening'
    BY <1>5 DEF Owing, Opening
  <2>2. session'.owed = "no" \/ Stopped(session)'
    BY <1>1, <1>3, <1>5 DEF EmptySlot, Stopped
  <2>3. QED
    BY <1>3, <2>1, <2>2 DEF Owing, Retried
<1>6. QED
  BY <1>4, <1>5 DEF TimerFires

LEMMA OpenFailsOwes ==
    ASSUME Typed, Owing, NEW h \in SocketIds, OpenFails(h)
    PROVE  Owing'
<1>1. socket[h].state = "opening" /\ session \in SessionType /\ shutdown' = shutdown
  BY DEF OpenFails, Typed, TypeOK
<1>2. socket'[h].state # "opening" /\ \A g \in SocketIds \ {h} : socket'[g] = socket[g]
  BY DEF OpenFails, Unused, Typed, TypeOK
<1>3. Opening'
  BY <1>2 DEF Owing, Opening
<1> DEFINE c == socket[h].by
<1>4. CASE c \in Callers /\ caller' = [caller EXCEPT ![c] = Idle] /\ UNCHANGED <<session, timers, told>>
  <2>1. \A d \in Callers : caller'[d].pc = "dropping" => caller'[d] = caller[d]
    BY <1>4 DEF Idle, Typed, TypeOK
  <2>2. \A g \in SocketIds : Reconnecting(g) => Reconnecting(g)'
    BY <1>2, <1>4 DEF Reconnecting
  <2>3. QED
    BY <1>1, <1>3, <1>4, <2>1, <2>2, OwingKept
<1>5. CASE session.gen # 0 /\ OnDisconnected(session, "transient") /\ UNCHANGED caller
  BY <1>1, <1>3, <1>5, PolicyTyped, PolicyOwes DEF Owing
<1>6. CASE session.gen = 0 /\ UNCHANGED <<caller, session, timers, told>>
  <2>1. session'.owed = "no" /\ session'.handle = NoSocket
    BY <1>6 DEF Owing, EmptySlot
  <2>2. QED
    BY <1>3, <2>1, NothingOwed
<1>7. QED
  BY <1>4, <1>5, <1>6 DEF OpenFails

LEMMA EndsOwes ==
    ASSUME Typed, Owing, LogoutStarts \/ PurgeStarts \/ LogoutEnds \/ PurgeEnds
    PROVE  Owing'
<1>1. session \in SessionType
  BY DEF Typed, TypeOK
<1>2. Opening' /\ \A g \in SocketIds : Reconnecting(g) /\ UNCHANGED session => Reconnecting(g)'
  <2>1. CASE UNCHANGED socket
    BY <2>1 DEF Owing, Opening, Reconnecting
  <2>2. CASE socket' = Close(session.handle) \/ socket' = Close(ending["logout"].sock)
    BY <2>2, CloseOpens DEF Owing, Reconnecting
  <2>3. QED
    BY <2>1, <2>2 DEF LogoutStarts, PurgeStarts, LogoutEnds, PurgeEnds
<1>3. CASE LogoutStarts \/ PurgeStarts
  <2>1. session'.gen # 0 /\ session'.owed = "no"
    BY <1>1, <1>3, EndedKeeps DEF LogoutStarts, PurgeStarts, EndStarts
  <2>2. QED
    BY <1>2, <2>1, NothingOwed
<1>4. CASE LogoutEnds /\ session.gen = ending["logout"].gen
  <2>1. session'.handle = NoSocket /\ session'.owed = "no"
    BY <1>1, <1>4 DEF LogoutEnds, SessionType
  <2>2. QED
    BY <1>2, <2>1, NothingOwed
<1>5. CASE LogoutEnds /\ session.gen # ending["logout"].gen
  BY <1>2, <1>5, OwingKept DEF LogoutEnds
<1>6. CASE PurgeEnds
  <2>1. session'.owed = "no" /\ session'.handle = NoSocket
    BY <1>6 DEF PurgeEnds, NoSession
  <2>2. QED
    BY <1>2, <2>1, NothingOwed
<1>7. QED
  BY <1>3, <1>4, <1>5, <1>6

LEMMA AdapterOwes ==
    ASSUME Typed, Owing, AdapterCloses \/ AdapterClosed
    PROVE  Owing'
<1>1. Opening'
  BY CloseOpens DEF AdapterCloses, AdapterClosed, Owing, Opening
<1>2. session'.owed = "no" /\ (session'.gen = 0 => session'.handle = NoSocket)
  <2>1. CASE session' = [ClearReconnect(session) EXCEPT !.stopping = "yes", !.owed = "no"]
             /\ session.gen # 0
    BY <2>1, EndedKeeps DEF Typed, TypeOK
  <2>2. CASE session' = session /\ session.gen = 0
    BY <2>2 DEF Owing, EmptySlot
  <2>3. CASE session' = NoSession
    BY <2>3 DEF NoSession
  <2>4. QED
    BY <2>1, <2>2, <2>3 DEF AdapterCloses, AdapterClosed
<1>3. QED
  BY <1>1, <1>2, NothingOwed

LEMMA InitOwes == Init => Owing
BY DEF Init, Owing, EmptySlot, Opening, DroppedOwesNothing, Retried, NoSession, Unused, Idle

LEMMA NextOwes == Typed /\ Owing /\ [Next]_vars => Owing'
<1> SUFFICES ASSUME Typed, Owing, [Next]_vars PROVE Owing'
  OBVIOUS
<1>1. CASE UNCHANGED vars
  BY <1>1
  DEF vars, Owing, EmptySlot, Opening, DroppedOwesNothing, Retried, Stopped, Reconnecting
<1>2. CASE \E c \in Callers : \/ \E m \in Methods : StartPairing(c, m)
                              \/ Dropped(c) \/ QrArrives(c) \/ QrTimesOut(c) \/ CodeAnswered(c)
  BY <1>2, StartPairingOwes, DroppedOwes, RequestEndsOwes
<1>3. CASE \E h \in SocketIds : \/ Opened(h) \/ OpenFails(h)
                                \/ Handshake(h) \/ SocketCloses(h) \/ EndReported(h)
                                \/ PumpHandles(h) \/ PumpReturns(h)
  BY <1>3, OpenedOwes, OpenFailsOwes, UpstreamOwes, PumpHandlesOwes, PumpReturnsOwes
<1>4. CASE \E t \in timers : TimerFires(t)
  BY <1>4, TimerFiresOwes
<1>5. CASE LogoutStarts \/ LogoutEnds \/ PurgeStarts \/ PurgeEnds
  BY <1>5, EndsOwes
<1>6. CASE AdapterCloses \/ AdapterClosed
  BY <1>6, AdapterOwes
<1>7. QED
  BY <1>1, <1>2, <1>3, <1>4, <1>5, <1>6 DEF Next

\* A session that lost its socket in a way reconnecting can mend holds one again, or has a
\* reconnect pending or under way: no order of pumps, timers, requests, purges and failed
\* opens forgets it (adapter.ts, onDisconnected and connect).
THEOREM OutageIsAlwaysRetried == Spec => []OutageIsRetried
<1>1. Owing => OutageIsRetried
  BY DEF Owing, Retried, Reconnecting, OutageIsRetried
<1>2. QED
  BY <1>1, InitOwes, NextOwes, AlwaysTyped, PTL DEF Spec

\* The attempt that is owed is the timer's, and of the session there is now: that of a
\* pairing request, or of a session purged since, is not counted on.
THEOREM ReconnectIsOfThisSession == Spec => []Retried
<1>1. Owing => Retried
  BY DEF Owing
<1>2. QED
  BY <1>1, InitOwes, NextOwes, AlwaysTyped, PTL DEF Spec

-----------------------------------------------------------------------------
(* The adapter implements EngineSlot.                                       *)

\* What a step of the session is to the control plane: one of the contract's, or nothing.
SlotStep == Slot!SlotNext \/ UNCHANGED <<SlotState, session.outage, told>>

\* What the contract's view of a session is read from.
LEMMA SlotKept ==
    ASSUME session'.gen = session.gen, session'.link = session.link,
           session'.handle = session.handle, session'.owed = session.owed,
           session'.outage = session.outage, told' = told
    PROVE  SlotStep
BY DEF SlotStep, SlotState

\* Giving up a reconnect lets go of a slot that waits for one, and of nothing else.
LEMMA GivenUp ==
    ASSUME session.gen # 0, session'.gen = session.gen, session'.link = session.link,
           session'.handle = session.handle, session'.owed = "no",
           session'.outage = session.outage, told' = told
    PROVE  SlotStep
<1>1. CASE SlotState = "down"
  <2>1. Slot!LetsGo
    BY <1>1 DEF Slot!LetsGo, SlotState
  <2>2. QED
    BY <2>1 DEF SlotStep, Slot!SlotNext
<1>2. CASE SlotState # "down"
  BY <1>2 DEF SlotStep, SlotState
<1>3. QED
  BY <1>1, <1>2

\* The connection is gone, nothing is reported and no retry is owed.
LEMMA ReleasedSlot ==
    ASSUME session.gen # 0, session'.gen = session.gen, session'.link = "down",
           session'.handle = NoSocket, session'.owed = "no",
           session'.outage = session.outage, told' = told
    PROVE  SlotStep
BY DEF SlotStep, SlotState, Slot!SlotNext, Slot!LetsGo

\* The policy reports a loss and says whether it retries.
LEMMA PolicyBreaks ==
    ASSUME session \in SessionType, NEW kind \in Kinds, session.gen # 0,
           OnDisconnected(session, kind),
           kind = "logged_out" => session.handle # NoSocket
    PROVE  SlotStep
<1>1. Lost(session) \in SessionType /\ Lost(session).gen = session.gen
      /\ Lost(session).handle = NoSocket /\ Lost(session).link = "down"
      /\ Lost(session).outage = "yes"
  BY DEF Lost, SessionType, Intents
<1> DEFINE Gone(owed) ==
        /\ session'.gen = session.gen /\ session'.handle = NoSocket
        /\ session'.link = "down" /\ session'.outage = "yes" /\ session'.owed = owed
<1>2. CASE /\ session' = [Lost(session) EXCEPT !.owed = "no"]
           /\ told' \in {"disconnected", "logged_out"}
           /\ told' = "logged_out" => kind = "logged_out"
  <2>1. Gone("no")
    BY <1>1, <1>2 DEF SessionType
  <2>2. CASE told' = "disconnected"
    <3>1. Slot!Breaks
      BY <2>1, <2>2 DEF Slot!Breaks, SlotState
    <3>2. QED
      BY <3>1 DEF SlotStep, Slot!SlotNext
  <2>3. CASE told' = "logged_out"
    <3>1. SlotState \in {"open", "linked"}
      BY <1>2, <2>3 DEF SlotState
    <3>2. Slot!Unlinks
      BY <2>1, <2>3, <3>1 DEF Slot!Unlinks, SlotState
    <3>3. QED
      BY <3>2 DEF SlotStep, Slot!SlotNext
  <2>4. QED
    BY <1>2, <2>2, <2>3
<1>3. CASE Retry(session)
  <2>1. Gone("yes") /\ told' \in {"disconnected", "degraded"}
    BY <1>1, <1>3 DEF Retry, SessionType
  <2>2. Slot!Breaks
    BY <2>1 DEF Slot!Breaks, SlotState
  <2>3. QED
    BY <2>2 DEF SlotStep, Slot!SlotNext
<1>4. QED
  BY <1>2, <1>3 DEF OnDisconnected

LEMMA FreshIsEmpty ==
    ASSUME NEW n
    PROVE  LET r == [NoSession EXCEPT !.gen = n]
           IN  r.gen = n /\ r.handle = NoSocket /\ r.link = "down" /\ r.owed = "no"
               /\ r.outage = "no"
BY DEF NoSession

\* Cancelling a reconnect does not end the outage it was to end.
LEMMA OutageStays ==
    ASSUME NEW s \in SessionType
    PROVE  /\ [ClearReconnect(s) EXCEPT !.owed = "no"].outage = s.outage
           /\ [ClearReconnect(s) EXCEPT !.stopping = "yes", !.owed = "no"].outage = s.outage
BY DEF SessionType, ClearReconnect

\* Where there is no session the slot is none, and no outage is remembered.
NothingRemembered == session.gen = 0 => session = NoSession

LEMMA StartPairingSlot ==
    ASSUME Typed, Known, Owing, NothingRemembered,
           NEW c \in Callers, NEW m \in Methods, StartPairing(c, m)
    PROVE  SlotStep
<1>1. session \in SessionType /\ generations + 1 # 0 /\ told' = told
  BY DEF Typed, TypeOK, StartPairing
<1>2. CASE session.gen = 0
  <2>1. Provisioned = [NoSession EXCEPT !.gen = generations + 1]
    BY <1>2 DEF Provisioned
  <2>2. session' = Provisioned
    BY <2>1, FreshIsEmpty DEF StartPairing
  <2>3. session'.gen # 0 /\ session'.handle = NoSocket /\ session'.link = "down"
        /\ session'.owed = "no" /\ session'.outage = "no"
    BY <1>1, <2>1, <2>2, FreshIsEmpty
  <2>4. session.outage = "no"
    BY <1>2 DEF NothingRemembered, NoSession
  <2>5. Slot!Provided
    BY <1>1, <1>2, <2>3, <2>4 DEF Slot!Provided, SlotState
  <2>6. QED
    BY <2>5 DEF SlotStep, Slot!SlotNext
<1>3. CASE session.gen # 0
  <2>1. Provisioned = session
    BY <1>3 DEF Provisioned
  <2>2. CASE session' = [ClearReconnect(session) EXCEPT !.owed = "no"]
    BY <1>1, <1>3, <2>2, ClearedKeeps, OutageStays, GivenUp
  <2>3. CASE session' = session
    BY <1>1, <2>3, SlotKept
  <2>4. QED
    BY <2>1, <2>2, <2>3 DEF StartPairing
<1>4. QED
  BY <1>2, <1>3

LEMMA DroppedSlot ==
    ASSUME Typed, Known, Owing, NEW c \in Callers, Dropped(c)
    PROVE  SlotStep
<1>1. session \in SessionType /\ told' = told
  BY DEF Typed, TypeOK, Dropped
<1>2. CASE session' = session
  BY <1>1, <1>2, SlotKept
<1>3. CASE session.gen = caller[c].gen
           /\ session' = [session EXCEPT !.handle = NoSocket, !.intent = "none", !.link = "down"]
  <2>1. session'.gen = session.gen /\ session'.handle = NoSocket /\ session'.link = "down"
        /\ session'.owed = session.owed /\ session'.outage = session.outage
    BY <1>1, <1>3 DEF SessionType
  <2>2. CASE session.handle = NoSocket
    <3>1. session.link = "down"
      BY <1>1, <2>2 DEF Known, SendableIsKnown, SessionType
    <3>2. QED
      BY <1>1, <2>1, <2>2, <3>1, SlotKept
  <2>3. CASE session.handle # NoSocket
    <3>1. session.owed = "no" /\ session.gen # 0
      BY <1>3, <2>3 DEF Owing, DroppedOwesNothing, EmptySlot, Dropped
    <3>2. QED
      BY <1>1, <2>1, <3>1, ReleasedSlot
  <2>4. QED
    BY <2>2, <2>3
<1>4. QED
  BY <1>2, <1>3 DEF Dropped

LEMMA OpenedSlot ==
    ASSUME Typed, Owing, NEW h \in SocketIds, Opened(h)
    PROVE  SlotStep
<1>1. session \in SessionType /\ told' = told /\ socket[h].gen # 0
  BY DEF Typed, TypeOK, Opened, Owing, Opening
<1>2. CASE session' = session
  BY <1>1, <1>2, SlotKept
<1>3. CASE session.gen = socket[h].gen
           /\ session' = [session EXCEPT !.handle = h, !.intent = socket[h].intent]
  <2>1. session'.gen = session.gen /\ session'.handle = h /\ session'.link = session.link
        /\ session'.outage = session.outage
    BY <1>1, <1>3 DEF SessionType
  <2>2. Slot!Connects
    BY <1>1, <1>3, <2>1, NoSocketIsNone DEF Slot!Connects, SlotState
  <2>3. QED
    BY <2>2 DEF SlotStep, Slot!SlotNext
<1>4. QED
  BY <1>2, <1>3 DEF Opened

LEMMA PumpHandlesSlot ==
    ASSUME Typed, Owing, NEW h \in SocketIds, PumpHandles(h)
    PROVE  SlotStep
<1>1. session \in SessionType /\ h # NoSocket /\ session.handle = h
  BY NoSocketIsNone DEF Typed, TypeOK, PumpHandles, Live
<1>2. session.gen # 0
  BY <1>1 DEF Owing, EmptySlot
<1> DEFINE e == Head(socket[h].queue)
<1>3. CASE e \in Kinds /\ OnDisconnected(session, e)
  BY <1>1, <1>2, <1>3, PolicyBreaks
<1>4. CASE OnConnected(session)
  <2>1. session'.gen = session.gen /\ session'.link = "up" /\ session'.outage = "no"
        /\ told' = IF session.outage = "yes" THEN "recovered" ELSE "connected"
    BY <1>1, <1>4 DEF OnConnected, SessionType
  <2>2. Slot!Links
    BY <1>1, <1>2, <2>1 DEF Slot!Links, SlotState
  <2>3. QED
    BY <2>2 DEF SlotStep, Slot!SlotNext
<1>5. CASE session' = [session EXCEPT !.lastQr = h] /\ UNCHANGED <<timers, told>>
  <2>1. session'.gen = session.gen /\ session'.handle = session.handle
        /\ session'.link = session.link /\ session'.owed = session.owed
        /\ session'.outage = session.outage
    BY <1>1, <1>5 DEF SessionType
  <2>2. QED
    BY <1>5, <2>1, SlotKept
<1>6. QED
  BY <1>3, <1>4, <1>5 DEF PumpHandles

LEMMA TimerFiresSlot ==
    ASSUME Typed, NEW t \in timers, TimerFires(t)
    PROVE  SlotStep
<1>1. session'.gen = session.gen /\ session'.handle = session.handle
      /\ session'.link = session.link /\ session'.owed = session.owed
      /\ session'.outage = session.outage /\ told' = told
  BY DEF TimerFires, Typed, TypeOK, SessionType
<1>2. QED
  BY <1>1, SlotKept

LEMMA OpenFailsSlot ==
    ASSUME Typed, NEW h \in SocketIds, OpenFails(h)
    PROVE  SlotStep
<1>1. session \in SessionType /\ "transient" \in Kinds
  BY DEF Typed, TypeOK, Kinds
<1>2. CASE session.gen # 0 /\ OnDisconnected(session, "transient")
  BY <1>1, <1>2, PolicyBreaks, "transient" # "logged_out"
<1>3. CASE UNCHANGED <<session, timers, told>>
  BY <1>3, SlotKept
<1>4. QED
  BY <1>2, <1>3 DEF OpenFails

LEMMA EndStartsSlot ==
    ASSUME Typed, LogoutStarts \/ PurgeStarts
    PROVE  SlotStep
<1>1. session \in SessionType /\ session.gen # 0 /\ told' = told
      /\ session' = [ClearReconnect(session) EXCEPT !.stopping = "yes", !.owed = "no"]
  BY DEF Typed, TypeOK, LogoutStarts, PurgeStarts, EndStarts
<1>2. QED
  BY <1>1, EndedKeeps, OutageStays, GivenUp

LEMMA LogoutEndsSlot ==
    ASSUME Typed, LogoutEnds
    PROVE  SlotStep
<1> DEFINE e == ending["logout"]
<1>1. session \in SessionType /\ e.gen # 0 /\ told' = "logged_out"
  BY DEF Typed, TypeOK, LogoutEnds
<1>2. session' = IF session.gen # e.gen THEN session
                 ELSE [session EXCEPT !.handle = NoSocket, !.intent = "none", !.link = "down",
                                      !.stopping = "no", !.lastQr = NoSocket, !.owed = "no"]
  BY DEF LogoutEnds
<1>3. Slot!LogsOut
  <2>1. CASE session.gen # e.gen
    <3>1. session' = session
      BY <1>2, <2>1
    <3>2. SlotState' = SlotState /\ session'.outage = session.outage
      BY <3>1 DEF SlotState
    <3>3. SlotState' \in IF SlotState = "none" THEN {"none"} ELSE {SlotState, "slot"}
      BY <3>2
    <3>4. QED
      BY <1>1, <3>2, <3>3 DEF Slot!LogsOut
  <2>2. CASE session.gen = e.gen
    <3>1. session'.gen = session.gen /\ session'.handle = NoSocket
          /\ session'.link = "down" /\ session'.owed = "no" /\ session'.outage = session.outage
      BY <1>1, <1>2, <2>2 DEF SessionType
    <3>2. SlotState' = "slot" /\ SlotState # "none"
      BY <1>1, <2>2, <3>1 DEF SlotState
    <3>3. QED
      BY <1>1, <3>1, <3>2 DEF Slot!LogsOut
  <2>3. QED
    BY <2>1, <2>2
<1>4. QED
  BY <1>3 DEF SlotStep, Slot!SlotNext

LEMMA GoneSlot ==
    ASSUME PurgeEnds \/ AdapterClosed
    PROVE  SlotStep
<1>1. session'.gen = 0 /\ session'.outage = "no" /\ told' = told
  BY DEF PurgeEnds, AdapterClosed, NoSession
<1>2. Slot!Destroyed
  BY <1>1 DEF Slot!Destroyed, SlotState
<1>3. QED
  BY <1>2 DEF SlotStep, Slot!SlotNext

LEMMA AdapterClosesSlot ==
    ASSUME Typed, AdapterCloses
    PROVE  SlotStep
<1>1. session \in SessionType /\ told' = told
  BY DEF Typed, TypeOK, AdapterCloses
<1>2. CASE session' = session
  BY <1>1, <1>2, SlotKept
<1>3. CASE session.gen # 0
           /\ session' = [ClearReconnect(session) EXCEPT !.stopping = "yes", !.owed = "no"]
  BY <1>1, <1>3, EndedKeeps, OutageStays, GivenUp
<1>4. QED
  BY <1>2, <1>3 DEF AdapterCloses

\* A session is forgotten as a whole: nothing of it is carried to the next.
LEMMA NothingRememberedKept ==
    Typed /\ NothingRemembered /\ Owing /\ [Next]_vars => NothingRemembered'
<1> SUFFICES ASSUME Typed, NothingRemembered, Owing, [Next]_vars, session'.gen = 0
             PROVE  session' = NoSession
  BY DEF NothingRemembered
<1>1. session \in SessionType
  BY DEF Typed, TypeOK
<1>2. CASE UNCHANGED session
  BY <1>2 DEF NothingRemembered
<1>3. ASSUME NEW c \in Callers, NEW m \in Methods, StartPairing(c, m)
      PROVE  session' = NoSession
  <2>1. Provisioned \in SessionType /\ Provisioned.gen # 0
    BY ProvisionedType DEF Typed
  <2>2. session'.gen = Provisioned.gen
    <3>1. CASE session' = [ClearReconnect(Provisioned) EXCEPT !.owed = "no"]
      BY <2>1, <3>1, ClearedKeeps
    <3>2. CASE session' = Provisioned
      BY <3>2
    <3>3. QED
      BY <1>3, <3>1, <3>2 DEF StartPairing
  <2>3. QED
    BY <2>1, <2>2
<1>4. ASSUME NEW c \in Callers, Dropped(c)
      PROVE  session' = NoSession
  <2>1. session.gen = 0
    BY <1>1, <1>4 DEF Dropped, SessionType
  <2>2. session = NoSession
    BY <2>1 DEF NothingRemembered
  <2>3. QED
    BY <1>4, <2>1, <2>2 DEF Dropped, NoSession
<1>5. ASSUME NEW h \in SocketIds, Opened(h)
      PROVE  session' = NoSession
  <2>1. socket[h].gen # 0
    BY <1>5 DEF Opened, Owing, Opening
  <2>2. session' = session
    BY <1>1, <1>5, <2>1 DEF Opened, SessionType
  <2>3. QED
    BY <2>2 DEF NothingRemembered
<1>6. ASSUME NEW h \in SocketIds, PumpHandles(h)
      PROVE  session' = NoSession
  <2>1. session.gen # 0
    BY <1>6, NoSocketIsNone DEF PumpHandles, Live, Owing, EmptySlot
  <2>2. CASE OnDisconnected(session, Head(socket[h].queue))
    BY <1>1, <2>1, <2>2, PolicyTyped
  <2>3. CASE OnConnected(session) \/ session' = [session EXCEPT !.lastQr = h]
    BY <1>1, <2>1, <2>3 DEF OnConnected, SessionType
  <2>4. QED
    BY <1>6, <2>2, <2>3 DEF PumpHandles
<1>7. ASSUME NEW h \in SocketIds, OpenFails(h)
      PROVE  session' = NoSession
  <2>1. CASE session.gen # 0 /\ OnDisconnected(session, "transient")
    BY <1>1, <2>1, PolicyTyped
  <2>2. CASE UNCHANGED session
    BY <2>2, <1>2
  <2>3. QED
    BY <1>7, <2>1, <2>2 DEF OpenFails
<1>8. ASSUME NEW t \in timers, TimerFires(t)
      PROVE  session' = NoSession
  <2>1. session.gen = 0
    BY <1>1, <1>8 DEF TimerFires, SessionType
  <2>2. session = NoSession /\ [NoSession EXCEPT !.timer = 0] = NoSession
    BY <2>1 DEF NothingRemembered, NoSession
  <2>3. session' \in {session, [session EXCEPT !.timer = 0]}
    BY <1>8 DEF TimerFires
  <2>4. QED
    BY <2>2, <2>3
<1>9. CASE LogoutStarts \/ PurgeStarts
  BY <1>1, <1>9, EndedKeeps DEF LogoutStarts, PurgeStarts, EndStarts
<1>10. CASE LogoutEnds
  <2>1. session.gen = 0 /\ ending["logout"].gen # 0
    BY <1>1, <1>10 DEF LogoutEnds, SessionType
  <2>2. QED
    BY <1>10, <2>1 DEF LogoutEnds, NothingRemembered
<1>11. CASE AdapterCloses
  BY <1>1, <1>2, <1>11, EndedKeeps DEF AdapterCloses
<1>12. CASE PurgeEnds \/ AdapterClosed
  BY <1>12 DEF PurgeEnds, AdapterClosed
<1>13. QED
  BY <1>2, <1>3, <1>4, <1>5, <1>6, <1>7, <1>8, <1>9, <1>10, <1>11, <1>12
  DEF Next, vars, QrArrives, QrTimesOut, CodeAnswered, Handshake, SocketCloses, EndReported,
      PumpReturns

LEMMA NextKeepsSlot ==
    Typed /\ Known /\ Owing /\ NothingRemembered /\ [Next]_vars => SlotStep
<1> SUFFICES ASSUME Typed, Known, Owing, NothingRemembered, [Next]_vars PROVE SlotStep
  OBVIOUS
<1>1. CASE UNCHANGED <<session, told>>
  BY <1>1, SlotKept
<1>2. CASE \E c \in Callers : \/ \E m \in Methods : StartPairing(c, m)
                              \/ Dropped(c) \/ QrArrives(c) \/ QrTimesOut(c) \/ CodeAnswered(c)
  BY <1>1, <1>2, StartPairingSlot, DroppedSlot DEF QrArrives, QrTimesOut, CodeAnswered
<1>3. CASE \E h \in SocketIds : \/ Opened(h) \/ OpenFails(h)
                                \/ Handshake(h) \/ SocketCloses(h) \/ EndReported(h)
                                \/ PumpHandles(h) \/ PumpReturns(h)
  BY <1>1, <1>3, OpenedSlot, OpenFailsSlot, PumpHandlesSlot
  DEF Handshake, SocketCloses, EndReported, PumpReturns
<1>4. CASE \E t \in timers : TimerFires(t)
  BY <1>4, TimerFiresSlot
<1>5. CASE LogoutStarts \/ PurgeStarts
  BY <1>5, EndStartsSlot
<1>6. CASE LogoutEnds \/ PurgeEnds \/ AdapterCloses \/ AdapterClosed
  BY <1>6, LogoutEndsSlot, GoneSlot, AdapterClosesSlot
<1>7. QED
  BY <1>1, <1>2, <1>3, <1>4, <1>5, <1>6 DEF Next, vars

\* Whatever pumps, timers, requests, logouts and purges do between one another's awaits,
\* the control plane sees a slot that keeps the contract of DeviceEngine (engine/types.ts).
THEOREM AdapterKeepsSlot == Spec => KeepsSlot
<1>1. Init => Slot!SlotInit /\ NothingRemembered
  BY DEF Init, Slot!SlotInit, SlotState, NoSession, NothingRemembered
<1>2. Typed /\ Known /\ Owing /\ NothingRemembered /\ [Next]_vars
        => [Slot!SlotNext]_(Slot!slotVars)
  BY NextKeepsSlot DEF SlotStep, Slot!slotVars
<1>3. Init => Known
  BY InitKnown
<1>4. QED
  BY <1>1, <1>2, <1>3, NextKnown, InitOwes, NextOwes, NothingRememberedKept, AlwaysTyped, PTL
  DEF Spec, KeepsSlot, Slot!SlotSpec
=============================================================================
