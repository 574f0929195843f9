------------------------------ MODULE Sessions ------------------------------
(***************************************************************************)
(* One device's session in the Baileys engine: BaileysAdapter (engine/     *)
(* baileys/adapter.ts) over the sockets of engine/baileys/socket.ts.       *)
(*                                                                         *)
(* The adapter is a set of asynchronous functions over one mutable session *)
(* record.  Each await is a point where another may run: opening a socket, *)
(* closing one, unlinking the phone.  An action is what runs between two   *)
(* awaits.  A handle's close() waits for nothing outside the process, so   *)
(* only pumps run before its caller goes on (Settled).  WhatsApp, the      *)
(* library and the phone are the environment: they put events into a       *)
(* socket's queue, and its pump takes them out.                            *)
(*                                                                         *)
(* Sessions of different devices share nothing but the stream of events,   *)
(* so one device is modelled.  A QR is named by the socket it came from;   *)
(* loggedIn, jid and pushName are data no step reads and are left out, and *)
(* so are the pair_code, message and ack events a live pump passes on.     *)
(***************************************************************************)
EXTENDS Naturals, Sequences, FiniteSets

CONSTANTS
    Callers,      \* pairing requests that run at a time
    MaxCalls,     \* pairing requests in all (bound)
    MaxSockets,   \* sockets that anybody still looks at (bound)
    MaxQueue,     \* events a socket holds undrained (bound)
    MaxUpsets,    \* closes, failed opens, logouts and purges (bound)
    Codes         \* status codes WhatsApp closes a socket with

ASSUME SessionsAssumption ==
    /\ MaxSockets \in Nat \ {0} /\ MaxQueue \in Nat \ {0} /\ MaxUpsets \in Nat
    /\ MaxCalls \in Nat
    /\ "timer" \notin Callers

VARIABLES
    session,     \* the entry of `sessions`; gen = 0 when there is none
    generations, \* sessions provisioned so far
    socket,      \* every socket: its state at WhatsApp, its queue and its pump
    timers,      \* reconnects scheduled with setTimeout
    caller,      \* pairing requests
    ending,      \* the logout and the purge under way
    shutdown,    \* close() of the adapter
    told,        \* the last thing the control plane was told of the device
    calls, upsets

vars == <<session, generations, socket, timers, caller, ending, shutdown, told, calls, upsets>>

DegradedAfter == 3
NoSocket == 0
SocketIds == 1..MaxSockets
Methods == {"qr", "code"}
Intents == Methods \cup {"resume", "none"}
Kinds == {"logged_out", "replaced", "restart_required", "transient", "bad_session"}
Events == Kinds \cup {"qr", "connected"}
Reports == {"nothing", "connected", "recovered", "disconnected", "degraded", "logged_out"}
Owners == Callers \cup {"timer", "nobody"}

NoSession == [gen |-> 0, handle |-> NoSocket, intent |-> "none", link |-> "down",
              failures |-> 0, outage |-> "no", owed |-> "no",
              lastQr |-> NoSocket, stopping |-> "no", timer |-> 0]
Unused == [state |-> "unused", intent |-> "none", gen |-> 0, by |-> "nobody",
           phase |-> "handshake", pump |-> "off", queue |-> <<>>]
Idle == [pc |-> "idle", method |-> "none", gen |-> 0]
NotEnding == [gen |-> 0, sock |-> NoSocket]

SessionType == [gen : Nat, handle : {NoSocket} \cup SocketIds, intent : Intents,
                link : {"up", "down"}, failures : Nat, outage : {"yes", "no"},
                owed : {"yes", "no"}, lastQr : {NoSocket} \cup SocketIds,
                stopping : {"yes", "no"}, timer : Nat]
SocketType == [state : {"unused", "opening", "open", "closed"}, intent : Intents, gen : Nat,
               by : Owners, phase : {"handshake", "linked", "over"},
               pump : {"off", "on", "done"}, queue : Seq(Events)]
TimerType == [id : Nat \ {0}, intent : Intents \ {"none"}, gen : Nat]
CallerType == [pc : {"idle", "dropping", "opening", "waiting", "asking"},
               method : Methods \cup {"none"}, gen : Nat]
EndingType == [gen : Nat, sock : {NoSocket} \cup SocketIds]

TypeOK ==
    /\ session \in SessionType
    /\ generations \in Nat
    /\ socket \in [SocketIds -> SocketType]
    /\ timers \subseteq TimerType
    /\ caller \in [Callers -> CallerType]
    /\ ending \in [{"logout", "purge"} -> EndingType]
    /\ shutdown \in {"no", "closing", "closed"}
    /\ told \in Reports
    /\ calls \in Nat /\ upsets \in Nat

Init ==
    /\ session = NoSession
    /\ generations = 0
    /\ socket = [s \in SocketIds |-> Unused]
    /\ timers = {}
    /\ caller = [c \in Callers |-> Idle]
    /\ ending = [e \in {"logout", "purge"} |-> NotEnding]
    /\ shutdown = "no"
    /\ told = "nothing"
    /\ calls = 0 /\ upsets = 0

-----------------------------------------------------------------------------
(* What the functions share.                                               *)

\* Mutant: a code upstream adds is passed on as it is.
ClassifyKnown(code) ==
    CASE code \in {"loggedOut", "forbidden"} -> "logged_out"
      [] code = "connectionReplaced" -> "replaced"
      [] OTHER -> code

\* A status code read into a reason: what the adapter's policy hangs on.
Classify(code) ==
    CASE code \in {"loggedOut", "forbidden"} -> "logged_out"
      [] code = "connectionReplaced" -> "replaced"
      [] code = "restartRequired" -> "restart_required"
      [] code \in {"badSession", "multideviceMismatch"} -> "bad_session"
      [] OTHER -> "transient"

Recoverable(kind) == kind \in {"restart_required", "transient"}

\* The session a request finds, created when there is none.
Provisioned ==
    IF session.gen # 0 THEN session ELSE [NoSession EXCEPT !.gen = generations + 1]

Provision ==
    generations' = IF session.gen # 0 THEN generations ELSE generations + 1

\* Awaiting a close() takes a few turns of the microtask queue: no timer, request or
\* answer from the network comes in between.
Settled ==
    /\ \A c \in Callers : caller[c].pc # "dropping"
    /\ ending["purge"].gen = 0
    /\ ending["logout"].gen # 0 => ending["logout"].sock # NoSocket
    /\ shutdown # "closing"

Stopped(s) == s.stopping = "yes" \/ shutdown # "no"

\* clearReconnect: only the timer the session remembers is cancelled.
ClearReconnect(s) == [s EXCEPT !.timer = 0]
WithoutTimer(s) == {t \in timers : s.timer = 0 \/ t.id # s.timer}

\* The handle setTimeout returns: none of those still pending.
NextTimer == CHOOSE n \in 1..(Cardinality(timers) + 1) : \A t \in timers : t.id # n

\* A handle's own close(): safe to call twice.
Close(h) == [s \in SocketIds |->
    IF s = h /\ socket[s].state = "open" THEN [socket[s] EXCEPT !.state = "closed"]
    ELSE socket[s]]

Free == {s \in SocketIds : /\ socket[s].state = "unused" \/ socket[s].pump = "done"
                           /\ session.handle # s /\ session.lastQr # s}

\* connect up to its await: the session object is captured, the socket dialled.
Dial(s, who, intent) ==
    \E h \in Free :
        /\ \A g \in Free : h <= g
        /\ socket' = [socket EXCEPT ![h] = [Unused EXCEPT !.state = "opening", !.intent = intent,
                                                          !.gen = s.gen, !.by = who]]

\* socketFor's last lines: the handle the session has by now, or an error.
Obtains(c, m, s) ==
    caller' = [caller EXCEPT ![c] =
        IF s.handle = NoSocket THEN Idle
        ELSE [Idle EXCEPT !.pc = IF m = "qr" THEN "waiting" ELSE "asking"]]

\* The tail of socketFor: dial when there is no handle, then return whatever handle the
\* session has by now, or throw.
SocketFor(c, m, s) ==
    \/ /\ s.gen # 0 /\ s.handle = NoSocket /\ ~Stopped(s)
       /\ Dial(s, c, m)
       /\ caller' = [caller EXCEPT ![c] = [pc |-> "opening", method |-> m, gen |-> s.gen]]
    \/ /\ s.gen = 0 \/ s.handle # NoSocket \/ Stopped(s)
       /\ Obtains(c, m, s)
       /\ UNCHANGED socket

-----------------------------------------------------------------------------
(* Pairing: startPairing and startPairingWithCode.                         *)

\* A socket opened for another intent is closed first; the close is awaited.
StartPairing(c, m) ==
    /\ Settled
    /\ caller[c].pc = "idle" /\ calls < MaxCalls
    /\ shutdown = "no"             \* the server stops before the engines are closed
    /\ calls' = calls + 1
    /\ Provision
    /\ LET s == Provisioned IN
        \/ /\ s.handle # NoSocket /\ s.intent # m
           /\ session' = [ClearReconnect(s) EXCEPT !.owed = "no"]
           /\ timers' = WithoutTimer(s)
           /\ socket' = Close(s.handle)
           /\ caller' = [caller EXCEPT ![c] = [pc |-> "dropping", method |-> m, gen |-> s.gen]]
        \/ /\ s.handle = NoSocket \/ s.intent = m
           /\ session' = s
           /\ SocketFor(c, m, s)
           /\ UNCHANGED timers
    /\ UNCHANGED <<ending, shutdown, told, upsets>>

\* The dropped socket's close returned.
Dropped(c) ==
    /\ caller[c].pc = "dropping"
    /\ LET s == IF session.gen # caller[c].gen THEN session
                ELSE [session EXCEPT !.handle = NoSocket, !.intent = "none", !.link = "down"]
       IN  /\ session' = s
           /\ SocketFor(c, caller[c].method, s)
    /\ UNCHANGED <<generations, timers, ending, shutdown, told, upsets, calls>>

\* open() resolved: the handle goes to the session object captured before the await,
\* whatever became of it, and the pump starts.
Opened(h) ==
    /\ Settled
    /\ socket[h].state = "opening"
    /\ socket' = [socket EXCEPT ![h] = [Unused EXCEPT !.state = "open", !.pump = "on"]]
    /\ LET s == IF session.gen # socket[h].gen THEN session
                ELSE [session EXCEPT !.handle = h, !.intent = socket[h].intent]
           c == socket[h].by
       IN  /\ session' = s
           /\ \/ c \in Callers /\ Obtains(c, caller[c].method, s)
              \/ c = "timer" /\ UNCHANGED caller
    /\ UNCHANGED <<generations, timers, ending, shutdown, told, upsets, calls>>

\* firstQr: the session's copy of the last QR, from whichever socket it came.
QrArrives(c) ==
    /\ Settled
    /\ caller[c].pc = "waiting"
    /\ session.lastQr # NoSocket
    /\ caller' = [caller EXCEPT ![c] = Idle]
    /\ UNCHANGED <<session, generations, socket, timers, ending, shutdown, told, upsets, calls>>

QrTimesOut(c) ==
    /\ Settled
    /\ caller[c].pc = "waiting"
    /\ session.lastQr = NoSocket
    /\ caller' = [caller EXCEPT ![c] = Idle]
    /\ UNCHANGED <<session, generations, socket, timers, ending, shutdown, told, upsets, calls>>

\* requestPairingCode on the handle socketFor returned answers or throws.
CodeAnswered(c) ==
    /\ Settled
    /\ caller[c].pc = "asking"
    /\ caller' = [caller EXCEPT ![c] = Idle]
    /\ UNCHANGED <<session, generations, socket, timers, ending, shutdown, told, upsets, calls>>

-----------------------------------------------------------------------------
(* What WhatsApp does to an open socket.                                   *)

Queued(h, e) ==
    /\ Len(socket[h].queue) < MaxQueue
    /\ socket' = [socket EXCEPT ![h].queue = Append(@, e),
                                ![h].phase = IF e = "connected" THEN "linked"
                                             ELSE IF e \in Kinds THEN "over" ELSE @,
                                ![h].state = IF e \in Kinds THEN "closed" ELSE @]

Handshake(h) ==
    /\ Settled
    /\ socket[h].state = "open" /\ socket[h].phase = "handshake" /\ socket[h].pump = "on"
    /\ \/ Queued(h, "connected")
       \/ "qr" \notin {socket[h].queue[i] : i \in DOMAIN socket[h].queue} /\ Queued(h, "qr")
    /\ UNCHANGED <<session, generations, timers, caller, ending, shutdown, told, upsets, calls>>

\* connection.update "close": the classified reason, after which the socket is closed.
SocketCloses(h) ==
    /\ Settled
    /\ socket[h].state = "open" /\ socket[h].pump = "on" /\ upsets < MaxUpsets
    /\ \E code \in Codes : Queued(h, Classify(code))
    /\ upsets' = upsets + 1
    /\ UNCHANGED <<session, generations, timers, caller, ending, shutdown, told, calls>>

\* A socket we closed reports its own end to whoever still drains it: no status code.
EndReported(h) ==
    /\ socket[h].state = "closed" /\ socket[h].phase # "over" /\ socket[h].pump = "on"
    /\ Queued(h, "transient")
    /\ UNCHANGED <<session, generations, timers, caller, ending, shutdown, told, upsets, calls>>

-----------------------------------------------------------------------------
(* The pump of a socket, and the policy for a socket that is gone.          *)

\* Mutant: the socket is forgotten, the session still says connected.
LostStillUp(s) == [s EXCEPT !.handle = NoSocket, !.intent = "none", !.outage = "yes"]


Lost(s) == [s EXCEPT !.link = "down", !.handle = NoSocket, !.intent = "none", !.outage = "yes"]

\* Mutant: a session that failed before is not tried again.
RetryOnce(s) ==
    LET n == NextTimer IN
    /\ session' = [Lost(s) EXCEPT !.failures = @ + 1, !.owed = "yes",
                                  !.timer = IF s.failures = 0 THEN n ELSE 0]
    /\ timers' = IF s.failures # 0 THEN timers
                 ELSE timers \cup {[id |-> n, intent |-> "resume", gen |-> s.gen]}
    /\ told' = "disconnected"

\* Retry with backoff, remembering why the lost socket had been opened.
Retry(s) ==
    LET intent == IF s.intent = "none" THEN "resume" ELSE s.intent
        n == NextTimer
    IN  /\ session' = [Lost(s) EXCEPT !.failures = @ + 1, !.timer = n, !.owed = "yes"]
        /\ timers' = timers \cup {[id |-> n, intent |-> intent, gen |-> s.gen]}
        /\ told' = IF s.failures + 1 = DegradedAfter THEN "degraded" ELSE "disconnected"

OnDisconnected(s, kind) ==
    \/ /\ kind = "logged_out"
       /\ session' = [Lost(s) EXCEPT !.owed = "no"]
       /\ told' = "logged_out"
       /\ UNCHANGED timers
    \/ /\ kind # "logged_out" /\ (~Recoverable(kind) \/ Stopped(s))
       /\ session' = [Lost(s) EXCEPT !.owed = "no"]
       /\ told' = "disconnected"
       /\ UNCHANGED timers
    \/ /\ Recoverable(kind) /\ ~Stopped(s)
       /\ Retry(s)

OnConnected(s) ==
    /\ session' = [s EXCEPT !.link = "up", !.failures = 0, !.outage = "no",
                            !.owed = "no"]
    /\ told' = IF s.outage = "yes" THEN "recovered" ELSE "connected"
    /\ UNCHANGED timers

\* Mutant: a pump goes on with the events of a socket that was let go of.
LiveAnyway(h) == session.gen # 0

\* The events of a socket the session no longer holds are nobody's.
Live(h) == session.handle = h

PumpHandles(h) ==
    /\ socket[h].pump = "on" /\ socket[h].queue # <<>> /\ Live(h)
    /\ socket' = [socket EXCEPT ![h].queue = Tail(@)]
    /\ LET e == Head(socket[h].queue) IN
        \/ e \in Kinds /\ OnDisconnected(session, e)
        \/ e = "connected" /\ OnConnected(session)
        \/ e = "qr" /\ session' = [session EXCEPT !.lastQr = h] /\ UNCHANGED <<timers, told>>
    /\ UNCHANGED <<generations, caller, ending, shutdown, upsets, calls>>

\* The pump returns on a stale event, or when a closed socket is drained.  An open socket
\* without a pump is heard of no more.
PumpReturns(h) ==
    /\ socket[h].pump = "on"
    /\ \/ socket[h].queue # <<>> /\ ~Live(h)
       \/ socket[h].queue = <<>> /\ socket[h].state = "closed"
    /\ socket' = [socket EXCEPT ![h] = IF @.state = "closed" THEN Unused
                                       ELSE [Unused EXCEPT !.state = "open", !.pump = "done"]]
    /\ UNCHANGED <<session, generations, timers, caller, ending, shutdown, told, upsets, calls>>

\* The timer opens a socket without asking whether the session has one.
TimerFires(t) ==
    /\ Settled
    /\ timers' = timers \ {t}
    /\ LET s == IF session.gen = t.gen THEN [session EXCEPT !.timer = 0] ELSE session IN
        /\ session' = s
        /\ \/ s.gen # 0 /\ ~Stopped(s) /\ Dial(s, "timer", t.intent)
           \/ (s.gen = 0 \/ Stopped(s)) /\ UNCHANGED socket
    /\ UNCHANGED <<generations, caller, ending, shutdown, told, upsets, calls>>

\* Mutant: a reconnect that fails is only logged.
OpenFailsLogged(h) ==
    /\ Settled
    /\ socket[h].state = "opening" /\ upsets < MaxUpsets
    /\ upsets' = upsets + 1
    /\ socket' = [socket EXCEPT ![h] = Unused]
    /\ caller' = [c \in Callers |-> IF c = socket[h].by THEN Idle ELSE caller[c]]
    /\ UNCHANGED <<session, generations, timers, ending, shutdown, told, calls>>

\* open() rejected: a pairing request passes the error on, the timer's attempt counts as
\* one more transient loss of the session there is now.
OpenFails(h) ==
    /\ Settled
    /\ socket[h].state = "opening" /\ upsets < MaxUpsets
    /\ upsets' = upsets + 1
    /\ socket' = [socket EXCEPT ![h] = Unused]
    /\ LET c == socket[h].by IN
        \/ /\ c \in Callers
           /\ caller' = [caller EXCEPT ![c] = Idle]
           /\ UNCHANGED <<session, timers, told>>
        \/ /\ c = "timer" /\ session.gen # 0
           /\ OnDisconnected(session, "transient")
           /\ UNCHANGED caller
        \/ c = "timer" /\ session.gen = 0 /\ UNCHANGED <<caller, session, timers, told>>
    /\ UNCHANGED <<generations, ending, shutdown, calls>>

-----------------------------------------------------------------------------
(* Deliberate ends: logout, purge and the adapter's close.                 *)

EndStarts(what) ==
    /\ Settled
    /\ session.gen # 0 /\ ending[what].gen = 0 /\ upsets < MaxUpsets
    /\ upsets' = upsets + 1
    /\ session' = [ClearReconnect(session) EXCEPT !.stopping = "yes", !.owed = "no"]
    /\ timers' = WithoutTimer(session)
    /\ ending' = [ending EXCEPT ![what] = [gen |-> session.gen, sock |-> session.handle]]

\* logout() asks the phone; purge() only closes.
LogoutStarts ==
    /\ EndStarts("logout")
    /\ UNCHANGED <<generations, socket, caller, shutdown, told, calls>>

\* The phone answered, or the call failed: then the socket is let go of, not closed.
LogoutEnds ==
    LET e == ending["logout"] IN
    /\ e.gen # 0
    /\ e.sock = NoSocket \/ Settled
    /\ socket' \in {socket, Close(e.sock)}      \* no socket: the two are one
    /\ session' = IF session.gen # e.gen THEN session
                  ELSE [session EXCEPT !.handle = NoSocket, !.intent = "none", !.link = "down",
                                       !.stopping = "no", !.lastQr = NoSocket,
                                       !.owed = "no"]
    /\ ending' = [ending EXCEPT !["logout"] = NotEnding]
    /\ told' = "logged_out"
    /\ UNCHANGED <<generations, timers, caller, shutdown, upsets, calls>>

PurgeStarts ==
    /\ EndStarts("purge")
    /\ socket' = Close(session.handle)
    /\ UNCHANGED <<generations, caller, shutdown, told, calls>>

\* The entry goes by device id, whichever session it is by now.
PurgeEnds ==
    /\ ending["purge"].gen # 0
    /\ session' = NoSession
    /\ ending' = [ending EXCEPT !["purge"] = NotEnding]
    /\ UNCHANGED <<generations, socket, timers, caller, shutdown, told, upsets, calls>>

AdapterCloses ==
    /\ Settled
    /\ shutdown = "no"
    /\ shutdown' = "closing"
    /\ session' = IF session.gen = 0 THEN session
                  ELSE [ClearReconnect(session) EXCEPT !.stopping = "yes", !.owed = "no"]
    /\ timers' = WithoutTimer(session)
    /\ socket' = Close(session.handle)
    /\ UNCHANGED <<generations, caller, ending, told, upsets, calls>>

AdapterClosed ==
    /\ shutdown = "closing"
    /\ shutdown' = "closed"
    /\ session' = NoSession
    /\ UNCHANGED <<generations, socket, timers, caller, ending, told, upsets, calls>>

-----------------------------------------------------------------------------
Next ==
    \/ \E c \in Callers : \/ \E m \in Methods : StartPairing(c, m)
                          \/ Dropped(c) \/ QrArrives(c) \/ QrTimesOut(c) \/ CodeAnswered(c)
    \/ \E h \in SocketIds : \/ Opened(h) \/ OpenFails(h)
                            \/ Handshake(h) \/ SocketCloses(h) \/ EndReported(h)
                            \/ PumpHandles(h) \/ PumpReturns(h)
    \/ \E t \in timers : TimerFires(t)
    \/ LogoutStarts \/ LogoutEnds \/ PurgeStarts \/ PurgeEnds
    \/ AdapterCloses \/ AdapterClosed

\* Promises resolve, timers fire and pumps run; nothing is assumed of the phone.
Fairness ==
    /\ WF_vars(\E c \in Callers : Dropped(c) \/ QrArrives(c) \/ QrTimesOut(c) \/ CodeAnswered(c))
    /\ WF_vars(\E h \in SocketIds : Opened(h))
    /\ WF_vars(\E h \in SocketIds : PumpHandles(h) \/ PumpReturns(h))
    /\ WF_vars(\E t \in timers : TimerFires(t))
    /\ WF_vars(LogoutEnds \/ PurgeEnds \/ AdapterClosed)

Spec == Init /\ [][Next]_vars /\ Fairness

-----------------------------------------------------------------------------
(* Properties.                                                             *)

\* send() dispatches to the handle of a session that says it is connected, and the
\* control plane lets a request reach send() when it was told the device is up: a session
\* that says connected holds a socket, and nothing was told of the device since it came up.
\* (Of a slot that was purged and provisioned again only the first half holds: a logout
\* that was asking the phone meanwhile reports its end late.)
SendableIsKnown ==
    session.link = "up" =>
        /\ session.handle # NoSocket
        /\ session.gen = 1 => told \in {"connected", "recovered"}

\* A session whose socket was lost in a way that reconnecting can mend is never left with
\* nothing scheduled: it has a socket, or a reconnect is pending or under way, until
\* somebody ends it or pairs the device anew (onDisconnected, and the catch of its timer).
OutageIsRetried ==
    session.owed = "yes" /\ ~Stopped(session) =>
        \/ session.handle # NoSocket
        \/ timers # {}
        \/ \E h \in SocketIds : socket[h].state = "opening"

\* A lost socket that reconnecting can mend is replaced in the end.
Recovers == []<>(session.owed = "no" \/ session.handle # NoSocket)

\* What a session is to the control plane.
SlotState ==
    IF session.gen = 0 THEN "none"
    ELSE IF session.link = "up" THEN "linked"
    ELSE IF session.handle # NoSocket THEN "open"
    ELSE IF session.owed = "yes" THEN "down" ELSE "slot"

Slot == INSTANCE EngineSlot WITH slot <- SlotState, lost <- session.outage

\* The adapter keeps the contract's word: a slot comes up only over a connection it holds,
\* and every loss, retry, recovery and end is reported as one, whatever closes, late
\* opens, logouts and purges come in between (the conformance of engine/types.ts).
KeepsSlot == Slot!SlotSpec

\* The QR a pairing request is answered with belongs to the socket the session holds.
\* It need not: lastQr outlives its socket (SessionsStaleQr.cfg), and no run asks it.
QrIsOfTheLiveSocket ==
    [][\A c \in Callers : QrArrives(c) => session.lastQr = session.handle]_vars
=============================================================================
