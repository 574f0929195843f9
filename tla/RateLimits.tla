----------------------------- MODULE RateLimits -----------------------------
(***************************************************************************)
(* Rate limiting (ops/rate-limit.ts): fixed windows, one row of            *)
(* rate_limits per subject, bucket and window start, kept in the database  *)
(* and so shared by every process that ever runs.  The subject and the     *)
(* bucket are fixed here, rows of two of them never meeting.               *)
(*                                                                         *)
(* The hazard is the one the code's comments tell twice: a row is named by *)
(* where its window starts and not by how long it lasts, so a deploy that  *)
(* changes the length writes to the rows of the old one, and the sweep     *)
(* deletes by the end the row remembers.                                   *)
(***************************************************************************)
EXTENDS Naturals

CONSTANTS
    Widths,   \* windowMs of the limit, over the deploys to come
    MaxUses,  \* max of the limit
    Grace,    \* olderThanMs of the sweep
    MaxTime   \* (bound)

ASSUME LimitAssumption ==
    /\ Widths \subseteq Nat \ {0} /\ Widths # {}
    /\ MaxUses \in Nat \ {0}
    /\ Grace \in Nat /\ MaxTime \in Nat

VARIABLES
    now,      \* the clock
    width,    \* windowMs of the build that runs
    rows,     \* rate_limits, by window_start
    granted   \* history: uses allowed under each width in its current window

limitVars == <<now, width, rows, granted>>

Row == [count : Nat, expires : Nat]

LimitTypeOK ==
    /\ now \in Nat /\ width \in Widths
    /\ DOMAIN rows \subseteq Nat
    /\ \A s \in DOMAIN rows : rows[s] \in Row
    /\ granted \in [Widths -> Nat]

LimitInit ==
    /\ now = 0 /\ width \in Widths
    /\ rows = [s \in {} |-> [count |-> 0, expires |-> 0]]
    /\ granted = [w \in Widths |-> 0]

\* Math.floor(now / windowMs) * windowMs.
WindowStart(w, t) == t - (t % w)

Later(a, b) == IF a > b THEN a ELSE b

\* The row consume leaves: ON CONFLICT counts up and lets the end only grow.
\* What it did before: the end is that of the limit that made the row.
CountedKeepingEnd(start) ==
    IF start \in DOMAIN rows
    THEN [rows[start] EXCEPT !.count = @ + 1]
    ELSE [count |-> 1, expires |-> start + width]

Counted(start) ==
    IF start \in DOMAIN rows
    THEN [count |-> rows[start].count + 1,
          expires |-> Later(rows[start].expires, start + width)]
    ELSE [count |-> 1, expires |-> start + width]

\* The WHERE of the upsert: a spent budget is neither counted nor extended.
HasRoom(start) == start \in DOMAIN rows => rows[start].count < MaxUses

\* consume, when it allows the use.  assertBucketIsStable remembers one width
\* for a bucket and a process has one, so it never throws.
Consume ==
    LET start == WindowStart(width, now)
    IN  /\ HasRoom(start)
        /\ rows' = [s \in DOMAIN rows \cup {start} |->
                      IF s = start THEN Counted(start) ELSE rows[s]]
        /\ granted' = [granted EXCEPT ![width] = @ + 1]
        /\ UNCHANGED <<now, width>>

\* sweep: windows that closed more than Grace ago, by the end they remember.
SweepLimits ==
    /\ rows' = [s \in {t \in DOMAIN rows : rows[t].expires + Grace >= now} |-> rows[s]]
    /\ UNCHANGED <<now, width, granted>>

\* Time passes; the history of a width whose window closes starts again.
Tick ==
    /\ now < MaxTime
    /\ now' = now + 1
    /\ granted' = [w \in Widths |->
                     IF WindowStart(w, now + 1) = WindowStart(w, now)
                     THEN granted[w] ELSE 0]
    /\ UNCHANGED <<width, rows>>

\* Another build starts on the same database.
Deploy(w) == width' = w /\ UNCHANGED <<now, rows, granted>>

LimitNext == Consume \/ SweepLimits \/ Tick \/ \E w \in Widths : Deploy(w)

LimitSpec == LimitInit /\ [][LimitNext]_limitVars

-----------------------------------------------------------------------------
(* No window, of whatever length a deploy gives it, lets more uses through *)
(* than the limit says: not across a restart, not after a deploy wrote to  *)
(* the rows of a shorter window, and not when the sweep runs in the middle *)
(* (the two reproductions told at rate-limit.ts:60 and 109).               *)
BudgetHolds == \A w \in Widths : granted[w] <= MaxUses
=============================================================================
