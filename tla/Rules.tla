------------------------------- MODULE Rules -------------------------------
(***************************************************************************)
(* The automation rules of one binding: how a definition is validated when *)
(* it is saved (rules/schema.ts), stored (stores/rule-store.ts behind      *)
(* api/routes/rules.ts), and what an event makes of the stored rules       *)
(* (rules/evaluate.ts).  Every action a rule plans is only planned:        *)
(* nothing executes it yet.  What a pattern is, and which are accepted, is *)
(* PatternAnalysis's business.                                             *)
(*                                                                         *)
(* An edit is one action: the statement repeats the predicates its check   *)
(* read, and only `version`, left out, depends on what came between.  An   *)
(* evaluation is one action for each round of its loop, and nothing else   *)
(* runs meanwhile: evaluate() is synchronous, over rules read at once.     *)
(***************************************************************************)
EXTENDS Integers, FiniteSets, SequencesExt

CONSTANTS
    Definitions,     \* rule definitions a project may post
    Companions,      \* of them, those stored beside others; the rest are alone (bound)
    Events,          \* what an inbound message says, as Subject's argument
    NoEvent,
    Compiles(_),     \* compilePattern accepts the pattern
    Found(_, _),     \* the pattern matches somewhere in the text
    MaxRules         \* rules of the binding (bound)

\* What the route's schema says of a definition.
ASSUME RulesAssumption ==
    /\ Companions \subseteq Definitions
    /\ \A r \in Definitions : /\ r.priority \in Nat
                              /\ r.enabled \in BOOLEAN /\ r.stop \in BOOLEAN
    /\ NoEvent \notin Events
    /\ MaxRules \in Nat \ {0}

VARIABLES
    rules,     \* the binding's rows; their names tell them apart
    insecure,  \* ALLOW_INSECURE_WEBHOOK_TARGETS of this process
    event,     \* the event evaluated last, since the last edit
    place,     \* where the query put each of the rules it gave the evaluation
    slow,      \* the matches that overran their budget: a rule and a condition of it
    todo,      \* the loaded rules the loop has not come to
    matched,   \* Evaluation.matched
    timedOut,  \* Evaluation.timedOut, by name
    stopped    \* the loop was left by a rule that stops the rest

loop == <<todo, matched, timedOut, stopped>>
ruleVars == <<rules, insecure, event, place, slow, loop>>

-----------------------------------------------------------------------------
(* Conditions.  A value is [reads, text, at]: what String(value) reads as  *)
(* ("absent" for null and undefined, else "text", "number" or "date"), its *)
(* characters and, for a number or a date, where it lies.                  *)
Absent == [reads |-> "absent", text |-> <<>>, at |-> 0]
Lower(w) == [i \in DOMAIN w |-> IF w[i] = "A" THEN "a" ELSE w[i]]

Subject(e) == e @@ [device |-> [reads |-> "text", text |-> <<"b">>, at |-> 0]]
ReadPath(subject, field) == IF field \in DOMAIN subject THEN subject[field] ELSE Absent

Includes(w, part) == \E i \in 0..Len(w) : IsPrefix(part, SubSeq(w, i + 1, Len(w)))

\* op is gt or lte; gte and lt are the same two turned round.
Compare(op, left, right) ==
    /\ left.reads \in {"number", "date"} /\ left.reads = right.reads
    /\ IF op = "gt" THEN left.at > right.at ELSE left.at <= right.at

\* in and not_in take a set of values; any other value makes one false and one true.
Test(c, subject) ==
    LET actual == ReadPath(subject, c.field)
    IN  CASE c.op = "exists"      -> actual # Absent
          [] c.op = "eq"          -> actual = c.value
          [] c.op = "neq"         -> actual # c.value
          [] c.op = "in"          -> \E v \in c.value : v = actual
          [] c.op = "not_in"      -> \A v \in c.value : v # actual
          [] c.op = "contains"    -> Includes(Lower(actual.text), Lower(c.value.text))
          [] c.op = "starts_with" -> IsPrefix(Lower(c.value.text), Lower(actual.text))
          [] c.op = "ends_with"   -> IsSuffix(Lower(c.value.text), Lower(actual.text))
          [] c.op = "matches"     -> Found(c.value, actual.text)
          [] OTHER                -> Compare(c.op, actual, c.value)

-----------------------------------------------------------------------------
(* Saving and loading.                                                     *)
Conditions(r) == ToSet(r.all) \cup ToSet(r.any) \cup ToSet(r.none)

\* Mutant: a group of no conditions counts as conditions.
PrepareCountsGroups(r) ==
    /\ \A c \in Conditions(r) : c.op = "matches" => Compiles(c.value)
    /\ r.forward = "http" => insecure
PrepareRule(r) ==
    /\ Conditions(r) # {}
    /\ \A c \in Conditions(r) : c.op = "matches" => Compiles(c.value)
    /\ r.forward = "http" => insecure

\* The rules an evaluation is given.
Prepared == {r \in rules : r.enabled /\ PrepareRule(r)}

Names == {r.name : r \in rules}
StoredPatterns ==
    {c.value : c \in {x \in UNION {Conditions(r) : r \in rules} : x.op = "matches"}}

RulesInit ==
    /\ rules = {} /\ insecure \in BOOLEAN
    /\ event = NoEvent /\ place = <<>> /\ slow = {} /\ todo = {}
    /\ matched = <<>> /\ timedOut = {} /\ stopped = FALSE

Evaluating == todo # {} /\ ~stopped

\* POST /devices/:ref/rules; two rules of one name are refused by check and by index.
Create(r) ==
    /\ PrepareRule(r) /\ r.name \notin Names
    /\ Cardinality(rules) < MaxRules
    /\ rules' = rules \cup {r}
    /\ UNCHANGED insecure

\* PUT /devices/:ref/rules/:id.
Update(old, r) ==
    /\ PrepareRule(r) /\ \A q \in rules \ {old} : q.name # r.name
    /\ rules' = (rules \ {old}) \cup {r}
    /\ UNCHANGED insecure

RemoveRule(r) ==
    /\ rules' = rules \ {r}
    /\ UNCHANGED insecure

\* The process comes back with the other setting; a stored rule may not prepare then.
Reconfigure ==
    /\ insecure' = ~insecure
    /\ UNCHANGED rules

Admitted == IF rules = {} THEN Definitions
            ELSE IF rules \subseteq Companions THEN Companions ELSE {}

Edit ==
    /\ ~Evaluating
    /\ \/ \E r \in Admitted : Create(r)
       \/ \E old \in rules, r \in Companions : Update(old, r)
       \/ \E r \in rules : RemoveRule(r)
       \/ Reconfigure
    /\ event' = NoEvent /\ place' = <<>> /\ slow' = {} /\ todo' = {}
    /\ matched' = <<>> /\ timedOut' = {} /\ stopped' = FALSE

-----------------------------------------------------------------------------
(* Evaluation.  JavaScript cannot interrupt a match that overruns, so the  *)
(* clock is read afterwards, and every condition is tested, decisive or    *)
(* not.  A condition a rule repeats is matched once here (bound).          *)

\* What is timed: each match of each rule on its own, by the clock, so a pattern
\* may overrun in one rule and not in another.
Matches == UNION {{r} \X {c \in Conditions(r) : c.op = "matches"} : r \in Prepared}

\* The orders the rules can come in: the query's is by priority and says nothing
\* of a tie, and the sort over it is stable.
Orders ==
    {p \in [Prepared -> 1..Cardinality(Prepared)] :
        \A q, r \in Prepared : q # r =>
            /\ p[q] # p[r]
            /\ q.priority < r.priority => p[q] < p[r]}

\* runRules, for this binding.  One event between two edits is enough (bound): an
\* evaluation reads nothing an earlier one left.
LoadRules(e, p, s) ==
    /\ event = NoEvent /\ Prepared # {}
    /\ event' = e /\ place' = p /\ slow' = s /\ todo' = Prepared
    /\ UNCHANGED <<rules, insecure, matched, timedOut, stopped>>

Overran(r) == \E m \in slow : m[1] = r

RunMatch(r, c) == Test(c, Subject(event)) /\ <<r, c>> \notin slow

MatchRule(r) ==
    /\ \A c \in ToSet(r.all) : RunMatch(r, c)
    /\ r.any = <<>> \/ \E c \in ToSet(r.any) : RunMatch(r, c)
    /\ \A c \in ToSet(r.none) : ~RunMatch(r, c)
    /\ ~Overran(r)

\* The order of the sort.
Before(q, r) == place[q] < place[r]

\* The loop comes to the first rule it has not come to.
ComesTo(r) ==
    /\ Evaluating /\ r \in todo
    /\ \A q \in todo \ {r} : Before(r, q)
    /\ todo' = todo \ {r}
    /\ UNCHANGED <<rules, insecure, event, place, slow>>

\* Mutant: a rule that timed out stops the rules after it.
TimesOutAndStops(r) ==
    /\ ComesTo(r) /\ Overran(r)
    /\ timedOut' = timedOut \cup {r.name}
    /\ stopped' = r.stop
    /\ UNCHANGED matched
TimesOut(r) ==
    /\ ComesTo(r) /\ Overran(r)
    /\ timedOut' = timedOut \cup {r.name}
    /\ UNCHANGED <<matched, stopped>>

Fires(r) ==
    /\ ComesTo(r) /\ MatchRule(r)
    /\ matched' = Append(matched, r.name)
    /\ stopped' = r.stop
    /\ UNCHANGED timedOut

PassesBy(r) ==
    /\ ComesTo(r) /\ ~Overran(r) /\ ~MatchRule(r)
    /\ UNCHANGED <<matched, timedOut, stopped>>

RulesNext ==
    \/ Edit
    \/ \E e \in Events, p \in Orders, s \in SUBSET Matches : LoadRules(e, p, s)
    \/ \E r \in todo : TimesOut(r) \/ Fires(r) \/ PassesBy(r)

RulesSpec == RulesInit /\ [][RulesNext]_ruleVars

-----------------------------------------------------------------------------
(* Properties.                                                             *)

(* The rows have different names and something to test, and what an        *)
(* evaluation says is about them.                                          *)
RulesTypeOK ==
    /\ \A q, r \in rules : q # r => q.name # r.name
    /\ \A r \in rules : Conditions(r) # {}
    /\ insecure \in BOOLEAN /\ event \in Events \cup {NoEvent}
    /\ place \in IF event = NoEvent THEN {<<>>} ELSE Orders
    /\ slow \subseteq Matches /\ todo \subseteq Prepared
    /\ matched \in Seq(Names) /\ timedOut \subseteq Names /\ stopped \in BOOLEAN

(* What an event makes of the stored rules (rules/evaluate.ts:74), said    *)
(* without the loop: a rule fires when it still prepares, is switched on,  *)
(* all its groups hold on the event, none of its matches overran, and no   *)
(* rule that fires before it stops the rest.  The names of those that fire *)
(* are listed once, by priority and in the order of the query; a rule is   *)
(* said to have timed out when a match of it did and the loop came to it.  *)
Sound(r) ==
    LET holds(c) == Test(c, Subject(event))
    IN  /\ r.enabled /\ PrepareRule(r) /\ ~Overran(r)
        /\ \A c \in ToSet(r.all) : holds(c)
        /\ \A c \in ToSet(r.none) : ~holds(c)
        /\ r.any # <<>> => \E c \in ToSet(r.any) : holds(c)
Sooner(q, r) ==
    \/ q.priority < r.priority
    \/ q.priority = r.priority /\ place[q] < place[r]
Reached(r) == \A q \in rules : Sound(q) /\ Sooner(q, r) => ~q.stop
Firing == {r \in rules : Sound(r) /\ Reached(r)}
Late == {r \in Prepared : Overran(r) /\ Reached(r)}

PlanIsAsWritten ==
    event # NoEvent /\ ~Evaluating =>
        /\ ToSet(matched) = {r.name : r \in Firing}
        /\ \A q, r \in Firing, m, n \in DOMAIN matched :
              matched[m] = q.name /\ matched[n] = r.name => (m < n <=> Sooner(q, r))
        /\ timedOut = {r.name : r \in Late}
=============================================================================
