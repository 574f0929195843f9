-------------------------- MODULE PatternAnalysis --------------------------
(***************************************************************************)
(* The analysis a pattern passes when a rule is saved (rules/pattern.ts),  *)
(* and what the patterns it accepts do afterwards: what Rules takes as     *)
(* Compiles and Found.                                                     *)
(*                                                                         *)
(* A pattern is its parse: a sequence of alternatives, each a sequence of  *)
(* items [atom, alts, times].  The atom is a character, "any" (a class, an *)
(* escape, the dot), "group" with the alternatives inside, or one of the   *)
(* constructs RE2 lacks.  The code scans the text for the same structure,  *)
(* skipping escapes, classes and group prefixes, and RegExp rejects a text *)
(* that has no parse.                                                      *)
(***************************************************************************)
EXTENDS Rules

-----------------------------------------------------------------------------
(* Patterns.                                                               *)
Letters == {"a", "b", "A"}
Unsupported == {"lookaround", "backreference"}
Once == "once"     \* no quantifier
Maybe == "maybe"   \* ?
Fixed == "fixed"   \* {n}
Some == "some"     \* + * {n,} {n,m}

\* The items of alternatives at any depth.
RECURSIVE Items(_)
Items(alts) ==
    UNION {LET item == alts[i][j] IN {item} \cup Items(item.alts) :
           <<i, j>> \in {<<m, n>> \in (1..Len(alts)) \X (1..4) : n <= Len(alts[m])}}

GroupsOf(alts) == {item \in Items(alts) : item.atom = "group"}

IsQuantifier(item) == item.times \in {Fixed, Some}
IsRepeating(item) == item.times = Some
ContainsQuantifier(alts) ==
    \E item \in Items(alts) : IsRepeating(item) \/ item.times = Maybe

AsLiteral(branch) ==
    branch # <<>> /\ \A j \in DOMAIN branch : branch[j].atom \in Letters /\ branch[j].times = Once

\* Conservative: a branch that is not plain text may match what any other does.
AlternationCanOverlap(alts) ==
    /\ Len(alts) >= 2
    /\ \/ \E i \in DOMAIN alts : ~AsLiteral(alts[i])
       \/ \E i, j \in DOMAIN alts : i # j /\ IsPrefix(alts[i], alts[j])

\* Mutant: only the alternation right inside the quantified group is looked at.
OverlapsAtTop(alts) == AlternationCanOverlap(alts)
HasOverlappingAlternation(alts) ==
    \/ AlternationCanOverlap(alts)
    \/ \E item \in GroupsOf(alts) : AlternationCanOverlap(item.alts)

HasNestedQuantifier(alts) ==
    \E item \in GroupsOf(alts) :
        /\ IsQuantifier(item)
        /\ ContainsQuantifier(item.alts) \/ HasOverlappingAlternation(item.alts)

Forbidden(alts) == \E item \in Items(alts) : item.atom \in Unsupported

CompilePattern(alts) ==
    alts # <<>> /\ ~Forbidden(alts) /\ ~HasNestedQuantifier(alts)

(* In how many ways a backtracking matcher can make a pattern of a text:   *)
(* what RegExp does, and the reference the analysis above is judged by.    *)
FirstOf(w, k) == SubSeq(w, 1, k)
RestOf(w, k) == SubSeq(w, k + 1, Len(w))
SumTo(n, f) == LET to[k \in 0..n] == f[k] + IF k = 0 THEN 0 ELSE to[k - 1] IN to[n]
Both(m, n) == IF m = 0 THEN 0 ELSE m * n

RECURSIVE Ways(_, _), WaysOfBranch(_, _), Repeats(_, _)
WaysOfAtom(item, w) ==
    CASE item.atom = "group" -> Ways(item.alts, w)
      [] item.atom = "any"   -> IF Len(w) = 1 THEN 1 ELSE 0
      [] OTHER               -> IF w = <<item.atom>> THEN 1 ELSE 0

\* An iteration that consumed nothing ends the loop.
Repeats(item, w) ==
    SumTo(Len(w), [k \in 0..Len(w) |->
                      IF k = 0 THEN 0
                      ELSE Both(WaysOfAtom(item, FirstOf(w, k)),
                                IF k = Len(w) THEN 1 ELSE Repeats(item, RestOf(w, k)))])

WaysOfItem(item, w) ==
    CASE item.times = Once  -> WaysOfAtom(item, w)
      [] item.times = Maybe -> WaysOfAtom(item, w) + (IF w = <<>> THEN 1 ELSE 0)
      [] item.times = Fixed -> SumTo(Len(w), [k \in 0..Len(w) |->
                                                 Both(WaysOfAtom(item, FirstOf(w, k)),
                                                      WaysOfAtom(item, RestOf(w, k)))])
      [] item.times = Some  -> Repeats(item, w)

WaysOfBranch(branch, w) ==
    IF branch = <<>> THEN IF w = <<>> THEN 1 ELSE 0
    ELSE SumTo(Len(w), [k \in 0..Len(w) |->
                           Both(WaysOfItem(branch[1], FirstOf(w, k)),
                                WaysOfBranch(Tail(branch), RestOf(w, k)))])

Ways(alts, w) ==
    SumTo(Len(alts), [i \in 0..Len(alts) |-> IF i = 0 THEN 0 ELSE WaysOfBranch(alts[i], w)])

FoundIn(alts, text) ==
    \E i, j \in 0..Len(text) : i <= j /\ Ways(alts, SubSeq(text, i + 1, j)) > 0

-----------------------------------------------------------------------------
(* A pattern that was accepted (rules/pattern.ts:377) has one way to       *)
(* divide any text among the rounds of a repeated group: what the nesting  *)
(* analysis is for, since a second way doubles the work at every round.    *)
RepeatsOneWay(alts) ==
    \A item \in GroupsOf(alts) : item.times = Some =>
        \A e \in Events : Repeats(item, e.text.text) <= 1
AcceptedPatternsAreSafe == \A p \in StoredPatterns : RepeatsOneWay(p)
=============================================================================
