------------------------------ MODULE MCRules ------------------------------
(* TLC instance: every pattern of one group, plain or quantified, of up to  *)
(* two alternatives of up to two items, one of which may be a group; and a  *)
(* few rules of every kind of condition, stored beside each other.          *)
EXTENDS PatternAnalysis

MCWord(w) == [i \in DOMAIN w |-> [atom |-> w[i], alts |-> <<>>, times |-> Once]]
MCGroup(alts, t) == [atom |-> "group", alts |-> alts, times |-> t]
MCWords == {MCWord(<<"a">>), MCWord(<<"b">>), MCWord(<<"a", "a">>), MCWord(<<"b", "a">>)}
MCAlternatives == {<<w>> : w \in MCWords}
                  \cup {<<w[1], w[2]>> : w \in {x \in MCWords \X MCWords : x[1] # x[2]}}
MCPlain ==
    {[atom |-> c, alts |-> <<>>, times |-> t] : c \in {"a", "any"},
                                                t \in {Once, Maybe, Fixed, Some}}
    \cup {[atom |-> c, alts |-> <<>>, times |-> Once] : c \in Unsupported}
MCItems == MCPlain \cup {MCGroup(alts, t) : alts \in MCAlternatives, t \in {Once, Maybe, Fixed, Some}}
MCBranches == {<<i>> : i \in MCItems} \cup (MCItems \X MCPlain) \cup (MCPlain \X MCItems)
MCPatterns ==
    {<<<<MCGroup(<<b>>, Some)>>>> : b \in MCBranches}
    \cup {<<<<MCGroup(<<<<i>>>>, t)>>>> : i \in MCItems, t \in {Once, Fixed}}
    \cup {<<<<MCGroup(<<<<i>>, <<j>>>>, Some)>>>> : i \in MCItems, j \in MCPlain}

MCValue(w) == [reads |-> "text", text |-> w, at |-> 0]
MCNumber(n) == [reads |-> "number", text |-> <<"b">>, at |-> n]
MCDate(n) == [reads |-> "date", text |-> <<"b", "b">>, at |-> n]
MCTexts == UNION {[1..n -> {"a", "b"}] : n \in 0..3} \cup {<<"A", "b">>}
MCEvents ==
    {[text |-> MCValue(w)] : w \in MCTexts}
    \cup {[text |-> Absent], [text |-> MCNumber(1)], [text |-> MCDate(2)]}

MCRule(n, c) == [name |-> n, enabled |-> TRUE, priority |-> 2, stop |-> FALSE,
                 all |-> c, any |-> <<>>, none |-> <<>>, forward |-> "none"]
MCOn(op, v) == [field |-> "text", op |-> op, value |-> v]
MCStar == <<<<[atom |-> "a", alts |-> <<>>, times |-> Some]>>>>
MCMatches == MCOn("matches", MCStar)
MCCompanions == {
    MCRule("any", <<MCOn("exists", Absent)>>),
    [MCRule("pat", <<MCMatches>>) EXCEPT !.stop = TRUE],
    [MCRule("pat", <<MCMatches, MCOn("in", {MCValue(<<"a">>)})>>) EXCEPT !.priority = 1, !.stop = TRUE],
    [MCRule("num", <<MCOn("gt", MCNumber(0))>>) EXCEPT !.stop = TRUE, !.priority = 1],
    [MCRule("num", <<>>) EXCEPT !.any = <<MCOn("lte", MCDate(2)), MCOn("contains", MCValue(<<"A">>))>>],
    [MCRule("not", <<>>) EXCEPT !.none = <<MCMatches, MCOn("eq", Absent)>>, !.forward = "http"],
    [MCRule("not", <<>>) EXCEPT !.any = <<MCOn("starts_with", MCValue(<<"b">>)), MCMatches>>,
                                !.all = <<MCOn("not_in", {MCValue(<<"b">>)}), MCOn("neq", Absent)>>,
                                !.priority = 1, !.stop = TRUE],
    [MCRule("off", <<MCOn("ends_with", MCValue(<<"b">>))>>) EXCEPT !.enabled = FALSE] }
MCDefinitions ==
    MCCompanions
    \cup {MCRule("empty", <<>>)}
    \cup {MCRule("pattern", <<MCOn("matches", p)>>) : p \in MCPatterns}
=============================================================================
