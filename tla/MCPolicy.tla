------------------------------- MODULE MCPolicy -------------------------------
(***************************************************************************)
(* Small configurations for Policy: the three lists with one entry each,   *)
(* and pairs of rules of every kind beside a deny entry.                   *)
(***************************************************************************)
EXTENDS Policy

MCToken == {"c", "d", "a", "ab", "*", "["}
MCGlobHits ==
    [p \in MCToken \ {"["} |-> IF p = "*" THEN MCToken ELSE {p}]
MCRegexHits ==
    [p \in {"a", "ab"} |-> IF p = "a" THEN {"a", "ab"} ELSE {"ab"}]

Base ==
    [default |-> "ask", askRequiresIntent |-> TRUE, hook |-> FALSE,
     allow |-> <<>>, deny |-> <<>>, ask |-> <<>>, rules |-> <<>>]

UpTo1(S) == {<<>>} \union {<<x>> : x \in S}

Specs ==
    {<<"c">>, <<"c", "*">>, <<"c", "a">>, <<"c", "a", "*">>, <<"c", "*", "a">>,
     <<"c", "*", "*">>, <<"c", "[">>, <<>>}

ListConfigs ==
    {[Base EXCEPT !.allow = x, !.deny = y, !.ask = z, !.default = e] :
        x, y, z \in UpTo1(Specs), e \in {"allow", "ask"}}

Matchers ==
    {<<>>} \union
    {[k \in {"exact"} |-> p] : p \in {<<"a", "ab">>}} \union
    {[k \in {"prefix"} |-> p] : p \in {<<>>, <<"a">>}} \union
    {[k \in {"glob"} |-> p] : p \in {<<"a", "*">>, <<"*", "ab">>}} \union
    {[k \in {"regex"} |-> p] : p \in {<<"a">>, <<"ab">>, <<"*">>}} \union
    {[k \in {"exact", "regex"} |-> <<"a">>]}

Verdicts ==
    {<<"allow", {}>>, <<"deny", {}>>, <<"audit", {TRUE}>>, <<"ask", {FALSE}>>}

Pool == {[effect |-> v[1], cmd |-> "c", matchers |-> m, intent |-> v[2]] :
            v \in Verdicts, m \in Matchers}

RuleConfigs ==
    {[Base EXCEPT !.rules = <<x, y>>, !.deny = z, !.hook = TRUE] :
        x, y \in Pool, z \in {<<>>, <<<<"c", "a">>>>}}

MCConfig == ListConfigs \union RuleConfigs

MCQuery ==
    {[cmd |-> "c", args |-> a, intent |-> FALSE] :
        a \in {<<>>, <<"a">>, <<"ab">>, <<"a", "ab">>, <<"ab", "a">>, <<"a", "a", "a">>}}
    \union {[cmd |-> "c", args |-> <<"a">>, intent |-> TRUE],
            [cmd |-> "d", args |-> <<"a">>, intent |-> FALSE]}
=============================================================================
