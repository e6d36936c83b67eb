-------------------------------- MODULE Policy --------------------------------
(***************************************************************************)
(* The policy engine of src/src/policy.rs: from_config turns the lists and *)
(* rules of a configuration into compiled rules or rejects it; evaluate    *)
(* goes through them one by one and decides on a command line; the result  *)
(* goes to the gate, and to the policy tools (policy_tool.rs).             *)
(*                                                                         *)
(* A token is a word of a rule or of a command line.  What the glob and    *)
(* regex crates make of a token is a table: the words that a pattern       *)
(* matches, with no entry for a token that does not compile.               *)
(***************************************************************************)
EXTENDS Integers, FiniteSets, SequencesExt, Gate

CONSTANTS
    Token,      \* the words
    GlobHits,   \* a function from the tokens that are globs
    RegexHits,  \* a function from the tokens that are regular expressions
    GlobMeta,   \* the tokens with *, ? or [
    Star,       \* the token *
    Config,     \* the configurations to try
    Query       \* the command lines to try

Kind == {"exact", "prefix", "glob", "regex"}

List == Seq(Seq(Token))

\* r.matchers maps the args_* fields that are given to their words; r.intent
\* is {} if intent_required is not given.
IsRawRule(r) ==
    /\ r.effect \in Effect /\ r.cmd \in Token /\ r.intent \in SUBSET BOOLEAN
    /\ DOMAIN r.matchers \in SUBSET Kind
    /\ \A k \in DOMAIN r.matchers : r.matchers[k] \in Seq(Token)

\* The rules of [[rules]] in c.rules.
IsConfig(c) ==
    /\ c.default \in Effect /\ c.askRequiresIntent \in BOOLEAN /\ c.hook \in BOOLEAN
    /\ c.allow \in List /\ c.deny \in List /\ c.ask \in List
    /\ c.rules \in Seq(Range(c.rules)) /\ \A r \in Range(c.rules) : IsRawRule(r)

CompiledRule ==
    [effect : Effect, cmd : Token, kind : Kind, pat : Seq(Token), intent : SUBSET BOOLEAN]

CommandLine == [cmd : Token, args : Seq(Token), intent : BOOLEAN]

ASSUME HitsAssumption ==
    /\ GlobHits \in [DOMAIN GlobHits -> SUBSET Token]
    /\ RegexHits \in [DOMAIN RegexHits -> SUBSET Token]
\* A glob without *, ? or [ matches itself alone (glob::Pattern gives no other
\* character a meaning).
ASSUME GlobAssumption ==
    /\ Star \in GlobMeta
    /\ \A t \in Token \ GlobMeta : t \in DOMAIN GlobHits /\ GlobHits[t] = {t}
ASSUME ConfigAssumption == \A c \in Config : IsConfig(c)
ASSUME QueryAssumption == Query \subseteq CommandLine

NoQuery == [cmd |-> "none"]
NoDecision == [effect |-> "none"]
NoQuality == <<0, 0>>   \* None, which every quality beats

VARIABLES
    cfg,       \* the configuration
    pc,        \* "load", "rejected", "ready", "match" or "answered"
    rules,     \* the compiled rules
    query,     \* the command line evaluate works on
    i,         \* the rule it looks at next
    quality,   \* best_quality: NoQuality or the quality of the best rules so far
    best,      \* best_rules: their places in rules
    decision   \* what evaluate returned

vars == <<cfg, pc, rules, query, i, quality, best, decision>>

Decision ==
    [effect : Effect \union {"invalid"}, intentRequired : BOOLEAN, rule : Nat]
        \* rule 0: matched_rule is None

TypeOK ==
    /\ cfg \in Config
    /\ pc \in {"load", "rejected", "ready", "match", "answered"}
    /\ rules \in Seq(CompiledRule)
    /\ query \in Query \union {NoQuery}
    /\ i \in 1..Len(rules) + 1
    /\ quality \in (0..4) \X Nat
    /\ best \in Seq(DOMAIN rules)
    /\ decision \in Decision \union {NoDecision}

Init ==
    /\ cfg \in Config
    /\ pc = "load"
    /\ rules = <<>>
    /\ query = NoQuery
    /\ i = 1 /\ quality = NoQuality /\ best = <<>>
    /\ decision = NoDecision

-----------------------------------------------------------------------------
(* from_config.                                                            *)

Raw(effect, cmd, kind, pat) ==
    [effect |-> effect, cmd |-> cmd, matchers |-> [k \in {kind} |-> pat], intent |-> {}]

Plain(tokens) == \A k \in DOMAIN tokens : tokens[k] \notin GlobMeta

\* Mutant: a star at the end is a glob like any other.
ParseShorthandGlob(spec, effect) ==
    Raw(effect, Head(spec), IF Plain(Tail(spec)) THEN "prefix" ELSE "glob", Tail(spec))

\* parse_shorthand of a list entry that is not blank.
ParseShorthand(spec, effect) ==
    LET args == Tail(spec)
        open == args # <<>> /\ Last(args) = Star /\ Plain(Front(args))
    IN  IF open THEN Raw(effect, Head(spec), "prefix", Front(args))
        ELSE Raw(effect, Head(spec), IF Plain(args) THEN "prefix" ELSE "glob", args)

Blank(c) == <<>> \in Range(c.allow) \union Range(c.deny) \union Range(c.ask)

RawRules(c) ==
    LET Parsed(list, effect) == [k \in DOMAIN list |-> ParseShorthand(list[k], effect)]
    IN  Parsed(c.allow, "allow") \o Parsed(c.deny, "deny") \o Parsed(c.ask, "ask") \o c.rules

\* compile_rule fails.
Malformed(r) ==
    \/ Cardinality(DOMAIN r.matchers) > 1
    \/ \E k \in DOMAIN r.matchers \intersect {"glob", "regex"} :
        ~(Range(r.matchers[k]) \subseteq
            IF k = "glob" THEN DOMAIN GlobHits ELSE DOMAIN RegexHits)

CompileRule(r) ==
    LET kind == IF DOMAIN r.matchers = {} THEN "prefix" ELSE CHOOSE k \in DOMAIN r.matchers : TRUE
    IN  [effect |-> r.effect, cmd |-> r.cmd, kind |-> kind,
         pat |-> IF DOMAIN r.matchers = {} THEN <<>> ELSE r.matchers[kind],
         intent |-> r.intent]

\* Mutant: the last rule is not compared with the others.
ConflictingTieShort(rs) ==
    \E j, k \in 1..(Len(rs) - 1) :
        /\ rs[j].cmd = rs[k].cmd
        /\ rs[j].kind = rs[k].kind /\ rs[j].pat = rs[k].pat
        /\ rs[j].effect # rs[k].effect

\* validate_conflicting_ties fails: same quality, same fingerprint.
ConflictingTie(rs) ==
    \E j, k \in DOMAIN rs :
        /\ rs[j].cmd = rs[k].cmd
        /\ rs[j].kind = rs[k].kind /\ rs[j].pat = rs[k].pat
        /\ rs[j].effect # rs[k].effect

FromConfig ==
    /\ pc = "load"
    /\ LET raw == RawRules(cfg)
           compiled == [k \in DOMAIN raw |-> CompileRule(raw[k])]
       IN  IF Blank(cfg) \/ (\E r \in Range(raw) : Malformed(r)) \/ ConflictingTie(compiled)
           THEN pc' = "rejected" /\ UNCHANGED rules
           ELSE pc' = "ready" /\ rules' = compiled
    /\ UNCHANGED <<cfg, query, i, quality, best, decision>>

-----------------------------------------------------------------------------
(* evaluate.                                                               *)

Specificity == [exact |-> 4, prefix |-> 3, glob |-> 2, regex |-> 1]

\* MatchQuality, which a rule has whatever it matches.
Quality(r) == <<Specificity[r.kind], Len(r.pat)>>

\* Mutant: the length is compared first.
BeatsByLength(p, q) == p[2] > q[2] \/ (p[2] = q[2] /\ p[1] > q[1])

Beats(p, q) == p[1] > q[1] \/ (p[1] = q[1] /\ p[2] > q[2])

TokenWise(hits, pat, args) ==
    /\ Len(pat) = Len(args)
    /\ \A k \in DOMAIN pat : args[k] \in hits[pat[k]]

\* Matcher::quality is Some.
Matches(r, args) ==
    \/ r.kind = "exact" /\ args = r.pat
    \/ r.kind = "prefix" /\ IsPrefix(r.pat, args)
    \/ r.kind = "glob" /\ TokenWise(GlobHits, r.pat, args)
    \/ r.kind = "regex" /\ TokenWise(RegexHits, r.pat, args)

Applies(r, q) == r.cmd = q.cmd /\ Matches(r, q.args)

Evaluate ==
    /\ pc \in {"ready", "answered"}
    /\ query' \in Query
    /\ pc' = "match"
    /\ i' = 1 /\ quality' = NoQuality /\ best' = <<>>
    /\ decision' = NoDecision
    /\ UNCHANGED <<cfg, rules>>

\* Mutant: a better rule joins the best rules instead of replacing them.
ConsiderKeeps ==
    /\ pc = "match" /\ i \in DOMAIN rules
    /\ LET r == rules[i]
           q == Quality(r)
       IN  \/ /\ Applies(r, query) /\ ~Beats(quality, q)
              /\ quality' = q /\ best' = Append(best, i)
           \/ /\ Applies(r, query) => Beats(quality, q)
              /\ UNCHANGED <<quality, best>>
    /\ i' = i + 1
    /\ UNCHANGED <<cfg, pc, rules, query, decision>>

\* One turn of the loop over the rules.
Consider ==
    /\ pc = "match" /\ i \in DOMAIN rules
    /\ LET r == rules[i]
           q == Quality(r)
       IN  \/ /\ Applies(r, query) /\ Beats(q, quality)
              /\ quality' = q /\ best' = <<i>>
           \/ /\ Applies(r, query) /\ q = quality
              /\ best' = Append(best, i) /\ UNCHANGED quality
           \/ /\ Applies(r, query) => Beats(quality, q)
              /\ UNCHANGED <<quality, best>>
    /\ i' = i + 1
    /\ UNCHANGED <<cfg, pc, rules, query, decision>>

Decided(effect, intentRequired, rule) ==
    [effect |-> effect, intentRequired |-> intentRequired, rule |-> rule]

Default ==
    Decided(cfg.default, cfg.default = "ask" /\ cfg.askRequiresIntent, 0)

Picked(n) ==
    Decided(rules[n].effect,
            /\ rules[n].effect = "ask"
            /\ IF rules[n].intent = {} THEN cfg.askRequiresIntent ELSE TRUE \in rules[n].intent,
            n)

Disagree(S) == \E j, k \in S : rules[j].effect # rules[k].effect

\* Behind the loop.
Decide ==
    /\ pc = "match" /\ i = Len(rules) + 1
    /\ \/ best = <<>> /\ decision' = Default
       \/ /\ Disagree(Range(best))
          /\ decision' = Decided("invalid", FALSE, 0)
       \/ /\ best # <<>> /\ ~Disagree(Range(best))
          /\ decision' = Picked(best[1])
    /\ pc' = "answered"
    /\ UNCHANGED <<cfg, rules, query, i, quality, best>>

\* A configuration that was rejected stops the daemon and the tools.
Stopped == pc = "rejected" /\ UNCHANGED vars

Next == FromConfig \/ Evaluate \/ Consider \/ Decide \/ Stopped

Spec == Init /\ [][Next]_vars

-----------------------------------------------------------------------------
(* policy_tool.rs: what `policy explain` prints as the effective result.   *)

Answered == pc = "answered"

\* Mutant: an intent is demanded for every question.
ExplainStrict(d, intent) ==
    IF d.effect = "ask" /\ ~intent THEN "deny" ELSE d.effect

Explain(d, intent) ==
    IF d.effect = "ask" /\ d.intentRequired /\ ~intent THEN "deny" ELSE d.effect

-----------------------------------------------------------------------------
Applicable(n) == {k \in 1..n : Applies(rules[k], query)}

\* exact > prefix > glob > regex, and then the longer sequence of words.
MoreSpecific(r, s) ==
    \/ Specificity[r.kind] > Specificity[s.kind]
    \/ r.kind = s.kind /\ Len(r.pat) > Len(s.pat)

\* The most specific of the first n rules that apply.
MostSpecific(n) ==
    {k \in Applicable(n) : \A j \in Applicable(n) : ~MoreSpecific(rules[j], rules[k])}

(***************************************************************************)
(* The most specific match wins, in whatever order the rules come: the     *)
(* effect is that of all of the most specific rules that match, which is   *)
(* why it does not depend on the order; it is "invalid", and nothing runs, *)
(* if they disagree, and the default only if no rule matches               *)
(* (policy.rs:96-167, README.md:170-173).                                  *)
(***************************************************************************)
MostSpecificWins ==
    Answered =>
        LET top == MostSpecific(Len(rules)) IN
        /\ decision.effect # "invalid" /\ top # {} =>
            /\ decision.rule \in top
            /\ \A k \in top : decision.effect = rules[k].effect
        /\ decision.effect = "invalid" <=> Disagree(top)
        /\ top = {} => decision = Default

(***************************************************************************)
(* What from_config lets through and evaluate then has to reject is only   *)
(* ever a tie of two different globs or two different regular expressions  *)
(* that match the same words; exact and prefix rules never disagree at run *)
(* time (policy.rs:389-413 against 136-147).                               *)
(***************************************************************************)
ConflictOnlyOfPatterns ==
    Answered /\ decision.effect = "invalid" =>
        \A j, k \in MostSpecific(Len(rules)) :
            rules[j].effect # rules[k].effect =>
                rules[j].kind \in {"glob", "regex"} /\ rules[j].pat # rules[k].pat

(***************************************************************************)
(* An entry of policy.deny holds for every command line it names -- the    *)
(* command, then its words, then anything if the words are plain or end in *)
(* a star; word by word if they are globs -- unless a rule that is more    *)
(* specific than the entry says otherwise (policy.rs:275-333, 96-167).     *)
(***************************************************************************)
Names(spec, q) ==
    LET words == Tail(spec) IN
    /\ q.cmd = Head(spec)
    /\ \/ Plain(words) /\ IsPrefix(words, q.args)
       \/ /\ words # <<>> /\ Last(words) = Star /\ Plain(Front(words))
          /\ IsPrefix(Front(words), q.args)
       \/ TokenWise(GlobHits, words, q.args)

DenyRule(spec) == CompileRule(ParseShorthand(spec, "deny"))

DenyHolds ==
    Answered =>
        \A spec \in Range(cfg.deny) :
            Names(spec, query) /\ decision.effect \notin {"deny", "invalid"} =>
                /\ decision.rule # 0
                /\ MoreSpecific(rules[decision.rule], DenyRule(spec))

(***************************************************************************)
(* policy explain and policy test, which repeat the gate's test of the     *)
(* intent, never promise what the daemon does not do (policy_tool.rs:64-69 *)
(* against server.rs:804-816).                                             *)
(***************************************************************************)
ExplainAgrees ==
    Answered =>
        LET said == Explain(decision, query.intent)
            done == Gate([effect |-> decision.effect, hook |-> cfg.hook, intent |-> query.intent,
                          intentRequired |-> decision.intentRequired])
        IN  /\ said = "deny" <=> done = "denied"
            /\ said \in {"allow", "audit"} <=> done = "allow"
            /\ said = "invalid" <=> done = "error"

(***************************************************************************)
(* The inductive invariant (proved in PolicyProofs): in every turn of the  *)
(* loop, best and quality describe the most specific rules so far.         *)
(***************************************************************************)
LoopInv ==
    pc \in {"match", "answered"} =>
        /\ query \in Query
        /\ Range(best) = MostSpecific(i - 1)
        /\ best = <<>> => Applicable(i - 1) = {} /\ quality = NoQuality
        /\ \A k \in Range(best) : Quality(rules[k]) = quality

NoTies == ~ConflictingTie(rules)

IInv ==
    /\ TypeOK
    /\ LoopInv
    /\ NoTies
    /\ pc = "load" => i = 1 /\ best = <<>>
    /\ Answered => i = Len(rules) + 1
    /\ MostSpecificWins
=============================================================================
