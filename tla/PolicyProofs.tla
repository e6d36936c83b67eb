----------------------------- MODULE PolicyProofs -----------------------------
(***************************************************************************)
(* What Policy promises of every configuration and every command line.     *)
(* The loop of evaluate is proved by its invariant LoopInv: in each turn,  *)
(* best and quality describe the most specific of the rules seen so far.   *)
(***************************************************************************)
EXTENDS Policy, SequenceTheorems, TLAPS

-----------------------------------------------------------------------------
(* The order on qualities.                                                 *)

Qualities == (0..4) \X Nat

LEMMA BeatsOrder ==
    ASSUME NEW p \in Qualities, NEW q \in Qualities, NEW r \in Qualities
    PROVE  /\ ~Beats(p, p)
           /\ Beats(p, q) => ~Beats(q, p)
           /\ Beats(p, q) \/ Beats(q, p) \/ p = q
           /\ Beats(r, q) /\ ~Beats(p, q) => Beats(r, p)
<1>1. /\ p = <<p[1], p[2]>> /\ p[1] \in Int /\ p[2] \in Int
      /\ q = <<q[1], q[2]>> /\ q[1] \in Int /\ q[2] \in Int
      /\ r[1] \in Int /\ r[2] \in Int
  BY DEF Qualities
<1>2. p[1] = q[1] /\ p[2] = q[2] => p = q
  BY <1>1
<1> QED
  BY <1>1, <1>2 DEF Beats

LEMMA RuleQuality ==
    ASSUME NEW r \in CompiledRule
    PROVE  /\ Quality(r) \in Qualities
           /\ Beats(Quality(r), NoQuality)
<1>1. Specificity[r.kind] \in 1..4 /\ Len(r.pat) \in Nat
  BY DEF CompiledRule, Kind, Specificity
<1>2. Quality(r) = <<Specificity[r.kind], Len(r.pat)>>
  BY DEF Quality
<1> QED
  BY <1>1, <1>2 DEF Qualities, Beats, NoQuality

\* The documented order of the rules is the order of their qualities.
LEMMA RuleOrder ==
    ASSUME NEW r \in CompiledRule, NEW s \in CompiledRule
    PROVE  MoreSpecific(r, s) <=> Beats(Quality(r), Quality(s))
<1>1. Specificity[r.kind] = Specificity[s.kind] <=> r.kind = s.kind
  BY DEF CompiledRule, Kind, Specificity
<1>2. /\ Quality(r)[1] = Specificity[r.kind] /\ Quality(r)[2] = Len(r.pat)
      /\ Quality(s)[1] = Specificity[s.kind] /\ Quality(s)[2] = Len(s.pat)
  BY DEF Quality
<1> QED
  BY <1>1, <1>2 DEF MoreSpecific, Beats

-----------------------------------------------------------------------------
(* Loading.                                                                *)

LEMMA ShorthandIsRule ==
    ASSUME NEW spec \in Seq(Token), spec # <<>>, NEW e \in Effect
    PROVE  IsRawRule(ParseShorthand(spec, e))
<1> DEFINE args == Tail(spec)
<1>1. Head(spec) \in Token /\ args \in Seq(Token)
  OBVIOUS
<1>2. ASSUME NEW k \in Kind, NEW pat \in Seq(Token)
      PROVE  IsRawRule(Raw(e, Head(spec), k, pat))
  BY <1>1, <1>2 DEF IsRawRule, Raw
<1>3. args # <<>> => Front(args) \in Seq(Token)
  BY <1>1 DEF Front
<1>4. "prefix" \in Kind /\ "glob" \in Kind
  BY DEF Kind
<1> HIDE DEF args
<1>5. \/ /\ args # <<>>
         /\ ParseShorthand(spec, e) = Raw(e, Head(spec), "prefix", Front(args))
      \/ ParseShorthand(spec, e) = Raw(e, Head(spec), "prefix", args)
      \/ ParseShorthand(spec, e) = Raw(e, Head(spec), "glob", args)
  BY DEF ParseShorthand, args
<1> QED
  BY <1>1, <1>2, <1>3, <1>4, <1>5

LEMMA CompiledType ==
    ASSUME NEW r, IsRawRule(r)
    PROVE  CompileRule(r) \in CompiledRule
<1>1. CASE DOMAIN r.matchers = {}
  <2>1. CompileRule(r) = [effect |-> r.effect, cmd |-> r.cmd,
                          kind |-> "prefix", pat |-> <<>>, intent |-> r.intent]
    BY <1>1 DEF CompileRule
  <2> QED
    BY <2>1 DEF CompiledRule, IsRawRule, Kind
<1>2. CASE DOMAIN r.matchers # {}
  <2> DEFINE kind == CHOOSE k \in DOMAIN r.matchers : TRUE
  <2>1. kind \in DOMAIN r.matchers
    BY <1>2
  <2>2. kind \in Kind /\ r.matchers[kind] \in Seq(Token)
    BY <2>1 DEF IsRawRule
  <2>3. CompileRule(r) = [effect |-> r.effect, cmd |-> r.cmd, kind |-> kind,
                          pat |-> r.matchers[kind], intent |-> r.intent]
    BY <1>2 DEF CompileRule
  <2> HIDE DEF kind
  <2> QED
    BY <2>2, <2>3 DEF CompiledRule, IsRawRule
<1> QED
  BY <1>1, <1>2

\* What a list of the configuration is parsed into.
Parsed(list, e) == [k \in DOMAIN list |-> ParseShorthand(list[k], e)]

LEMMA ParsedRules ==
    ASSUME NEW list \in List, <<>> \notin Range(list), NEW e \in Effect
    PROVE  /\ Parsed(list, e) \in Seq(Range(Parsed(list, e)))
           /\ \A r \in Range(Parsed(list, e)) : IsRawRule(r)
<1>1. /\ DOMAIN list = 1..Len(list) /\ Len(list) \in Nat
      /\ \A k \in DOMAIN list : list[k] \in Seq(Token) /\ list[k] # <<>>
  BY DEF List, Range
<1>2. \A k \in DOMAIN list : IsRawRule(ParseShorthand(list[k], e))
  BY <1>1, ShorthandIsRule
<1> QED
  BY <1>1, <1>2 DEF Parsed, Range

LEMMA RawRulesAreRules ==
    ASSUME NEW c \in Config, ~Blank(c)
    PROVE  /\ RawRules(c) \in Seq(Range(RawRules(c)))
           /\ \A r \in Range(RawRules(c)) : IsRawRule(r)
<1> DEFINE a == Parsed(c.allow, "allow")
           d == Parsed(c.deny, "deny")
           q == Parsed(c.ask, "ask")
           R == Range(a) \union Range(d) \union Range(q) \union Range(c.rules)
<1>1. IsConfig(c)
  BY ConfigAssumption
<1>2. /\ a \in Seq(Range(a)) /\ \A r \in Range(a) : IsRawRule(r)
      /\ d \in Seq(Range(d)) /\ \A r \in Range(d) : IsRawRule(r)
      /\ q \in Seq(Range(q)) /\ \A r \in Range(q) : IsRawRule(r)
  BY <1>1, ParsedRules DEF IsConfig, Blank, Effect
<1>3. c.rules \in Seq(Range(c.rules)) /\ \A r \in Range(c.rules) : IsRawRule(r)
  BY <1>1 DEF IsConfig, Range
<1>4. RawRules(c) = a \o d \o q \o c.rules
  BY DEF RawRules, Parsed
<1> HIDE DEF a, d, q
<1>5. a \in Seq(R) /\ d \in Seq(R) /\ q \in Seq(R) /\ c.rules \in Seq(R)
  BY <1>2, <1>3
<1>6. \A r \in R : IsRawRule(r)
  BY <1>2, <1>3
<1> HIDE DEF R
<1>7. RawRules(c) \in Seq(R)
  BY <1>4, <1>5
<1> QED
  BY <1>6, <1>7 DEF Range

LEMMA CompiledRules ==
    ASSUME NEW raw, raw \in Seq(Range(raw)), \A r \in Range(raw) : IsRawRule(r)
    PROVE  [k \in DOMAIN raw |-> CompileRule(raw[k])] \in Seq(CompiledRule)
<1>1. DOMAIN raw = 1..Len(raw) /\ Len(raw) \in Nat
  OBVIOUS
<1>2. \A k \in DOMAIN raw : CompileRule(raw[k]) \in CompiledRule
  BY CompiledType DEF Range
<1> QED
  BY <1>1, <1>2

-----------------------------------------------------------------------------
(* The invariant.                                                          *)

LEMMA InitInv == Init => IInv
<1> SUFFICES ASSUME Init PROVE IInv
  OBVIOUS
<1>1. rules \in Seq(CompiledRule) /\ best \in Seq(DOMAIN rules) /\ Len(rules) = 0
  BY DEF Init
<1>2. TypeOK
  BY <1>1 DEF Init, TypeOK, NoQuality
<1>3. LoopInv /\ NoTies /\ (Answered => i = Len(rules) + 1) /\ MostSpecificWins
  BY <1>1 DEF Init, LoopInv, NoTies, ConflictingTie, Answered, MostSpecificWins
<1> QED
  BY <1>2, <1>3 DEF IInv, Init

LEMMA FromConfigStep == IInv /\ FromConfig => IInv'
<1> SUFFICES ASSUME IInv, FromConfig PROVE IInv'
  OBVIOUS
<1>1. pc = "load" /\ cfg \in Config /\ UNCHANGED <<cfg, query, i, quality, best, decision>>
      /\ TypeOK /\ best = <<>> /\ i = 1 /\ NoTies
  BY DEF FromConfig, TypeOK, IInv
<1> DEFINE raw == RawRules(cfg)
           compiled == [k \in DOMAIN raw |-> CompileRule(raw[k])]
<1>2. CASE pc' = "rejected" /\ UNCHANGED rules
  <2>1. TypeOK'
    BY <1>1, <1>2 DEF TypeOK
  <2>2. NoTies'
    BY <1>1, <1>2 DEF NoTies, ConflictingTie
  <2> QED
    BY <1>2, <2>1, <2>2 DEF IInv, LoopInv, Answered, MostSpecificWins
<1>3. CASE pc' = "ready" /\ rules' = compiled /\ ~Blank(cfg) /\ ~ConflictingTie(compiled)
  <2>1. rules' \in Seq(CompiledRule)
    BY <1>1, <1>3, RawRulesAreRules, CompiledRules
  <2> HIDE DEF compiled
  <2>2. TypeOK'
    BY <1>1, <1>3, <2>1 DEF TypeOK
  <2>3. NoTies'
    BY <1>3 DEF NoTies
  <2> QED
    BY <1>3, <2>2, <2>3 DEF IInv, LoopInv, Answered, MostSpecificWins
<1> QED
  BY <1>2, <1>3 DEF FromConfig

LEMMA EvaluateStep == IInv /\ Evaluate => IInv'
<1> SUFFICES ASSUME IInv, Evaluate PROVE IInv'
  OBVIOUS
<1>1. /\ pc' = "match" /\ query' \in Query /\ i' = 1 /\ quality' = NoQuality /\ best' = <<>>
      /\ decision' = NoDecision /\ UNCHANGED <<cfg, rules>> /\ TypeOK /\ NoTies
  BY DEF Evaluate, IInv
<1>2. TypeOK'
  BY <1>1 DEF TypeOK, NoQuality
<1>3. NoTies'
  BY <1>1 DEF NoTies, ConflictingTie
<1>4. Applicable(i - 1)' = {} /\ MostSpecific(i - 1)' = {} /\ Range(best') = {}
  BY <1>1 DEF Applicable, MostSpecific, Range
<1>5. LoopInv'
  BY <1>1, <1>4 DEF LoopInv
<1> QED
  BY <1>1, <1>2, <1>3, <1>5 DEF IInv, Answered, MostSpecificWins

\* The best rules are those that apply and are of the best quality.
LEMMA BestQuality ==
    ASSUME TypeOK, LoopInv, pc = "match", i \in DOMAIN rules
    PROVE  /\ \A k \in Applicable(i - 1) : ~Beats(Quality(rules[k]), quality)
           /\ Range(best) =
                {k \in Applicable(i - 1) : Quality(rules[k]) = quality}
           /\ quality # NoQuality => Range(best) # {}
<1>1. /\ i \in Nat /\ quality \in Qualities
      /\ \A k \in DOMAIN rules : rules[k] \in CompiledRule
      /\ \A k \in Applicable(i - 1) : k \in DOMAIN rules
  BY DEF TypeOK, Applicable, Qualities
<1>2. /\ Range(best) = MostSpecific(i - 1)
      /\ best = <<>> => Applicable(i - 1) = {} /\ quality = NoQuality
      /\ \A k \in Range(best) : Quality(rules[k]) = quality
  BY DEF LoopInv
<1>3. CASE best = <<>>
  BY <1>2, <1>3 DEF Range
<1>4. CASE best # <<>>
  <2>1. Range(best) # {}
    <3>1. best \in Seq(DOMAIN rules)
      BY DEF TypeOK
    <3>2. 1 \in DOMAIN best
      BY <1>4, <3>1
    <3> QED
      BY <3>2 DEF Range
  <2>2. PICK m \in Range(best) : TRUE
    BY <2>1
  <2>3. m \in Applicable(i - 1) /\ Quality(rules[m]) = quality
        /\ \A j \in Applicable(i - 1) : ~MoreSpecific(rules[j], rules[m])
    BY <1>2 DEF MostSpecific
  <2>4. \A j \in Applicable(i - 1) : ~Beats(Quality(rules[j]), quality)
    BY <1>1, <2>3, RuleOrder
  <2>5. \A k \in Applicable(i - 1) : Quality(rules[k]) = quality => k \in MostSpecific(i - 1)
    BY <1>1, <2>4, RuleOrder DEF MostSpecific
  <2> QED
    BY <1>2, <2>1, <2>4, <2>5 DEF MostSpecific
<1> QED
  BY <1>3, <1>4

LEMMA ConsiderStep == IInv /\ Consider => IInv'
<1> SUFFICES ASSUME IInv, Consider PROVE IInv'
  OBVIOUS
<1> DEFINE A == Applicable(i - 1)
           ql(k) == Quality(rules[k])
<1>1. /\ pc = "match" /\ pc' = "match" /\ i \in DOMAIN rules /\ i' = i + 1
      /\ UNCHANGED <<cfg, rules, query, decision>> /\ TypeOK /\ LoopInv /\ NoTies
      /\ query \in Query
  BY DEF Consider, IInv, LoopInv
<1>2. /\ i \in Nat /\ Len(rules) \in Nat /\ i <= Len(rules) /\ DOMAIN rules = 1..Len(rules)
      /\ quality \in Qualities /\ best \in Seq(DOMAIN rules)
      /\ \A k \in DOMAIN rules : rules[k] \in CompiledRule
  BY <1>1 DEF TypeOK, Qualities
<1>3. /\ \A k \in DOMAIN rules : ql(k) \in Qualities
      /\ Beats(ql(i), NoQuality)
  BY <1>1, <1>2, RuleQuality
<1>4. /\ \A k \in A : ~Beats(ql(k), quality)
      /\ Range(best) = {k \in A : ql(k) = quality}
      /\ quality # NoQuality => Range(best) # {}
  BY <1>1, BestQuality
<1>5. A \subseteq DOMAIN rules /\ i \notin A
  BY <1>1, <1>2 DEF Applicable
<1>6. Applicable(i - 1)' = IF Applies(rules[i], query) THEN A \union {i} ELSE A
  <2>1. i' - 1 = i
    BY <1>1, <1>2
  <2>2. Applicable(i - 1)' = {k \in 1..i : Applies(rules[k], query)}
    BY <1>1, <2>1 DEF Applicable, Applies, Matches, TokenWise
  <2>3. 1..i = (1..(i - 1)) \union {i}
    BY <1>1, <1>2
  <2>4. A = {k \in 1..(i - 1) : Applies(rules[k], query)}
    BY DEF Applicable
  <2> HIDE DEF A
  <2> QED
    BY <2>2, <2>3, <2>4
<1> HIDE DEF A
<1>7. MostSpecific(i - 1)' =
        {k \in Applicable(i - 1)' : \A j \in Applicable(i - 1)' : ~Beats(ql(j), ql(k))}
  <2>1. Applicable(i - 1)' \subseteq DOMAIN rules
    BY <1>1, <1>5, <1>6
  <2>2. MostSpecific(i - 1)' =
          {k \in Applicable(i - 1)' : \A j \in Applicable(i - 1)' :
              ~MoreSpecific(rules[j], rules[k])}
    BY <1>1 DEF MostSpecific, MoreSpecific
  <2> QED
    BY <1>2, <2>1, <2>2, RuleOrder
<1> HIDE DEF ql
<1>8. /\ Range(best') = MostSpecific(i - 1)'
      /\ best' = <<>> => Applicable(i - 1)' = {} /\ quality' = NoQuality
      /\ \A k \in Range(best') : ql(k) = quality'
      /\ quality' \in Qualities /\ best' \in Seq(DOMAIN rules)
  <2>1. CASE Applies(rules[i], query) /\ Beats(ql(i), quality)
             /\ quality' = ql(i) /\ best' = <<i>>
    <3>1. Range(best') = {i} /\ best' \in Seq(DOMAIN rules) /\ best' # <<>>
      BY <1>1, <2>1 DEF Range
    <3>2. \A j \in A : Beats(ql(i), ql(j)) /\ ~Beats(ql(j), ql(i))
      BY <1>1, <1>2, <1>3, <1>4, <1>5, <2>1, BeatsOrder
    <3>3. ~Beats(ql(i), ql(i))
      BY <1>1, <1>3, BeatsOrder
    <3>4. MostSpecific(i - 1)' = {i}
      BY <1>6, <1>7, <2>1, <3>2, <3>3
    <3> QED
      BY <1>1, <1>3, <2>1, <3>1, <3>4
  <2>2. CASE Applies(rules[i], query) /\ ql(i) = quality
             /\ best' = Append(best, i) /\ quality' = quality
    <3>1. Range(best') = Range(best) \union {i} /\ best' \in Seq(DOMAIN rules) /\ best' # <<>>
      <4>1. /\ DOMAIN best' = 1..Len(best) + 1 /\ DOMAIN best = 1..Len(best) /\ Len(best) \in Nat
            /\ \A k \in 1..Len(best) : best'[k] = best[k]
            /\ best'[Len(best) + 1] = i
        BY <1>2, <2>2
      <4> QED
        BY <1>1, <1>2, <2>2, <4>1 DEF Range
    <3>2. ~Beats(ql(i), ql(i))
      BY <1>1, <1>3, BeatsOrder
    <3>3. \A k \in A : ql(k) # quality => Beats(quality, ql(k))
      BY <1>2, <1>3, <1>4, <1>5, BeatsOrder
    <3>4. MostSpecific(i - 1)' = {k \in A \union {i} : ql(k) = quality}
      BY <1>4, <1>6, <1>7, <2>2, <3>2, <3>3
    <3> QED
      BY <1>2, <1>4, <2>2, <3>1, <3>4
  <2>3. CASE ~Applies(rules[i], query) /\ UNCHANGED <<quality, best>>
    <3>1. \A k \in A : ql(k) # quality => \E j \in A : Beats(ql(j), ql(k))
      <4>1. \A k \in A : ql(k) # NoQuality
        BY <1>1, <1>2, <1>5, RuleQuality, BeatsOrder DEF ql, Qualities, NoQuality
      <4>2. ASSUME NEW k \in A, ql(k) # quality PROVE Range(best) # {}
        <5>1. CASE quality # NoQuality
          BY <1>4, <5>1
        <5>2. CASE quality = NoQuality
          BY <1>2, <1>5, <1>4, <5>2, RuleQuality DEF ql
        <5> QED
          BY <5>1, <5>2
      <4>3. \A k \in A : ql(k) # quality => Beats(quality, ql(k))
        BY <1>2, <1>3, <1>4, <1>5, BeatsOrder
      <4> QED
        BY <1>4, <4>2, <4>3
    <3>2. MostSpecific(i - 1)' = {k \in A : ql(k) = quality}
      BY <1>4, <1>6, <1>7, <2>3, <3>1
    <3>3. best = <<>> => A = {} /\ quality = NoQuality
      BY <1>1 DEF LoopInv, A
    <3> QED
      BY <1>2, <1>4, <1>6, <2>3, <3>2, <3>3
  <2>4. CASE Applies(rules[i], query) /\ Beats(quality, ql(i)) /\ UNCHANGED <<quality, best>>
    <3>1. quality # NoQuality
      BY <1>1, <1>2, <1>3, <2>4, BeatsOrder DEF Qualities, NoQuality
    <3>2. PICK m \in A : ql(m) = quality
      BY <1>4, <3>1
    <3>3. \A k \in A : ql(k) # quality => Beats(quality, ql(k))
      BY <1>2, <1>3, <1>4, <1>5, BeatsOrder
    <3>4. ~Beats(ql(i), quality)
      BY <1>1, <1>2, <1>3, <2>4, BeatsOrder
    <3>5. MostSpecific(i - 1)' = {k \in A : ql(k) = quality}
      BY <1>4, <1>6, <1>7, <2>4, <3>2, <3>3, <3>4
    <3>6. best # <<>>
      BY <1>4, <3>1 DEF Range
    <3> QED
      BY <1>2, <1>4, <2>4, <3>5, <3>6
  <2> QED
    BY <2>1, <2>2, <2>3, <2>4 DEF Consider, ql
<1>9. TypeOK'
  BY <1>1, <1>2, <1>8 DEF TypeOK, Qualities
<1>10. LoopInv'
  BY <1>1, <1>8 DEF LoopInv, ql, Quality
<1>11. NoTies'
  BY <1>1 DEF NoTies, ConflictingTie
<1> QED
  BY <1>1, <1>9, <1>10, <1>11 DEF IInv, Answered, MostSpecificWins

LEMMA DecideStep == IInv /\ Decide => IInv'
<1> SUFFICES ASSUME IInv, Decide PROVE IInv'
  OBVIOUS
<1>1. /\ pc = "match" /\ pc' = "answered" /\ i = Len(rules) + 1
      /\ UNCHANGED <<cfg, rules, query, i, quality, best>>
      /\ TypeOK /\ LoopInv /\ NoTies
  BY DEF Decide, IInv
<1>2. /\ Len(rules) \in Nat /\ i - 1 = Len(rules) /\ cfg \in Config /\ IsConfig(cfg)
      /\ best \in Seq(DOMAIN rules) /\ rules \in Seq(CompiledRule)
  BY <1>1, ConfigAssumption DEF TypeOK
<1>3. Range(best) = MostSpecific(Len(rules))
  BY <1>1, <1>2 DEF LoopInv
<1>4. MostSpecific(Len(rules))' = MostSpecific(Len(rules))
  BY <1>1 DEF MostSpecific, Applicable, Applies, Matches, TokenWise, MoreSpecific
<1>5. best # <<>> => best[1] \in Range(best) /\ best[1] \in DOMAIN rules
  <2>1. best # <<>> => 1 \in DOMAIN best
    BY <1>2
  <2> QED
    BY <1>2, <2>1 DEF Range
<1>6. \A n \in DOMAIN rules :
        /\ rules[n].effect \in Effect
        /\ Picked(n).effect = rules[n].effect /\ Picked(n).rule = n
        /\ Picked(n) \in Decision
  <2> SUFFICES ASSUME NEW n \in DOMAIN rules
               PROVE  /\ rules[n].effect \in Effect
                      /\ Picked(n).effect = rules[n].effect /\ Picked(n).rule = n
                      /\ Picked(n) \in Decision
    OBVIOUS
  <2>1. rules[n].effect \in Effect /\ n \in Nat
    <3>1. n \in 1..Len(rules) /\ rules[n] \in CompiledRule
      BY <1>2
    <3> QED
      BY <1>2, <3>1 DEF CompiledRule
  <2>2. (/\ rules[n].effect = "ask"
         /\ IF rules[n].intent = {} THEN cfg.askRequiresIntent ELSE TRUE \in rules[n].intent)
            \in BOOLEAN
    BY <1>2 DEF IsConfig
  <2> QED
    BY <2>1, <2>2 DEF Picked, Decided, Decision
<1>7. Default \in Decision /\ Default.effect \in Effect
  <2>1. (cfg.default = "ask" /\ cfg.askRequiresIntent) \in BOOLEAN /\ cfg.default \in Effect
    BY <1>2 DEF IsConfig
  <2> QED
    BY <2>1 DEF Default, Decided, Decision
<1>8. decision' \in Decision /\ MostSpecificWins'
  <2> DEFINE top == MostSpecific(Len(rules))
  <2> SUFFICES /\ decision' \in Decision
               /\ decision'.effect # "invalid" /\ top # {} =>
                    /\ decision'.rule \in top
                    /\ \A k \in top : decision'.effect = rules[k].effect
               /\ decision'.effect = "invalid" <=> Disagree(top)
               /\ top = {} => decision' = Default'
    BY <1>1, <1>4 DEF MostSpecificWins, Disagree
  <2> HIDE DEF top
  <2>1. top = Range(best)
    BY <1>3 DEF top
  <2>2. "invalid" \notin Effect
    BY DEF Effect
  <2>3. Default' = Default
    BY <1>1 DEF Default
  <2>4. CASE best = <<>> /\ decision' = Default
    BY <1>7, <2>1, <2>2, <2>3, <2>4 DEF Disagree, Range
  <2>5. CASE Disagree(Range(best)) /\ decision' = Decided("invalid", FALSE, 0)
    BY <2>1, <2>5 DEF Disagree, Decided, Decision
  <2>6. CASE best # <<>> /\ ~Disagree(Range(best)) /\ decision' = Picked(best[1])
    <3>1. top # {} /\ best[1] \in top
      BY <1>5, <2>1, <2>6
    <3>2. \A k \in top : rules[k].effect = rules[best[1]].effect
      BY <2>1, <2>6, <3>1 DEF Disagree
    <3> QED
      BY <1>5, <1>6, <2>1, <2>2, <2>6, <3>1, <3>2
  <2> QED
    BY <2>4, <2>5, <2>6 DEF Decide
<1>9. TypeOK'
  BY <1>1, <1>8 DEF TypeOK
<1>10. LoopInv'
  BY <1>1 DEF LoopInv, MostSpecific, Applicable, Applies, Matches, TokenWise, MoreSpecific, Quality
<1>11. NoTies'
  BY <1>1 DEF NoTies, ConflictingTie
<1> QED
  BY <1>1, <1>8, <1>9, <1>10, <1>11 DEF IInv, Answered

LEMMA StutterStep == IInv /\ UNCHANGED vars => IInv'
<1> SUFFICES ASSUME IInv, UNCHANGED vars PROVE IInv'
  OBVIOUS
<1>1. UNCHANGED <<cfg, pc, rules, query, i, quality, best, decision>>
  BY DEF vars
<1>2. TypeOK'
  BY <1>1 DEF IInv, TypeOK
<1>3. LoopInv'
  BY <1>1 DEF IInv, LoopInv, MostSpecific, Applicable, Applies, Matches, TokenWise,
              MoreSpecific, Quality
<1>4. NoTies'
  BY <1>1 DEF IInv, NoTies, ConflictingTie
<1>5. /\ MostSpecific(Len(rules))' = MostSpecific(Len(rules))
      /\ \A S : Disagree(S)' <=> Disagree(S)
      /\ Default' = Default
  BY <1>1 DEF MostSpecific, Applicable, Applies, Matches, TokenWise, MoreSpecific,
              Disagree, Default
<1>6. MostSpecificWins'
  <2> DEFINE top == MostSpecific(Len(rules))
  <2>1. top' = top
    BY <1>5
  <2> HIDE DEF top
  <2>2. Disagree(top)' <=> Disagree(top)
    BY <1>1, <2>1 DEF Disagree
  <2> QED
    BY <1>1, <1>5, <2>1, <2>2 DEF IInv, MostSpecificWins, Answered, top
<1> QED
  BY <1>1, <1>2, <1>3, <1>4, <1>6 DEF IInv, Answered

\* Every configuration, every command line: the invariant of the loop holds.
THEOREM Invariant == Spec => []IInv
<1>1. IInv /\ [Next]_vars => IInv'
  BY FromConfigStep, EvaluateStep, ConsiderStep, DecideStep, StutterStep DEF Next, Stopped
<1> QED
  BY InitInv, <1>1, PTL DEF Spec

\* The variables of the engine keep their types (policy.rs:7-52).
THEOREM Typing == Spec => []TypeOK
<1>1. IInv => TypeOK
  BY DEF IInv
<1> QED
  BY Invariant, <1>1, PTL

\* evaluate answers as its most specific matching rules say, for any number
\* of rules in any order (policy.rs:96-167).
THEOREM MostSpecificRule == Spec => []MostSpecificWins
<1>1. IInv => MostSpecificWins
  BY DEF IInv
<1> QED
  BY Invariant, <1>1, PTL

-----------------------------------------------------------------------------
(* Conflicts at run time.                                                  *)

LEMMA PrefixesOfOneLength ==
    ASSUME NEW p \in Seq(Token), NEW q \in Seq(Token), NEW a \in Seq(Token),
           IsPrefix(p, a), IsPrefix(q, a), Len(p) = Len(q)
    PROVE  p = q
<1>1. /\ Len(p) <= Len(a) /\ \A k \in 1..Len(p) : p[k] = a[k]
      /\ \A k \in 1..Len(q) : q[k] = a[k]
  BY DEF IsPrefix
<1> QED
  BY <1>1

\* Two rules for one command that match the same words with the same quality
\* and disagree are two different globs or two different regular expressions:
\* from_config has found all other conflicts (policy.rs:389-413).
THEOREM ConflictsArePatterns == Spec => []ConflictOnlyOfPatterns
<1>1. IInv => ConflictOnlyOfPatterns
  <2> SUFFICES ASSUME IInv, Answered, NEW j \in MostSpecific(Len(rules)),
                      NEW k \in MostSpecific(Len(rules)), rules[j].effect # rules[k].effect
               PROVE  rules[j].kind \in {"glob", "regex"} /\ rules[j].pat # rules[k].pat
    BY DEF ConflictOnlyOfPatterns
  <2>1. /\ query \in Query /\ rules \in Seq(CompiledRule)
        /\ j \in DOMAIN rules /\ k \in DOMAIN rules
        /\ Applies(rules[j], query) /\ Applies(rules[k], query)
        /\ ~MoreSpecific(rules[j], rules[k]) /\ ~MoreSpecific(rules[k], rules[j])
    BY DEF IInv, TypeOK, LoopInv, Answered, MostSpecific, Applicable
  <2>2. rules[j] \in CompiledRule /\ rules[k] \in CompiledRule /\ query.args \in Seq(Token)
    BY <2>1, QueryAssumption DEF CommandLine
  <2>3. rules[j].kind = rules[k].kind /\ Len(rules[j].pat) = Len(rules[k].pat)
    BY <2>1, <2>2 DEF MoreSpecific, Specificity, CompiledRule, Kind
  <2>4. rules[j].cmd = rules[k].cmd
    BY <2>1 DEF Applies
  <2>5. rules[j].pat # rules[k].pat
    BY <2>1, <2>3, <2>4 DEF IInv, NoTies, ConflictingTie
  <2>6. rules[j].kind # "exact"
    BY <2>1, <2>3, <2>5 DEF Applies, Matches
  <2>7. rules[j].kind # "prefix"
    <3>1. ASSUME rules[j].kind = "prefix" PROVE FALSE
      <4>1. IsPrefix(rules[j].pat, query.args) /\ IsPrefix(rules[k].pat, query.args)
        BY <2>1, <2>3, <3>1 DEF Applies, Matches
      <4> QED
        BY <2>2, <2>3, <2>5, <4>1, PrefixesOfOneLength DEF CompiledRule
    <3> QED
      BY <3>1
  <2> QED
    BY <2>2, <2>5, <2>6, <2>7 DEF CompiledRule, Kind
<1> QED
  BY Invariant, <1>1, PTL
-----------------------------------------------------------------------------
(* Entries of policy.deny.                                                 *)

Compiled(c) == [k \in DOMAIN RawRules(c) |-> CompileRule(RawRules(c)[k])]

\* The rules that evaluate looks at are those of the configuration.
Loaded == pc \in {"ready", "match", "answered"} => ~Blank(cfg) /\ rules = Compiled(cfg)

LEMMA AlwaysLoaded == Spec => []Loaded
<1>1. Init => Loaded
  BY DEF Init, Loaded
<1>2. Loaded /\ [Next]_vars => Loaded'
  <2> SUFFICES ASSUME Loaded, [Next]_vars PROVE Loaded'
    OBVIOUS
  <2>1. CASE FromConfig
    BY <2>1 DEF FromConfig, Loaded, Compiled
  <2>2. CASE Evaluate \/ Consider \/ Decide
    BY <2>2 DEF Evaluate, Consider, Decide, Loaded
  <2>3. CASE UNCHANGED vars
    BY <2>3 DEF vars, Loaded
  <2> QED
    BY <2>1, <2>2, <2>3 DEF Next, Stopped
<1> QED
  BY <1>1, <1>2, PTL DEF Spec

LEMMA ConcatLeft ==
    ASSUME NEW S, NEW s \in Seq(S), NEW t \in Seq(S), NEW k \in DOMAIN s
    PROVE  s \o t \in Seq(S) /\ k \in DOMAIN (s \o t) /\ (s \o t)[k] = s[k]
<1>1. s \o t \in Seq(S) /\ Len(s \o t) = Len(s) + Len(t)
  BY ConcatProperties
<1>2. Len(s) \in Nat /\ Len(t) \in Nat /\ k \in 1..Len(s)
  BY LenProperties
<1>3. k \in 1..Len(s) + Len(t) /\ k <= Len(s)
  BY <1>2
<1>4. (s \o t)[k] = s[k]
  BY <1>3, ConcatProperties
<1> QED
  BY <1>1, <1>3, <1>4, LenProperties

LEMMA DenyEntryIsRule ==
    ASSUME NEW c \in Config, ~Blank(c), NEW spec \in Range(c.deny)
    PROVE  /\ spec \in Seq(Token) /\ spec # <<>>
           /\ \E n \in DOMAIN Compiled(c) : Compiled(c)[n] = DenyRule(spec)
<1> DEFINE a == Parsed(c.allow, "allow")
           d == Parsed(c.deny, "deny")
           q == Parsed(c.ask, "ask")
<1>1. IsConfig(c) /\ c.deny \in List
  BY ConfigAssumption DEF IsConfig
<1>2. PICK m \in DOMAIN c.deny : c.deny[m] = spec
  BY DEF Range
<1>3. spec \in Seq(Token) /\ spec # <<>>
  BY <1>1, <1>2 DEF List, Blank, Range
<1>4. /\ a \in Seq(Range(a)) /\ d \in Seq(Range(d)) /\ q \in Seq(Range(q))
      /\ c.rules \in Seq(Range(c.rules))
  BY <1>1, ParsedRules DEF IsConfig, Blank, Effect
<1>5. m \in DOMAIN d /\ d[m] = ParseShorthand(spec, "deny")
  BY <1>2 DEF Parsed
<1>6. RawRules(c) = a \o d \o q \o c.rules
  BY DEF RawRules, Parsed
<1> HIDE DEF a, d, q
<1> DEFINE S == Range(a) \union Range(d) \union Range(q) \union Range(c.rules)
           n == Len(a) + m
<1>7. a \in Seq(S) /\ d \in Seq(S) /\ q \in Seq(S) /\ c.rules \in Seq(S)
  BY <1>4
<1> HIDE DEF S
<1>8. m \in 1..Len(d) /\ Len(a) \in Nat /\ Len(d) \in Nat /\ Len(q) \in Nat /\ Len(c.rules) \in Nat
  BY <1>5, <1>7
<1>9. n \in DOMAIN RawRules(c) /\ RawRules(c)[n] = d[m]
  <2>1. a \o d \in Seq(S) /\ n \in DOMAIN (a \o d) /\ (a \o d)[n] = d[m]
    <3>1. a \o d \in Seq(S) /\ Len(a \o d) = Len(a) + Len(d)
      BY <1>7, ConcatProperties
    <3>2. n \in 1..Len(a) + Len(d) /\ ~(n <= Len(a)) /\ n - Len(a) = m
      BY <1>8
    <3>3. (a \o d)[n] = d[m]
      BY <1>7, <3>2, ConcatProperties
    <3> QED
      BY <3>1, <3>2, <3>3, LenProperties
  <2> DEFINE b == a \o d
             e == b \o q
  <2>2. b \in Seq(S) /\ n \in DOMAIN b /\ b[n] = d[m]
    BY <2>1
  <2>3. RawRules(c) = e \o c.rules
    BY <1>6
  <2> HIDE DEF b
  <2>4. e \in Seq(S) /\ n \in DOMAIN e /\ e[n] = d[m]
    BY <1>7, <2>2, ConcatLeft
  <2> HIDE DEF e, n
  <2>5. n \in DOMAIN (e \o c.rules) /\ (e \o c.rules)[n] = d[m]
    BY <1>7, <2>4, ConcatLeft
  <2> QED
    BY <2>3, <2>5
<1>10. Compiled(c)[n] = DenyRule(spec) /\ n \in DOMAIN Compiled(c)
  BY <1>5, <1>9 DEF Compiled, DenyRule
<1> QED
  BY <1>3, <1>10

LEMMA CompiledShorthand ==
    ASSUME NEW e, NEW cmd, NEW kind, NEW pat
    PROVE  CompileRule(Raw(e, cmd, kind, pat)) =
             [effect |-> e, cmd |-> cmd, kind |-> kind, pat |-> pat, intent |-> {}]
<1> DEFINE r == Raw(e, cmd, kind, pat)
<1>1. /\ r.effect = e /\ r.cmd = cmd /\ r.intent = {}
      /\ r.matchers = [k \in {kind} |-> pat]
  BY DEF Raw
<1>2. DOMAIN r.matchers = {kind} /\ r.matchers[kind] = pat
  BY <1>1
<1>3. (CHOOSE k \in DOMAIN r.matchers : TRUE) = kind
  BY <1>2
<1> QED
  BY <1>1, <1>2, <1>3 DEF CompileRule

\* Words that a sequence of plain words matches as globs are these words.
LEMMA PlainGlobs ==
    ASSUME NEW p \in Seq(Token), NEW a \in Seq(Token), Len(p) <= Len(a), Plain(p),
           \A k \in DOMAIN p : a[k] \in GlobHits[p[k]]
    PROVE  IsPrefix(p, a)
<1>1. \A k \in 1..Len(p) : a[k] = p[k]
  <2> TAKE k \in 1..Len(p)
  <2>1. p[k] \in Token \ GlobMeta
    BY DEF Plain
  <2> QED
    BY <2>1, GlobAssumption
<1>2. SubSeq(p, 1, Len(p)) = SubSeq(a, 1, Len(p))
  BY <1>1
<1> QED
  BY <1>2 DEF IsPrefix

\* The rule of an entry applies to what the entry names.
LEMMA NamesApplies ==
    ASSUME NEW spec \in Seq(Token), spec # <<>>, NEW q \in CommandLine, Names(spec, q)
    PROVE  Applies(DenyRule(spec), q)
<1> DEFINE words == Tail(spec)
           open == words # <<>> /\ Last(words) = Star /\ Plain(Front(words))
<1>1. words \in Seq(Token) /\ q.args \in Seq(Token)
  BY DEF CommandLine
<1>2. q.cmd = Head(spec)
  BY DEF Names
<1>3. \/ Plain(words) /\ IsPrefix(words, q.args)
      \/ open /\ IsPrefix(Front(words), q.args)
      \/ TokenWise(GlobHits, words, q.args)
  BY DEF Names
<1>4. DenyRule(spec) =
        IF open THEN [effect |-> "deny", cmd |-> Head(spec), kind |-> "prefix",
                      pat |-> Front(words), intent |-> {}]
        ELSE IF Plain(words) THEN [effect |-> "deny", cmd |-> Head(spec), kind |-> "prefix",
                                   pat |-> words, intent |-> {}]
        ELSE [effect |-> "deny", cmd |-> Head(spec), kind |-> "glob", pat |-> words, intent |-> {}]
  BY CompiledShorthand DEF DenyRule, ParseShorthand
<1> HIDE DEF words
<1>5. open => ~Plain(words)
  <2> SUFFICES ASSUME open PROVE ~Plain(words)
    OBVIOUS
  <2>1. Len(words) \in DOMAIN words
    BY <1>1, EmptySeq, LenProperties
  <2> QED
    BY <2>1, GlobAssumption DEF Plain, Last
<1>6. CASE open
  <2>1. /\ Front(words) \in Seq(Token) /\ Len(Front(words)) = Len(words) - 1
        /\ \A k \in DOMAIN Front(words) : k \in DOMAIN words /\ Front(words)[k] = words[k]
    <3>1. Len(words) \in Nat \ {0} /\ DOMAIN words = 1..Len(words)
      BY <1>1, <1>6, EmptySeq, LenProperties
    <3>2. \A k \in 1..Len(words) - 1 : words[k] \in Token
      BY <1>1, <3>1
    <3> DEFINE l == Len(words) - 1
    <3> DEFINE f == SubSeq(words, 1, l)
    <3>3. l \in Nat /\ Front(words) = f
      BY <3>1 DEF Front
    <3>4. /\ f \in Seq(Token)
          /\ Len(f) = IF 1 <= l THEN l - 1 + 1 ELSE 0
          /\ \A k \in 1..l - 1 + 1 : f[k] = words[1 + k - 1]
      BY <3>2, <3>3, SubSeqProperties
    <3>5. \A k \in 1..l : k \in DOMAIN words
      BY <3>1
    <3>6. l = Len(words) - 1
      OBVIOUS
    <3> HIDE DEF f, l
    <3>7. Len(f) = l
      BY <3>3, <3>4
    <3>8. DOMAIN f = 1..l
      BY <3>4, <3>7, LenProperties
    <3>9. \A k \in 1..l : f[k] = words[k]
      BY <3>3, <3>4
    <3>10. \A k \in DOMAIN f : k \in DOMAIN words /\ f[k] = words[k]
      BY <3>5, <3>8, <3>9
    <3> QED
      BY <3>3, <3>4, <3>6, <3>7, <3>10, Zenon
  <2>2. IsPrefix(Front(words), q.args)
    <3>1. CASE TokenWise(GlobHits, words, q.args)
      <4>1. Len(Front(words)) <= Len(q.args)
        BY <1>1, <2>1, <3>1 DEF TokenWise
      <4>2. \A k \in DOMAIN Front(words) : q.args[k] \in GlobHits[Front(words)[k]]
        BY <2>1, <3>1 DEF TokenWise
      <4> QED
        BY <1>1, <1>6, <2>1, <4>1, <4>2, PlainGlobs
    <3> QED
      BY <1>3, <1>5, <1>6, <3>1
  <2> QED
    BY <1>2, <1>4, <1>6, <2>2 DEF Applies, Matches
<1>7. CASE ~open /\ Plain(words)
  <2>1. IsPrefix(words, q.args)
    <3>1. CASE TokenWise(GlobHits, words, q.args)
      <4>1. Len(words) <= Len(q.args) /\ \A k \in DOMAIN words : q.args[k] \in GlobHits[words[k]]
        BY <1>1, <3>1 DEF TokenWise
      <4> QED
        BY <1>1, <1>7, <4>1, PlainGlobs
    <3> QED
      BY <1>3, <1>7, <3>1
  <2> QED
    BY <1>2, <1>4, <1>7, <2>1 DEF Applies, Matches
<1>8. CASE ~open /\ ~Plain(words)
  BY <1>2, <1>3, <1>4, <1>8 DEF Applies, Matches
<1> QED
  BY <1>6, <1>7, <1>8

(* What a deny entry names is denied, or fails, unless a more specific     *)
(* rule decides: through the parser of the shorthand, the compiler and the *)
(* loop (policy.rs:275-333, 96-167).                                       *)
THEOREM DenyEntries == Spec => []DenyHolds
<1>1. IInv /\ Loaded => DenyHolds
  <2> SUFFICES ASSUME IInv, Loaded, Answered, NEW spec \in Range(cfg.deny), Names(spec, query),
                      decision.effect \notin {"deny", "invalid"}
               PROVE  decision.rule # 0 /\ MoreSpecific(rules[decision.rule], DenyRule(spec))
    BY DEF DenyHolds
  <2>1. /\ cfg \in Config /\ query \in Query /\ rules \in Seq(CompiledRule)
        /\ i = Len(rules) + 1 /\ best \in Seq(DOMAIN rules)
        /\ ~Blank(cfg) /\ rules = Compiled(cfg)
    BY DEF IInv, TypeOK, LoopInv, Loaded, Answered
  <2>2. PICK n \in DOMAIN rules : rules[n] = DenyRule(spec)
    BY <2>1, DenyEntryIsRule
  <2>3. n \in Applicable(Len(rules)) /\ rules[n].effect = "deny"
    <3>1. spec \in Seq(Token) /\ spec # <<>>
      BY <2>1, DenyEntryIsRule
    <3>2. Applies(rules[n], query)
      BY <2>1, <2>2, <3>1, NamesApplies, QueryAssumption
    <3>3. DenyRule(spec).effect = "deny"
      <4>1. PICK kind, pat : ParseShorthand(spec, "deny") = Raw("deny", Head(spec), kind, pat)
        BY DEF ParseShorthand
      <4> QED
        BY <4>1, CompiledShorthand DEF DenyRule
    <3> QED
      BY <2>1, <2>2, <3>2, <3>3 DEF Applicable
  <2>4. MostSpecific(Len(rules)) # {}
    <3>1. i - 1 = Len(rules)
      BY <2>1
    <3>2. best # <<>> /\ Range(best) = MostSpecific(Len(rules))
      BY <2>3, <3>1 DEF IInv, LoopInv, Answered
    <3>3. 1 \in DOMAIN best
      BY <2>1, <3>2, EmptySeq, LenProperties
    <3>4. best[1] \in Range(best)
      BY <3>3 DEF Range
    <3> QED
      BY <3>2, <3>4
  <2> DEFINE m == decision.rule
  <2>5. m \in MostSpecific(Len(rules)) /\ \A k \in MostSpecific(Len(rules)) : decision.effect = rules[k].effect
    BY <2>4 DEF IInv, MostSpecificWins
  <2>6. m \in DOMAIN rules /\ m # 0
    BY <2>1, <2>5 DEF MostSpecific, Applicable
  <2>7. PICK j \in Applicable(Len(rules)) : MoreSpecific(rules[j], rules[n])
    BY <2>3, <2>5 DEF MostSpecific
  <2>8. ~MoreSpecific(rules[j], rules[m])
    BY <2>5 DEF MostSpecific
  <2>9. rules[j] \in CompiledRule /\ rules[n] \in CompiledRule /\ rules[m] \in CompiledRule
    BY <2>1, <2>2, <2>6 DEF Applicable
  <2> HIDE DEF m
  <2>10. MoreSpecific(rules[m], rules[n])
    BY <2>7, <2>8, <2>9, RuleOrder, RuleQuality, BeatsOrder
  <2> QED
    BY <2>2, <2>6, <2>10 DEF m
<1> QED
  BY <1>1, Invariant, AlwaysLoaded, PTL

(* explain and test print what the gate of the daemon does, for every      *)
(* decision evaluate can make (policy_tool.rs:64-69, server.rs:804-816).   *)
THEOREM ToolsAgree == Spec => []ExplainAgrees
<1>1. IInv => ExplainAgrees
  <2> SUFFICES ASSUME IInv, Answered PROVE ExplainAgrees
    BY DEF ExplainAgrees
  <2> DEFINE top == MostSpecific(Len(rules))
  <2>1. decision \in Decision
    <3>1. decision \in Decision \union {NoDecision}
      BY DEF IInv, TypeOK
    <3>2. CASE top = {}
      <4>1. cfg.default \in Effect
        BY ConfigAssumption DEF IInv, TypeOK, IsConfig
      <4> QED
        BY <3>1, <3>2, <4>1 DEF IInv, MostSpecificWins, Default, Decided, NoDecision, Effect
    <3>3. CASE top # {} /\ decision.effect # "invalid"
      <4>1. PICK k \in top : decision.effect = rules[k].effect
        BY <3>3 DEF IInv, MostSpecificWins
      <4>2. rules[k] \in CompiledRule
        BY DEF IInv, TypeOK, MostSpecific, Applicable
      <4> QED
        BY <3>1, <4>1, <4>2 DEF CompiledRule, NoDecision, Effect
    <3> QED
      BY <3>1, <3>2, <3>3 DEF NoDecision
  <2>2. /\ decision.effect \in Effect \union {"invalid"} /\ decision.intentRequired \in BOOLEAN
        /\ query.intent \in BOOLEAN /\ cfg.hook \in BOOLEAN
    BY <2>1, ConfigAssumption, QueryAssumption
    DEF IInv, TypeOK, LoopInv, Answered, Decision, CommandLine, IsConfig
  <2> QED
    BY <2>2 DEF ExplainAgrees, Explain, Gate, Effect
<1> QED
  BY <1>1, Invariant, PTL
=============================================================================
