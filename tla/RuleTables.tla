------------------------------ MODULE RuleTables -----------------------------
(***************************************************************************)
(* The ordered rule tables of the classifier (classifier.py), of YAML      *)
(* policies (policy.py) and of value policies (value.py): operators        *)
(* without state.  A rule is a record; ports and protocols are sets, and   *)
(* the empty set is the wildcard.  A regular expression is a model value,  *)
(* and packet.patterns are those that match its payload.  Coefficients     *)
(* count tenths, so that 0.5 is a number.                                  *)
(***************************************************************************)
EXTENDS TrafficClasses, Sequences

NoPattern == "no pattern"
One == 10  \* coefficient 1.0

\* ClassificationRule, and PolicyRule with its value_coefficient.
Rule(priority, ports, protocols) ==
    [priority |-> priority, ports |-> ports, protocols |-> protocols,
     pattern |-> NoPattern, coefficient |-> One]

\* The classifier's table unless a policy replaces it.
DEFAULT_RULES == <<
    Rule(CRITICAL, {5060, 5061, 5004, 5005}, {"udp", "tcp"}),
    Rule(CRITICAL, {}, {"icmp"}),
    Rule(HIGH, {53}, {"udp", "tcp"}),
    Rule(HIGH, {443}, {"tcp"}),
    Rule(HIGH, {22}, {"tcp"}),
    Rule(HIGH, {80, 8080}, {"tcp"}),
    Rule(MEDIUM, {25, 465, 587, 993, 995, 110, 143}, {"tcp"}),
    Rule(MEDIUM, {5222, 5269}, {"tcp"}),
    Rule(LOW, {21, 989, 990}, {"tcp"}),
    Rule(LOW, {123}, {"udp"}),
    Rule(BACKGROUND, 6881..6889, {"tcp", "udp"}),
    Rule(BACKGROUND, {6969}, {"udp"}) >>

Preset(ports, protocols, priority, coefficient) ==
    [Rule(priority, ports, protocols) EXCEPT !.coefficient = coefficient]

\* voip, interactive_api, video_conference, interactive_web, email, bulk_transfer
TRAFFIC_PRESETS == <<
    Preset({5060, 5061, 5004, 5005}, {"udp", "tcp"}, CRITICAL, 1000),
    Preset({443, 8443}, {"tcp"}, HIGH, 500),
    Preset({8801, 8802, 3478, 3479}, {"udp", "tcp"}, HIGH, 400),
    Preset({80, 8080, 53, 22}, {"tcp", "udp"}, HIGH, 200),
    Preset({25, 465, 587, 993, 995, 110, 143}, {"tcp"}, MEDIUM, 50),
    Preset({6881, 6882, 6883, 21, 20}, {"tcp", "udp"}, BACKGROUND, 5) >>

\* from_presets(revenue_scale, overrides): an override wins over the scaled value.
FromPresets(scale, overrides) ==
    [i \in DOMAIN TRAFFIC_PRESETS |->
        [TRAFFIC_PRESETS[i] EXCEPT !.coefficient =
            IF i \in DOMAIN overrides THEN overrides[i]
            ELSE @ * (IF scale < 0 THEN 0 ELSE scale)]]

-----------------------------------------------------------------------------
(* Variant with a plausible bug, noticed by TreatedAsConfigured.           *)
FirstMatch_Last(hits) == CHOOSE i \in hits : \A j \in hits : i >= j
-----------------------------------------------------------------------------
\* FlowValuePolicy._rule_matches: ports and protocol only.
RuleMatches(rule, packet) ==
    /\ rule.ports = {} \/ {packet.src.port, packet.dst.port} \cap rule.ports # {}
    /\ rule.protocols = {} \/ packet.protocol \in rule.protocols

\* ClassificationRule.matches
Matches(rule, packet) ==
    RuleMatches(rule, packet) /\ rule.pattern \in packet.patterns \cup {NoPattern}

\* The loops over both tables: the first rule that matches.
FirstMatch(hits) == CHOOSE i \in hits : \A j \in hits : i <= j

\* classify(), of a packet that came without a class
Classify(rules, default, packet) ==
    LET hits == {i \in DOMAIN rules : Matches(rules[i], packet)}
    IN  IF hits = {} THEN default ELSE rules[FirstMatch(hits)].priority

\* get_coefficient() without overrides; ValueTuner models those.
CoefficientOf(rules, packet) ==
    LET hits == {i \in DOMAIN rules : RuleMatches(rules[i], packet)}
    IN  IF hits = {} THEN One ELSE rules[FirstMatch(hits)].coefficient
=============================================================================
