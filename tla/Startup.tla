------------------------------- MODULE Startup -------------------------------
(***************************************************************************)
(* How a process comes to its configuration (main.py 43-107): it verifies  *)
(* the licence key, loads the policy file, and builds the optimizer, or    *)
(* gives up.  A program that uses the library may instead build its        *)
(* optimizer from the presets (demos/).                                    *)
(*                                                                         *)
(* A key is what parse_license_key() finds in the string, a policy what    *)
(* the YAML parser makes of the file; the codecs themselves are left out.  *)
(***************************************************************************)
EXTENDS RuleTables

CONSTANTS
    Licenses,     \* Licenses[name]: a key someone may pass to --license-key
    Policies,     \* Policies[name]: a file someone may pass to --policy
    CommandLines  \* [start, license, policy, traffic]: None for an absent option,
                  \*   and the packets the process is going to receive

VARIABLES
    args,        \* the command line
    boot,        \* "license", "policy", "running" or "refused"
    classRules,  \* whose rules the classifier has: "default" or "policy"
    valueRules   \* whose rules the value policy has, None without one

startVars == <<args, boot, classRules, valueRules>>

None == "none"
UnknownPriority == -1

\* TIER_FEATURES
TierFeatures(tier) ==
    IF tier \in {"pro", "enterprise"} THEN {"pvm", "sla", "multi_node"} ELSE {}

\* generate_trial(), verified with the secret that signed it
Trial(tier, features, expires) ==
    [framed |-> TRUE, genuine |-> TRUE, decodes |-> TRUE, listed |-> TRUE,
     features |-> features, expires |-> expires]

\* parse_license_key(): "<payload>.<signature>", signed with our secret, JSON,
\* and a list of features.
Parses(key) == key.framed /\ key.genuine /\ key.decodes /\ key.listed

\* A date that cannot be read does not expire.
IsExpired(key) == key.expires = "past"

HasFeature(key, feature) == feature \in key.features

\* A raw rule has every field, absent ones with the value .get() gives them.
ParsesRule(raw) ==
    /\ raw.named
    /\ raw.priority \in TrafficPriority
    /\ raw.coefficient >= 0

\* load_file(), _parse()
ParsesPolicy(doc) ==
    /\ doc.readable
    /\ doc.default \in TrafficPriority \cup {NoPriority}
    /\ \A share \in doc.budget : share.class \in TrafficPriority /\ share.pct \in 0..100
    /\ \A i \in DOMAIN doc.rules : ParsesRule(doc.rules[i])

StartInit ==
    /\ args \in CommandLines
    /\ boot = "license"
    /\ classRules = "default"
    /\ valueRules = None

-----------------------------------------------------------------------------
\* _resolve_license(): sys.exit(1) unless the key is valid or absent.
Valid(key) == Parses(key) /\ ~IsExpired(key)

ResolveLicense ==
    /\ boot = "license" /\ args.start = "main"
    /\ boot' = IF args.license = None THEN "policy"
               ELSE IF Valid(Licenses[args.license]) THEN "policy" ELSE "refused"
    /\ UNCHANGED <<args, classRules, valueRules>>

Pvm == args.license # None /\ HasFeature(Licenses[args.license], "pvm")

\* _build_optimizer()
Build ==
    /\ boot = "policy" /\ args.policy = None
    /\ boot' = "running"
    /\ valueRules' = IF Pvm THEN "empty" ELSE None
    /\ UNCHANGED <<args, classRules>>

BuildWithPolicy ==
    /\ boot = "policy" /\ args.policy # None
    /\ ParsesPolicy(Policies[args.policy])
    /\ boot' = "running"
    /\ classRules' = "policy"
    /\ valueRules' = IF Pvm THEN "policy" ELSE None
    /\ UNCHANGED args

RejectPolicy ==
    /\ boot = "policy" /\ args.policy # None
    /\ ~ParsesPolicy(Policies[args.policy])
    /\ boot' = "refused"
    /\ UNCHANGED <<args, classRules, valueRules>>

\* BandwidthOptimizer(flow_value_policy=FlowValuePolicy.from_presets())
Embed ==
    /\ boot = "license" /\ args.start = "presets"
    /\ boot' = "running"
    /\ valueRules' = "presets"
    /\ UNCHANGED <<args, classRules>>

StartNext == ResolveLicense \/ Build \/ BuildWithPolicy \/ RejectPolicy \/ Embed

-----------------------------------------------------------------------------
\* The tables in force: to_classification_rules(), from_policy(), from_presets().
ClassTable ==
    IF classRules = "policy" THEN Policies[args.policy].rules ELSE DEFAULT_RULES

DefaultPriority ==
    IF classRules = "policy" THEN PriorityOf(Policies[args.policy].default) ELSE MEDIUM

ValueTable ==
    CASE valueRules = "policy" -> Policies[args.policy].rules
      [] valueRules = "presets" -> FromPresets(1, << >>)
      [] OTHER -> << >>
=============================================================================
