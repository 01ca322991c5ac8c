------------------------------- MODULE Ingress -------------------------------
(***************************************************************************)
(* Stages 0 to 3 of BandwidthOptimizer.process() (optimizer.py 98-147) in  *)
(* an optimizer that Startup has built: flow tracking (FlowTable),         *)
(* classification, the flow's hint, the value coefficient, the filter,     *)
(* compression.  Of what other threads may change these stages read only   *)
(* the flow's scores, so what follows update() is one step.  Stage 4 and   *)
(* the counters are Optimizer's.                                           *)
(***************************************************************************)
EXTENDS Startup, FlowTable

CONSTANTS
    Threshold,   \* config.compression_threshold_bytes
    DemoteBytes, \* priority_demote_threshold, as bytes in the shortest duration
    Scores       \* Scores[p]: the thresholds its flow has reached when p is
                 \*   prepared, a subset of {"latency", "bandwidth"}

\* A class, a payload and a size of its own come with every packet; the bytes of
\* a payload are a number.  Rules are lists, and a command line names files that
\* are there; an embedding program has neither key nor policy file.
ASSUME PacketAssumption ==
    \A p \in Packets :
        /\ Packet[p].priority \in {NoPriority} \cup TrafficPriority
        /\ Packet[p].payload \in [body : Nat, wraps : Nat, stray : BOOLEAN, size : Nat, deflated : Nat]
        /\ Packet[p].size \in Nat
ASSUME PoliciesAssumption ==
    \A doc \in DOMAIN Policies :
        LET rules == Policies[doc].rules IN Len(rules) \in Nat /\ DOMAIN rules = 1..Len(rules)
ASSUME CommandLinesAssumption ==
    \A line \in CommandLines :
        /\ line.traffic \subseteq Packets
        /\ line.policy \in DOMAIN Policies \cup {None}
        /\ line.start = "presets" => line.license = None /\ line.policy = None

VARIABLES
    priority,     \* packet.priority, NoPriority before classification
    coefficient,  \* packet.value_coefficient
    payload,      \* packet.payload: what the sender wrote, how often it has been
                  \*   compressed, whether it starts with the magic bytes by chance,
                  \*   its size, and the size zlib can bring it to
    size          \* packet.size_bytes

packetVars == <<priority, coefficient, payload, size>>
vars == <<startVars, flowVars, packetVars>>

Init ==
    /\ StartInit /\ FlowInit
    /\ priority = [p \in Packets |-> Packet[p].priority]
    /\ coefficient = [p \in Packets |-> One]
    /\ payload = [p \in Packets |-> Packet[p].payload]
    /\ size = [p \in Packets |-> Packet[p].size]

-----------------------------------------------------------------------------
(* Variant with a plausible bug, noticed by PayloadsRestorable.            *)
MayCompress_Twice(data) == data.size >= Threshold
-----------------------------------------------------------------------------
\* priority_hint(): a boost comes before a demotion.
Hint(base, boost, demote) ==
    IF boost /\ base # CRITICAL THEN base - 1
    ELSE IF demote /\ base # BACKGROUND THEN base + 1
    ELSE base

\* Of the scores' arithmetic only this is kept: small packets alone do not make
\* a flow latency-sensitive, and the time between packets counts from the second
\* one on; nor is it bandwidth-hungry by one packet, unless that one is huge.
Several(p) == record[held[p]].count > 1 \/ held[p] \in shared
Boosts(p) == "latency" \in Scores[p] /\ Several(p)
Demotes(p) == "bandwidth" \in Scores[p] /\ (Several(p) \/ size[p] >= DemoteBytes)

BaseClass(p) ==
    IF priority[p] # NoPriority THEN priority[p]
    ELSE Classify(ClassTable, DefaultPriority, Packet[p])

\* Stages 1 to 1c.
Prepare(p) ==
    /\ priority' = [priority EXCEPT ![p] = Hint(BaseClass(p), Boosts(p), Demotes(p))]
    /\ coefficient' = [coefficient EXCEPT ![p] =
         IF valueRules = None THEN @ ELSE CoefficientOf(ValueTable, Packet[p])]

\* Stage 2 drops the packet, as it may, or stage 3 leaves the payload alone.
PassOn(p) ==
    /\ Go(p, "updated", "done")
    /\ Prepare(p)
    /\ UNCHANGED <<startVars, clock, table, record, held, local, seen, disturbed, shared,
                   payload, size>>

\* compress(): long enough and without the magic prefix; zlib's result has a size.
Magic(data) == data.stray \/ data.wraps > 0
MayCompress(data) == data.size >= Threshold /\ ~Magic(data)
Compressed(data) == [data EXCEPT !.wraps = @ + 1, !.size = data.deflated + 4]
Shrinks(data) == Compressed(data).size < data.size

Saving(p) == payload[p].size - Compressed(payload[p]).size

\* Stage 2 keeps the packet and stage 3 compresses it.
Compress(p) ==
    /\ Go(p, "updated", "done")
    /\ Prepare(p)
    /\ MayCompress(payload[p]) /\ Shrinks(payload[p])
    /\ payload' = [payload EXCEPT ![p] = Compressed(@)]
    /\ size' = [size EXCEPT ![p] = @ - Saving(p)]
    /\ UNCHANGED <<startVars, clock, table, record, held, local, seen, disturbed, shared>>

Process(p) == PassOn(p) \/ Compress(p)

Next ==
    \/ StartNext /\ UNCHANGED <<flowVars, packetVars>>
    \/ /\ boot = "running"
       /\ Tick \/ EvictExpired \/ \E p \in args.traffic : Update(p)
       /\ UNCHANGED <<startVars, packetVars>>
    \/ \E p \in Packets : Process(p)

Spec == Init /\ [][Next]_vars

-----------------------------------------------------------------------------
Prepared(p) == stage[p] = "done"

\* Which rule describes which packet, and which does but for its payload pattern.
Describing(rules) ==
    {d \in Packets \X DOMAIN rules : Matches(rules[d[2]], Packet[d[1]])}
Overlooked(rules) ==
    {d \in Packets \X DOMAIN rules : /\ rules[d[2]].pattern # NoPattern
                                     /\ RuleMatches(rules[d[2]], Packet[d[1]])}
DefaultDescribing == Describing(DEFAULT_RULES)
PolicyDescribing == UNION {{doc} \X Describing(Policies[doc].rules) : doc \in DOMAIN Policies}
PolicyOverlooked == UNION {{doc} \X Overlooked(Policies[doc].rules) : doc \in DOMAIN Policies}

WithinOneLevel(class, base) == class \in (base - 1)..(base + 1)

\* What is promised of one packet: its class, up to one level of its flow's hint,
\* and its value come from the first rule of the policy in force that describes it
\* (value.py 320-321), unless a rule before would, but for its payload pattern.
Treated(p) ==
    LET At(base) == /\ WithinOneLevel(priority[p], base)
                    /\ priority[p] \in TrafficPriority
                    /\ ~Several(p) => priority[p] >= base
        Valued(i, value) ==
            \/ \E j \in 1..(i - 1) : <<args.policy, <<p, j>>>> \in PolicyOverlooked
            \/ valueRules = "policy" => coefficient[p] = value
        Describes(i) == IF classRules = "policy" THEN <<args.policy, <<p, i>>>> \in PolicyDescribing
                                                 ELSE <<p, i>> \in DefaultDescribing
        AsByRule(i) == /\ Describes(i) /\ \A j \in 1..(i - 1) : ~Describes(j)
                       /\ At(ClassTable[i].priority) /\ Valued(i, ClassTable[i].coefficient)
        AsByNone == /\ \A i \in DOMAIN ClassTable : ~Describes(i)
                    /\ At(DefaultPriority) /\ Valued(Len(ClassTable) + 1, One)
    IN  /\ IF Packet[p].priority # NoPriority THEN At(Packet[p].priority)
           ELSE (\E i \in DOMAIN ClassTable : AsByRule(i)) \/ AsByNone
        /\ valueRules = None => coefficient[p] = One
        /\ coefficient[p] # One =>
             args.start = "presets" \/ "pvm" \in Licenses[args.license].features

\* What the command line must satisfy for the process to run.
Admissible ==
    boot = "running" => /\ args.license # None => Valid(Licenses[args.license])
                        /\ args.policy # None => ParsesPolicy(Policies[args.policy])

\* From the command line to the packet: a process serves packets only if its
\* key, if it has one, is genuine and current and its policy is sound; every
\* packet is classed by the first rule of the policy in force that describes it,
\* and a flow of one packet is never boosted.  Its value is 1 without the pvm
\* feature; with it, value and class come from one rule, as value.py 320-321
\* says, except that value policies ignore payload patterns.
TreatedAsConfigured == Admissible /\ \A p \in Packets : Prepared(p) => Treated(p)

\* decompress() takes one layer off, or returns what has none.
Decompress(data) == <<data.body, IF data.wraps = 0 THEN 0 ELSE data.wraps - 1>>

\* Whatever nodes a packet has passed, one decompress() gives what the sender
\* wrote, also when another node had compressed it before ("double-compression",
\* compressor.py 5-7); only a payload that starts with the magic bytes by chance
\* is beyond it.  No payload grows, and the packet shrinks with its payload.
PayloadsRestorable ==
    \A p \in Packets :
        /\ ~Packet[p].payload.stray =>
             Decompress(payload[p]) = Decompress(Packet[p].payload)
        /\ size[p] - payload[p].size = Packet[p].size - Packet[p].payload.size
        /\ payload[p].size <= Packet[p].payload.size
=============================================================================
