------------------------------ MODULE MCIngress ------------------------------
(* Three conversations for a table of two flows, one of them seen in both     *)
(* directions; keys and policies of every kind main.py tells apart.  A rule *)
(* of the policy looks into the payload, and hides the one after it from the *)
(* value policy, which does not.                                             *)
EXTENDS Ingress

Host(ip, port) == [ip |-> ip, port |-> port]
Data(length, deflated, wraps, stray) ==
    [body |-> length, wraps |-> wraps, stray |-> stray, size |-> length, deflated |-> deflated]
Datagram(src, dst, protocol, class, patterns, data) ==
    [src |-> src, dst |-> dst, protocol |-> protocol, priority |-> class,
     patterns |-> patterns, payload |-> data, size |-> data.size + 40]

MCPacket ==
    [call  |-> Datagram(Host(1, 5060), Host(2, 9000), "udp", NoPriority, {"sip"}, Data(200, 90, 0, FALSE)),
     reply |-> Datagram(Host(2, 9000), Host(1, 5060), "udp", NoPriority, {}, Data(20, 10, 0, FALSE)),
     web   |-> Datagram(Host(1, 7000), Host(3, 443), "tcp", NoPriority, {}, Data(90, 60, 1, FALSE)),
     sync  |-> Datagram(Host(4, 6881), Host(1, 8000), "tcp", LOW, {}, Data(9000, 90, 0, TRUE))]
MCPackets == DOMAIN MCPacket
MCScores == [call |-> {"latency", "bandwidth"}, reply |-> {"latency"}, web |-> {},
             sync |-> {"bandwidth"}]

MCLicenses ==
    [trial  |-> Trial("pro", TierFeatures("pro"), "never"),
     basic  |-> Trial("community", TierFeatures("community"), "unreadable"),
     past   |-> Trial("pro", {"pvm"}, "past"),
     forged |-> [Trial("pro", {"pvm"}, "never") EXCEPT !.genuine = FALSE],
     cut    |-> [Trial("pro", {"pvm"}, "never") EXCEPT !.framed = FALSE]]

Raw(class, ports, protocols, pattern, coef) ==
    [named |-> TRUE, priority |-> class, ports |-> ports, protocols |-> protocols,
     pattern |-> pattern, coefficient |-> coef]
Document(rules) ==
    [readable |-> TRUE, default |-> LOW, budget |-> {[class |-> HIGH, pct |-> 40]}, rules |-> rules]
Bulk == Raw(BACKGROUND, {6881, 443}, {"tcp"}, NoPattern, 0)
Phone == Raw(CRITICAL, {5060}, {}, "sip", 900)
AnyUdp == Raw(HIGH, {}, {"udp"}, NoPattern, 70)

MCPolicies ==
    [sound   |-> Document(<<Bulk, Phone, AnyUdp>>),
     absent  |-> [Document(<< >>) EXCEPT !.readable = FALSE],
     wrong   |-> [Document(<<Bulk>>) EXCEPT !.default = UnknownPriority],
     nameless |-> Document(<<Bulk, [Phone EXCEPT !.named = FALSE]>>)]

Line(license, policy, traffic) ==
    [start |-> "main", license |-> license, policy |-> policy, traffic |-> traffic]
MCCommandLines ==
    {Line("trial", "sound", {"call", "reply"}), Line("basic", None, {"web", "sync"}),
     [start |-> "presets", license |-> None, policy |-> None, traffic |-> MCPackets]}
    \cup {Line(key, doc, {"call"}) : key \in {"past", "forged", "cut"}, doc \in {None, "sound"}}
    \cup {Line("trial", doc, {"call"}) : doc \in {"absent", "wrong", "nameless"}}
=============================================================================
