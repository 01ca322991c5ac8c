----------------------------- MODULE MCOptimizer -----------------------------
(* Packets for a queue of two places under red_max_threshold = 50%, so that *)
(* RED lets non-critical traffic fill half the queue, and critical traffic  *)
(* can overflow it.  Coefficients contradict the priorities.                *)
EXTENDS Optimizer

MCPriority == [voip |-> CRITICAL, alarm |-> CRITICAL, mail |-> NoPriority,
               web |-> HIGH, p2p |-> BACKGROUND]
MCCoefficient == [voip |-> 1, alarm |-> 4, mail |-> 2, web |-> 3, p2p |-> 7]
AllPackets == DOMAIN MCPriority

\* Three packets RED applies to and one it spares, for the run with two threads.
FourPackets == AllPackets \ {"alarm"}
FourPriority == [p \in FourPackets |-> MCPriority[p]]
FourCoefficient == [p \in FourPackets |-> MCCoefficient[p]]
=============================================================================
