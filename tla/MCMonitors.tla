------------------------------ MODULE MCMonitors -----------------------------
(* Two places in the queue: half full is SOFT, full is HARD.  An urgent     *)
(* packet with both ceilings and a bulk one with a sojourn ceiling only;   *)
(* both may expire, each in the hands of another consumer.                 *)
EXTENDS Backpressure

MCPriority == [call |-> CRITICAL, sync |-> BACKGROUND]
MCPackets == DOMAIN MCPriority
MCRank == [p \in MCPackets |-> PriorityOf(MCPriority[p])]
MCPipeline == [c \in {CRITICAL} |-> 0]
MCSojourn == [c \in {CRITICAL, BACKGROUND} |-> 0]
=============================================================================
