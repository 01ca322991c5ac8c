-------------------------- MODULE MCValueScheduler ---------------------------
(* Packets whose value order contradicts their priorities: two of different *)
(* priority and equal value, one of the same coefficient and a better class, *)
(* and an urgent one of no value (a negative coefficient, clamped).  With two *)
(* places, call can push out either of the equal ones, in the order they came.*)
EXTENDS ValueScheduler

MCPriority == [call |-> CRITICAL, mail |-> NoPriority, sync |-> BACKGROUND,
               probe |-> CRITICAL]
MCCoefficient == [call |-> 1, mail |-> 1, sync |-> 3, probe |-> -3]
MCPackets == DOMAIN MCPriority
=============================================================================
