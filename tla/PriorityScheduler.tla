-------------------------- MODULE PriorityScheduler --------------------------
(***************************************************************************)
(* PriorityScheduler (scheduler.py): a SchedulerQueue ordered and counted  *)
(* by the packet's TrafficPriority.  A configuration gives SchedulerQueue  *)
(* Rank and Class <- PriorityRank and MaxSize <- QueueBound.               *)
(***************************************************************************)
EXTENDS SchedulerQueue, TrafficClasses

CONSTANTS
    Priority,      \* packet.priority of each packet, or NoPriority
    MaxQueueSize   \* argument max_queue_size

ASSUME PriorityAssumption == Priority \in [Packets -> {NoPriority} \cup TrafficPriority]

PriorityRank == [p \in Packets |-> PriorityOf(Priority[p])]
QueueBound == IF MaxQueueSize < 1 THEN 1 ELSE MaxQueueSize
=============================================================================
