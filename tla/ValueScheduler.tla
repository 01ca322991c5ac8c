---------------------------- MODULE ValueScheduler ---------------------------
(***************************************************************************)
(* ValueScheduler (value.py 491-651): the same machine as                  *)
(* PriorityScheduler, ordered by business value.  Its locked sections      *)
(* repeat scheduler.py, so the module adds only what differs, the heap key.*)
(* A configuration gives Rank <- ValueRank, Class <- PriorityRank and      *)
(* MaxSize <- QueueBound.                                                  *)
(***************************************************************************)
EXTENDS PriorityScheduler

CONSTANT Coefficient   \* packet.value_coefficient of each packet

-----------------------------------------------------------------------------
(* Variant with a plausible bug, noticed by ValueGoverns.                  *)
ValueRank_NotNegated ==
    [p \in Packets |-> EffectiveValue(Coefficient[p], Priority[p])]
-----------------------------------------------------------------------------

\* neg_effective_value of the entry made for each packet.
ValueRank == [p \in Packets |-> -EffectiveValue(Coefficient[p], Priority[p])]

ASSUME ValueAssumption == Coefficient \in [Packets -> Int]

\* enqueue(), dequeue() and drain(), reset_stats(): as in PriorityScheduler.
ValueEnqueue(p) == Stamp(p) \/ Enqueue(p)
ValueDequeue == DequeueAny
ValueResetStats == ResetStats

ValueNext ==
    \/ \E p \in Packets : ValueEnqueue(p)
    \/ ValueDequeue
    \/ ValueResetStats

ValueSpec == Init /\ [][ValueNext]_vars /\ Fairness

-----------------------------------------------------------------------------
\* "At the default value_coefficient=1.0 the ordering is identical to
\* PriorityScheduler" (value.py 504-505), for any common positive coefficient:
\* of two such packets in the queue the less urgent is not next to leave and the
\* more urgent not next to be lost; and neither is so, whatever the priorities,
\* of a packet with no positive coefficient beside one that has one.
Outranks(p, q) ==
    /\ Coefficient[p] > 0
    /\ \/ Coefficient[q] <= 0
       \/ /\ Coefficient[q] = Coefficient[p]
          /\ PriorityOf(Priority[p]) < PriorityOf(Priority[q])
ValueOrderSound ==
    \A p, q \in heap : Outranks(p, q) => ~IsBest(q) /\ ~IsWorst(p)

\* "When the queue overflows, it evicts the packet with the lowest effective
\* value - always" (README.md 118-119), and "Remove and return the highest-value
\* packet" (value.py 574): no packet that stays is worth less than one that
\* is lost, or more than one that is forwarded.
ValueGoverns ==
    [][\A p \in Packets, q \in heap \cap heap' :
         /\ p \in Lost' \ Lost =>
              EffectiveValue(Coefficient[p], Priority[p])
                <= EffectiveValue(Coefficient[q], Priority[q])
         /\ p \in InState("forwarded")' \ InState("forwarded") =>
              EffectiveValue(Coefficient[p], Priority[p])
                >= EffectiveValue(Coefficient[q], Priority[q])]_vars
=============================================================================
