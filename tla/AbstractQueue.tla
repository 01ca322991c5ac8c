---------------------------- MODULE AbstractQueue ----------------------------
(***************************************************************************)
(* What a packet scheduler promises to its callers, without threads,       *)
(* sequence numbers or statistics: a buffer of bounded capacity that       *)
(* forwards the most important waiting packet and that, when it is full,   *)
(* sacrifices a packet no waiting packet is less important than.           *)
(*                                                                         *)
(* The promise is the docstrings of scheduler.py (lines 1-9 and 63-72) and *)
(* of value.py (lines 535-545); SchedulerQueue shows that the code keeps it.*)
(***************************************************************************)
EXTENDS Integers, FiniteSets

CONSTANTS
    Packets,   \* the packets callers may offer, each of them once
    Rank,      \* Rank[p]: importance of p, a lower value is more important
    Capacity   \* how many packets may wait

VARIABLES
    waiting,   \* packets accepted and not yet gone
    forwarded, \* packets handed to the egress side
    lost       \* packets refused or pushed out

aqVars == <<waiting, forwarded, lost>>

Untouched(p) == p \in Packets \ (waiting \cup forwarded \cup lost)

LeastImportant(p, S) == p \in S /\ \A q \in S : Rank[q] <= Rank[p]
MostImportant(p, S) == p \in S /\ \A q \in S : Rank[p] <= Rank[q]

AQInit == waiting = {} /\ forwarded = {} /\ lost = {}

Put(p) ==
    /\ Untouched(p)
    /\ Cardinality(waiting) < Capacity
    /\ waiting' = waiting \cup {p}
    /\ UNCHANGED <<forwarded, lost>>

\* The queue is full: someone is sacrificed, perhaps the newcomer itself.
PutFull(p) ==
    /\ Untouched(p)
    /\ Cardinality(waiting) >= Capacity
    /\ \E victim \in waiting \cup {p} :
         /\ LeastImportant(victim, waiting \cup {p})
         /\ waiting' = (waiting \cup {p}) \ {victim}
         /\ lost' = lost \cup {victim}
    /\ UNCHANGED forwarded

Get(p) ==
    /\ MostImportant(p, waiting)
    /\ waiting' = waiting \ {p}
    /\ forwarded' = forwarded \cup {p}
    /\ UNCHANGED lost

AQNext == \E p \in Packets : Put(p) \/ PutFull(p) \/ Get(p)

AQSpec == AQInit /\ [][AQNext]_aqVars
=============================================================================
