---------------------------- MODULE SchedulerQueue ---------------------------
(***************************************************************************)
(* The bounded heap shared, line for line, by PriorityScheduler            *)
(* (scheduler.py) and ValueScheduler (value.py 491-651).                   *)
(*                                                                         *)
(* enqueue() has two steps that other threads may interleave with: the     *)
(* entry takes its sequence number BEFORE the lock (Stamp), and the locked *)
(* section inserts, replaces or refuses it.  Every packet is offered once, *)
(* by a thread of its own, so the calls overlap in every possible way.     *)
(* The heap is the set of queued packets: heapq orders it by the key       *)
(* (rank, sequence), which IsBest states.  drain() is a loop of dequeue()  *)
(* calls, each a Dequeue step.  time.monotonic() stamps and the read-only  *)
(* operations (peek, len, is_full, stats) are left out.                    *)
(***************************************************************************)
EXTENDS Integers, FiniteSets

CONSTANTS
    Packets,  \* packets that will be offered
    Classes,  \* TrafficPriority members, the keys of the counters
    Class,    \* Class[p]: the priority p is counted under
    Rank,     \* Rank[p]: first component of the heap key of p, lower is better
    MaxSize   \* self._max_size

ASSUME PacketsAssumption == IsFiniteSet(Packets)
ASSUME RankAssumption == Rank \in [Packets -> Int]
ASSUME ClassAssumption == Class \in [Packets -> Classes]
ASSUME MaxSizeAssumption == MaxSize \in Nat /\ MaxSize >= 1

VARIABLES
    heap,            \* self._heap
    seq,             \* seq[p]: sequence of the entry made for p
    counter,         \* next value of self._counter
    enqueueCounts,   \* self._enqueue_counts
    dequeueCounts,   \* self._dequeue_counts
    droppedOverflow, \* self._dropped_overflow
    fate,            \* history: what has become of each packet
    before,          \* history: before[p] = packets whose enqueue() had
                     \*          returned when enqueue(p) began
    mark             \* history: fate at the last reset_stats()

queueVars == <<heap, seq, counter>>
statVars == <<enqueueCounts, dequeueCounts, droppedOverflow>>
vars == <<queueVars, statVars, fate, before, mark>>

Fates == {"new", "stamped", "queued", "forwarded", "evicted", "rejected"}

InState(f) == {p \in Packets : fate[p] = f}
Lost == InState("evicted") \cup InState("rejected")

-----------------------------------------------------------------------------
(* Variants of the definitions below with a plausible bug; the properties  *)
(* are checked to notice each of them.                                     *)

HasRoom_OffByOne == Cardinality(heap) <= MaxSize
IsBest_NoSequence(b) == b \in heap /\ \A x \in heap : Rank[b] <= Rank[x]
IsBest_LastKept(b) ==
    /\ Cardinality(heap) > 1
    /\ b \in heap
    /\ \A x \in heap : \/ Rank[b] < Rank[x]
                       \/ Rank[b] = Rank[x] /\ seq[b] <= seq[x]
CountLoss_OnlyRejects(p) ==
    droppedOverflow' = IF p \in heap THEN droppedOverflow
                                     ELSE droppedOverflow + 1

-----------------------------------------------------------------------------
Init ==
    /\ heap = {}
    /\ seq = [p \in Packets |-> -1]
    /\ counter = 0
    /\ enqueueCounts = [c \in Classes |-> 0]
    /\ dequeueCounts = [c \in Classes |-> 0]
    /\ droppedOverflow = 0
    /\ fate = [p \in Packets |-> "new"]
    /\ before = [p \in Packets |-> {}]
    /\ mark = fate

HasRoom == Cardinality(heap) < MaxSize

\* _find_worst_index: the highest rank, among equals the oldest entry.
IsWorst(w) ==
    /\ w \in heap
    /\ \A x \in heap : \/ Rank[x] < Rank[w]
                       \/ Rank[x] = Rank[w] /\ seq[w] <= seq[x]

\* The root of the heap.
IsBest(b) ==
    /\ b \in heap
    /\ \A x \in heap : \/ Rank[b] < Rank[x]
                       \/ Rank[b] = Rank[x] /\ seq[b] <= seq[x]

Without(e) == heap \ {e}

\* The newcomer p is strictly less important than the worst entry w.
Beaten(p, w) == Rank[w] < Rank[p]

\* An overflow costs a packet, a newcomer or a queued one; either is counted.
CountLoss(p) == droppedOverflow' = droppedOverflow + 1

\* The part of enqueue() outside the lock.
Stamp(p) ==
    /\ fate[p] = "new"
    /\ seq' = [seq EXCEPT ![p] = counter]
    /\ counter' = counter + 1
    /\ fate' = [fate EXCEPT ![p] = "stamped"]
    /\ before' = [before EXCEPT ![p] =
                    Packets \ (InState("new") \cup InState("stamped"))]
    /\ UNCHANGED <<heap, statVars, mark>>

CountEnqueue(p) ==
    enqueueCounts' = [enqueueCounts EXCEPT ![Class[p]] = @ + 1]

\* The locked section of enqueue(), one action per outcome.
Insert(p) ==
    /\ fate[p] = "stamped"
    /\ HasRoom
    /\ heap' = heap \cup {p}
    /\ CountEnqueue(p)
    /\ fate' = [fate EXCEPT ![p] = "queued"]
    /\ UNCHANGED <<seq, counter, dequeueCounts, droppedOverflow, before, mark>>

Reject(p) ==
    /\ fate[p] = "stamped"
    /\ ~HasRoom
    /\ \E w \in heap : IsWorst(w) /\ Beaten(p, w)
    /\ CountLoss(p)
    /\ fate' = [fate EXCEPT ![p] = "rejected"]
    /\ UNCHANGED <<queueVars, enqueueCounts, dequeueCounts, before, mark>>

Replace(p) ==
    /\ fate[p] = "stamped"
    /\ ~HasRoom
    /\ \E w \in heap :
         /\ IsWorst(w)
         /\ ~Beaten(p, w)
         /\ heap' = Without(w) \cup {p}
         /\ CountLoss(w)
         /\ fate' = [fate EXCEPT ![p] = "queued", ![w] = "evicted"]
    /\ CountEnqueue(p)
    /\ UNCHANGED <<seq, counter, dequeueCounts, before, mark>>

Dequeue(b) ==
    /\ IsBest(b)
    /\ heap' = Without(b)
    /\ dequeueCounts' = [dequeueCounts EXCEPT ![Class[b]] = @ + 1]
    /\ fate' = [fate EXCEPT ![b] = "forwarded"]
    /\ UNCHANGED <<seq, counter, enqueueCounts, droppedOverflow, before, mark>>

ResetStats ==
    /\ enqueueCounts' = [c \in Classes |-> 0]
    /\ dequeueCounts' = [c \in Classes |-> 0]
    /\ droppedOverflow' = 0
    /\ mark' = fate
    /\ UNCHANGED <<queueVars, fate, before>>

Enqueue(p) == Insert(p) \/ Reject(p) \/ Replace(p)
DequeueAny == \E b \in Packets : Dequeue(b)

QueueNext ==
    \/ \E p \in Packets : Stamp(p) \/ Enqueue(p)
    \/ DequeueAny

Next == QueueNext \/ ResetStats

Spec == Init /\ [][Next]_vars

(* One of the calls that wait for the lock gets it, and the egress side    *)
(* keeps calling dequeue() (the loops of api/server.py 111-117 and         *)
(* main.py); nobody is obliged to offer a packet or to reset the           *)
(* statistics.                                                             *)
Fairness == WF_vars(\E p \in Packets : Enqueue(p)) /\ WF_vars(DequeueAny)

FairSpec == Spec /\ Fairness

-----------------------------------------------------------------------------
\* The state has the shape the code gives it, and the heap is what was
\* accepted and has not left.
TypeOK ==
    /\ heap \subseteq Packets
    /\ seq \in [Packets -> Int]
    /\ counter \in Nat
    /\ enqueueCounts \in [Classes -> Nat]
    /\ dequeueCounts \in [Classes -> Nat]
    /\ droppedOverflow \in Nat
    /\ fate \in [Packets -> Fates]
    /\ before \in [Packets -> SUBSET Packets]
    /\ mark \in [Packets -> Fates]
    /\ heap = InState("queued")

\* Among packets of equal rank the oldest leaves first, whether it leaves by
\* dequeue (FIFO, scheduler.py 4-6) or by eviction (line 175): while p waits, a
\* packet of its rank that was offered after enqueue(p) returned has neither
\* been forwarded nor been evicted nor been refused.
OldestLeavesFirst ==
    \A q \in Packets : \A p \in before[q] :
        Rank[p] = Rank[q] /\ fate[p] = "queued"
            => fate[q] \in {"stamped", "queued"}

\* The statistics since the last reset_stats() agree with what happened to the
\* packets: acceptances and departures per priority class, and every loss to
\* overflow, of a newcomer or of a queued packet, exactly once.
Accepted == {"queued", "forwarded", "evicted"}
Gone == {"evicted", "rejected"}
Since(c, S) == {p \in Packets : Class[p] \in c /\ fate[p] \in S /\ mark[p] \notin S}
StatsAgree ==
    /\ \A c \in Classes :
         /\ enqueueCounts[c] = Cardinality(Since({c}, Accepted))
         /\ dequeueCounts[c] = Cardinality(Since({c}, {"forwarded"}))
    /\ droppedOverflow = Cardinality(Since(Classes, Gone))

\* The locking and the heap implement the abstract queue: capacity is never
\* exceeded, dequeue returns a packet of the best rank, and overflow costs a
\* packet of the worst rank, for every overlap of the calls.
Abstract == INSTANCE AbstractQueue WITH
    waiting <- heap, forwarded <- InState("forwarded"), lost <- Lost,
    Capacity <- MaxSize
ImplementsQueue == Abstract!AQSpec

\* No packet is left behind: whenever a call of enqueue() is in progress, there
\* comes a time when all that was offered has left, by one way or another.
EverySettles ==
    InState("stamped") # {} ~> InState("stamped") \cup InState("queued") = {}
=============================================================================
