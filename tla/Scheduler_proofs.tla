--------------------------- MODULE Scheduler_proofs ---------------------------
(***************************************************************************)
(* Theorems about SchedulerQueue for every set of packets, every ranking   *)
(* and every capacity: type correctness, the capacity bound, the order of  *)
(* departures, the counters, and the implementation of AbstractQueue; then *)
(* about the ranking by business value, for all coefficients and           *)
(* priorities: who outranks whom, and that value alone decides what is     *)
(* forwarded and what is lost.                                             *)
(***************************************************************************)
EXTENDS ValueScheduler, FiniteSetTheorems, TLAPS

USE DEF Fates

\* Init and every step keep the types: heap is what is "queued".
LEMMA InitTypeOK == Init => TypeOK
BY ClassAssumption DEF Init, TypeOK, InState

\* Every step of the queue, the change of the counters included, keeps TypeOK.
LEMMA StepTypeOK ==
    ASSUME TypeOK, [Next]_vars
    PROVE  TypeOK'
<1> USE ClassAssumption DEF TypeOK, InState
<1>1. CASE UNCHANGED vars
  BY <1>1 DEF vars, queueVars, statVars
<1>2. ASSUME NEW p \in Packets, Stamp(p) PROVE TypeOK'
  BY <1>2 DEF Stamp, statVars
<1>3. ASSUME NEW p \in Packets, Insert(p) PROVE TypeOK'
  BY <1>3 DEF Insert, CountEnqueue
<1>4. ASSUME NEW p \in Packets, Reject(p) PROVE TypeOK'
  BY <1>4 DEF Reject, queueVars, CountLoss
<1>5. ASSUME NEW p \in Packets, Replace(p) PROVE TypeOK'
  BY <1>5 DEF Replace, IsWorst, Without, CountLoss, CountEnqueue
<1>6. ASSUME NEW p \in Packets, Dequeue(p) PROVE TypeOK'
  BY <1>6 DEF Dequeue, IsBest, Without
<1>7. CASE ResetStats
  BY <1>7 DEF ResetStats, queueVars
<1> QED
  BY <1>1, <1>2, <1>3, <1>4, <1>5, <1>6, <1>7
  DEF Next, QueueNext, Enqueue, DequeueAny

\* In every behaviour the state keeps its shape (TypeOK).
THEOREM TypeCorrect == Spec => []TypeOK
<1> QED
  BY InitTypeOK, StepTypeOK, PTL DEF Spec

-----------------------------------------------------------------------------
\* The heap is finite and never holds more than MaxSize packets.
Bounded == IsFiniteSet(heap) /\ Cardinality(heap) <= MaxSize

\* Every step keeps the size of the heap within MaxSize.
LEMMA CardinalityOfHeap ==
    ASSUME TypeOK, [Next]_vars, Bounded
    PROVE  Bounded'
<1> USE MaxSizeAssumption DEF Bounded
<1>0. Cardinality(heap) \in Nat
  BY FS_CardinalityType
<1>1. CASE heap' = heap
  BY <1>1
<1>2. ASSUME NEW p \in Packets, Insert(p) PROVE Bounded'
  <2>1. heap' = heap \cup {p} /\ Cardinality(heap) < MaxSize
    BY <1>2 DEF Insert, HasRoom
  <2> QED
    BY <1>0, <2>1, FS_AddElement
<1>3. ASSUME NEW p \in Packets, Replace(p) PROVE Bounded'
  <2>1. PICK w \in heap : heap' = (heap \ {w}) \cup {p}
    BY <1>3 DEF Replace, Without
  <2> DEFINE rest == heap \ {w}
  <2>2. IsFiniteSet(rest) /\ Cardinality(rest) = Cardinality(heap) - 1
    BY FS_RemoveElement
  <2>3. /\ IsFiniteSet(rest \cup {p})
        /\ Cardinality(rest \cup {p}) \in {Cardinality(rest), Cardinality(rest) + 1}
    <3> HIDE DEF rest
    <3> QED BY <2>2, FS_AddElement
  <2>4. Cardinality(heap') <= Cardinality(heap)
    BY <1>0, <2>1, <2>2, <2>3
  <2>5. IsFiniteSet(heap')
    BY <2>1, <2>3
  <2>6. Cardinality(heap') \in Nat /\ Cardinality(heap) <= MaxSize
    BY <2>5, FS_CardinalityType
  <2> QED
    BY <1>0, <2>4, <2>5, <2>6
<1>4. ASSUME NEW b \in Packets, Dequeue(b) PROVE Bounded'
  <2>1. heap' = heap \ {b} /\ b \in heap
    BY <1>4 DEF Dequeue, IsBest, Without
  <2> QED
    BY <1>0, <2>1, FS_RemoveElement
<1>5. \/ heap' = heap
      \/ \E p \in Packets : Insert(p) \/ Replace(p) \/ Dequeue(p)
  BY DEF Next, QueueNext, Enqueue, DequeueAny, Stamp, Reject, ResetStats,
         vars, queueVars
<1> QED
  BY <1>1, <1>2, <1>3, <1>4, <1>5

\* No overlap of calls ever takes the queue beyond max_queue_size.
THEOREM CapacityKept == Spec => []Bounded
<1>1. Init => Bounded
  BY FS_EmptySet, MaxSizeAssumption DEF Init, Bounded
<1> QED
  BY <1>1, TypeCorrect, CardinalityOfHeap, PTL DEF Spec

-----------------------------------------------------------------------------
(* OldestLeavesFirst is not inductive by itself: it needs that sequence    *)
(* numbers grow with the order of calls that do not overlap.               *)
SequenceInv ==
    /\ \A p \in Packets : fate[p] # "new" => seq[p] \in Nat /\ seq[p] < counter
    /\ \A q \in Packets : \A p \in before[q] :
         /\ fate[q] # "new"
         /\ fate[p] \notin {"new", "stamped"}
         /\ seq[p] < seq[q]

OrderInv == TypeOK /\ SequenceInv /\ OldestLeavesFirst

\* Every step keeps the sequence numbers in the order of the stamps.
LEMMA StepSequenceInv ==
    ASSUME TypeOK, SequenceInv, [Next]_vars
    PROVE  SequenceInv'
<1> USE DEF TypeOK, InState, SequenceInv
<1>1. ASSUME NEW p \in Packets, Stamp(p) PROVE SequenceInv'
  BY <1>1 DEF Stamp
<1>2. ASSUME NEW p \in Packets, Insert(p) PROVE SequenceInv'
  BY <1>2 DEF Insert
<1>3. ASSUME NEW p \in Packets, Reject(p) PROVE SequenceInv'
  BY <1>3 DEF Reject, queueVars
<1>4. ASSUME NEW p \in Packets, Replace(p) PROVE SequenceInv'
  BY <1>4 DEF Replace
<1>5. ASSUME NEW b \in Packets, Dequeue(b) PROVE SequenceInv'
  <2>1. UNCHANGED <<seq, counter, before>> /\ fate' = [fate EXCEPT ![b] = "forwarded"]
    BY <1>5 DEF Dequeue
  <2>2. fate[b] = "queued"
    BY <1>5 DEF Dequeue, IsBest
  <2>3. \A p \in Packets : /\ fate'[p] = "new" <=> fate[p] = "new"
                           /\ fate'[p] = "stamped" <=> fate[p] = "stamped"
    BY <2>1, <2>2
  <2> QED
    BY <2>1, <2>3
<1>6. CASE UNCHANGED <<queueVars, fate, before>>
  BY <1>6 DEF queueVars
<1> QED
  BY <1>1, <1>2, <1>3, <1>4, <1>5, <1>6
  DEF Next, QueueNext, Enqueue, DequeueAny, ResetStats, vars

\* Every step keeps the oldest of equals in the heap until its turn.
LEMMA StepOldestLeavesFirst ==
    ASSUME OrderInv, [Next]_vars
    PROVE  OldestLeavesFirst'
<1> USE RankAssumption
    DEF OrderInv, TypeOK, InState, SequenceInv, OldestLeavesFirst
<1>1. ASSUME NEW p \in Packets, Stamp(p) PROVE OldestLeavesFirst'
  BY <1>1 DEF Stamp
<1>2. ASSUME NEW p \in Packets, Insert(p) PROVE OldestLeavesFirst'
  BY <1>2 DEF Insert
<1>3. ASSUME NEW p \in Packets, Reject(p) PROVE OldestLeavesFirst'
  \* p is refused although someone of its rank waits: impossible.
  BY <1>3 DEF Reject, IsWorst, Beaten
<1>4. ASSUME NEW p \in Packets, Replace(p) PROVE OldestLeavesFirst'
  BY <1>4 DEF Replace, IsWorst, Beaten
<1>5. ASSUME NEW b \in Packets, Dequeue(b) PROVE OldestLeavesFirst'
  BY <1>5 DEF Dequeue, IsBest
<1>6. CASE UNCHANGED <<queueVars, fate, before>>
  BY <1>6 DEF queueVars
<1> QED
  BY <1>1, <1>2, <1>3, <1>4, <1>5, <1>6
  DEF Next, QueueNext, Enqueue, DequeueAny, ResetStats, vars

\* Among packets of equal rank the oldest leaves first (OldestLeavesFirst),
\* however the calls of any number of threads overlap.
THEOREM OldestFirst == Spec => []OldestLeavesFirst
<1>1. Init => OrderInv
  BY InitTypeOK DEF Init, OrderInv, SequenceInv, OldestLeavesFirst
<1>2. OrderInv /\ [Next]_vars => OrderInv'
  BY StepTypeOK, StepSequenceInv, StepOldestLeavesFirst DEF OrderInv
<1>3. OrderInv => OldestLeavesFirst
  BY DEF OrderInv
<1> QED
  BY <1>1, <1>2, <1>3, PTL DEF Spec

-----------------------------------------------------------------------------
(* StatsAgree needs to know that a packet has not gone further at the last  *)
(* reset_stats() than it has now, so that what it does next is counted.     *)
MarkInv ==
    \A p \in Packets :
        /\ fate[p] \in {"new", "stamped"} => mark[p] \in {"new", "stamped"}
        /\ fate[p] = "queued" => mark[p] \in {"new", "stamped", "queued"}

StatsInv == TypeOK /\ MarkInv /\ StatsAgree

\* What a counter counts is a finite set.
LEMMA SinceFinite == \A c, S : IsFiniteSet(Since(c, S))
<1>1. \A c, S : Since(c, S) \subseteq Packets
  BY DEF Since
<1> QED
  BY <1>1, PacketsAssumption, FS_Subset

\* A counter that goes up by one with its set, and one that stays with it.
LEMMA CountsOneMore ==
    ASSUME NEW c, NEW S, NEW p, p \notin Since(c, S), Since(c, S)' = Since(c, S) \cup {p}
    PROVE  Cardinality(Since(c, S)') = Cardinality(Since(c, S)) + 1
<1>1. IsFiniteSet(Since(c, S))
  BY SinceFinite
<1>2. Cardinality(Since(c, S) \cup {p}) = Cardinality(Since(c, S)) + 1
  BY <1>1, FS_AddElement
<1> QED
  BY <1>2

\* enqueue() counts an acceptance, and each loss; dequeue() a departure.
LEMMA StepStatsAgree ==
    ASSUME StatsInv, [Next]_vars
    PROVE  StatsAgree'
<1> USE DEF StatsInv
<1>0. /\ enqueueCounts \in [Classes -> Nat] /\ dequeueCounts \in [Classes -> Nat]
      /\ \A p \in Packets : Class[p] \in Classes
  BY ClassAssumption DEF TypeOK
<1>1. ASSUME NEW p \in Packets, Insert(p) \/ Replace(p)
      PROVE  \A c \in Classes : enqueueCounts'[c] = Cardinality(Since({c}, Accepted)')
  <2>1. enqueueCounts' = [enqueueCounts EXCEPT ![Class[p]] = @ + 1]
    BY <1>1 DEF Insert, Replace, CountEnqueue
  <2>2. /\ p \notin Since({Class[p]}, Accepted)
        /\ Since({Class[p]}, Accepted)' = Since({Class[p]}, Accepted) \cup {p}
        /\ \A c \in Classes \ {Class[p]} : Since({c}, Accepted)' = Since({c}, Accepted)
    <3>1. /\ fate[p] = "stamped" /\ mark' = mark /\ mark[p] \in {"new", "stamped"}
          /\ fate'[p] \in Accepted
          /\ \A x \in Packets \ {p} : fate'[x] \in Accepted <=> fate[x] \in Accepted
      BY <1>1 DEF Insert, Replace, IsWorst, TypeOK, InState, MarkInv, Accepted
    <3> QED
      BY <1>0, <3>1 DEF Since, Accepted
  <2>3. Cardinality(Since({Class[p]}, Accepted)') = Cardinality(Since({Class[p]}, Accepted)) + 1
    BY <2>2, CountsOneMore
  <2> QED
    BY <1>0, <2>1, <2>2, <2>3 DEF StatsAgree
<1>2. ASSUME NEW p \in Packets, Reject(p) \/ Replace(p)
      PROVE  droppedOverflow' = Cardinality(Since(Classes, Gone)')
  <2>1. PICK w \in Packets : /\ w \notin Since(Classes, Gone)
                             /\ Since(Classes, Gone)' = Since(Classes, Gone) \cup {w}
    <3>1. CASE Reject(p)
      <4>1. /\ fate[p] = "stamped" /\ mark' = mark /\ mark[p] \notin Gone
            /\ fate' = [fate EXCEPT ![p] = "rejected"]
        BY <3>1 DEF Reject, MarkInv, Gone
      <4>2. p \notin Since(Classes, Gone) /\ Since(Classes, Gone)' = Since(Classes, Gone) \cup {p}
        BY <1>0, <4>1 DEF Since, Gone, TypeOK
      <4> QED
        BY <4>2
    <3>2. CASE Replace(p)
      <4>1. PICK w \in heap : fate' = [fate EXCEPT ![p] = "queued", ![w] = "evicted"]
        BY <3>2 DEF Replace
      <4>2. w \in Packets /\ fate[w] = "queued" /\ fate[p] = "stamped" /\ mark' = mark
            /\ mark[w] \notin Gone
        BY <3>2, <4>1 DEF Replace, TypeOK, InState, MarkInv, Gone
      <4>3. w \notin Since(Classes, Gone) /\ Since(Classes, Gone)' = Since(Classes, Gone) \cup {w}
        BY <1>0, <4>1, <4>2 DEF Since, Gone, TypeOK
      <4> QED
        BY <4>2, <4>3
    <3> QED
      BY <1>2, <3>1, <3>2
  <2>2. Cardinality(Since(Classes, Gone)') = Cardinality(Since(Classes, Gone)) + 1
    BY <2>1, CountsOneMore
  <2>3. droppedOverflow' = droppedOverflow + 1
    BY <1>2 DEF Reject, Replace, CountLoss
  <2> QED
    BY <2>2, <2>3 DEF StatsAgree
<1>3. ASSUME NEW b \in Packets, Dequeue(b)
      PROVE  \A c \in Classes : dequeueCounts'[c] = Cardinality(Since({c}, {"forwarded"})')
  <2>1. dequeueCounts' = [dequeueCounts EXCEPT ![Class[b]] = @ + 1]
    BY <1>3 DEF Dequeue
  <2>2. /\ b \notin Since({Class[b]}, {"forwarded"})
        /\ Since({Class[b]}, {"forwarded"})' = Since({Class[b]}, {"forwarded"}) \cup {b}
        /\ \A c \in Classes \ {Class[b]} :
             Since({c}, {"forwarded"})' = Since({c}, {"forwarded"})
    <3>1. /\ fate[b] = "queued" /\ mark' = mark /\ mark[b] # "forwarded"
          /\ fate' = [fate EXCEPT ![b] = "forwarded"]
      BY <1>3 DEF Dequeue, IsBest, TypeOK, InState, MarkInv
    <3> QED
      BY <1>0, <3>1 DEF Since, TypeOK
  <2>3. Cardinality(Since({Class[b]}, {"forwarded"})')
          = Cardinality(Since({Class[b]}, {"forwarded"})) + 1
    BY <2>2, CountsOneMore
  <2> QED
    BY <1>0, <2>1, <2>2, <2>3 DEF StatsAgree
<1>4. CASE ResetStats
  <2>1. \A c, S : Since(c, S)' = {}
    BY <1>4 DEF ResetStats, Since
  <2> QED
    BY <1>4, <2>1, FS_EmptySet DEF ResetStats, StatsAgree
<1>5. ASSUME NEW p \in Packets, Stamp(p) \/ Insert(p) \/ Dequeue(p)
      PROVE  droppedOverflow' = droppedOverflow /\ Since(Classes, Gone)' = Since(Classes, Gone)
  BY <1>5 DEF Stamp, Insert, Dequeue, IsBest, TypeOK, InState, Since, Gone, statVars
<1>6. ASSUME NEW p \in Packets, Stamp(p) \/ Reject(p) \/ Dequeue(p)
      PROVE  enqueueCounts' = enqueueCounts /\ \A c : Since(c, Accepted)' = Since(c, Accepted)
  BY <1>6 DEF Stamp, Reject, Dequeue, IsBest, TypeOK, InState, Since, Accepted, statVars
<1>7. ASSUME NEW p \in Packets, Stamp(p) \/ Enqueue(p)
      PROVE  dequeueCounts' = dequeueCounts
             /\ \A c : Since(c, {"forwarded"})' = Since(c, {"forwarded"})
  BY <1>7 DEF Stamp, Enqueue, Insert, Reject, Replace, IsWorst, TypeOK, InState, Since, statVars
<1>8. CASE UNCHANGED vars
  BY <1>8 DEF vars, statVars, StatsAgree, Since
<1> HIDE DEF Accepted, Gone, StatsInv
<1>9. ASSUME NEW p \in Packets, Stamp(p) \/ Enqueue(p) \/ Dequeue(p) PROVE StatsAgree'
  <2>0. StatsAgree
    BY DEF StatsInv
  <2>1. \A c \in Classes : enqueueCounts'[c] = Cardinality(Since({c}, Accepted)')
    BY <1>1, <1>6, <1>9, <2>0 DEF StatsAgree, Enqueue
  <2>2. \A c \in Classes : dequeueCounts'[c] = Cardinality(Since({c}, {"forwarded"})')
    BY <1>3, <1>7, <1>9, <2>0 DEF StatsAgree
  <2>3. droppedOverflow' = Cardinality(Since(Classes, Gone)')
    BY <1>2, <1>5, <1>9, <2>0 DEF StatsAgree, Enqueue
  <2> QED
    BY <2>1, <2>2, <2>3 DEF StatsAgree
<1> QED
  BY <1>4, <1>8, <1>9 DEF Next, QueueNext, DequeueAny

\* No packet goes back behind its mark.
LEMMA StepMarkInv ==
    ASSUME TypeOK, MarkInv, [Next]_vars
    PROVE  MarkInv'
<1> USE DEF TypeOK, InState, MarkInv
<1>1. ASSUME NEW p \in Packets, Stamp(p) \/ Insert(p) \/ Reject(p) PROVE MarkInv'
  BY <1>1 DEF Stamp, Insert, Reject
<1>2. ASSUME NEW p \in Packets, Replace(p) PROVE MarkInv'
  BY <1>2 DEF Replace, IsWorst
<1>3. ASSUME NEW p \in Packets, Dequeue(p) PROVE MarkInv'
  BY <1>3 DEF Dequeue, IsBest
<1>4. CASE ResetStats
  BY <1>4 DEF ResetStats
<1>5. CASE UNCHANGED vars
  BY <1>5 DEF vars
<1> QED
  BY <1>1, <1>2, <1>3, <1>4, <1>5 DEF Next, QueueNext, Enqueue, DequeueAny

\* The statistics agree with what happened to the packets since the last
\* reset_stats() (StatsAgree), whatever threads enqueue, dequeue and reset.
THEOREM StatsKept == Spec => []StatsAgree
<1>1. Init => StatsInv
  <2> SUFFICES ASSUME Init PROVE StatsInv
    OBVIOUS
  <2>1. \A c, S : Since(c, S) = {}
    BY DEF Init, Since
  <2> QED
    BY <2>1, InitTypeOK, FS_EmptySet DEF Init, StatsInv, MarkInv, StatsAgree
<1>2. StatsInv /\ [Next]_vars => StatsInv'
  BY StepTypeOK, StepMarkInv, StepStatsAgree DEF StatsInv
<1>3. StatsInv => StatsAgree
  BY DEF StatsInv
<1> QED
  BY <1>1, <1>2, <1>3, PTL DEF Spec

-----------------------------------------------------------------------------
(* Every step of the code is a step of AbstractQueue or leaves its         *)
(* variables alone.                                                        *)
\* The instance has a copy of Cardinality of its own.
LEMMA SameCardinality == Abstract!Cardinality(heap) = Cardinality(heap)
BY DEF Cardinality, Abstract!Cardinality

\* The heap orders by rank first.
LEMMA WorstRank ==
    ASSUME heap \subseteq Packets, NEW w, IsWorst(w)
    PROVE  \A x \in heap : Rank[x] <= Rank[w]
<1>1. \A x \in heap : Rank[x] < Rank[w] \/ Rank[x] = Rank[w]
  BY DEF IsWorst
<1>2. \A x \in heap : Rank[x] \in Int
  BY RankAssumption
<1> QED
  BY <1>1, <1>2 DEF IsWorst

\* ... from the other end too.
LEMMA BestRank ==
    ASSUME heap \subseteq Packets, NEW b, IsBest(b)
    PROVE  \A x \in heap : Rank[b] <= Rank[x]
<1>1. \A x \in heap : Rank[b] < Rank[x] \/ Rank[b] = Rank[x]
  BY DEF IsBest
<1>2. \A x \in heap : Rank[x] \in Int
  BY RankAssumption
<1> QED
  BY <1>1, <1>2 DEF IsBest

\* With room, enqueue() is Put.
LEMMA InsertIsPut ==
    ASSUME TypeOK, NEW p \in Packets, Insert(p)
    PROVE  Abstract!Put(p)
BY SameCardinality
DEF TypeOK, InState, Insert, HasRoom, Lost, Abstract!Put, Abstract!Untouched

\* A refusal is PutFull, losing the newcomer.
LEMMA RejectIsPutFull ==
    ASSUME TypeOK, Bounded, NEW p \in Packets, Reject(p)
    PROVE  Abstract!PutFull(p)
<1> USE DEF TypeOK, InState
<1>1. PICK w \in heap : IsWorst(w) /\ Beaten(p, w)
  BY DEF Reject
<1>2. Abstract!LeastImportant(p, heap \cup {p})
  BY <1>1, RankAssumption DEF IsWorst, Beaten, Abstract!LeastImportant
<1>3. heap' = (heap \cup {p}) \ {p} /\ Lost' = Lost \cup {p}
  BY DEF Reject, queueVars, Lost
<1>4. Cardinality(heap) >= MaxSize
  BY FS_CardinalityType, MaxSizeAssumption DEF Reject, HasRoom, Bounded
<1>5. Abstract!Untouched(p) /\ UNCHANGED InState("forwarded")
  BY DEF Reject, Abstract!Untouched, Lost
<1> QED
  BY SameCardinality, <1>2, <1>3, <1>4, <1>5 DEF Abstract!PutFull

\* An eviction is PutFull, losing the worst entry.
LEMMA ReplaceIsPutFull ==
    ASSUME TypeOK, Bounded, NEW p \in Packets, Replace(p)
    PROVE  Abstract!PutFull(p)
<1> USE DEF TypeOK, InState
<1>1. PICK w \in heap :
        /\ IsWorst(w) /\ ~Beaten(p, w)
        /\ heap' = (heap \ {w}) \cup {p}
        /\ fate' = [fate EXCEPT ![p] = "queued", ![w] = "evicted"]
  BY DEF Replace, Without
<1>2. Abstract!LeastImportant(w, heap \cup {p})
  <2>1. \A x \in heap : Rank[x] <= Rank[w]
    BY <1>1, WorstRank
  <2>2. Rank[p] \in Int /\ Rank[w] \in Int
    BY RankAssumption
  <2>3. Rank[p] <= Rank[w]
    BY <1>1, <2>2 DEF Beaten
  <2> QED
    BY <2>1, <2>3 DEF Abstract!LeastImportant
<1>3. fate[p] = "stamped" /\ fate[w] = "queued"
  BY <1>1 DEF Replace
<1>4. heap' = (heap \cup {p}) \ {w} /\ Lost' = Lost \cup {w}
  BY <1>1, <1>3 DEF Lost
<1>5. Cardinality(heap) >= MaxSize
  BY FS_CardinalityType, MaxSizeAssumption DEF Replace, HasRoom, Bounded
<1>6. Abstract!Untouched(p) /\ UNCHANGED InState("forwarded")
  BY <1>1, <1>3 DEF Abstract!Untouched, Lost
<1> QED
  BY SameCardinality, <1>1, <1>2, <1>4, <1>5, <1>6 DEF Abstract!PutFull

\* dequeue() is Get.
LEMMA DequeueIsGet ==
    ASSUME TypeOK, NEW b \in Packets, Dequeue(b)
    PROVE  Abstract!Get(b)
<1> USE DEF TypeOK, InState
<1>1. Abstract!MostImportant(b, heap)
  BY BestRank DEF Dequeue, IsBest, Abstract!MostImportant
<1>2. /\ heap' = heap \ {b}
      /\ InState("forwarded")' = InState("forwarded") \cup {b}
      /\ UNCHANGED Lost
  BY DEF Dequeue, IsBest, Without, Lost
<1> QED
  BY <1>1, <1>2 DEF Abstract!Get

\* Stamp and ResetStats leave the abstract queue alone, the rest are its steps.
LEMMA StepIsAbstract ==
    ASSUME TypeOK, Bounded, [Next]_vars
    PROVE  [Abstract!AQNext]_(Abstract!aqVars)
<1> USE DEF InState, Lost, Abstract!aqVars
<1>1. ASSUME NEW p \in Packets, Stamp(p) PROVE UNCHANGED Abstract!aqVars
  BY <1>1 DEF TypeOK, Stamp
<1>2. ASSUME NEW p \in Packets, Enqueue(p) \/ Dequeue(p) PROVE Abstract!AQNext
  BY <1>2, InsertIsPut, RejectIsPutFull, ReplaceIsPutFull, DequeueIsGet
  DEF Enqueue, Abstract!AQNext
<1>3. CASE UNCHANGED <<queueVars, fate>>
  BY <1>3 DEF queueVars
<1> QED
  BY <1>1, <1>2, <1>3 DEF Next, QueueNext, DequeueAny, ResetStats, vars

\* The scheduler implements the abstract queue (ImplementsQueue): for every
\* overlap of calls, capacity is kept, dequeue takes a packet of the best rank
\* and overflow costs a packet of the worst.
THEOREM Implements == Spec => ImplementsQueue
<1>1. Init => Abstract!AQInit
  BY DEF Init, InState, Lost, Abstract!AQInit
<1> QED
  BY <1>1, TypeCorrect, CapacityKept, StepIsAbstract, PTL
  DEF Spec, ImplementsQueue, Abstract!AQSpec

-----------------------------------------------------------------------------
(* The ranking by value (ValueScheduler), from here on.                     *)

\* Effective values are natural numbers, and the rank is their negation.
LEMMA RankOfValue ==
    ASSUME Rank = ValueRank, NEW p \in Packets
    PROVE  /\ EffectiveValue(Coefficient[p], Priority[p]) \in Nat
           /\ Rank[p] = -EffectiveValue(Coefficient[p], Priority[p])
<1>1. Coefficient[p] \in Int /\ PriorityOf(Priority[p]) \in 1..5
  BY ValueAssumption, PriorityAssumption
  DEF PriorityOf, NoPriority, TrafficPriority, CRITICAL, MEDIUM, BACKGROUND
<1>2. Multiplier(PriorityOf(Priority[p])) \in {1, 2, 3, 4, 5}
  BY <1>1 DEF Multiplier
<1> DEFINE clamped == IF Coefficient[p] < 0 THEN 0 ELSE Coefficient[p]
<1>3. clamped \in Nat
  BY <1>1
<1>4. \A c \in Nat, m \in {1, 2, 3, 4, 5} : c * m \in Nat
  OBVIOUS
<1>5. EffectiveValue(Coefficient[p], Priority[p]) \in Nat
  <2> HIDE DEF clamped
  <2>1. clamped * Multiplier(PriorityOf(Priority[p])) \in Nat
    BY <1>2, <1>3, <1>4
  <2> QED
    BY <2>1 DEF EffectiveValue, clamped
<1> QED
  BY <1>5 DEF ValueRank

\* A packet with a positive coefficient is worth more than one of the same
\* coefficient and a lesser class, and than one without a positive coefficient.
LEMMA OutranksIsWorthMore ==
    ASSUME Rank = ValueRank, NEW p \in Packets, NEW q \in Packets, Outranks(p, q)
    PROVE  Rank[p] < Rank[q]
<1>1. /\ Coefficient[p] \in Int /\ Coefficient[q] \in Int /\ Coefficient[p] > 0
      /\ PriorityOf(Priority[p]) \in 1..5 /\ PriorityOf(Priority[q]) \in 1..5
  BY ValueAssumption, PriorityAssumption
  DEF Outranks, PriorityOf, NoPriority, TrafficPriority, CRITICAL, MEDIUM, BACKGROUND
<1>2. EffectiveValue(Coefficient[p], Priority[p]) = Coefficient[p] * (6 - PriorityOf(Priority[p]))
  BY <1>1 DEF EffectiveValue, Multiplier
<1>3. CASE Coefficient[q] <= 0
  <2>1. EffectiveValue(Coefficient[q], Priority[q]) = 0
    <3>1. \A m \in {1, 2, 3, 4, 5} : 0 * m = 0
      OBVIOUS
    <3>2. 6 - PriorityOf(Priority[q]) \in {1, 2, 3, 4, 5}
      BY <1>1
    <3>3. (IF Coefficient[q] < 0 THEN 0 ELSE Coefficient[q]) = 0
      BY <1>1, <1>3
    <3> QED
      BY <3>1, <3>2, <3>3 DEF EffectiveValue, Multiplier
  <2>2. \A c \in Nat \ {0}, m \in {1, 2, 3, 4, 5} : c * m > 0
    OBVIOUS
  <2>3. EffectiveValue(Coefficient[p], Priority[p]) > 0
    BY <1>1, <1>2, <2>2
  <2> QED
    BY <2>1, <2>3, RankOfValue
<1>4. CASE Coefficient[q] = Coefficient[p] /\ PriorityOf(Priority[p]) < PriorityOf(Priority[q])
  <2>1. EffectiveValue(Coefficient[q], Priority[q])
          = Coefficient[p] * (6 - PriorityOf(Priority[q]))
    BY <1>1, <1>4 DEF EffectiveValue, Multiplier
  <2>2. \A c \in Nat \ {0}, i, j \in {1, 2, 3, 4, 5} : i < j => c * i < c * j
    OBVIOUS
  <2>3. EffectiveValue(Coefficient[q], Priority[q]) < EffectiveValue(Coefficient[p], Priority[p])
    BY <1>1, <1>2, <1>4, <2>1, <2>2
  <2> QED
    BY <2>3, RankOfValue
<1> QED
  BY <1>3, <1>4 DEF Outranks

\* At a common positive coefficient the order of departure and of loss is that of
\* PriorityScheduler, and worthless packets come after all others
\* (ValueOrderSound), whatever the queue holds.
THEOREM ValueOrder ==
    ASSUME Rank = ValueRank
    PROVE  ValueSpec => []ValueOrderSound
<1>1. TypeOK => ValueOrderSound
  <2> SUFFICES ASSUME TypeOK, NEW p \in heap, NEW q \in heap, Outranks(p, q)
               PROVE  ~IsBest(q) /\ ~IsWorst(p)
    BY DEF ValueOrderSound
  <2>1. p \in Packets /\ q \in Packets
    BY DEF TypeOK
  <2>2. Rank[p] < Rank[q] /\ Rank[p] \in Int /\ Rank[q] \in Int
    BY <2>1, OutranksIsWorthMore, RankAssumption
  <2> QED
    BY <2>2 DEF IsBest, IsWorst
<1>2. ValueSpec => Spec
  <2>1. [ValueNext]_vars => [Next]_vars
    BY DEF ValueNext, ValueEnqueue, ValueDequeue, ValueResetStats, Next, QueueNext
  <2> QED
    BY <2>1, PTL DEF ValueSpec, Spec
<1> QED
  BY <1>1, <1>2, TypeCorrect, PTL

\* "Evicts the packet with the lowest effective value - always" (ValueGoverns):
\* for all coefficients, priorities and overlaps of calls, nothing that stays is
\* worth less than what is lost, or more than what is forwarded.
THEOREM ValueDecides ==
    ASSUME Rank = ValueRank
    PROVE  ValueSpec => ValueGoverns
<1> DEFINE Worth(p) == EffectiveValue(Coefficient[p], Priority[p])
           Order == \A p \in Packets, q \in heap \cap heap' :
                      /\ p \in Lost' \ Lost => Worth(p) <= Worth(q)
                      /\ p \in InState("forwarded")' \ InState("forwarded") =>
                           Worth(p) >= Worth(q)
<1>1. ASSUME TypeOK, [Next]_vars PROVE Order
  <2> SUFFICES ASSUME NEW p \in Packets, NEW q \in heap \cap heap'
               PROVE  /\ p \in Lost' \ Lost => Rank[q] <= Rank[p]
                      /\ p \in InState("forwarded")' \ InState("forwarded") =>
                           Rank[p] <= Rank[q]
    <3>1. heap \subseteq Packets
      BY <1>1 DEF TypeOK
    <3>2. \A x \in Packets, y \in heap : /\ Rank[y] <= Rank[x] => Worth(x) <= Worth(y)
                                         /\ Rank[x] <= Rank[y] => Worth(x) >= Worth(y)
      BY <3>1, RankOfValue
    <3> HIDE DEF Worth
    <3> QED
      BY <3>2
  <2> USE <1>1 DEF TypeOK, InState, Lost
  <2>1. ASSUME NEW x \in Packets, Stamp(x) \/ Insert(x)
        PROVE  Lost' = Lost /\ InState("forwarded")' = InState("forwarded")
    BY <2>1 DEF Stamp, Insert
  <2>2. ASSUME NEW x \in Packets, Reject(x)
        PROVE  /\ p \in Lost' \ Lost => Rank[q] <= Rank[p]
               /\ InState("forwarded")' = InState("forwarded")
    <3>1. PICK w \in heap : IsWorst(w) /\ Beaten(x, w)
      BY <2>2 DEF Reject
    <3>2. Rank[q] <= Rank[w] /\ Rank[q] \in Int /\ Rank[w] \in Int /\ Rank[x] \in Int
      BY <3>1, WorstRank, RankAssumption
    <3>3. fate' = [fate EXCEPT ![x] = "rejected"]
      BY <2>2 DEF Reject
    <3> QED
      BY <2>2, <3>1, <3>2, <3>3 DEF Beaten, Reject
  <2>3. ASSUME NEW x \in Packets, Replace(x)
        PROVE  /\ p \in Lost' \ Lost => Rank[q] <= Rank[p]
               /\ InState("forwarded")' = InState("forwarded")
    <3>1. PICK w \in heap : IsWorst(w)
             /\ fate' = [fate EXCEPT ![x] = "queued", ![w] = "evicted"]
      BY <2>3 DEF Replace
    <3>2. Rank[q] <= Rank[w]
      BY <3>1, WorstRank
    <3> QED
      BY <2>3, <3>1, <3>2 DEF Replace
  <2>4. ASSUME NEW x \in Packets, Dequeue(x)
        PROVE  /\ p \in InState("forwarded")' \ InState("forwarded") => Rank[p] <= Rank[q]
               /\ Lost' = Lost
    <3>1. Rank[x] <= Rank[q] /\ fate' = [fate EXCEPT ![x] = "forwarded"] /\ fate[x] = "queued"
      BY <2>4, BestRank DEF Dequeue, IsBest
    <3> QED
      BY <3>1
  <2>5. ASSUME UNCHANGED fate
        PROVE  Lost' = Lost /\ InState("forwarded")' = InState("forwarded")
    BY <2>5
  <2> HIDE DEF TypeOK, InState, Lost
  <2> QED
    BY <1>1, <2>1, <2>2, <2>3, <2>4, <2>5
    DEF Next, QueueNext, Enqueue, DequeueAny, ResetStats, vars
<1>2. [ValueNext]_vars => [Next]_vars
  BY DEF ValueNext, ValueEnqueue, ValueDequeue, ValueResetStats, Next, QueueNext
<1>3. ValueSpec => Spec
  BY <1>2, PTL DEF ValueSpec, Spec
<1>4. TypeOK /\ [Next]_vars => [Order]_vars
  BY <1>1
<1> QED
  BY <1>3, <1>4, TypeCorrect, PTL DEF Spec, ValueGoverns, Order, Worth
=============================================================================
