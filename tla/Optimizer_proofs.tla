--------------------------- MODULE Optimizer_proofs ---------------------------
(***************************************************************************)
(* Theorems about the pipeline and its value tracker, for every set of     *)
(* packets and values, every threshold of RED and any number of threads:   *)
(* types, the bound on RED's overshoot, counters that lose updates but     *)
(* never invent them, and value totals that are exact whenever no call is  *)
(* inside. Then, for every time window, number of classes and number of    *)
(* nodes, what is reported of the value: sliding windows that forget every *)
(* old event, rates that are those of the window, and a fleet summary that *)
(* lies between its nodes.                                                 *)
(***************************************************************************)
EXTENDS Optimizer, ValueReport, FiniteSetTheorems, SequenceTheorems, WellFoundedInduction, TLAPS

USE DEF Stages

\* process() begins with empty hands.
LEMMA InitTypeOK == Init => TypeOK
<1> SUFFICES ASSUME Init PROVE TypeOK
  OBVIOUS
<1>1. /\ stage \in [Packets -> Stages] /\ loaded \in [Packets -> Nat]
      /\ Admitted = {}
  BY DEF Init, AQInit, Admitted
<1>2. overlapped \in BOOLEAN
  BY Zenon DEF Init
<1> QED
  BY <1>1, <1>2 DEF Init, TypeOK

\* No step of process(), dequeue() or reset_stats() breaks the types, and the
\* queue holds only what enqueue() was given.
LEMMA StepTypeOK ==
    ASSUME TypeOK, [Next]_vars
    PROVE  TypeOK'
<1> USE CoefficientAssumption DEF TypeOK, Admitted, At, Move, resetVars, counters, tracker, aqVars
<1>1. CASE UNCHANGED vars
  BY <1>1 DEF vars
<1>2. ASSUME NEW p \in Packets, Receive(p) PROVE TypeOK'
  BY <1>2 DEF Receive
<1>3. ASSUME NEW p \in Packets, CountIn(p) PROVE TypeOK'
  BY <1>3 DEF CountIn, Bump
<1>4. ASSUME NEW p \in Packets, Keep(p) \/ RateLimit(p) \/ RedDrop(p) PROVE TypeOK'
  BY <1>4 DEF Keep, RateLimit, RedDrop, AfterDrop
<1>5. ASSUME NEW p \in Packets, LoadDropped(p) PROVE TypeOK'
  BY <1>5 DEF LoadDropped
<1>6. ASSUME NEW p \in Packets, StoreDropped(p) PROVE TypeOK'
  BY <1>6 DEF StoreDropped, Bump
<1>7. ASSUME NEW p \in Packets, RecordDropped(p) PROVE TypeOK'
  BY <1>7 DEF RecordDropped
<1>8. ASSUME NEW p \in Packets, Enqueue(p) PROVE TypeOK'
  BY <1>8 DEF Enqueue, Put, PutFull
<1>9. ASSUME NEW p \in Packets, RecordDelivered(p) PROVE TypeOK'
  BY <1>9 DEF RecordDelivered, Delivers
<1>10. ASSUME NEW p \in Packets, Dequeue(p) PROVE TypeOK'
  BY <1>10 DEF Dequeue, Get, MostImportant
<1>11. CASE ResetReceived \/ ResetDropped \/ ResetTracker
  BY <1>11 DEF ResetReceived, ResetDropped, ResetTracker
<1> QED
  BY <1>1, <1>2, <1>3, <1>4, <1>5, <1>6, <1>7, <1>8, <1>9, <1>10, <1>11
  DEF Next, Process

\* In every behaviour the pipeline keeps its shape (TypeOK).
THEOREM TypeCorrect == Spec => []TypeOK
BY InitTypeOK, StepTypeOK, PTL DEF Spec

-----------------------------------------------------------------------------
(* The bound on RED's overshoot rests on the number of threads inside       *)
(* process(), each of which brings at most one packet that RED has spared.  *)
ThreadsBounded == Cardinality(InProcess) <= Workers
Threshold == RedThreshold * MaxQueueSize

\* RED's threshold is the higher of its two percentages, or 0 when neither is
\* positive.
LEMMA ThresholdIsHighest ==
    /\ RedThreshold \in Nat
    /\ RedMinPct <= RedThreshold /\ RedMaxPct <= RedThreshold
<1> DEFINE P == {0, RedMinPct, RedMaxPct}
<1>1. \E x \in P : \A y \in P : x >= y
  BY RedAssumption
<1>2. RedThreshold \in P /\ \A y \in P : RedThreshold >= y
  BY <1>1 DEF RedThreshold, Max
<1> QED
  BY <1>2, RedAssumption

\* A queue below one of the percentages is below the threshold.
LEMMA BelowThreshold ==
    ASSUME MaxQueueSize > 0, NEW pct \in {RedMinPct, RedMaxPct},
           NEW n \in Nat, n * 100 < pct * MaxQueueSize
    PROVE  /\ Threshold \in Nat
           /\ n * 100 < Threshold
<1> DEFINE gap == RedThreshold - pct
<1>1. gap \in Nat /\ pct \in Int /\ MaxQueueSize \in Nat /\ RedThreshold \in Nat
  BY ThresholdIsHighest, RedAssumption, QueueAssumption
<1>2. Threshold \in Nat
  BY <1>1 DEF Threshold
<1>3. Threshold = pct * MaxQueueSize + gap * MaxQueueSize
  BY <1>1 DEF Threshold
<1>4. gap * MaxQueueSize \in Nat /\ pct * MaxQueueSize \in Int
  BY <1>1
<1> QED
  BY <1>2, <1>3, <1>4

\* Only Receive() lets a thread in, and only when there is one.
LEMMA StepThreadsBounded ==
    ASSUME TypeOK, ThreadsBounded, [Next]_vars
    PROVE  ThreadsBounded'
<1> USE DEF TypeOK, At, Move, InProcess, ThreadsBounded
<1>1. IsFiniteSet(InProcess) /\ Cardinality(InProcess) \in Nat /\ Workers \in Nat
  BY PacketsAssumption, WorkersAssumption, FS_Subset, FS_CardinalityType
<1>2. ASSUME NEW p \in Packets, Receive(p) PROVE ThreadsBounded'
  <2>1. InProcess' = InProcess \cup {p} /\ p \notin InProcess
    BY <1>2 DEF Receive
  <2>2. Cardinality(InProcess') = Cardinality(InProcess) + 1
    BY <1>1, <2>1, FS_AddElement
  <2> QED
    BY <1>1, <1>2, <2>2 DEF Receive
<1>3. ASSUME InProcess' \subseteq InProcess PROVE ThreadsBounded'
  <2>1. Cardinality(InProcess') <= Cardinality(InProcess) /\ Cardinality(InProcess') \in Nat
    BY <1>1, <1>3, FS_Subset, FS_CardinalityType
  <2> QED
    BY <1>1, <2>1
<1>4. ASSUME NEW p \in Packets, Process(p), ~Receive(p) PROVE InProcess' \subseteq InProcess
  BY <1>4 DEF Process, CountIn, Keep, RateLimit, RedDrop, AfterDrop, LoadDropped,
     StoreDropped, RecordDropped, Enqueue, RecordDelivered
<1>5. CASE UNCHANGED stage
  BY <1>3, <1>5
<1> QED
  BY <1>2, <1>3, <1>4, <1>5
  DEF Next, Dequeue, ResetReceived, ResetDropped, ResetTracker, vars

\* RED lets a packet through only when the queue is below the threshold, and
\* those it let through before it are as many as there are threads.
LEMMA KeepBounded ==
    ASSUME TypeOK, ThreadsBounded', MaxQueueSize > 0,
           NEW p \in Packets, Keep(p), ~IsCritical(p)
    PROVE  (Cardinality(RedTraffic') - Workers) * 100 < Threshold
<1>1. /\ IsFiniteSet(waiting) /\ IsFiniteSet(InProcess')
      /\ RedTraffic' \subseteq waiting \cup InProcess'
  <2>1. waiting \subseteq Packets /\ InProcess' \subseteq Packets /\ waiting' = waiting
    BY DEF TypeOK, Admitted, At, InProcess, Keep, aqVars
  <2>2. At("enqueuing")' \subseteq InProcess'
    BY DEF At, InProcess
  <2> QED
    BY <2>1, <2>2, PacketsAssumption, FS_Subset DEF RedTraffic
<1>2. /\ Cardinality(waiting) \in Nat /\ Cardinality(InProcess') \in Nat
      /\ Cardinality(RedTraffic') \in Nat
      /\ Cardinality(RedTraffic') <= Cardinality(waiting) + Cardinality(InProcess')
  <2> DEFINE both == waiting \cup InProcess'
  <2>1. IsFiniteSet(both) /\ Cardinality(both) <= Cardinality(waiting) + Cardinality(InProcess')
    <3>1. /\ IsFiniteSet(both) /\ IsFiniteSet(waiting \cap InProcess')
          /\ Cardinality(both) = Cardinality(waiting) + Cardinality(InProcess')
                                   - Cardinality(waiting \cap InProcess')
      BY <1>1, FS_Union, FS_Intersection, Zenon
    <3>2. /\ Cardinality(waiting \cap InProcess') \in Nat
          /\ Cardinality(waiting) \in Nat /\ Cardinality(InProcess') \in Nat
      BY <1>1, <3>1, FS_CardinalityType
    <3> QED
      BY <3>1, <3>2
  <2>2. Cardinality(RedTraffic') <= Cardinality(both) /\ IsFiniteSet(RedTraffic')
    BY <1>1, <2>1, FS_Subset
  <2>3. Cardinality(both) \in Nat /\ Cardinality(RedTraffic') \in Nat
        /\ Cardinality(waiting) \in Nat /\ Cardinality(InProcess') \in Nat
    BY <1>1, <2>1, <2>2, FS_CardinalityType
  <2> QED
    BY <2>1, <2>2, <2>3
<1>3. \E pct \in {RedMinPct, RedMaxPct} : Cardinality(waiting) * 100 < pct * MaxQueueSize
  BY <1>2, RedAssumption, QueueAssumption DEF Keep, RedFull, RedSpares
<1>4. Threshold \in Nat /\ Cardinality(waiting) * 100 < Threshold
  BY <1>2, <1>3, BelowThreshold
<1> QED
  BY <1>2, <1>4, WorkersAssumption DEF ThreadsBounded

\* Every other step leaves the traffic under RED as it is, or takes some away.
LEMMA OthersBounded ==
    ASSUME TypeOK, [Next]_vars, ~\E p \in Packets : Keep(p) /\ ~IsCritical(p)
    PROVE  RedTraffic' \subseteq RedTraffic
<1> USE DEF TypeOK, At, Move, RedTraffic, IsCritical, aqVars
<1>1. ASSUME NEW p \in Packets, Keep(p) PROVE RedTraffic' \subseteq RedTraffic
  BY <1>1 DEF Keep
<1>2. ASSUME NEW p \in Packets, Process(p), ~Keep(p) PROVE RedTraffic' \subseteq RedTraffic
  BY <1>2 DEF Process, Receive, CountIn, RateLimit, RedDrop, AfterDrop, LoadDropped,
     StoreDropped, RecordDropped, Enqueue, Put, PutFull, RecordDelivered
<1>3. ASSUME NEW p \in Packets, Dequeue(p) PROVE RedTraffic' \subseteq RedTraffic
  BY <1>3 DEF Dequeue, Get
<1>4. CASE UNCHANGED <<waiting, stage>>
  BY <1>4
<1> QED
  BY <1>1, <1>2, <1>3, <1>4 DEF Next, ResetReceived, ResetDropped, ResetTracker, vars

\* However many threads overlap, the traffic RED applies to never exceeds its
\* threshold by more than one packet per thread (NonCriticalBounded).
THEOREM OvershootBounded == Spec => []NonCriticalBounded
<1> DEFINE Inv == ThreadsBounded /\ NonCriticalBounded
<1>1. Init => Inv
  <2> SUFFICES ASSUME Init PROVE Inv
    OBVIOUS
  <2>1. InProcess = {} /\ RedTraffic = {}
    BY DEF Init, AQInit, InProcess, At, RedTraffic
  <2>2. Cardinality({}) = 0
    BY FS_EmptySet
  <2>3. MaxQueueSize > 0 => Threshold \in Nat
    BY ThresholdIsHighest, QueueAssumption DEF Threshold
  <2> QED
    BY <2>1, <2>2, <2>3, WorkersAssumption DEF ThreadsBounded, NonCriticalBounded, Threshold
<1>2. ASSUME TypeOK, Inv, [Next]_vars PROVE Inv'
  <2>1. ThreadsBounded'
    BY <1>2, StepThreadsBounded
  <2>2. ASSUME MaxQueueSize > 0 PROVE (Cardinality(RedTraffic') - Workers) * 100 < Threshold
    <3>1. CASE \E p \in Packets : Keep(p) /\ ~IsCritical(p)
      BY <1>2, <2>1, <2>2, <3>1, KeepBounded
    <3>2. CASE ~\E p \in Packets : Keep(p) /\ ~IsCritical(p)
      <4>1. RedTraffic' \subseteq RedTraffic /\ IsFiniteSet(RedTraffic)
        BY <1>2, <3>2, OthersBounded, PacketsAssumption, FS_Subset
        DEF TypeOK, Admitted, At, RedTraffic
      <4>2. /\ Cardinality(RedTraffic') <= Cardinality(RedTraffic)
            /\ Cardinality(RedTraffic') \in Nat /\ Cardinality(RedTraffic) \in Nat
        BY <4>1, FS_Subset, FS_CardinalityType
      <4>3. Threshold \in Nat /\ (Cardinality(RedTraffic) - Workers) * 100 < Threshold
        BY <1>2, <2>2, ThresholdIsHighest, QueueAssumption DEF NonCriticalBounded, Threshold
      <4> QED
        BY <4>2, <4>3, WorkersAssumption
    <3> QED
      BY <3>1, <3>2
  <2> QED
    BY <2>1, <2>2 DEF NonCriticalBounded, Threshold
<1> QED
  BY <1>1, <1>2, TypeCorrect, PTL DEF Spec

-----------------------------------------------------------------------------
(* The counters: what a "+=" has read, or has written, is at most the number *)
(* of packets that have got as far, a set that only grows.                   *)
Counted == Packets \ (At("idle") \cup At("counting"))
Discarded == Filtered \cup At("lost")

AtMost(n, S) == n <= Cardinality(S)
CounterInv ==
    /\ AtMost(totalIn, Counted) /\ AtMost(totalDropped, Discarded)
    /\ \A p \in Packets : /\ stage[p] = "counting" => AtMost(loaded[p], Counted)
                          /\ stage[p] = "dropping" => AtMost(loaded[p], Discarded)

\* Both sets are finite, so a number at most the size of one stays so as it
\* grows, and may grow by one with it.
LEMMA Growing ==
    ASSUME NEW S, NEW T, IsFiniteSet(T), S \subseteq T, NEW n \in Nat, AtMost(n, S)
    PROVE  /\ AtMost(n, T) /\ AtMost(0, T)
           /\ \A p : p \in T \ S => AtMost(n + 1, T)
<1>1. /\ IsFiniteSet(S) /\ Cardinality(S) \in Nat /\ Cardinality(T) \in Nat
      /\ Cardinality(S) <= Cardinality(T)
  BY FS_Subset, FS_CardinalityType
<1>2. ASSUME NEW p \in T \ S PROVE Cardinality(S) < Cardinality(T)
  <2>1. S # T
    BY <1>2
  <2> QED
    BY <1>1, <2>1, FS_Subset
<1> QED
  BY <1>1, <1>2 DEF AtMost

\* No packet goes back, so both sets grow, and each "+=" puts its packet in.
LEMMA SetsGrow ==
    ASSUME TypeOK, [Next]_vars
    PROVE  /\ Counted \subseteq Counted' /\ IsFiniteSet(Counted')
           /\ Discarded \subseteq Discarded' /\ IsFiniteSet(Discarded')
           /\ \A p \in Packets : /\ CountIn(p) => p \in Counted' \ Counted
                                 /\ StoreDropped(p) => p \in Discarded' \ Discarded
<1> USE DEF TypeOK, At, Move, Counted, Discarded, Filtered, Admitted, aqVars
<1>1. IsFiniteSet(Counted') /\ IsFiniteSet(Discarded')
  <2>1. Counted' \subseteq Packets /\ Discarded' \subseteq Packets
    OBVIOUS
  <2> QED
    BY <2>1, PacketsAssumption, FS_Subset
<1>2. ASSUME NEW p \in Packets, Process(p)
      PROVE  Counted \subseteq Counted' /\ Discarded \subseteq Discarded'
  BY <1>2 DEF Process, Receive, CountIn, Keep, RateLimit, RedDrop, AfterDrop, LoadDropped,
     StoreDropped, RecordDropped, Enqueue, Put, PutFull, Untouched, RecordDelivered
<1>3. ASSUME NEW p \in Packets, Dequeue(p)
      PROVE  Counted = Counted' /\ Discarded = Discarded'
  BY <1>3 DEF Dequeue, Get, MostImportant
<1>4. ASSUME UNCHANGED <<aqVars, stage>>
      PROVE  Counted = Counted' /\ Discarded = Discarded'
  BY <1>4
<1>5. ASSUME NEW p \in Packets
      PROVE  /\ CountIn(p) => p \in Counted' \ Counted
             /\ StoreDropped(p) => p \in Discarded' \ Discarded
  BY <1>5 DEF CountIn, StoreDropped
<1>6. Counted \subseteq Counted' /\ Discarded \subseteq Discarded'
  <2> HIDE DEF Counted, Discarded
  <2> QED
    BY <1>2, <1>3, <1>4 DEF Next, ResetReceived, ResetDropped, ResetTracker, vars
<1> QED
  BY <1>1, <1>5, <1>6

\* Reads are of the present, writes of one more than what was read.
LEMMA StepCounterInv ==
    ASSUME TypeOK, CounterInv, [Next]_vars
    PROVE  CounterInv'
<1> USE DEF TypeOK, CounterInv, Move
<1>1. /\ Counted \subseteq Counted' /\ IsFiniteSet(Counted')
      /\ Discarded \subseteq Discarded' /\ IsFiniteSet(Discarded')
  BY SetsGrow
<1>2. /\ AtMost(totalIn, Counted') /\ AtMost(0, Counted')
      /\ AtMost(totalDropped, Discarded') /\ AtMost(0, Discarded')
  BY <1>1, Growing
<1>3. \A p \in Packets :
        /\ stage[p] = "counting" => AtMost(loaded[p], Counted')
        /\ stage[p] = "dropping" => AtMost(loaded[p], Discarded')
  BY <1>1, Growing
<1>4. \A p \in Packets :
        /\ CountIn(p) => AtMost(loaded[p] + 1, Counted')
        /\ StoreDropped(p) => AtMost(loaded[p] + 1, Discarded')
  BY <1>1, SetsGrow, Growing DEF CountIn, StoreDropped
<1> HIDE DEF AtMost
<1>5. ASSUME NEW p \in Packets, CountIn(p) PROVE CounterInv'
  BY <1>2, <1>3, <1>4, <1>5 DEF CountIn, Bump
<1>6. ASSUME NEW p \in Packets, StoreDropped(p) PROVE CounterInv'
  BY <1>2, <1>3, <1>4, <1>6 DEF StoreDropped, Bump
<1>7. ASSUME NEW p \in Packets, Receive(p) PROVE CounterInv'
  BY <1>2, <1>3, <1>7 DEF Receive, counters
<1>8. ASSUME NEW p \in Packets, LoadDropped(p) PROVE CounterInv'
  BY <1>2, <1>3, <1>8 DEF LoadDropped, counters
<1>9. ASSUME NEW p \in Packets,
             Keep(p) \/ RateLimit(p) \/ RedDrop(p) \/ RecordDropped(p) \/ Enqueue(p)
               \/ RecordDelivered(p)
      PROVE  CounterInv'
  BY <1>2, <1>3, <1>9 DEF Keep, RateLimit, RedDrop, AfterDrop, RecordDropped, Enqueue,
     RecordDelivered, counters
<1>10. ASSUME NEW p \in Packets, Dequeue(p) PROVE CounterInv'
  BY <1>2, <1>3, <1>10 DEF Dequeue, counters
<1>11. CASE ResetReceived \/ ResetDropped \/ ResetTracker
  BY <1>2, <1>3, <1>11 DEF ResetReceived, ResetDropped, ResetTracker, counters
<1>12. CASE UNCHANGED vars
  BY <1>2, <1>3, <1>12 DEF vars, counters
<1> QED
  BY <1>5, <1>6, <1>7, <1>8, <1>9, <1>10, <1>11, <1>12 DEF Next, Process

\* Threads that overlap lose updates of the counters, but never invent any: what
\* stats() reports stays at or below what happened (NeverOvercounts).
THEOREM CountersHonest == Spec => []NeverOvercounts
<1>1. Init => CounterInv
  <2> SUFFICES ASSUME Init PROVE CounterInv
    OBVIOUS
  <2>1. Counted = {} /\ Discarded = {}
    BY DEF Init, AQInit, Counted, Discarded, Filtered, Admitted, At
  <2> QED
    BY <2>1, FS_EmptySet DEF Init, CounterInv, AtMost
<1>2. CounterInv => NeverOvercounts
  BY DEF CounterInv, NeverOvercounts, AtMost, Counted, Discarded
<1> QED
  BY <1>1, <1>2, StepCounterInv, TypeCorrect, PTL DEF Spec

-----------------------------------------------------------------------------
(* Without overlaps the counters are exact: at most one packet is in         *)
(* process(), what it has read of a counter is still so when it writes, and   *)
(* a packet is in one place of the queue.                                    *)
QueueInv ==
    /\ At("delivered") \subseteq Admitted
    /\ waiting \cap forwarded = {} /\ waiting \cap lost = {} /\ forwarded \cap lost = {}

\* No packet is in two places, and what is delivered has been admitted.
LEMMA StepQueueInv ==
    ASSUME TypeOK, QueueInv, [Next]_vars
    PROVE  QueueInv'
<1> USE DEF TypeOK, QueueInv, Admitted, At, Move, aqVars
<1>1. ASSUME NEW p \in Packets, Enqueue(p) PROVE QueueInv'
  BY <1>1 DEF Enqueue, Put, PutFull, Untouched, LeastImportant
<1>2. ASSUME NEW p \in Packets, Dequeue(p) PROVE QueueInv'
  BY <1>2 DEF Dequeue, Get, MostImportant
<1>3. ASSUME NEW p \in Packets, Process(p), ~Enqueue(p) PROVE QueueInv'
  BY <1>3 DEF Process, Receive, CountIn, Keep, RateLimit, RedDrop, AfterDrop, LoadDropped,
     StoreDropped, RecordDropped, RecordDelivered
<1>4. ASSUME UNCHANGED <<aqVars, stage>> PROVE QueueInv'
  BY <1>4
<1> QED
  BY <1>1, <1>2, <1>3, <1>4 DEF Next, ResetReceived, ResetDropped, ResetTracker, vars

\* Only the two writes move a packet into one of the sets the counters count.
Elsewhere(p) ==
    \/ Receive(p) \/ Keep(p) \/ RateLimit(p) \/ RedDrop(p) \/ LoadDropped(p)
    \/ RecordDropped(p) \/ Enqueue(p) \/ RecordDelivered(p) \/ Dequeue(p)

\* The other steps leave both sets alone.
LEMMA SetsMove ==
    ASSUME TypeOK, QueueInv, NEW p \in Packets
    PROVE  /\ CountIn(p) => p \notin Counted /\ Counted' = Counted \cup {p} /\ Discarded' = Discarded
           /\ StoreDropped(p) => p \notin Discarded /\ Discarded' = Discarded \cup {p}
                                 /\ Counted' = Counted
           /\ Elsewhere(p) => Counted' = Counted /\ Discarded' = Discarded
<1> USE DEF TypeOK, QueueInv, At, Move, Counted, Discarded, Filtered, Admitted, aqVars
<1>1. ASSUME CountIn(p)
      PROVE  p \notin Counted /\ Counted' = Counted \cup {p} /\ Discarded' = Discarded
  BY <1>1 DEF CountIn
<1>2. ASSUME StoreDropped(p)
      PROVE  p \notin Discarded /\ Discarded' = Discarded \cup {p} /\ Counted' = Counted
  <2>1. /\ stage[p] = "dropping" /\ UNCHANGED aqVars
        /\ stage' = [stage EXCEPT ![p] = IF Pvm THEN "lost" ELSE "done"]
    BY <1>2 DEF StoreDropped
  <2>2. p \notin Admitted /\ Admitted' = Admitted
    BY <2>1
  <2>3. stage'[p] = "lost" \/ stage'[p] = "done"
    BY <2>1
  <2>4. \A q \in Packets \ {p} : stage'[q] = stage[q]
    BY <2>1
  <2> HIDE DEF Admitted
  <2> QED
    BY <2>1, <2>2, <2>3, <2>4
<1>3. ASSUME Enqueue(p) PROVE Counted' = Counted /\ Discarded' = Discarded
  <2>1. /\ Admitted' = Admitted \cup {p} /\ stage[p] = "enqueuing"
        /\ stage' = [stage EXCEPT ![p] = IF Pvm THEN "delivered" ELSE "done"]
    BY <1>3 DEF Enqueue, Put, PutFull, Untouched, LeastImportant
  <2>2. stage'[p] = "delivered" \/ stage'[p] = "done"
    BY <2>1
  <2>3. \A q \in Packets \ {p} : stage'[q] = stage[q]
    BY <2>1
  <2> HIDE DEF Admitted
  <2> QED
    BY <2>1, <2>2, <2>3
<1>4. ASSUME Dequeue(p) PROVE Counted' = Counted /\ Discarded' = Discarded
  BY <1>4 DEF Dequeue, Get, MostImportant
<1>5. ASSUME Receive(p) \/ Keep(p) \/ RateLimit(p) \/ RedDrop(p) \/ LoadDropped(p)
               \/ RecordDropped(p) \/ RecordDelivered(p)
      PROVE  Counted' = Counted /\ Discarded' = Discarded
  BY <1>5 DEF Receive, Keep, RateLimit, RedDrop, AfterDrop, LoadDropped, RecordDropped, RecordDelivered
<1> HIDE DEF TypeOK, QueueInv, At, Move, Counted, Discarded, Filtered, Admitted
<1> QED
  BY <1>1, <1>2, <1>3, <1>4, <1>5 DEF Elsewhere

\* What the counters say, and what the one call in progress has read of them.
Exact(n, S) == n = Cardinality(S)
ExactInv ==
    /\ resetStage # "idle" => resets > 0
    /\ ~overlapped /\ resets = 0 =>
         /\ \A p, q \in InProcess : p = q
         /\ Exact(totalIn, Counted) /\ Exact(totalDropped, Discarded)
         /\ \A p \in Packets : /\ stage[p] = "counting" => Exact(loaded[p], Counted)
                               /\ stage[p] = "dropping" => Exact(loaded[p], Discarded)

\* The sizes of disjoint sets add up.
LEMMA CardinalityApart ==
    ASSUME NEW S, NEW T, IsFiniteSet(S), IsFiniteSet(T), S \cap T = {}
    PROVE  IsFiniteSet(S \cup T) /\ Cardinality(S \cup T) = Cardinality(S) + Cardinality(T)
<1>1. Cardinality(S \cup T) = Cardinality(S) + Cardinality(T) - Cardinality(S \cap T)
      /\ IsFiniteSet(S \cup T)
  BY FS_Union
<1>2. Cardinality(S) \in Nat /\ Cardinality(T) \in Nat /\ Cardinality(S \cap T) = 0
  BY FS_CardinalityType, FS_EmptySet
<1> QED
  BY <1>1, <1>2

\* The size of a set of packets grows by one with a new one.
LEMMA OneMore ==
    ASSUME NEW S \in SUBSET Packets, NEW p \in Packets, p \notin S, NEW n, Exact(n, S)
    PROVE  Exact(n + 1, S \cup {p})
BY PacketsAssumption, FS_Subset, FS_AddElement DEF Exact

\* Reads and writes of a single call belong together.
LEMMA StepExactInv ==
    ASSUME TypeOK, QueueInv, ExactInv, [Next]_vars
    PROVE  ExactInv'
<1> USE DEF TypeOK, ExactInv, Move
<1>1. InProcess = {p \in Packets : stage[p] \notin {"idle", "done"}}
  BY DEF InProcess, At
<1>2. InProcess' = {p \in Packets : stage'[p] \notin {"idle", "done"}}
  BY DEF InProcess, At
<1>3. Counted \in SUBSET Packets /\ Discarded \in SUBSET Packets
  BY DEF Counted, Discarded, Filtered, At
<1> HIDE DEF Exact
<1>4. ASSUME NEW p \in Packets, CountIn(p) PROVE ExactInv'
  <2>1. Counted' = Counted \cup {p} /\ Discarded' = Discarded /\ p \notin Counted
    BY <1>4, SetsMove
  <2>2. Exact(loaded[p], Counted) => Exact(loaded[p] + 1, Counted')
    BY <1>3, <2>1, OneMore
  <2> QED
    BY <1>1, <1>2, <1>4, <2>1, <2>2 DEF CountIn, Bump, resetVars
<1>5. ASSUME NEW p \in Packets, StoreDropped(p) PROVE ExactInv'
  <2>1. Discarded' = Discarded \cup {p} /\ Counted' = Counted /\ p \notin Discarded
    BY <1>5, SetsMove
  <2>2. Exact(loaded[p], Discarded) => Exact(loaded[p] + 1, Discarded')
    BY <1>3, <2>1, OneMore
  <2>3. stage' = [stage EXCEPT ![p] = "lost"] \/ stage' = [stage EXCEPT ![p] = "done"]
    BY <1>5 DEF StoreDropped
  <2>4. /\ stage[p] = "dropping" /\ totalDropped' = loaded[p] + 1 /\ loaded' = [loaded EXCEPT ![p] = 0]
        /\ UNCHANGED <<totalIn, overlapped, resetStage, resets>>
    BY <1>5 DEF StoreDropped, Bump, resetVars
  <2>5. InProcess' \subseteq InProcess
    BY <1>1, <1>2, <2>3, <2>4
  <2>6. stage'[p] \in {"lost", "done"} /\ \A q \in Packets \ {p} : /\ stage'[q] = stage[q]
                                                              /\ loaded'[q] = loaded[q]
    BY <2>3, <2>4
  <2>7. ~overlapped /\ resets = 0 =>
          \A q \in Packets \ {p} : stage[q] \notin {"counting", "dropping"}
    BY <1>1, <2>4
  <2> QED
    BY <2>1, <2>2, <2>4, <2>5, <2>6, <2>7
<1>6. ASSUME NEW p \in Packets, Receive(p) PROVE ExactInv'
  <2>1. Counted' = Counted /\ Discarded' = Discarded
    BY <1>6, SetsMove DEF Elsewhere
  <2> QED
    BY <1>1, <1>2, <1>6, <2>1 DEF Receive, counters, resetVars
<1>7. ASSUME NEW p \in Packets, LoadDropped(p) PROVE ExactInv'
  <2>1. Counted' = Counted /\ Discarded' = Discarded
    BY <1>7, SetsMove DEF Elsewhere
  <2> QED
    BY <1>1, <1>2, <1>7, <2>1 DEF LoadDropped, counters, resetVars
<1>8. ASSUME NEW p \in Packets,
             Keep(p) \/ RateLimit(p) \/ RedDrop(p) \/ RecordDropped(p) \/ Enqueue(p)
               \/ RecordDelivered(p)
      PROVE  ExactInv'
  <2>1. Counted' = Counted /\ Discarded' = Discarded
    BY <1>8, SetsMove DEF Elsewhere
  <2>2. /\ stage[p] \notin {"idle", "done"}
        /\ \E s \in {"enqueuing", "refused", "delivered", "done"} : stage' = [stage EXCEPT ![p] = s]
        /\ UNCHANGED <<counters, loaded, resetVars, overlapped>>
    BY <1>8 DEF Keep, RateLimit, RedDrop, AfterDrop, RecordDropped, Enqueue, RecordDelivered,
       counters
  <2> QED
    BY <1>1, <1>2, <2>1, <2>2 DEF counters, resetVars
<1>9. ASSUME NEW p \in Packets, Dequeue(p) PROVE ExactInv'
  <2>1. Counted' = Counted /\ Discarded' = Discarded
    BY <1>9, SetsMove DEF Elsewhere
  <2> QED
    BY <1>1, <1>2, <1>9, <2>1 DEF Dequeue, counters, resetVars
<1>10. CASE ResetReceived \/ ResetDropped \/ ResetTracker
  BY <1>10 DEF ResetReceived, ResetDropped, ResetTracker
<1>11. CASE UNCHANGED vars
  <2>1. Counted' = Counted /\ Discarded' = Discarded
    BY <1>11 DEF vars, aqVars, Counted, Discarded, Filtered, Admitted, At
  <2> QED
    BY <1>1, <1>2, <1>11, <2>1 DEF vars, counters, resetVars
<1> QED
  BY <1>4, <1>5, <1>6, <1>7, <1>8, <1>9, <1>10, <1>11 DEF Next, Process

\* Every packet is in the statistics exactly once as long as no two calls have
\* overlapped (NothingVanishes, test_optimizer.py 118-126): for every stream of
\* packets, capacity and threshold, with dequeue() at any moment.
THEOREM EveryPacketAccounted == Spec => []NothingVanishes
<1>1. Init => QueueInv /\ ExactInv
  <2> SUFFICES ASSUME Init PROVE QueueInv /\ ExactInv
    OBVIOUS
  <2>1. /\ Counted = {} /\ Discarded = {} /\ InProcess = {} /\ At("delivered") = {}
        /\ \A p \in Packets : stage[p] = "idle"
    BY DEF Init, AQInit, Counted, Discarded, Filtered, Admitted, InProcess, At
  <2> QED
    BY <2>1, FS_EmptySet DEF Init, AQInit, QueueInv, ExactInv, Exact
<1>2. ASSUME TypeOK, QueueInv, ExactInv PROVE NothingVanishes
  <2> SUFFICES ASSUME ~overlapped, InProcess = {}, resets = 0
               PROVE  totalIn = totalDropped + Cardinality(waiting) + Cardinality(forwarded)
                                + Cardinality(lost)
    BY DEF NothingVanishes, Quiet
  <2>1. totalIn = Cardinality(Counted) /\ totalDropped = Cardinality(Discarded)
    BY <1>2 DEF ExactInv, Exact
  <2>2. /\ Counted = (Discarded \cup waiting) \cup (forwarded \cup lost)
        /\ Discarded \cap waiting = {} /\ forwarded \cap lost = {}
        /\ (Discarded \cup waiting) \cap (forwarded \cup lost) = {}
    BY <1>2 DEF TypeOK, QueueInv, InProcess, Counted, Discarded, Filtered, Admitted, At, Stages
  <2>3. /\ IsFiniteSet(Discarded) /\ IsFiniteSet(waiting) /\ IsFiniteSet(forwarded)
        /\ IsFiniteSet(lost)
    <3>1. Counted \subseteq Packets
      BY DEF Counted
    <3> QED
      BY <2>2, <3>1, PacketsAssumption, FS_Subset
  <2>4. /\ Cardinality(Discarded \cup waiting) = Cardinality(Discarded) + Cardinality(waiting)
        /\ IsFiniteSet(Discarded \cup waiting)
    BY <2>2, <2>3, CardinalityApart
  <2>5. /\ Cardinality(forwarded \cup lost) = Cardinality(forwarded) + Cardinality(lost)
        /\ IsFiniteSet(forwarded \cup lost)
    BY <2>2, <2>3, CardinalityApart
  <2>6. Cardinality(Counted) = Cardinality(Discarded \cup waiting) + Cardinality(forwarded \cup lost)
    BY <2>2, <2>4, <2>5, CardinalityApart
  <2> QED
    BY <2>1, <2>3, <2>4, <2>5, <2>6, FS_CardinalityType
<1> QED
  BY <1>1, <1>2, StepQueueInv, StepExactInv, TypeCorrect, PTL DEF Spec
-----------------------------------------------------------------------------
(* Sums: the recursion that defines one has a solution, and a member more    *)
(* adds its number, in whatever order the sum takes the members.             *)

\* A set of numbers that has 0, and n + 1 with n, has all.
LEMMA Counting ==
    ASSUME NEW T, T \subseteq Nat, 0 \in T, \A n \in T : n + 1 \in T
    PROVE  T = Nat
<1> SUFFICES ASSUME Nat \ T # {} PROVE FALSE
  OBVIOUS
<1> DEFINE Less == OpToRel(<, Nat)
<1>1. IsWellFoundedOn(Less, Nat)
  BY Zenon, NatLessThanWellFounded
<1>2. \A i, j \in Nat : j < i => <<j, i>> \in Less
  BY DEF OpToRel
<1> HIDE DEF Less
<1>3. PICK n \in Nat \ T : \A m \in Nat \ T : ~(<<m, n>> \in Less)
  <2> DEFINE Rest == Nat \ T
  <2>1. Rest \subseteq Nat /\ Rest # {}
    OBVIOUS
  <2> HIDE DEF Rest
  <2>2. \E n \in Rest : \A m \in Rest : ~(<<m, n>> \in Less)
    BY <1>1, <2>1, WFMin
  <2> QED
    BY <2>2 DEF Rest
<1>4. n # 0 /\ n - 1 \in Nat /\ n - 1 < n
  OBVIOUS
<1>5. n - 1 \in T
  BY <1>2, <1>3, <1>4
<1>6. (n - 1) + 1 \in T
  BY <1>5
<1> QED
  BY <1>3, <1>4, <1>6

\* Induction over the subsets of a finite set: a family that has the empty set,
\* and every set with all its subsets of one member less, has them all.
LEMMA SetInduction ==
    ASSUME NEW A, IsFiniteSet(A), NEW F, {} \in F,
           \A S \in SUBSET A : S # {} /\ (\A x \in S : S \ {x} \in F) => S \in F
    PROVE  SUBSET A \subseteq F
<1> DEFINE Sizes == {n \in Nat : \A S \in SUBSET A : Cardinality(S) = n => S \in F}
<1>1. 0 \in Sizes
  BY FS_Subset, FS_EmptySet
<1>2. ASSUME NEW n \in Sizes PROVE n + 1 \in Sizes
  <2>1. ASSUME NEW S \in SUBSET A, Cardinality(S) = n + 1 PROVE S \in F
    <3>1. IsFiniteSet(S) /\ Cardinality(S) # 0
      BY <2>1, FS_Subset
    <3>2. S # {}
      BY <3>1, FS_EmptySet
    <3>3. ASSUME NEW x \in S PROVE S \ {x} \in F
      <4>1. Cardinality(S \ {x}) = Cardinality(S) - 1
        BY <3>1, FS_RemoveElement
      <4>2. Cardinality(S \ {x}) = n
        BY <2>1, <4>1
      <4> QED
        BY <4>2
    <3> QED
      BY <3>2, <3>3
  <2> QED
    BY <2>1
<1>3. Sizes = Nat
  <2>1. Sizes \subseteq Nat
    OBVIOUS
  <2> HIDE DEF Sizes
  <2> QED
    BY <1>1, <1>2, <2>1, Counting
<1>4. ASSUME NEW S \in SUBSET A PROVE S \in F
  <2>1. Cardinality(S) \in Nat
    BY FS_Subset, FS_CardinalityType
  <2> QED
    BY <1>3, <2>1
<1> QED
  BY <1>4

\* What the recursion that defines the sum asks of a function g of sets.
AnyOf(S) == CHOOSE x \in S : TRUE
Summed(f, g, S) == IF S = {} THEN 0 ELSE f[AnyOf(S)] + g[S \ {AnyOf(S)}]
SumsUp(f, A, g) ==
    /\ g \in [SUBSET A -> Int] /\ Sum(f, A) = g[A]
    /\ \A S \in SUBSET A : g[S] = Summed(f, g, S)

\* The recursion has a solution.
LEMMA SumSolved ==
    ASSUME NEW A, IsFiniteSet(A), NEW f, \A x \in A : f[x] \in Int
    PROVE  \E g : SumsUp(f, A, g)
<1> DEFINE Solves(g, n) == \A S \in SUBSET A : Cardinality(S) <= n => g[S] = Summed(f, g, S)
           Reached == {n \in Nat : \E g \in [SUBSET A -> Int] : Solves(g, n)}
<1>1. ASSUME NEW g \in [SUBSET A -> Int], NEW S \in SUBSET A PROVE Summed(f, g, S) \in Int
  <2>1. CASE S = {}
    BY <2>1 DEF Summed
  <2>2. CASE S # {}
    <3>1. AnyOf(S) \in S /\ S \ {AnyOf(S)} \in SUBSET A
      BY <2>2 DEF AnyOf
    <3> QED
      BY <2>2, <3>1 DEF Summed
  <2> QED
    BY <2>1, <2>2
<1>2. \A S \in SUBSET A : /\ IsFiniteSet(S) /\ Cardinality(S) \in Nat
                          /\ Cardinality(S) = 0 => S = {}
                          /\ Cardinality(S) <= Cardinality(A) /\ Cardinality(A) \in Nat
  BY FS_Subset, FS_CardinalityType, FS_EmptySet
<1>3. 0 \in Reached
  <2> DEFINE zero == [S \in SUBSET A |-> 0]
  <2>1. zero \in [SUBSET A -> Int]
    OBVIOUS
  <2>2. Solves(zero, 0)
    BY <1>2 DEF Summed
  <2> QED
    BY <2>1, <2>2
<1>4. ASSUME NEW n \in Reached PROVE n + 1 \in Reached
  <2>1. PICK g \in [SUBSET A -> Int] : Solves(g, n)
    OBVIOUS
  <2> DEFINE h == [S \in SUBSET A |-> Summed(f, g, S)]
  <2>2. h \in [SUBSET A -> Int]
    BY <1>1
  <2>3. ASSUME NEW S \in SUBSET A, Cardinality(S) <= n + 1, S # {}
        PROVE  g[S \ {AnyOf(S)}] = h[S \ {AnyOf(S)}]
    <3>1. AnyOf(S) \in S /\ S \ {AnyOf(S)} \in SUBSET A
      BY <2>3 DEF AnyOf
    <3>2. Cardinality(S \ {AnyOf(S)}) = Cardinality(S) - 1
      BY <1>2, <3>1, FS_RemoveElement
    <3>3. Cardinality(S \ {AnyOf(S)}) <= n
      BY <1>2, <2>3, <3>2
    <3> HIDE DEF h
    <3>4. g[S \ {AnyOf(S)}] = Summed(f, g, S \ {AnyOf(S)})
      BY <2>1, <3>1, <3>3
    <3> QED
      BY <3>1, <3>4 DEF h
  <2>4. Solves(h, n + 1)
    <3> SUFFICES ASSUME NEW S \in SUBSET A, Cardinality(S) <= n + 1
                 PROVE  h[S] = Summed(f, h, S)
      OBVIOUS
    <3>1. h[S] = Summed(f, g, S)
      OBVIOUS
    <3>2. Summed(f, g, S) = Summed(f, h, S)
      <4> HIDE DEF h
      <4> QED
        BY <2>3 DEF Summed
    <3> QED
      BY <3>1, <3>2
  <2>5. n + 1 \in Nat
    OBVIOUS
  <2> HIDE DEF Solves, h
  <2> QED
    BY <2>2, <2>4, <2>5
<1>5. Reached = Nat
  <2>1. Reached \subseteq Nat
    OBVIOUS
  <2> HIDE DEF Reached
  <2> QED
    BY <1>3, <1>4, <2>1, Counting
<1>6. PICK g \in [SUBSET A -> Int] : Solves(g, Cardinality(A))
  BY <1>5, FS_CardinalityType
<1>7. g = [S \in SUBSET A |-> Summed(f, g, S)]
  <2>1. \A S \in SUBSET A : g[S] = Summed(f, g, S)
    BY <1>2, <1>6
  <2> QED
    BY <2>1
<1> DEFINE any == CHOOSE h : h = [S \in SUBSET A |-> Summed(f, h, S)]
<1>8. Sum(f, A) = any[A]
  BY Zenon DEF Sum, MapThenSumSet, MapThenFoldSet, Summed, AnyOf
<1>9. any = [S \in SUBSET A |-> Summed(f, any, S)]
  BY <1>7, Zenon
<1> HIDE DEF any
<1>10. any \in [SUBSET A -> Int]
  <2> DEFINE Typed == {S \in SUBSET A : any[S] \in Int}
  <2>1. \A S \in SUBSET A : any[S] = Summed(f, any, S)
    BY <1>9
  <2>2. {} \in Typed
    <3>1. any[{}] = Summed(f, any, {})
      BY <2>1
    <3> QED
      BY <3>1 DEF Summed
  <2>3. ASSUME NEW S \in SUBSET A, S # {}, \A x \in S : S \ {x} \in Typed PROVE S \in Typed
    <3>1. AnyOf(S) \in S
      BY <2>3 DEF AnyOf
    <3>2. any[S] = f[AnyOf(S)] + any[S \ {AnyOf(S)}]
      BY <2>1, <2>3 DEF Summed
    <3>3. f[AnyOf(S)] \in Int /\ any[S \ {AnyOf(S)}] \in Int
      BY <2>3, <3>1
    <3> QED
      BY <3>2, <3>3
  <2> HIDE DEF Typed
  <2>4. SUBSET A \subseteq Typed
    BY <2>2, <2>3, SetInduction
  <2>5. \A S \in SUBSET A : any[S] \in Int
    BY <2>4 DEF Typed
  <2> QED
    BY <1>9, <2>5
<1>11. \A S \in SUBSET A : any[S] = Summed(f, any, S)
  BY <1>9
<1> QED
  BY <1>8, <1>10, <1>11 DEF SumsUp

\* The equation of the sum.
LEMMA SumEquation ==
    ASSUME NEW A, IsFiniteSet(A), NEW f, \A x \in A : f[x] \in Int
    PROVE  /\ Sum(f, {}) = 0
           /\ \A S \in SUBSET A : Sum(f, S) \in Int
           /\ \A S \in SUBSET A : S # {} => Sum(f, S) = f[AnyOf(S)] + Sum(f, S \ {AnyOf(S)})
<1>0. PICK g : SumsUp(f, A, g)
  BY SumSolved
<1>1. /\ g \in [SUBSET A -> Int] /\ Sum(f, A) = g[A]
      /\ \A S \in SUBSET A : g[S] = Summed(f, g, S)
  BY <1>0 DEF SumsUp
<1>2. ASSUME NEW T \in SUBSET A PROVE Sum(f, T) = g[T]
  <2>0. PICK h : SumsUp(f, T, h)
    BY FS_Subset, SumSolved
  <2>1. /\ h \in [SUBSET T -> Int] /\ Sum(f, T) = h[T]
        /\ \A S \in SUBSET T : h[S] = Summed(f, h, S)
    BY <2>0 DEF SumsUp
  <2> DEFINE Same == {S \in SUBSET T : g[S] = h[S]}
  <2>2. {} \in Same
    BY <1>1, <2>1 DEF Summed
  <2>3. ASSUME NEW S \in SUBSET T, S # {}, \A x \in S : S \ {x} \in Same PROVE S \in Same
    <3>1. AnyOf(S) \in S
      BY <2>3 DEF AnyOf
    <3>2. g[S \ {AnyOf(S)}] = h[S \ {AnyOf(S)}]
      BY <2>3, <3>1
    <3>3. g[S] = Summed(f, g, S) /\ h[S] = Summed(f, h, S)
      BY <1>1, <2>1
    <3> QED
      BY <3>2, <3>3 DEF Summed
  <2> HIDE DEF Same
  <2>4. IsFiniteSet(T)
    BY FS_Subset
  <2>5. SUBSET T \subseteq Same
    BY <2>2, <2>3, <2>4, SetInduction
  <2> QED
    BY <2>1, <2>5 DEF Same
<1>3. Sum(f, {}) = 0
  BY <1>1, <1>2 DEF Summed
<1>4. ASSUME NEW S \in SUBSET A, S # {} PROVE Sum(f, S) = f[AnyOf(S)] + Sum(f, S \ {AnyOf(S)})
  <2>1. g[S] = f[AnyOf(S)] + g[S \ {AnyOf(S)}]
    BY <1>1, <1>4 DEF Summed
  <2>2. S \ {AnyOf(S)} \in SUBSET A
    OBVIOUS
  <2> QED
    BY <1>2, <2>1, <2>2
<1> QED
  BY <1>1, <1>2, <1>3, <1>4

\* Any member may come first in the sum.
LEMMA SumWithout ==
    ASSUME NEW A, IsFiniteSet(A), NEW f, \A x \in A : f[x] \in Int, NEW x \in A
    PROVE  Sum(f, A) = f[x] + Sum(f, A \ {x})
<1> DEFINE Free == {T \in SUBSET A : \A q \in T : Sum(f, T) = f[q] + Sum(f, T \ {q})}
<1>1. {} \in Free
  OBVIOUS
<1>2. ASSUME NEW T \in SUBSET A, T # {}, \A q \in T : T \ {q} \in Free
      PROVE  T \in Free
  <2> SUFFICES ASSUME NEW q \in T PROVE Sum(f, T) = f[q] + Sum(f, T \ {q})
    OBVIOUS
  <2> DEFINE r == AnyOf(T)
  <2>1. r \in T
    BY DEF AnyOf
  <2>2. Sum(f, T) = f[r] + Sum(f, T \ {r})
    BY <1>2, SumEquation
  <2> HIDE DEF r
  <2>3. CASE r = q
    BY <2>2, <2>3
  <2>4. CASE r # q
    <3> DEFINE rest == (T \ {r}) \ {q}
    <3>1. Sum(f, T \ {r}) = f[q] + Sum(f, rest)
      BY <1>2, <2>1, <2>4
    <3>2. Sum(f, T \ {q}) = f[r] + Sum(f, rest)
      <4>1. Sum(f, T \ {q}) = f[r] + Sum(f, (T \ {q}) \ {r})
        BY <1>2, <2>1, <2>4
      <4>2. (T \ {q}) \ {r} = rest
        OBVIOUS
      <4> QED
        BY <4>1, <4>2, Zenon
    <3>3. f[q] \in Int /\ f[r] \in Int /\ Sum(f, rest) \in Int
      BY <2>1, SumEquation
    <3> HIDE DEF rest
    <3> QED
      BY <2>2, <3>1, <3>2, <3>3
  <2> QED
    BY <2>3, <2>4
<1>3. SUBSET A \subseteq Free
  <2> HIDE DEF Free
  <2> QED
    BY <1>1, <1>2, SetInduction
<1> QED
  BY <1>3

\* A member more adds what f has there.
LEMMA SumAdds ==
    ASSUME NEW A, IsFiniteSet(A), NEW f, \A y \in A : f[y] \in Int, NEW x \in A
    PROVE  /\ Sum(f, {}) = 0 /\ Sum(f, A \ {x}) \in Int
           /\ Sum(f, A) = Sum(f, A \ {x}) + f[x]
<1>1. Sum(f, {}) = 0 /\ Sum(f, A \ {x}) \in Int
  BY SumEquation
<1>2. Sum(f, A) = f[x] + Sum(f, A \ {x})
  BY SumWithout
<1>3. f[x] \in Int
  OBVIOUS
<1> QED
  BY <1>1, <1>2, <1>3

\* What a function has elsewhere does not matter.
LEMMA SumAgrees ==
    ASSUME NEW A, IsFiniteSet(A), NEW f, \A x \in A : f[x] \in Int,
           NEW g, \A x \in A : g[x] = f[x]
    PROVE  Sum(g, A) = Sum(f, A)
<1> DEFINE Same == {S \in SUBSET A : Sum(g, S) = Sum(f, S)}
<1>1. {} \in Same
  BY SumEquation
<1>2. ASSUME NEW S \in SUBSET A, S # {}, \A x \in S : S \ {x} \in Same PROVE S \in Same
  <2>1. PICK x \in S : TRUE
    BY <1>2
  <2>2. IsFiniteSet(S)
    BY FS_Subset
  <2>3. Sum(f, S) = Sum(f, S \ {x}) + f[x]
    BY <2>2, SumAdds
  <2>4. Sum(g, S) = Sum(g, S \ {x}) + g[x]
    BY <2>2, SumAdds
  <2> QED
    BY <1>2, <2>3, <2>4
<1>3. SUBSET A \subseteq Same
  <2> HIDE DEF Same
  <2> QED
    BY <1>1, <1>2, SetInduction
<1> QED
  BY <1>3

\* g on B has the numbers that f on A has, indexed k earlier.
Shifted(g, B, f, A, k) ==
    /\ A \in SUBSET Int /\ IsFiniteSet(A) /\ B \in SUBSET Int /\ k \in Int
    /\ \A x \in A : f[x] \in Int /\ x - k \in B /\ g[x - k] = f[x]
    /\ \A y \in B : y + k \in A

\* Two families with the same numbers, one indexed earlier, have the same sum.
LEMMA SumShifted ==
    ASSUME NEW A, NEW f, NEW B, NEW g, NEW k, Shifted(g, B, f, A, k)
    PROVE  Sum(g, B) = Sum(f, A)
<1> USE DEF Shifted
<1> DEFINE Moved(S) == {x - k : x \in S}
           Same == {S \in SUBSET A : Sum(g, Moved(S)) = Sum(f, S)}
<1>1. {} \in Same
  <2>1. Moved({}) = {} /\ Sum(f, {}) = 0
    BY SumEquation
  <2>2. Sum(g, {}) = 0
    <3>1. IsFiniteSet({}) /\ \A x \in {} : g[x] \in Int
      BY FS_EmptySet
    <3> QED
      BY <3>1, SumEquation
  <2> QED
    BY <2>1, <2>2
<1>2. ASSUME NEW S \in SUBSET A, S # {}, \A x \in S : S \ {x} \in Same PROVE S \in Same
  <2>1. PICK x \in S : TRUE
    BY <1>2
  <2>2. IsFiniteSet(S) /\ x \in Int
    BY FS_Subset
  <2>3. Sum(f, S) = Sum(f, S \ {x}) + f[x]
    BY <2>2, SumAdds
  <2>4. IsFiniteSet(Moved(S)) /\ x - k \in Moved(S)
    <3> DEFINE move == [y \in S |-> y - k]
    <3>1. move \in Surjection(S, Moved(S))
      BY DEF Surjection
    <3> QED
      BY <2>2, <3>1, FS_Surjection
  <2>5. \A y \in Moved(S) : g[y] \in Int
    OBVIOUS
  <2>6. Moved(S) \ {x - k} = Moved(S \ {x})
    <3>1. \A y \in S : y - k = x - k => y = x
      BY <2>2
    <3> QED
      BY <3>1
  <2> HIDE DEF Moved
  <2>7. Sum(g, Moved(S)) = Sum(g, Moved(S) \ {x - k}) + g[x - k]
    BY <2>4, <2>5, SumAdds
  <2>8. Sum(g, Moved(S \ {x})) = Sum(f, S \ {x})
    BY <1>2
  <2> QED
    BY <2>3, <2>6, <2>7, <2>8
<1>3. SUBSET A \subseteq Same
  <2> HIDE DEF Same
  <2> QED
    BY <1>1, <1>2, SetInduction
<1>4. Sum(g, Moved(A)) = Sum(f, A)
  BY <1>3
<1>5. Moved(A) = B
  <2>1. \A y \in B : y = (y + k) - k
    OBVIOUS
  <2> QED
    BY <2>1
<1> QED
  BY <1>4, <1>5, Zenon

\* The sum over two sets without a common member.
LEMMA SumApart ==
    ASSUME NEW A, IsFiniteSet(A), NEW B, IsFiniteSet(B), A \cap B = {},
           NEW f, \A x \in A \cup B : f[x] \in Int
    PROVE  Sum(f, A \cup B) = Sum(f, A) + Sum(f, B)
<1> DEFINE Added == {S \in SUBSET B : Sum(f, A \cup S) = Sum(f, A) + Sum(f, S)}
<1>1. IsFiniteSet(A \cup B)
  BY FS_Union
<1>2. \A S \in SUBSET (A \cup B) : Sum(f, S) \in Int
  BY <1>1, SumEquation
<1>3. {} \in Added
  <2>1. Sum(f, {}) = 0 /\ A \cup {} = A /\ Sum(f, A) \in Int
    BY <1>1, <1>2, SumEquation
  <2> QED
    BY <2>1
<1>4. ASSUME NEW S \in SUBSET B, S # {}, \A x \in S : S \ {x} \in Added PROVE S \in Added
  <2>1. PICK x \in S : TRUE
    BY <1>4
  <2>2. IsFiniteSet(A \cup S) /\ IsFiniteSet(S)
    BY <1>1, FS_Subset
  <2>3. Sum(f, A \cup S) = Sum(f, (A \cup S) \ {x}) + f[x]
    BY <2>2, SumAdds
  <2>4. Sum(f, S) = Sum(f, S \ {x}) + f[x]
    BY <2>2, SumAdds
  <2>5. (A \cup S) \ {x} = A \cup (S \ {x})
    OBVIOUS
  <2>6. Sum(f, A \cup (S \ {x})) = Sum(f, A) + Sum(f, S \ {x})
    BY <1>4
  <2>7. Sum(f, A) \in Int /\ Sum(f, S \ {x}) \in Int /\ f[x] \in Int
    BY <1>2
  <2>8. Sum(f, A \cup S) = Sum(f, A \cup (S \ {x})) + f[x]
    BY <2>3, <2>5, Zenon
  <2>9. Sum(f, A \cup S) = (Sum(f, A) + Sum(f, S \ {x})) + f[x]
    BY <2>6, <2>8, Zenon
  <2>10. Sum(f, A \cup S) = Sum(f, A) + Sum(f, S)
    BY <2>4, <2>7, <2>9
  <2> QED
    BY <2>10
<1>5. SUBSET B \subseteq Added
  <2> HIDE DEF Added
  <2> QED
    BY <1>3, <1>4, SetInduction
<1> QED
  BY <1>5

\* A packet more adds its coefficient.
LEMMA ValueAdds ==
    /\ Value({}) = 0
    /\ \A S \in SUBSET Packets : Value(S) \in Int
    /\ \A S \in SUBSET Packets : \A p \in Packets \ S : Value(S \cup {p}) = Value(S) + Coefficient[p]
<1>1. \A S : Value(S) = Sum(Coefficient, S)
  BY DEF Value, Sum
<1>2. IsFiniteSet(Packets) /\ \A p \in Packets : Coefficient[p] \in Int
  BY PacketsAssumption, CoefficientAssumption
<1>3. Sum(Coefficient, {}) = 0 /\ \A S \in SUBSET Packets : Sum(Coefficient, S) \in Int
  BY <1>2, SumEquation
<1>4. ASSUME NEW S \in SUBSET Packets, NEW p \in Packets \ S
      PROVE  Sum(Coefficient, S \cup {p}) = Sum(Coefficient, S) + Coefficient[p]
  <2>1. IsFiniteSet(S \cup {p}) /\ p \in S \cup {p} /\ \A q \in S \cup {p} : Coefficient[q] \in Int
    BY <1>2, FS_Subset
  <2>2. Sum(Coefficient, S \cup {p}) = Sum(Coefficient, (S \cup {p}) \ {p}) + Coefficient[p]
    BY <2>1, SumAdds
  <2>3. (S \cup {p}) \ {p} = S
    OBVIOUS
  <2> QED
    BY <2>2, <2>3, Zenon
<1> QED
  BY <1>1, <1>3, <1>4

-----------------------------------------------------------------------------
(* The tracker's totals: what has been recorded as delivered is what was     *)
(* admitted by calls that are past RecordDelivered, and likewise for drops.  *)
Delivered == Admitted \ At("delivered")
TrackerInv ==
    /\ resetStage # "idle" => resets > 0
    /\ Pvm /\ resets = 0 => valueDelivered = Value(Delivered) /\ valueLost = Value(Filtered)

\* Each call of record_...() is for a packet not yet recorded, and no other
\* step moves a packet into what was recorded or out of it.
LEMMA RecordedMoves ==
    ASSUME TypeOK, QueueInv, Pvm, NEW p \in Packets
    PROVE  /\ RecordDelivered(p) => /\ p \notin Delivered /\ Delivered' = Delivered \cup {p}
                                    /\ Filtered' = Filtered
           /\ RecordDropped(p) => /\ p \notin Filtered /\ Filtered' = Filtered \cup {p}
                                  /\ Delivered' = Delivered
           /\ \/ Process(p) /\ ~RecordDelivered(p) /\ ~RecordDropped(p)
              \/ Dequeue(p)
              => Delivered' = Delivered /\ Filtered' = Filtered
<1> USE DEF TypeOK, QueueInv, At, Move, Delivered, Filtered, Admitted, aqVars
<1>1. ASSUME RecordDelivered(p)
      PROVE  p \notin Delivered /\ Delivered' = Delivered \cup {p} /\ Filtered' = Filtered
  BY <1>1 DEF RecordDelivered
<1>2. ASSUME RecordDropped(p)
      PROVE  p \notin Filtered /\ Filtered' = Filtered \cup {p} /\ Delivered' = Delivered
  BY <1>2 DEF RecordDropped
<1>3. ASSUME Enqueue(p) PROVE Delivered' = Delivered /\ Filtered' = Filtered
  <2>1. /\ Admitted' = Admitted \cup {p} /\ stage[p] = "enqueuing"
        /\ stage' = [stage EXCEPT ![p] = "delivered"]
    BY <1>3 DEF Enqueue, Put, PutFull, Untouched, LeastImportant
  <2>2. stage'[p] = "delivered" /\ \A q \in Packets \ {p} : stage'[q] = stage[q]
    BY <2>1
  <2>3. p \notin Admitted
    BY <2>1
  <2> HIDE DEF Admitted
  <2> QED
    BY <2>1, <2>2, <2>3
<1>4. ASSUME Dequeue(p) PROVE Delivered' = Delivered /\ Filtered' = Filtered
  BY <1>4 DEF Dequeue, Get, MostImportant
<1>5. ASSUME Receive(p) \/ CountIn(p) \/ Keep(p) \/ RateLimit(p) \/ RedDrop(p) \/ LoadDropped(p)
               \/ StoreDropped(p)
      PROVE  Delivered' = Delivered /\ Filtered' = Filtered
  BY <1>5 DEF Receive, CountIn, Keep, RateLimit, RedDrop, AfterDrop, LoadDropped, StoreDropped
<1> HIDE DEF TypeOK, QueueInv, At, Move, Delivered, Filtered, Admitted
<1> QED
  BY <1>1, <1>2, <1>3, <1>4, <1>5 DEF Process

\* So the totals stay the sums of what was recorded.
LEMMA StepTrackerInv ==
    ASSUME TypeOK, QueueInv, TrackerInv, [Next]_vars
    PROVE  TrackerInv'
<1>1. Delivered \in SUBSET Packets /\ Filtered \in SUBSET Packets
  BY DEF TypeOK, Delivered, Filtered, Admitted, At
<1>2. ASSUME NEW p \in Packets, RecordDelivered(p) PROVE TrackerInv'
  <2>1. UNCHANGED <<resetStage, resets, valueLost>>
    BY <1>2 DEF RecordDelivered, resetVars
  <2>2. ASSUME Pvm, resets = 0 PROVE valueDelivered' = Value(Delivered') /\ valueLost' = Value(Filtered')
    <3>1. p \notin Delivered /\ Delivered' = Delivered \cup {p} /\ Filtered' = Filtered
      BY <1>2, <2>2, RecordedMoves
    <3>2. Value(Delivered') = Value(Delivered) + Coefficient[p]
      BY <1>1, <3>1, ValueAdds
    <3> QED
      BY <1>2, <2>1, <2>2, <3>1, <3>2 DEF TrackerInv, RecordDelivered, Delivers
  <2> QED
    BY <2>1, <2>2 DEF TrackerInv
<1>3. ASSUME NEW p \in Packets, RecordDropped(p) PROVE TrackerInv'
  <2>1. UNCHANGED <<resetStage, resets, valueDelivered>>
    BY <1>3 DEF RecordDropped, resetVars
  <2>2. ASSUME Pvm, resets = 0 PROVE valueDelivered' = Value(Delivered') /\ valueLost' = Value(Filtered')
    <3>1. p \notin Filtered /\ Filtered' = Filtered \cup {p} /\ Delivered' = Delivered
      BY <1>3, <2>2, RecordedMoves
    <3>2. Value(Filtered') = Value(Filtered) + Coefficient[p]
      BY <1>1, <3>1, ValueAdds
    <3> QED
      BY <1>3, <2>1, <2>2, <3>1, <3>2 DEF TrackerInv, RecordDropped
  <2> QED
    BY <2>1, <2>2 DEF TrackerInv
<1>4. ASSUME NEW p \in Packets,
             \/ Process(p) /\ ~RecordDelivered(p) /\ ~RecordDropped(p)
             \/ Dequeue(p)
      PROVE  TrackerInv'
  <2>1. UNCHANGED <<resetVars, tracker>>
    BY <1>4 DEF Process, Receive, CountIn, Keep, RateLimit, RedDrop, LoadDropped, StoreDropped,
       Enqueue, Dequeue
  <2>2. Pvm => Delivered' = Delivered /\ Filtered' = Filtered
    BY <1>4, RecordedMoves
  <2> QED
    BY <2>1, <2>2 DEF TrackerInv, resetVars, tracker
<1>5. CASE ResetReceived \/ ResetDropped \/ ResetTracker
  BY <1>5 DEF ResetReceived, ResetDropped, ResetTracker, TrackerInv, TypeOK
<1>6. CASE UNCHANGED vars
  BY <1>6 DEF vars, aqVars, resetVars, tracker, TrackerInv, Delivered, Filtered, Admitted, At
<1> QED
  BY <1>2, <1>3, <1>4, <1>5, <1>6 DEF Next

\* The value tracker misses nothing, whatever the threads do: at rest its totals
\* are the value of what the filter admitted and of what it refused
\* (ValueCountsAdmitted), for every set of packets and all coefficients.
THEOREM ValueExact == Spec => []ValueCountsAdmitted
<1>1. Init => QueueInv /\ TrackerInv
  <2> SUFFICES ASSUME Init PROVE QueueInv /\ TrackerInv
    OBVIOUS
  <2>1. Delivered = {} /\ Filtered = {} /\ QueueInv
    BY DEF Init, AQInit, Delivered, Filtered, Admitted, At, QueueInv
  <2> QED
    BY <2>1, ValueAdds DEF Init, TrackerInv
<1>2. ASSUME TypeOK, TrackerInv PROVE ValueCountsAdmitted
  <2> SUFFICES ASSUME Pvm, InProcess = {}, resets = 0
               PROVE  valueDelivered = Value(Admitted) /\ valueLost = Value(Filtered)
    BY DEF ValueCountsAdmitted, Quiet
  <2>1. Delivered = Admitted
    BY DEF InProcess, At, Delivered
  <2> QED
    BY <1>2, <2>1 DEF TrackerInv
<1> QED
  BY <1>1, <1>2, StepQueueInv, StepTrackerInv, TypeCorrect, PTL DEF Spec

-----------------------------------------------------------------------------
(* The deques of the sliding windows.                                       *)

Events == [value : Values, age : 0..Oldest]
Aged(events, a) == {i \in DOMAIN events : events[i].age = a}
ValueAged(events, a) == Sum(ValuesOf(events), Aged(events, a))

\* No event was recorded longer after its stamp than MaxLag.
Lagging(events) ==
    \A i, j \in DOMAIN events : i < j => events[j].age <= events[i].age + MaxLag

LEMMA EventTypes ==
    ASSUME NEW events \in Seq(Events)
    PROVE  /\ Len(events) \in Nat /\ DOMAIN events = 1..Len(events) /\ IsFiniteSet(DOMAIN events)
           /\ \A i \in DOMAIN events : /\ events[i] \in Events /\ events[i].value \in Int
                                       /\ events[i].value \in Nat /\ events[i].age \in Nat
                                       /\ ValuesOf(events)[i] = events[i].value
                                       /\ ValuesOf(events)[i] \in Int
<1>1. Len(events) \in Nat /\ DOMAIN events = 1..Len(events)
  BY LenProperties
<1>2. \A i \in DOMAIN events : events[i] \in Events
  BY <1>1, ElementOfSeq
<1>3. IsFiniteSet(1..Len(events))
  BY <1>1, FS_Interval
<1>4. Oldest \in Nat
  BY TimesAssumption DEF Oldest
<1>5. ASSUME NEW e \in Events PROVE e.value \in Int /\ e.value \in Nat /\ e.age \in Nat
  <2>1. e.value \in Values /\ e.age \in 0..Oldest
    BY DEF Events
  <2>2. e.value \in Nat \ {0}
    BY <2>1, ValuesAssumption, Zenon
  <2>3. e.age \in Nat
    BY <1>4, <2>1
  <2> QED
    BY <2>2, <2>3
<1>6. \A i \in DOMAIN events : ValuesOf(events)[i] = events[i].value
  BY DEF ValuesOf
<1> HIDE DEF Events, ValuesOf
<1> QED
  BY <1>1, <1>2, <1>3, <1>5, <1>6

\* An event is appended.
LEMMA AppendEvent ==
    ASSUME NEW events \in Seq(Events), Lagging(events), NEW e \in Events, e.age <= MaxLag
    PROVE  LET grown == Append(events, e)
           IN  /\ grown \in Seq(Events) /\ Lagging(grown)
               /\ DOMAIN grown = DOMAIN events \cup {Len(events) + 1}
               /\ grown[Len(events) + 1] = e /\ \A i \in DOMAIN events : grown[i] = events[i]
               /\ \A a \in Nat : ValueAged(grown, a)
                                  = ValueAged(events, a) + IF e.age = a THEN e.value ELSE 0
<1> DEFINE grown == Append(events, e)
           n == Len(events)
<1>1. /\ n \in Nat /\ DOMAIN events = 1..n
      /\ \A i \in DOMAIN events : events[i].age \in Nat /\ events[i].value \in Int
  BY EventTypes
<1>2. grown \in Seq(Events) /\ Len(grown) = n + 1 /\ grown[n + 1] = e
      /\ \A i \in 1..n : grown[i] = events[i]
  BY <1>1, AppendProperties
<1>3. DOMAIN grown = 1..(n + 1)
  BY <1>2, LenProperties
<1> HIDE DEF grown, n
<1>4. DOMAIN grown = DOMAIN events \cup {n + 1} /\ n + 1 \notin DOMAIN events
  BY <1>1, <1>3
<1>5. Lagging(grown)
  <2> SUFFICES ASSUME NEW i \in DOMAIN grown, NEW j \in DOMAIN grown, i < j
               PROVE  grown[j].age <= grown[i].age + MaxLag
    BY DEF Lagging
  <2>1. i \in DOMAIN events /\ grown[i] = events[i]
    BY <1>1, <1>2, <1>3
  <2>2. CASE j \in DOMAIN events
    BY <1>1, <1>2, <2>1, <2>2 DEF Lagging
  <2>3. CASE j = n + 1
    <3>1. grown[j] = e /\ events[i].age \in Nat
      BY <1>1, <1>2, <2>1, <2>3
    <3>2. e.age \in Int
      BY TimesAssumption DEF Events, Oldest
    <3> QED
      BY <2>1, <3>1, <3>2, TimesAssumption
  <2> QED
    BY <1>4, <2>2, <2>3
<1>6. ASSUME NEW a \in Nat
      PROVE  ValueAged(grown, a) = ValueAged(events, a) + IF e.age = a THEN e.value ELSE 0
  <2>1. \A i \in DOMAIN events : grown[i] = events[i]
    BY <1>1, <1>2
  <2>2. IsFiniteSet(DOMAIN grown) /\ \A i \in DOMAIN grown : ValuesOf(grown)[i] \in Int
    BY <1>2, EventTypes
  <2>3. Aged(events, a) \subseteq DOMAIN events /\ IsFiniteSet(Aged(events, a))
    BY EventTypes, FS_Subset DEF Aged
  <2>4. Sum(ValuesOf(grown), Aged(events, a)) = ValueAged(events, a)
    <3>1. \A i \in Aged(events, a) : /\ ValuesOf(grown)[i] = ValuesOf(events)[i]
                                    /\ ValuesOf(events)[i] \in Int
      BY <1>1, <1>4, <2>1, <2>3 DEF ValuesOf
    <3> QED
      BY <2>3, <3>1, SumAgrees DEF ValueAged
  <2>5. CASE e.age = a
    <3>1. Aged(grown, a) = Aged(events, a) \cup {n + 1}
      BY <1>2, <1>4, <2>1, <2>5 DEF Aged
    <3>2. IsFiniteSet(Aged(grown, a)) /\ \A i \in Aged(grown, a) : ValuesOf(grown)[i] \in Int
      BY <2>2, FS_Subset DEF Aged
    <3>3. Aged(grown, a) \ {n + 1} = Aged(events, a) /\ n + 1 \in Aged(grown, a)
      BY <1>4, <2>3, <3>1
    <3>4. Sum(ValuesOf(grown), Aged(grown, a))
             = Sum(ValuesOf(grown), Aged(grown, a) \ {n + 1}) + ValuesOf(grown)[n + 1]
      BY <3>2, <3>3, SumAdds
    <3>5. ValuesOf(grown)[n + 1] = e.value
      BY <1>2, <1>4 DEF ValuesOf
    <3> QED
      BY <2>4, <2>5, <3>3, <3>4, <3>5 DEF ValueAged
  <2>6. CASE e.age # a
    <3>1. Aged(grown, a) = Aged(events, a)
      BY <1>2, <1>4, <2>1, <2>6 DEF Aged
    <3>2. ValueAged(events, a) \in Int
      BY <2>2, <2>3, <2>4, <1>4, SumEquation
    <3> QED
      BY <2>4, <2>6, <3>1, <3>2 DEF ValueAged
  <2> QED
    BY <2>5, <2>6
<1> QED
  BY <1>2, <1>4, <1>5, <1>6, <1>1 DEF grown, n

\* _evict_old() on one deque, at a limit of age.
Younger(events, limit) == {i \in DOMAIN events : events[i].age <= limit}
Kept(events, limit) ==
    IF Younger(events, limit) = {} THEN <<>>
    ELSE SubSeq(events, Min(Younger(events, limit)), Len(events))

\* Events of a set of numbers have a first one.
LEMMA SmallestOf ==
    ASSUME NEW T, T \subseteq Nat, T # {}
    PROVE  Min(T) \in T /\ \A n \in T : Min(T) <= n
<1> DEFINE Less == OpToRel(<, Nat)
<1>1. IsWellFoundedOn(Less, Nat)
  BY Zenon, NatLessThanWellFounded
<1>2. \A i, j \in Nat : j < i => <<j, i>> \in Less
  BY DEF OpToRel
<1> HIDE DEF Less
<1>3. \E n \in T : \A m \in T : ~(<<m, n>> \in Less)
  BY <1>1, WFMin
<1>4. \E n \in T : \A m \in T : n <= m
  <2>1. PICK n \in T : \A m \in T : ~(<<m, n>> \in Less)
    BY <1>3
  <2>2. \A m \in T : ~(m < n) /\ m \in Nat /\ n \in Nat
    BY <1>2, <2>1
  <2>3. \A m \in T : n <= m
    BY <2>2
  <2> QED
    BY <2>3
<1> QED
  BY <1>4, Zenon DEF Min

\* What is evicted are the first events, all beyond the limit; the first that is
\* kept is not.
LEMMA KeptFrom ==
    ASSUME NEW events \in Seq(Events), NEW limit \in Nat
    PROVE  \E k \in Nat :
              /\ k <= Len(events) /\ Kept(events, limit) \in Seq(Events)
              /\ Len(Kept(events, limit)) = Len(events) - k
              /\ \A j \in 1..(Len(events) - k) : Kept(events, limit)[j] = events[j + k]
              /\ \A i \in 1..k : ~(events[i].age <= limit)
              /\ k < Len(events) => events[k + 1].age <= limit
<1> DEFINE n == Len(events)
           young == Younger(events, limit)
           kept == Kept(events, limit)
<1>1. n \in Nat /\ DOMAIN events = 1..n
  BY LenProperties
<1>2. CASE young = {}
  <2>1. kept = << >> /\ \A i \in 1..n : ~(events[i].age <= limit)
    BY <1>1, <1>2 DEF Kept, Younger
  <2>2. << >> \in Seq(Events) /\ Len(<< >>) = 0
    OBVIOUS
  <2>3. /\ n <= n /\ kept \in Seq(Events) /\ Len(kept) = n - n
        /\ \A j \in 1..(n - n) : kept[j] = events[j + n]
        /\ \A i \in 1..n : ~(events[i].age <= limit)
        /\ n < n => events[n + 1].age <= limit
    <3> HIDE DEF n, young, kept
    <3> QED
      BY <1>1, <2>1, <2>2
  <2> HIDE DEF n, kept
  <2> QED
    BY <1>1, <2>3 DEF n, kept
<1>3. CASE young # {}
  <2>1. young \subseteq Nat
    BY <1>1 DEF Younger
  <2>2. Min(young) \in young /\ \A i \in young : Min(young) <= i
    BY <1>3, <2>1, SmallestOf
  <2> DEFINE m == Min(young)
             k == m - 1
  <2>3. kept = SubSeq(events, m, n)
    BY <1>3 DEF Kept
  <2>4. m \in 1..n /\ events[m].age <= limit
    BY <1>1, <2>2 DEF Younger
  <2>5. \A i \in 1..n : i < m => ~(events[i].age <= limit)
    <3> SUFFICES ASSUME NEW i \in 1..n, i < m, events[i].age <= limit PROVE FALSE
      OBVIOUS
    <3>1. i \in young
      BY <1>1 DEF Younger
    <3> QED
      BY <2>2, <2>4, <3>1
  <2> HIDE DEF m, kept, n, young
  <2>6. /\ kept \in Seq(Events) /\ Len(kept) = n - m + 1
        /\ \A j \in 1..(n - m + 1) : kept[j] = events[m + j - 1]
    BY <1>1, <2>3, <2>4, SubSeqProperties DEF n
  <2>7. k \in Nat /\ k <= n /\ n - k = n - m + 1 /\ k + 1 = m
    BY <1>1, <2>4
  <2>8. \A j \in 1..(n - k) : m + j - 1 = j + k
    BY <1>1, <2>4
  <2>9. \A i \in 1..k : ~(events[i].age <= limit)
    BY <1>1, <2>4, <2>5
  <2> HIDE DEF k
  <2>10. /\ k <= n /\ kept \in Seq(Events) /\ Len(kept) = n - k
         /\ \A j \in 1..(n - k) : kept[j] = events[j + k]
         /\ \A i \in 1..k : ~(events[i].age <= limit)
         /\ k < n => events[k + 1].age <= limit
    BY <2>4, <2>6, <2>7, <2>8, <2>9
  <2> QED
    BY <2>7, <2>10 DEF n, kept
<1> QED
  BY <1>2, <1>3

\* So what is kept stays in the order of the deque, none of it is much older than
\* the limit, and what is as young as the limit is kept.
LEMMA KeepsYoung ==
    ASSUME NEW events \in Seq(Events), Lagging(events), NEW limit \in Nat
    PROVE  LET kept == Kept(events, limit)
           IN  /\ kept \in Seq(Events) /\ Lagging(kept)
               /\ \A i \in DOMAIN kept : kept[i].age <= limit + MaxLag
               /\ \A i \in DOMAIN kept : \E j \in DOMAIN events : kept[i] = events[j]
               /\ \A a \in 0..limit : ValueAged(kept, a) = ValueAged(events, a)
<1> DEFINE n == Len(events)
           kept == Kept(events, limit)
<1>1. PICK k \in Nat :
              /\ k <= n /\ kept \in Seq(Events) /\ Len(kept) = n - k
              /\ \A j \in 1..(n - k) : kept[j] = events[j + k]
              /\ \A i \in 1..k : ~(events[i].age <= limit)
              /\ k < n => events[k + 1].age <= limit
  BY KeptFrom
<1>2. /\ n \in Nat /\ DOMAIN events = 1..n
      /\ \A i \in DOMAIN events : events[i].age \in Nat
      /\ IsFiniteSet(DOMAIN events) /\ \A i \in DOMAIN events : ValuesOf(events)[i] \in Int
  BY EventTypes
<1>3. DOMAIN kept = 1..(n - k)
  BY <1>1, LenProperties
<1> HIDE DEF n, kept
<1>4. \A i \in DOMAIN kept : i \in Nat /\ i + k \in DOMAIN events /\ kept[i] = events[i + k]
  BY <1>1, <1>2, <1>3
<1>5. Lagging(kept)
  <2> SUFFICES ASSUME NEW i \in DOMAIN kept, NEW j \in DOMAIN kept, i < j
               PROVE  kept[j].age <= kept[i].age + MaxLag
    BY DEF Lagging
  <2>1. i + k < j + k
    BY <1>1, <1>4
  <2> QED
    BY <1>4, <2>1 DEF Lagging
<1>6. ASSUME NEW i \in DOMAIN kept PROVE kept[i].age <= limit + MaxLag
  <2>1. k < n /\ 1 \in DOMAIN kept /\ i \in 1..(n - k)
    BY <1>1, <1>2, <1>3
  <2>2. kept[1].age <= limit /\ kept[1].age \in Nat /\ kept[i].age \in Nat
    <3>1. 1 + k = k + 1
      OBVIOUS
    <3>2. kept[1] = events[k + 1]
      BY <1>4, <2>1, <3>1
    <3>3. \A j \in DOMAIN kept : kept[j].age \in Nat
      BY <1>2, <1>4
    <3> QED
      BY <1>1, <2>1, <3>2, <3>3
  <2>3. i = 1 \/ 1 < i
    BY <2>1
  <2>4. kept[i].age <= kept[1].age + MaxLag
    BY <1>5, <2>1, <2>2, <2>3, TimesAssumption DEF Lagging
  <2> QED
    BY <2>2, <2>4, TimesAssumption
<1>7. ASSUME NEW a \in 0..limit PROVE ValueAged(kept, a) = ValueAged(events, a)
  <2> DEFINE E == Aged(events, a)
  <2>1. E \in SUBSET Int /\ IsFiniteSet(E) /\ E \subseteq DOMAIN events
    BY <1>2, FS_Subset DEF Aged
  <2>2. ASSUME NEW i \in E PROVE i - k \in DOMAIN kept /\ kept[i - k] = events[i] /\ i = (i - k) + k
    <3>1. i \in 1..n /\ events[i].age = a
      BY <1>2 DEF Aged
    <3>2. ~(i \in 1..k)
      BY <1>1, <3>1
    <3>3. i - k \in 1..(n - k) /\ (i - k) + k = i
      BY <1>1, <1>2, <3>1, <3>2
    <3> QED
      BY <1>3, <1>4, <3>3
  <2>3. ASSUME NEW j \in Aged(kept, a) PROVE j + k \in E /\ j \in Int
    BY <1>1, <1>4 DEF Aged
  <2>4. ASSUME NEW i \in E PROVE i - k \in Aged(kept, a)
    BY <2>2 DEF Aged
  <2> DEFINE f == ValuesOf(events)
             g == ValuesOf(kept)
  <2>5. \A i \in E : f[i] \in Int /\ g[i - k] = f[i]
    BY <1>2, <2>1, <2>2 DEF ValuesOf
  <2> DEFINE M == Aged(kept, a)
  <2> HIDE DEF E, f, g
  <2>6. Shifted(g, M, f, E, k)
    BY <1>1, <2>1, <2>3, <2>4, <2>5 DEF Shifted
  <2> HIDE DEF M
  <2>7. Sum(g, M) = Sum(f, E)
    BY <2>6, SumShifted
  <2> QED
    BY <2>7 DEF ValueAged, f, g, E, M
<1>8. \A i \in DOMAIN kept : \E j \in DOMAIN events : kept[i] = events[j]
  BY <1>4
<1> QED
  BY <1>1, <1>5, <1>6, <1>7, <1>8 DEF kept

\* A unit of time passes.
LEMMA EventsAge ==
    ASSUME NEW events \in Seq(Events), Lagging(events)
    PROVE  LET older == [i \in DOMAIN events |-> [events[i] EXCEPT !.age = Older(@)]]
           IN  /\ older \in Seq(Events) /\ Lagging(older) /\ DOMAIN older = DOMAIN events
               /\ \A i \in DOMAIN events : older[i].age = Older(events[i].age)
               /\ \A a \in 0..Window : ValueAged(older, a)
                                       = IF a = 0 THEN 0 ELSE ValueAged(events, a - 1)
<1> DEFINE older == [i \in DOMAIN events |-> [events[i] EXCEPT !.age = Older(@)]]
<1>1. /\ Len(events) \in Nat /\ DOMAIN events = 1..Len(events) /\ IsFiniteSet(DOMAIN events)
      /\ \A i \in DOMAIN events : events[i] \in Events /\ ValuesOf(events)[i] \in Int
  BY EventTypes
<1>2. Oldest \in Nat /\ Window < Oldest /\ Window \in Nat
  BY TimesAssumption DEF Oldest
<1>3. ASSUME NEW i \in DOMAIN events
      PROVE  /\ older[i] \in Events /\ older[i].age = Older(events[i].age)
             /\ older[i].value = events[i].value /\ events[i].age \in 0..Oldest
  <2>1. events[i] \in [value : Values, age : 0..Oldest]
    BY <1>1 DEF Events
  <2>2. Older(events[i].age) \in 0..Oldest
    BY <1>2, <2>1 DEF Older
  <2> QED
    BY <2>1, <2>2 DEF Events
<1>4. DOMAIN older = DOMAIN events /\ older \in Seq(Events)
  <2>1. older \in [1..Len(events) -> Events]
    BY <1>1, <1>3
  <2> HIDE DEF older
  <2> QED
    BY <1>1, <2>1
<1>5. \A i \in DOMAIN events : ValuesOf(older)[i] = ValuesOf(events)[i]
  <2> HIDE DEF older
  <2> QED
    BY <1>3, <1>4 DEF ValuesOf
<1> HIDE DEF older
<1>6. Lagging(older)
  <2> SUFFICES ASSUME NEW i \in DOMAIN events, NEW j \in DOMAIN events, i < j
               PROVE  older[j].age <= older[i].age + MaxLag
    BY <1>4 DEF Lagging
  <2>1. events[j].age <= events[i].age + MaxLag
    BY DEF Lagging
  <2>2. \A x, y \in 0..Oldest : y <= x + MaxLag => Older(y) <= Older(x) + MaxLag
    BY <1>2, TimesAssumption DEF Older
  <2>3. /\ older[i].age = Older(events[i].age) /\ events[i].age \in 0..Oldest
        /\ older[j].age = Older(events[j].age) /\ events[j].age \in 0..Oldest
    BY <1>3
  <2> HIDE DEF Older
  <2> QED
    BY <2>1, <2>2, <2>3
<1>7. ASSUME NEW a \in 0..Window
      PROVE  ValueAged(older, a) = IF a = 0 THEN 0 ELSE ValueAged(events, a - 1)
  <2>1. CASE a = 0
    <3>1. Aged(older, a) = {}
      BY <1>2, <1>3, <1>4, <2>1 DEF Aged, Older
    <3>2. Sum(ValuesOf(older), {}) = 0
      BY FS_EmptySet, SumEquation
    <3> QED
      BY <2>1, <3>1, <3>2 DEF ValueAged
  <2>2. CASE a # 0
    <3>1. Aged(older, a) = Aged(events, a - 1)
      BY <1>2, <1>3, <1>4, <2>2 DEF Aged, Older
    <3>2. IsFiniteSet(Aged(events, a - 1)) /\ Aged(events, a - 1) \subseteq DOMAIN events
      BY <1>1, FS_Subset DEF Aged
    <3>3. Sum(ValuesOf(older), Aged(events, a - 1)) = Sum(ValuesOf(events), Aged(events, a - 1))
      BY <1>1, <1>5, <3>2, SumAgrees
    <3> QED
      BY <2>2, <3>1, <3>3 DEF ValueAged
  <2> QED
    BY <2>1, <2>2
<1> QED
  BY <1>3, <1>4, <1>6, <1>7 DEF older

\* The types of the tracker, the order of its deques, and what each age holds.
Records == [kind : Kinds, value : Values, age : 0..MaxLag]
WindowTypeOK ==
    /\ deque \in [Kinds -> Seq(Events)]
    /\ recorder \in [Threads -> {Nobody} \cup Records]
    /\ freshest \in 0..Oldest
    /\ recent \in [Kinds -> [0..Window -> Nat]]
WindowInv ==
    /\ WindowTypeOK /\ NothingLingers
    /\ \A k \in Kinds : /\ Lagging(deque[k])
                        /\ \A a \in 0..Window : ValueAged(deque[k], a) = recent[k][a]

\* Empty deques.
LEMMA EmptyDeques ==
    /\ << >> \in Seq(Events) /\ DOMAIN << >> = {} /\ Lagging(<< >>)
    /\ \A a \in 0..Window : ValueAged(<< >>, a) = 0
    /\ Nothing \in [Kinds -> [0..Window -> Nat]] /\ Oldest \in Nat
    /\ \A k \in Kinds : \A a \in 0..Window : Nothing[k][a] = 0
<1>1. << >> \in Seq(Events) /\ DOMAIN << >> = {}
  OBVIOUS
<1>2. ASSUME NEW a \in 0..Window PROVE ValueAged(<< >>, a) = 0
  <2>1. Aged(<< >>, a) = {}
    BY <1>1 DEF Aged
  <2>2. Sum(ValuesOf(<< >>), {}) = 0
    BY FS_EmptySet, SumEquation
  <2> QED
    BY <2>1, <2>2 DEF ValueAged
<1>3. Lagging(<< >>)
  BY <1>1 DEF Lagging
<1>4. Nothing \in [Kinds -> [0..Window -> Nat]] /\ \A k \in Kinds : \A a \in 0..Window : Nothing[k][a] = 0
  BY DEF Nothing
<1>5. Oldest \in Nat
  BY TimesAssumption DEF Oldest
<1> QED
  BY <1>1, <1>2, <1>3, <1>4, <1>5

LEMMA InitWindow == ReportInit => WindowInv
<1> SUFFICES ASSUME ReportInit PROVE WindowInv
  OBVIOUS
<1>1. /\ deque = [k \in Kinds |-> <<>>] /\ recent = Nothing /\ freshest = Oldest
      /\ recorder = [t \in Threads |-> Nobody]
  BY DEF ReportInit
<1>2. \A k \in Kinds : deque[k] = << >>
  BY <1>1
<1>3. WindowTypeOK
  BY <1>1, EmptyDeques DEF WindowTypeOK
<1>4. NothingLingers
  BY <1>2, EmptyDeques DEF NothingLingers
<1>5. \A k \in Kinds : /\ Lagging(deque[k])
                      /\ \A a \in 0..Window : ValueAged(deque[k], a) = recent[k][a]
  BY <1>1, <1>2, EmptyDeques
<1> QED
  BY <1>3, <1>4, <1>5 DEF WindowInv

LEMMA StepReset == WindowInv /\ Reset => WindowInv'
<1> SUFFICES ASSUME WindowInv, Reset PROVE WindowInv'
  OBVIOUS
<1>1. /\ deque' = [k \in Kinds |-> <<>>] /\ recent' = Nothing /\ freshest' = Oldest
      /\ recorder' = recorder
  BY DEF Reset, Cleared
<1>2. \A k \in Kinds : deque'[k] = << >>
  BY <1>1
<1>3. WindowTypeOK'
  BY <1>1, EmptyDeques DEF WindowInv, WindowTypeOK
<1>4. NothingLingers'
  BY <1>2, EmptyDeques DEF NothingLingers
<1>5. \A k \in Kinds : /\ Lagging(deque'[k])
                      /\ \A a \in 0..Window : ValueAged(deque'[k], a) = recent'[k][a]
  BY <1>1, <1>2, EmptyDeques
<1> QED
  BY <1>3, <1>4, <1>5 DEF WindowInv

\* A recorded event reaches its deque, and old ones leave both.
LEMMA StepRecord ==
    ASSUME WindowInv, NEW t \in Threads, Record(t)
    PROVE  WindowInv'
<1> DEFINE r == recorder[t]
           event == [value |-> r.value, age |-> r.age]
           grown == [deque EXCEPT ![r.kind] = Append(@, event)]
           limit == r.age + 2 * Window
           more(k, a) == IF k = r.kind /\ r.age = a THEN r.value ELSE 0
<1>1. /\ deque' = Evicted(grown, r.kind, r.age) /\ recorder' = [recorder EXCEPT ![t] = Nobody]
      /\ recent' = IF r.age > Window THEN recent
                   ELSE [recent EXCEPT ![r.kind][r.age] = @ + r.value]
      /\ freshest' = Min({freshest, r.age}) /\ r # Nobody
  BY DEF Record
<1>2. WindowTypeOK /\ \A k \in Kinds : Lagging(deque[k])
  BY DEF WindowInv
<1>3. r.kind \in Kinds /\ r.value \in Values /\ r.age \in 0..MaxLag
  BY <1>1, <1>2 DEF WindowTypeOK, Records
<1>4. Window \in Nat /\ MaxLag \in Nat /\ Oldest \in Nat /\ MaxLag <= Oldest
  BY TimesAssumption DEF Oldest
<1>5. r.value \in Nat
  BY <1>3, ValuesAssumption
<1>6. event \in Events /\ event.age = r.age /\ event.value = r.value
  BY <1>3, <1>4 DEF Events
<1>7. limit \in Nat /\ Window <= limit
  BY <1>3, <1>4
<1>8. \A k \in Kinds : deque'[k] = Kept(grown[k], limit)
  BY <1>1 DEF Evicted, Kept, Younger
<1>9. \A k \in Kinds : deque[k] \in Seq(Events) /\ Lagging(deque[k])
  BY <1>2 DEF WindowTypeOK
<1>10. deque \in [Kinds -> Seq(Events)] /\ recent \in [Kinds -> [0..Window -> Nat]]
       /\ freshest \in 0..Oldest
  BY <1>2 DEF WindowTypeOK
<1>11. \A k \in Kinds : grown[k] = IF k = r.kind THEN Append(deque[k], event) ELSE deque[k]
  BY <1>3, <1>10
<1> HIDE DEF event, grown, limit, r, more
<1>12. ASSUME NEW k \in Kinds
       PROVE  /\ grown[k] \in Seq(Events) /\ Lagging(grown[k])
              /\ \A i \in DOMAIN grown[k] : \/ grown[k][i] = event
                                            \/ i \in DOMAIN deque[k] /\ grown[k][i] = deque[k][i]
              /\ \A a \in 0..Window : ValueAged(grown[k], a) = recent[k][a] + more(k, a)
  <2>1. \A a \in 0..Window : ValueAged(deque[k], a) = recent[k][a] /\ recent[k][a] \in Nat
    BY <1>10 DEF WindowInv
  <2>2. CASE k = r.kind
    <3> DEFINE app == Append(deque[k], event)
    <3>1. /\ app \in Seq(Events) /\ Lagging(app)
          /\ DOMAIN app = DOMAIN deque[k] \cup {Len(deque[k]) + 1}
          /\ app[Len(deque[k]) + 1] = event /\ \A i \in DOMAIN deque[k] : app[i] = deque[k][i]
          /\ \A a \in Nat : ValueAged(app, a)
                             = ValueAged(deque[k], a) + IF event.age = a THEN event.value ELSE 0
      BY <1>3, <1>4, <1>6, <1>9, AppendEvent
    <3>2. grown[k] = app
      BY <1>11, <2>2
    <3> HIDE DEF app
    <3> QED
      BY <1>4, <1>6, <2>1, <2>2, <3>1, <3>2 DEF more
  <2>3. CASE k # r.kind
    <3>1. grown[k] = deque[k]
      BY <1>11, <2>3
    <3> QED
      BY <1>9, <2>1, <2>3, <3>1 DEF more
  <2> QED
    BY <2>2, <2>3
<1>13. ASSUME NEW k \in Kinds
       PROVE  /\ deque'[k] \in Seq(Events) /\ Lagging(deque'[k])
              /\ \A i \in DOMAIN deque'[k] : deque'[k][i].age <= limit + MaxLag
              /\ \A i \in DOMAIN deque'[k] : \E j \in DOMAIN grown[k] : deque'[k][i] = grown[k][j]
              /\ \A a \in 0..limit : ValueAged(deque'[k], a) = ValueAged(grown[k], a)
  <2> DEFINE kept == Kept(grown[k], limit)
  <2>1. /\ kept \in Seq(Events) /\ Lagging(kept)
        /\ \A i \in DOMAIN kept : kept[i].age <= limit + MaxLag
        /\ \A i \in DOMAIN kept : \E j \in DOMAIN grown[k] : kept[i] = grown[k][j]
        /\ \A a \in 0..limit : ValueAged(kept, a) = ValueAged(grown[k], a)
    BY <1>7, <1>12, KeepsYoung
  <2>2. deque'[k] = kept
    BY <1>8
  <2> HIDE DEF kept
  <2> QED
    BY <2>1, <2>2
<1>14. ASSUME NEW k \in Kinds, NEW a \in 0..Window
       PROVE  recent'[k][a] = recent[k][a] + more(k, a) /\ recent'[k][a] \in Nat
  <2>1. recent[k][a] \in Nat
    BY <1>10
  <2>2. CASE r.age > Window
    BY <1>1, <1>3, <1>4, <2>1, <2>2 DEF r, more
  <2>3. CASE ~(r.age > Window)
    <3>1. recent'[k][a] = IF k = r.kind /\ a = r.age THEN recent[k][a] + r.value ELSE recent[k][a]
      BY <1>1, <1>3, <1>10, <2>3 DEF r
    <3> QED
      BY <1>5, <2>1, <3>1 DEF more
  <2> QED
    BY <2>2, <2>3
<1>15. freshest' \in 0..Oldest /\ (freshest' = freshest \/ freshest' = r.age)
  <2>1. {freshest, r.age} \subseteq Nat
    BY <1>3, <1>4, <1>10
  <2>2. Min({freshest, r.age}) \in {freshest, r.age}
    BY <2>1, SmallestOf
  <2>3. r.age \in 0..Oldest
    BY <1>3, <1>4
  <2> QED
    BY <1>1, <1>10, <2>2, <2>3 DEF r
<1>16. WindowTypeOK'
  <2>1. deque' \in [Kinds -> Seq(Events)]
    BY <1>1, <1>13 DEF Evicted
  <2>2. recent' \in [Kinds -> [0..Window -> Nat]]
    <3>1. CASE r.age > Window
      BY <1>1, <1>10, <3>1 DEF r
    <3>2. CASE ~(r.age > Window)
      <4> DEFINE new == [recent[r.kind] EXCEPT ![r.age] = @ + r.value]
      <4>1. recent[r.kind] \in [0..Window -> Nat] /\ r.age \in 0..Window
        BY <1>3, <1>4, <1>10, <3>2
      <4>2. new \in [0..Window -> Nat]
        <5> DEFINE f == recent[r.kind]
                   n == f[r.age] + r.value
        <5>1. f \in [0..Window -> Nat] /\ new = [f EXCEPT ![r.age] = n]
          BY <4>1
        <5>2. f[r.age] \in Nat
          BY <4>1
        <5> HIDE DEF f
        <5>3. n \in Nat
          BY <1>5, <5>2
        <5> HIDE DEF n, new
        <5> QED
          BY <5>1, <5>3
      <4>3. recent' = [recent EXCEPT ![r.kind] = new]
        BY <1>1, <3>2 DEF r
      <4> HIDE DEF new
      <4> QED
        BY <1>3, <1>10, <4>2, <4>3
    <3> QED
      BY <3>1, <3>2
  <2>3. recorder' \in [Threads -> {Nobody} \cup Records]
    BY <1>1, <1>2 DEF WindowTypeOK
  <2> QED
    BY <1>15, <2>1, <2>2, <2>3 DEF WindowTypeOK
<1>17. NothingLingers'
  <2> SUFFICES ASSUME NEW k \in Kinds, NEW i \in DOMAIN deque'[k]
               PROVE  deque'[k][i].age <= freshest' + 2 * Window + MaxLag
    BY DEF NothingLingers
  <2>1. CASE freshest' = r.age
    BY <1>13, <2>1 DEF limit
  <2>2. CASE freshest' = freshest
    <3>1. PICK j \in DOMAIN grown[k] : deque'[k][i] = grown[k][j]
      BY <1>13
    <3>2. CASE grown[k][j] = event
      BY <1>3, <1>4, <1>6, <1>10, <2>2, <3>1, <3>2
    <3>3. CASE j \in DOMAIN deque[k] /\ grown[k][j] = deque[k][j]
      BY <2>2, <3>1, <3>3 DEF WindowInv, NothingLingers
    <3> QED
      BY <1>12, <3>2, <3>3
  <2> QED
    BY <1>15, <2>1, <2>2
<1>18. ASSUME NEW k \in Kinds, NEW a \in 0..Window PROVE ValueAged(deque'[k], a) = recent'[k][a]
  <2>1. a \in 0..limit
    BY <1>4, <1>7
  <2> QED
    BY <1>12, <1>13, <1>14, <2>1
<1> QED
  BY <1>13, <1>16, <1>17, <1>18 DEF WindowInv

LEMMA StepTick == WindowInv /\ Tick => WindowInv'
<1> SUFFICES ASSUME WindowInv, Tick PROVE WindowInv'
  OBVIOUS
<1>1. /\ deque' = [k \in Kinds |->
             [i \in DOMAIN deque[k] |-> [deque[k][i] EXCEPT !.age = Older(@)]]]
      /\ recent' = [k \in Kinds |-> [a \in 0..Window |-> IF a = 0 THEN 0 ELSE recent[k][a - 1]]]
      /\ freshest' = Older(freshest)
  BY DEF Tick
<1>2. /\ deque \in [Kinds -> Seq(Events)] /\ recent \in [Kinds -> [0..Window -> Nat]]
      /\ freshest \in 0..Oldest /\ recorder \in [Threads -> {Nobody} \cup Records]
  BY DEF WindowInv, WindowTypeOK
<1>3. Oldest \in Nat /\ Window \in Nat /\ MaxLag \in Nat
  BY TimesAssumption DEF Oldest
<1>4. ASSUME NEW k \in Kinds
      PROVE  /\ deque'[k] \in Seq(Events) /\ Lagging(deque'[k]) /\ DOMAIN deque'[k] = DOMAIN deque[k]
             /\ \A i \in DOMAIN deque[k] : deque'[k][i].age = Older(deque[k][i].age)
             /\ \A a \in 0..Window : ValueAged(deque'[k], a)
                                     = IF a = 0 THEN 0 ELSE ValueAged(deque[k], a - 1)
  <2> DEFINE events == deque[k]
             older == [i \in DOMAIN events |-> [events[i] EXCEPT !.age = Older(@)]]
  <2>1. events \in Seq(Events) /\ Lagging(events)
    BY <1>2 DEF WindowInv
  <2>2. deque'[k] = older
    BY <1>1
  <2>3. /\ older \in Seq(Events) /\ Lagging(older) /\ DOMAIN older = DOMAIN events
        /\ \A i \in DOMAIN events : older[i].age = Older(events[i].age)
        /\ \A a \in 0..Window : ValueAged(older, a) = IF a = 0 THEN 0 ELSE ValueAged(events, a - 1)
    <3> HIDE DEF events
    <3> QED
      BY <2>1, EventsAge
  <2> HIDE DEF older
  <2> QED
    BY <2>2, <2>3
<1>5. WindowTypeOK'
  <2>1. deque' \in [Kinds -> Seq(Events)]
    BY <1>1, <1>4
  <2>2. recent' \in [Kinds -> [0..Window -> Nat]]
    <3>1. ASSUME NEW k \in Kinds, NEW a \in 0..Window
          PROVE  (IF a = 0 THEN 0 ELSE recent[k][a - 1]) \in Nat
      <4>1. recent[k] \in [0..Window -> Nat]
        BY <1>2
      <4>2. a # 0 => a - 1 \in 0..Window
        BY <1>3
      <4> QED
        BY <4>1, <4>2
    <3> QED
      BY <1>1, <3>1
  <2>3. freshest' \in 0..Oldest
    BY <1>1, <1>2, <1>3 DEF Older
  <2>4. recorder' \in [Threads -> {Nobody} \cup Records]
    <3> SUFFICES ASSUME NEW t \in Threads PROVE recorder'[t] \in {Nobody} \cup Records
      BY DEF Tick
    <3>1. CASE recorder[t] = Nobody
      BY <3>1 DEF Tick
    <3>2. CASE recorder[t] # Nobody
      <4>1. recorder[t] \in Records /\ recorder[t].age < MaxLag
        BY <1>2, <3>2 DEF Tick
      <4>2. recorder'[t] = [recorder[t] EXCEPT !.age = @ + 1]
        BY <3>2 DEF Tick
      <4> QED
        BY <1>3, <4>1, <4>2 DEF Records
    <3> QED
      BY <3>1, <3>2
  <2> QED
    BY <2>1, <2>2, <2>3, <2>4 DEF WindowTypeOK
<1>6. NothingLingers'
  <2> SUFFICES ASSUME NEW k \in Kinds, NEW i \in DOMAIN deque'[k]
               PROVE  deque'[k][i].age <= freshest' + 2 * Window + MaxLag
    BY DEF NothingLingers
  <2>1. i \in DOMAIN deque[k] /\ deque'[k][i].age = Older(deque[k][i].age)
    BY <1>4
  <2>2. deque[k][i].age <= freshest + 2 * Window + MaxLag
    BY <2>1 DEF WindowInv, NothingLingers
  <2>3. deque[k][i].age \in Nat /\ deque[k][i].age \in 0..Oldest
    <3>1. deque[k] \in Seq(Events)
      BY <1>2
    <3>2. deque[k][i] \in Events
      BY <2>1, <3>1, EventTypes
    <3> QED
      BY <1>3, <3>2 DEF Events
  <2>4. \A x, y \in 0..Oldest : y <= x + 2 * Window + MaxLag => Older(y) <= Older(x) + 2 * Window + MaxLag
    BY <1>3 DEF Older
  <2> HIDE DEF Older
  <2> QED
    BY <1>1, <1>2, <2>1, <2>2, <2>3, <2>4
<1>7. ASSUME NEW k \in Kinds, NEW a \in 0..Window PROVE ValueAged(deque'[k], a) = recent'[k][a]
  <2>1. \A b \in 0..Window : ValueAged(deque[k], b) = recent[k][b]
    BY DEF WindowInv
  <2>2. recent'[k][a] = IF a = 0 THEN 0 ELSE recent[k][a - 1]
    BY <1>1
  <2>3. a # 0 => a - 1 \in 0..Window
    BY <1>3
  <2> QED
    BY <1>4, <2>1, <2>2, <2>3
<1> QED
  BY <1>4, <1>5, <1>6, <1>7 DEF WindowInv

LEMMA WindowKept == WindowInv /\ [ReportNext]_reportVars => WindowInv'
<1> SUFFICES ASSUME WindowInv, [ReportNext]_reportVars PROVE WindowInv'
  OBVIOUS
<1>1. ASSUME UNCHANGED <<deque, recent, freshest>>, recorder' \in [Threads -> {Nobody} \cup Records]
      PROVE  WindowInv'
  BY <1>1 DEF WindowInv, WindowTypeOK, NothingLingers, Lagging, ValueAged, Aged, ValuesOf
<1>2. recorder \in [Threads -> {Nobody} \cup Records]
  BY DEF WindowInv, WindowTypeOK
<1>3. ASSUME NEW t \in Threads, Stamp(t) PROVE WindowInv'
  <2>1. PICK k \in Kinds, v \in Values :
           recorder' = [recorder EXCEPT ![t] = [kind |-> k, value |-> v, age |-> 0]]
    BY <1>3 DEF Stamp
  <2>2. [kind |-> k, value |-> v, age |-> 0] \in Records
    BY TimesAssumption DEF Records
  <2>3. recorder' \in [Threads -> {Nobody} \cup Records]
    BY <1>2, <2>1, <2>2
  <2> QED
    BY <1>1, <1>3, <2>3 DEF Stamp
<1>4. ASSUME NEW t \in Threads, Record(t) PROVE WindowInv'
  BY <1>4, StepRecord
<1>5. CASE Reset
  BY <1>5, StepReset
<1>6. CASE ReadDelivered \/ ReadLost \/ SumDelivered \/ SumLost \/ Post
  BY <1>1, <1>2, <1>6 DEF ReadDelivered, ReadLost, SumDelivered, SumLost, Post, trackerVars
<1>7. CASE Tick
  BY <1>7, StepTick
<1>8. CASE UNCHANGED reportVars
  BY <1>1, <1>2, <1>8 DEF reportVars, trackerVars
<1> QED
  BY <1>3, <1>4, <1>5, <1>6, <1>7, <1>8 DEF ReportNext

\* The inductive invariant of the sliding windows: their types, the order of the
\* deques up to the longest delay, and for each age what was recorded at it.
THEOREM Windowed == ReportSpec => []WindowInv
<1> QED
  BY InitWindow, WindowKept, PTL DEF ReportSpec

\* No event of either deque outlives two windows by more than the longest delay
\* between a stamp and its record (_evict_old), for every window and any threads.
THEOREM OldEventsLeave == ReportSpec => []NothingLingers
<1>1. WindowInv => NothingLingers
  BY DEF WindowInv
<1> QED
  BY <1>1, Windowed, PTL

\* The ages of the window, one after the other, make up the rate.
UpTo(events, b) == {i \in DOMAIN events : events[i].age <= b}
LEMMA RateByAge ==
    ASSUME WindowInv, NEW k \in Kinds
    PROVE  Rate(k) = Sum(recent[k], 0..Window)
<1> DEFINE events == deque[k]
           old == recent[k]
           Same(b) == Sum(ValuesOf(events), UpTo(events, b)) = Sum(old, 0..b)
           T == {b \in Nat : b <= Window => Same(b)}
<1>1. /\ events \in Seq(Events) /\ old \in [0..Window -> Nat] /\ Window \in Nat
      /\ \A a \in 0..Window : ValueAged(events, a) = old[a]
  BY TimesAssumption DEF WindowInv, WindowTypeOK
<1> HIDE DEF events, old, Same
<1>2. /\ IsFiniteSet(DOMAIN events) /\ \A i \in DOMAIN events : ValuesOf(events)[i] \in Int
      /\ \A i \in DOMAIN events : events[i].age \in Nat
  BY <1>1, EventTypes
<1>3. Same(0)
  <2>1. UpTo(events, 0) = Aged(events, 0)
    BY <1>2 DEF Aged, UpTo
  <2>2. Sum(ValuesOf(events), Aged(events, 0)) = old[0]
    BY <1>1 DEF ValueAged
  <2>3. IsFiniteSet({0}) /\ IsFiniteSet({})
    BY FS_Singleton, FS_EmptySet
  <2>4. \A a \in {0} : old[a] \in Int
    BY <1>1
  <2>5. Sum(old, {0}) = Sum(old, {0} \ {0}) + old[0] /\ Sum(old, {}) = 0
    BY <2>3, <2>4, SumAdds
  <2>6. {0} \ {0} = {} /\ 0..0 = {0} /\ old[0] \in Int
    BY <2>4
  <2>7. Sum(old, 0..0) = old[0]
    BY <2>5, <2>6
  <2>8. Sum(ValuesOf(events), UpTo(events, 0)) = old[0]
    BY <2>1, <2>2, Zenon
  <2> QED
    BY <2>7, <2>8 DEF Same
<1>4. ASSUME NEW b \in Nat, b + 1 <= Window, Same(b) PROVE Same(b + 1)
  <2> DEFINE before == UpTo(events, b)
             now == Aged(events, b + 1)
             f == ValuesOf(events)
  <2>1. UpTo(events, b + 1) = before \cup now /\ before \cap now = {}
    BY <1>2 DEF Aged, UpTo
  <2>2. IsFiniteSet(before) /\ IsFiniteSet(now)
    BY <1>2, FS_Subset DEF Aged, UpTo
  <2>3. \A i \in before \cup now : f[i] \in Int
    BY <1>2 DEF Aged, UpTo
  <2>4. b + 1 \in 0..Window
    BY <1>1, <1>4
  <2>5. Sum(f, now) = old[b + 1]
    BY <1>1, <2>4 DEF ValueAged
  <2> HIDE DEF before, now, f
  <2>6. Sum(f, before \cup now) = Sum(f, before) + Sum(f, now)
    BY <2>1, <2>2, <2>3, SumApart
  <2>7. \A a \in 0..(b + 1) : old[a] \in Int
    BY <1>1, <1>4
  <2>8. IsFiniteSet(0..(b + 1)) /\ b + 1 \in 0..(b + 1) /\ (0..(b + 1)) \ {b + 1} = 0..b
    <3>1. IsFiniteSet(0..(b + 1))
      BY FS_Interval
    <3>2. b + 1 \in 0..(b + 1) /\ \A n \in 0..(b + 1) : n = b + 1 \/ n \in 0..b
      OBVIOUS
    <3>3. \A n \in 0..b : n \in 0..(b + 1) /\ n # b + 1
      OBVIOUS
    <3> QED
      BY <3>1, <3>2, <3>3
  <2>9. Sum(old, 0..(b + 1)) = Sum(old, (0..(b + 1)) \ {b + 1}) + old[b + 1]
    BY <2>7, <2>8, SumAdds
  <2>10. Sum(old, 0..(b + 1)) = Sum(old, 0..b) + old[b + 1]
    BY <2>8, <2>9, Zenon
  <2>11. Sum(f, UpTo(events, b + 1)) = Sum(f, before) + Sum(f, now)
    BY <2>1, <2>6, Zenon
  <2>12. Sum(f, before) = Sum(old, 0..b)
    BY <1>4 DEF Same, before, f
  <2>13. Sum(f, UpTo(events, b + 1)) = Sum(old, 0..(b + 1))
    BY <2>5, <2>10, <2>11, <2>12, Zenon
  <2> QED
    BY <2>13 DEF Same, f
<1>5. T = Nat
  <2>1. T \subseteq Nat /\ 0 \in T
    BY <1>3
  <2>2. ASSUME NEW b \in T PROVE b + 1 \in T
    <3>1. b \in Nat /\ (b + 1 <= Window => b <= Window)
      BY <1>1
    <3> QED
      BY <1>4, <3>1
  <2> HIDE DEF T
  <2> QED
    BY <2>1, <2>2, Counting
<1>6. Same(Window)
  BY <1>1, <1>5
<1> QED
  BY <1>6 DEF Rate, InWindow, UpTo, Same, events, old

\* A rate is what was recorded in the last window, to the unit, in whatever order
\* threads record their stamps and wherever eviction stopped (_rate, 705-712).
THEOREM RatesExact == ReportSpec => []RateIsExact
<1>1. WindowInv => RateIsExact
  BY RateByAge DEF RateIsExact
<1> QED
  BY <1>1, Windowed, PTL

-----------------------------------------------------------------------------
(* The report and the summary of the fleet.                                 *)

\* Sums of natural numbers.
LEMMA SumNatural ==
    ASSUME NEW A, IsFiniteSet(A), NEW f, \A x \in A : f[x] \in Nat
    PROVE  Sum(f, A) \in Nat /\ \A x \in A : f[x] <= Sum(f, A)
<1> DEFINE Natural == {S \in SUBSET A : Sum(f, S) \in Nat}
<1>0. \A x \in A : f[x] \in Int
  OBVIOUS
<1>1. {} \in Natural
  BY <1>0, SumEquation
<1>2. ASSUME NEW S \in SUBSET A, S # {}, \A x \in S : S \ {x} \in Natural PROVE S \in Natural
  <2>1. PICK x \in S : TRUE
    BY <1>2
  <2>2. Sum(f, S) = Sum(f, S \ {x}) + f[x]
    BY <1>0, FS_Subset, SumAdds
  <2>3. Sum(f, S \ {x}) \in Nat /\ f[x] \in Nat
    BY <1>2
  <2>4. Sum(f, S) \in Nat
    BY <2>2, <2>3
  <2> QED
    BY <2>4
<1>3. SUBSET A \subseteq Natural
  <2> HIDE DEF Natural
  <2> QED
    BY <1>1, <1>2, SetInduction
<1>4. ASSUME NEW x \in A PROVE f[x] <= Sum(f, A)
  <2>1. Sum(f, A) = Sum(f, A \ {x}) + f[x]
    BY <1>0, SumAdds
  <2>2. Sum(f, A \ {x}) \in Nat /\ f[x] \in Nat
    BY <1>3
  <2> QED
    BY <2>1, <2>2
<1> QED
  BY <1>3, <1>4

\* Fractions are ordered.
LEMMA Transitive ==
    ASSUME NEW a \in Nat, NEW b \in Nat \ {0}, NEW c \in Nat, NEW d \in Nat \ {0},
           NEW e \in Nat, NEW f \in Nat \ {0}, a * d <= c * b, c * f <= e * d
    PROVE  a * f <= e * b
<1>1. \A x, y, z \in Nat : x <= y => x * z <= y * z
  OBVIOUS
<1>2. a * d \in Nat /\ c * b \in Nat /\ c * f \in Nat /\ e * d \in Nat /\ a * f \in Nat /\ e * b \in Nat
  OBVIOUS
<1>3. (a * d) * f <= (c * b) * f
  BY <1>1, <1>2
<1>4. (c * f) * b <= (e * d) * b
  BY <1>1, <1>2
<1>5. (a * d) * f = (a * f) * d /\ (c * b) * f = (c * f) * b /\ (e * d) * b = (e * b) * d
  OBVIOUS
<1>6. (a * f) * d <= (e * b) * d
  BY <1>2, <1>3, <1>4, <1>5
<1>7. \A x, y \in Nat : x * d <= y * d => x <= y
  OBVIOUS
<1> QED
  BY <1>2, <1>6, <1>7

\* Figures that fit together; of nodes with such figures one is best, one worst.
Sound(r) == r.d \in Nat /\ r.l \in Nat /\ r.eff = Share(r.d, r.l)
LEMMA ShareIsFraction ==
    ASSUME NEW r, Sound(r)
    PROVE  r.eff[1] \in Nat /\ r.eff[2] \in Nat \ {0} /\ r.eff # <<0, 0>>
BY DEF Sound, Share

LEMMA BestAndWorst ==
    ASSUME NEW R, IsFiniteSet(R), R # {}, NEW reports, \A n \in R : Sound(reports[n])
    PROVE  /\ \E n \in R : \A m \in R : Leq(reports[m].eff, reports[n].eff)
           /\ \E n \in R : \A m \in R : Leq(reports[n].eff, reports[m].eff)
<1> DEFINE Top(S) == \E n \in S : \A m \in S : Leq(reports[m].eff, reports[n].eff)
           Bottom(S) == \E n \in S : \A m \in S : Leq(reports[n].eff, reports[m].eff)
           Ranked == {S \in SUBSET R : S # {} => Top(S) /\ Bottom(S)}
<1>1. \A n \in R : reports[n].eff[1] \in Nat /\ reports[n].eff[2] \in Nat \ {0}
  BY ShareIsFraction
<1>2. \A n, m \in R : Leq(reports[n].eff, reports[m].eff) \/ Leq(reports[m].eff, reports[n].eff)
  BY <1>1 DEF Leq
<1>3. ASSUME NEW n \in R, NEW m \in R, NEW k \in R,
             Leq(reports[n].eff, reports[m].eff), Leq(reports[m].eff, reports[k].eff)
      PROVE  Leq(reports[n].eff, reports[k].eff)
  BY <1>1, <1>3, Transitive DEF Leq
<1>4. {} \in Ranked
  OBVIOUS
<1>5. ASSUME NEW S \in SUBSET R, S # {}, \A x \in S : S \ {x} \in Ranked PROVE S \in Ranked
  <2>1. PICK x \in S : TRUE
    BY <1>5
  <2>2. CASE S \ {x} = {}
    <3>1. \A m \in S : m = x
      BY <2>2
    <3> QED
      BY <1>2, <3>1
  <2>3. CASE S \ {x} # {}
    <3>1. Top(S \ {x}) /\ Bottom(S \ {x})
      BY <1>5, <2>3
    <3>2. PICK n \in S \ {x} : \A m \in S \ {x} : Leq(reports[m].eff, reports[n].eff)
      BY <3>1
    <3>3. PICK k \in S \ {x} : \A m \in S \ {x} : Leq(reports[k].eff, reports[m].eff)
      BY <3>1
    <3>4. Top(S)
      <4>1. CASE Leq(reports[x].eff, reports[n].eff)
        BY <3>2, <4>1
      <4>2. CASE ~Leq(reports[x].eff, reports[n].eff)
        <5>1. Leq(reports[n].eff, reports[x].eff) /\ Leq(reports[x].eff, reports[x].eff)
          BY <1>2, <4>2
        <5>2. \A m \in S : Leq(reports[m].eff, reports[x].eff)
          BY <1>3, <3>2, <5>1
        <5> QED
          BY <5>2
      <4> QED
        BY <4>1, <4>2
    <3>5. Bottom(S)
      <4>1. CASE Leq(reports[k].eff, reports[x].eff)
        BY <3>3, <4>1
      <4>2. CASE ~Leq(reports[k].eff, reports[x].eff)
        <5>1. Leq(reports[x].eff, reports[k].eff) /\ Leq(reports[x].eff, reports[x].eff)
          BY <1>2, <4>2
        <5>2. \A m \in S : Leq(reports[x].eff, reports[m].eff)
          BY <1>3, <3>3, <5>1
        <5> QED
          BY <5>2
      <4> QED
        BY <4>1, <4>2
    <3> HIDE DEF Top, Bottom
    <3> QED
      BY <3>4, <3>5
  <2> QED
    BY <2>2, <2>3
<1>6. SUBSET R \subseteq Ranked
  <2> HIDE DEF Ranked
  <2> QED
    BY <1>4, <1>5, SetInduction
<1> QED
  BY <1>6

\* A sum of fractions' numerators over that of their denominators is between any
\* bounds of the fractions.
LEMMA Mediant ==
    ASSUME NEW R, IsFiniteSet(R), NEW d, NEW l, \A n \in R : d[n] \in Nat /\ l[n] \in Nat,
           NEW p \in Nat, NEW q \in Nat
    PROVE  /\ (\A n \in R : d[n] * q <= p * (d[n] + l[n]))
              => Sum(d, R) * q <= p * (Sum(d, R) + Sum(l, R))
           /\ (\A n \in R : p * (d[n] + l[n]) <= d[n] * q)
              => p * (Sum(d, R) + Sum(l, R)) <= Sum(d, R) * q
<1> DEFINE Above(S) == (\A n \in R : d[n] * q <= p * (d[n] + l[n]))
                         => Sum(d, S) * q <= p * (Sum(d, S) + Sum(l, S))
           Below(S) == (\A n \in R : p * (d[n] + l[n]) <= d[n] * q)
                         => p * (Sum(d, S) + Sum(l, S)) <= Sum(d, S) * q
           Bounded == {S \in SUBSET R : Above(S) /\ Below(S)}
<1>0. \A x \in R : d[x] \in Int /\ l[x] \in Int
  OBVIOUS
<1>1. {} \in Bounded
  <2>1. Sum(d, {}) = 0 /\ Sum(l, {}) = 0
    BY <1>0, SumEquation
  <2> QED
    BY <2>1
<1>2. ASSUME NEW S \in SUBSET R, S # {}, \A x \in S : S \ {x} \in Bounded PROVE S \in Bounded
  <2>1. PICK x \in S : TRUE
    BY <1>2
  <2>2. IsFiniteSet(S)
    BY FS_Subset
  <2>3. Sum(d, S) = Sum(d, S \ {x}) + d[x] /\ Sum(l, S) = Sum(l, S \ {x}) + l[x]
    BY <1>0, <2>2, SumAdds
  <2>4. Sum(d, S \ {x}) \in Nat /\ Sum(l, S \ {x}) \in Nat /\ d[x] \in Nat /\ l[x] \in Nat
    <3>1. IsFiniteSet(S \ {x})
      BY <2>2, FS_Subset
    <3> QED
      BY <3>1, SumNatural
  <2>5. \A a, b, c, e \in Nat :
          /\ a * q <= p * (a + c) /\ b * q <= p * (b + e) => (a + b) * q <= p * ((a + b) + (c + e))
          /\ p * (a + c) <= a * q /\ p * (b + e) <= b * q => p * ((a + b) + (c + e)) <= (a + b) * q
    OBVIOUS
  <2>6. Above(S \ {x}) /\ Below(S \ {x})
    BY <1>2
  <2>7. Above(S)
    BY <2>3, <2>4, <2>5, <2>6
  <2>8. Below(S)
    BY <2>3, <2>4, <2>5, <2>6
  <2> HIDE DEF Above, Below
  <2> QED
    BY <2>7, <2>8
<1>3. SUBSET R \subseteq Bounded
  <2> HIDE DEF Bounded
  <2> QED
    BY <1>1, <1>2, SetInduction
<1> QED
  BY <1>3

\* The fleet's efficiency lies between those of its nodes.
LEMMA FleetBetween ==
    ASSUME NEW reports, IsFiniteSet(Reporting(reports)), Reporting(reports) # {},
           \A n \in Reporting(reports) : Sound(reports[n])
    PROVE  /\ Leq(reports[WorstNode(reports)].eff, FleetEfficiency(reports))
           /\ Leq(FleetEfficiency(reports), reports[BestNode(reports)].eff)
<1> DEFINE R == Reporting(reports)
           d == [n \in DOMAIN reports |-> reports[n].d]
           l == [n \in DOMAIN reports |-> reports[n].l]
           best == BestNode(reports)
           worst == WorstNode(reports)
<1>1. /\ best \in R /\ \A m \in R : Leq(reports[m].eff, reports[best].eff)
      /\ worst \in R /\ \A m \in R : Leq(reports[worst].eff, reports[m].eff)
  BY BestAndWorst DEF BestNode, WorstNode
<1>2. \A n \in R : /\ d[n] = reports[n].d /\ l[n] = reports[n].l /\ d[n] \in Nat /\ l[n] \in Nat
                  /\ reports[n].eff = Share(d[n], l[n]) /\ Sound(reports[n])
  BY DEF Reporting, Sound
<1>3. FleetEfficiency(reports) = FleetShare(Sum(d, R), Sum(l, R))
  BY DEF FleetEfficiency
<1> HIDE DEF R, d, l, best, worst
<1>4. IsFiniteSet(R)
  BY DEF R
<1>5. Sum(d, R) \in Nat /\ Sum(l, R) \in Nat /\ \A n \in R : d[n] <= Sum(d, R) /\ l[n] <= Sum(l, R)
  BY <1>2, <1>4, SumNatural
<1>6. ASSUME NEW b \in R PROVE reports[b].eff[1] \in Nat /\ reports[b].eff[2] \in Nat \ {0}
  BY <1>2, ShareIsFraction
<1>7. CASE Sum(d, R) + Sum(l, R) > 0
  <2>1. FleetEfficiency(reports) = <<Sum(d, R), Sum(d, R) + Sum(l, R)>>
    BY <1>3, <1>7 DEF FleetShare
  <2>2. Leq(FleetEfficiency(reports), reports[best].eff)
    <3> DEFINE p == reports[best].eff[1]
               q == reports[best].eff[2]
    <3>1. p \in Nat /\ q \in Nat
      BY <1>1, <1>6
    <3>2. ASSUME NEW n \in R PROVE d[n] * q <= p * (d[n] + l[n])
      <4>1. Leq(reports[n].eff, reports[best].eff)
        BY <1>1
      <4>2. CASE d[n] + l[n] > 0
        <5>1. reports[n].eff = <<d[n], d[n] + l[n]>>
          BY <1>2, <4>2 DEF Share
        <5> QED
          BY <4>1, <5>1 DEF Leq
      <4>3. CASE ~(d[n] + l[n] > 0)
        <5>1. d[n] = 0 /\ l[n] = 0
          BY <1>2, <4>3
        <5> QED
          BY <3>1, <5>1
      <4> QED
        BY <4>2, <4>3
    <3> HIDE DEF p, q
    <3>3. Sum(d, R) * q <= p * (Sum(d, R) + Sum(l, R))
      BY <1>2, <1>4, <3>1, <3>2, Mediant
    <3> QED
      BY <2>1, <3>3 DEF Leq, p, q
  <2>3. Leq(reports[worst].eff, FleetEfficiency(reports))
    <3> DEFINE p == reports[worst].eff[1]
               q == reports[worst].eff[2]
    <3>1. p \in Nat /\ q \in Nat
      BY <1>1, <1>6
    <3>2. ASSUME NEW n \in R PROVE p * (d[n] + l[n]) <= d[n] * q
      <4>1. Leq(reports[worst].eff, reports[n].eff)
        BY <1>1
      <4>2. CASE d[n] + l[n] > 0
        <5>1. reports[n].eff = <<d[n], d[n] + l[n]>>
          BY <1>2, <4>2 DEF Share
        <5> QED
          BY <4>1, <5>1 DEF Leq
      <4>3. CASE ~(d[n] + l[n] > 0)
        <5>1. d[n] = 0 /\ l[n] = 0
          BY <1>2, <4>3
        <5> QED
          BY <3>1, <5>1
      <4> QED
        BY <4>2, <4>3
    <3> HIDE DEF p, q
    <3>3. p * (Sum(d, R) + Sum(l, R)) <= Sum(d, R) * q
      BY <1>2, <1>4, <3>1, <3>2, Mediant
    <3> QED
      BY <2>1, <3>3 DEF Leq, p, q
  <2> QED
    BY <2>2, <2>3 DEF best, worst
<1>8. CASE ~(Sum(d, R) + Sum(l, R) > 0)
  <2>1. FleetEfficiency(reports) = <<1, 1>>
    BY <1>3, <1>8 DEF FleetShare
  <2>2. ASSUME NEW n \in R PROVE reports[n].eff = <<1, 1>>
    <3>1. d[n] = 0 /\ l[n] = 0
      BY <1>2, <1>5, <1>8
    <3>2. ~(d[n] + l[n] > 0) /\ reports[n].eff = Share(d[n], l[n])
      BY <1>2, <3>1
    <3> QED
      BY <3>2 DEF Share
  <2> QED
    BY <1>1, <2>1, <2>2 DEF Leq, best, worst
<1> QED
  BY <1>7, <1>8

\* What a report holds at each stage, as long as nothing happened since it began.
DraftInv ==
    /\ draft \in [d : Nat, l : Nat, eff : Nat \X Nat, torn : BOOLEAN]
    /\ ~draft.torn =>
         /\ reading \in {"lost", "share", "efficiency"} => draft.d = Rate("delivered")
         /\ reading \in {"share", "efficiency"} => draft.l = Rate("dropped")
         /\ reading = "efficiency" => draft.eff[1] = Rate("delivered")
         /\ reading = "done" => draft.eff = Share(draft.d, draft.l)

LEMMA RateNatural ==
    ASSUME WindowInv
    PROVE  Rate("delivered") \in Nat /\ Rate("dropped") \in Nat
<1> SUFFICES ASSUME NEW k \in Kinds PROVE Rate(k) \in Nat
  BY DEF Kinds
<1>1. deque[k] \in Seq(Events)
  BY DEF WindowInv, WindowTypeOK
<1>2. /\ IsFiniteSet(InWindow(deque[k]))
      /\ \A i \in InWindow(deque[k]) : ValuesOf(deque[k])[i] \in Nat
  BY <1>1, EventTypes, FS_Subset DEF InWindow
<1> QED
  BY <1>2, SumNatural DEF Rate

LEMMA StepDraft ==
    ASSUME WindowInv, DraftInv, [ReportNext]_reportVars
    PROVE  DraftInv'
<1> DEFINE D == Rate("delivered")
           L == Rate("dropped")
<1>0. D \in Nat /\ L \in Nat
  BY RateNatural
<1>1. UNCHANGED deque => Rate("delivered")' = D /\ Rate("dropped")' = L
  BY DEF Rate
<1> HIDE DEF D, L
<1>2. draft \in [d : Nat, l : Nat, eff : Nat \X Nat, torn : BOOLEAN]
  BY DEF DraftInv
<1>3. ASSUME NEW t \in Threads, Stamp(t) PROVE DraftInv'
  BY <1>1, <1>3 DEF DraftInv, Stamp, D, L
<1>4. ASSUME draft' = [draft EXCEPT !.torn = reading # "none"], reading' = reading PROVE DraftInv'
  <2>1. draft' \in [d : Nat, l : Nat, eff : Nat \X Nat, torn : BOOLEAN]
    BY <1>2, <1>4
  <2>2. ~draft'.torn => reading = "none"
    BY <1>2, <1>4
  <2> QED
    BY <1>4, <2>1, <2>2 DEF DraftInv
<1>5. ASSUME NEW t \in Threads, Record(t) PROVE DraftInv'
  BY <1>4, <1>5 DEF Record
<1>6. CASE Reset \/ Tick
  BY <1>4, <1>6 DEF Reset, Tick
<1>7. CASE ReadDelivered
  <2>1. /\ reading' = "lost" /\ draft' = [NoValue EXCEPT !.d = D] /\ UNCHANGED deque
    BY <1>7 DEF ReadDelivered, trackerVars, D
  <2>2. draft' = [d |-> D, l |-> 0, eff |-> <<0, 0>>, torn |-> FALSE]
    BY <2>1 DEF NoValue
  <2>3. draft' \in [d : Nat, l : Nat, eff : Nat \X Nat, torn : BOOLEAN] /\ draft'.d = D
    BY <1>0, <2>2
  <2> QED
    BY <1>1, <2>1, <2>3 DEF DraftInv
<1>8. CASE ReadLost
  <2>1. /\ reading = "lost" /\ reading' = "share" /\ draft' = [draft EXCEPT !.l = L] /\ UNCHANGED deque
    BY <1>8 DEF ReadLost, trackerVars, L
  <2>2. /\ draft' \in [d : Nat, l : Nat, eff : Nat \X Nat, torn : BOOLEAN]
        /\ draft'.d = draft.d /\ draft'.l = L /\ draft'.torn = draft.torn
    BY <1>0, <1>2, <2>1
  <2>3. ~draft.torn => draft.d = D
    BY <2>1 DEF DraftInv, D
  <2> QED
    BY <1>1, <2>1, <2>2, <2>3 DEF DraftInv
<1>9. CASE SumDelivered
  <2>1. /\ reading = "share" /\ reading' = "efficiency" /\ draft' = [draft EXCEPT !.eff = <<D, 0>>]
        /\ UNCHANGED deque
    BY <1>9 DEF SumDelivered, trackerVars, D
  <2>2. /\ draft' \in [d : Nat, l : Nat, eff : Nat \X Nat, torn : BOOLEAN]
        /\ draft'.d = draft.d /\ draft'.l = draft.l /\ draft'.torn = draft.torn
        /\ draft'.eff[1] = D
    BY <1>0, <1>2, <2>1
  <2>3. ~draft.torn => draft.d = D /\ draft.l = L
    BY <2>1 DEF DraftInv, D, L
  <2> QED
    BY <1>1, <2>1, <2>2, <2>3 DEF DraftInv
<1>10. CASE SumLost
  <2>1. /\ reading = "efficiency" /\ reading' = "done"
        /\ draft' = [draft EXCEPT !.eff = Share(draft.eff[1], L)]
    BY <1>10 DEF SumLost, L
  <2>2. draft.eff[1] \in Nat
    BY <1>2
  <2>3. Share(draft.eff[1], L) \in Nat \X Nat
    BY <1>0, <2>2 DEF Share
  <2>4. /\ draft' \in [d : Nat, l : Nat, eff : Nat \X Nat, torn : BOOLEAN]
        /\ draft'.d = draft.d /\ draft'.l = draft.l /\ draft'.torn = draft.torn
        /\ draft'.eff = Share(draft.eff[1], L)
    <3> HIDE DEF Share
    <3> QED
      BY <1>2, <2>1, <2>3
  <2>5. ~draft.torn => draft.d = D /\ draft.l = L /\ draft.eff[1] = D
    BY <2>1 DEF DraftInv, D, L
  <2>6. ~draft'.torn => draft'.eff = Share(draft'.d, draft'.l)
    BY <2>4, <2>5
  <2> QED
    BY <2>1, <2>4, <2>6 DEF DraftInv
<1>11. CASE Post
  <2>1. reading' = "none" /\ draft' = NoValue
    BY <1>11 DEF Post
  <2> QED
    BY <2>1 DEF DraftInv, NoValue
<1>12. CASE UNCHANGED reportVars
  BY <1>1, <1>12 DEF DraftInv, reportVars, trackerVars, D, L
<1> QED
  BY <1>3, <1>5, <1>6, <1>7, <1>8, <1>9, <1>10, <1>11, <1>12 DEF ReportNext

LEMMA SummaryFollows ==
    ASSUME DraftInv
    PROVE  SummaryBetween
<1> SUFFICES ASSUME reading = "done", ~draft.torn, NEW fleet \in Fleets
             PROVE  LET reports == [fleet EXCEPT ![Self] = draft]
                        best == reports[BestNode(reports)].eff
                        worst == reports[WorstNode(reports)].eff
                    IN Leq(worst, FleetEfficiency(reports)) /\ Leq(FleetEfficiency(reports), best)
  BY DEF SummaryBetween
<1> DEFINE reports == [fleet EXCEPT ![Self] = draft]
<1>1. /\ DOMAIN reports = Others \cup {Self} /\ reports[Self] = draft
      /\ \A n \in Others : n # Self => reports[n] \in OtherReports \cup {NoValue}
  BY DEF Fleets
<1>2. Sound(draft)
  BY DEF DraftInv, Sound
<1> HIDE DEF reports
<1>3. draft # NoValue
  BY <1>2, ShareIsFraction DEF NoValue
<1>4. Self \in Reporting(reports)
  BY <1>1, <1>3 DEF Reporting
<1>5. IsFiniteSet(Reporting(reports))
  <2>1. IsFiniteSet(Others \cup {Self})
    BY ReportsAssumption, FS_AddElement
  <2> QED
    BY <1>1, <2>1, FS_Subset DEF Reporting
<1>6. ASSUME NEW n \in Reporting(reports) PROVE Sound(reports[n])
  BY <1>1, <1>2, ReportsAssumption DEF Reporting, Sound
<1>7. /\ Leq(reports[WorstNode(reports)].eff, FleetEfficiency(reports))
      /\ Leq(FleetEfficiency(reports), reports[BestNode(reports)].eff)
  BY <1>4, <1>5, <1>6, FleetBetween
<1> QED
  BY <1>7 DEF reports

\* The fleet's efficiency is a weighted average (fleet_value_summary): it lies
\* between that of the worst and of the best node, for any number of nodes and
\* any figures, unless a report was taken across an event.
THEOREM FleetInBetween == ReportSpec => []SummaryBetween
<1>1. ReportInit => DraftInv
  BY DEF ReportInit, DraftInv, NoValue
<1>2. WindowInv /\ DraftInv /\ [ReportNext]_reportVars => DraftInv'
  BY StepDraft
<1> QED
  BY <1>1, <1>2, Windowed, SummaryFollows, PTL DEF ReportSpec
=============================================================================
