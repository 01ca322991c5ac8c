-------------------------- MODULE SLAMonitor_proofs --------------------------
(***************************************************************************)
(* Theorems about the SLA monitor, for any number of packets, of threads   *)
(* in dequeue() and of resets, and all ceilings: that every packet which   *)
(* leaves the queue is returned or counted as expired, exactly once.       *)
(***************************************************************************)
EXTENDS SLAMonitor, FiniteSetTheorems, TLAPS

USE DEF TrafficPriority, CRITICAL, HIGH, MEDIUM, LOW, BACKGROUND

\* Counting one more violation of a class, and of all classes together.
LEMMA OneMore ==
    ASSUME NEW counts \in [TrafficPriority -> Nat], NEW p, Priority[p] \in TrafficPriority
    PROVE  /\ Counted(counts, p) \in [TrafficPriority -> Nat]
           /\ Total(Counted(counts, p)) = Total(counts) + 1
           /\ Total(counts) \in Nat
BY DEF Counted, Total

\* After a reset nothing is counted.
LEMMA ZeroTotal == Zero \in [TrafficPriority -> Nat] /\ Total(Zero) = 0
BY DEF Zero, Total

\* The types, what waits is a packet, and a late packet has a class.
Shape ==
    /\ TypeOK
    /\ waiting \subseteq Packets
    /\ \A p \in Packets : call[p] = "late" => Priority[p] \in TrafficPriority

\* The start of an empty monitor has the shape of the code.
LEMMA InitShape == Init => Shape
BY SLAAssumption, ZeroTotal DEF Init, AQInit, TypeOK, Shape

\* Every step keeps the shape of the state.
LEMMA StepShape ==
    ASSUME Shape, [SLANext]_slaVars
    PROVE  Shape'
<1> USE SLAAssumption DEF Shape, TypeOK, aqVars, callVars, consumerVars, counters, fates, resetVars
<1>1. CASE Tick
  BY <1>1 DEF Tick
<1>2. CASE ResetSlaStats
  <2>1. Total(sojournViolations) \in Nat
    BY DEF Total
  <2> QED
    BY <1>2, <2>1, ZeroTotal DEF ResetSlaStats
<1>3. ASSUME NEW p \in Packets, Admit(p) PROVE Shape'
  <2>1. enqueuedAt' \in [Packets -> 0..clock]
    <3>1. enqueuedAt' = enqueuedAt \/ enqueuedAt' = [enqueuedAt EXCEPT ![p] = clock]
      BY <1>3, Zenon DEF Admit
    <3>2. clock \in 0..clock
      OBVIOUS
    <3>3. CASE enqueuedAt' = enqueuedAt
      BY <3>3
    <3>4. CASE enqueuedAt' = [enqueuedAt EXCEPT ![p] = clock]
      BY <3>2, <3>4
    <3> QED
      BY <3>1, <3>3, <3>4
  <2>2. /\ call' \in [Packets -> {"new", "late", "done"}]
        /\ \A q \in Packets : call'[q] = "late" => Priority[q] \in TrafficPriority
    BY <1>3 DEF Admit, Exceeds
  <2>4. waiting' \subseteq Packets
    BY <1>3 DEF Admit, Put, PutFull, LeastImportant
  <2>3. UNCHANGED <<clock, consumerVars, counters, fates, resetVars>>
    BY <1>3 DEF Admit
  <2> QED
    BY <2>1, <2>2, <2>3, <2>4
<1>4. ASSUME NEW p \in Packets, RecordPipeline(p) PROVE Shape'
  <2>1. pipelineViolations' \in [TrafficPriority -> Nat]
    BY <1>4, OneMore DEF RecordPipeline
  <2> QED
    BY <1>4, <2>1 DEF RecordPipeline
<1>5. ASSUME NEW c \in Consumers, Pull(c) PROVE Shape'
  BY <1>5 DEF Pull, Go, Get, MostImportant
<1>6. ASSUME NEW c \in Consumers, PullNone(c) PROVE Shape'
  BY <1>6 DEF PullNone, Go
<1>7. ASSUME NEW c \in Consumers, Return(c) PROVE Shape'
  BY <1>7 DEF Return, Go
<1>8. ASSUME NEW c \in Consumers, Expire(c) PROVE Shape'
  <2>1. sojournViolations' \in [TrafficPriority -> Nat]
    BY <1>8, OneMore DEF Expire, Stale, Exceeds
  <2>2. at' \in [Consumers -> {"idle", "pulling", "checking", "counting"}]
    BY <1>8 DEF Expire, Go
  <2> QED
    BY <1>8, <2>1, <2>2 DEF Expire
<1>9. ASSUME NEW c \in Consumers, CountExpired(c) PROVE Shape'
  BY <1>9 DEF CountExpired, Go, AfterExpiry
<1>10. CASE UNCHANGED slaVars
  BY <1>10 DEF slaVars
<1> QED
  BY <1>1, <1>2, <1>3, <1>4, <1>5, <1>6, <1>7, <1>8, <1>9, <1>10
  DEF SLANext, Process, Proceed

\* In every behaviour the state of the monitor keeps its shape (TypeOK).
THEOREM TypeCorrect == SLASpec => []TypeOK
<1>1. Shape => TypeOK
  BY DEF Shape
<1> QED
  BY <1>1, InitShape, StepShape, PTL DEF SLASpec

-----------------------------------------------------------------------------
\* A packet that has left the queue is in one place: in the hands of one
\* consumer, returned, or discarded.
Holds(c, p) == at[c] = "checking" /\ p \in inHand[c]
HandInv ==
    /\ waiting \cap forwarded = {}
    /\ \A c \in Consumers : at[c] = "checking" => \E p : inHand[c] = {p}
    /\ \A c, d \in Consumers : \A p : Holds(c, p) /\ Holds(d, p) => c = d
    /\ \A p : p \in forwarded <=>
                p \in returned \cup discarded \/ \E c \in Consumers : Holds(c, p)
    /\ \A c \in Consumers : \A p : Holds(c, p) => p \notin returned \cup discarded
    /\ returned \cap discarded = {}

\* No step duplicates a packet or lets one slip away.
LEMMA StepHandInv ==
    ASSUME Shape, HandInv, [SLANext]_slaVars
    PROVE  HandInv'
<1>0. /\ at \in [Consumers -> {"idle", "pulling", "checking", "counting"}]
      /\ inHand \in [Consumers -> SUBSET Packets]
  BY DEF Shape, TypeOK
<1> USE DEF HandInv, Holds
<1>1. CASE UNCHANGED <<aqVars, consumerVars, fates>>
  BY <1>1 DEF aqVars, consumerVars, fates
<1>2. ASSUME NEW p \in Packets, Admit(p) PROVE HandInv'
  <2>1. UNCHANGED <<forwarded, at, inHand, returned, discarded>>
    BY <1>2 DEF Admit, Put, PutFull, aqVars, consumerVars, fates
  <2>2. waiting' \cap forwarded = {}
    BY <1>2 DEF Admit, Put, PutFull, Untouched, aqVars
  <2> QED
    BY <2>1, <2>2
<1>3. ASSUME NEW c \in Consumers, Pull(c) PROVE HandInv'
  <2>1. PICK p \in waiting : Get(p) /\ inHand' = [inHand EXCEPT ![c] = {p}]
    BY <1>3 DEF Pull
  <2>2. /\ at[c] \in {"idle", "pulling"} /\ at' = [at EXCEPT ![c] = "checking"]
        /\ UNCHANGED <<returned, discarded>>
    BY <1>3 DEF Pull, Go, fates
  <2>3. waiting' = waiting \ {p} /\ forwarded' = forwarded \cup {p}
    BY <2>1 DEF Get
  <2>4. \A d \in Consumers : \A q : Holds(d, q)' <=> IF d = c THEN q = p ELSE Holds(d, q)
    BY <1>0, <2>1, <2>2
  <2>5. \A q : ~Holds(c, q)
    BY <2>2
  <2>6. p \in waiting /\ p \notin forwarded /\ p \notin returned \cup discarded
        /\ \A d \in Consumers : ~Holds(d, p)
    BY <2>1
  <2> HIDE DEF Holds
  <2>7. \A d \in Consumers : at'[d] = "checking" => \E q : inHand'[d] = {q}
    BY <1>0, <2>1, <2>2
  <2>8. waiting' \cap forwarded' = {}
    BY <2>3, <2>6
  <2>9. \A d, e \in Consumers : \A q : Holds(d, q)' /\ Holds(e, q)' => d = e
    BY <2>4, <2>5, <2>6
  <2>10. \A q : q \in forwarded' <=> q = p \/ q \in returned \cup discarded
                                           \/ \E d \in Consumers : Holds(d, q)
    BY <2>3
  <2>11. \A q : (\E d \in Consumers : Holds(d, q)') <=> q = p \/ \E d \in Consumers : Holds(d, q)
    BY <2>4, <2>5
  <2>12. \A d \in Consumers : \A q : Holds(d, q)' => q \notin returned \cup discarded
    BY <2>4, <2>6
  <2> QED
    BY <2>2, <2>7, <2>8, <2>9, <2>10, <2>11, <2>12
<1>4. ASSUME NEW c \in Consumers, PullNone(c) PROVE HandInv'
  BY <1>0, <1>4 DEF PullNone, Go, aqVars, fates
<1>5. ASSUME NEW c \in Consumers, Return(c) PROVE HandInv'
  <2>1. /\ at[c] = "checking" /\ at' = [at EXCEPT ![c] = "idle"]
        /\ inHand' = [inHand EXCEPT ![c] = {}] /\ returned' = returned \cup inHand[c]
        /\ UNCHANGED <<waiting, forwarded, discarded>>
    BY <1>5 DEF Return, Go, aqVars
  <2> QED
    BY <1>0, <2>1
<1>6. ASSUME NEW c \in Consumers, Expire(c) PROVE HandInv'
  <2>1. /\ at[c] = "checking" /\ at' = [at EXCEPT ![c] = "counting"]
        /\ discarded' = discarded \cup inHand[c]
        /\ UNCHANGED <<waiting, forwarded, inHand, returned>>
    BY <1>6 DEF Expire, Go, aqVars
  <2> QED
    BY <1>0, <2>1
<1>7. ASSUME NEW c \in Consumers, CountExpired(c) PROVE HandInv'
  <2>1. /\ at[c] = "counting" /\ at' = [at EXCEPT ![c] = "pulling"]
        /\ UNCHANGED <<waiting, forwarded, inHand, returned, discarded>>
    BY <1>7 DEF CountExpired, Go, AfterExpiry, aqVars, fates
  <2> QED
    BY <1>0, <2>1
<1>8. ASSUME NEW p \in Packets, RecordPipeline(p) PROVE UNCHANGED <<aqVars, consumerVars, fates>>
  BY <1>8 DEF RecordPipeline
<1>9. Tick \/ ResetSlaStats \/ UNCHANGED slaVars => UNCHANGED <<aqVars, consumerVars, fates>>
  BY DEF Tick, ResetSlaStats, slaVars
<1> QED
  BY <1>1, <1>2, <1>3, <1>4, <1>5, <1>6, <1>7, <1>8, <1>9 DEF SLANext, Process, Proceed

-----------------------------------------------------------------------------
\* Both counts, with what resets have cleared of them, are the packets found
\* expired, but for those about to be counted; each reset that falls between the
\* two locked sections clears one more of the one than of the other.
CountInv ==
    /\ IsFiniteSet(discarded)
    /\ packetsExpired + forgotten.expired + Cardinality(At("counting")) = Cardinality(discarded)
    /\ Total(sojournViolations) + forgotten.sojourn = Cardinality(discarded)
    /\ totalViolations = Total(sojournViolations) + Total(pipelineViolations)
    /\ forgotten.sojourn - forgotten.expired \in 0..Cardinality(Consumers)

\* The counts are numbers, and no more threads are counting than there are.
LEMMA Numbers ==
    ASSUME Shape
    PROVE  /\ packetsExpired \in Nat /\ totalViolations \in Nat
           /\ forgotten \in [expired : Nat, sojourn : Nat]
           /\ Total(sojournViolations) \in Nat /\ Total(pipelineViolations) \in Nat
           /\ IsFiniteSet(Consumers) /\ Cardinality(Consumers) \in Nat
           /\ \A place : /\ IsFiniteSet(At(place))
                         /\ Cardinality(At(place)) \in 0..Cardinality(Consumers)
<1>1. \A place : At(place) \subseteq Consumers
  BY DEF At
<1>2. IsFiniteSet(Consumers) /\ Cardinality(Consumers) \in Nat
  BY SLAAssumption, FS_CardinalityType
<1>3. \A place : /\ IsFiniteSet(At(place)) /\ Cardinality(At(place)) \in Nat
                 /\ Cardinality(At(place)) <= Cardinality(Consumers)
  BY <1>1, <1>2, FS_Subset, FS_CardinalityType
<1> QED
  BY <1>2, <1>3 DEF Shape, TypeOK, Total

\* No step, a reset between the locked sections included, breaks the sums.
LEMMA StepCountInv ==
    ASSUME Shape, HandInv, CountInv, [SLANext]_slaVars
    PROVE  CountInv'
<1>0. at \in [Consumers -> {"idle", "pulling", "checking", "counting"}]
  BY DEF Shape, TypeOK
<1> USE Numbers DEF CountInv
<1>1. CASE UNCHANGED <<counters, discarded, forgotten>> /\ At("counting")' = At("counting")
  BY <1>1 DEF counters
<1>2. CASE ResetSlaStats
  <2>1. /\ pipelineViolations' = Zero /\ sojournViolations' = Zero
        /\ packetsExpired' = 0 /\ totalViolations' = 0
        /\ forgotten' = [expired |-> forgotten.expired + packetsExpired,
                         sojourn |-> forgotten.sojourn + Total(sojournViolations)]
        /\ UNCHANGED <<at, discarded>>
    BY <1>2 DEF ResetSlaStats, consumerVars, fates
  <2>2. Total(pipelineViolations)' = 0 /\ Total(sojournViolations)' = 0
    BY <2>1, ZeroTotal DEF Total
  <2>3. At("counting")' = At("counting")
    BY <2>1 DEF At
  <2>4. forgotten'.sojourn - forgotten'.expired = Cardinality(At("counting"))
    BY <2>1
  <2> QED
    BY <2>1, <2>2, <2>3, <2>4
<1>3. ASSUME NEW p \in Packets, RecordPipeline(p) PROVE CountInv'
  <2>1. /\ pipelineViolations' = Counted(pipelineViolations, p)
        /\ totalViolations' = totalViolations + 1 /\ Priority[p] \in TrafficPriority
        /\ UNCHANGED <<at, sojournViolations, packetsExpired, discarded, forgotten>>
    BY <1>3 DEF RecordPipeline, Shape, consumerVars, fates, resetVars
  <2>2. Total(pipelineViolations)' = Total(pipelineViolations) + 1
    BY <2>1, OneMore DEF Total, Shape, TypeOK
  <2>3. At("counting")' = At("counting") /\ Total(sojournViolations)' = Total(sojournViolations)
    BY <2>1 DEF At, Total
  <2> QED
    BY <2>1, <2>2, <2>3
<1>4. ASSUME NEW c \in Consumers, Expire(c) PROVE CountInv'
  <2>1. PICK p \in inHand[c] : Stale(p) /\ sojournViolations' = Counted(sojournViolations, p)
    BY <1>4 DEF Expire
  <2>2. /\ at[c] = "checking" /\ at' = [at EXCEPT ![c] = "counting"]
        /\ totalViolations' = totalViolations + 1 /\ discarded' = discarded \cup inHand[c]
        /\ UNCHANGED <<pipelineViolations, packetsExpired, forgotten>>
    BY <1>4 DEF Expire, Go, resetVars
  <2>3. inHand[c] = {p} /\ p \notin discarded
    BY <2>1, <2>2 DEF HandInv, Holds
  <2>4. IsFiniteSet(discarded') /\ Cardinality(discarded') = Cardinality(discarded) + 1
    BY <2>2, <2>3, FS_AddElement
  <2>5. At("counting")' = At("counting") \cup {c} /\ c \notin At("counting")
    BY <1>0, <2>2 DEF At
  <2>6. Cardinality(At("counting")') = Cardinality(At("counting")) + 1
    BY <2>5, FS_AddElement
  <2>7. Total(sojournViolations)' = Total(sojournViolations) + 1
    <3>1. Priority[p] \in TrafficPriority
      BY <2>1, SLAAssumption DEF Stale, Exceeds
    <3> QED
      BY <2>1, <3>1, OneMore DEF Total, Shape, TypeOK
  <2>8. Total(pipelineViolations)' = Total(pipelineViolations)
    BY <2>2 DEF Total
  <2>9. Cardinality(discarded) \in Nat
    BY FS_CardinalityType
  <2> QED
    BY <2>2, <2>4, <2>6, <2>7, <2>8, <2>9
<1>5. ASSUME NEW c \in Consumers, CountExpired(c) PROVE CountInv'
  <2>1. /\ at[c] = "counting" /\ at' = [at EXCEPT ![c] = "pulling"]
        /\ packetsExpired' = packetsExpired + 1
        /\ UNCHANGED <<pipelineViolations, sojournViolations, totalViolations, discarded, forgotten>>
    BY <1>5 DEF CountExpired, Go, AfterExpiry, fates, resetVars
  <2>2. At("counting")' = At("counting") \ {c} /\ c \in At("counting")
    BY <1>0, <2>1 DEF At
  <2>3. Cardinality(At("counting")') = Cardinality(At("counting")) - 1
    BY <2>2, FS_RemoveElement
  <2>4. /\ Total(pipelineViolations)' = Total(pipelineViolations)
        /\ Total(sojournViolations)' = Total(sojournViolations)
    BY <2>1 DEF Total
  <2> QED
    BY <2>1, <2>3, <2>4
<1>6. ASSUME NEW c \in Consumers, Pull(c) \/ PullNone(c) \/ Return(c)
      PROVE  UNCHANGED <<counters, discarded, forgotten>> /\ At("counting")' = At("counting")
  <2>1. \E from \in {"idle", "pulling", "checking"}, to \in {"idle", "checking"} :
            at[c] = from /\ at' = [at EXCEPT ![c] = to]
    BY <1>6 DEF Pull, PullNone, Return, Go
  <2>2. At("counting")' = At("counting")
    BY <1>0, <2>1 DEF At
  <2>3. UNCHANGED <<counters, discarded, forgotten>>
    BY <1>6 DEF Pull, PullNone, Return, fates, resetVars
  <2> QED
    BY <2>2, <2>3
<1>7. ASSUME NEW p \in Packets, Admit(p)
      PROVE  UNCHANGED <<counters, discarded, forgotten>> /\ At("counting")' = At("counting")
  BY <1>7 DEF Admit, At, consumerVars, fates, resetVars
<1>8. Tick \/ UNCHANGED slaVars =>
        UNCHANGED <<counters, discarded, forgotten>> /\ At("counting")' = At("counting")
  BY DEF Tick, At, slaVars, consumerVars, fates, resetVars
<1> QED
  BY <1>1, <1>2, <1>3, <1>4, <1>5, <1>6, <1>7, <1>8 DEF SLANext, Process, Proceed

\* What leaves the queue is returned to one caller or counted as expired, once
\* as a violation and once as a packet, and a snapshot's two counts differ by no
\* more than the threads in dequeue() (ExpiryAccounted): for any number of
\* threads, and resets at any moment.
THEOREM EveryExpiryCounted == SLASpec => []ExpiryAccounted
<1> DEFINE Accounted == Shape /\ HandInv /\ CountInv
<1>1. Init => Accounted
  <2> SUFFICES ASSUME Init PROVE HandInv /\ CountInv
    BY InitShape
  <2>1. HandInv
    BY DEF Init, AQInit, HandInv, Holds
  <2>2. At("counting") = {}
    BY DEF Init, At
  <2>3. CountInv
    BY <2>2, Numbers, InitShape, ZeroTotal, FS_EmptySet DEF Init, CountInv
  <2> QED
    BY <2>1, <2>3
<1>2. Accounted /\ [SLANext]_slaVars => Accounted'
  BY StepShape, StepHandInv, StepCountInv
<1>3. ASSUME Accounted PROVE ExpiryAccounted
  <2>1. \A p : p \in InHand(At("checking")) <=> \E c \in Consumers : Holds(c, p)
    BY DEF InHand, At, Holds
  <2>2. /\ forwarded = returned \cup discarded \cup InHand(At("checking"))
        /\ returned \cap (discarded \cup InHand(At("checking"))) = {}
    BY <1>3, <2>1 DEF HandInv
  <2>3. packetsExpired - Total(sojournViolations) \in
          -Cardinality(Consumers) .. Cardinality(Consumers)
    BY <1>3, Numbers DEF CountInv
  <2> QED
    BY <1>3, <2>2, <2>3 DEF ExpiryAccounted, CountInv
<1> QED
  BY <1>1, <1>2, <1>3, PTL DEF SLASpec
=============================================================================
