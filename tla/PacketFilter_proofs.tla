-------------------------- MODULE PacketFilter_proofs --------------------------
(* Theorems about the token bucket, for every rate, capacity and size of      *)
(* packets: its capacity holds for any number of threads however they overlap, *)
(* its rate and its accounting as long as no two calls do.                    *)
EXTENDS PacketFilter, FiniteSetTheorems, TLAPS

USE DEF Places

(* A thread about to write the drop counter holds a natural number, and one   *)
(* about to write the tokens holds no more than the bucket does.              *)
CountInv == \A t \in Threads : pc[t] = "countStore" => value[t] \in Nat
HeldInv == \A t \in Threads : pc[t] \in {"refilling", "paying"} => value[t] <= Capacity

BoundInv == TypeOK /\ CountInv /\ NeverOverfull /\ HeldInv

\* What _init_buckets() makes of any configuration is a working bucket.
LEMMA BucketWorks == RefillRate \in Nat \ {0} /\ Capacity \in Nat \ {0}
<1>1. EffectiveRefillRate \in Nat
  <2>1. BudgetShare * TotalBandwidth \in Nat
    BY BucketAssumption
  <2> QED
    BY <2>1, BucketAssumption DEF EffectiveRefillRate
<1>2. RefillRate \in Nat \ {0}
  BY <1>1 DEF RefillRate
<1>3. \A r, m \in Nat \ {0} : r * m \in Nat \ {0}
  OBVIOUS
<1> QED
  BY <1>2, <1>3, BucketAssumption DEF Capacity

\* A refill never computes more than the capacity.
LEMMA RefillBounded ==
    ASSUME TypeOK, NEW t \in Threads
    PROVE  Refilled(t) \in Int /\ Refilled(t) <= Capacity
<1>1. tokens \in Int /\ value[t] \in Int
  BY DEF TypeOK
<1>2. value[t] * RefillRate \in Int /\ Capacity \in Int
  BY <1>1, BucketWorks
<1> QED
  BY <1>1, <1>2 DEF Refilled, Least

\* What the types say of one thread, number by number.
LEMMA Numbers ==
    ASSUME BoundInv, NEW t \in Threads
    PROVE  /\ tokens \in Int /\ paid \in Int /\ passed \in Nat
           /\ lastRefill \in Nat /\ clock \in Nat /\ lastRefill <= clock
           /\ now[t] \in Nat /\ now[t] <= clock
           /\ value[t] \in Int /\ size[t] \in Nat
<1>1. Sizes \cup {0} \subseteq Nat
  BY BucketAssumption
<1>2. TypeOK
  BY DEF BoundInv
<1>3. clock \in Nat /\ lastRefill \in Nat /\ lastRefill <= clock
  BY <1>2, BucketAssumption DEF TypeOK
<1>4. size[t] \in Sizes \cup {0} /\ now[t] \in 0..clock /\ value[t] \in Int
  BY <1>2 DEF TypeOK
<1>5. tokens \in Int /\ paid \in Int /\ passed \in Nat
  BY <1>2 DEF TypeOK
<1> QED
  BY <1>1, <1>3, <1>4, <1>5

\* Every step keeps types, capacity and what the threads hold.
LEMMA StepBoundInv ==
    ASSUME BoundInv, [Next]_vars
    PROVE  BoundInv'
<1>0. \A t \in Threads : size[t] \in Nat /\ value[t] \in Int
  BY Numbers
<1> USE BucketAssumption, BucketWorks
    DEF BoundInv, TypeOK, CountInv, NeverOverfull, HeldInv, Go, Keep
<1>1. CASE UNCHANGED vars
  BY <1>1 DEF vars, bucketVars, localVars, history
<1>2. CASE Tick
  BY <1>2 DEF Tick, bucketVars, localVars, history
<1>2a. CASE ResetDropCounts
  BY <1>2a DEF ResetDropCounts, Overlap, Idle, bucketVars, localVars
<1>3. ASSUME NEW t \in Threads, Start(t) PROVE BoundInv'
  BY <1>3 DEF Start, Overlap, Idle, bucketVars
<1>3a. ASSUME NEW t \in Threads, ReadLast(t) PROVE BoundInv'
  <2>1. now[t] - lastRefill \in Int
    BY Numbers
  <2> QED
    BY <1>3a, <2>1 DEF ReadLast, bucketVars, history
<1>4. ASSUME NEW t \in Threads, ComputeRefill(t) PROVE BoundInv'
  BY <1>4, RefillBounded DEF ComputeRefill, bucketVars, history
<1>5. ASSUME NEW t \in Threads, StoreTokens(t) PROVE BoundInv'
  BY <1>5 DEF StoreTokens, history
<1>6. ASSUME NEW t \in Threads, StoreTime(t) PROVE BoundInv'
  BY <1>6 DEF StoreTime, RefillTime, history
<1>6a. ASSUME NEW t \in Threads, Available(t) PROVE BoundInv'
  BY <1>6a DEF Available, bucketVars, history
<1>7. ASSUME NEW t \in Threads, WithinRate(t) PROVE BoundInv'
  BY <1>0, <1>7 DEF WithinRate, bucketVars
<1>8. ASSUME NEW t \in Threads, Load(t) PROVE BoundInv'
  BY <1>0, <1>8 DEF Load, Charged, bucketVars, history
<1>9. ASSUME NEW t \in Threads, Pay(t) PROVE BoundInv'
  BY <1>9 DEF Pay
<1>10. ASSUME NEW t \in Threads, OverRateCritical(t) PROVE BoundInv'
  BY <1>0, <1>10 DEF OverRateCritical, bucketVars
<1>11. ASSUME NEW t \in Threads, OverRateDrop(t) PROVE BoundInv'
  BY <1>11 DEF OverRateDrop, OverRate, bucketVars
<1>12. ASSUME NEW t \in Threads, RedKeep(t) PROVE BoundInv'
  BY <1>12 DEF RedKeep, bucketVars, history
<1>13. ASSUME NEW t \in Threads, RedDrop(t) PROVE BoundInv'
  BY <1>13 DEF RedDrop, bucketVars
<1>14. ASSUME NEW t \in Threads, CountLoad(t) PROVE BoundInv'
  BY <1>14 DEF CountLoad, bucketVars, history
<1>15. ASSUME NEW t \in Threads, CountStore(t) PROVE BoundInv'
  BY <1>15 DEF CountStore, bucketVars, history
<1> QED
  BY <1>1, <1>2, <1>2a, <1>3, <1>3a, <1>4, <1>5, <1>6, <1>6a, <1>7, <1>8, <1>9, <1>10,
     <1>11, <1>12, <1>13, <1>14, <1>15 DEF Next, ShouldDrop

\* In every behaviour types, capacity and what the threads hold stay in bounds.
LEMMA AlwaysBoundInv == Spec => []BoundInv
<1>1. Init => BoundInv
  <2> SUFFICES ASSUME Init PROVE BoundInv
    OBVIOUS
  <2>1. TypeOK
    <3>1. critical \in BOOLEAN /\ overlapped \in BOOLEAN
      BY Zenon DEF Init
    <3>2. /\ clock = 0 /\ calls = 0 /\ lastRefill = 0 /\ dropCount = 0
          /\ passed = 0 /\ paid = 0 /\ drops = 0 /\ forgotten = 0
          /\ tokens = Capacity /\ Capacity \in Int
      BY BucketWorks DEF Init
    <3>3. /\ pc \in [Threads -> Places]
          /\ size \in [Threads -> Sizes \cup {0}]
          /\ now \in [Threads -> 0..0]
          /\ value \in [Threads -> Int]
      BY DEF Init
    <3> QED
      BY <3>1, <3>2, <3>3, BucketAssumption DEF TypeOK
  <2>2. CountInv /\ NeverOverfull /\ HeldInv
    BY BucketWorks DEF Init, CountInv, NeverOverfull, HeldInv
  <2> QED
    BY <2>1, <2>2 DEF BoundInv
<1> QED
  BY <1>1, StepBoundInv, PTL DEF Spec

\* The bucket's state keeps its shape (TypeOK), whatever the threads do.
THEOREM TypeCorrect == Spec => []TypeOK
<1>1. BoundInv => TypeOK
  BY DEF BoundInv
<1> QED
  BY <1>1, AlwaysBoundInv, PTL

\* The bucket never holds more than its capacity (NeverOverfull), although any
\* number of threads refill it and take from it without a lock.
THEOREM CapacityHolds == Spec => []NeverOverfull
<1>1. BoundInv => NeverOverfull
  BY DEF BoundInv
<1> QED
  BY <1>1, AlwaysBoundInv, PTL

-----------------------------------------------------------------------------
(* Calls that do not overlap.  Budget(x) is what may have been spent at time x. *)
(* What was spent and what is left never exceed it, at the time the tokens     *)
(* stand for: the last refill, or the reading of the clock about to become it. *)
Budget(x) == Capacity + RefillRate * x

At(t, S) == pc[t] \in S
Alone == \A t, u \in Threads : pc[t] # "idle" /\ pc[u] # "idle" => t = u
Refilling(t) ==
    /\ At(t, {"reading", "computing", "refilling", "stamping"}) => lastRefill <= now[t]
    /\ At(t, {"computing"}) => value[t] = now[t] - lastRefill
    /\ At(t, {"stamping"}) => tokens + paid <= Budget(now[t])
    /\ At(t, {"refilling"}) => 0 <= value[t] /\ value[t] + paid <= Budget(now[t])
Paying(t) ==
    /\ At(t, {"loading"}) => size[t] <= tokens
    /\ At(t, {"paying"}) => value[t] = tokens - size[t] /\ value[t] >= 0
    /\ At(t, {"loading", "paying"}) => passed = paid + size[t]
Settled ==
    /\ tokens >= 0
    /\ (\A t \in Threads : ~At(t, {"stamping"})) => tokens + paid <= Budget(lastRefill)
    /\ (\A t \in Threads : ~At(t, {"loading", "paying"})) => passed = paid
RateInv ==
    Orderly => Alone /\ Settled /\ \A t \in Threads : Refilling(t) /\ Paying(t)

\* More time, more budget: in steps of RefillRate.
LEMMA BudgetGrows ==
    \A x, y \in Nat :
        /\ Budget(x) \in Nat
        /\ x <= y => /\ Budget(x) <= Budget(y)
                     /\ (y - x) * RefillRate \in Nat
                     /\ Budget(x) + (y - x) * RefillRate = Budget(y)
<1> SUFFICES ASSUME NEW x \in Nat, NEW y \in Nat
             PROVE  /\ Budget(x) \in Nat
                    /\ x <= y => /\ Budget(x) <= Budget(y)
                                 /\ (y - x) * RefillRate \in Nat
                                 /\ Budget(x) + (y - x) * RefillRate = Budget(y)
  OBVIOUS
<1>1. RefillRate \in Nat /\ Capacity \in Nat
  BY BucketWorks
<1>2. Budget(x) \in Nat
  BY <1>1 DEF Budget
<1>3. ASSUME x <= y PROVE (y - x) * RefillRate \in Nat
  BY <1>1, <1>3
<1>4. (y - x) * RefillRate = RefillRate * y - RefillRate * x
  BY <1>1
<1> QED
  BY <1>1, <1>2, <1>3, <1>4 DEF Budget

\* What a call in progress assumes, nobody else disturbs: every step keeps the
\* budget until two calls overlap.
LEMMA StepRateInv ==
    ASSUME BoundInv, RateInv, [Next]_vars
    PROVE  RateInv'
<1>1. CASE UNCHANGED vars
  BY <1>1 DEF vars, bucketVars, localVars, history, RateInv, Orderly, Alone,
              Settled, Refilling, Paying, At
<1>2. CASE Tick
  BY <1>2 DEF Tick, bucketVars, localVars, history, RateInv, Orderly, Alone,
              Settled, Refilling, Paying, At
<1>3. CASE ResetDropCounts
  BY <1>3 DEF ResetDropCounts, Overlap, bucketVars, localVars, RateInv, Orderly,
              Alone, Settled, Refilling, Paying, At
<1>4. ASSUME NEW t \in Threads, ShouldDrop(t), Orderly'
      PROVE  Alone' /\ Settled' /\ \A u \in Threads : (Refilling(u) /\ Paying(u))'
  <2> USE <1>4 DEF Go, Keep
  <2>0. /\ tokens \in Int /\ paid \in Int /\ passed \in Nat
        /\ lastRefill \in Nat /\ clock \in Nat /\ lastRefill <= clock
        /\ now[t] \in Nat /\ now[t] <= clock
        /\ value[t] \in Int /\ size[t] \in Nat
        /\ Budget(lastRefill) \in Nat
    BY Numbers, BudgetGrows
  <2>1. /\ pc \in [Threads -> Places] /\ size \in [Threads -> Sizes \cup {0}]
        /\ now \in [Threads -> 0..clock] /\ value \in [Threads -> Int]
        /\ Capacity \in Nat /\ Sizes \subseteq Nat
    <3>1. TypeOK /\ Capacity \in Nat /\ Sizes \subseteq Nat
      BY BucketAssumption, BucketWorks DEF BoundInv
    <3> QED
      BY <3>1 DEF TypeOK
  <2>2. /\ ~overlapped /\ ~critical /\ ~critical' /\ ~overlapped'
        /\ \A u \in Threads \ {t} : pc[u] = "idle" /\ pc'[u] = "idle"
        /\ pc'[t] \in Places
    <3>0. ~overlapped' /\ ~critical'
      BY DEF Orderly
    <3>1. CASE Start(t)
      BY <2>1, <3>0, <3>1 DEF Start, Overlap, Idle
    <3>2. CASE ~Start(t)
      <4>1. Orderly
        BY <3>0, <3>2 DEF ShouldDrop, Orderly, ReadLast, ComputeRefill, StoreTokens, StoreTime,
           Available, WithinRate, Load, Pay, OverRateCritical, OverRateDrop,
           RedKeep, RedDrop, CountLoad, CountStore, history
      <4>2. pc[t] # "idle" /\ \E to \in Places : pc' = [pc EXCEPT ![t] = to]
        BY <3>2 DEF ShouldDrop, ReadLast, ComputeRefill, StoreTokens, StoreTime, Available,
           WithinRate, Load, Pay, OverRateCritical, OverRateDrop, OverRate, RedKeep,
           RedDrop, CountLoad, CountStore
      <4> QED
        BY <2>1, <3>0, <4>1, <4>2 DEF RateInv, Alone, Orderly
    <3> QED
      BY <3>1, <3>2
  <2>3. Alone'
    BY <2>2 DEF Alone
  <2>4. Settled /\ Refilling(t) /\ Paying(t)
    BY <2>2 DEF RateInv, Orderly
  <2>5. \A S \in SUBSET (Places \ {"idle"}) :
            /\ (\A u \in Threads : ~At(u, S)) <=> ~At(t, S)
            /\ (\A u \in Threads : ~At(u, S)') <=> ~At(t, S)'
    BY <2>2 DEF At
  <2>6. SUFFICES /\ tokens' >= 0
                 /\ ~At(t, {"stamping"})' => tokens' + paid' <= Budget(lastRefill)'
                 /\ ~At(t, {"loading", "paying"})' => passed' = paid'
                 /\ Refilling(t)' /\ Paying(t)'
    BY <2>2, <2>3, <2>5 DEF Settled, Refilling, Paying, At
  <2>7. /\ tokens >= 0
        /\ pc[t] # "stamping" => tokens + paid <= Budget(lastRefill)
        /\ pc[t] \notin {"loading", "paying"} => passed = paid
    BY <2>4, <2>5 DEF Settled, At
  <2> USE DEF Refilling, Paying, At
  <2>8. CASE Start(t)
    BY <2>0, <2>1, <2>4, <2>7, <2>8 DEF Start, bucketVars
  <2>8a. CASE ReadLast(t)
    BY <2>0, <2>1, <2>4, <2>7, <2>8a DEF ReadLast, bucketVars, history
  <2>9. CASE ComputeRefill(t)
    <3>0. value[t] = now[t] - lastRefill /\ lastRefill <= now[t]
      BY <2>4, <2>9 DEF ComputeRefill
    <3>1. /\ Budget(now[t]) \in Nat
          /\ value[t] * RefillRate \in Nat
          /\ Budget(lastRefill) + value[t] * RefillRate = Budget(now[t])
      BY <2>0, <3>0, BudgetGrows
    <3>2. /\ Refilled(t) \in Int /\ Refilled(t) >= 0
          /\ Refilled(t) <= tokens + value[t] * RefillRate
      BY <2>0, <2>1, <2>7, <3>1 DEF Refilled, Least
    <3> QED
      BY <2>0, <2>1, <2>4, <2>7, <2>9, <3>1, <3>2 DEF ComputeRefill, bucketVars, history
  <2>10. CASE StoreTokens(t)
    BY <2>0, <2>1, <2>4, <2>7, <2>10 DEF StoreTokens, history
  <2>11. CASE StoreTime(t)
    BY <2>0, <2>1, <2>4, <2>7, <2>11 DEF StoreTime, RefillTime, history
  <2>12. CASE Available(t)
    BY <2>0, <2>1, <2>4, <2>7, <2>12 DEF Available, bucketVars, history
  <2>13. CASE WithinRate(t)
    BY <2>0, <2>1, <2>4, <2>7, <2>13 DEF WithinRate, Enough, bucketVars
  <2>14. CASE Load(t)
    BY <2>0, <2>1, <2>4, <2>7, <2>14 DEF Load, Charged, bucketVars, history
  <2>15. CASE Pay(t)
    BY <2>0, <2>1, <2>4, <2>7, <2>15 DEF Pay
  <2>16. CASE OverRateDrop(t)
    BY <2>0, <2>1, <2>4, <2>7, <2>16 DEF OverRateDrop, OverRate, bucketVars
  <2>17. CASE RedKeep(t)
    BY <2>0, <2>1, <2>4, <2>7, <2>17 DEF RedKeep, bucketVars, history
  <2>18. CASE RedDrop(t)
    BY <2>0, <2>1, <2>4, <2>7, <2>18 DEF RedDrop, bucketVars
  <2>19. CASE CountLoad(t)
    BY <2>0, <2>1, <2>4, <2>7, <2>19 DEF CountLoad, bucketVars, history
  <2>20. CASE CountStore(t)
    BY <2>0, <2>1, <2>4, <2>7, <2>20 DEF CountStore, bucketVars, history
  <2> QED
    BY <2>2, <2>8, <2>8a, <2>9, <2>10, <2>11, <2>12, <2>13, <2>14, <2>15, <2>16, <2>17,
       <2>18, <2>19, <2>20 DEF ShouldDrop, OverRateCritical
<1> QED
  BY <1>1, <1>2, <1>3, <1>4 DEF Next, RateInv

\* The budget bounds what has passed, and at rest what passed was paid.
LEMMA RateInvImplies ==
    ASSUME BoundInv, RateInv
    PROVE  RateBound /\ PassedIsPaid /\ NeverOverdrawn
<1> SUFFICES ASSUME Orderly
             PROVE  /\ passed <= Budget(clock) /\ tokens >= 0
                    /\ Idle => passed = paid
  BY DEF RateBound, PassedIsPaid, NeverOverdrawn, Budget
<1>1. Alone /\ Settled /\ \A t \in Threads : Refilling(t) /\ Paying(t)
  BY DEF RateInv
<1>2. /\ tokens \in Int /\ paid \in Int /\ passed \in Nat /\ clock \in Nat
      /\ lastRefill \in Nat /\ lastRefill <= clock
  <2>1. TypeOK
    BY DEF BoundInv
  <2> QED
    BY <2>1, BucketAssumption DEF TypeOK
<1>3. Budget(clock) \in Nat /\ Budget(lastRefill) \in Nat /\ Budget(lastRefill) <= Budget(clock)
  BY <1>2, BudgetGrows
<1>4. CASE \A t \in Threads : ~At(t, {"stamping", "loading", "paying"})
  BY <1>1, <1>2, <1>3, <1>4 DEF Settled, Idle, At
<1>5. ASSUME NEW t \in Threads, At(t, {"stamping", "loading", "paying"})
      PROVE  passed <= Budget(clock) /\ tokens >= 0 /\ ~Idle
  <2>1. now[t] \in Nat /\ now[t] <= clock /\ size[t] \in Nat /\ value[t] \in Int
    BY Numbers
  <2>2. Budget(now[t]) \in Nat /\ Budget(now[t]) <= Budget(clock)
    BY <1>2, <2>1, BudgetGrows
  <2>3. \A u \in Threads \ {t} : pc[u] = "idle"
    BY <1>1, <1>5 DEF Alone, At
  <2>4. CASE pc[t] = "stamping"
    BY <1>1, <1>2, <1>3, <2>1, <2>2, <2>3, <2>4 DEF Settled, Refilling, Idle, At
  <2>5. CASE pc[t] \in {"loading", "paying"}
    <3>1. tokens + paid <= Budget(lastRefill)
      BY <1>1, <2>3, <2>5 DEF Settled, At
    <3>2. passed = paid + size[t] /\ size[t] <= tokens
      BY <1>1, <1>2, <2>1, <2>5 DEF Paying, At
    <3> QED
      BY <1>1, <1>2, <1>3, <2>1, <2>5, <3>1, <3>2 DEF Settled, Idle
  <2> QED
    BY <1>5, <2>4, <2>5 DEF At
<1> QED
  BY <1>4, <1>5

\* Until two calls overlap, traffic below CRITICAL never gets more through than
\* the capacity and what the rate added (RateBound), for any number of threads,
\* every rate, capacity and size.
THEOREM RateIsKept == Spec => []RateBound
<1>1. Init => RateInv
  BY BucketWorks DEF Init, RateInv, Orderly, Alone, Settled, Refilling, Paying, At, Budget
<1>2. BoundInv /\ RateInv /\ [Next]_vars => RateInv'
  BY StepRateInv
<1>3. BoundInv /\ RateInv => RateBound
  BY RateInvImplies
<1> QED
  BY <1>1, <1>2, <1>3, AlwaysBoundInv, PTL DEF Spec

\* Until two calls overlap, what passed was paid for, byte for byte
\* (PassedIsPaid), and the bucket is never overdrawn (NeverOverdrawn).
THEOREM AccountsBalance == Spec => [](PassedIsPaid /\ NeverOverdrawn)
<1>1. Init => RateInv
  BY BucketWorks DEF Init, RateInv, Orderly, Alone, Settled, Refilling, Paying, At, Budget
<1>2. BoundInv /\ RateInv /\ [Next]_vars => RateInv'
  BY StepRateInv
<1>3. BoundInv /\ RateInv => PassedIsPaid /\ NeverOverdrawn
  BY RateInvImplies
<1> QED
  BY <1>1, <1>2, <1>3, AlwaysBoundInv, PTL DEF Spec

-----------------------------------------------------------------------------
(* The drop counter.  A thread that is about to read it will add its own      *)
(* drop, so the counter and all these threads together stay within the drops. *)
Counting == {t \in Threads : pc[t] = "countLoad"}
AheadInv ==
    /\ dropCount + Cardinality(Counting) <= drops
    /\ \A t \in Threads :
         pc[t] = "countStore" => value[t] + Cardinality(Counting) <= drops

\* A drop brings one thread to the counter, reading it takes one away.
LEMMA CountingMoves ==
    ASSUME TypeOK, NEW t \in Threads
    PROVE  /\ IsFiniteSet(Counting) /\ Cardinality(Counting) \in Nat
           /\ (\E s \in Places \ {"countLoad"} : Go(t, s, "countLoad")) =>
                Cardinality(Counting') = Cardinality(Counting) + 1
           /\ (\E s \in Places \ {"countLoad"} : Go(t, "countLoad", s)) =>
                Cardinality(Counting') = Cardinality(Counting) - 1
           /\ (\E r, s \in Places \ {"countLoad"} : Go(t, r, s)) => Counting' = Counting
<1> USE DEF TypeOK, Go
<1>1. IsFiniteSet(Counting) /\ Cardinality(Counting) \in Nat
  <2>1. Counting \subseteq Threads
    BY DEF Counting
  <2> QED
    BY <2>1, ThreadsAssumption, FS_Subset, FS_CardinalityType
<1>2. ASSUME NEW s \in Places \ {"countLoad"}, Go(t, s, "countLoad")
      PROVE  Cardinality(Counting') = Cardinality(Counting) + 1
  <2>1. Counting' = Counting \cup {t} /\ t \notin Counting
    BY <1>2 DEF Counting
  <2> QED
    BY <1>1, <2>1, FS_AddElement
<1>3. ASSUME NEW s \in Places \ {"countLoad"}, Go(t, "countLoad", s)
      PROVE  Cardinality(Counting') = Cardinality(Counting) - 1
  <2>1. Counting' = Counting \ {t} /\ t \in Counting
    BY <1>3 DEF Counting
  <2> QED
    BY <1>1, <2>1, FS_RemoveElement
<1>4. ASSUME NEW r \in Places \ {"countLoad"}, NEW s \in Places \ {"countLoad"}, Go(t, r, s)
      PROVE  Counting' = Counting
  BY <1>4 DEF Counting
<1> QED
  BY <1>1, <1>2, <1>3, <1>4

\* Lost updates and resets only ever leave the counter behind.
LEMMA StepAheadInv ==
    ASSUME BoundInv, AheadInv, [Next]_vars
    PROVE  AheadInv'
<1>0. /\ TypeOK /\ dropCount \in Nat /\ drops \in Nat /\ \A t \in Threads : value[t] \in Int
      /\ pc \in [Threads -> Places] /\ value \in [Threads -> Int]
  BY DEF BoundInv, TypeOK
<1>1. CASE UNCHANGED <<pc, value, dropCount, drops>>
  BY <1>1 DEF AheadInv, Counting
<1>2. CASE ResetDropCounts
  <2>1. Counting' = Counting /\ UNCHANGED <<pc, value, drops>> /\ dropCount' = 0
    BY <1>2 DEF ResetDropCounts, localVars, Counting
  <2>2. Cardinality(Counting) \in Nat
    BY ThreadsAssumption, FS_Subset, FS_CardinalityType DEF Counting
  <2> QED
    BY <1>0, <2>1, <2>2 DEF AheadInv
<1>3. ASSUME NEW t \in Threads,
             Start(t) \/ ReadLast(t) \/ ComputeRefill(t) \/ StoreTokens(t) \/ StoreTime(t) \/ Available(t)
               \/ WithinRate(t) \/ Load(t) \/ Pay(t) \/ OverRateCritical(t) \/ RedKeep(t)
      PROVE  AheadInv'
  <2>1. /\ \E r, s \in Places \ {"countLoad", "countStore"} : Go(t, r, s)
        /\ UNCHANGED <<dropCount, drops>>
        /\ \A u \in Threads \ {t} : value'[u] = value[u]
    BY <1>0, <1>3 DEF Start, ReadLast, ComputeRefill, StoreTokens, StoreTime, Available, WithinRate,
       Load, Pay, OverRateCritical, RedKeep, Keep, bucketVars, history
  <2>2. Counting' = Counting
    BY <1>0, <2>1, CountingMoves
  <2> QED
    BY <1>0, <2>1, <2>2 DEF AheadInv, Go
<1>4. ASSUME NEW t \in Threads, OverRateDrop(t) \/ RedDrop(t) PROVE AheadInv'
  <2>1. /\ \E s \in Places \ {"countLoad"} : Go(t, s, "countLoad")
        /\ UNCHANGED <<dropCount, value>> /\ drops' = drops + 1
    BY <1>4 DEF OverRateDrop, OverRate, RedDrop, Go
  <2>2. Cardinality(Counting') = Cardinality(Counting) + 1 /\ Cardinality(Counting) \in Nat
    BY <1>0, <2>1, CountingMoves
  <2> QED
    BY <1>0, <2>1, <2>2 DEF AheadInv, Go
<1>5. ASSUME NEW t \in Threads, CountLoad(t) PROVE AheadInv'
  <2>1. /\ Go(t, "countLoad", "countStore") /\ value' = [value EXCEPT ![t] = dropCount + 1]
        /\ UNCHANGED <<dropCount, drops>>
    BY <1>5 DEF CountLoad, Keep, history
  <2>2. Cardinality(Counting') = Cardinality(Counting) - 1 /\ Cardinality(Counting) \in Nat
    BY <1>0, <2>1, CountingMoves
  <2> QED
    BY <1>0, <2>1, <2>2 DEF AheadInv, Go
<1>6. ASSUME NEW t \in Threads, CountStore(t) PROVE AheadInv'
  <2>1. /\ Go(t, "countStore", "idle") /\ dropCount' = value[t] /\ UNCHANGED drops
        /\ value' = [value EXCEPT ![t] = 0]
    BY <1>6 DEF CountStore, Keep, history
  <2>2. Counting' = Counting
    BY <1>0, <2>1, CountingMoves
  <2> QED
    BY <1>0, <2>1, <2>2 DEF AheadInv, Go
<1> QED
  BY <1>1, <1>2, <1>3, <1>4, <1>5, <1>6 DEF Next, ShouldDrop, Tick, vars, localVars, history

\* As long as calls do not overlap, the counter lacks only the drop that is
\* being counted.
ExactInv ==
    ~overlapped =>
      /\ Alone
      /\ \A t \in Threads :
           /\ pc[t] = "countLoad" => dropCount + 1 = drops - forgotten
           /\ pc[t] = "countStore" => value[t] = drops - forgotten
      /\ (\A t \in Threads : pc[t] \notin {"countLoad", "countStore"}) =>
           dropCount = drops - forgotten

\* Every step keeps the counter exact until two calls overlap, or a reset comes
\* in the middle of one.
LEMMA StepExactInv ==
    ASSUME BoundInv, ExactInv, [Next]_vars
    PROVE  ExactInv'
<1>0. /\ dropCount \in Nat /\ drops \in Nat /\ forgotten \in Nat
      /\ pc \in [Threads -> Places] /\ value \in [Threads -> Int] /\ overlapped \in BOOLEAN
  BY DEF BoundInv, TypeOK
<1>1. CASE UNCHANGED <<pc, value, dropCount, drops, forgotten, overlapped>>
  BY <1>1 DEF ExactInv, Alone
<1>2. CASE ResetDropCounts
  <2>1. /\ UNCHANGED <<pc, value, drops>> /\ dropCount' = 0 /\ forgotten' = drops
        /\ ~overlapped' => \A t \in Threads : pc[t] = "idle"
    BY <1>2 DEF ResetDropCounts, Overlap, Idle, localVars
  <2> QED
    BY <1>0, <2>1 DEF ExactInv, Alone
<1>3. ASSUME NEW t \in Threads, Start(t) PROVE ExactInv'
  BY <1>0, <1>3 DEF Start, Go, Overlap, Idle, ExactInv, Alone
<1>4. ASSUME NEW t \in Threads, ShouldDrop(t), ~Start(t) PROVE ExactInv'
  <2>1. /\ pc[t] # "idle" /\ overlapped' = overlapped /\ forgotten' = forgotten
        /\ \E to \in Places : pc' = [pc EXCEPT ![t] = to]
        /\ \A u \in Threads \ {t} : value'[u] = value[u]
    BY <1>0, <1>4 DEF ShouldDrop, ReadLast, ComputeRefill, StoreTokens, StoreTime, Available, WithinRate,
       Load, Pay, OverRateCritical, OverRateDrop, OverRate, RedKeep, RedDrop, CountLoad,
       CountStore, Go, Keep, history
  <2>2. SUFFICES ASSUME ~overlapped PROVE ExactInv'
    BY <2>1 DEF ExactInv
  <2>3. /\ Alone'
        /\ \A u \in Threads \ {t} : pc[u] = "idle" /\ pc'[u] = "idle"
    BY <1>0, <2>1, <2>2 DEF ExactInv, Alone
  <2>4. /\ pc[t] = "countLoad" => dropCount + 1 = drops - forgotten
        /\ pc[t] = "countStore" => value[t] = drops - forgotten
        /\ pc[t] \notin {"countLoad", "countStore"} => dropCount = drops - forgotten
    BY <2>2, <2>3 DEF ExactInv
  <2>5. /\ pc'[t] = "countLoad" => dropCount' + 1 = drops' - forgotten
        /\ pc'[t] = "countStore" => value'[t] = drops' - forgotten
        /\ pc'[t] \notin {"countLoad", "countStore"} => dropCount' = drops' - forgotten
    BY <1>0, <1>4, <2>4 DEF ShouldDrop, ReadLast, ComputeRefill, StoreTokens, StoreTime, Available,
       WithinRate, Load, Pay, OverRateCritical, OverRateDrop, OverRate, RedKeep, RedDrop,
       CountLoad, CountStore, Go, Keep, bucketVars, history
  <2> QED
    BY <2>1, <2>3, <2>5 DEF ExactInv
<1> QED
  BY <1>1, <1>2, <1>3, <1>4 DEF Next, Tick, vars, localVars, history

\* drop_counts() never runs ahead of the decisions, and is exact as long as no
\* calls overlap (DropsCounted), for any number of threads.
THEOREM DropCountHonest == Spec => []DropsCounted
<1>1. Init => AheadInv /\ ExactInv
  <2> SUFFICES ASSUME Init PROVE AheadInv /\ ExactInv
    OBVIOUS
  <2>1. /\ dropCount = 0 /\ drops = 0 /\ forgotten = 0 /\ \A t \in Threads : pc[t] = "idle"
    BY DEF Init
  <2>2. Counting = {}
    BY <2>1 DEF Counting
  <2> QED
    BY <2>1, <2>2, FS_EmptySet DEF AheadInv, ExactInv, Alone
<1>2. BoundInv /\ AheadInv /\ ExactInv /\ [Next]_vars => AheadInv' /\ ExactInv'
  BY StepAheadInv, StepExactInv
<1>3. BoundInv /\ AheadInv /\ ExactInv => DropsCounted
  <2> SUFFICES ASSUME BoundInv, AheadInv, ExactInv PROVE DropsCounted
    OBVIOUS
  <2>1. IsFiniteSet(Counting) /\ Cardinality(Counting) \in Nat
    BY ThreadsAssumption, FS_Subset, FS_CardinalityType DEF Counting
  <2>2. dropCount \in Nat /\ drops \in Nat
    BY DEF BoundInv, TypeOK
  <2> QED
    BY <2>1, <2>2 DEF AheadInv, ExactInv, DropsCounted, Idle
<1> QED
  BY <1>1, <1>2, <1>3, AlwaysBoundInv, PTL DEF Spec
=============================================================================
