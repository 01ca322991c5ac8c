----------------------------- MODULE PacketFilter ----------------------------
(***************************************************************************)
(* PacketFilter.should_drop() and the TokenBucket it asks                  *)
(* (packet_filter.py), for the packets of one priority class.  The buckets *)
(* of different classes share nothing, so one is enough.                   *)
(*                                                                         *)
(* Nothing here takes a lock, and BandwidthOptimizer.process() is called   *)
(* by several threads (stress.py), so each read and each assignment of the *)
(* shared fields is a step of its own.  Time is a counter of ticks, one    *)
(* refill_rate of tokens each.  The verdict of RED is left open; Optimizer *)
(* models its thresholds.                                                  *)
(*                                                                         *)
(*   idle -Start-> reading -ReadLast-> computing -ComputeRefill->          *)
(*   refilling -StoreTokens-> stamping -StoreTime-> testing                *)
(*   -WithinRate-> loading -Load-> paying -Pay-> red -RedKeep-> idle,      *)
(*   or red -RedDrop-> countLoad -> countStore -> idle,                    *)
(*   and from testing, over the rate, to countLoad, or to red if CRITICAL. *)
(*   available() is the same up to testing, and returns from there.        *)
(***************************************************************************)
EXTENDS Integers, FiniteSets

CONSTANTS
    Threads,     \* threads inside should_drop()
    Sizes,       \* values of packet.size_bytes
    TokenRefillRate,     \* config.token_refill_rate of the class, or NoRate
    BudgetShare,         \* its config.bandwidth_budget, in percent
    TotalBandwidth,      \* config.total_bandwidth_bps, in hundreds
    CapacityMultiplier,  \* config.token_bucket_capacity_multiplier
    MaxTime,     \* bound: ticks
    MaxPackets   \* bound: calls of should_drop() and of available()

NoRate == -1

ASSUME ThreadsAssumption == IsFiniteSet(Threads)
ASSUME BucketAssumption ==
    /\ TokenRefillRate \in Nat \cup {NoRate}
    /\ BudgetShare \in Nat /\ TotalBandwidth \in Nat
    /\ CapacityMultiplier \in Nat \ {0}
    /\ Sizes \subseteq Nat
    /\ MaxTime \in Nat /\ MaxPackets \in Nat

\* config.effective_refill_rate(): an explicit rate, or the share of the total.
EffectiveRefillRate ==
    IF TokenRefillRate # NoRate THEN TokenRefillRate ELSE BudgetShare * TotalBandwidth

\* _init_buckets(): a class without a rate gets the floor of one token a tick.
RefillRate == IF EffectiveRefillRate <= 0 THEN 1 ELSE EffectiveRefillRate
Capacity == RefillRate * CapacityMultiplier

VARIABLES
    critical,    \* is the class CRITICAL?  (never changes)
    clock,       \* time.monotonic()
    tokens,      \* bucket._tokens
    lastRefill,  \* bucket._last_refill
    dropCount,   \* self._drop_counts of the class
    pc,          \* where each thread is
    size,        \* the size of its packet
    now, value,  \* its locals: the time read, the elapsed time or the number
                 \*   to be stored
    calls,       \* history: calls of should_drop()
    passed,      \* history: bytes that passed the bucket stage
    paid,        \* history: tokens taken from the bucket
    drops,       \* history: drop decisions taken
    forgotten,   \* history: drops at the last reset_drop_counts()
    overlapped   \* history: has a call begun, or a reset happened, during a call?

bucketVars == <<tokens, lastRefill>>
localVars == <<pc, size, now, value>>
history == <<calls, passed, paid, drops, forgotten, overlapped>>
vars == <<critical, clock, bucketVars, dropCount, localVars, history>>

Places == {"idle", "reading", "computing", "refilling", "stamping", "testing",
           "loading", "paying", "red", "countLoad", "countStore"}

Init ==
    /\ critical \in BOOLEAN
    /\ clock = 0
    /\ tokens = Capacity
    /\ lastRefill = 0
    /\ dropCount = 0
    /\ pc = [t \in Threads |-> "idle"]
    /\ size = [t \in Threads |-> 0]
    /\ now = [t \in Threads |-> 0]
    /\ value = [t \in Threads |-> 0]
    /\ calls = 0 /\ passed = 0 /\ paid = 0
    /\ drops = 0 /\ forgotten = 0 /\ overlapped = FALSE

-----------------------------------------------------------------------------
(* Variants with a plausible bug; the properties notice each of them.      *)
Refilled_NoCap(t) == tokens + value[t] * RefillRate
RefillTime_Kept(t) == lastRefill
Charged_PerPacket(t) == tokens - 1
OverRate_Uncounted == "idle"

-----------------------------------------------------------------------------
Go(t, from, to) == pc[t] = from /\ pc' = [pc EXCEPT ![t] = to]
Keep(t, n) == value' = [value EXCEPT ![t] = n]

Tick ==
    /\ clock < MaxTime
    /\ clock' = clock + 1
    /\ UNCHANGED <<critical, bucketVars, dropCount, localVars, history>>

Idle == \A t \in Threads : pc[t] = "idle"
Overlap == overlapped' = (overlapped \/ ~Idle)

\* should_drop() -> consume() -> _refill() reads the clock ...
Start(t) ==
    /\ calls < MaxPackets
    /\ Go(t, "idle", "reading")
    /\ \E n \in Sizes : size' = [size EXCEPT ![t] = n]
    /\ now' = [now EXCEPT ![t] = clock]
    /\ calls' = calls + 1
    /\ Overlap
    /\ UNCHANGED <<critical, clock, bucketVars, dropCount, value, passed, paid,
                   drops, forgotten>>

Least(a, b) == IF a <= b THEN a ELSE b
Refilled(t) == Least(Capacity, tokens + value[t] * RefillRate)

\* ... the time of the last refill ...
ReadLast(t) ==
    /\ Go(t, "reading", "computing")
    /\ Keep(t, now[t] - lastRefill)
    /\ UNCHANGED <<critical, clock, bucketVars, dropCount, size, now, history>>

\* ... and the level, computes the new level ...
ComputeRefill(t) ==
    /\ Go(t, "computing", "refilling")
    /\ Keep(t, Refilled(t))
    /\ UNCHANGED <<critical, clock, bucketVars, dropCount, size, now, history>>

\* ... and assigns the level and the time.
StoreTokens(t) ==
    /\ Go(t, "refilling", "stamping")
    /\ tokens' = value[t]
    /\ Keep(t, 0)
    /\ UNCHANGED <<critical, clock, lastRefill, dropCount, size, now, history>>

RefillTime(t) == now[t]

StoreTime(t) ==
    /\ Go(t, "stamping", "testing")
    /\ lastRefill' = RefillTime(t)
    /\ now' = [now EXCEPT ![t] = 0]
    /\ UNCHANGED <<critical, clock, tokens, dropCount, size, value, history>>

Enough(t) == size[t] <= tokens

\* consume(): nbytes <= self._tokens ...
WithinRate(t) ==
    /\ Enough(t)
    /\ Go(t, "testing", "loading")
    /\ passed' = passed + size[t]
    /\ UNCHANGED <<critical, clock, bucketVars, dropCount, size, now, value, calls, paid, drops,
                   forgotten, overlapped>>

Charged(t) == tokens - size[t]

\* available() returns after the refill; only here it differs from consume().
Available(t) ==
    /\ Go(t, "testing", "idle")
    /\ size' = [size EXCEPT ![t] = 0]
    /\ UNCHANGED <<critical, clock, bucketVars, dropCount, now, value, history>>

\* ... then self._tokens -= nbytes, in two halves.
Load(t) ==
    /\ Go(t, "loading", "paying")
    /\ Keep(t, Charged(t))
    /\ UNCHANGED <<critical, clock, bucketVars, dropCount, size, now, history>>

Pay(t) ==
    /\ Go(t, "paying", "red")
    /\ tokens' = value[t]
    /\ paid' = paid + (tokens - tokens')
    /\ Keep(t, 0)
    /\ UNCHANGED <<critical, clock, lastRefill, dropCount, size, now, calls, passed, drops,
                   forgotten, overlapped>>

OverRate == "countLoad"

\* consume() says no: a CRITICAL packet goes on all the same ...
OverRateCritical(t) ==
    /\ ~Enough(t) /\ critical
    /\ Go(t, "testing", "red")
    /\ passed' = passed + size[t]
    /\ UNCHANGED <<critical, clock, bucketVars, dropCount, size, now, value, calls, paid, drops,
                   forgotten, overlapped>>

\* ... any other is dropped and counted.
OverRateDrop(t) ==
    /\ ~Enough(t) /\ ~critical
    /\ Go(t, "testing", OverRate)
    /\ drops' = drops + 1
    /\ UNCHANGED <<critical, clock, bucketVars, dropCount, size, now, value, calls, passed, paid,
                   forgotten, overlapped>>

\* The RED stage: CRITICAL always passes, other traffic may be dropped.
RedKeep(t) ==
    /\ Go(t, "red", "idle")
    /\ size' = [size EXCEPT ![t] = 0]
    /\ UNCHANGED <<critical, clock, bucketVars, dropCount, now, value, history>>

RedDrop(t) ==
    /\ ~critical
    /\ Go(t, "red", "countLoad")
    /\ drops' = drops + 1
    /\ UNCHANGED <<critical, clock, bucketVars, dropCount, size, now, value, calls, passed, paid,
                   forgotten, overlapped>>

\* self._drop_counts[priority] += 1, in two halves.
CountLoad(t) ==
    /\ Go(t, "countLoad", "countStore")
    /\ Keep(t, dropCount + 1)
    /\ UNCHANGED <<critical, clock, bucketVars, dropCount, size, now, history>>

CountStore(t) ==
    /\ Go(t, "countStore", "idle")
    /\ dropCount' = value[t]
    /\ Keep(t, 0)
    /\ size' = [size EXCEPT ![t] = 0]
    /\ UNCHANGED <<critical, clock, bucketVars, now, history>>

\* reset_drop_counts(), which reset_stats() calls while threads are at work.
ResetDropCounts ==
    /\ dropCount' = 0
    /\ forgotten' = drops
    /\ Overlap
    /\ UNCHANGED <<critical, clock, bucketVars, localVars, calls, passed, paid, drops>>

ShouldDrop(t) ==
    \/ Start(t) \/ ReadLast(t) \/ ComputeRefill(t) \/ StoreTokens(t) \/ StoreTime(t)
    \/ Available(t) \/ WithinRate(t) \/ Load(t) \/ Pay(t)
    \/ OverRateCritical(t) \/ OverRateDrop(t)
    \/ RedKeep(t) \/ RedDrop(t) \/ CountLoad(t) \/ CountStore(t)

Next == Tick \/ ResetDropCounts \/ \E t \in Threads : ShouldDrop(t)

Spec == Init /\ [][Next]_vars
\* The state has the shape the code gives it.
TypeOK ==
    /\ critical \in BOOLEAN /\ overlapped \in BOOLEAN
    /\ clock \in 0..MaxTime /\ calls \in 0..MaxPackets
    /\ tokens \in Int /\ lastRefill \in 0..clock /\ dropCount \in Nat
    /\ pc \in [Threads -> Places]
    /\ size \in [Threads -> Sizes \cup {0}]
    /\ now \in [Threads -> 0..clock]
    /\ value \in [Threads -> Int]
    /\ passed \in Nat /\ paid \in Int /\ drops \in Nat /\ forgotten \in Nat

\* The bucket never holds more than its capacity, whatever the threads do to
\* it (packet_filter.py 34-35).
NeverOverfull == tokens <= Capacity

\* The class pays for what it sends, and no two calls have overlapped so far.
Orderly == ~overlapped /\ ~critical

\* "A packet may only pass if the bucket has enough tokens" (packet_filter.py
\* 6-8): the tokens never go below zero, as long as no two calls overlap.  Two
\* that do may both find enough tokens before either takes its share.
NeverOverdrawn == Orderly => tokens >= 0

\* What the rate limiter is for, over any history of calls that do not overlap,
\* from however many threads: what traffic other than CRITICAL got through is
\* at most the capacity and what the rate added since the start.
RateBound == Orderly => passed <= Capacity + RefillRate * clock

\* drop_counts() never runs ahead of the decisions, although threads may lose
\* updates and bring a count back that a reset has just cleared; when no two
\* calls overlapped it is, at rest, what was dropped since the last reset.
DropsCounted ==
    /\ dropCount <= drops
    /\ Idle /\ ~overlapped => dropCount = drops - forgotten

\* The bucket's accounting is accurate (packet_filter.py 104-105): for a class
\* that the limiter may drop, at rest and without overlaps, what passed the
\* bucket has been taken from it, byte for byte.  A CRITICAL packet over its
\* rate passes without paying (lines 58-61 and 143), so the doc's claim that
\* CRITICAL packets "still consume tokens" holds only within the rate.
PassedIsPaid == Orderly /\ Idle => passed = paid
=============================================================================
