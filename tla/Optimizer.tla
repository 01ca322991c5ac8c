------------------------------ MODULE Optimizer ------------------------------
(***************************************************************************)
(* BandwidthOptimizer (optimizer.py): process() carries a packet through   *)
(* filtering and queueing while other threads do the same, dequeue()       *)
(* forwards.  The queue is AbstractQueue, which the schedulers implement   *)
(* (SchedulerQueue!ImplementsQueue).                                       *)
(*                                                                         *)
(* process() takes no lock of its own, so it is a sequence of steps.  The  *)
(* two counters are read and written back in separate steps, as the byte   *)
(* code of "+=" is.  The verdict of the token bucket is left open          *)
(* (PacketFilter models it); RED reads the length of the queue, and the    *)
(* packet enters the queue in a later step.  Flow tracking, classification *)
(* and compression change no state of this module: Priority and            *)
(* Coefficient are what stages 0-1c leave in the packet.                   *)
(*                                                                         *)
(*   idle -> counting -> filtering -> enqueuing -> delivered -> done       *)
(*                                 -> refused -> dropping -> lost -> done  *)
(***************************************************************************)
EXTENDS AbstractQueue, TrafficClasses, FiniteSetsExt

CONSTANTS
    Priority,      \* packet.priority after stage 1b
    Coefficient,   \* packet.value_coefficient after stage 1c
    MaxQueueSize,  \* config.max_queue_size
    RedMinPct,     \* config.red_min_threshold, in percent
    RedMaxPct,     \* config.red_max_threshold, in percent
    Pvm,           \* a FlowValuePolicy was supplied
    Workers,       \* bound: how many threads are inside process() at once
    MaxResets      \* bound: how often reset_stats() is called

ASSUME PacketsAssumption == IsFiniteSet(Packets)
ASSUME PriorityAssumption == Priority \in [Packets -> {NoPriority} \cup TrafficPriority]
ASSUME CoefficientAssumption == Coefficient \in [Packets -> Int]
ASSUME QueueAssumption == MaxQueueSize \in Int
ASSUME RedAssumption == RedMinPct \in Int /\ RedMaxPct \in Int
ASSUME WorkersAssumption == Workers \in Nat /\ Workers >= 1

VARIABLES
    stage,          \* how far process() has come with each packet
    loaded,         \* the counter value read by a "+=" and not yet written
                    \*   back, 0 when there is none
    totalIn,        \* self._total_in
    totalDropped,   \* self._total_dropped
    valueDelivered, \* value_tracker._total_delivered
    valueLost,      \* value_tracker._total_dropped
    resetStage,     \* how far reset_stats() has come
    resets,         \* history: number of reset_stats() calls
    overlapped      \* history: two calls of process() have overlapped

counters == <<totalIn, totalDropped>>
tracker == <<valueDelivered, valueLost>>
resetVars == <<resetStage, resets>>
vars == <<aqVars, stage, loaded, counters, tracker, resetVars, overlapped>>

Stages == {"idle", "counting", "filtering", "enqueuing", "delivered",
           "refused", "dropping", "lost", "done"}

At(s) == {p \in Packets : stage[p] = s}
InProcess == Packets \ (At("idle") \cup At("done"))
IsCritical(p) == PriorityOf(Priority[p]) = CRITICAL

\* Which scheduler the constructor picks; a configuration gives Rank and
\* Capacity these values.
QueueRank == [p \in Packets |->
    IF Pvm THEN -EffectiveValue(Coefficient[p], Priority[p])
           ELSE PriorityOf(Priority[p])]
QueueCapacity == IF MaxQueueSize < 1 THEN 1 ELSE MaxQueueSize

Init ==
    /\ AQInit
    /\ stage = [p \in Packets |-> "idle"]
    /\ loaded = [p \in Packets |-> 0]
    /\ totalIn = 0 /\ totalDropped = 0
    /\ valueDelivered = 0 /\ valueLost = 0
    /\ resetStage = "idle" /\ resets = 0
    /\ overlapped = FALSE

Move(p, from, to) == stage[p] = from /\ stage' = [stage EXCEPT ![p] = to]

-----------------------------------------------------------------------------
(* Variants with a plausible bug; the properties notice each of them.      *)
RedFull_Exclusive ==
    /\ MaxQueueSize > 0 /\ Cardinality(waiting) * 100 >= RedMinPct * MaxQueueSize
    /\ Cardinality(waiting) * 100 > RedMaxPct * MaxQueueSize
Delivers_Twice(p) == valueDelivered + 2 * Coefficient[p]
Bump_Twice(n) == n + 2
AfterDrop_Uncounted == "done"

-----------------------------------------------------------------------------
Bump(n) == n + 1

\* self._total_in += 1, first half: the thread reads the counter.
Receive(p) ==
    /\ Cardinality(InProcess) < Workers
    /\ Move(p, "idle", "counting")
    /\ loaded' = [loaded EXCEPT ![p] = totalIn]
    /\ overlapped' = (overlapped \/ InProcess # {})
    /\ UNCHANGED <<resetVars, aqVars, counters, tracker>>

\* ... second half: it writes the sum back.
CountIn(p) ==
    /\ Move(p, "counting", "filtering")
    /\ totalIn' = Bump(loaded[p])
    /\ loaded' = [loaded EXCEPT ![p] = 0]
    /\ UNCHANGED <<overlapped, resetVars, aqVars, totalDropped, tracker>>

\* _red_check: below red_min_threshold it spares every packet, whatever
\* red_max_threshold is (the configuration does not order the two) ...
RedSpares ==
    MaxQueueSize <= 0 \/ Cardinality(waiting) * 100 < RedMinPct * MaxQueueSize

\* ... then, filled to red_max_threshold or beyond, it spares none ...
RedFull ==
    ~RedSpares /\ Cardinality(waiting) * 100 >= RedMaxPct * MaxQueueSize

\* ... and between the two a random draw may drop, except at
\* red_min_threshold itself, where its probability is 0.
RedMayDrop ==
    \/ RedFull
    \/ ~RedSpares /\ Cardinality(waiting) * 100 > RedMinPct * MaxQueueSize

\* should_drop() answers "keep": CRITICAL always passes, other traffic when
\* it is within its rate and RED spares it.
Keep(p) ==
    /\ IsCritical(p) \/ ~RedFull
    /\ Move(p, "filtering", "enqueuing")
    /\ UNCHANGED <<overlapped, resetVars, aqVars, loaded, counters, tracker>>

AfterDrop == "refused"

\* should_drop() answers "drop": over the rate, or by RED.
RateLimit(p) ==
    /\ ~IsCritical(p)
    /\ Move(p, "filtering", AfterDrop)
    /\ UNCHANGED <<overlapped, resetVars, aqVars, loaded, counters, tracker>>

RedDrop(p) ==
    /\ ~IsCritical(p)
    /\ RedMayDrop
    /\ Move(p, "filtering", AfterDrop)
    /\ UNCHANGED <<overlapped, resetVars, aqVars, loaded, counters, tracker>>

\* self._total_dropped += 1, in two halves.
LoadDropped(p) ==
    /\ Move(p, "refused", "dropping")
    /\ loaded' = [loaded EXCEPT ![p] = totalDropped]
    /\ UNCHANGED <<overlapped, resetVars, aqVars, counters, tracker>>

StoreDropped(p) ==
    /\ Move(p, "dropping", IF Pvm THEN "lost" ELSE "done")
    /\ totalDropped' = Bump(loaded[p])
    /\ loaded' = [loaded EXCEPT ![p] = 0]
    /\ UNCHANGED <<overlapped, resetVars, aqVars, totalIn, tracker>>

RecordDropped(p) ==
    /\ Move(p, "lost", "done")
    /\ valueLost' = valueLost + Coefficient[p]
    /\ UNCHANGED <<overlapped, resetVars, aqVars, loaded, counters, valueDelivered>>

\* scheduler.enqueue(); its answer is not looked at.
Enqueue(p) ==
    /\ Move(p, "enqueuing", IF Pvm THEN "delivered" ELSE "done")
    /\ Put(p) \/ PutFull(p)
    /\ UNCHANGED <<overlapped, resetVars, loaded, counters, tracker>>

Delivers(p) == valueDelivered + Coefficient[p]

RecordDelivered(p) ==
    /\ Move(p, "delivered", "done")
    /\ valueDelivered' = Delivers(p)
    /\ UNCHANGED <<overlapped, resetVars, aqVars, loaded, counters, valueLost>>

Dequeue(p) ==
    /\ Get(p)
    /\ UNCHANGED <<overlapped, resetVars, stage, loaded, counters, tracker>>

\* reset_stats() clears the counters one after the other, then the tracker.
ResetReceived ==
    /\ resetStage = "idle" /\ resets < MaxResets
    /\ totalIn' = 0
    /\ resetStage' = "dropped" /\ resets' = resets + 1
    /\ UNCHANGED <<overlapped, aqVars, stage, loaded, totalDropped, tracker>>

ResetDropped ==
    /\ resetStage = "dropped"
    /\ totalDropped' = 0
    /\ resetStage' = IF Pvm THEN "tracker" ELSE "idle"
    /\ UNCHANGED <<overlapped, aqVars, stage, loaded, totalIn, tracker, resets>>

ResetTracker ==
    /\ resetStage = "tracker"
    /\ valueDelivered' = 0 /\ valueLost' = 0
    /\ resetStage' = "idle"
    /\ UNCHANGED <<overlapped, aqVars, stage, loaded, counters, resets>>

Process(p) ==
    \/ Receive(p) \/ CountIn(p)
    \/ Keep(p) \/ RateLimit(p) \/ RedDrop(p)
    \/ LoadDropped(p) \/ StoreDropped(p) \/ RecordDropped(p)
    \/ Enqueue(p) \/ RecordDelivered(p)

Next ==
    \/ \E p \in Packets : Process(p) \/ Dequeue(p)
    \/ ResetReceived \/ ResetDropped \/ ResetTracker

Spec == Init /\ [][Next]_vars

-----------------------------------------------------------------------------
\* The coefficients of a set of packets, summed.
Value(S) == MapThenSumSet(LAMBDA p : Coefficient[p], S)

Admitted == waiting \cup forwarded \cup lost
Filtered == At("done") \ Admitted
Quiet == InProcess = {} /\ resets = 0

\* The state has the shape the code gives it, and what the queue has seen is
\* what process() handed to it.
TypeOK ==
    /\ stage \in [Packets -> Stages]
    /\ loaded \in [Packets -> Nat]
    /\ totalIn \in Nat /\ totalDropped \in Nat
    /\ valueDelivered \in Int /\ valueLost \in Int
    /\ resetStage \in {"idle", "dropped", "tracker"}
    /\ resets \in Nat /\ overlapped \in BOOLEAN
    /\ Admitted \subseteq At("delivered") \cup At("done")

\* From this filling on RED lets nothing through: red_max_threshold, or
\* red_min_threshold when that is the higher one.
RedThreshold == Max({0, RedMinPct, RedMaxPct})

\* RED reads the queue length and the packet is queued later (optimizer.py
\* 126-147), so concurrent calls may overshoot RED's threshold; but only by
\* what the other threads hold: the traffic RED applies to, queued or admitted,
\* never exceeds the threshold by more than one packet per thread.
RedTraffic == {p \in waiting \cup At("enqueuing") : ~IsCritical(p)}
NonCriticalBounded ==
    MaxQueueSize > 0 =>
      (Cardinality(RedTraffic) - Workers) * 100 < RedThreshold * MaxQueueSize

\* As long as no two calls overlapped, every packet is in the statistics exactly
\* once: packets_received is what was dropped by the filter, what waits, what
\* was forwarded and what overflow cost (test_optimizer.py 118-126).
NothingVanishes ==
    ~overlapped /\ Quiet =>
        totalIn = totalDropped + Cardinality(waiting) + Cardinality(forwarded)
                  + Cardinality(lost)

\* With several threads the "+=" may lose updates, but never invents any: the
\* counters of stats() stay at or below what really happened.
NeverOvercounts ==
    /\ totalIn <= Cardinality(Packets \ (At("idle") \cup At("counting")))
    /\ totalDropped <= Cardinality(Filtered \cup At("lost"))

\* The value tracker has a lock and misses nothing whatever the threads do: its
\* totals are the value of what the filter admitted and of what it refused.
ValueCountsAdmitted ==
    Pvm /\ Quiet => /\ valueDelivered = Value(Admitted)
                    /\ valueLost = Value(Filtered)

\* "Record that value units of business value were successfully delivered"
\* (value.py 737): at rest, value counted as delivered belongs to packets that
\* wait or were forwarded, not to packets the full queue refused or evicted.
DeliveredIsNotLost ==
    Pvm /\ Quiet => valueDelivered = Value(waiting \cup forwarded)
=============================================================================
