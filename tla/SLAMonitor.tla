------------------------------ MODULE SLAMonitor -----------------------------
(***************************************************************************)
(* SLAMonitor (sla.py 182-330): it times every process() of the optimizer  *)
(* and throws away, at dequeue(), what has waited too long.  The queue     *)
(* inside the optimizer is AbstractQueue; the filter's verdict is open.    *)
(*                                                                         *)
(* Each packet is one call of process(), by a thread of its own, and the   *)
(* Consumers call dequeue() at the same time.  A violation is recorded in  *)
(* one locked section and an expired packet counted in another, so the     *)
(* statistics may be read, or reset, between the two:                      *)
(*                                                                         *)
(*   process()  new -Admit-> late -RecordPipeline-> done                   *)
(*                        -> done                                          *)
(*   dequeue()  idle -Pull-> checking -Return-> idle                       *)
(*              checking -Expire-> counting -CountExpired-> pulling          *)
(*              pulling -Pull-> checking, -PullNone-> idle                   *)
(*                                                                         *)
(* The ring of recent violations only feeds the report; it is left out.    *)
(***************************************************************************)
EXTENDS AbstractQueue, TrafficClasses

CONSTANTS
    Consumers,        \* threads that call dequeue()
    Priority,         \* packet.priority after process(), or NoPriority
    PipelineCeiling,  \* config.pipeline_ceiling_us, in ticks
    SojournCeiling,   \* config.sojourn_ceiling_ms, in ticks; a class outside
                      \*   the domain of either has no ceiling
    MaxTime,          \* bound: ticks
    MaxResets         \* bound: how often reset_sla_stats() is called

ASSUME SLAAssumption ==
    /\ IsFiniteSet(Packets) /\ IsFiniteSet(Consumers)
    /\ Priority \in [Packets -> {NoPriority} \cup TrafficPriority]
    /\ DOMAIN PipelineCeiling \subseteq TrafficPriority
    /\ DOMAIN SojournCeiling \subseteq TrafficPriority
    /\ MaxTime \in Nat /\ MaxResets \in Nat

VARIABLES
    clock,               \* time.monotonic() and time.perf_counter_ns()
    call,                \* how far process() has come with each packet
    enqueuedAt,          \* packet.enqueued_at
    at,                  \* where each consumer is in dequeue()
    inHand,              \* its local packet, as a set: none or one
    pipelineViolations,  \* self._pipeline_violations
    sojournViolations,   \* self._sojourn_violations
    packetsExpired,      \* self._packets_expired
    totalViolations,     \* self._total_violations
    returned,            \* history: packets dequeue() returned
    discarded,           \* history: packets dequeue() found expired
    forgotten,           \* history: what resets have cleared of the two counts
    resets               \* history: number of resets

callVars == <<clock, call, enqueuedAt>>
consumerVars == <<at, inHand>>
counters == <<pipelineViolations, sojournViolations, packetsExpired, totalViolations>>
fates == <<returned, discarded>>
resetVars == <<forgotten, resets>>
slaVars == <<aqVars, callVars, consumerVars, counters, fates, resetVars>>

Zero == [c \in TrafficPriority |-> 0]
Total(counts) ==
    counts[CRITICAL] + counts[HIGH] + counts[MEDIUM] + counts[LOW] + counts[BACKGROUND]

Init ==
    /\ AQInit
    /\ clock = 0
    /\ call = [p \in Packets |-> "new"]
    /\ enqueuedAt = [p \in Packets |-> 0]
    /\ at = [c \in Consumers |-> "idle"]
    /\ inHand = [c \in Consumers |-> {}]
    /\ pipelineViolations = Zero /\ sojournViolations = Zero
    /\ packetsExpired = 0 /\ totalViolations = 0
    /\ returned = {} /\ discarded = {}
    /\ forgotten = [expired |-> 0, sojourn |-> 0]
    /\ resets = 0

-----------------------------------------------------------------------------
(* Variants with a plausible bug; the properties notice each of them.      *)
PullNone_Waits(c) ==
    /\ waiting = {} /\ at[c] = "pulling"
    /\ inHand' = [inHand EXCEPT ![c] = {}]
    /\ UNCHANGED <<aqVars, callVars, at, counters, fates, resetVars>>
ResetSlaStats_KeepsExpired ==
    /\ resets < MaxResets
    /\ pipelineViolations' = Zero /\ sojournViolations' = Zero
    /\ totalViolations' = 0
    /\ forgotten' = [expired |-> forgotten.expired + packetsExpired,
                     sojourn |-> forgotten.sojourn + Total(sojournViolations)]
    /\ resets' = resets + 1
    /\ UNCHANGED <<aqVars, callVars, consumerVars, packetsExpired, fates>>
-----------------------------------------------------------------------------
Tick ==
    /\ clock < MaxTime
    /\ clock' = clock + 1
    /\ UNCHANGED <<aqVars, call, enqueuedAt, consumerVars, counters, fates, resetVars>>

\* A class without a ceiling, or a packet without a class, is never late.
Exceeds(ceilings, p, elapsed) ==
    Priority[p] \in DOMAIN ceilings /\ elapsed > ceilings[Priority[p]]

\* process(): the optimizer filters or queues the packet, and the call is timed.
\* It may have begun at any time, which nobody else can see.
Admit(p) ==
    /\ call[p] = "new"
    /\ \/ Put(p) /\ enqueuedAt' = [enqueuedAt EXCEPT ![p] = clock]
       \/ PutFull(p) /\ enqueuedAt' = [enqueuedAt EXCEPT ![p] = clock]
       \/ UNCHANGED <<aqVars, enqueuedAt>>
    /\ \E elapsed \in 0..clock : call' = [call EXCEPT ![p] =
         IF Exceeds(PipelineCeiling, p, elapsed) THEN "late" ELSE "done"]
    /\ UNCHANGED <<clock, consumerVars, counters, fates, resetVars>>

\* _record_violation(): one locked section for the class and the total.
Counted(counts, p) == [counts EXCEPT ![Priority[p]] = @ + 1]

RecordPipeline(p) ==
    /\ call[p] = "late"
    /\ call' = [call EXCEPT ![p] = "done"]
    /\ pipelineViolations' = Counted(pipelineViolations, p)
    /\ totalViolations' = totalViolations + 1
    /\ UNCHANGED <<aqVars, clock, enqueuedAt, consumerVars,
                   sojournViolations, packetsExpired, fates, resetVars>>

-----------------------------------------------------------------------------
Go(c, from, to) == at[c] = from /\ at' = [at EXCEPT ![c] = to]

\* self._optimizer.dequeue(), the first time or again; on an empty queue the
\* first one returns None and leaves no trace.
Pull(c) ==
    /\ \E from \in {"idle", "pulling"} : Go(c, from, "checking")
    /\ \E p \in waiting : Get(p) /\ inHand' = [inHand EXCEPT ![c] = {p}]
    /\ UNCHANGED <<callVars, counters, fates, resetVars>>

PullNone(c) ==
    /\ waiting = {}
    /\ Go(c, "pulling", "idle")
    /\ inHand' = [inHand EXCEPT ![c] = {}]
    /\ UNCHANGED <<aqVars, callVars, counters, fates, resetVars>>

Stale(p) == Exceeds(SojournCeiling, p, clock - enqueuedAt[p])

Return(c) ==
    /\ Go(c, "checking", "idle")
    /\ \A p \in inHand[c] : ~Stale(p)
    /\ returned' = returned \cup inHand[c]
    /\ inHand' = [inHand EXCEPT ![c] = {}]
    /\ UNCHANGED <<aqVars, callVars, counters, discarded, resetVars>>

\* A stale packet is discarded; the violation is recorded under the lock.
Expire(c) ==
    /\ Go(c, "checking", "counting")
    /\ \E p \in inHand[c] :
         Stale(p) /\ sojournViolations' = Counted(sojournViolations, p)
    /\ totalViolations' = totalViolations + 1
    /\ discarded' = discarded \cup inHand[c]
    /\ UNCHANGED <<aqVars, callVars, inHand, pipelineViolations, packetsExpired,
                   returned, resetVars>>

\* continue: the loop tries the next packet.
AfterExpiry == "pulling"

CountExpired(c) ==
    /\ Go(c, "counting", AfterExpiry)
    /\ packetsExpired' = packetsExpired + 1
    /\ UNCHANGED <<aqVars, callVars, inHand, pipelineViolations, sojournViolations,
                   totalViolations, fates, resetVars>>

\* reset_sla_stats(), also as the second half of reset_stats().
ResetSlaStats ==
    /\ resets < MaxResets
    /\ pipelineViolations' = Zero /\ sojournViolations' = Zero
    /\ packetsExpired' = 0 /\ totalViolations' = 0
    /\ forgotten' = [expired |-> forgotten.expired + packetsExpired,
                     sojourn |-> forgotten.sojourn + Total(sojournViolations)]
    /\ resets' = resets + 1
    /\ UNCHANGED <<aqVars, callVars, consumerVars, fates>>

Process(p) == Admit(p) \/ RecordPipeline(p)

\* What a call of dequeue() does once it has begun.
Proceed(c) ==
    \/ at[c] # "idle" /\ Pull(c)
    \/ PullNone(c) \/ Return(c) \/ Expire(c) \/ CountExpired(c)

SLANext ==
    \/ Tick \/ ResetSlaStats
    \/ \E p \in Packets : Process(p)
    \/ \E c \in Consumers : Pull(c) \/ Proceed(c)

SLASpec == Init /\ [][SLANext]_slaVars

-----------------------------------------------------------------------------
At(place) == {c \in Consumers : at[c] = place}
InHand(C) == UNION {inHand[c] : c \in C}

\* The state has the shape the code gives it.
TypeOK ==
    /\ clock \in 0..MaxTime /\ resets \in 0..MaxResets
    /\ call \in [Packets -> {"new", "late", "done"}]
    /\ enqueuedAt \in [Packets -> 0..clock]
    /\ at \in [Consumers -> {"idle", "pulling", "checking", "counting"}]
    /\ inHand \in [Consumers -> SUBSET Packets]
    /\ pipelineViolations \in [TrafficPriority -> Nat]
    /\ sojournViolations \in [TrafficPriority -> Nat]
    /\ packetsExpired \in Nat /\ totalViolations \in Nat
    /\ returned \subseteq Packets /\ discarded \subseteq Packets
    /\ forgotten \in [expired : Nat, sojourn : Nat]

\* What leaves the queue is given to one caller or thrown away, and what is
\* thrown away is counted: as a violation and as an expired packet, each once,
\* by the statistics or by those a reset has cleared, or by a thread about to
\* count it.  The two counts of one snapshot (sla.py 280-289) come from separate
\* locked sections and a reset may fall between them (273-275), so they differ,
\* but by no more than the number of threads in dequeue().
ExpiryAccounted ==
    /\ forwarded = returned \cup discarded \cup InHand(At("checking"))
    /\ returned \cap (discarded \cup InHand(At("checking"))) = {}
    /\ packetsExpired + forgotten.expired + Cardinality(At("counting"))
         = Cardinality(discarded)
    /\ Total(sojournViolations) + forgotten.sojourn = Cardinality(discarded)
    /\ totalViolations = Total(sojournViolations) + Total(pipelineViolations)
    /\ packetsExpired - Total(sojournViolations) \in
         -Cardinality(Consumers) .. Cardinality(Consumers)

\* "The loop continues until a valid packet is found or the queue is empty"
\* (sla.py 192-193): it does end, whatever expires and whoever else dequeues, as
\* long as packets arrive in finite number.
DequeueReturns == \A c \in Consumers : at[c] # "idle" ~> at[c] = "idle"
=============================================================================
