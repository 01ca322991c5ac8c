# Formal models of the Smart Bandwidth Optimizer

This directory holds TLA+ specifications of the optimizer in
`bandwidth_optimizer/`, `main.py` and `api/`, TLC configurations that check them
on small instances, and TLAPS proofs of the properties that hold for every size.
Line numbers below refer to the repository's sources (`src/`).

How to run, from this directory:

    tlc -config MCValueOrder.cfg MCValueScheduler     # one run
    tlapm Scheduler_proofs.tla                        # one proof module

`PROJECT.json` lists the runs, the mutants that show that each property can
fail, the source lines behind each definition, the hazards and the theorems.

## 1. The system

Packets enter through `BandwidthOptimizer.process()` and leave through
`dequeue()`. Everything is Python threads in one process, plus heartbeats over
HTTP between nodes. Only some classes take a lock.

| Component (source) | State | Operations | Talks to | What is hard | What makes it correct |
|---|---|---|---|---|---|
| `PriorityScheduler` (scheduler.py), `ValueScheduler` (value.py 479-651) | heap, sequence counter, counters | `enqueue`, `dequeue`, `drain`, `peek`, `stats`, `reset_stats` | called by the pipeline and the egress loop | the sequence number is drawn before the lock; overflow; ties | capacity, best first, worst lost, FIFO among equals, counters agree with fates |
| `SafetyGuard` (safety.py) | circuit state, error and bypass counters, fail mode | `process`, `reset`, `fail_mode`, `health` | wraps the pipeline | calls in flight when the circuit opens; two locked sections per error | coherent health, open circuit shields, every error bypassed, every call returns |
| `BandwidthOptimizer` (optimizer.py) | two counters, the stages | `process`, `dequeue`, `drain`, `reset_stats`, `stats` | every stage below | no lock: lost updates, a queue length that is stale when used | nothing vanishes, bounded overshoot of RED, value totals |
| `PacketFilter`, `TokenBucket` (packet_filter.py) | tokens, refill time, drop counts | `should_drop`, `consume`, `available`, `reset_drop_counts` | asks the queue length | check-then-act and refill without a lock | the rate bounds what passes, tokens stay within the capacity, drops are counted |
| `FlowValuePolicy`, `ValueCoefficientTuner` (value.py) | overrides; per-rule coefficient | `get_coefficient`, `set_override`, `observe`, `reset`, `reset_all` | the pipeline reads coefficients | two locks, a copied coefficient, feedback | bounds, convergence, packets get what was decided |
| `ValueLossTracker` (value.py) | two totals, two windows | `record_*`, rates, `to_dict`, `reset` | the pipeline, the API, heartbeats | stamps before the lock, eviction at the heads only, a report of several locked sections | exact rates, nothing lingers, a fleet summary within its nodes |
| `SLAMonitor`, `BackpressureMonitor` (sla.py) | violation counters; sample window, last state | `process`, `dequeue`, `reset_sla_stats`; `update`, `state` | wrap the pipeline | two locked sections per expiry; overlapping updates | expired packets counted once, `dequeue()` ends, a stale pressure reading does not stay |
| `FlowTracker` (flow_tracker.py) | bounded flow table | `update`, `priority_hint`, eviction | pipeline stage 0 | update after the lock is released | bound, longest-idle first, one record per conversation, honest counts |
| `TrafficClassifier`, `PayloadCompressor` | rule table; counters | `classify`, `compress` | pipeline stages 1 and 2 | rule order; the magic prefix | first match; round trip |
| Policy loader, license keys, `main.py` | none that changes | `load`, `verify`, `_build_optimizer` | configure the pipeline | refusals in order, two rule tables from one file | only sound configurations run, class and value come from one rule |
| `NodeAgent`, `AgentCoordinator`, trust.py | running flag, threads; registry | `start`, `stop`, heartbeat; `ingest`, eviction, `remove`, summary | HTTP | stop/start races, losses, delays, TTL | honest counts, live nodes stay listed, stopped ones fall silent |
| Capture (capture/) | pending packets, verdicts, counters | `start`, `stop`, `packets` | kernel NFQUEUE, pcap, iterables | `stop()` from another thread during `packets()` | each packet once and in order, counted, the generator ends |
| API server (api/server.py) | WebSocket connections | endpoints, `connect`, `disconnect`, `broadcast` | reads everything | lock held across awaits | no lost or doubled connection |
| Benchmark, stress, demos, dashboard | none that matters | driving, printing | | | |

## 2. The modules

| Module | Models |
|---|---|
| `AbstractQueue` | what a scheduler promises: a bounded collection, best rank leaves, worst rank is lost |
| `TrafficClasses` | `TrafficPriority`, the default class, the value multiplier of each class |
| `SchedulerQueue` | the machine both schedulers share, for any rank |
| `PriorityScheduler`, `ValueScheduler` | the ranks the two classes use, and the properties of value order |
| `Optimizer` | `process()` as steps of concurrent threads over `AbstractQueue`, with RED and the value totals |
| `PacketFilter` | one token bucket and its drop counter, every shared read and write a step |
| `SafetyGuard` | the circuit breaker, every locked section a step |
| `ValueTuner` | the value policy's rules and overrides, and the tuner's feedback loop |
| `ValueReport` | the tracker's windows, its report, and the coordinator's fleet summary |
| `SLAMonitor`, `Backpressure` | expiry at `dequeue()` over `AbstractQueue`; overlapping `update()` calls that watch the same queue |
| `RuleTables` | default rules, presets, matching and first match: operators |
| `Startup` | license key and policy file to a built optimizer, or a refusal |
| `FlowTable` | the flow table, with `update()` under and outside its lock |
| `Ingress` | composes `Startup`, `FlowTable` and `RuleTables`: stages 0 to 3 of `process()` |
| `Fleet` | agents with their heartbeat threads, the network, the coordinator's registry, and time |
| `Capture` | all capture backends, their generator and `stop()` from another thread |
| `MCValueScheduler`, `MCOptimizer`, `MCValueTuner`, `MCMonitors`, `MCIngress`, `MCValueReport` | constants for TLC |
| `*_proofs` | theorems, section 5 |

**SchedulerQueue.** `Stamp` is the part of `enqueue()` outside the lock (it draws
the sequence number); `Insert`, `Reject` and `Replace` are the outcomes of its
locked section; `Dequeue` is `dequeue()` and one round of `drain()`. The heap is
a set ordered by (rank, sequence), its array layout is left out. `fate`, `before`
and `mark` are history. `ValueScheduler` repeats the locked sections of
`PriorityScheduler` line by line, so it is the same machine with another rank.

**Optimizer.** `stage[p]` is the line `process()` has reached with packet p. The two
counters are read and written in separate steps, as `+=` does. Of the filter's verdict
RED's two thresholds are exact, in either order, since `OptimizerConfig` does not
require the minimum to be the lower one; the random draw and the token bucket are
nondeterministic. What flow tracking, classification and compression leave in a packet
is constant here and is `Ingress`' subject. That the queue may be taken to be
`AbstractQueue` is what `ImplementsQueue` shows of the schedulers.

**PacketFilter.** One class, since buckets share nothing; `critical` says whether the
limiter may drop it. `pc[t]` is where thread t is, `now` and `value` are its locals;
the time of the last refill, the level and the new values are read and written in
steps of their own. A tick adds `RefillRate` tokens, what the constructor makes of the
configured rate or share. `available()` refills and returns.

**SafetyGuard.** Each element of `Calls` is one call of `process()`; `pc` says
which locked section comes next. `opened` remembers the calls that were inside
the optimizer when the circuit last opened.

**ValueTuner.** `Observe` is `observe()` up to the call of `set_override()`,
`Publish` that call; in between an operator may set or clear the same override.
`pending` is what the holder of the tuner's lock has still to write; `adopted` is
history, the override from which the tuner started a rule. Coefficients
are integers; the factors chosen for TLC lose nothing that matters by it.
`boost_count` and `decay_count`, which only the report shows, are left out.

**ValueReport.** `Stamp` is the clock read before the lock, `Record` the locked
section with its eviction. `ReadDelivered`, `ReadLost`, `SumDelivered` and
`SumLost` are the figures of `to_dict()` in their order, the last two with two
looks at the clock under one lock. `draft.torn` is history: something happened
between two figures.

**SLAMonitor, Backpressure.** Each packet is one call of `process()`; `Pull`,
`Return`, `Expire` and `CountExpired` are the steps of a consumer in `dequeue()`,
the last two its two locked sections. `forgotten` is history: what resets have
cleared. `Sample` and `PublishState` are the two halves of `update()`.

**Startup, RuleTables, Ingress.** `boot` goes from the license to the policy to
running or refused, in the order `main.py` checks. A key or a document is the
record of what the parser finds in it. `Prepare` and `PassOn` are stages 1 and
1b to 1c, `Compress` the stage after the filter; a payload is its size, how
often it has been wrapped, and what zlib can bring it to.

**FlowTable.** `Lookup` is the locked section of `update()`, `Touch` and
`StoreCount` the two accesses to the record after it. A record is named after the
packet that created it; `seen`, `disturbed` and `shared` are history.

**Fleet.** `loop[n][t]` is where heartbeat thread t of node n is; the flag
`running` is looked at where the code looks at it. Timers replace clocks
so that behaviours may be infinite and states finite; counters are kept modulo 2,
which is enough to see them change. The timeout of `urlopen()` limits one blocking
socket operation (connect to one address, send, receive a part of the answer), so a
post waits for up to `Operations` of them, `Send` being the first and each `Proceed`
the next; what the statistics say is left out. `Receive` is the coordinator taking a post
whose sender waits, `ReceiveLate` one whose sender has given up. The model takes
steps that do not wait to take no time (`Tick`).

**Capture.** `gen` is where the generator is; `Handle` is the loop's body, `Leave`
leaving the loop early. `Stop` and `Unbind` are the two assignments of NFQUEUE's
`stop()`, between which the generator may run; `Begin` is the first `next()`, which
raises when they came before it. `live` has the packets a verdict can still reach,
and `Accept` takes effect for those only; `unjudged` and `stranded` are history: what
the loop gave no verdict, and what stood without one when its queue was unbound.
Parsing is a predicate.

## 3. The runs

| Run | Question | Instance | States |
|---|---|---|---|
| `value_order` | does the queue implement the abstract one, does value govern order and loss, do equals keep FIFO, do the counters agree with the fates, does every packet leave? | 4 packets with a tie across classes, an equal coefficient and a negative one, 2 places, any number of `reset_stats()` | 417 439 |
| `safety_guard` | is health coherent, does an open circuit shield, is every error answered, what closes the circuit, does every call return? | 4 calls, threshold 2, 1 reset | 126 874 |
| `optimizer_threads` | how far does concurrency disturb RED, the counters and the totals? | 4 packets, 2 threads, 2 places, RED at 50 %, 1 reset | 348 065 |
| `optimizer_delivered` | is value counted as delivered never lost? | 5 packets, 1 thread | violated |
| `packet_filter` | does the capacity survive every interleaving; without overlaps, does the rate bound what passes and is the accounting exact? | 2 threads, 3 calls, 2 ticks, sizes 1-3, capacity 3, CRITICAL or not | 2 329 026 |
| `value_tuner` | are coefficients bounded, in force, and convergent? | 2 overlapping rules, 2 interventions, overrides of 0, 2 and 32 around bases 4 and 1 and ceiling 24 | 250 326 |
| `value_report` | are rates exact, do old events leave, does the fleet's efficiency lie between its nodes'? | 2 recording threads, window 1, lag 1, 2 events per deque | 1 114 633 |
| `monitors` | is every expired packet counted once, does `dequeue()` end, does a stale reading pass? | 2 packets, 2 consumers, 2 updaters, 1 tick, 1 reset | 34 632 |
| `ingress` | from the command line to the queue: is each packet tracked, classed, valued and compressed as configured? | 4 packets of 3 conversations, table of 2 flows, 2 threads, 2 ticks, 5 keys, 4 policies | 138 977 |
| `capture` | is each captured packet handed out once and counted, which verdicts reach the kernel, does `stop()` end the capture? | 5 backends, 4 packets (1 unparsable), 2 sessions | 4 080 |
| `fleet` | how many losses does the TTL forgive, are counts honest, does `stop()` silence and running persevere? | 1 node, 2 threads, interval 2, timeout 1, 2 socket operations, TTL 6, 1 late post | 117 364 |
| `fleet_one_thread` | does a running agent have one heartbeat thread? | the same | violated |

**Why the bounds are enough.** The schedulers compare two packets at a time: two
of equal rank, one better and one worse, over a queue with room for two, reach
every outcome of `enqueue()` with every order of stamp and insertion. The guard
needs one call to trip the circuit beside one that succeeds late and one that
fails late; four calls give that and one more. Lost updates, RED's overshoot and
the tokens spent twice need two threads and no more, and a bucket of three
tokens with sizes up to three runs empty and full again in three calls. Two
consumers with one stale packet each stand on both sides of every reset; the
queue behind them does not overflow, which `value_order` covers. Three
conversations for a table of two force an eviction, with two threads in the
middle of an update. The window of one unit with a lag of one lets a stamp enter
its deque after a later one, and age past both windows. In `fleet` two threads
are what `stop()` then `start()` makes; a post of two operations outlasts its timeout,
and TTL 6 is then the least that an agent without a miss is sure to survive, so
eviction one unit too early shows. `Operations` is a bound of the model: nothing in
agent.py limits how many socket operations a post takes, nor how long the look-up of
the coordinator's name does, so `DroppedOnlyAfterLosses` is stated per number of
operations. Where a theorem of section 5 states the same
property, the bound does not matter at all.

**Fairness.** Weak fairness of the calls in progress: lock sections are short, and
`process()`, the optimizer, `select()` and `urlopen(timeout=5)` return or raise, the
last after at most `Operations` timeouts. The egress loop keeps calling `dequeue()`
(api/server.py 111-117), `update()` is to be called periodically (sla.py 445), the
loop over `packets()` goes on (base.py 58-65), and time passes. The monitoring loop
observes every rule again and again (value.py 894-899), with strong fairness since
another rule's call may hold the tuner's lock. Nobody is obliged to offer a packet, to
reset, to start or stop; the network owes nothing. `optimizer_threads`,
`packet_filter`, `ingress` and `value_report` state safety only and assume no
fairness. Deadlock is not checked where the run ends by its bounds (all packets
processed).

## 4. What the models say about the code

Violated claims, each with a run:

- **Delivered value may be lost** (optimizer.py 147-150 against value.py 737). The
  answer of `enqueue()` is ignored and evictions are not reported, so
  `value_delivered_total` includes refused and evicted packets.
- **stop() then start() leaves two heartbeat threads** (agent.py 137-148 against 151).

Weaker guarantees than a reader of the docs might expect; the property states
what does hold:

- The circuit may close without `reset()` (safety.py 247-253 against 13-22): a late
  success zeroes the streak while the state is BYPASSED, then a late error sets
  DEGRADED. Only a call that was in the optimizer when the circuit opened can do
  it, and only to DEGRADED (`ClosesOnlyByLateError`).
- RED drops everything from the higher of its two thresholds on, since
  `_red_check()` looks at the minimum first (packet_filter.py 184-187) and no one
  checks that it is the lower (`NonCriticalBounded`).
- Two threads may spend the same tokens (packet_filter.py 58-60 against line 7), so
  rate and payment are stated for calls that do not overlap (`RateBound`,
  `PassedIsPaid`). A CRITICAL packet over its rate takes no tokens (58-61 against
  104-105).
- A heartbeat's `timeout=5` (agent.py 227) is that of each socket operation, so a
  silent coordinator may hold a post for several times that, and the TTL forgives
  fewer losses than interval plus 5 s would have it (`DroppedOnlyAfterLosses`). An
  exception other than `URLError` and `OSError` (232) ends the heartbeat thread and
  leaves `_running` set, so `start()` does not bring it back
  (`RunningAgentKeepsPosting` excludes such agents).
- `set_override()` takes every number from 0 on (value.py 377-386), and the tuner
  starts from an override above 0 that it finds (1046). One below the base is raised to it by a
  perfect observation; one above `max_coefficient` stays until a violated contract
  lowers it to that "hard ceiling" (`MovesTheRightWay`, `TypeOK`).
- `stop()` of NFQUEUE unbinds the queue while captured packets wait or are in the
  loop's hand: an `accept()` that follows reaches nobody. These packets and no others
  lose their verdict (`CaptureAccounts`).
- The two counts of one SLA snapshot may differ when a reset falls between the
  locked sections (sla.py 273-275), by at most the threads in `dequeue()`
  (`ExpiryAccounted`).
- The tracker's `to_dict()` reads its figures in separate locked sections, so a
  torn report may put the fleet's "weighted average" efficiency (coordinator.py
  168) outside its nodes' (`SummaryBetween` excludes those reports).
- Rules that share a name share one override, and after `reset()` each has its own
  value again: `PacketsFollowTuner` is proved for tables of distinct names.
- A flow with two calls at once may be forgotten early, and lose counts, but never
  its first one (`RecentFlowsKept`, `FlowCounts`).

Differences from the documentation met on the way, without a run of their own:

- `FlowValuePolicy._rule_matches` ignores `payload_pattern`, although value.py 320
  says rules work "exactly like the TrafficClassifier rule table".
- `policy.bandwidth_budget` is parsed and validated, and never applied by
  `_build_optimizer`; a rate of 0, "unlimited" in config.py 45, becomes one byte
  per second.
- The tuner boosts below `violation_threshold_pct` of the contract, not whenever
  `delivered_rate < sla_min_rate` (value.py 953 against 941-942);
  `set_override(rule, None)`, offered at value.py 382-383, raises; a base above
  `max_coefficient` exceeds that "hard ceiling" on decay.
- The thresholds of `BackpressureMonitor` are fill ratios "above which" a signal is
  raised (sla.py 404-407), while `_compute_level()` compares with `>=` and says
  "at hard_threshold" (505-520); `SignalSettles` follows the code.
- NFQUEUE: `stop()` between `select()` and `run_socket()` ends `packets()` with an
  AttributeError, and one before its first `next()` with "Call start() before
  packets()" (156), though line 151 invites calling it from another thread
  (`StopEndsCapture` takes an exception for an end); after a
  loop was left, `_pending` keeps its handles for the next session; base.py's
  usage loop gives no verdict for what the optimizer dropped. A pcap file's
  remaining packets, and one packet of a simulated iterable, are let go at
  `stop()`.
- `SafetyGuard` and `SLAMonitor` have no `flow_tracker` or `value_tracker`, so the
  endpoints that read them raise under `serve --fail-mode`.
- A payload that starts with the compressor's magic bytes by chance is not
  compressed and cannot be decompressed (`PayloadsRestorable` excludes it).
- `parse_license_key()` accepts unknown fields, and an expiry that cannot be read
  never expires.
- `get_agent()` returns an agent that is past its TTL until another call evicts it.
- The WebSocket endpoint promises an answer to "ping" and reads nothing;
  `broadcast()` has no caller.

## 5. What is proved

For every set of packets, calls, nodes or threads, every rank, capacity, rate,
threshold, table and TTL:

| Module | Theorems |
|---|---|
| `Scheduler_proofs` | `TypeCorrect`, `CapacityKept`, `OldestFirst`, `StatsKept`, `Implements` (the refinement of `AbstractQueue`), `ValueOrder`, `ValueDecides` |
| `Optimizer_proofs` (and `ValueReport`) | `TypeCorrect`, `OvershootBounded`, `CountersHonest`, `EveryPacketAccounted`, `ValueExact`; `Windowed`, `RatesExact`, `OldEventsLeave`, `FleetInBetween` |
| `Ingress_proofs` (with `FlowTable`, `Startup`, `RuleTables`; and `Capture`) | `Ingressed`, `RecentKept`, `CountsHonest`, `PayloadsBack`, `ServedAsConfigured`; `CaptureKept` |
| `PacketFilter_proofs` | `TypeCorrect`, `CapacityHolds`, `RateIsKept`, `AccountsBalance`, `DropCountHonest` |
| `SafetyGuard_proofs` | `TypeCorrect`, `HealthCoherent`, `OpenCircuitShields`, `LateErrorOnly`, `NoErrorUnanswered` |
| `ValueTuner_proofs` | `CoefficientsBounded`, `RightWay`, `DecisionsInForce` |
| `SLAMonitor_proofs` | `TypeCorrect`, `EveryExpiryCounted` |
| `Fleet_proofs` | `TypeCorrect`, `CountIsHonest`, `LossesAreForgiven` |

Assumptions: sets of packets, calls and consumers are finite, ranks are integers,
`MaxSize >= 1` (the constructor raises smaller values), sizes, times, factors, bases
and overrides are natural numbers, RED's thresholds integers in either order, rate,
capacity, timeout and the number of socket operations in a post positive. The value
theorems of the scheduler take its rank to be `ValueRank`. Endpoints are pairs of
integers, which `from_packet` compares; a policy's rules are a list, and a command
line names a policy that exists; who embeds the optimizer in a program of his own
gives neither key nor policy. A value recorded is positive, other nodes are finitely
many and report the share of their own figures. Floating-point rounding is not
modelled.

*Queue.* `OldestLeavesFirst` is not inductive: a step needs to know that who was
queued before another began has the smaller sequence number, which `SequenceInv`
says. `StatsAgree` needs `MarkInv`: at the last reset no packet had
gone further than it has now.
*Implements* has one lemma per outcome: `Insert` is `Put`; `Reject` and `Replace` are
`PutFull`; `Dequeue` is `Get`; the rest changes nothing abstract; `Bounded` tells that
a queue without room is exactly full. `ValueOrderSound` comes from
`RankOfValue`: ranks order packets as effective value, class and age do.

*Optimizer.* RED's overshoot: threads inside are at most `Workers`, each holds one
packet, and the one that passes RED has seen a queue below the higher threshold
(`BelowThreshold`).
`CounterInv` bounds what each thread has read of a counter by a set that only
grows; `NothingVanishes` needs `ExactInv`, the same as equalities for the one call in
progress, and `QueueInv`, that a packet is in one place of the queue. The totals
change under the tracker's lock: `TrackerInv` equates them with the value of what
has passed the step that records it, whatever other threads are doing.

*Sums.* Totals and rates are the community modules' fold over a set, which is defined
by recursion and a choice. `SumSolved` shows that the recursion has a solution on the
subsets of a finite set, `SumEquation` that the fold obeys it, `SumAdds` that the
choice does not matter; induction is `Counting` and `SetInduction`, from a least
counterexample, since a theorem with an operator parameter cannot be cited.

*ValueReport.* Deques are not sorted by stamp: a later entry is older than an earlier
one by no more than the lag (`Lagging`). So eviction at the head leaves nothing older
than two windows and that lag (`KeepsYoung`), and cuts nothing inside a window:
`WindowInv` has, for each age up to the window, the value in the deque equal to what
was recorded at it. `RatesExact` adds these up (`RateByAge`). `FleetInBetween` rests
on `Mediant`: a share of sums lies between shares that do; `BestAndWorst`: fractions
compared by cross products have a greatest and a least; and `DraftInv`: a report that
nothing has interrupted is the share of its own figures at every stage.

*PacketFilter.* The capacity needs `HeldInv`: what a thread has computed and not yet
stored is within it too. The rate needs `RateInv`: until two calls overlap, tokens
left plus tokens paid stay within `Budget`, capacity plus rate, at the time the
tokens stand for, which is the last refill or, between the two assignments of
`_refill()`, the reading of the clock. `AheadInv` keeps the drop count, and all
threads about to add to it, within the drops; `ExactInv` says it is exact meanwhile.

*SafetyGuard.* State and streak agree by induction; `NoNewCallsWhileOpen` holds
because `Admit` routes past the optimizer when open, and `opened` is set to the calls
inside. `Unsettled` counts the calls between their two locked sections.

*ValueTuner.* `TunerInv` bounds state and override by base, ceiling and the override
the tuner adopted, which history never forgets; its part `FollowInv` says that
what the holder of the lock has still to write, and the override of a rule no
operator has touched, is the tuner's own number.

*SLAMonitor.* `HandInv` says that what has left the queue is in one place: in one
consumer's hands, returned, or discarded. `CountInv` sums what the statistics show,
what resets cleared and what is about to be counted; the bound on the difference
of the two counts is not inductive by itself, since each reset moves it by the
threads then between their sections, but what resets have cleared of the one
beyond the other is always that number of the last reset.

*Ingress.* `FlowTypeOK` and `HeldOK` say that a record serves one conversation and is
held by its creator. `CountInv` bounds the count of a record, and what a thread has
read of it, by the calls that have stored theirs, and equates them while nobody shares
it. `RecentInv` says of a conversation that no calls disturb that its record is in the
table during a call and is as recent as its last packet; the record that makes place
is then the one longest idle. `BootInv` has what is loaded at each stage of the start,
`ArrivalInv` that a packet is untouched before its stage. `ValueOfRule` connects the
first rule that classifies with the first that values, and `SeveralGrows` the flow's
hint with its number of packets.

*Capture.* `CaptureInv`: packets wait in the order of arrival, behind all that were
handed out; every one taken is handed out, waiting, discarded or unreadable, and only
one of these, and the counters are their numbers; the kernel is told of the unreadable
and the handled only; `Judged` says that each packet handed out and no longer in the
loop's hand was accepted, unjudged or stranded, and that what waits can still be
reached by a verdict or is stranded; and `WhereTheyWait` says at which points of the
generator packets can wait at all.

*Fleet.* `Shape` and `Running`: of a running agent only an exception ends the thread.
`HeardInv`: a post the coordinator heard is one it accepted. `DroppedOnlyAfterLosses`
needs `Pace`: the silence of a node that keeps running is within one cycle of
interval and longest post per miss plus what each of its threads has used of its own
cycle. `OnTime` bounds the timers, `PostTime` says what is left of a post after each
of its operations, and a miss pays for the next cycle.

Every invariant and every action property of the runs, and the refinement, has
a theorem. Only model-checked is liveness (`EverySettles`, `EveryCallReturns`,
`DriftsBackToBase`, `ClimbsToCeiling`, `DequeueReturns`, `SignalSettles`,
`StopEndsCapture`, `StoppedAgentFallsSilent`, `RunningAgentKeepsPosting`), which needs
`ENABLED` and is beyond the prover, and the two violated claims of section 4.
`Backpressure` has only liveness properties, so no theorem is about it.

## 6. Not modelled

The API server's endpoints read the optimizer or call operations other modules
model; its connection manager keeps one list behind one asyncio lock, and nothing
calls its `broadcast()`. Benchmark, stress, demos and the dashboard drive or
display. HMAC, base64, JSON, YAML, packet formats and zlib are predicates or sizes.
The random draw of RED is a free choice. Clocks are ticks. The byte counters
move with the packet counters. The averages behind a flow's scores are inputs of
`Ingress`; the ring of recent violations, the sample-window rates, the totals inside
a report and all rounding are left out. `SafetyGuard` does not look into the
optimizer, so what FAIL_OPEN returns after a stage has already changed or queued
the packet is open.

## 7. Plan

What would come next: `SafetyGuard` over `Optimizer`, for what FAIL_OPEN returns; the
view of the registry that `get_agent()` gives beside that of `all_agents()`; and safety
lemmas under the liveness properties, such as the bound on the steps of a `dequeue()`.
