---------------------------- MODULE ValueReport ----------------------------
(***************************************************************************)
(* ValueLossTracker's sliding windows (value.py), the report its to_dict() *)
(* makes of them for a heartbeat, and what the coordinator makes of the    *)
(* reports of the fleet (fleet_value_summary(), coordinator.py).           *)
(*                                                                         *)
(* An event is stamped before the lock is taken, so events enter a deque   *)
(* in another order than their stamps; _evict_old() looks at the head of   *)
(* each deque only.  A report reads its figures under the lock one by one, *)
(* the last with two looks at the clock.  Time is ages, Tick lets a unit   *)
(* pass.  A rate is the sum over the window: the division by the window's  *)
(* length and the rounding are left out.  The totals are in Optimizer.     *)
(***************************************************************************)
EXTENDS Integers, Sequences, FiniteSetsExt

CONSTANTS
    Threads,     \* threads inside record_delivered() or record_dropped()
    Values,      \* the values they record
    Window,      \* window_seconds
    MaxLag,      \* bound: time between a stamp and its locked section
    MaxEvents,   \* bound: events in one deque
    Self,        \* the node the tracker runs on
    Others,      \* the other nodes of the fleet
    OtherReports \* bound: the value figures another node may report

ASSUME TimesAssumption == Window \in Nat \ {0} /\ MaxLag \in Nat
ASSUME ValuesAssumption == Values \subseteq Nat \ {0}

Kinds == {"delivered", "dropped"}
Oldest == 2 * Window + 2 * MaxLag + 1    \* ages are not told apart beyond
Nobody == [kind |-> "none", value |-> 0, age |-> 0]
NoValue == [d |-> 0, l |-> 0, eff |-> <<0, 0>>, torn |-> FALSE]
Fleets == [Others \cup {Self} -> OtherReports \cup {NoValue}]

VARIABLES
    deque,      \* self._delivered and self._dropped: what was recorded, and when
    recorder,   \* recorder[t]: the event t has stamped and not yet recorded
    reading,    \* how far to_dict() is; at "efficiency" it holds the lock
    draft,      \* the figures it has read
    recent,     \* history: value recorded since reset(), by kind and age
    freshest    \* history: age of the youngest stamp recorded since reset()

trackerVars == <<deque, recorder, recent, freshest>>
reportVars == <<trackerVars, reading, draft>>

Older(age) == IF age < Oldest THEN age + 1 ELSE Oldest
Nothing == [k \in Kinds |-> [a \in 0..Window |-> 0]]

ReportInit ==
    /\ deque = [k \in Kinds |-> <<>>]
    /\ recorder = [t \in Threads |-> Nobody]
    /\ reading = "none" /\ draft = NoValue
    /\ recent = Nothing /\ freshest = Oldest

\* What a function has at the members of a set, summed.
Sum(f, S) == MapThenSumSet(LAMBDA x : f[x], S)

\* _rate(): what lies within the window, both ends included.
ValuesOf(events) == [i \in DOMAIN events |-> events[i].value]
InWindow(events) == {i \in DOMAIN events : events[i].age <= Window}
Rate(kind) == Sum(ValuesOf(deque[kind]), InWindow(deque[kind]))

\* Delivered over all there was, as a fraction; all of it when there was none.
Share(d, l) == IF d + l > 0 THEN <<d, d + l>> ELSE <<1, 1>>

\* What other nodes report was not taken across an event either.
ASSUME ReportsAssumption ==
    /\ IsFiniteSet(Others)
    /\ \A r \in OtherReports : r.d \in Nat /\ r.l \in Nat /\ r.eff = Share(r.d, r.l)

-----------------------------------------------------------------------------
(* Variants with a plausible bug; the properties notice each of them.      *)
Evicted_OwnDeque(deques, kind, now) ==
    [deques EXCEPT ![kind] =
        LET young == {i \in DOMAIN @ : @[i].age <= now + 2 * Window}
        IN IF young = {} THEN <<>> ELSE SubSeq(@, Min(young), Len(@))]
Cleared_Delivered == [deque EXCEPT !["delivered"] = <<>>]
FleetShare_Idle(d, l) == IF d + l > 0 THEN <<d, d + l>> ELSE <<0, 1>>

-----------------------------------------------------------------------------
(* Recording.                                                              *)
Unlocked == reading # "efficiency"

\* The clock is read before the lock is taken.
Stamp(t) ==
    /\ recorder[t] = Nobody
    /\ \E k \in Kinds, v \in Values :
         recorder' = [recorder EXCEPT ![t] = [kind |-> k, value |-> v, age |-> 0]]
    /\ UNCHANGED <<deque, recent, freshest, reading, draft>>

\* _evict_old(): heads older than two windows leave both deques, whichever
\* of them has just grown.
Evicted(deques, kind, now) ==
    [k \in Kinds |->
        LET events == deques[k]
            young == {i \in DOMAIN events : events[i].age <= now + 2 * Window}
        IN IF young = {} THEN <<>> ELSE SubSeq(events, Min(young), Len(events))]

\* The locked section of record_delivered() and record_dropped().
Record(t) ==
    /\ Unlocked /\ recorder[t] # Nobody
    /\ LET r == recorder[t]
           event == [value |-> r.value, age |-> r.age]
           grown == [deque EXCEPT ![r.kind] = Append(@, event)]
       IN /\ deque' = Evicted(grown, r.kind, r.age)
          /\ \A k \in Kinds : Len(deque'[k]) <= MaxEvents
          /\ recent' = IF r.age > Window THEN recent
                       ELSE [recent EXCEPT ![r.kind][r.age] = @ + r.value]
          /\ freshest' = Min({freshest, r.age})
    /\ recorder' = [recorder EXCEPT ![t] = Nobody]
    /\ draft' = [draft EXCEPT !.torn = reading # "none"]
    /\ UNCHANGED reading

Cleared == [k \in Kinds |-> <<>>]

\* reset()
Reset ==
    /\ Unlocked
    /\ deque' = Cleared
    /\ recent' = Nothing /\ freshest' = Oldest
    /\ draft' = [draft EXCEPT !.torn = reading # "none"]
    /\ UNCHANGED <<recorder, reading>>

-----------------------------------------------------------------------------
(* The report: to_dict(), called by the heartbeat thread.                  *)
ReadDelivered ==
    /\ reading = "none" /\ reading' = "lost"
    /\ draft' = [NoValue EXCEPT !.d = Rate("delivered")]
    /\ UNCHANGED trackerVars

ReadLost ==
    /\ reading = "lost" /\ reading' = "share"
    /\ draft' = [draft EXCEPT !.l = Rate("dropped")]
    /\ UNCHANGED trackerVars

\* value_efficiency_pct takes the lock and sums the two deques, each at the
\* clock's time of that moment.
SumDelivered ==
    /\ reading = "share" /\ reading' = "efficiency"
    /\ draft' = [draft EXCEPT !.eff = <<Rate("delivered"), 0>>]
    /\ UNCHANGED trackerVars

SumLost ==
    /\ reading = "efficiency" /\ reading' = "done"
    /\ draft' = [draft EXCEPT !.eff = Share(draft.eff[1], Rate("dropped"))]
    /\ UNCHANGED trackerVars

\* The heartbeat takes the report away (see Fleet).
Post ==
    /\ reading = "done" /\ reading' = "none"
    /\ draft' = NoValue
    /\ UNCHANGED trackerVars

-----------------------------------------------------------------------------
(* fleet_value_summary() over the latest reports, a function of the node.  *)
Reporting(reports) == {n \in DOMAIN reports : reports[n] # NoValue}

FleetShare(d, l) == IF d + l > 0 THEN <<d, d + l>> ELSE <<1, 1>>
FleetEfficiency(reports) ==
    FleetShare(Sum([n \in DOMAIN reports |-> reports[n].d], Reporting(reports)),
               Sum([n \in DOMAIN reports |-> reports[n].l], Reporting(reports)))

Leq(p, q) == p[1] * q[2] <= q[1] * p[2]
BestNode(reports) ==
    CHOOSE n \in Reporting(reports) :
        \A m \in Reporting(reports) : Leq(reports[m].eff, reports[n].eff)
WorstNode(reports) ==
    CHOOSE n \in Reporting(reports) :
        \A m \in Reporting(reports) : Leq(reports[n].eff, reports[m].eff)

-----------------------------------------------------------------------------
Tick ==
    /\ \A t \in Threads : recorder[t] # Nobody => recorder[t].age < MaxLag
    /\ recorder' = [t \in Threads |->
         IF recorder[t] = Nobody THEN Nobody ELSE [recorder[t] EXCEPT !.age = @ + 1]]
    /\ deque' = [k \in Kinds |->
         [i \in DOMAIN deque[k] |-> [deque[k][i] EXCEPT !.age = Older(@)]]]
    /\ recent' = [k \in Kinds |-> [a \in 0..Window |->
         IF a = 0 THEN 0 ELSE recent[k][a - 1]]]
    /\ freshest' = Older(freshest)
    /\ draft' = [draft EXCEPT !.torn = reading # "none"]
    /\ UNCHANGED reading

ReportNext ==
    \/ \E t \in Threads : Stamp(t) \/ Record(t)
    \/ Reset
    \/ ReadDelivered \/ ReadLost \/ SumDelivered \/ SumLost \/ Post
    \/ Tick

ReportSpec == ReportInit /\ [][ReportNext]_reportVars

-----------------------------------------------------------------------------
\* The rates are what was recorded in the last window (value.py 705-712), to the
\* unit: in whatever order the threads record their stamps, wherever eviction
\* stopped, and with reset() at any moment between a stamp and its record.
RateIsExact ==
    \A k \in Kinds : Rate(k) = Sum(recent[k], 0..Window)

\* "Remove events older than two windows" (value.py 821): although only heads are
\* looked at and the deques are not sorted by stamp, no event of either deque
\* outlives two windows, counted from the youngest record of either kind, by more
\* than the longest delay between a stamp and its record.
NothingLingers ==
    \A k \in Kinds : \A i \in DOMAIN deque[k] :
        deque[k][i].age <= freshest + 2 * Window + MaxLag

\* The fleet's efficiency, "weighted average efficiency" (coordinator.py 168), lies
\* between that of its worst and of its best node, idle nodes included, as long as
\* no report was taken across a record, a reset() or a unit of time: to_dict()
\* releases the lock between the figures.
SummaryBetween ==
    reading = "done" /\ ~draft.torn =>
        \A fleet \in Fleets :
            LET reports == [fleet EXCEPT ![Self] = draft]
                best == reports[BestNode(reports)].eff
                worst == reports[WorstNode(reports)].eff
            IN Leq(worst, FleetEfficiency(reports)) /\ Leq(FleetEfficiency(reports), best)
=============================================================================
