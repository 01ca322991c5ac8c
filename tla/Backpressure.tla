----------------------------- MODULE Backpressure ----------------------------
(***************************************************************************)
(* BackpressureMonitor (sla.py 391-520) watching the queue behind an       *)
(* SLAMonitor.  update() reads the statistics first and takes its lock     *)
(* afterwards, so of two overlapping calls the one with the older reading  *)
(* may publish last.  The Updaters call it again and again; the rates over *)
(* the sample window only feed the report and are left out.                *)
(***************************************************************************)
EXTENDS SLAMonitor

CONSTANTS
    Updaters,  \* threads that call update()
    SoftPct,   \* soft_threshold, in percent
    HardPct    \* hard_threshold, in percent

\* The constructor refuses anything else.
ASSUME ThresholdAssumption ==
    SoftPct \in Nat /\ HardPct \in Nat /\ 0 < SoftPct /\ SoftPct < HardPct /\ HardPct <= 100

VARIABLES
    reading,  \* fill_ratio each updater has read, in percent, or NoReading
    signal    \* self._last_state: level and recommended throttle

bpVars == <<reading, signal>>
vars == <<slaVars, bpVars>>

NoReading == -1
FillPct == (100 * Cardinality(waiting)) \div Capacity

-----------------------------------------------------------------------------
(* Variant with a plausible bug, noticed by SignalSettles.                 *)
LevelOf_Exclusive(fill) ==
    IF fill > HardPct THEN "HARD" ELSE IF fill >= SoftPct THEN "SOFT" ELSE "NONE"
-----------------------------------------------------------------------------
\* _compute_level()
LevelOf(fill) ==
    IF fill >= HardPct THEN "HARD" ELSE IF fill >= SoftPct THEN "SOFT" ELSE "NONE"

ThrottleOf(fill) ==
    CASE LevelOf(fill) = "HARD" -> 100
      [] LevelOf(fill) = "SOFT" -> (100 * (fill - SoftPct)) \div (HardPct - SoftPct)
      [] OTHER -> 0

BPInit ==
    /\ Init
    /\ reading = [u \in Updaters |-> NoReading]
    /\ signal = [level |-> "NONE", throttle |-> 0]

\* update(): stats() of the optimizer, without the lock ...
Sample(u) ==
    /\ reading[u] = NoReading
    /\ reading' = [reading EXCEPT ![u] = FillPct]
    /\ UNCHANGED <<slaVars, signal>>

\* ... and the locked section.
PublishState(u) ==
    /\ reading[u] # NoReading
    /\ signal' = [level |-> LevelOf(reading[u]), throttle |-> ThrottleOf(reading[u])]
    /\ reading' = [reading EXCEPT ![u] = NoReading]
    /\ UNCHANGED slaVars

Next ==
    \/ SLANext /\ UNCHANGED bpVars
    \/ \E u \in Updaters : Sample(u) \/ PublishState(u)

(* A call of dequeue() that has begun goes on; update() "should be called *)
(* periodically" (sla.py 445) by each of its callers.                     *)
Fairness ==
    /\ \A c \in Consumers : WF_vars(Proceed(c) /\ UNCHANGED bpVars)
    /\ \A u \in Updaters : WF_vars(Sample(u) \/ PublishState(u))

Spec == BPInit /\ [][Next]_vars /\ Fairness

-----------------------------------------------------------------------------
\* The queue lengths for which the documentation promises a signal outright.
Demands(level) ==
    {n \in 0..Capacity : IF level = "HARD" THEN 100 * n >= HardPct * Capacity
                                           ELSE 100 * n < SoftPct * Capacity}
Signalled(level) ==
    signal = [level |-> level, throttle |-> IF level = "HARD" THEN 100 ELSE 0]

\* A stale reading may be published last, but it does not stay: when the queue
\* remains at or above the hard threshold senders are told to stop, and when it
\* remains below the soft one they are released (sla.py 337-348).
SignalSettles ==
    \A level \in {"NONE", "HARD"} :
        <>[](Cardinality(waiting) \in Demands(level)) => <>[]Signalled(level)
=============================================================================
