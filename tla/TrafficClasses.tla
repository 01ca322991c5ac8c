---------------------------- MODULE TrafficClasses ---------------------------
(***************************************************************************)
(* Priority classes (config.py) and the business value of a packet         *)
(* (value.py): operators without state, shared by the modules that order   *)
(* or filter packets.                                                      *)
(***************************************************************************)
EXTENDS Integers

\* config.py: a lower number is a higher priority.
CRITICAL == 1
HIGH == 2
MEDIUM == 3
LOW == 4
BACKGROUND == 5
TrafficPriority == CRITICAL..BACKGROUND

\* packet.priority of a packet that was not classified (None).
NoPriority == 0

PriorityOf(priority) == IF priority = NoPriority THEN MEDIUM ELSE priority

-----------------------------------------------------------------------------
(* Variant with a plausible bug, noticed by ValueOrderSound.               *)
Multiplier_AsPriority(priority) == priority
-----------------------------------------------------------------------------

\* _PRIORITY_MULTIPLIER: 5 for CRITICAL down to 1 for BACKGROUND.
Multiplier(priority) == 6 - priority

\* ValueScheduler._effective_value; coefficients are integers here, as only
\* their order and their products with the multipliers matter.
EffectiveValue(coefficient, priority) ==
    (IF coefficient < 0 THEN 0 ELSE coefficient) * Multiplier(PriorityOf(priority))
=============================================================================
