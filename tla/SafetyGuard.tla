----------------------------- MODULE SafetyGuard -----------------------------
(***************************************************************************)
(* SafetyGuard (safety.py): the circuit breaker around the optimizer, used *)
(* by several threads at once.  process() holds the lock only in short     *)
(* sections, so a call is a sequence of steps:                             *)
(*                                                                         *)
(*   idle -Admit-> calling  -Succeed-> done                                *)
(*                          -Fail----> failOpen, failClosed -Bypass-> done *)
(*        -Admit-> bypassed -Bypass--> done                                *)
(*                                                                         *)
(* The optimizer is its outcome, a result or an exception.  Each element   *)
(* of Calls is one call of process(); last_error and the clocks are left   *)
(* out, as are the read-only health(), stats() and state.                  *)
(***************************************************************************)
EXTENDS Integers, FiniteSets

CONSTANTS
    Calls,      \* the calls of process()
    Threshold,  \* circuit_threshold; 0 = never trip
    MaxResets   \* bound: how often reset() is called

ASSUME CallsAssumption == IsFiniteSet(Calls)
ASSUME ThresholdAssumption == Threshold \in Nat
ASSUME MaxResetsAssumption == MaxResets \in Nat

VARIABLES
    state,              \* self._state
    failMode,           \* self._fail_mode
    totalErrors,        \* self._total_errors
    consecutiveErrors,  \* self._consecutive_errors
    totalIn,            \* self._total_in
    bypassCount,        \* self._bypass_count
    pc,                 \* where each call is
    dropped,            \* calls whose result has dropped=True
    resets,             \* history: number of reset() calls
    opened              \* history: calls in the optimizer when the circuit
                        \*          last opened

errorVars == <<state, totalErrors, consecutiveErrors>>
vars == <<errorVars, failMode, totalIn, bypassCount, pc, dropped, resets, opened>>

CircuitState == {"HEALTHY", "DEGRADED", "BYPASSED"}
FailMode == {"FAIL_OPEN", "FAIL_CLOSED"}
Places == {"idle", "calling", "bypassed", "failOpen", "failClosed", "done"}

At(place) == {c \in Calls : pc[c] = place}

Init ==
    /\ state = "HEALTHY"
    /\ failMode \in FailMode
    /\ totalErrors = 0
    /\ consecutiveErrors = 0
    /\ totalIn = 0
    /\ bypassCount = 0
    /\ pc = [c \in Calls |-> "idle"]
    /\ dropped = {}
    /\ resets = 0
    /\ opened = {}

-----------------------------------------------------------------------------
(* Variants with a plausible bug; the properties notice each of them.      *)
Tripped_TooLate(errors) == Threshold > 0 /\ errors > Threshold
RouteFor_IgnoresCircuit(s) == "calling"
AfterSuccess_ClosesCircuit(s) == "HEALTHY"
Finish_OnlyErrors(c) == pc[c] \in {"failOpen", "failClosed"}
Reset_KeepsTotal ==
    /\ resets < MaxResets
    /\ state' = "HEALTHY"
    /\ consecutiveErrors' = 0
    /\ bypassCount' = 0
    /\ resets' = resets + 1
    /\ UNCHANGED <<totalErrors, failMode, totalIn, pc, dropped, opened>>

-----------------------------------------------------------------------------
Tripped(errors) == Threshold > 0 /\ errors >= Threshold

RouteFor(s) == IF s = "BYPASSED" THEN "bypassed" ELSE "calling"

\* process(): count the packet and decide on the state seen under the lock.
Admit(c) ==
    /\ pc[c] = "idle"
    /\ totalIn' = totalIn + 1
    /\ pc' = [pc EXCEPT ![c] = RouteFor(state)]
    /\ UNCHANGED <<errorVars, failMode, bypassCount, dropped, resets, opened>>

\* A success heals DEGRADED; an open circuit stays open.
AfterSuccess(s) == IF s = "DEGRADED" THEN "HEALTHY" ELSE s

StreakAfterSuccess == 0

\* optimizer.process() returned.
Succeed(c) ==
    /\ pc[c] = "calling"
    /\ consecutiveErrors' = StreakAfterSuccess
    /\ state' = AfterSuccess(state)
    /\ pc' = [pc EXCEPT ![c] = "done"]
    /\ UNCHANGED <<totalErrors, failMode, totalIn, bypassCount, dropped, resets, opened>>

\* optimizer.process() raised: the locked section of _handle_error().
Fail(c) ==
    /\ pc[c] = "calling"
    /\ totalErrors' = totalErrors + 1
    /\ consecutiveErrors' = consecutiveErrors + 1
    /\ state' = IF Tripped(consecutiveErrors') THEN "BYPASSED" ELSE "DEGRADED"
    /\ pc' = [pc EXCEPT ![c] = IF failMode = "FAIL_CLOSED" THEN "failClosed"
                                                           ELSE "failOpen"]
    /\ opened' = IF state # "BYPASSED" /\ state' = "BYPASSED"
                 THEN At("calling") \ {c} ELSE opened
    /\ UNCHANGED <<failMode, totalIn, bypassCount, dropped, resets>>

ForceDrop(c) == pc[c] = "failClosed"

\* The calls that _bypass_result() is the end of.
Finish(c) == pc[c] \in {"bypassed", "failOpen", "failClosed"}

\* _bypass_result(): a locked section of its own.
Bypass(c) ==
    /\ Finish(c)
    /\ bypassCount' = bypassCount + 1
    /\ dropped' = IF ForceDrop(c) THEN dropped \cup {c} ELSE dropped
    /\ pc' = [pc EXCEPT ![c] = "done"]
    /\ UNCHANGED <<errorVars, failMode, totalIn, resets, opened>>

Reset ==
    /\ resets < MaxResets
    /\ state' = "HEALTHY"
    /\ totalErrors' = 0
    /\ consecutiveErrors' = 0
    /\ bypassCount' = 0
    /\ resets' = resets + 1
    /\ UNCHANGED <<failMode, totalIn, pc, dropped, opened>>

SetFailMode(mode) ==
    /\ failMode' = mode
    /\ UNCHANGED <<errorVars, totalIn, bypassCount, pc, dropped, resets, opened>>

CallStep(c) == Admit(c) \/ Succeed(c) \/ Fail(c) \/ Bypass(c)

Next ==
    \/ \E c \in Calls : CallStep(c)
    \/ Reset
    \/ \E mode \in FailMode : SetFailMode(mode)

Spec == Init /\ [][Next]_vars

\* A call that has begun runs to its end: the lock sections are short and the
\* optimizer returns or raises.  Nobody need begin a call or reset.
Fairness == \A c \in Calls : WF_vars(Succeed(c) \/ Fail(c) \/ Bypass(c))
FairSpec == Spec /\ Fairness

-----------------------------------------------------------------------------
\* The state has the shape the code gives it.
TypeOK ==
    /\ state \in CircuitState
    /\ failMode \in FailMode
    /\ totalErrors \in Nat
    /\ consecutiveErrors \in Nat
    /\ totalIn \in Nat
    /\ bypassCount \in Nat
    /\ pc \in [Calls -> Places]
    /\ dropped \subseteq Calls
    /\ resets \in Nat
    /\ opened \subseteq Calls

\* What health() reports is coherent whatever calls overlap: HEALTHY has no
\* current streak of errors, DEGRADED a streak below the threshold, and only a
\* positive threshold ever opens the circuit (safety.py 64-68, 118-120).
StateMatchesErrors ==
    /\ consecutiveErrors <= totalErrors
    /\ state = "HEALTHY" => consecutiveErrors = 0
    /\ state = "DEGRADED" =>
         /\ consecutiveErrors > 0
         /\ Threshold > 0 => consecutiveErrors < Threshold
    /\ state = "BYPASSED" => Threshold > 0

\* "In BYPASSED state all packets are forwarded ... without calling the
\* optimizer at all" (safety.py 14-16): while the circuit is open, the calls
\* inside the optimizer are among those that were there when it opened.
NoNewCallsWhileOpen == state = "BYPASSED" => At("calling") \subseteq opened

\* Every error is compensated by a bypassed packet, even when reset() falls
\* between the two locked sections: the errors counted since the last reset()
\* never exceed the packets counted as bypassed or about to be.
ErrorsAreBypassed ==
    totalErrors <= bypassCount + Cardinality(At("failOpen") \cup At("failClosed"))

\* process() always comes to a result.
EveryCallReturns == \A c \in Calls : pc[c] # "idle" ~> pc[c] = "done"

\* "a reset() call (or a watchdog thread)" restores operation once the breaker has
\* tripped (safety.py 19-22).  That reset() is the only way out of BYPASSED does not
\* hold: a late success clears the streak, and a late error then writes DEGRADED.
\* What the code does guarantee: without reset() the circuit closes only on an error
\* of a call that was in the optimizer when the circuit opened, with fewer errors in
\* a row than the threshold, and only as far as DEGRADED.
ClosesOnlyByLateError ==
    [][state = "BYPASSED" /\ state' # "BYPASSED" /\ resets' = resets
         => /\ state' = "DEGRADED"
            /\ consecutiveErrors' < Threshold
            /\ \E c \in opened : pc[c] = "calling" /\ pc'[c] # "calling"]_vars
=============================================================================
