-------------------------- MODULE SafetyGuard_proofs -------------------------
(***************************************************************************)
(* Theorems about SafetyGuard for every number of concurrent calls, every  *)
(* threshold and every number of resets.                                   *)
(***************************************************************************)
EXTENDS SafetyGuard, FiniteSetTheorems, TLAPS

USE DEF CircuitState, FailMode, Places

\* Every step of the guard keeps its types.
LEMMA StepTypeOK ==
    ASSUME TypeOK, [Next]_vars
    PROVE  TypeOK'
<1> USE DEF TypeOK, errorVars
<1>1. ASSUME NEW c \in Calls, Admit(c) PROVE TypeOK'
  BY <1>1 DEF Admit, RouteFor
<1>2. ASSUME NEW c \in Calls, Succeed(c) PROVE TypeOK'
  BY <1>2 DEF Succeed, AfterSuccess, StreakAfterSuccess
<1>3. ASSUME NEW c \in Calls, Fail(c) PROVE TypeOK'
  BY <1>3 DEF Fail, At
<1>4. ASSUME NEW c \in Calls, Bypass(c) PROVE TypeOK'
  BY <1>4 DEF Bypass
<1>5. CASE Reset
  BY <1>5 DEF Reset
<1>6. ASSUME NEW mode \in FailMode, SetFailMode(mode) PROVE TypeOK'
  BY <1>6 DEF SetFailMode
<1>7. CASE UNCHANGED vars
  BY <1>7 DEF vars
<1> QED
  BY <1>1, <1>2, <1>3, <1>4, <1>5, <1>6, <1>7 DEF Next, CallStep

\* In every behaviour the guard's state keeps its shape (TypeOK).
THEOREM TypeCorrect == Spec => []TypeOK
<1>1. Init => TypeOK
  BY DEF Init, TypeOK
<1> QED
  BY <1>1, StepTypeOK, PTL DEF Spec

-----------------------------------------------------------------------------
\* Every step, from well-typed states, keeps state and streak in agreement.
LEMMA StepStateMatchesErrors ==
    ASSUME TypeOK, StateMatchesErrors, [Next]_vars
    PROVE  StateMatchesErrors'
<1> USE ThresholdAssumption DEF TypeOK, StateMatchesErrors, errorVars
<1>1. ASSUME NEW c \in Calls, Succeed(c) PROVE StateMatchesErrors'
  BY <1>1 DEF Succeed, AfterSuccess, StreakAfterSuccess
<1>2. ASSUME NEW c \in Calls, Fail(c) PROVE StateMatchesErrors'
  BY <1>2 DEF Fail, Tripped
<1>3. CASE Reset
  BY <1>3 DEF Reset
<1>4. CASE UNCHANGED errorVars
  BY <1>4
<1> QED
  BY <1>1, <1>2, <1>3, <1>4
  DEF Next, CallStep, Admit, Bypass, SetFailMode, vars

\* What health() reports is coherent (StateMatchesErrors): the state and the
\* streak of errors agree, for any threshold and any overlap of calls.
THEOREM HealthCoherent == Spec => []StateMatchesErrors
<1>1. Init => StateMatchesErrors
  BY DEF Init, StateMatchesErrors
<1> QED
  BY <1>1, TypeCorrect, StepStateMatchesErrors, PTL DEF Spec

-----------------------------------------------------------------------------
\* Every step keeps the calls behind an open circuit among those in opened.
LEMMA StepNoNewCalls ==
    ASSUME TypeOK, NoNewCallsWhileOpen, [Next]_vars
    PROVE  NoNewCallsWhileOpen'
<1> USE DEF TypeOK, NoNewCallsWhileOpen, At, errorVars
<1>1. ASSUME NEW c \in Calls, Admit(c) PROVE NoNewCallsWhileOpen'
  BY <1>1 DEF Admit, RouteFor
<1>2. ASSUME NEW c \in Calls, Succeed(c) PROVE NoNewCallsWhileOpen'
  BY <1>2 DEF Succeed, AfterSuccess
<1>3. ASSUME NEW c \in Calls, Fail(c) PROVE NoNewCallsWhileOpen'
  BY <1>3 DEF Fail
<1>4. ASSUME NEW c \in Calls, Bypass(c) PROVE NoNewCallsWhileOpen'
  BY <1>4 DEF Bypass
<1>5. CASE Reset
  BY <1>5 DEF Reset
<1>6. CASE UNCHANGED <<state, pc, opened>>
  BY <1>6
<1> QED
  BY <1>1, <1>2, <1>3, <1>4, <1>5, <1>6 DEF Next, CallStep, SetFailMode, vars

\* While the circuit is open no further call reaches the optimizer
\* (NoNewCallsWhileOpen), however many calls were in it when it opened.
THEOREM OpenCircuitShields == Spec => []NoNewCallsWhileOpen
<1>1. Init => NoNewCallsWhileOpen
  BY DEF Init, NoNewCallsWhileOpen
<1> QED
  BY <1>1, TypeCorrect, StepNoNewCalls, PTL DEF Spec

\* Without reset() an open circuit closes only on an error of a call that was
\* in the optimizer when it opened, and only to DEGRADED (ClosesOnlyByLateError).
THEOREM LateErrorOnly == Spec => ClosesOnlyByLateError
<1>1. ASSUME TypeOK, StateMatchesErrors, NoNewCallsWhileOpen, [Next]_vars,
             state = "BYPASSED", state' # "BYPASSED", resets' = resets
      PROVE  /\ state' = "DEGRADED"
             /\ consecutiveErrors' < Threshold
             /\ \E c \in opened : pc[c] = "calling" /\ pc'[c] # "calling"
  <2>1. PICK c \in Calls : Fail(c)
    BY <1>1
    DEF TypeOK, Next, CallStep, Admit, Succeed, AfterSuccess, Bypass, Reset,
        SetFailMode, vars, errorVars
  <2>2. state' = "DEGRADED" /\ ~Tripped(consecutiveErrors')
    BY <1>1, <2>1 DEF Fail
  <2>3. Threshold > 0 /\ consecutiveErrors' \in Nat
    BY <1>1, <2>1 DEF TypeOK, StateMatchesErrors, Fail
  <2>4. c \in opened /\ pc[c] = "calling" /\ pc'[c] # "calling"
    BY <1>1, <2>1 DEF TypeOK, NoNewCallsWhileOpen, At, Fail
  <2> QED
    BY <2>2, <2>3, <2>4, ThresholdAssumption DEF Tripped
<1> QED
  BY <1>1, TypeCorrect, HealthCoherent, OpenCircuitShields, PTL
  DEF Spec, ClosesOnlyByLateError

-----------------------------------------------------------------------------
(* The packets between the two locked sections of an error.                *)
Unsettled == At("failOpen") \cup At("failClosed")

\* Finitely many packets are between the two sections, as Calls is finite.
LEMMA UnsettledFinite == IsFiniteSet(Unsettled) /\ Cardinality(Unsettled) \in Nat
BY CallsAssumption, FS_Subset, FS_CardinalityType DEF Unsettled, At

\* Every step keeps the errors within the bypasses counted or due.
LEMMA StepErrorsAreBypassed ==
    ASSUME TypeOK, totalErrors <= bypassCount + Cardinality(Unsettled), [Next]_vars
    PROVE  (totalErrors <= bypassCount + Cardinality(Unsettled))'
<1> USE UnsettledFinite DEF TypeOK, errorVars
<1> DEFINE Goal == (totalErrors <= bypassCount + Cardinality(Unsettled))'
<1>0. IsFiniteSet(Unsettled') /\ Cardinality(Unsettled') \in Nat
  BY CallsAssumption, FS_Subset, FS_CardinalityType DEF Unsettled, At
<1>1. ASSUME NEW c \in Calls, Fail(c) PROVE Goal
  <2>1. Unsettled' = Unsettled \cup {c} /\ c \notin Unsettled
    BY <1>1 DEF Fail, Unsettled, At
  <2>2. Cardinality(Unsettled') = Cardinality(Unsettled) + 1
    BY <2>1, FS_AddElement
  <2>3. totalErrors' = totalErrors + 1 /\ bypassCount' = bypassCount
    BY <1>1 DEF Fail
  <2> QED
    BY <2>2, <2>3
<1>2. ASSUME NEW c \in Calls, Bypass(c) PROVE Goal
  <2>1. Unsettled' = Unsettled \ {c}
    BY <1>2 DEF Bypass, Unsettled, At
  <2>2. Cardinality(Unsettled') \in {Cardinality(Unsettled), Cardinality(Unsettled) - 1}
    BY <2>1, UnsettledFinite, FS_RemoveElement
  <2>3. totalErrors' = totalErrors /\ bypassCount' = bypassCount + 1
    BY <1>2 DEF Bypass
  <2> QED
    BY <1>0, <2>2, <2>3
<1>3. CASE Reset
  BY <1>0, <1>3 DEF Reset
<1>4. ASSUME UNCHANGED <<totalErrors, bypassCount>>, Unsettled' = Unsettled PROVE Goal
  BY <1>4
<1>5. ASSUME NEW c \in Calls, Admit(c) \/ Succeed(c)
      PROVE  UNCHANGED <<totalErrors, bypassCount>> /\ Unsettled' = Unsettled
  BY <1>5 DEF Admit, RouteFor, Succeed, Unsettled, At
<1>6. ASSUME UNCHANGED vars \/ \E mode \in FailMode : SetFailMode(mode)
      PROVE  UNCHANGED <<totalErrors, bypassCount>> /\ Unsettled' = Unsettled
  BY <1>6 DEF SetFailMode, vars, Unsettled, At
<1> QED
  BY <1>1, <1>2, <1>3, <1>4, <1>5, <1>6 DEF Next, CallStep

\* Every counted error has its bypassed packet, counted or on its way, even when
\* reset() falls between the two locked sections (ErrorsAreBypassed).
THEOREM NoErrorUnanswered == Spec => []ErrorsAreBypassed
<1>1. Init => totalErrors <= bypassCount + Cardinality(Unsettled)
  BY UnsettledFinite DEF Init
<1>2. ErrorsAreBypassed <=> totalErrors <= bypassCount + Cardinality(Unsettled)
  BY DEF ErrorsAreBypassed, Unsettled
<1> QED
  BY <1>1, <1>2, TypeCorrect, StepErrorsAreBypassed, PTL DEF Spec
=============================================================================
