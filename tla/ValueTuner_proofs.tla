-------------------------- MODULE ValueTuner_proofs --------------------------
(***************************************************************************)
(* Theorems about the tuner over a value policy, for every table of rules, *)
(* all factors, thresholds and efficiencies, and however operators step    *)
(* in: the bounds of the coefficients, the direction of every adjustment,  *)
(* and that packets get what the tuner decided.                            *)
(***************************************************************************)
EXTENDS ValueTuner, WellFoundedInduction, TLAPS

\* A name is that of a rule, the first that bears it.
LEMMA FirstIndex ==
    ASSUME NEW S, S \subseteq DOMAIN Rules, S # {}
    PROVE  Min(S) \in S /\ \A i \in S : Min(S) <= i
<1>1. S \subseteq Nat
  BY RulesAssumption
<1>2. \E i \in S : \A j \in S : i <= j
  <2> DEFINE Less == OpToRel(<, Nat)
  <2>1. IsWellFoundedOn(Less, Nat)
    BY Zenon, NatLessThanWellFounded
  <2>2. \A i, j \in Nat : j < i => <<j, i>> \in Less
    BY DEF OpToRel
  <2> HIDE DEF Less
  <2>3. PICK i \in S : \A j \in S : ~(<<j, i>> \in Less)
    BY <1>1, <2>1, WFMin
  <2>4. \A j \in S : i \in Nat /\ j \in Nat /\ ~(j < i)
    BY <1>1, <2>2, <2>3
  <2> QED
    BY <2>4
<1> QED
  BY <1>1, <1>2 DEF Min

\* The base of a name is the value of a rule that bears it.
LEMMA BaseOfRule ==
    ASSUME NEW n \in Names
    PROVE  \E i \in DOMAIN Rules : Rules[i].name = n /\ Base(n) = Rules[i].value
<1> DEFINE Bearers == {i \in DOMAIN Rules : Rules[i].name = n}
<1>1. Bearers # {} /\ Bearers \subseteq DOMAIN Rules
  BY DEF Names
<1>2. Min(Bearers) \in Bearers
  BY <1>1, FirstIndex
<1> QED
  BY <1>2 DEF Base

\* Bases, like the ceiling, are not negative.
LEMMA BaseInRange ==
    ASSUME NEW n \in Names
    PROVE  Base(n) \in Nat /\ Ceiling \in Nat
BY BaseOfRule, RulesAssumption

\* The lesser and the greater of two numbers.
LEMMA MinOfTwo ==
    ASSUME NEW a \in Int, NEW b \in Int
    PROVE  Min({a, b}) = IF a <= b THEN a ELSE b
BY DEF Min

\* max() of two numbers is one of them and no less than either.
LEMMA MaxOfTwo ==
    ASSUME NEW a \in Int, NEW b \in Int
    PROVE  Max({a, b}) = IF a >= b THEN a ELSE b
BY DEF Max

\* A boost does not lower a number, a decay does not raise it.
LEMMA Percent ==
    ASSUME NEW c \in Nat, NEW pct \in Nat
    PROVE  /\ (c * pct) \div 100 \in Nat
           /\ pct >= 100 => (c * pct) \div 100 >= c
           /\ pct <= 100 => (c * pct) \div 100 <= c
<1>1. c * pct \in Nat
  OBVIOUS
<1>2. ASSUME pct >= 100 PROVE c * pct >= c * 100
  <2>1. PICK more \in Nat : pct = 100 + more
    BY <1>2
  <2>2. c * pct = c * 100 + c * more /\ c * more \in Nat
    BY <2>1
  <2> QED
    BY <2>2
<1>3. ASSUME pct <= 100 PROVE c * pct <= c * 100
  <2>1. PICK less \in Nat : 100 = pct + less
    BY <1>3
  <2>2. c * 100 = c * pct + c * less /\ c * less \in Nat
    BY <2>1
  <2> QED
    BY <2>2
<1> DEFINE product == c * pct
<1>4. product \in Nat /\ (pct >= 100 => product >= c * 100) /\ (pct <= 100 => product <= c * 100)
  BY <1>1, <1>2, <1>3
<1> HIDE DEF product
<1>5. product \div 100 \in Nat /\ (pct >= 100 => product \div 100 >= c)
      /\ (pct <= 100 => product \div 100 <= c)
  BY <1>4
<1> QED
  BY <1>5 DEF product

\* An adjustment stays within any range that base and ceiling are part of, and
\* goes the right way, or to the ceiling, or to the base.
LEMMA AdjustedInRange ==
    ASSUME NEW n \in Names, NEW B \in SUBSET Nat, Base(n) \in B, Ceiling \in B,
           NEW low \in B, NEW high \in B, Known(n) \in low..high, link[n] \in Efficiencies
    PROVE  /\ \E l, h \in B : Adjusted(n) \in l..h
           /\ link[n] < Violation => Adjusted(n) >= Known(n) \/ Adjusted(n) = Ceiling
           /\ link[n] >= Violation => Adjusted(n) <= Known(n) \/ Adjusted(n) = Base(n)
<1>1. /\ Base(n) \in Nat /\ Ceiling \in Nat /\ low \in Nat /\ high \in Nat
      /\ Known(n) \in Nat /\ low <= Known(n) /\ Known(n) <= high
  <2>1. Base(n) \in Nat /\ Ceiling \in Nat /\ low \in Nat /\ high \in Nat
    BY Zenon
  <2> QED
    BY <2>1
<1>2. link[n] \in Int /\ Violation \in Int /\ Perfection \in Int
  BY LinkAssumption
<1>3. /\ (Known(n) * BoostPct) \div 100 \in Nat
      /\ (Known(n) * BoostPct) \div 100 >= Known(n)
  BY <1>1, Percent, FactorsAssumption
<1>4. /\ (Known(n) * DecayPct) \div 100 \in Nat
      /\ (Known(n) * DecayPct) \div 100 <= Known(n)
  BY <1>1, Percent, FactorsAssumption
<1>5. Boosted(Known(n)) \in Known(n)..Ceiling \/ Boosted(Known(n)) = Ceiling
  BY <1>1, <1>3, MinOfTwo DEF Boosted
<1>6. Decayed(n, Known(n)) \in Base(n)..Known(n) \/ Decayed(n, Known(n)) = Base(n)
  BY <1>1, <1>4, MaxOfTwo DEF Decayed
<1>7. CASE link[n] < Violation
  <2>1. Adjusted(n) = Boosted(Known(n))
    BY <1>7 DEF Adjusted, Grade
  <2>2. Adjusted(n) \in low..Ceiling \/ Adjusted(n) \in Ceiling..Ceiling
    BY <1>1, <1>5, <2>1
  <2> QED
    BY <1>1, <1>2, <1>5, <1>7, <2>1, <2>2
<1>8. CASE ~(link[n] < Violation)
  <2>1. Adjusted(n) = Decayed(n, Known(n)) \/ Adjusted(n) = Known(n)
    BY <1>8 DEF Adjusted, Grade
  <2>2. \/ Adjusted(n) \in Base(n)..high \/ Adjusted(n) \in low..high
        \/ Adjusted(n) \in Base(n)..Base(n)
    BY <1>1, <1>6, <2>1
  <2> QED
    BY <1>1, <1>2, <1>6, <1>8, <2>1, <2>2
<1> QED
  BY <1>7, <1>8

-----------------------------------------------------------------------------
\* What the holder of the lock has still to write is the tuner's state, or
\* withdraws an override after a reset; what nobody has touched since follows it.
Agrees(n, c) == c = current[n] \/ (c = NoOverride /\ current[n] = Base(n))
FollowInv ==
    \A n \in Names :
        /\ n \in DOMAIN pending => current[n] # NoState /\ Agrees(n, pending[n])
        /\ n \notin DOMAIN pending /\ n \notin meddled /\ current[n] # NoState
             => Agrees(n, override[n])

TunerInv ==
    /\ current \in [Names -> Int]
    /\ TypeOK
    /\ FollowInv

\* No state, no override, nothing to write.
LEMMA InitTunerInv == Init => TunerInv
BY MeddlesAssumption, LinkAssumption
   DEF Init, TunerInv, TypeOK, FollowInv, Nothing, NoState, NoOverride

\* What the tuner knows is not negative.
LEMMA CurrentIsNat ==
    ASSUME TunerInv, NEW n \in Names, current[n] # NoState
    PROVE  current[n] \in Nat
<1>1. PICK low \in Bounds(n), high \in Bounds(n) : current[n] \in low..high
  BY DEF TunerInv, TypeOK
<1>2. low \in Nat /\ high \in Nat
  BY BaseInRange DEF Bounds, TunerInv, TypeOK
<1> QED
  BY <1>1, <1>2

\* What the tuner starts from lies within the bounds, an adopted override being
\* one of them from then on.
LEMMA KnownInRange ==
    ASSUME TunerInv, NEW n \in Names
    PROVE  /\ \E low, high \in Bounds(n) \cup {Known(n)} : Known(n) \in low..high
           /\ Known(n) \in Nat /\ Bounds(n) \subseteq Nat
           /\ current[n] # NoState => Known(n) = current[n]
           /\ ~Adopts(n) => \E low, high \in Bounds(n) : Known(n) \in low..high
<1> USE DEF TunerInv
<1>1. Bounds(n) \subseteq Nat /\ Base(n) \in Bounds(n) /\ Base(n) \in Nat
  BY BaseInRange DEF Bounds, TypeOK
<1>2. CASE current[n] # NoState
  <2>1. PICK low \in Bounds(n), high \in Bounds(n) : current[n] \in low..high
    BY <1>2 DEF TypeOK
  <2> QED
    BY <1>1, <1>2, <2>1 DEF Known, Adopts
<1>3. CASE Adopts(n)
  <2>1. override[n] \in Nat
    BY <1>3 DEF Adopts, NoOverride, TypeOK
  <2> QED
    BY <1>1, <1>3, <2>1 DEF Known, Adopts
<1>4. CASE current[n] = NoState /\ ~Adopts(n)
  BY <1>1, <1>4 DEF Known
<1> QED
  BY <1>2, <1>3, <1>4

\* One observation leaves the coefficient within the bounds it leaves.
LEMMA ObservedInRange ==
    ASSUME TunerInv, NEW n \in Names, Observe(n)
    PROVE  /\ adopted' \in [Names -> SUBSET Nat]
           /\ \A m \in Names \ {n} : Bounds(m)' = Bounds(m)
           /\ \E low, high \in Bounds(n)' : Adjusted(n) \in low..high
           /\ Adjusted(n) \in Nat
<1>1. /\ adopted \in [Names -> SUBSET Nat] /\ link[n] \in Efficiencies
      /\ Known(n) \in Nat /\ Bounds(n) \subseteq Nat
  BY KnownInRange DEF TunerInv, TypeOK
<1>2. /\ adopted' \in [Names -> SUBSET Nat]
      /\ \A m \in Names \ {n} : adopted'[m] = adopted[m]
      /\ adopted'[n] = IF Adopts(n) THEN {Known(n)} ELSE adopted[n]
  BY <1>1 DEF Observe, Known
<1>3. /\ Bounds(n)' = {Base(n), Ceiling} \cup adopted'[n]
      /\ \A m \in Names \ {n} : Bounds(m)' = Bounds(m)
  BY <1>2 DEF Bounds, Base
<1>4. Bounds(n)' \subseteq Nat
  BY <1>2, <1>3, BaseInRange
<1>5. PICK low \in Bounds(n)', high \in Bounds(n)' : Known(n) \in low..high
  <2>1. CASE Adopts(n)
    BY <1>1, <1>2, <1>3, <2>1
  <2>2. CASE ~Adopts(n)
    BY <1>2, <1>3, <2>2, KnownInRange DEF Bounds
  <2> QED
    BY <2>1, <2>2
<1>6. \E l, h \in Bounds(n)' : Adjusted(n) \in l..h
  BY <1>1, <1>3, <1>4, <1>5, AdjustedInRange
<1> QED
  BY <1>2, <1>3, <1>4, <1>6

\* Every step of the tuner and of the operators keeps the invariant.
LEMMA StepTunerInv ==
    ASSUME TunerInv, [Next]_vars
    PROVE  TunerInv'
<1> USE DEF TunerInv, TypeOK, FollowInv, Agrees
<1>0. \A n \in Names : /\ Base(n) \in Nat /\ Base(n) \in Bounds(n)
                        /\ (adopted' = adopted => Bounds(n)' = Bounds(n))
  BY BaseInRange DEF Bounds, Base
<1>1. CASE UNCHANGED vars
  BY <1>0, <1>1 DEF vars
<1>2. ASSUME NEW n \in Names, Observe(n) PROVE TunerInv'
  <2>1. /\ Adjusted(n) \in Nat
        /\ \E low, high \in Bounds(n)' : Adjusted(n) \in low..high
        /\ \A m \in Names \ {n} : Bounds(m)' = Bounds(m)
        /\ adopted' \in [Names -> SUBSET Nat]
    BY <1>2, ObservedInRange, Zenon
  <2>3. /\ current' \in [Names -> Int] /\ current'[n] = Adjusted(n) /\ current'[n] # NoState
        /\ \A m \in Names \ {n} : current'[m] = current[m]
    BY <1>2, <2>1 DEF Observe, NoState
  <2>4. /\ DOMAIN pending' = {n} /\ pending'[n] = Adjusted(n) /\ DOMAIN pending = {}
    BY <1>2 DEF Observe, Nothing
  <2>5. UNCHANGED <<override, link, meddled, meddles>>
    BY <1>2 DEF Observe
  <2>6. TypeOK'
    <3>1. \A m \in Names : \/ current'[m] = NoState
                           \/ \E low, high \in Bounds(m)' : current'[m] \in low..high
      BY <2>1, <2>3
    <3> QED
      BY <2>1, <2>3, <2>4, <2>5, <3>1
  <2>7. FollowInv'
    <3>1. current'[n] # NoState /\ pending'[n] = current'[n] /\ n \in DOMAIN pending'
      BY <2>3, <2>4
    <3>2. \A m \in Names \ {n} :
            /\ m \notin DOMAIN pending'
            /\ m \notin meddled' /\ current'[m] # NoState
                 => override'[m] = current'[m] \/ (override'[m] = NoOverride /\ current'[m] = Base(m))
      BY <2>3, <2>4, <2>5
    <3> HIDE DEF TypeOK, TunerInv
    <3>3. \A m \in Names :
            /\ m \in DOMAIN pending' => current'[m] # NoState /\ pending'[m] = current'[m]
            /\ m \notin DOMAIN pending' /\ m \notin meddled' /\ current'[m] # NoState
                 => override'[m] = current'[m] \/ (override'[m] = NoOverride /\ current'[m] = Base(m))
      BY <3>1, <3>2
    <3> QED
      BY <3>3
  <2> QED
    BY <2>3, <2>5, <2>6, <2>7
<1>3. ASSUME NEW n \in Names, Publish(n) PROVE TunerInv'
  <2>1. /\ n \in DOMAIN pending /\ current[n] # NoState
        /\ Agrees(n, pending[n])
    BY <1>3 DEF Publish
  <2>2. pending[n] \in Nat \cup {NoOverride}
    BY <2>1, CurrentIsNat
  <2>3. /\ override' = [override EXCEPT ![n] = pending[n]]
        /\ DOMAIN pending' = DOMAIN pending \ {n}
        /\ \A m \in DOMAIN pending \ {n} : pending'[m] = pending[m]
        /\ meddled' = meddled \ {n}
        /\ UNCHANGED <<current, link, adopted, meddles>>
    BY <1>3 DEF Publish
  <2>4. /\ override'[n] = pending[n]
        /\ \A m \in Names \ {n} : override'[m] = override[m]
    BY <2>3
  <2>5. override' \in [Names -> Nat \cup {NoOverride}]
    BY <2>2, <2>3
  <2>6. FollowInv'
    BY <2>1, <2>3, <2>4
  <2> QED
    BY <1>0, <2>2, <2>3, <2>4, <2>5, <2>6
<1>4. ASSUME NEW N \in SUBSET Names, ResetRules(N) PROVE TunerInv'
  <2>1. /\ DOMAIN pending' = {n \in N : current[n] # NoState} /\ DOMAIN pending = {}
        /\ \A n \in DOMAIN pending' : pending'[n] = NoOverride
    BY <1>4 DEF ResetRules, Resettable, Nothing
  <2>2. \A n \in Names : Base(n) \in Nat /\ Base(n) \in Base(n)..Base(n)
    BY <1>0
  <2>3. \A n \in Names : current'[n] = IF n \in N /\ current[n] # NoState
                                       THEN Base(n) ELSE current[n]
    BY <1>4 DEF ResetRules
  <2>4. current' \in [Names -> Int]
    BY <1>4, <2>2 DEF ResetRules
  <2>5. meddles' \in 0..MaxMeddles /\ UNCHANGED <<override, link, adopted, meddled>>
    BY <1>4, MeddlesAssumption DEF ResetRules
  <2>6. FollowInv'
    BY <2>1, <2>2, <2>3, <2>5 DEF NoState
  <2>7. \A n \in Names : \/ current'[n] = NoState
                         \/ \E low, high \in Bounds(n)' : current'[n] \in low..high
    BY <1>0, <2>2, <2>3, <2>5
  <2> QED
    BY <2>1, <2>2, <2>3, <2>4, <2>5, <2>6, <2>7
<1>5. ASSUME NEW n \in Names, NEW c \in Overrides \cup {NoOverride}, Meddle(n, c) PROVE TunerInv'
  <2>1. /\ override'[n] = c /\ \A m \in Names \ {n} : override'[m] = override[m]
        /\ override' \in [Names -> Nat \cup {NoOverride}]
    BY <1>5, OverridesAssumption DEF Meddle
  <2>2. meddles' \in 0..MaxMeddles /\ meddled' = meddled \cup {n} /\ UNCHANGED <<current, pending, link, adopted>>
    BY <1>5, MeddlesAssumption DEF Meddle
  <2> QED
    BY <1>0, <2>1, <2>2
<1>6. ASSUME NEW n \in Names, Measure(n) PROVE TunerInv'
  <2>1. /\ link' \in [Names -> Efficiencies]
        /\ UNCHANGED <<current, override, pending, adopted, meddled, meddles>>
    BY <1>6 DEF Measure
  <2> QED
    BY <1>0, <2>1
<1> QED
  BY <1>1, <1>2, <1>3, <1>4, <1>5, <1>6 DEF Next, Reset, ResetAll, SetOverride, ClearOverride

\* The tuner's coefficients stay within base (value.py 866-867), ceiling and
\* the override it began from, whatever operators and resets do (TypeOK).
THEOREM CoefficientsBounded == Spec => []TypeOK
<1>1. TunerInv => TypeOK
  BY DEF TunerInv
<1> QED
  BY <1>1, InitTunerInv, StepTunerInv, PTL DEF Spec

-----------------------------------------------------------------------------
\* "Under saturation the violating flow climbs" and a satisfied one never does
\* (value.py 869-871), but for a coefficient above the ceiling or below the base
\* (MovesTheRightWay): for all factors and thresholds, and whatever operators
\* and resets do in between.
THEOREM RightWay == Spec => MovesTheRightWay
<1> DEFINE Right == \A n \in Names :
         current[n] # NoState /\ n \in DOMAIN pending' \ DOMAIN pending
         /\ pending'[n] # NoOverride =>
           /\ link[n] < Violation => current'[n] >= current[n] \/ current'[n] = Ceiling
           /\ link[n] >= Violation => current'[n] <= current[n] \/ current'[n] = Base(n)
<1>1. ASSUME TunerInv, [Next]_vars PROVE Right
  <2> SUFFICES ASSUME NEW n \in Names, current[n] # NoState,
                      n \in DOMAIN pending', n \notin DOMAIN pending, pending'[n] # NoOverride
               PROVE  /\ link[n] < Violation => current'[n] >= current[n] \/ current'[n] = Ceiling
                      /\ link[n] >= Violation => current'[n] <= current[n] \/ current'[n] = Base(n)
    OBVIOUS
  <2>1. ASSUME NEW m \in Names, Observe(m)
        PROVE  /\ link[n] < Violation => current'[n] >= current[n] \/ current'[n] = Ceiling
               /\ link[n] >= Violation => current'[n] <= current[n] \/ current'[n] = Base(n)
    <3>1. m = n /\ current'[n] = Adjusted(n)
      BY <1>1, <2>1 DEF Observe, TunerInv
    <3>2. /\ Known(n) = current[n] /\ link[n] \in Efficiencies /\ Bounds(n) \in SUBSET Nat
          /\ Base(n) \in Bounds(n) /\ Ceiling \in Bounds(n)
      BY <1>1, KnownInRange DEF TunerInv, TypeOK, Bounds
    <3>3. PICK low \in Bounds(n), high \in Bounds(n) : Known(n) \in low..high
      BY <1>1, KnownInRange DEF Adopts
    <3> QED
      BY <3>1, <3>2, <3>3, AdjustedInRange
  <2>2. ASSUME NEW m \in Names, Publish(m) PROVE DOMAIN pending' \subseteq DOMAIN pending
    BY <2>2 DEF Publish
  <2>3. ASSUME NEW N \in SUBSET Names, ResetRules(N) PROVE pending'[n] = NoOverride
    BY <2>3 DEF ResetRules
  <2>4. ASSUME NEW m \in Names, SetOverride(m) \/ ClearOverride(m) \/ Measure(m)
        PROVE  UNCHANGED pending
    BY <2>4 DEF SetOverride, ClearOverride, Meddle, Measure
  <2>5. UNCHANGED vars => UNCHANGED pending
    BY DEF vars
  <2> QED
    BY <1>1, <2>1, <2>2, <2>3, <2>4, <2>5 DEF Next, Reset, ResetAll
<1>2. TunerInv /\ [Next]_vars => [Right]_vars
  BY <1>1
<1> QED
  BY <1>2, InitTunerInv, StepTunerInv, PTL DEF Spec, MovesTheRightWay

-----------------------------------------------------------------------------
\* What packets get is what the tuner decided (PacketsFollowTuner), for every
\* table whose rules bear different names: rules that share one share its
\* override, and after a reset() each has its own value again.
THEOREM DecisionsInForce ==
    ASSUME \A i, j \in DOMAIN Rules : Rules[i].name = Rules[j].name => i = j
    PROVE  Spec => []PacketsFollowTuner
<1>1. ASSUME TunerInv PROVE PacketsFollowTuner
  <2> SUFFICES ASSUME NEW p \in Packets, NEW i \in DOMAIN Rules, Matches(Rules[i], p),
                      \A j \in DOMAIN Rules : Matches(Rules[j], p) => i <= j,
                      pending = Nothing, current[Rules[i].name] # NoState,
                      Rules[i].name \notin meddled
               PROVE  Coefficient(p) = current[Rules[i].name]
    BY DEF PacketsFollowTuner
  <2> DEFINE n == Rules[i].name
             Matching == {j \in DOMAIN Rules : Matches(Rules[j], p)}
  <2>1. n \in Names /\ Base(n) = Rules[i].value
    BY BaseOfRule DEF Names
  <2>2. MatchOf(p) = i
    <3>1. Min(Matching) \in Matching /\ Min(Matching) <= i
      BY FirstIndex
    <3>2. Min(Matching) \in Nat /\ i \in Nat /\ i <= Min(Matching)
      BY <3>1, RulesAssumption
    <3>3. Min(Matching) = i
      BY <3>1, <3>2
    <3> QED
      BY <3>3 DEF MatchOf, FirstMatch
  <2>3. Agrees(n, override[n])
    BY <1>1, <2>1 DEF TunerInv, FollowInv, Nothing
  <2>4. current[n] \in Nat
    BY <1>1, <2>1, CurrentIsNat
  <2>5. Coefficient(p) = IF override[n] # NoOverride THEN override[n] ELSE Rules[i].value
    BY <2>2 DEF Coefficient, HasRule
  <2> QED
    BY <2>1, <2>3, <2>4, <2>5 DEF Agrees, NoOverride
<1> QED
  BY <1>1, InitTunerInv, StepTunerInv, PTL DEF Spec
=============================================================================
