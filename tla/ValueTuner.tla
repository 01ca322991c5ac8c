----------------------------- MODULE ValueTuner -----------------------------
(***************************************************************************)
(* ValueCoefficientTuner over FlowValuePolicy (value.py): the feedback     *)
(* loop that moves the coefficients of the policy's rules, while operators *)
(* set overrides of their own and packets read what is in force.           *)
(*                                                                         *)
(* The tuner's lock covers observe(), reset() and reset_all(), but the     *)
(* policy has a lock of its own, taken once per access: between a new      *)
(* state of the tuner and its publication an operator may step in.         *)
(* pending is the call that holds the tuner's lock: what it has still to   *)
(* write to the policy.  Coefficients are integers, fractions are cut off. *)
(* Neither the rules' values nor an operator's overrides are held to the   *)
(* range from base to ceiling: only the tuner's own steps respect it.      *)
(***************************************************************************)
EXTENDS Integers, Sequences, FiniteSetsExt

CONSTANTS
    Rules,        \* policy._rules: records of name, ports, protocols, value
    Packets,      \* records of src, dst and protocol
    Default,      \* default_coefficient
    BoostPct,     \* boost_factor, in percent
    DecayPct,     \* decay_factor, in percent
    Ceiling,      \* max_coefficient
    Perfection,   \* perfection_threshold_pct
    Violation,    \* violation_threshold_pct
    Efficiencies, \* delivered_rate in percent of sla_min_rate, as observed
    Overrides,    \* coefficients operators choose
    MaxMeddles    \* bound: how often operators and reset() step in

Names == {Rules[i].name : i \in DOMAIN Rules}
NoOverride == -1
NoState == -1

VARIABLES
    current,   \* current_coefficient per rule, NoState before observe()
    override,  \* policy._overrides
    pending,   \* rules whose override the holder of the lock must still
               \*   write, with the coefficient or NoOverride to clear it
    link,      \* what the monitoring loop measures for each rule
    adopted,   \* history: the override a rule's first observation began
               \*   from, as a set, empty when it began from the base
    meddled,   \* history: rules whose override an operator touched last
    meddles    \* history: number of operator and reset calls

vars == <<current, override, pending, link, adopted, meddled, meddles>>

ASSUME RulesAssumption ==
    /\ Rules \in Seq({Rules[i] : i \in DOMAIN Rules})
    /\ Ceiling \in Nat /\ \A i \in DOMAIN Rules : Rules[i].value \in Nat
ASSUME FactorsAssumption == BoostPct \in Nat /\ BoostPct >= 100 /\ DecayPct \in 0..100
ASSUME LinkAssumption ==
    Efficiencies \subseteq Int /\ Violation \in Int /\ Perfection \in Int
\* set_override() turns what is negative into zero and takes the rest.
ASSUME OverridesAssumption == Overrides \subseteq Nat
ASSUME MeddlesAssumption == MaxMeddles \in Nat

-----------------------------------------------------------------------------
(* Variants with a plausible bug; the properties notice each of them.      *)
Boosted_Uncapped(c) == (c * BoostPct) \div 100
FirstMatch_Last(p, I) == Max(I)
Grade_Swapped(e) ==
    IF e < Violation THEN "decay" ELSE IF e >= Perfection THEN "boost" ELSE "keep"
Grade_DeadZone(e) == IF e < Violation THEN "boost" ELSE "keep"
Grade_NoBoost(e) == IF e >= Perfection THEN "decay" ELSE "keep"

-----------------------------------------------------------------------------
(* The policy: the first matching rule decides, its override comes first.  *)
Matches(r, p) ==
    /\ r.ports = {} \/ p.src \in r.ports \/ p.dst \in r.ports
    /\ r.protocols = {} \/ p.protocol \in r.protocols

FirstMatch(p, I) == Min(I)
MatchOf(p) == FirstMatch(p, {i \in DOMAIN Rules : Matches(Rules[i], p)})
HasRule(p) == \E i \in DOMAIN Rules : Matches(Rules[i], p)

\* get_coefficient(), assign()
Coefficient(p) ==
    IF ~HasRule(p) THEN Default
    ELSE LET r == Rules[MatchOf(p)]
         IN IF override[r.name] # NoOverride THEN override[r.name] ELSE r.value

\* The base coefficient of a name is that of the first rule that bears it.
Base(n) == Rules[Min({i \in DOMAIN Rules : Rules[i].name = n})].value

-----------------------------------------------------------------------------
Nothing == [n \in {} |-> 0]

Init ==
    /\ current = [n \in Names |-> NoState]
    /\ override = [n \in Names |-> NoOverride]
    /\ pending = Nothing
    /\ link \in [Names -> Efficiencies]
    /\ adopted = [n \in Names |-> {}]
    /\ meddled = {}
    /\ meddles = 0

\* _get_or_create_state(): a first observation starts from the override, if
\* there is one and it is not zero, else from the base.
Adopts(n) == current[n] = NoState /\ override[n] > 0
Known(n) ==
    IF Adopts(n) THEN override[n]
    ELSE IF current[n] = NoState THEN Base(n) ELSE current[n]

Grade(e) ==
    IF e < Violation THEN "boost" ELSE IF e >= Perfection THEN "decay" ELSE "keep"

Boosted(c) == Min({(c * BoostPct) \div 100, Ceiling})
Decayed(n, c) == Max({(c * DecayPct) \div 100, Base(n)})

Adjusted(n) ==
    CASE Grade(link[n]) = "boost" -> Boosted(Known(n))
      [] Grade(link[n]) = "decay" -> Decayed(n, Known(n))
      [] Grade(link[n]) = "keep"  -> Known(n)

\* observe(), observe_contract(): up to the call of set_override().
Observe(n) ==
    /\ pending = Nothing
    /\ current' = [current EXCEPT ![n] = Adjusted(n)]
    /\ pending' = [m \in {n} |-> Adjusted(n)]
    /\ adopted' = IF Adopts(n) THEN [adopted EXCEPT ![n] = {override[n]}] ELSE adopted
    /\ UNCHANGED <<override, link, meddled, meddles>>

\* reset() and reset_all() touch the rules the tuner knows.
Resettable(n) == IF current[n] # NoState THEN {n} ELSE {}

ResetRules(N) ==
    /\ pending = Nothing /\ meddles < MaxMeddles
    /\ current' = [n \in Names |->
                     IF n \in N /\ current[n] # NoState THEN Base(n) ELSE current[n]]
    /\ pending' = [n \in UNION {Resettable(m) : m \in N} |-> NoOverride]
    /\ meddles' = meddles + 1
    /\ UNCHANGED <<override, link, adopted, meddled>>

Reset(n) == ResetRules({n})
ResetAll == ResetRules(Names)

\* set_override() or clear_override(), called under the tuner's lock.
Publish(n) ==
    /\ n \in DOMAIN pending
    /\ override' = [override EXCEPT ![n] = pending[n]]
    /\ pending' = [m \in DOMAIN pending \ {n} |-> pending[m]]
    /\ meddled' = meddled \ {n}
    /\ UNCHANGED <<current, link, adopted, meddles>>

\* set_override() and clear_override(), called by an operator.
Meddle(n, c) ==
    /\ meddles < MaxMeddles
    /\ override' = [override EXCEPT ![n] = c]
    /\ meddled' = meddled \cup {n}
    /\ meddles' = meddles + 1
    /\ UNCHANGED <<current, pending, link, adopted>>

SetOverride(n) == \E c \in Overrides : Meddle(n, c)
ClearOverride(n) == Meddle(n, NoOverride)

\* The link carries more or less of what the rule's contract asks.
Measure(n) ==
    /\ \E e \in Efficiencies \ {link[n]} : link' = [link EXCEPT ![n] = e]
    /\ UNCHANGED <<current, override, pending, adopted, meddled, meddles>>

Next ==
    \/ \E n \in Names : \/ Observe(n) \/ Publish(n) \/ Reset(n)
                        \/ SetOverride(n) \/ ClearOverride(n) \/ Measure(n)
    \/ ResetAll

Spec == Init /\ [][Next]_vars

\* The monitoring loop observes every rule again and again (value.py 894-899,
\* demos/03_feedback_loop.py), and a call that holds the lock finishes.  The
\* lock is free again and again, and a waiting thread gets it in the end.
Fairness ==
    \A n \in Names : SF_vars(Observe(n)) /\ WF_vars(Publish(n))
FairSpec == Spec /\ Fairness

-----------------------------------------------------------------------------
\* The base (value.py 866-867) and the ceiling (864, 881) bound a coefficient,
\* and so does the override the tuner found when it first met the rule, which
\* may lie outside of both.
Bounds(n) == {Base(n), Ceiling} \cup adopted[n]

\* The state has the shape the code gives it, and whatever operators do later,
\* the tuner's coefficients stay within what it began from, base and ceiling.
TypeOK ==
    /\ override \in [Names -> Nat \cup {NoOverride}]
    /\ DOMAIN pending \subseteq Names
    /\ link \in [Names -> Efficiencies]
    /\ adopted \in [Names -> SUBSET Nat]
    /\ meddled \subseteq Names /\ meddles \in 0..MaxMeddles
    /\ \A n \in Names :
         current[n] = NoState \/ \E low, high \in Bounds(n) : current[n] \in low..high

\* What packets get is what the tuner decided: outside observe() and reset(), a
\* rule the tuner has taken over and no operator has touched since is in force
\* with the tuner's coefficient, for every packet whose first match it is.
PacketsFollowTuner ==
    \A p \in Packets :
        LET matching == {i \in DOMAIN Rules : Matches(Rules[i], p)}
            first == {i \in matching : \A j \in matching : i <= j}
        IN \A i \in first :
             LET n == Rules[i].name
             IN pending = Nothing /\ current[n] # NoState /\ n \notin meddled
                  => Coefficient(p) = current[n]

\* "Under saturation the violating flow climbs" (value.py 869-871): one
\* observation of a violated contract never lowers a coefficient the tuner
\* knows, except to the ceiling, which an adopted override may exceed; one of
\* a met contract never raises it, except to the base, below which an adopted
\* override may lie.
MovesTheRightWay ==
    [][\A n \in Names :
         current[n] # NoState /\ n \in DOMAIN pending' \ DOMAIN pending
         /\ pending'[n] # NoOverride =>
           /\ link[n] < Violation => current'[n] >= current[n] \/ current'[n] = Ceiling
           /\ link[n] >= Violation => current'[n] <= current[n] \/ current'[n] = Base(n)]_vars

\* "once the SLA is met the coefficient slowly drifts back to the base value"
\* (value.py 870-871), even from an operator's override.
DriftsBackToBase ==
    \A n \in Names :
        <>[](link[n] >= Perfection) => <>[](override[n] = Base(n))

\* A contract that stays violated drives its rule to the ceiling, unless its
\* base is zero, which no factor boosts.
ClimbsToCeiling ==
    \A n \in Names :
        Base(n) > 0 /\ <>[](link[n] < Violation) => <>[](override[n] = Ceiling)
=============================================================================
