------------------------------- MODULE Policy -------------------------------
(***************************************************************************)
(* The acceptance policy (internal/policy): a pure function from the       *)
(* evidence of one candidate to a verdict.  A reading is one comparison of *)
(* the candidate with the baseline; percentages are integers.  A reading   *)
(* with valid = FALSE has a baseline or a candidate that is no positive    *)
(* number, and its delta is not a number: it compares with nothing.        *)
(*                                                                         *)
(* Evidence is a record: the three gates, `eligible` (the readings of the  *)
(* primary metric, the pooled one first and then one per workload in the   *)
(* order of their names), `pooled` (guardrail |-> pooled reading), `stress`*)
(* (seed |-> guardrail |-> reading), `first` and `fresh` (the pooled       *)
(* replicated guardrail before and in a confirmation series; an empty      *)
(* function when there was none) and `freshStress` (seed |-> the           *)
(* replicated guardrail's reading in that seed's own fresh series).        *)
(***************************************************************************)
EXTENDS Integers, Sequences

CONSTANTS
    Guardrails,         \* the configured guardrails, in the manifest's order
    Required,           \* those whose absence leaves a verdict inconclusive
    RegressionCeiling,  \* maximum_guardrail_regression_percent
    GuardrailCeiling,   \* guardrail |-> its own limit, 0 when it has none
    MinimumImprovement, \* minimum_improvement_percent
    SupportRequired     \* statistical_support_required

(* A guardrail that is required is a configured one with that flag set.    *)
Configured == {Guardrails[i] : i \in DOMAIN Guardrails}

ASSUME PolicyAssumption ==
    /\ Guardrails \in Seq(STRING) /\ Required \subseteq Configured
    /\ RegressionCeiling \in Nat \ {0} /\ MinimumImprovement \in Nat \ {0}
    /\ \A g \in DOMAIN GuardrailCeiling : GuardrailCeiling[g] \in Nat
    /\ SupportRequired \in BOOLEAN

Pooled == "pooled"      \* the subject of a reading that is no workload's
NoShift == <<>>           \* a shift is a sequence of one number

(* Peak memory is the one guardrail whose breach a fresh series has to     *)
(* reproduce.                                                              *)
Replicated == {"peak_memory_bytes"}

LimitOf(guardrail) ==
    IF guardrail \in DOMAIN GuardrailCeiling /\ GuardrailCeiling[guardrail] > 0
    THEN GuardrailCeiling[guardrail] ELSE RegressionCeiling

(* --- What one reading says --------------------------------------------- *)
Over(reading, limit) == reading.valid /\ reading.delta > limit
Breached(reading, limit) ==
    Over(reading, limit) /\ (reading.significant \/ ~SupportRequired)
Unproven(reading, limit) ==
    SupportRequired /\ Over(reading, limit) /\ ~reading.significant

ImprovementDelta(reading) ==
    IF reading.shift # NoShift THEN reading.shift[1] ELSE reading.delta
Direction(delta) == IF delta < 0 THEN -1 ELSE IF delta > 0 THEN 1 ELSE 0
EstimatorsAgree(reading) ==
    reading.shift # NoShift =>
        reading.valid /\ Direction(reading.delta) = Direction(reading.shift[1])
ImprovedAtLeastMinimum(reading) ==
    /\ EstimatorsAgree(reading)
    /\ reading.valid
    /\ -ImprovementDelta(reading) >= MinimumImprovement

(***************************************************************************)
(* bestImprovement walks the agreeing readings (all of them when none      *)
(* agrees) in order and lets a reading take over when it improved more, or *)
(* when it is supported and the best so far is not.  BestSoFar is the      *)
(* place of the best of the first i readings, 0 when none has contended.   *)
(***************************************************************************)
Contenders(eligible) ==
    LET agreeing == {i \in DOMAIN eligible : EstimatorsAgree(eligible[i])}
    IN  IF agreeing = {} THEN DOMAIN eligible ELSE agreeing

TakesOver(reading, best) ==
    \/ ImprovementDelta(reading) < ImprovementDelta(best)
    \/ reading.fit /\ ~best.fit

BestSoFar(eligible) ==
    LET place[i \in 0 .. Len(eligible)] ==
            IF i = 0 THEN 0
            ELSE IF /\ i \in Contenders(eligible)
                    /\ place[i - 1] = 0 \/ TakesOver(eligible[i], eligible[place[i - 1]])
                 THEN i ELSE place[i - 1]
    IN  place

BestImprovement(eligible) == eligible[BestSoFar(eligible)[Len(eligible)]]

(* --- Verdicts ----------------------------------------------------------- *)
Verdict(decision, rule, subject) ==
    [decision |-> decision, rule |-> rule, subject |-> subject]
Reject(rule, subject) == Verdict("rejected", rule, subject)
Undecided(rule, subject) == Verdict("inconclusive", rule, subject)
Continue == Verdict("none", "none", Pooled)

(* The first rule that does not pass the evidence on to the next one.      *)
FirstDecision(rules) ==
    LET deciding == {i \in DOMAIN rules : rules[i] # Continue}
    IN  IF deciding = {} THEN Continue
        ELSE rules[CHOOSE i \in deciding : \A j \in deciding : i <= j]

EvidenceGates(e) ==
    IF ~e.behaviorMatches THEN Reject("behavior", Pooled)
    ELSE IF ~e.safetyChecksPassed THEN Reject("safety", Pooled)
    ELSE IF ~e.representative THEN Undecided("no workload", Pooled)
    ELSE Continue

EligiblePrimary(e) ==
    IF e.eligible = <<>> THEN Undecided("primary missing", Pooled) ELSE Continue

(* Without a first series of its own, the pooled reading is the first's.   *)
FirstSeries(e) == IF DOMAIN e.first # {} THEN e.first ELSE e.pooled

OnFirstSeries(e, g) ==
    g \in DOMAIN FirstSeries(e) /\ Breached(FirstSeries(e)[g], LimitOf(g))
BreachInSight(e, g) ==
    \/ OnFirstSeries(e, g)
    \/ g \in DOMAIN e.pooled /\ Breached(e.pooled[g], LimitOf(g))

(* Fault: any fresh reading spares, one that breaches as well.             *)
FaultFreshSpares(e, g) == g \in DOMAIN e.fresh

FreshSpares(e, g) == g \in DOMAIN e.fresh /\ ~Breached(e.fresh[g], LimitOf(g))

GuardrailDecision(e, g) ==
    LET rejects == IF g \in Replicated /\ SupportRequired
                   THEN BreachInSight(e, g) /\ ~FreshSpares(e, g)
                   ELSE Breached(e.pooled[g], LimitOf(g))
    IN  IF g \notin DOMAIN e.pooled
        THEN IF g \in Required THEN Undecided("guardrail missing", g) ELSE Continue
        ELSE IF ~e.pooled[g].valid THEN Undecided("guardrail invalid", g)
        ELSE IF rejects THEN Reject("guardrail", g)
        ELSE Continue

CheckGuardrails(e) ==
    FirstDecision([i \in DOMAIN Guardrails |-> GuardrailDecision(e, Guardrails[i])])

RegressionDecision(reading) ==
    IF ~reading.valid THEN Undecided("invalid", reading.workload)
    ELSE IF Breached(reading, RegressionCeiling) THEN Reject("regression", reading.workload)
    ELSE Continue

CheckEligibleRegressions(e) ==
    FirstDecision([i \in DOMAIN e.eligible |-> RegressionDecision(e.eligible[i])])

(* A workload kept out of acceptance can veto a candidate and not carry it. *)
StressSpares(e, seed, g) ==
    /\ g \in Replicated /\ SupportRequired
    /\ seed \in DOMAIN e.freshStress
    /\ ~Breached(e.freshStress[seed], LimitOf(g))
StressVetoes(e) ==
    {seed \in DOMAIN e.stress :
        \E i \in DOMAIN Guardrails :
            LET g == Guardrails[i] IN
            /\ g \in DOMAIN e.stress[seed]
            /\ Breached(e.stress[seed][g], LimitOf(g))
            /\ ~StressSpares(e, seed, g)}

CheckStressComparisons(e) ==
    IF StressVetoes(e) # {} THEN Reject("stress", Pooled) ELSE Continue

DecideOnImprovement(e) ==
    LET best == BestImprovement(e.eligible)
    IN  IF ~best.fit THEN Undecided("unsupported", best.workload)
        ELSE IF -ImprovementDelta(best) < MinimumImprovement
             THEN Undecided("below minimum", best.workload)
        ELSE IF ~EstimatorsAgree(best) THEN Undecided("estimators", best.workload)
        ELSE Verdict("accepted", "improvement", best.workload)

Evaluate(e) ==
    LET vetoes == FirstDecision(<< EvidenceGates(e),
                                   EligiblePrimary(e),
                                   CheckGuardrails(e),
                                   CheckEligibleRegressions(e),
                                   CheckStressComparisons(e) >>)
    IN  IF vetoes # Continue THEN vetoes ELSE DecideOnImprovement(e)

(***************************************************************************)
(* The readings a verdict names because they were over a limit and did not *)
(* reject: <<kind, subject, guardrail>>.                                    *)
(***************************************************************************)
UnconfirmedRegressions(e) ==
    {i \in DOMAIN e.eligible : Unproven(e.eligible[i], RegressionCeiling)}
UnconfirmedGuardrails(e) ==
    {g \in Configured \cap DOMAIN e.pooled : Unproven(e.pooled[g], LimitOf(g))}

(* Fault: only a breach of the first series is named, not a pooled one.    *)
FaultUnreplicatedGuardrails(e) ==
    {g \in Replicated \cap Configured \cap DOMAIN e.pooled :
        SupportRequired /\ OnFirstSeries(e, g) /\ FreshSpares(e, g)}

UnreplicatedGuardrails(e) ==
    {g \in Replicated \cap Configured \cap DOMAIN e.pooled :
        SupportRequired /\ BreachInSight(e, g) /\ FreshSpares(e, g)}

UnconfirmedStress(e) ==
    {seed \in DOMAIN e.stress :
        \E g \in Configured \cap DOMAIN e.stress[seed] :
            Unproven(e.stress[seed][g], LimitOf(g))}
UnreplicatedStress(e) ==
    {seed \in DOMAIN e.stress :
        \E g \in Configured \cap DOMAIN e.stress[seed] :
            /\ Breached(e.stress[seed][g], LimitOf(g))
            /\ StressSpares(e, seed, g)}

(* --- What the engine measures again before it asks for a verdict --------- *)
GuardrailsToReplicate(e) ==
    {g \in Replicated \cap Configured \cap DOMAIN e.pooled :
        SupportRequired /\ Breached(e.pooled[g], LimitOf(g))}
StressGuardrailsToReplicate(readings) ==
    {g \in Replicated \cap Configured \cap DOMAIN readings :
        SupportRequired /\ Breached(readings[g], LimitOf(g))}
UnconfirmedImprovements(e) ==
    {i \in DOMAIN e.eligible :
        /\ SupportRequired
        /\ ImprovedAtLeastMinimum(e.eligible[i])
        /\ ~e.eligible[i].fit}
BorderlineImprovement(e) ==
    LET best == BestImprovement(e.eligible)
    IN  /\ SupportRequired /\ best.fit /\ ImprovedAtLeastMinimum(best)
        /\ -ImprovementDelta(best) < 2 * MinimumImprovement
SelectedImprovements(e) ==
    LET best == BestImprovement(e.eligible)
    IN  IF /\ SupportRequired /\ best.fit /\ best.workload # Pooled
           /\ ImprovedAtLeastMinimum(best)
        THEN {best.workload} ELSE {}

=============================================================================
