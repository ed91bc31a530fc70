-------------------------- MODULE MeasurementProofs --------------------------
(***************************************************************************)
(* What TLAPS proves of the measurement of a candidate and of the policy   *)
(* that judges it, for every list of workloads, every configuration of the *)
(* guardrails and whatever the series read.                                *)
(***************************************************************************)
EXTENDS MeasurementProperties, FiniteSetTheorems, WellFoundedInduction, TLAPS

(***************************************************************************)
(* The policy                                                              *)
(***************************************************************************)

LEMMA LeastOf ==
    ASSUME NEW S \in SUBSET Nat, S # {}
    PROVE  \E i \in S : \A j \in S : i <= j
<1> DEFINE Less == OpToRel(<, Nat)
<1>1. PICK i \in S : \A j \in S : ~(<<j, i>> \in Less)
  BY NatLessThanWellFounded, WFMin
<1>2. \A j \in S : i <= j
  <2> TAKE j \in S
  <2>1. i \in Nat /\ j \in Nat /\ ~(j < i)
    BY <1>1 DEF OpToRel
  <2> QED
    BY <2>1
<1> QED
  BY <1>2

(* FirstDecision is Continue only when every rule passes the evidence on,  *)
(* and is otherwise the first that does not.                               *)
LEMMA FirstDecides ==
    ASSUME NEW rules, DOMAIN rules \subseteq Nat
    PROVE  /\ FirstDecision(rules) = Continue => \A i \in DOMAIN rules : rules[i] = Continue
           /\ FirstDecision(rules) # Continue =>
                \E i \in DOMAIN rules :
                    /\ rules[i] # Continue /\ FirstDecision(rules) = rules[i]
                    /\ \A j \in DOMAIN rules : rules[j] # Continue => i <= j
<1> DEFINE deciding == {i \in DOMAIN rules : rules[i] # Continue}
<1>1. CASE deciding = {}
  BY <1>1 DEF FirstDecision
<1>2. CASE deciding # {}
  <2> DEFINE first == CHOOSE i \in deciding : \A j \in deciding : i <= j
  <2>1. first \in deciding /\ \A j \in deciding : first <= j
    <3>1. \E i \in deciding : \A j \in deciding : i <= j
      BY <1>2, LeastOf
    <3> QED
      BY <3>1
  <2>2. FirstDecision(rules) = rules[first]
    BY <1>2 DEF FirstDecision
  <2> QED
    BY <2>1, <2>2
<1> QED
  BY <1>1, <1>2

(* The walk of bestImprovement is a function of the readings.              *)
LEMMA WalkExists ==
    ASSUME NEW eligible, NEW N \in Nat, Len(eligible) = N
    PROVE  BestSoFar(eligible) =
              [i \in 0 .. N |->
                  IF i = 0 THEN 0
                  ELSE IF /\ i \in Contenders(eligible)
                          /\ \/ BestSoFar(eligible)[i - 1] = 0
                             \/ TakesOver(eligible[i], eligible[BestSoFar(eligible)[i - 1]])
                       THEN i ELSE BestSoFar(eligible)[i - 1]]
<1> DEFINE Next1(i, before) ==
              IF i = 0 THEN 0
              ELSE IF /\ i \in Contenders(eligible)
                      /\ before = 0 \/ TakesOver(eligible[i], eligible[before])
                   THEN i ELSE before
           Walks(n) == \E f : f = [i \in 0 .. n |-> Next1(i, f[i - 1])]
           Stuck == {n \in 0 .. N : ~Walks(n)}
<1>1. Stuck = {}
  <2> SUFFICES ASSUME Stuck # {} PROVE FALSE
    OBVIOUS
  <2>1. PICK n \in Stuck : \A m \in Stuck : n <= m
    <3>1. Stuck \in SUBSET Nat /\ Stuck # {}
      OBVIOUS
    <3> HIDE DEF Stuck
    <3> QED
      BY <3>1, LeastOf
  <2>2. CASE n = 0
    <3> DEFINE f == [i \in 0 .. 0 |-> 0]
    <3>1. f = [i \in 0 .. 0 |-> Next1(i, f[i - 1])]
      OBVIOUS
    <3>2. Walks(0)
      <4> HIDE DEF f, Next1
      <4> QED
        BY <3>1
    <3> QED
      BY <2>1, <2>2, <3>2
  <2>3. CASE n # 0
    <3>1. n - 1 \in 0 .. N /\ n - 1 < n /\ n \in 0 .. N
      BY <2>1, <2>3
    <3>2. Walks(n - 1)
      <4> HIDE DEF Walks
      <4> QED
        BY <2>1, <3>1
    <3>3. PICK f : f = [i \in 0 .. n - 1 |-> Next1(i, f[i - 1])]
      BY <3>2
    <3> DEFINE g == [i \in 0 .. n |-> IF i = n THEN Next1(n, f[n - 1]) ELSE f[i]]
    <3> HIDE DEF Next1
    <3>4. ASSUME NEW i \in 0 .. n PROVE g[i] = Next1(i, g[i - 1])
      <4>1. CASE i = 0
        <5>1. g[0] = f[0] /\ 0 \in 0 .. n - 1
          BY <2>3, <3>1
        <5>2. f[0] = Next1(0, f[0 - 1])
          BY <3>3, <5>1
        <5>3. \A x, y : Next1(0, x) = Next1(0, y)
          BY DEF Next1
        <5> QED
          BY <4>1, <5>1, <5>2, <5>3
      <4>2. CASE i # 0 /\ i # n
        <5>1. i \in 0 .. n - 1 /\ i - 1 \in 0 .. n /\ i - 1 # n
          BY <3>1, <4>2
        <5>2. g[i] = f[i] /\ g[i - 1] = f[i - 1]
          BY <4>2, <5>1
        <5>3. f[i] = Next1(i, f[i - 1])
          BY <3>3, <5>1
        <5> QED
          BY <5>2, <5>3
      <4>3. CASE i = n
        <5>1. n - 1 \in 0 .. n /\ n - 1 # n
          BY <3>1
        <5> QED
          BY <4>3, <5>1
      <4> QED
        BY <4>1, <4>2, <4>3
    <3>5. g = [i \in 0 .. n |-> Next1(i, g[i - 1])]
      BY <3>4
    <3>6. Walks(n)
      <4> HIDE DEF g
      <4> QED
        BY <3>5
    <3> QED
      BY <2>1, <3>6
  <2> QED
    BY <2>2, <2>3
<1>2. Walks(N)
  <2> HIDE DEF Walks
  <2> QED
    BY <1>1
<1>3. BestSoFar(eligible) = CHOOSE f : f = [i \in 0 .. N |-> Next1(i, f[i - 1])]
  BY DEF BestSoFar
<1>4. BestSoFar(eligible) = [i \in 0 .. N |-> Next1(i, BestSoFar(eligible)[i - 1])]
  <2> HIDE DEF Next1
  <2> QED
    BY <1>2, <1>3
<1> QED
  BY <1>4

(* What bestImprovement returns is one of the readings it was given.       *)
LEMMA BestIsContender ==
    ASSUME NEW R, NEW eligible \in Seq(R), eligible # <<>>
    PROVE  \E i \in DOMAIN eligible : BestImprovement(eligible) = eligible[i]
<1> DEFINE N == Len(eligible)
           place == BestSoFar(eligible)
<1>1. N \in Nat \ {0} /\ DOMAIN eligible = 1 .. N
  OBVIOUS
<1>2. Contenders(eligible) \subseteq 1 .. N /\ Contenders(eligible) # {}
  BY <1>1 DEF Contenders
<1>3. /\ place[0] = 0
      /\ \A i \in 1 .. N :
            /\ i \in Contenders(eligible) => place[i] = i \/ (place[i] = place[i - 1] /\ place[i - 1] # 0)
            /\ i \notin Contenders(eligible) => place[i] = place[i - 1]
  <2>1. place = [i \in 0 .. N |->
                  IF i = 0 THEN 0
                  ELSE IF /\ i \in Contenders(eligible)
                          /\ \/ place[i - 1] = 0
                             \/ TakesOver(eligible[i], eligible[place[i - 1]])
                       THEN i ELSE place[i - 1]]
    BY <1>1, WalkExists
  <2> HIDE DEF place, N
  <2>2. place[0] = 0
    BY <1>1, <2>1
  <2>3. \A i \in 1 .. N :
            place[i] = IF /\ i \in Contenders(eligible)
                          /\ \/ place[i - 1] = 0
                             \/ TakesOver(eligible[i], eligible[place[i - 1]])
                       THEN i ELSE place[i - 1]
    BY <1>1, <2>1
  <2> QED
    BY <2>2, <2>3
<1> HIDE DEF N, place
(* Up to i the walk is at a reading, once there was one to contend.        *)
<1> DEFINE Good(i) == /\ place[i] \in 0 .. N
                      /\ (\E j \in Contenders(eligible) : j <= i) => place[i] # 0
           Bad == {i \in 0 .. N : ~Good(i)}
<1>4. Bad = {}
  <2> SUFFICES ASSUME Bad # {} PROVE FALSE
    OBVIOUS
  <2>1. PICK n \in Bad : \A m \in Bad : n <= m
    <3>1. Bad \in SUBSET Nat /\ Bad # {}
      BY <1>1
    <3> HIDE DEF Bad
    <3> QED
      BY <3>1, LeastOf
  <2>2. CASE n = 0
    BY <1>1, <1>2, <1>3, <2>1, <2>2
  <2>3. CASE n # 0
    <3>1. n \in 1 .. N /\ n - 1 \in 0 .. N /\ n - 1 < n
      BY <1>1, <2>1, <2>3
    <3>2. Good(n - 1)
      <4> HIDE DEF Good
      <4> QED
        BY <2>1, <3>1
    <3>3. CASE n \in Contenders(eligible)
      BY <1>1, <1>3, <2>1, <3>1, <3>2, <3>3
    <3>4. CASE n \notin Contenders(eligible)
      <4>1. place[n] = place[n - 1]
        BY <1>3, <3>1, <3>4
      <4>2. \A j \in Contenders(eligible) : j <= n => j <= n - 1
        BY <1>1, <1>2, <3>1, <3>4
      <4> QED
        BY <2>1, <3>2, <4>1, <4>2
    <3> QED
      BY <3>3, <3>4
  <2> QED
    BY <2>2, <2>3
<1>5. place[N] \in 1 .. N
  <2>1. Good(N)
    <3> HIDE DEF Good
    <3> QED
      BY <1>1, <1>4
  <2>2. \E j \in Contenders(eligible) : j <= N
    BY <1>1, <1>2
  <2> QED
    BY <1>1, <2>1, <2>2
<1> QED
  BY <1>1, <1>5 DEF BestImprovement, place, N

(* A reading in the evidence, a series of them by name, the evidence.      *)
JudgedReadings ==
    [ workload : {Pooled} \cup STRING, delta : Int, shift : {NoShift} \cup [1 .. 1 -> Int],
      valid : BOOLEAN, fit : BOOLEAN, significant : BOOLEAN, pass : {1, 2} ]

(* The maps from any names.                                               *)
Maps(T) == UNION {[S -> T] : S \in SUBSET STRING}

Series == Maps(JudgedReadings)

EvidenceSet ==
    [ behaviorMatches : BOOLEAN, safetyChecksPassed : BOOLEAN, representative : BOOLEAN,
      eligible : Seq(JudgedReadings), pooled : Series,
      stress : Maps(Series),
      first : Series, fresh : Series, freshStress : Series ]

LEMMA GuardrailNames == \A i \in DOMAIN Guardrails : i \in Nat
BY PolicyAssumption

LEMMA CeilingTypes == RegressionCeiling \in Nat /\ MinimumImprovement \in Nat \ {0}
BY PolicyAssumption

(* The rules before the improvement reject or leave undecided, at most.    *)
LEMMA RulesVeto ==
    ASSUME NEW e \in EvidenceSet
    PROVE  /\ EvidenceGates(e).decision # "accepted"
           /\ EligiblePrimary(e).decision # "accepted"
           /\ CheckGuardrails(e).decision # "accepted"
           /\ CheckEligibleRegressions(e).decision # "accepted"
           /\ CheckStressComparisons(e).decision # "accepted"
<1>1. EvidenceGates(e).decision # "accepted" /\ EligiblePrimary(e).decision # "accepted"
  BY DEF EvidenceGates, EligiblePrimary, Reject, Undecided, Continue, Verdict
<1>2. CheckStressComparisons(e).decision # "accepted"
  BY DEF CheckStressComparisons, Reject, Continue, Verdict
<1>3. \A g : GuardrailDecision(e, g).decision # "accepted"
  BY DEF GuardrailDecision, Reject, Undecided, Continue, Verdict
<1>4. \A r : RegressionDecision(r).decision # "accepted"
  BY DEF RegressionDecision, Reject, Undecided, Continue, Verdict
<1>5. Continue.decision # "accepted"
  BY DEF Continue, Verdict
<1>6. CheckGuardrails(e).decision # "accepted"
  <2> DEFINE rules == [i \in DOMAIN Guardrails |-> GuardrailDecision(e, Guardrails[i])]
  <2>1. DOMAIN rules \subseteq Nat
    BY GuardrailNames
  <2>2. \A i \in DOMAIN rules : rules[i].decision # "accepted"
    BY <1>3
  <2>3. CheckGuardrails(e) = FirstDecision(rules)
    BY DEF CheckGuardrails
  <2> HIDE DEF rules
  <2> QED
    BY <1>5, <2>1, <2>2, <2>3, FirstDecides
<1>7. CheckEligibleRegressions(e).decision # "accepted"
  <2> DEFINE rules == [i \in DOMAIN e.eligible |-> RegressionDecision(e.eligible[i])]
  <2>1. DOMAIN rules \subseteq Nat
    BY DEF EvidenceSet
  <2>2. \A i \in DOMAIN rules : rules[i].decision # "accepted"
    BY <1>4
  <2>3. CheckEligibleRegressions(e) = FirstDecision(rules)
    BY DEF CheckEligibleRegressions
  <2> HIDE DEF rules
  <2> QED
    BY <1>5, <2>1, <2>2, <2>3, FirstDecides
<1> QED
  BY <1>1, <1>2, <1>6, <1>7

(* An acceptance has passed every rule, and rests on the best improvement. *)
LEMMA Acceptance ==
    ASSUME NEW e \in EvidenceSet, Evaluate(e).decision = "accepted"
    PROVE  /\ EvidenceGates(e) = Continue /\ EligiblePrimary(e) = Continue
           /\ CheckGuardrails(e) = Continue /\ CheckEligibleRegressions(e) = Continue
           /\ CheckStressComparisons(e) = Continue
           /\ Evaluate(e) = DecideOnImprovement(e)
<1> DEFINE rules == << EvidenceGates(e), EligiblePrimary(e), CheckGuardrails(e),
                       CheckEligibleRegressions(e), CheckStressComparisons(e) >>
<1>1. DOMAIN rules = 1 .. 5 /\ DOMAIN rules \subseteq Nat
  OBVIOUS
<1>2. /\ rules[1] = EvidenceGates(e) /\ rules[2] = EligiblePrimary(e)
      /\ rules[3] = CheckGuardrails(e) /\ rules[4] = CheckEligibleRegressions(e)
      /\ rules[5] = CheckStressComparisons(e)
  OBVIOUS
<1>3. \A i \in DOMAIN rules : rules[i].decision # "accepted"
  BY <1>1, <1>2, RulesVeto
<1>4. Evaluate(e) = IF FirstDecision(rules) # Continue THEN FirstDecision(rules)
                    ELSE DecideOnImprovement(e)
  BY DEF Evaluate
<1> HIDE DEF rules
<1>5. FirstDecision(rules) = Continue
  BY <1>1, <1>3, <1>4, FirstDecides
<1>6. \A i \in 1 .. 5 : rules[i] = Continue
  BY <1>1, <1>5, FirstDecides
<1>7. 1 \in 1 .. 5 /\ 2 \in 1 .. 5 /\ 3 \in 1 .. 5 /\ 4 \in 1 .. 5 /\ 5 \in 1 .. 5
  OBVIOUS
<1> QED
  BY <1>2, <1>4, <1>5, <1>6, <1>7

(* Behaviour that is not shown to match rejects, whatever else was read.   *)
LEMMA MismatchRejects ==
    ASSUME NEW e, ~e.behaviorMatches
    PROVE  Evaluate(e).decision = "rejected"
<1> DEFINE rules == << EvidenceGates(e), EligiblePrimary(e), CheckGuardrails(e),
                       CheckEligibleRegressions(e), CheckStressComparisons(e) >>
<1>1. DOMAIN rules = 1 .. 5 /\ DOMAIN rules \subseteq Nat /\ rules[1] = EvidenceGates(e)
  OBVIOUS
<1>2. EvidenceGates(e).decision = "rejected" /\ EvidenceGates(e) # Continue
  BY DEF EvidenceGates, Reject, Verdict, Continue
<1>3. Evaluate(e) = IF FirstDecision(rules) # Continue THEN FirstDecision(rules)
                    ELSE DecideOnImprovement(e)
  BY DEF Evaluate
<1> HIDE DEF rules
<1>4. 1 \in DOMAIN rules
  BY <1>1
<1>5. FirstDecision(rules) # Continue
  BY <1>1, <1>2, <1>4, FirstDecides
<1>6. PICK i \in DOMAIN rules :
        FirstDecision(rules) = rules[i] /\ \A j \in DOMAIN rules : rules[j] # Continue => i <= j
  BY <1>1, <1>5, FirstDecides
<1>7. i = 1
  <2>1. i <= 1 /\ i \in 1 .. 5
    BY <1>1, <1>2, <1>4, <1>6
  <2> QED
    BY <2>1
<1> QED
  BY <1>1, <1>2, <1>3, <1>5, <1>6, <1>7

LEMMA PassedRules ==
    ASSUME NEW e \in EvidenceSet, Evaluate(e).decision = "accepted"
    PROVE  /\ e.behaviorMatches /\ e.safetyChecksPassed /\ e.eligible # <<>>
           /\ \A g \in Configured : GuardrailDecision(e, g) = Continue
           /\ \A i \in DOMAIN e.eligible :
                 e.eligible[i].valid /\ ~Breached(e.eligible[i], RegressionCeiling)
           /\ StressVetoes(e) = {}
<1>1. e.behaviorMatches /\ e.safetyChecksPassed
  BY Acceptance DEF EvidenceGates, Reject, Undecided, Continue, Verdict
<1>2. e.eligible # <<>>
  BY Acceptance DEF EligiblePrimary, Undecided, Continue, Verdict
<1>3. StressVetoes(e) = {}
  BY Acceptance DEF CheckStressComparisons, Reject, Continue, Verdict
<1>4. \A g \in Configured : GuardrailDecision(e, g) = Continue
  <2> DEFINE rules == [i \in DOMAIN Guardrails |-> GuardrailDecision(e, Guardrails[i])]
  <2>1. FirstDecision(rules) = Continue /\ DOMAIN rules \subseteq Nat
    BY Acceptance, GuardrailNames DEF CheckGuardrails
  <2>2. \A i \in DOMAIN rules : rules[i] = Continue
    <3> HIDE DEF rules
    <3> QED
      BY <2>1, FirstDecides
  <2> QED
    BY <2>2 DEF Configured
<1>5. \A i \in DOMAIN e.eligible : RegressionDecision(e.eligible[i]) = Continue
  <2> DEFINE rules == [i \in DOMAIN e.eligible |-> RegressionDecision(e.eligible[i])]
  <2>1. FirstDecision(rules) = Continue /\ DOMAIN rules \subseteq Nat
    BY Acceptance DEF CheckEligibleRegressions, EvidenceSet
  <2>2. \A i \in DOMAIN rules : rules[i] = Continue
    <3> HIDE DEF rules
    <3> QED
      BY <2>1, FirstDecides
  <2> QED
    BY <2>2
<1>6. \A r : RegressionDecision(r) = Continue => r.valid /\ ~Breached(r, RegressionCeiling)
  BY DEF RegressionDecision, Reject, Undecided, Continue, Verdict
<1> QED
  BY <1>1, <1>2, <1>3, <1>4, <1>5, <1>6

(* The reading an acceptance rests on.                                     *)
LEMMA AcceptedImprovement ==
    ASSUME NEW e \in EvidenceSet, Evaluate(e).decision = "accepted"
    PROVE  /\ \E i \in DOMAIN e.eligible : BestImprovement(e.eligible) = e.eligible[i]
           /\ BestImprovement(e.eligible) \in JudgedReadings
           /\ BestImprovement(e.eligible).fit
           /\ ImprovedAtLeastMinimum(BestImprovement(e.eligible))
           /\ Evaluate(e).subject = BestImprovement(e.eligible).workload
<1> DEFINE best == BestImprovement(e.eligible)
<1>1. e.eligible \in Seq(JudgedReadings) /\ e.eligible # <<>>
  BY PassedRules DEF EvidenceSet
<1>2. PICK i \in DOMAIN e.eligible : best = e.eligible[i]
  BY <1>1, BestIsContender
<1>3. best \in JudgedReadings /\ best.valid
  BY <1>1, <1>2, PassedRules
<1>4. DecideOnImprovement(e).decision = "accepted" /\ Evaluate(e) = DecideOnImprovement(e)
  BY Acceptance
<1>5. /\ best.fit /\ ~(-ImprovementDelta(best) < MinimumImprovement) /\ EstimatorsAgree(best)
      /\ DecideOnImprovement(e).subject = best.workload
  BY <1>4 DEF DecideOnImprovement, Undecided, Verdict
<1> HIDE DEF best
<1>6. ImprovementDelta(best) \in Int
  <2>1. best.shift # NoShift => best.shift[1] \in Int
    BY <1>3 DEF JudgedReadings
  <2> QED
    BY <1>3, <2>1 DEF ImprovementDelta, JudgedReadings
<1>7. -ImprovementDelta(best) >= MinimumImprovement
  BY <1>5, <1>6, CeilingTypes
<1> QED
  BY <1>2, <1>3, <1>4, <1>5, <1>7 DEF best, ImprovedAtLeastMinimum

(***************************************************************************)
(* Types                                                                   *)
(***************************************************************************)

MeasurementStages == {"start", "pass", "stress", "replicate", "regressions", "improvements",
                      "extend", "selection", "remeasure", "done"}

Origins == {"first pass", "second pass", "confirmation", "fresh"}

MeasurementTypeOK ==
    /\ seeds \in SeedLists /\ stage \in MeasurementStages /\ queue \in Seq(STRING)
    /\ pass \in {1, 2} /\ runs \in [SeedSet -> Seq(Origins)]
    /\ sized \in BOOLEAN /\ confirmed \in BOOLEAN /\ remeasured \in SUBSET SeedSet
    /\ ev \in EvidenceSet

LEMMA SeedsType ==
    ASSUME MeasurementTypeOK
    PROVE  /\ seeds \in Seq(STRING) /\ SeedSet \in SUBSET STRING
           /\ \A i \in DOMAIN seeds : seeds[i] \in SeedSet
           /\ \A i, j \in DOMAIN seeds : seeds[i] = seeds[j] => i = j
           /\ Pooled \notin SeedSet
<1>1. seeds \in Seq(STRING)
  BY MeasurementAssumption DEF MeasurementTypeOK
<1>2. \A i, j \in DOMAIN seeds : seeds[i] # Pooled /\ (seeds[i] = seeds[j] => i = j)
  BY MeasurementAssumption DEF MeasurementTypeOK
<1> QED
  BY <1>1, <1>2 DEF SeedSet

LEMMA SeriesOf ==
    ASSUME NEW S \in SUBSET STRING, NEW f \in [S -> JudgedReadings]
    PROVE  f \in Series
BY DEF Series, Maps

LEMMA SeriesType ==
    ASSUME NEW f \in Series
    PROVE  DOMAIN f \in SUBSET STRING /\ \A k \in DOMAIN f : f[k] \in JudgedReadings
BY DEF Series, Maps

LEMMA NothingType == Nothing \in Series /\ Nothing \in Maps(Series)
<1>1. Nothing \in [{} -> JudgedReadings] /\ Nothing \in [{} -> Series]
  BY DEF Nothing
<1>2. {} \in SUBSET STRING
  OBVIOUS
<1> QED
  BY <1>1, <1>2, SeriesOf DEF Maps

LEMMA ReadingType ==
    ASSUME MeasurementTypeOK, NEW subject \in {Pooled} \cup STRING, NEW r \in ReadingSet
    PROVE  /\ Reading(subject, r) \in JudgedReadings
           /\ Reading(subject, r).workload = subject /\ Reading(subject, r).pass = pass
BY DEF Reading, JudgedReadings, ReadingSet, MeasurementTypeOK

LEMMA ReadingsType ==
    ASSUME MeasurementTypeOK, NEW r \in GuardrailReadings \cup StressReadings
    PROVE  /\ Readings(r) \in Series /\ \A g \in DOMAIN Readings(r) : Readings(r)[g].pass = pass
           /\ DOMAIN Readings(r) = DOMAIN r
<1>1. DOMAIN r \in SUBSET STRING /\ \A g \in DOMAIN r : r[g] \in ReadingSet
  BY MeasurementAssumption
<1>2. \A g \in DOMAIN r : Reading(Pooled, r[g]) \in JudgedReadings
                            /\ Reading(Pooled, r[g]).pass = pass
  BY <1>1, ReadingType
<1>3. Readings(r) \in [DOMAIN r -> JudgedReadings]
  BY <1>2 DEF Readings
<1>4. Readings(r) \in Series
  BY <1>1, <1>3, SeriesOf
<1> QED
  BY <1>2, <1>4 DEF Readings

LEMMA NoEvidenceType == NoEvidence \in EvidenceSet
<1>1. <<>> \in Seq(JudgedReadings)
  OBVIOUS
<1> QED
  BY <1>1, NothingType DEF NoEvidence, EvidenceSet

(* One entry more, or another in its place.                                *)
LEMMA WithType ==
    ASSUME NEW T, NEW f \in Maps(T),
           NEW key \in STRING, NEW value \in T
    PROVE  With(f, key, value) \in Maps(T)
<1>1. DOMAIN f \cup {key} \in SUBSET STRING /\ \A k \in DOMAIN f : f[k] \in T
  BY DEF Maps
<1>2. With(f, key, value) \in [DOMAIN f \cup {key} -> T]
  BY <1>1 DEF With
<1> QED
  BY <1>1, <1>2 DEF With, Maps

(* Every reading of the evidence is of the pass p.                         *)
ReadIn(e, p) ==
    /\ \A i \in DOMAIN e.eligible : e.eligible[i].pass = p
    /\ \A g \in DOMAIN e.pooled : e.pooled[g].pass = p
    /\ \A g \in DOMAIN e.first : e.first[g].pass = p
    /\ \A g \in DOMAIN e.fresh : e.fresh[g].pass = p
    /\ \A s \in DOMAIN e.freshStress : e.freshStress[s].pass = p
    /\ \A s \in DOMAIN e.stress : \A g \in DOMAIN e.stress[s] : e.stress[s][g].pass = p

(* The readings of the primary metric are the pooled one and the workloads'. *)
OfWorkloads(e, workloads) ==
    \A i \in DOMAIN e.eligible : e.eligible[i].workload \in {Pooled} \cup workloads

EvidenceInv == ReadIn(ev, pass) /\ OfWorkloads(ev, SeedSet)

LEMMA NoEvidenceInv == \A p, S : ReadIn(NoEvidence, p) /\ OfWorkloads(NoEvidence, S)
BY DEF ReadIn, OfWorkloads, NoEvidence, Nothing

LEMMA FinalizedType ==
    ASSUME MeasurementTypeOK, EvidenceInv,
           NEW pooled \in PrimaryReadings, NEW primary \in [SeedSet -> PrimaryReadings],
           NEW guardrails \in GuardrailReadings
    PROVE  /\ Finalized(ev, pooled, primary, guardrails) \in EvidenceSet
           /\ ReadIn(Finalized(ev, pooled, primary, guardrails), pass)
           /\ OfWorkloads(Finalized(ev, pooled, primary, guardrails), SeedSet)
<1> DEFINE own == [i \in DOMAIN seeds |-> Reading(seeds[i], primary[seeds[i]])]
           all == << Reading(Pooled, pooled) >> \o own
           kept == {h \in DOMAIN guardrails : h = "binary_size_bytes" => sized}
           rails == [g \in kept |-> Reading(Pooled, guardrails[g])]
           final == Finalized(ev, pooled, primary, guardrails)
           rep == (seeds # <<>>)
<1>1. PrimaryReadings \subseteq ReadingSet
  BY MeasurementAssumption
<1>2. Reading(Pooled, pooled) \in JudgedReadings /\ Reading(Pooled, pooled).workload = Pooled
      /\ Reading(Pooled, pooled).pass = pass
  BY <1>1, ReadingType
<1>3. \A i \in DOMAIN seeds :
          /\ own[i] \in JudgedReadings /\ own[i].workload \in SeedSet /\ own[i].pass = pass
  <2> TAKE i \in DOMAIN seeds
  <2>1. seeds[i] \in STRING /\ seeds[i] \in SeedSet /\ primary[seeds[i]] \in ReadingSet
    BY <1>1, SeedsType
  <2> QED
    BY <2>1, ReadingType
<1>4. own \in Seq(JudgedReadings)
  <2>1. seeds \in Seq(STRING)
    BY SeedsType
  <2>2. DOMAIN seeds = 1 .. Len(seeds) /\ Len(seeds) \in Nat
    BY <2>1
  <2>3. own \in [1 .. Len(seeds) -> JudgedReadings]
    BY <1>3, <2>2
  <2> HIDE DEF own
  <2> QED
    BY <2>2, <2>3
<1>5. /\ all \in Seq(JudgedReadings)
      /\ \A i \in DOMAIN all : all[i].workload \in {Pooled} \cup SeedSet /\ all[i].pass = pass
  <2> DEFINE head == Reading(Pooled, pooled)
  <2>1. DOMAIN own = DOMAIN seeds
    OBVIOUS
  <2> HIDE DEF own, head
  <2>2. << head >> \in Seq(JudgedReadings) /\ Len(<< head >>) = 1 /\ << head >>[1] = head
    BY <1>2 DEF head
  <2>3. all \in Seq(JudgedReadings)
    BY <1>4, <2>2 DEF head
  <2>4. \A i \in DOMAIN all : all[i] = head \/ \E j \in DOMAIN own : all[i] = own[j]
    <3> TAKE i \in DOMAIN all
    <3>1. Len(all) = 1 + Len(own) /\ i \in 1 .. Len(all) /\ Len(own) \in Nat
      BY <1>4, <2>2, <2>3 DEF head
    <3>2. CASE i = 1
      BY <1>4, <2>2, <3>1, <3>2 DEF head
    <3>3. CASE i # 1
      <4>1. i - 1 \in 1 .. Len(own)
        BY <3>1, <3>3
      <4>2. all[i] = own[i - 1]
        BY <1>4, <2>2, <3>1, <3>3 DEF head
      <4> QED
        BY <1>4, <4>1, <4>2
    <3> QED
      BY <3>2, <3>3
  <2> QED
    BY <1>2, <1>3, <2>1, <2>3, <2>4 DEF head
<1>6. rails \in Series /\ \A g \in DOMAIN rails : rails[g].pass = pass
  <2>1. kept \in SUBSET STRING /\ \A g \in kept : guardrails[g] \in ReadingSet
    BY MeasurementAssumption
  <2>2. \A g \in kept : Reading(Pooled, guardrails[g]) \in JudgedReadings
                          /\ Reading(Pooled, guardrails[g]).pass = pass
    BY <2>1, ReadingType
  <2>3. rails \in [kept -> JudgedReadings]
    BY <2>2
  <2> QED
    BY <2>1, <2>2, <2>3, SeriesOf
<1>7. /\ final = [ev EXCEPT !.behaviorMatches = TRUE, !.safetyChecksPassed = TRUE,
                            !.representative = rep, !.eligible = all, !.pooled = rails]
  BY DEF Finalized
<1>8. rep \in BOOLEAN /\ ev \in EvidenceSet
  BY DEF MeasurementTypeOK
<1> HIDE DEF all, rails, final, rep
<1>9. /\ final \in EvidenceSet /\ final.eligible = all /\ final.pooled = rails
      /\ final.first = ev.first /\ final.fresh = ev.fresh
      /\ final.freshStress = ev.freshStress /\ final.stress = ev.stress
  BY <1>5, <1>6, <1>7, <1>8 DEF EvidenceSet
<1>10. ReadIn(final, pass) /\ OfWorkloads(final, SeedSet)
  BY <1>5, <1>6, <1>9 DEF EvidenceInv, ReadIn, OfWorkloads
<1> QED
  BY <1>9, <1>10 DEF final

(* A workload is selected while it has not been measured afresh.           *)
LEMMA SelectedType ==
    ASSUME MeasurementTypeOK, EvidenceInv, NEW seed \in WorkloadToRemeasure
    PROVE  seed \in SeedSet \ remeasured
<1>1. /\ Evaluate(ev).decision = "accepted" /\ seed \in SelectedImprovements(ev) \ remeasured
      /\ ev \in EvidenceSet
  BY DEF WorkloadToRemeasure, MeasurementTypeOK
<1>2. seed = BestImprovement(ev.eligible).workload /\ seed # Pooled
  BY <1>1 DEF SelectedImprovements
<1>3. seed \in {Pooled} \cup SeedSet
  BY <1>1, <1>2, AcceptedImprovement DEF EvidenceInv, OfWorkloads
<1> QED
  BY <1>1, <1>2, <1>3

LEMMA ReplicatedType ==
    ASSUME NEW rs \in Series
    PROVE  [g \in Replicated \cap DOMAIN rs |-> rs[g]] \in Series
<1>1. Replicated \cap DOMAIN rs \in SUBSET STRING
  BY SeriesType
<1>2. [g \in Replicated \cap DOMAIN rs |-> rs[g]] \in [Replicated \cap DOMAIN rs -> JudgedReadings]
  BY SeriesType
<1> QED
  BY <1>1, <1>2, SeriesOf

(* Every step leaves the workloads, and evidence of its own pass.          *)
LEMMA SeedsStay == Next => seeds' = seeds /\ SeedSet' = SeedSet
<1>1. Next => seeds' = seeds
  BY DEF Next, Start, MeasureSeed, FinishSeeds, NothingEligible, MeasureStressSeed,
         ReplicateStressBreach, RemeasureContendedPass, KeepPass, Look, ConfirmRegressions,
         ConfirmImprovements, ExtendSeed, FinishExtension, ConfirmSelection, SelectionStands,
         MeasureFreshSeries, ReplaceSeries, SeriesFails
<1> QED
  BY <1>1 DEF SeedSet

EvidenceStays == Start \/ MeasureSeed \/ NothingEligible \/ KeepPass \/ ConfirmRegressions
                 \/ ConfirmImprovements \/ ExtendSeed \/ ConfirmSelection \/ SelectionStands
                 \/ MeasureFreshSeries

LEMMA FinalizedStep ==
    ASSUME MeasurementTypeOK, EvidenceInv, SeedSet' = SeedSet, pass' = pass,
           \E pooled \in PrimaryReadings, primary \in [SeedSet -> PrimaryReadings],
              guardrails \in GuardrailReadings :
                 ev' = Finalized(ev, pooled, primary, guardrails)
    PROVE  ev' \in EvidenceSet /\ EvidenceInv'
<1>1. PICK pooled \in PrimaryReadings, primary \in [SeedSet -> PrimaryReadings],
           guardrails \in GuardrailReadings :
              ev' = Finalized(ev, pooled, primary, guardrails)
  OBVIOUS
<1>2. ev' \in EvidenceSet /\ ReadIn(ev', pass) /\ OfWorkloads(ev', SeedSet)
  BY <1>1, FinalizedType
<1> QED
  BY <1>2 DEF EvidenceInv

LEMMA ExtensionEvidence ==
    ASSUME MeasurementTypeOK, EvidenceInv, SeedSet' = SeedSet, FinishExtension
    PROVE  ev' \in EvidenceSet /\ EvidenceInv'
<1> DEFINE replicated(rs) == [g \in Replicated \cap DOMAIN rs |-> rs[g]]
<1>1. PICK pooled \in PrimaryReadings, primary \in [SeedSet -> PrimaryReadings],
           guardrails \in GuardrailReadings, fresh \in GuardrailReadings :
              ev' = [Finalized(ev, pooled, primary, guardrails)
                       EXCEPT !.first = replicated(ev.pooled),
                              !.fresh = replicated(Readings(fresh))]
  BY DEF FinishExtension
<1> DEFINE final == Finalized(ev, pooled, primary, guardrails)
           before == replicated(ev.pooled)
           after == replicated(Readings(fresh))
<1>2. final \in EvidenceSet /\ ReadIn(final, pass) /\ OfWorkloads(final, SeedSet)
  BY FinalizedType
<1>3. /\ ev.pooled \in Series /\ Readings(fresh) \in Series
      /\ \A g \in DOMAIN Readings(fresh) : Readings(fresh)[g].pass = pass
      /\ \A g \in DOMAIN ev.pooled : ev.pooled[g].pass = pass
  BY ReadingsType DEF MeasurementTypeOK, EvidenceSet, EvidenceInv, ReadIn
<1>4. /\ before \in Series /\ \A g \in DOMAIN before : before[g].pass = pass
      /\ after \in Series /\ \A g \in DOMAIN after : after[g].pass = pass
  BY <1>3, ReplicatedType
<1>5. ev' = [final EXCEPT !.first = before, !.fresh = after] /\ pass' = pass
  BY <1>1 DEF FinishExtension
<1> HIDE DEF final, before, after
<1>6. /\ ev' \in EvidenceSet /\ ev'.first = before /\ ev'.fresh = after
      /\ ev'.eligible = final.eligible /\ ev'.pooled = final.pooled
      /\ ev'.stress = final.stress /\ ev'.freshStress = final.freshStress
  BY <1>2, <1>4, <1>5 DEF EvidenceSet
<1>7. ReadIn(ev', pass')
  BY <1>2, <1>4, <1>5, <1>6 DEF ReadIn
<1>8. OfWorkloads(ev', SeedSet')
  BY <1>2, <1>6 DEF OfWorkloads
<1> QED
  BY <1>6, <1>7, <1>8 DEF EvidenceInv

LEMMA StressEvidence ==
    ASSUME MeasurementTypeOK, EvidenceInv, SeedSet' = SeedSet, queue # <<>>,
           MeasureStressSeed \/ ReplicateStressBreach
    PROVE  ev' \in EvidenceSet /\ EvidenceInv'
<1> DEFINE seed == Head(queue)
<1>1. seed \in STRING /\ pass' = pass /\ ev \in EvidenceSet
  BY DEF MeasurementTypeOK, MeasureStressSeed, ReplicateStressBreach
<1>2. CASE MeasureStressSeed
  <2>1. PICK r \in StressReadings : ev' = [ev EXCEPT !.stress = With(ev.stress, seed, Readings(r))]
    BY <1>2 DEF MeasureStressSeed
  <2> DEFINE stress == With(ev.stress, seed, Readings(r))
  <2>2. Readings(r) \in Series /\ \A g \in DOMAIN Readings(r) : Readings(r)[g].pass = pass
    BY ReadingsType
  <2>3. ev.stress \in Maps(Series)
    BY <1>1 DEF EvidenceSet
  <2>4. /\ stress \in Maps(Series)
        /\ \A s \in DOMAIN stress : stress[s] = Readings(r) \/
              (s \in DOMAIN ev.stress /\ stress[s] = ev.stress[s])
    <3> DEFINE rs == Readings(r)
               before == ev.stress
    <3>1. rs \in Series /\ before \in Maps(Series) /\ seed \in STRING
      BY <1>1, <2>2, <2>3
    <3> HIDE DEF rs, before, seed
    <3>2. With(before, seed, rs) \in Maps(Series)
      BY <3>1, WithType
    <3>3. \A k \in DOMAIN With(before, seed, rs) :
             \/ With(before, seed, rs)[k] = rs
             \/ k \in DOMAIN before /\ With(before, seed, rs)[k] = before[k]
      BY DEF With
    <3> QED
      BY <3>2, <3>3 DEF rs, before
  <2>5. ev' = [ev EXCEPT !.stress = stress]
    BY <2>1
  <2> HIDE DEF seed, stress
  <2>6. /\ ev' \in EvidenceSet /\ ev'.stress = stress /\ ev'.first = ev.first
        /\ ev'.fresh = ev.fresh /\ ev'.eligible = ev.eligible /\ ev'.pooled = ev.pooled
        /\ ev'.freshStress = ev.freshStress
    BY <1>1, <2>4, <2>5 DEF EvidenceSet
  <2>7. ReadIn(ev', pass)
    BY <2>2, <2>4, <2>6 DEF EvidenceInv, ReadIn
  <2>8. OfWorkloads(ev', SeedSet)
    BY <2>6 DEF EvidenceInv, OfWorkloads
  <2> QED
    BY <1>1, <2>6, <2>7, <2>8 DEF EvidenceInv
<1>3. CASE ReplicateStressBreach
  <2>1. PICK r \in StressReadings, g \in Replicated :
          ev' = [ev EXCEPT !.freshStress = With(ev.freshStress, seed, Reading(Pooled, r[g]))]
    BY <1>3 DEF ReplicateStressBreach
  <2> DEFINE fresh == With(ev.freshStress, seed, Reading(Pooled, r[g]))
  <2>2. Reading(Pooled, r[g]) \in JudgedReadings /\ Reading(Pooled, r[g]).pass = pass
    <3>1. r[g] \in ReadingSet
      BY MeasurementAssumption
    <3> QED
      BY <3>1, ReadingType
  <2>3. ev.freshStress \in Maps(JudgedReadings)
    BY <1>1 DEF EvidenceSet, Series
  <2>4. /\ fresh \in Series
        /\ \A s \in DOMAIN fresh : fresh[s] = Reading(Pooled, r[g]) \/
              (s \in DOMAIN ev.freshStress /\ fresh[s] = ev.freshStress[s])
    <3> DEFINE reading == Reading(Pooled, r[g])
               before == ev.freshStress
    <3>1. /\ reading \in JudgedReadings /\ seed \in STRING
          /\ before \in Maps(JudgedReadings)
      BY <1>1, <2>2, <2>3
    <3> HIDE DEF reading, before, seed
    <3>2. With(before, seed, reading) \in Maps(JudgedReadings)
      BY <3>1, WithType
    <3>3. \A k \in DOMAIN With(before, seed, reading) :
             \/ With(before, seed, reading)[k] = reading
             \/ k \in DOMAIN before /\ With(before, seed, reading)[k] = before[k]
      BY DEF With
    <3> QED
      BY <3>2, <3>3 DEF reading, before, Series
  <2>5. ev' = [ev EXCEPT !.freshStress = fresh]
    BY <2>1
  <2> HIDE DEF seed, fresh
  <2>6. /\ ev' \in EvidenceSet /\ ev'.stress = ev.stress /\ ev'.first = ev.first
        /\ ev'.fresh = ev.fresh /\ ev'.eligible = ev.eligible /\ ev'.pooled = ev.pooled
        /\ ev'.freshStress = fresh
    BY <1>1, <2>4, <2>5 DEF EvidenceSet
  <2>7. ReadIn(ev', pass)
    BY <2>2, <2>4, <2>6 DEF EvidenceInv, ReadIn
  <2>8. OfWorkloads(ev', SeedSet)
    BY <2>6 DEF EvidenceInv, OfWorkloads
  <2> QED
    BY <1>1, <2>6, <2>7, <2>8 DEF EvidenceInv
<1> QED
  BY <1>2, <1>3

LEMMA FailedEvidence ==
    ASSUME MeasurementTypeOK, EvidenceInv, SeedSet' = SeedSet, SeriesFails
    PROVE  ev' \in EvidenceSet /\ EvidenceInv' /\ ~ev'.behaviorMatches
<1>1. PICK mismatch \in BOOLEAN : ev' = Unverified(ev, mismatch)
  BY DEF SeriesFails
<1> DEFINE safe == ev.safetyChecksPassed \/ mismatch
           stress == IF stage \in {"stress", "replicate"} THEN Nothing ELSE ev.stress
<1>2. ev' = [ev EXCEPT !.behaviorMatches = FALSE, !.safetyChecksPassed = safe, !.stress = stress]
  BY <1>1 DEF Unverified
<1>3. /\ ev \in EvidenceSet /\ safe \in BOOLEAN
      /\ stress \in Maps(Series)
      /\ stress = Nothing \/ stress = ev.stress
  BY NothingType DEF MeasurementTypeOK, EvidenceSet
<1> HIDE DEF safe, stress
<1>4. /\ ev' \in EvidenceSet /\ ev'.behaviorMatches = FALSE /\ ev'.stress = stress
      /\ ev'.first = ev.first /\ ev'.fresh = ev.fresh /\ ev'.eligible = ev.eligible
      /\ ev'.pooled = ev.pooled /\ ev'.freshStress = ev.freshStress
  BY <1>2, <1>3 DEF EvidenceSet
<1>5. DOMAIN Nothing = {} /\ pass' = pass
  BY DEF Nothing, SeriesFails
<1>6. ReadIn(ev', pass)
  BY <1>3, <1>4, <1>5 DEF EvidenceInv, ReadIn
<1>7. OfWorkloads(ev', SeedSet)
  BY <1>4 DEF EvidenceInv, OfWorkloads
<1> QED
  BY <1>4, <1>5, <1>6, <1>7 DEF EvidenceInv

LEMMA EvidenceStep ==
    ASSUME MeasurementTypeOK, EvidenceInv, Next, stage = "replicate" => queue # <<>>
    PROVE  ev' \in EvidenceSet /\ EvidenceInv'
<1>1. SeedSet' = SeedSet
  BY SeedsStay
<1>2. CASE EvidenceStays
  <2>1. ev' = ev /\ pass' = pass
    BY <1>2 DEF EvidenceStays, Start, MeasureSeed, NothingEligible, KeepPass, Look,
         ConfirmRegressions, ConfirmImprovements, ExtendSeed, ConfirmSelection,
         SelectionStands, MeasureFreshSeries
  <2> QED
    BY <1>1, <2>1 DEF EvidenceInv, MeasurementTypeOK
<1>3. CASE FinishSeeds \/ ReplaceSeries
  <2>1. pass' = pass
    BY <1>3 DEF FinishSeeds, ReplaceSeries
  <2>2. \E pooled \in PrimaryReadings, primary \in [SeedSet -> PrimaryReadings],
           guardrails \in GuardrailReadings :
              ev' = Finalized(ev, pooled, primary, guardrails)
    BY <1>3 DEF FinishSeeds, ReplaceSeries
  <2> QED
    BY <1>1, <2>1, <2>2, FinalizedStep
<1>4. CASE FinishExtension
  BY <1>1, <1>4, ExtensionEvidence
<1>5. CASE MeasureStressSeed \/ ReplicateStressBreach
  BY <1>1, <1>5, StressEvidence DEF MeasureStressSeed, ReplicateStressBreach
<1>6. CASE RemeasureContendedPass
  <2>1. ev' = NoEvidence
    BY <1>6 DEF RemeasureContendedPass, Discarded
  <2> QED
    BY <1>1, <2>1, NoEvidenceType, NoEvidenceInv DEF EvidenceInv
<1>7. CASE SeriesFails
  BY <1>1, <1>7, FailedEvidence
<1> QED
  BY <1>2, <1>3, <1>4, <1>5, <1>6, <1>7 DEF Next, EvidenceStays

(***************************************************************************)
(* How many series every workload holds                                    *)
(***************************************************************************)

Depth(rs, n) == \A s \in DOMAIN rs : Len(rs[s]) = n

(* In the middle of a series on every workload of `list`: what is queued   *)
(* is a suffix of it, and the workloads before that have one series more.  *)
Turn(list, q, rs, n) ==
    /\ Len(q) <= Len(list)
    /\ \A j \in DOMAIN q : q[j] = list[Len(list) - Len(q) + j]
    /\ \A i \in DOMAIN list :
          Len(rs[list[i]]) = IF i <= Len(list) - Len(q) THEN n + 1 ELSE n

Named(list) == {list[i] : i \in DOMAIN list}

LEMMA TurnBegins ==
    ASSUME NEW list \in Seq(STRING), NEW rs, DOMAIN rs = Named(list), NEW n, Depth(rs, n)
    PROVE  Turn(list, list, rs, n)
<1>1. Len(list) \in Nat /\ DOMAIN list = 1 .. Len(list)
  OBVIOUS
<1>2. \A i \in DOMAIN list : Len(rs[list[i]]) = n
  BY DEF Depth, Named
<1> QED
  BY <1>1, <1>2 DEF Turn

LEMMA TurnOver ==
    ASSUME NEW list \in Seq(STRING), NEW rs, DOMAIN rs = Named(list), NEW n \in Nat,
           NEW q, q = <<>>, Turn(list, q, rs, n)
    PROVE  Depth(rs, n + 1)
<1>1. Len(list) \in Nat /\ DOMAIN list = 1 .. Len(list) /\ Len(q) = 0
  OBVIOUS
<1>2. \A i \in DOMAIN list : Len(rs[list[i]]) = n + 1
  BY <1>1 DEF Turn
<1> QED
  BY <1>2 DEF Depth, Named

LEMMA TailLeft ==
    ASSUME NEW q \in Seq(STRING), Len(q) > 1
    PROVE  /\ Tail(q) \in Seq(STRING) /\ Tail(q) # <<>> /\ Len(Tail(q)) = Len(q) - 1
           /\ \A i \in DOMAIN Tail(q) : i + 1 \in DOMAIN q /\ Tail(q)[i] = q[i + 1]
<1>1. Len(q) \in Nat /\ DOMAIN q = 1 .. Len(q)
  OBVIOUS
<1>2. /\ Tail(q) \in Seq(STRING) /\ Len(Tail(q)) = Len(q) - 1
      /\ DOMAIN Tail(q) = 1 .. Len(q) - 1
  BY <1>1
<1>3. \A i \in DOMAIN Tail(q) : i + 1 \in DOMAIN q /\ Tail(q)[i] = q[i + 1]
  BY <1>1, <1>2
<1>4. Len(Tail(q)) # 0 /\ Len(<<>>) = 0
  BY <1>1, <1>2
<1>5. Tail(q) # <<>>
  BY <1>4
<1> QED
  BY <1>2, <1>3, <1>5

(* A turn taken: the workload in front gets its series.                    *)
LEMMA TurnTaken ==
    ASSUME NEW list \in Seq(STRING), \A i, j \in DOMAIN list : list[i] = list[j] => i = j,
           NEW rs \in [Named(list) -> Seq(Origins)], NEW n \in Nat,
           NEW q \in Seq(STRING), q # <<>>, Turn(list, q, rs, n), NEW origin \in Origins
    PROVE  /\ Head(q) \in Named(list) /\ Len(rs[Head(q)]) = n
           /\ Turn(list, Tail(q), [rs EXCEPT ![Head(q)] = Append(@, origin)], n)
<1> DEFINE k == Len(list) - Len(q) + 1
           next == [rs EXCEPT ![Head(q)] = Append(@, origin)]
<1>1. /\ Len(list) \in Nat /\ DOMAIN list = 1 .. Len(list)
      /\ Len(q) \in Nat \ {0} /\ DOMAIN q = 1 .. Len(q) /\ Head(q) = q[1]
  OBVIOUS
<1>2. /\ Tail(q) \in Seq(STRING) /\ Len(Tail(q)) = Len(q) - 1
      /\ \A j \in 1 .. Len(q) - 1 : Tail(q)[j] = q[j + 1]
  BY <1>1
<1>3. k \in DOMAIN list /\ Head(q) = list[k] /\ Len(rs[list[k]]) = n
  BY <1>1 DEF Turn
<1>4. \A i \in DOMAIN list : list[i] \in Named(list) /\ rs[list[i]] \in Seq(Origins)
  BY DEF Named
<1>5. \A i \in DOMAIN list : Len(next[list[i]]) = IF i = k THEN n + 1 ELSE Len(rs[list[i]])
  <2> TAKE i \in DOMAIN list
  <2>1. CASE i = k
    <3>1. next[list[k]] = Append(rs[list[k]], origin)
      BY <1>3, <1>4
    <3>2. rs[list[k]] \in Seq(Origins)
      BY <1>3, <1>4
    <3>3. Len(Append(rs[list[k]], origin)) = Len(rs[list[k]]) + 1
      BY <3>2
    <3> QED
      BY <1>3, <2>1, <3>1, <3>3
  <2>2. CASE i # k
    <3>1. list[i] # Head(q)
      BY <1>3, <2>2
    <3> QED
      BY <1>4, <2>2, <3>1
  <2> QED
    BY <2>1, <2>2
<1> HIDE DEF next
<1>6. \A i \in DOMAIN list : Len(next[list[i]]) = IF i <= k THEN n + 1 ELSE n
  BY <1>1, <1>3, <1>5 DEF Turn
<1>7. /\ Len(Tail(q)) <= Len(list)
      /\ \A j \in DOMAIN Tail(q) : Tail(q)[j] = list[Len(list) - Len(Tail(q)) + j]
  <2>1. Len(Tail(q)) <= Len(list)
    BY <1>1, <1>2 DEF Turn
  <2>2. ASSUME NEW j \in DOMAIN Tail(q)
        PROVE  Tail(q)[j] = list[Len(list) - Len(Tail(q)) + j]
    <3>1. j \in 1 .. Len(q) - 1 /\ j + 1 \in DOMAIN q /\ Tail(q)[j] = q[j + 1]
      BY <1>1, <1>2
    <3>2. q[j + 1] = list[Len(list) - Len(q) + (j + 1)]
      BY <3>1 DEF Turn
    <3>3. Len(list) - Len(q) + (j + 1) = Len(list) - Len(Tail(q)) + j
      BY <1>1, <1>2, <3>1
    <3> QED
      BY <3>1, <3>2, <3>3
  <2> QED
    BY <2>1, <2>2
<1>8. Len(list) - Len(Tail(q)) = k
  BY <1>1, <1>2
<1>9. Turn(list, Tail(q), next, n)
  BY <1>6, <1>7, <1>8 DEF Turn
<1> QED
  BY <1>3, <1>4, <1>9 DEF next

(***************************************************************************)
(* The inductive invariant                                                 *)
(***************************************************************************)

(* At most two series a workload, the second one the confirmation, unless  *)
(* the fresh series took their place; none of a discarded pass.            *)
SeriesKept(rs, measuredAfresh, p) ==
    \A s \in DOMAIN rs :
        /\ Len(rs[s]) <= 2
        /\ \A i \in DOMAIN rs[s] :
              /\ rs[s][i] = "confirmation" => i = 2
              /\ s \in measuredAfresh => rs[s][i] = "fresh"
              /\ p = 2 => rs[s][i] # "first pass"

Held == IF confirmed THEN 2 ELSE 1

(* Where every workload stands at every stage.                             *)
DepthInv ==
    /\ stage \in {"start", "pass", "stress", "replicate", "regressions", "extend"} => ~confirmed
    /\ stage \notin {"selection", "remeasure", "done"} => remeasured = {}
    /\ stage = "start" => Depth(runs, 0)
    /\ stage = "pass" => Turn(seeds, queue, runs, 0)
    /\ stage = "extend" => Turn(seeds, queue, runs, 1)
    /\ stage \in {"stress", "replicate", "regressions", "improvements", "selection", "remeasure"}
          => Depth(runs, Held)
    /\ stage = "replicate" => queue # <<>>

(* The queue of a fresh series is of one workload not yet measured afresh. *)
FreshInv ==
    stage = "remeasure" =>
        /\ queue # <<>>
        /\ \E seed \in SeedSet \ remeasured : \A i \in DOMAIN queue : queue[i] = seed

(* A verdict whose series all matched leaves nothing to measure afresh.    *)
VerdictInv == stage = "done" /\ ev.behaviorMatches => WorkloadToRemeasure = {}

MeasurementInv ==
    /\ MeasurementTypeOK /\ EvidenceInv /\ SeriesKept(runs, remeasured, pass)
    /\ DepthInv /\ FreshInv /\ VerdictInv

(* What is left of the invariant once the evidence is dealt with.          *)
ScheduleInv ==
    /\ stage \in MeasurementStages /\ queue \in Seq(STRING) /\ pass \in {1, 2}
    /\ runs \in [SeedSet -> Seq(Origins)] /\ sized \in BOOLEAN /\ confirmed \in BOOLEAN
    /\ remeasured \in SUBSET SeedSet
    /\ SeriesKept(runs, remeasured, pass) /\ DepthInv /\ FreshInv

LEMMA SeedQueue ==
    ASSUME MeasurementTypeOK
    PROVE  /\ DOMAIN runs = Named(seeds) /\ SeedSet = Named(seeds)
           /\ \A s \in SeedSet : runs[s] \in Seq(Origins) /\ Len(runs[s]) \in Nat
                                 /\ DOMAIN runs[s] = 1 .. Len(runs[s])
<1>1. SeedSet = Named(seeds)
  BY DEF SeedSet, Named
<1>2. runs \in [SeedSet -> Seq(Origins)]
  BY DEF MeasurementTypeOK
<1>3. ASSUME NEW s \in SeedSet
      PROVE  runs[s] \in Seq(Origins)
  BY <1>2
<1>4. ASSUME NEW r \in Seq(Origins)
      PROVE  Len(r) \in Nat /\ DOMAIN r = 1 .. Len(r)
  OBVIOUS
<1> QED
  BY <1>1, <1>2, <1>3, <1>4

(* The steps that run no series of an eligible workload and take none away. *)
LEMMA StageStep ==
    ASSUME MeasurementInv, SeedSet' = SeedSet, seeds' = seeds,
           \/ Start \/ FinishSeeds \/ NothingEligible \/ MeasureStressSeed
           \/ ReplicateStressBreach \/ KeepPass \/ ConfirmRegressions
           \/ ConfirmImprovements \/ FinishExtension \/ ConfirmSelection
           \/ SelectionStands \/ MeasureFreshSeries \/ SeriesFails
    PROVE  ScheduleInv'
<1> USE DEF MeasurementInv
<1>1. /\ runs' = runs /\ remeasured' = remeasured /\ pass' = pass /\ sized' = sized
      /\ confirmed' \in BOOLEAN
  BY DEF MeasurementTypeOK, Start, FinishSeeds, NothingEligible, MeasureStressSeed, ReplicateStressBreach,
         KeepPass, Look, ConfirmRegressions, ConfirmImprovements, FinishExtension,
         ConfirmSelection, SelectionStands, MeasureFreshSeries, SeriesFails
<1>2. SeriesKept(runs, remeasured, pass)'
  BY <1>1
<1>3. /\ runs' \in [SeedSet' -> Seq(Origins)] /\ remeasured' \in SUBSET SeedSet'
      /\ sized' \in BOOLEAN /\ confirmed' \in BOOLEAN /\ pass' \in {1, 2}
  BY <1>1 DEF MeasurementTypeOK
<1>4. seeds \in Seq(STRING) /\ StressSeeds \in Seq(STRING) /\ queue \in Seq(STRING)
      /\ <<>> \in Seq(STRING)
  BY SeedsType, MeasurementAssumption DEF MeasurementTypeOK
<1>5. queue # <<>> => Tail(queue) \in Seq(STRING)
  BY <1>4
<1> SUFFICES stage' \in MeasurementStages /\ queue' \in Seq(STRING) /\ DepthInv' /\ FreshInv'
  BY <1>2, <1>3 DEF ScheduleInv
<1>6. CASE Start
  <2>1. stage' = "pass" /\ queue' = seeds /\ confirmed' = confirmed /\ stage = "start"
    BY <1>6 DEF Start
  <2>2. Turn(seeds, seeds, runs, 0)
    BY <1>4, <2>1, SeedQueue, TurnBegins DEF DepthInv
  <2> QED
    BY <1>1, <1>4, <2>1, <2>2 DEF DepthInv, FreshInv, MeasurementStages
<1>7. CASE FinishSeeds
  <2>1. stage' = "stress" /\ queue' = StressSeeds /\ confirmed' = confirmed /\ stage = "pass"
        /\ queue = <<>>
    BY <1>7 DEF FinishSeeds
  <2>2. Depth(runs, 0 + 1)
    BY <1>4, <2>1, SeedQueue, TurnOver DEF DepthInv
  <2> QED
    BY <1>1, <1>4, <2>1, <2>2 DEF DepthInv, FreshInv, MeasurementStages, Held
<1>8. CASE NothingEligible
  <2>1. stage' = "done" /\ queue' = queue
    BY <1>8 DEF NothingEligible
  <2> QED
    BY <1>4, <2>1 DEF DepthInv, FreshInv, MeasurementStages
<1>9. CASE MeasureStressSeed
  <2>1. /\ stage = "stress" /\ queue # <<>> /\ confirmed' = confirmed
        /\ \/ stage' = "replicate" /\ queue' = queue
           \/ stage' = "stress" /\ queue' = Tail(queue)
    BY <1>9 DEF MeasureStressSeed
  <2> QED
    BY <1>1, <1>4, <1>5, <2>1 DEF DepthInv, FreshInv, MeasurementStages, Held
<1>10. CASE ReplicateStressBreach
  <2>1. stage = "replicate" /\ confirmed' = confirmed /\ stage' = "stress" /\ queue' = Tail(queue)
        /\ queue # <<>>
    BY <1>10 DEF ReplicateStressBreach, DepthInv
  <2> QED
    BY <1>1, <1>5, <2>1 DEF DepthInv, FreshInv, MeasurementStages, Held
<1>11. CASE KeepPass
  <2>1. stage = "stress" /\ stage' = "regressions" /\ confirmed' = confirmed /\ queue' = queue
    BY <1>11 DEF KeepPass
  <2> QED
    BY <1>1, <1>4, <2>1 DEF DepthInv, FreshInv, MeasurementStages, Held
<1>12. CASE ConfirmRegressions \/ ConfirmImprovements
  <2>1. /\ confirmed' = confirmed
        /\ \/ /\ stage = "regressions" \/ (stage = "improvements" /\ ~confirmed)
              /\ stage' = "extend" /\ queue' = seeds
           \/ /\ stage = "regressions" /\ stage' = "improvements" /\ queue' = queue
           \/ /\ stage = "improvements" /\ stage' = "selection" /\ queue' = queue
    BY <1>12 DEF ConfirmRegressions, ConfirmImprovements, Look
  <2>2. CASE stage' = "extend"
    <3>1. Depth(runs, 1) /\ ~confirmed /\ remeasured = {} /\ queue' = seeds
      BY <2>1, <2>2 DEF DepthInv, Held
    <3>2. Turn(seeds, seeds, runs, 1)
      BY <1>4, <3>1, SeedQueue, TurnBegins
    <3> QED
      BY <1>1, <1>4, <2>1, <2>2, <3>1, <3>2 DEF DepthInv, FreshInv, MeasurementStages
  <2>3. CASE stage' # "extend"
    BY <1>1, <1>4, <2>1, <2>3 DEF DepthInv, FreshInv, MeasurementStages, Held
  <2> QED
    BY <2>2, <2>3
<1>13. CASE FinishExtension
  <2>1. stage = "extend" /\ queue = <<>> /\ confirmed' = TRUE /\ stage' = "improvements"
        /\ queue' = queue
    BY <1>13 DEF FinishExtension
  <2>2. Depth(runs, 1 + 1)
    BY <1>4, <2>1, SeedQueue, TurnOver DEF DepthInv
  <2> QED
    BY <1>1, <1>4, <2>1, <2>2 DEF DepthInv, FreshInv, MeasurementStages, Held
<1>14. CASE ConfirmSelection
  <2>1. PICK seed \in WorkloadToRemeasure : stage' = "remeasure" /\ queue' = FreshSeriesOf(seed)
    BY <1>14 DEF ConfirmSelection
  <2>2. seed \in SeedSet \ remeasured /\ stage = "selection" /\ confirmed' = confirmed
    BY <1>14, SelectedType DEF ConfirmSelection
  <2>3. Len(runs[seed]) \in {1, 2} /\ DOMAIN runs[seed] = 1 .. Len(runs[seed]) /\ seed \in STRING
    BY <2>2, SeedQueue, SeedsType DEF DepthInv, Held, Depth
  <2>4. queue' = [i \in 1 .. Len(runs[seed]) |-> seed]
    BY <2>1, <2>3 DEF FreshSeriesOf
  <2>5. queue' \in Seq(STRING) /\ queue' # <<>> /\ \A i \in DOMAIN queue' : queue'[i] = seed
    <3>1. queue' \in Seq(STRING) /\ Len(queue') > 0
      <4> DEFINE n == Len(runs[seed])
      <4>1. n \in {1, 2} /\ seed \in STRING /\ queue' = [i \in 1 .. n |-> seed]
        BY <2>3, <2>4
      <4> HIDE DEF n
      <4>2. queue' \in [1 .. n -> STRING]
        BY <4>1
      <4>3. n \in Nat /\ n > 0 /\ DOMAIN queue' = 1 .. n
        BY <4>1
      <4>4. queue' \in Seq(STRING)
        BY <4>2, <4>3
      <4>5. Len(queue') = n
        BY <4>4, <4>3
      <4> QED
        BY <4>3, <4>4, <4>5
    <3>2. queue' # <<>>
      BY <3>1
    <3> QED
      BY <2>4, <3>1, <3>2
  <2> QED
    BY <1>1, <2>1, <2>2, <2>5 DEF DepthInv, FreshInv, MeasurementStages, Held
<1>15. CASE SelectionStands
  <2>1. stage' = "done" /\ queue' = queue
    BY <1>15 DEF SelectionStands
  <2> QED
    BY <1>4, <2>1 DEF DepthInv, FreshInv, MeasurementStages
<1>16. CASE MeasureFreshSeries
  <2>1. stage = "remeasure" /\ Len(queue) > 1 /\ queue' = Tail(queue) /\ stage' = stage
        /\ confirmed' = confirmed
    BY <1>16 DEF MeasureFreshSeries
  <2>2. PICK seed \in SeedSet \ remeasured : \A i \in DOMAIN queue : queue[i] = seed
    BY <2>1 DEF FreshInv
  <2>3. /\ queue' \in Seq(STRING) /\ queue' # <<>>
        /\ \A i \in DOMAIN queue' : i + 1 \in DOMAIN queue /\ queue'[i] = queue[i + 1]
    BY <1>4, <2>1, TailLeft
  <2>4. \A i \in DOMAIN queue' : queue'[i] = seed
    BY <2>2, <2>3
  <2> QED
    BY <1>1, <2>1, <2>2, <2>3, <2>4 DEF DepthInv, FreshInv, MeasurementStages, Held
<1>17. CASE SeriesFails
  <2>1. stage' = "done" /\ queue' = <<>>
    BY <1>17 DEF SeriesFails
  <2> QED
    BY <1>4, <2>1 DEF DepthInv, FreshInv, MeasurementStages
<1> QED
  BY <1>6, <1>7, <1>8, <1>9, <1>10, <1>11, <1>12, <1>13, <1>14, <1>15, <1>16, <1>17

(* A series is kept: its workload holds one more.                          *)
LEMMA TakenStep ==
    ASSUME MeasurementInv, SeedSet' = SeedSet, seeds' = seeds, MeasureSeed \/ ExtendSeed
    PROVE  ScheduleInv'
<1> USE DEF MeasurementInv
<1>1. /\ queue # <<>> /\ queue' = Tail(queue) /\ stage' = stage /\ pass' = pass
      /\ sized' = sized /\ confirmed' = confirmed /\ remeasured' = remeasured
      /\ stage \in {"pass", "extend"}
  BY DEF MeasureSeed, ExtendSeed
<1> DEFINE n == IF stage = "pass" THEN 0 ELSE 1
           origin == IF stage = "extend" THEN "confirmation"
                     ELSE IF pass = 1 THEN "first pass" ELSE "second pass"
           s == Head(queue)
           next == [runs EXCEPT ![s] = Append(@, origin)]
<1>2. runs' = next
  <2>1. CASE MeasureSeed
    BY <2>1 DEF MeasureSeed, Ran
  <2>2. CASE ExtendSeed
    BY <2>2 DEF ExtendSeed, Ran
  <2> QED
    BY <2>1, <2>2
<1>3. /\ seeds \in Seq(STRING) /\ \A i, j \in DOMAIN seeds : seeds[i] = seeds[j] => i = j
      /\ queue \in Seq(STRING) /\ runs \in [Named(seeds) -> Seq(Origins)]
      /\ SeedSet = Named(seeds)
  BY SeedsType, SeedQueue DEF MeasurementTypeOK
<1>4. n \in Nat /\ n \in {0, 1} /\ origin \in Origins /\ Turn(seeds, queue, runs, n)
  BY <1>1 DEF Origins, DepthInv
<1> HIDE DEF n
<1>5. s \in Named(seeds) /\ Len(runs[s]) = n /\ Turn(seeds, Tail(queue), next, n)
  <2> HIDE DEF origin
  <2> QED
    BY <1>1, <1>3, <1>4, TurnTaken
<1>6. Tail(queue) \in Seq(STRING)
  BY <1>1, <1>3
<1>7. /\ \A t \in Named(seeds) \ {s} : next[t] = runs[t]
      /\ next[s] = Append(runs[s], origin)
      /\ next \in [Named(seeds) -> Seq(Origins)]
  <2>1. runs[s] \in Seq(Origins)
    BY <1>3, <1>5
  <2> HIDE DEF origin, s
  <2>2. Append(runs[s], origin) \in Seq(Origins)
    BY <1>4, <2>1
  <2> QED
    BY <1>3, <1>5, <2>2
<1>8. /\ Len(next[s]) = n + 1 /\ DOMAIN next[s] = 1 .. n + 1
      /\ \A i \in 1 .. n : next[s][i] = runs[s][i]
      /\ next[s][n + 1] = origin
  <2>1. runs[s] \in Seq(Origins)
    BY <1>3, <1>5
  <2> HIDE DEF origin, s, next
  <2> QED
    BY <1>4, <1>5, <1>7, <2>1
<1>9. /\ origin = "confirmation" => n + 1 = 2
      /\ pass = 2 => origin # "first pass"
      /\ remeasured = {}
  BY <1>1 DEF n, DepthInv
<1> HIDE DEF next, origin, s
<1>10. SeriesKept(next, remeasured, pass)
  <2> SUFFICES ASSUME NEW t \in DOMAIN next
               PROVE  /\ Len(next[t]) <= 2
                      /\ \A i \in DOMAIN next[t] :
                            /\ next[t][i] = "confirmation" => i = 2
                            /\ t \in remeasured => next[t][i] = "fresh"
                            /\ pass = 2 => next[t][i] # "first pass"
    BY DEF SeriesKept
  <2>1. t \in Named(seeds) /\ t \in DOMAIN runs
    BY <1>3, <1>7
  <2>2. CASE t # s
    BY <1>7, <2>1, <2>2 DEF SeriesKept
  <2>3. CASE t = s
    <3>1. Len(next[s]) <= 2
      BY <1>4, <1>8
    <3>2. ASSUME NEW i \in DOMAIN next[s]
          PROVE  /\ next[s][i] = "confirmation" => i = 2
                 /\ pass = 2 => next[s][i] # "first pass"
      <4>1. CASE i = n + 1
        BY <1>8, <1>9, <4>1
      <4>2. CASE i # n + 1
        <5>1. i \in 1 .. n /\ i \in DOMAIN runs[s]
          <6>1. runs[s] \in Seq(Origins)
            BY <1>3, <1>5
          <6> QED
            BY <1>4, <1>5, <1>8, <4>2, <6>1
        <5> QED
          BY <1>8, <2>1, <2>3, <5>1 DEF SeriesKept
      <4> QED
        BY <4>1, <4>2
    <3> QED
      BY <1>9, <2>3, <3>1, <3>2
  <2> QED
    BY <2>2, <2>3
<1>11. Turn(seeds, queue, runs, n)'
  <2>1. n' = n
    BY <1>1 DEF n
  <2> QED
    BY <1>1, <1>2, <1>5, <2>1
<1>12. DepthInv' /\ FreshInv'
  BY <1>1, <1>11 DEF DepthInv, FreshInv, n
<1> QED
  BY <1>1, <1>2, <1>3, <1>6, <1>7, <1>10, <1>12 DEF ScheduleInv, MeasurementTypeOK

LEMMA NoRunsType ==
    /\ NoRuns \in [SeedSet -> Seq(Origins)] /\ DOMAIN NoRuns = SeedSet
    /\ Depth(NoRuns, 0) /\ \A S, p : SeriesKept(NoRuns, S, p)
<1>1. <<>> \in Seq(Origins) /\ Len(<<>>) = 0 /\ DOMAIN <<>> = {}
  OBVIOUS
<1>2. DOMAIN NoRuns = SeedSet /\ \A s \in SeedSet : NoRuns[s] = <<>>
  BY DEF NoRuns
<1>3. NoRuns \in [SeedSet -> Seq(Origins)]
  BY <1>1 DEF NoRuns
<1>4. Depth(NoRuns, 0)
  BY <1>1, <1>2 DEF Depth
<1>5. ASSUME NEW S, NEW p
      PROVE  SeriesKept(NoRuns, S, p)
  <2>1. \A s \in DOMAIN NoRuns : Len(NoRuns[s]) <= 2
    BY <1>1, <1>2
  <2>2. \A s \in DOMAIN NoRuns : DOMAIN NoRuns[s] = {}
    BY <1>1, <1>2
  <2>3. \A s \in DOMAIN NoRuns : \A i \in DOMAIN NoRuns[s] :
            /\ NoRuns[s][i] = "confirmation" => i = 2
            /\ s \in S => NoRuns[s][i] = "fresh"
            /\ p = 2 => NoRuns[s][i] # "first pass"
    BY <2>2
  <2> QED
    BY <2>1, <2>3 DEF SeriesKept
<1> QED
  BY <1>2, <1>3, <1>4, <1>5

(* The second pass starts from nothing.                                    *)
LEMMA DiscardStep ==
    ASSUME MeasurementInv, SeedSet' = SeedSet, seeds' = seeds, RemeasureContendedPass
    PROVE  ScheduleInv'
<1> USE DEF MeasurementInv
<1>1. /\ stage = "stress" /\ stage' = "pass" /\ queue' = seeds /\ pass' = 2
      /\ runs' = NoRuns /\ sized' = sized /\ confirmed' = confirmed
      /\ remeasured' = remeasured
  BY DEF RemeasureContendedPass, Discarded
<1>2. seeds \in Seq(STRING) /\ SeedSet = Named(seeds) /\ ~confirmed /\ remeasured = {}
  BY <1>1, SeedsType, SeedQueue DEF DepthInv
<1>3. Turn(seeds, seeds, NoRuns, 0)
  BY <1>2, NoRunsType, TurnBegins
<1>4. SeriesKept(NoRuns, remeasured, 2)
  BY NoRunsType
<1>5. NoRuns \in [SeedSet -> Seq(Origins)]
  BY NoRunsType
<1>6. DepthInv'
  BY <1>1, <1>2, <1>3 DEF DepthInv
<1>7. FreshInv'
  BY <1>1 DEF FreshInv
<1>8. SeriesKept(runs', remeasured', pass')
  BY <1>1, <1>4
<1> QED
  BY <1>1, <1>2, <1>5, <1>6, <1>7, <1>8
  DEF ScheduleInv, MeasurementTypeOK, MeasurementStages

(* The fresh series takes the place of the workload's series, as many as   *)
(* there were.                                                             *)
LEMMA ReplaceStep ==
    ASSUME MeasurementInv, SeedSet' = SeedSet, seeds' = seeds, ReplaceSeries
    PROVE  /\ ScheduleInv'
           /\ \E seed \in SeedSet \ remeasured : remeasured' = remeasured \cup {seed}
<1> USE DEF MeasurementInv
<1> DEFINE seed == Head(queue)
           fresh == Replacement(seed, runs[seed])
<1>1. /\ stage = "remeasure" /\ Len(queue) = 1 /\ stage' = "selection" /\ queue' = <<>>
      /\ pass' = pass /\ sized' = sized /\ confirmed' = confirmed
      /\ runs' = [runs EXCEPT ![seed] = fresh] /\ remeasured' = remeasured \cup {seed}
  BY DEF ReplaceSeries
<1>2. seed \in SeedSet \ remeasured
  <2>1. queue \in Seq(STRING)
    BY DEF MeasurementTypeOK
  <2>2. 1 \in DOMAIN queue /\ Head(queue) = queue[1]
    BY <1>1, <2>1
  <2> QED
    BY <1>1, <2>2 DEF FreshInv
<1>3. /\ runs \in [SeedSet -> Seq(Origins)] /\ SeedSet = Named(seeds)
      /\ Len(runs[seed]) \in Nat /\ DOMAIN runs[seed] = 1 .. Len(runs[seed])
  BY <1>2, SeedQueue DEF MeasurementTypeOK
<1>4. fresh = [i \in 1 .. Len(runs[seed]) |-> "fresh"]
  BY <1>3 DEF Replacement
<1>5. /\ fresh \in Seq(Origins) /\ Len(fresh) = Len(runs[seed])
      /\ \A i \in DOMAIN fresh : fresh[i] = "fresh"
  <2> DEFINE n == Len(runs[seed])
  <2>1. n \in Nat /\ fresh = [i \in 1 .. n |-> "fresh"] /\ "fresh" \in Origins
    BY <1>3, <1>4 DEF Origins
  <2> HIDE DEF n, fresh
  <2>2. fresh \in [1 .. n -> Origins]
    BY <2>1
  <2>3. fresh \in Seq(Origins)
    BY <2>1, <2>2
  <2>4. Len(fresh) = n
    BY <2>1, <2>3
  <2> QED
    BY <2>1, <2>3, <2>4 DEF n
<1> HIDE DEF seed, fresh
<1>6. /\ runs' \in [SeedSet -> Seq(Origins)] /\ runs'[seed] = fresh
      /\ \A s \in SeedSet \ {seed} : runs'[s] = runs[s]
  BY <1>1, <1>2, <1>3, <1>5
<1>7. SeriesKept(runs', remeasured', pass')
  <2> SUFFICES ASSUME NEW s \in SeedSet
               PROVE  /\ Len(runs'[s]) <= 2
                      /\ \A i \in DOMAIN runs'[s] :
                            /\ runs'[s][i] = "confirmation" => i = 2
                            /\ s \in remeasured' => runs'[s][i] = "fresh"
                            /\ pass' = 2 => runs'[s][i] # "first pass"
    BY <1>6 DEF SeriesKept
  <2>1. CASE s = seed
    <3>1. Len(runs[seed]) <= 2
      BY <1>2, <1>3 DEF SeriesKept
    <3> QED
      BY <1>5, <1>6, <2>1, <3>1
  <2>2. CASE s # seed
    <3>1. s \in DOMAIN runs /\ runs'[s] = runs[s] /\ (s \in remeasured' => s \in remeasured)
      BY <1>1, <1>3, <1>6, <2>2
    <3> QED
      BY <1>1, <3>1 DEF SeriesKept
  <2> QED
    BY <2>1, <2>2
<1>8. Depth(runs', Held')
  <2>1. Depth(runs, Held) /\ Held' = Held
    BY <1>1 DEF DepthInv, Held
  <2>2. \A s \in SeedSet : Len(runs'[s]) = Len(runs[s])
    BY <1>5, <1>6
  <2> QED
    BY <1>3, <1>6, <2>1, <2>2 DEF Depth
<1>9. DepthInv' /\ FreshInv'
  BY <1>1, <1>8 DEF DepthInv, FreshInv
<1>10. <<>> \in Seq(STRING)
  OBVIOUS
<1> QED
  BY <1>1, <1>2, <1>6, <1>7, <1>9, <1>10
  DEF ScheduleInv, MeasurementTypeOK, MeasurementStages

(* The steps an evaluation ends with.                                      *)
LEMMA LastSteps ==
    ASSUME Next, stage' = "done"
    PROVE  NothingEligible \/ SelectionStands \/ SeriesFails
<1>1. stage # "done"
  BY DEF Next, Start, MeasureSeed, FinishSeeds, NothingEligible, MeasureStressSeed,
         ReplicateStressBreach, RemeasureContendedPass, KeepPass, Look, ConfirmRegressions,
         ConfirmImprovements, ExtendSeed, FinishExtension, ConfirmSelection, SelectionStands,
         MeasureFreshSeries, ReplaceSeries, SeriesFails, Running
<1> QED
  BY <1>1 DEF Next, Start, MeasureSeed, FinishSeeds, MeasureStressSeed,
         ReplicateStressBreach, RemeasureContendedPass, KeepPass, Look, ConfirmRegressions,
         ConfirmImprovements, ExtendSeed, FinishExtension, ConfirmSelection,
         MeasureFreshSeries, ReplaceSeries

LEMMA VerdictStep ==
    ASSUME MeasurementInv, SeedSet' = SeedSet, seeds' = seeds, Next
    PROVE  VerdictInv'
<1> SUFFICES ASSUME stage' = "done", ev'.behaviorMatches
             PROVE  WorkloadToRemeasure' = {}
  BY DEF VerdictInv
<1>1. NothingEligible \/ SelectionStands \/ SeriesFails
  BY LastSteps
<1>2. CASE NothingEligible
  <2>1. Len(seeds') = 0
    BY <1>2 DEF NothingEligible
  <2> QED
    BY <2>1 DEF WorkloadToRemeasure
<1>3. CASE SelectionStands
  BY <1>3 DEF SelectionStands, WorkloadToRemeasure
<1>4. CASE SeriesFails
  BY <1>4, FailedEvidence DEF MeasurementInv
<1> QED
  BY <1>1, <1>2, <1>3, <1>4

LEMMA MeasurementStart == Init => MeasurementInv
<1> SUFFICES ASSUME Init PROVE MeasurementInv
  OBVIOUS
<1>1. <<>> \in Seq(STRING) /\ ev \in EvidenceSet /\ EvidenceInv
  BY NoEvidenceType, NoEvidenceInv DEF Init, EvidenceInv
<1>2. MeasurementTypeOK
  BY <1>1, NoRunsType DEF Init, MeasurementTypeOK, MeasurementStages
<1>3. SeriesKept(runs, remeasured, pass) /\ DepthInv /\ FreshInv /\ VerdictInv
  BY NoRunsType DEF Init, DepthInv, FreshInv, VerdictInv
<1> QED
  BY <1>1, <1>2, <1>3 DEF MeasurementInv

LEMMA MeasurementStep == MeasurementInv /\ [Next]_vars => MeasurementInv'
<1> SUFFICES ASSUME MeasurementInv, [Next]_vars PROVE MeasurementInv'
  OBVIOUS
<1>1. CASE Next
  <2>1. seeds' = seeds /\ SeedSet' = SeedSet
    BY <1>1, SeedsStay
  <2>2. ev' \in EvidenceSet /\ EvidenceInv'
    BY <1>1, EvidenceStep DEF MeasurementInv, DepthInv
  <2>3. ScheduleInv'
    BY <1>1, <2>1, StageStep, TakenStep, DiscardStep, ReplaceStep DEF Next
  <2>4. VerdictInv'
    BY <1>1, <2>1, VerdictStep
  <2> QED
    BY <2>1, <2>2, <2>3, <2>4 DEF MeasurementInv, MeasurementTypeOK, ScheduleInv
<1>2. CASE UNCHANGED vars
  BY <1>2 DEF vars, MeasurementInv, MeasurementTypeOK, EvidenceInv, DepthInv, FreshInv,
         VerdictInv, SeedSet, Held, WorkloadToRemeasure
<1> QED
  BY <1>1, <1>2

(***************************************************************************)
(* What the evaluation of a candidate keeps, whatever its series read.     *)
(***************************************************************************)
THEOREM MeasurementInvariant == Spec => []MeasurementInv
<1> QED
  BY MeasurementStart, MeasurementStep, PTL DEF Spec

(***************************************************************************)
(* The properties of the run                                               *)
(***************************************************************************)

LEMMA DiscardIsWhole == MeasurementInv => NoDiscardedReading
<1> SUFFICES ASSUME MeasurementInv, pass = 2 PROVE NoDiscardedReading
  BY DEF NoDiscardedReading
<1>1. \A s \in SeedSet : \A i \in DOMAIN runs[s] : runs[s][i] # "first pass"
  BY SeedQueue DEF MeasurementInv, SeriesKept
<1>2. ReadIn(ev, 2)
  BY DEF MeasurementInv, EvidenceInv
<1>3. \A r \in AllReadings(ev) : r.pass = 2
  <2> TAKE r \in AllReadings(ev)
  <2>1. \/ \E i \in DOMAIN ev.eligible : r = ev.eligible[i]
        \/ \E g \in DOMAIN ev.pooled : r = ev.pooled[g]
        \/ \E g \in DOMAIN ev.first : r = ev.first[g]
        \/ \E g \in DOMAIN ev.fresh : r = ev.fresh[g]
        \/ \E s \in DOMAIN ev.freshStress : r = ev.freshStress[s]
        \/ \E s \in DOMAIN ev.stress : \E g \in DOMAIN ev.stress[s] : r = ev.stress[s][g]
    BY DEF AllReadings
  <2> QED
    BY <1>2, <2>1 DEF ReadIn
<1> QED
  BY <1>1, <1>3 DEF NoDiscardedReading

(***************************************************************************)
(* Once the second pass runs, no series and no reading of the contended    *)
(* first pass is left (measureSeedsOnQuietMachine).                        *)
(***************************************************************************)
THEOREM ContendedPassIsForgotten == Spec => []NoDiscardedReading
<1> QED
  BY MeasurementInvariant, DiscardIsWhole, PTL

LEMMA DepthIsCommon == MeasurementInv => OneExtension
<1> SUFFICES ASSUME MeasurementInv PROVE OneExtension
  OBVIOUS
<1>1. ASSUME NEW s \in SeedSet
      PROVE  /\ Cardinality({i \in DOMAIN runs[s] : runs[s][i] = "confirmation"}) <= 1
             /\ s \in remeasured => \A i \in DOMAIN runs[s] : runs[s][i] = "fresh"
  <2> DEFINE second == {i \in DOMAIN runs[s] : runs[s][i] = "confirmation"}
  <2>1. s \in DOMAIN runs
    BY SeedQueue DEF MeasurementInv
  <2>2. second \in SUBSET {2}
    BY <2>1 DEF MeasurementInv, SeriesKept
  <2> HIDE DEF second
  <2>3. IsFiniteSet({2}) /\ Cardinality({2}) = 1
    BY FS_Singleton
  <2>4. IsFiniteSet(second) /\ Cardinality(second) <= Cardinality({2})
    BY <2>2, <2>3, FS_Subset
  <2>5. s \in remeasured => \A i \in DOMAIN runs[s] : runs[s][i] = "fresh"
    BY <2>1 DEF MeasurementInv, SeriesKept
  <2> QED
    BY <2>3, <2>4, <2>5 DEF second
<1>2. stage \in {"stress", "regressions", "improvements", "selection"} =>
          \A s, t \in SeedSet : Len(runs[s]) = Len(runs[t])
  BY SeedQueue DEF MeasurementInv, DepthInv, Depth
<1> QED
  BY <1>1, <1>2 DEF OneExtension

(***************************************************************************)
(* One confirmation series a candidate, a fresh one only for the workload  *)
(* that was selected, and as many series on every workload whenever the    *)
(* comparisons are derived (confirmImprovements, commonDepth).             *)
(***************************************************************************)
THEOREM ExtendsOnce == Spec => []OneExtension
<1> QED
  BY MeasurementInvariant, DepthIsCommon, PTL

LEMMA AcceptanceHolds == MeasurementInv => AcceptanceIsEarned
<1> SUFFICES ASSUME MeasurementInv, Accepting PROVE AcceptanceIsEarned
  BY DEF AcceptanceIsEarned
<1>1. ev \in EvidenceSet /\ Evaluate(ev).decision = "accepted"
  BY DEF MeasurementInv, MeasurementTypeOK, Accepting, Judged
<1>2. /\ ev.behaviorMatches /\ ev.safetyChecksPassed
      /\ \A g \in Configured : GuardrailDecision(ev, g) = Continue
      /\ \A i \in DOMAIN ev.eligible : ~Breached(ev.eligible[i], RegressionCeiling)
      /\ StressVetoes(ev) = {}
  BY <1>1, PassedRules
<1>3. \A r, limit : ProvenOver(r, limit) => Breached(r, limit)
  BY DEF ProvenOver, Breached, Over
<1>4. Required \subseteq DOMAIN ev.pooled
  <2> SUFFICES ASSUME NEW g \in Required, g \notin DOMAIN ev.pooled PROVE FALSE
    OBVIOUS
  <2>1. GuardrailDecision(ev, g) = Continue
    BY <1>2, PolicyAssumption
  <2> QED
    BY <2>1 DEF GuardrailDecision, Undecided, Continue, Verdict
<1>5. ASSUME NEW g \in Configured \cap DOMAIN ev.pooled, ProvenOver(ev.pooled[g], LimitOf(g))
      PROVE  /\ g = "peak_memory_bytes" /\ g \in DOMAIN ev.fresh
             /\ ~ProvenOver(ev.fresh[g], LimitOf(g))
  <2>1. GuardrailDecision(ev, g) = Continue /\ Breached(ev.pooled[g], LimitOf(g))
    BY <1>2, <1>3, <1>5
  <2>2. g \in Replicated /\ FreshSpares(ev, g)
    BY <2>1 DEF GuardrailDecision, Undecided, Reject, Continue, Verdict, BreachInSight
  <2> QED
    BY <1>3, <2>2 DEF Replicated, FreshSpares
<1>6. ASSUME NEW s \in DOMAIN ev.stress, NEW g \in Configured \cap DOMAIN ev.stress[s],
             ProvenOver(ev.stress[s][g], LimitOf(g))
      PROVE  /\ g = "peak_memory_bytes" /\ s \in DOMAIN ev.freshStress
             /\ ~ProvenOver(ev.freshStress[s], LimitOf(g))
  <2>1. Breached(ev.stress[s][g], LimitOf(g))
    BY <1>3, <1>6
  <2>2. StressSpares(ev, s, g)
    BY <1>2, <2>1 DEF StressVetoes, Configured
  <2> QED
    BY <1>3, <2>2 DEF Replicated, StressSpares
<1>7. \E i \in DOMAIN ev.eligible :
         LET r == ev.eligible[i] IN
         /\ r.workload = Judged.subject
         /\ r.fit /\ r.delta < 0
         /\ (IF r.shift = NoShift THEN r.delta ELSE r.shift[1]) <= -MinimumImprovement
  <2> DEFINE best == BestImprovement(ev.eligible)
  <2>1. /\ best \in JudgedReadings /\ best.fit /\ ImprovedAtLeastMinimum(best)
        /\ Evaluate(ev).subject = best.workload
    BY <1>1, AcceptedImprovement
  <2>2. PICK i \in DOMAIN ev.eligible : best = ev.eligible[i]
    BY <1>1, AcceptedImprovement
  <2> HIDE DEF best
  <2>3. best.delta \in Int /\ (best.shift # NoShift => best.shift[1] \in Int)
    BY <2>1 DEF JudgedReadings
  <2>4. /\ -ImprovementDelta(best) >= MinimumImprovement
        /\ best.shift # NoShift => Direction(best.delta) = Direction(best.shift[1])
    BY <2>1 DEF ImprovedAtLeastMinimum, EstimatorsAgree
  <2>5. CASE best.shift = NoShift
    <3>1. best.delta <= -MinimumImprovement /\ best.delta < 0
      BY <2>3, <2>4, <2>5, CeilingTypes DEF ImprovementDelta
    <3> QED
      BY <2>1, <2>2, <2>5, <3>1 DEF Judged
  <2>6. CASE best.shift # NoShift
    <3>1. best.shift[1] <= -MinimumImprovement /\ best.shift[1] < 0
      BY <2>3, <2>4, <2>6, CeilingTypes DEF ImprovementDelta
    <3>2. best.delta < 0
      BY <2>3, <2>4, <2>6, <3>1 DEF Direction
    <3> QED
      BY <2>1, <2>2, <2>6, <3>1, <3>2 DEF Judged
  <2> QED
    BY <2>5, <2>6
<1> QED
  BY <1>2, <1>3, <1>4, <1>5, <1>6, <1>7 DEF AcceptanceIsEarned

(***************************************************************************)
(* What an acceptance stands for, without the policy's order of rules:     *)
(* behaviour that matched, guardrails that were read and held or were      *)
(* contradicted afresh, and a supported improvement in both estimators     *)
(* (policy.Evaluate).                                                      *)
(***************************************************************************)
THEOREM AcceptsWhatIsEarned == Spec => []AcceptanceIsEarned
<1> QED
  BY MeasurementInvariant, AcceptanceHolds, PTL

LEMMA OverLimitNamed == MeasurementInv => OverLimitIsNamed
<1> SUFFICES ASSUME MeasurementInv, Accepting PROVE OverLimitIsNamed
  BY DEF OverLimitIsNamed
<1>1. ev \in EvidenceSet /\ Evaluate(ev).decision = "accepted"
  BY DEF MeasurementInv, MeasurementTypeOK, Accepting, Judged
<1>2. /\ \A g \in Configured : GuardrailDecision(ev, g) = Continue
      /\ \A i \in DOMAIN ev.eligible : ~Breached(ev.eligible[i], RegressionCeiling)
      /\ StressVetoes(ev) = {}
  BY <1>1, PassedRules
<1>3. \A r, limit : Over(r, limit) /\ ~Breached(r, limit) => Unproven(r, limit)
  BY DEF Breached, Unproven
<1>4. \A i \in DOMAIN ev.eligible :
         Over(ev.eligible[i], RegressionCeiling) => i \in UnconfirmedRegressions(ev)
  BY <1>2, <1>3 DEF UnconfirmedRegressions
<1>5. ASSUME NEW g \in Configured \cap DOMAIN ev.pooled, Over(ev.pooled[g], LimitOf(g))
      PROVE  g \in UnconfirmedGuardrails(ev) \cup UnreplicatedGuardrails(ev)
  <2>1. CASE ~Breached(ev.pooled[g], LimitOf(g))
    BY <1>3, <1>5, <2>1 DEF UnconfirmedGuardrails
  <2>2. CASE Breached(ev.pooled[g], LimitOf(g))
    <3>1. GuardrailDecision(ev, g) = Continue /\ BreachInSight(ev, g)
      BY <1>2, <2>2 DEF BreachInSight
    <3>2. g \in Replicated /\ SupportRequired /\ FreshSpares(ev, g)
      BY <2>2, <3>1 DEF GuardrailDecision, Undecided, Reject, Continue, Verdict
    <3> QED
      BY <3>1, <3>2 DEF UnreplicatedGuardrails
  <2> QED
    BY <2>1, <2>2
<1>6. ASSUME NEW s \in DOMAIN ev.stress, NEW g \in Configured \cap DOMAIN ev.stress[s],
             Over(ev.stress[s][g], LimitOf(g))
      PROVE  s \in UnconfirmedStress(ev) \cup UnreplicatedStress(ev)
  <2>1. CASE ~Breached(ev.stress[s][g], LimitOf(g))
    BY <1>3, <1>6, <2>1 DEF UnconfirmedStress
  <2>2. CASE Breached(ev.stress[s][g], LimitOf(g))
    <3>1. StressSpares(ev, s, g)
      BY <1>2, <2>2 DEF StressVetoes, Configured
    <3> QED
      BY <2>2, <3>1 DEF UnreplicatedStress
  <2> QED
    BY <2>1, <2>2
<1> QED
  BY <1>4, <1>5, <1>6 DEF OverLimitIsNamed

(***************************************************************************)
(* An acceptance names every reading over its limit (noteUnactedReadings). *)
(***************************************************************************)
THEOREM NamesWhatIsOver == Spec => []OverLimitIsNamed
<1> QED
  BY MeasurementInvariant, OverLimitNamed, PTL

LEMMA FreshSelection == MeasurementInv => SelectionIsFresh
<1> SUFFICES ASSUME MeasurementInv, Accepting, Len(seeds) >= 2, SupportRequired,
                    Judged.subject # Pooled
             PROVE  \A i \in DOMAIN runs[Judged.subject] :
                       runs[Judged.subject][i] = "fresh"
  BY DEF SelectionIsFresh
<1> DEFINE best == BestImprovement(ev.eligible)
<1>1. ev \in EvidenceSet /\ Evaluate(ev).decision = "accepted" /\ stage = "done"
  BY DEF MeasurementInv, MeasurementTypeOK, Accepting, Judged
<1>2. /\ best.fit /\ ImprovedAtLeastMinimum(best) /\ Judged.subject = best.workload
      /\ ev.behaviorMatches
  BY <1>1, AcceptedImprovement, PassedRules DEF Judged
<1>3. best.workload \in SelectedImprovements(ev)
  BY <1>2 DEF SelectedImprovements
<1>4. best.workload \in remeasured
  BY <1>1, <1>2, <1>3 DEF MeasurementInv, VerdictInv, WorkloadToRemeasure
<1>5. best.workload \in DOMAIN runs
  BY <1>4, SeedQueue DEF MeasurementInv, MeasurementTypeOK
<1> QED
  BY <1>2, <1>4, <1>5 DEF MeasurementInv, SeriesKept

(***************************************************************************)
(* With several workloads to choose from, a verdict that accepts on one of *)
(* them rests on pairs none of which selected it (confirmSelection).       *)
(***************************************************************************)
THEOREM SelectsOnFreshPairs == Spec => []SelectionIsFresh
<1> QED
  BY MeasurementInvariant, FreshSelection, PTL

LEMMA FailureStep ==
    ASSUME MeasurementInv, Next, Running, stage' = "done"
    PROVE  Judged'.decision = "rejected"
<1>1. CASE NothingEligible
  <2>1. stage = "pass" /\ Len(seeds) = 0 /\ queue # <<>>
    BY <1>1 DEF NothingEligible, Running
  <2>2. Len(queue) <= 0 /\ queue \in Seq(STRING)
    BY <2>1 DEF MeasurementInv, MeasurementTypeOK, DepthInv, Turn
  <2> QED
    BY <2>1, <2>2
<1>2. CASE SelectionStands
  BY <1>2 DEF SelectionStands, Running
<1>3. CASE SeriesFails
  <2>1. ~ev'.behaviorMatches
    BY <1>3, SeedsStay, FailedEvidence DEF MeasurementInv
  <2>2. Evaluate(ev').decision = "rejected"
    BY <2>1, MismatchRejects
  <2> QED
    BY <2>2 DEF Judged
<1> QED
  BY <1>1, <1>2, <1>3, LastSteps

(***************************************************************************)
(* A series that fails or shows another behaviour rejects the candidate,   *)
(* however many earlier series had verified it (runSeries, secondLook).    *)
(***************************************************************************)
THEOREM FailureRejects == Spec => FailedSeriesRejects
<1>1. MeasurementInv /\ [Next]_vars =>
          [Running /\ stage' = "done" => Judged'.decision = "rejected"]_vars
  BY FailureStep
<1> QED
  BY <1>1, MeasurementInvariant, PTL DEF Spec, FailedSeriesRejects

(***************************************************************************)
(* The second looks end                                                    *)
(***************************************************************************)

LEMMA ChoicesType ==
    ASSUME MeasurementTypeOK
    PROVE  IsFiniteSet(SeedSet \ remeasured) /\ Cardinality(SeedSet \ remeasured) \in Nat
<1>1. seeds \in Seq(STRING) /\ \A i \in DOMAIN seeds : seeds[i] \in SeedSet
  BY SeedsType
<1>2. DOMAIN seeds = 1 .. Len(seeds) /\ Len(seeds) \in Nat
  BY <1>1
<1>3. seeds \in [1 .. Len(seeds) -> SeedSet]
  BY <1>1, <1>2
<1>4. seeds \in Surjection(1 .. Len(seeds), SeedSet)
  BY <1>2, <1>3 DEF Surjection, SeedSet
<1>5. IsFiniteSet(1 .. Len(seeds))
  BY <1>2, FS_Interval
<1>6. IsFiniteSet(SeedSet)
  BY <1>4, <1>5, FS_Surjection
<1>7. IsFiniteSet(SeedSet \ remeasured)
  BY <1>6, FS_Subset
<1> QED
  BY <1>7, FS_CardinalityType

LEMMA LessFirst ==
    ASSUME NEW a, NEW b, a[1] < b[1]
    PROVE  LessRemains(a, b)
BY DEF LessRemains

LEMMA LessSecond ==
    ASSUME NEW a, NEW b, a[1] = b[1], a[2] < b[2]
    PROVE  LessRemains(a, b)
BY DEF LessRemains

LEMMA LessThird ==
    ASSUME NEW a, NEW b, a[1] = b[1], a[2] = b[2], a[3] < b[3]
    PROVE  LessRemains(a, b)
BY DEF LessRemains

LEMMA EndStep ==
    ASSUME MeasurementInv, Next
    PROVE  LessRemains(Remaining', Remaining)
<1> DEFINE choices == Cardinality(SeedSet \ remeasured)
<1>1. seeds' = seeds /\ SeedSet' = SeedSet
  BY SeedsStay
<1>2. /\ choices \in Nat /\ pass \in {1, 2} /\ confirmed \in BOOLEAN
      /\ queue \in Seq(STRING) /\ Len(queue) \in Nat
  BY ChoicesType DEF MeasurementInv, MeasurementTypeOK
<1>3. MeasurementInv'
  BY MeasurementStep
<1>4. queue' \in Seq(STRING) /\ Len(queue') \in Nat /\ pass' \in {1, 2}
  BY <1>3 DEF MeasurementInv, MeasurementTypeOK
<1>5. queue # <<>> => Len(Tail(queue)) = Len(queue) - 1 /\ Len(queue) > 0
  BY <1>2
<1>6. remeasured' = remeasured => choices' = choices
  BY <1>1
<1>7. /\ stage = "start" => Remaining = <<9, 0, 0>>
      /\ stage = "pass" => Remaining = <<9 - pass, 1, Len(queue)>>
      /\ stage = "stress" => Remaining = <<9 - pass, 0, 2 * Len(queue)>>
      /\ stage = "replicate" => Remaining = <<9 - pass, 0, 2 * Len(queue) - 1>>
      /\ stage = "regressions" => Remaining = <<6, 0, 0>>
      /\ stage = "improvements" => Remaining = <<IF confirmed THEN 3 ELSE 5, 0, 0>>
      /\ stage = "extend" => Remaining = <<4, 0, Len(queue)>>
      /\ stage = "selection" => Remaining = <<2, 2 * choices, 0>>
      /\ stage = "remeasure" => Remaining = <<2, 2 * choices - 1, Len(queue)>>
      /\ stage = "done" => Remaining = <<0, 0, 0>>
  BY DEF Remaining
<1>8. /\ stage' = "pass" => Remaining' = <<9 - pass', 1, Len(queue')>>
      /\ stage' = "stress" => Remaining' = <<9 - pass', 0, 2 * Len(queue')>>
      /\ stage' = "replicate" => Remaining' = <<9 - pass', 0, 2 * Len(queue') - 1>>
      /\ stage' = "regressions" => Remaining' = <<6, 0, 0>>
      /\ stage' = "improvements" => Remaining' = <<IF confirmed' THEN 3 ELSE 5, 0, 0>>
      /\ stage' = "extend" => Remaining' = <<4, 0, Len(queue')>>
      /\ stage' = "selection" => Remaining' = <<2, 2 * choices', 0>>
      /\ stage' = "remeasure" => Remaining' = <<2, 2 * choices' - 1, Len(queue')>>
      /\ stage' = "done" => Remaining' = <<0, 0, 0>>
  BY DEF Remaining
<1> HIDE DEF choices
<1>9. CASE Start
  <2>1. stage = "start" /\ stage' = "pass" /\ pass' = pass
    BY <1>9 DEF Start
  <2> QED
    BY <1>2, <1>7, <1>8, <2>1, LessFirst
<1>10. CASE MeasureSeed
  <2>1. stage = "pass" /\ stage' = "pass" /\ pass' = pass /\ queue' = Tail(queue) /\ queue # <<>>
    BY <1>10 DEF MeasureSeed
  <2> QED
    BY <1>2, <1>5, <1>7, <1>8, <2>1, LessThird
<1>11. CASE FinishSeeds
  <2>1. stage = "pass" /\ stage' = "stress" /\ pass' = pass
    BY <1>11 DEF FinishSeeds
  <2> QED
    BY <1>2, <1>7, <1>8, <2>1, LessSecond
<1>12. CASE NothingEligible
  <2>1. stage = "pass" /\ stage' = "done"
    BY <1>12 DEF NothingEligible
  <2> QED
    BY <1>2, <1>7, <1>8, <2>1, LessFirst
<1>13. CASE MeasureStressSeed
  <2>1. /\ stage = "stress" /\ pass' = pass /\ queue # <<>>
        /\ \/ stage' = "replicate" /\ queue' = queue
           \/ stage' = "stress" /\ queue' = Tail(queue)
    BY <1>13 DEF MeasureStressSeed
  <2> QED
    BY <1>2, <1>5, <1>7, <1>8, <2>1, LessThird
<1>14. CASE ReplicateStressBreach
  <2>1. /\ stage = "replicate" /\ stage' = "stress" /\ pass' = pass /\ queue' = Tail(queue)
        /\ queue # <<>>
    BY <1>14 DEF ReplicateStressBreach, MeasurementInv, DepthInv
  <2> QED
    BY <1>2, <1>5, <1>7, <1>8, <2>1, LessThird
<1>15. CASE RemeasureContendedPass
  <2>1. stage = "stress" /\ stage' = "pass" /\ pass = 1 /\ pass' = 2
    BY <1>15 DEF RemeasureContendedPass
  <2> QED
    BY <1>2, <1>7, <1>8, <2>1, LessFirst
<1>16. CASE KeepPass
  <2>1. stage = "stress" /\ stage' = "regressions"
    BY <1>16 DEF KeepPass
  <2> QED
    BY <1>2, <1>7, <1>8, <2>1, LessFirst
<1>17. CASE ConfirmRegressions \/ ConfirmImprovements
  <2>1. /\ confirmed' = confirmed
        /\ \/ /\ stage = "regressions" \/ (stage = "improvements" /\ ~confirmed)
              /\ stage' = "extend"
           \/ stage = "regressions" /\ stage' = "improvements"
           \/ stage = "improvements" /\ stage' = "selection"
    BY <1>17 DEF ConfirmRegressions, ConfirmImprovements, Look
  <2>2. stage = "regressions" => ~confirmed
    BY DEF MeasurementInv, DepthInv
  <2> QED
    BY <1>2, <1>7, <1>8, <2>1, <2>2, LessFirst
<1>18. CASE ExtendSeed
  <2>1. stage = "extend" /\ stage' = "extend" /\ queue' = Tail(queue) /\ queue # <<>>
    BY <1>18 DEF ExtendSeed
  <2> QED
    BY <1>2, <1>5, <1>7, <1>8, <2>1, LessThird
<1>19. CASE FinishExtension
  <2>1. stage = "extend" /\ stage' = "improvements" /\ confirmed'
    BY <1>19 DEF FinishExtension
  <2> QED
    BY <1>7, <1>8, <2>1, LessFirst
<1>20. CASE ConfirmSelection
  <2>1. stage = "selection" /\ stage' = "remeasure" /\ choices' = choices
    BY <1>6, <1>20 DEF ConfirmSelection
  <2> QED
    BY <1>2, <1>7, <1>8, <2>1, LessSecond
<1>21. CASE SelectionStands
  <2>1. stage = "selection" /\ stage' = "done"
    BY <1>21 DEF SelectionStands
  <2> QED
    BY <1>7, <1>8, <2>1, LessFirst
<1>22. CASE MeasureFreshSeries
  <2>1. /\ stage = "remeasure" /\ stage' = "remeasure" /\ choices' = choices
        /\ queue' = Tail(queue) /\ queue # <<>>
    BY <1>6, <1>22 DEF MeasureFreshSeries, MeasurementInv, FreshInv
  <2> QED
    BY <1>2, <1>5, <1>7, <1>8, <2>1, LessThird
<1>23. CASE ReplaceSeries
  <2>1. stage = "remeasure" /\ stage' = "selection"
    BY <1>23 DEF ReplaceSeries
  <2>2. PICK seed \in SeedSet \ remeasured : remeasured' = remeasured \cup {seed}
    BY <1>1, <1>23, ReplaceStep
  <2>3. choices' = choices - 1
    <3> DEFINE S == SeedSet \ remeasured
    <3>1. SeedSet' \ remeasured' = S \ {seed} /\ seed \in S
      BY <1>1, <2>2
    <3>2. IsFiniteSet(S)
      BY ChoicesType DEF MeasurementInv
    <3>3. Cardinality(S \ {seed}) = Cardinality(S) - 1
      BY <3>1, <3>2, FS_RemoveElement
    <3> QED
      BY <3>1, <3>3 DEF choices
  <2> QED
    BY <1>2, <1>7, <1>8, <2>1, <2>3, LessSecond
<1>24. CASE SeriesFails
  <2>1. stage' = "done" /\ stage \in {"pass", "stress", "extend", "remeasure", "replicate"}
    BY <1>24 DEF SeriesFails, Running
  <2> QED
    BY <1>2, <1>7, <1>8, <2>1, LessFirst
<1> QED
  BY <1>9, <1>10, <1>11, <1>12, <1>13, <1>14, <1>15, <1>16, <1>17, <1>18, <1>19, <1>20,
     <1>21, <1>22, <1>23, <1>24 DEF Next

(***************************************************************************)
(* Every step leaves less to do, so the loop of confirmations and          *)
(* selections ends whatever the series read (secondLook).                  *)
(***************************************************************************)
THEOREM SecondLooksEnd == Spec => MeasurementEnds
<1>1. MeasurementInv /\ [Next]_vars => [LessRemains(Remaining', Remaining)]_vars
  BY EndStep
<1> QED
  BY <1>1, MeasurementInvariant, PTL DEF Spec, MeasurementEnds

=============================================================================
