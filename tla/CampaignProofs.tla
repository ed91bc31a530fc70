--------------------------- MODULE CampaignProofs ---------------------------
(***************************************************************************)
(* Theorems about a campaign for every set of targets, rankings and        *)
(* patches and for every value of the bounds.                              *)
(***************************************************************************)
EXTENDS CampaignProperties, WellFoundedInduction, TLAPS

(***************************************************************************)
(* The ledger's tallies, for every ledger.  The fold of talliesOf is a     *)
(* recursive function, so its defining equation has to be earned:          *)
(* Induction gives mathematical induction from well-foundedness of the     *)
(* order on Nat, and TalliesUpToDef shows that the function exists.        *)
(***************************************************************************)

Before == {pair \in Nat \X Nat : pair[1] < pair[2]}

LEMMA BeforeWellFounded == IsWellFoundedOn(Before, Nat)
<1>1. Before = OpToRel(<, Nat)
  BY DEF Before, OpToRel
<1> QED BY <1>1, NatLessThanWellFounded

(* Induction on the natural numbers, with a set for the induction          *)
(* hypothesis.                                                             *)
LEMMA Induction ==
  ASSUME NEW S, 0 \in S, \A n \in Nat : n \in S => n + 1 \in S
  PROVE  Nat \subseteq S
<1> DEFINE Missing == Nat \ S
<1>1. SUFFICES ASSUME Missing # {} PROVE FALSE
  OBVIOUS
<1>2. PICK x \in Missing : \A y \in Missing : ~(<<y, x>> \in Before)
  BY <1>1, BeforeWellFounded, WFMin
<1>3. x \in Nat /\ x \notin S /\ x # 0
  OBVIOUS
<1>4. x - 1 \in Nat /\ x - 1 < x /\ (x - 1) + 1 = x
  BY <1>3
<1>5. <<x - 1, x>> \in Before
  BY <1>3, <1>4 DEF Before
<1>6. x - 1 \in S
  BY <1>2, <1>4, <1>5
<1> QED BY <1>3, <1>4, <1>6

-----------------------------------------------------------------------------
(* One verdict more keeps tallies tallies (ledger.go, after).              *)
LEMMA AfterType ==
  ASSUME NEW t \in Tallies, NEW decision \in Decisions
  PROVE  /\ After(t, decision) \in Tallies
         /\ After(t, decision).tried = t.tried
BY DEF Tallies, After, Decisions

LEMMA CountingType ==
  ASSUME NEW t \in Tallies, NEW entry \in PriorCandidate
  PROVE  Counting(t, entry) \in Tallies
<1> DEFINE u == [t EXCEPT !.tried = IF entry.attempt > t.tried THEN entry.attempt ELSE t.tried]
<1>1. u \in Tallies
  BY DEF Tallies, PriorCandidate
<1>2. entry.decision \in Decisions
  BY DEF PriorCandidate
<1> QED BY <1>1, <1>2, AfterType DEF Counting

(* The n-th step of the fold.                                              *)
FoldStep(ledger, t, n) == IF n > Len(ledger) THEN t ELSE Counting(t, ledger[n])

LEMMA FoldStepType ==
  ASSUME NEW ledger \in Seq(PriorCandidate), NEW t \in Tallies, NEW n \in Nat \ {0}
  PROVE  FoldStep(ledger, t, n) \in Tallies
<1>1. CASE n > Len(ledger)
  BY <1>1 DEF FoldStep
<1>2. CASE ~(n > Len(ledger))
  <2>1. ledger[n] \in PriorCandidate
    BY <1>2
  <2> QED BY <1>2, <2>1, CountingType DEF FoldStep
<1> QED BY <1>1, <1>2

(* Functions that agree with the fold up to n.                             *)
FoldsUpTo(ledger, n) ==
  {h \in [Nat -> Tallies] :
      h[0] = NoTallies /\ \A i \in 1..n : h[i] = FoldStep(ledger, h[i-1], i)}

LEMMA FoldExists ==
  ASSUME NEW ledger \in Seq(PriorCandidate)
  PROVE  \A n \in Nat : FoldsUpTo(ledger, n) # {}
<1> DEFINE S == {n \in Nat : FoldsUpTo(ledger, n) # {}}
<1>1. 0 \in S
  <2>1. NoTallies \in Tallies
    BY DEF NoTallies, Tallies
  <2>2. [i \in Nat |-> NoTallies] \in FoldsUpTo(ledger, 0)
    BY <2>1 DEF FoldsUpTo
  <2> QED BY <2>2
<1>2. ASSUME NEW n \in Nat, n \in S
      PROVE  n + 1 \in S
  <2>1. PICK h \in FoldsUpTo(ledger, n) : TRUE
    BY <1>2
  <2>2. h \in [Nat -> Tallies] /\ h[0] = NoTallies
        /\ \A i \in 1..n : h[i] = FoldStep(ledger, h[i-1], i)
    BY <2>1 DEF FoldsUpTo
  <2> DEFINE next == FoldStep(ledger, h[n], n + 1)
             g == [i \in Nat |-> IF i = n + 1 THEN next ELSE h[i]]
  <2>3. next \in Tallies
    <3>1. h[n] \in Tallies /\ n + 1 \in Nat \ {0}
      BY <2>2
    <3> QED BY <3>1, FoldStepType
  <2>4. g \in [Nat -> Tallies] /\ g[0] = NoTallies
    BY <2>2, <2>3
  <2>5. ASSUME NEW i \in 1..(n + 1)
        PROVE  g[i] = FoldStep(ledger, g[i-1], i)
    <3>1. CASE i = n + 1
      BY <3>1
    <3>2. CASE i # n + 1
      <4>1. i \in 1..n /\ i - 1 \in Nat /\ i - 1 # n + 1
        BY <3>2
      <4>2. g[i] = h[i] /\ g[i-1] = h[i-1]
        BY <4>1
      <4> QED BY <2>2, <4>1, <4>2
    <3> QED BY <3>1, <3>2
  <2>6. g \in FoldsUpTo(ledger, n + 1)
    BY <2>4, <2>5 DEF FoldsUpTo
  <2> QED BY <2>6
<1>3. Nat \subseteq S
  BY <1>1, <1>2, Induction
<1> QED BY <1>3

(* Two ledgers with a common prefix fold alike on it.                      *)
LEMMA FoldUnique ==
  ASSUME NEW a \in Seq(PriorCandidate), NEW b \in Seq(PriorCandidate),
         NEW common \in Nat, common <= Len(a), common <= Len(b),
         \A i \in 1..common : a[i] = b[i],
         NEW m \in Nat, NEW k \in Nat, common <= m, common <= k,
         NEW g \in FoldsUpTo(a, m), NEW h \in FoldsUpTo(b, k)
  PROVE  \A n \in 0..common : g[n] = h[n]
<1> DEFINE S == {n \in Nat : n <= common => g[n] = h[n]}
<1>1. 0 \in S
  BY DEF FoldsUpTo
<1>2. ASSUME NEW n \in Nat, n \in S
      PROVE  n + 1 \in S
  <2>1. SUFFICES ASSUME n + 1 <= common PROVE g[n+1] = h[n+1]
    OBVIOUS
  <2>2. g[n] = h[n]
    BY <1>2, <2>1
  <2>3. n + 1 \in 1..m /\ n + 1 \in 1..k /\ n + 1 \in 1..common /\ (n + 1) - 1 = n
    BY <2>1
  <2>4. g[n+1] = FoldStep(a, g[n], n + 1) /\ h[n+1] = FoldStep(b, h[n], n + 1)
    BY <2>3 DEF FoldsUpTo
  <2>5. a[n+1] = b[n+1] /\ ~(n + 1 > Len(a)) /\ ~(n + 1 > Len(b))
    BY <2>1, <2>3
  <2> QED BY <2>2, <2>4, <2>5 DEF FoldStep
<1>3. Nat \subseteq S
  BY <1>1, <1>2, Induction
<1> QED BY <1>3

(* The recursive function of talliesOf exists and steps through the        *)
(* ledger.                                                                 *)
LEMMA TalliesUpToDef ==
  ASSUME NEW ledger \in Seq(PriorCandidate)
  PROVE  /\ TalliesUpTo(ledger) \in [Nat -> Tallies]
         /\ TalliesUpTo(ledger)[0] = NoTallies
         /\ \A n \in Nat \ {0} :
               TalliesUpTo(ledger)[n] = FoldStep(ledger, TalliesUpTo(ledger)[n-1], n)
<1> DEFINE Body(upTo) ==
             [n \in Nat |-> IF n = 0 THEN NoTallies
                            ELSE IF n > Len(ledger) THEN upTo[n-1]
                            ELSE Counting(upTo[n-1], ledger[n])]
           Fold(n) == CHOOSE h : h \in FoldsUpTo(ledger, n)
           f == [n \in Nat |-> Fold(n)[n]]
<1>1. \A n \in Nat : Fold(n) \in FoldsUpTo(ledger, n)
  BY FoldExists
<1>2. f \in [Nat -> Tallies]
  BY <1>1 DEF FoldsUpTo
<1>3. f[0] = NoTallies
  BY <1>1 DEF FoldsUpTo
<1>4. ASSUME NEW n \in Nat \ {0}
      PROVE  f[n] = FoldStep(ledger, f[n-1], n)
  <2>1. n \in Nat /\ n - 1 \in Nat /\ n \in 1..n /\ n - 1 <= n
    OBVIOUS
  <2>2. Fold(n)[n] = FoldStep(ledger, Fold(n)[n-1], n)
    BY <1>1, <2>1 DEF FoldsUpTo
  <2>3. Fold(n)[n-1] = Fold(n-1)[n-1]
    <3>1. CASE n - 1 <= Len(ledger)
      <4>1. \A i \in 0..(n-1) : Fold(n)[i] = Fold(n-1)[i]
        BY <1>1, <2>1, <3>1, FoldUnique
      <4>2. n - 1 \in 0..(n-1)
        BY <2>1
      <4> HIDE DEF Fold
      <4> QED BY <4>1, <4>2
    <3>2. CASE ~(n - 1 <= Len(ledger))
      <4> DEFINE S == {i \in Nat : i <= n - 1 => Fold(n)[i] = Fold(n-1)[i]}
      <4>1. 0 \in S
        BY <1>1, <2>1 DEF FoldsUpTo
      <4>2. ASSUME NEW i \in Nat, i \in S
            PROVE  i + 1 \in S
        <5>1. SUFFICES ASSUME i + 1 <= n - 1 PROVE Fold(n)[i+1] = Fold(n-1)[i+1]
          OBVIOUS
        <5>2. i + 1 \in 1..n /\ i + 1 \in 1..(n-1) /\ (i + 1) - 1 = i
          BY <5>1, <2>1
        <5> HIDE DEF Fold
        <5>3. Fold(n)[i+1] = FoldStep(ledger, Fold(n)[i], i + 1)
              /\ Fold(n-1)[i+1] = FoldStep(ledger, Fold(n-1)[i], i + 1)
          BY <1>1, <2>1, <5>2 DEF FoldsUpTo
        <5> QED BY <4>2, <5>1, <5>3, <2>1
      <4>3. Nat \subseteq S
        BY <4>1, <4>2, Induction
      <4>4. n - 1 \in S
        BY <4>3, <2>1
      <4> HIDE DEF Fold
      <4> QED BY <4>4, <2>1
    <3> QED BY <3>1, <3>2
  <2> HIDE DEF Fold
  <2> QED BY <2>1, <2>2, <2>3
<1> HIDE DEF f
<1>5. f = Body(f)
  <2>1. ASSUME NEW n \in Nat PROVE f[n] = Body(f)[n]
    <3>1. CASE n = 0
      BY <1>3, <3>1
    <3>2. CASE n # 0
      BY <1>4, <3>2 DEF FoldStep
    <3> QED BY <3>1, <3>2
  <2> QED BY <1>2, <2>1
<1>6. TalliesUpTo(ledger) = Body(TalliesUpTo(ledger))
  BY <1>5 DEF TalliesUpTo
<1> DEFINE T == TalliesUpTo(ledger)
<1>7. T[0] = NoTallies
  BY <1>6
<1>8. ASSUME NEW n \in Nat \ {0}
      PROVE  T[n] = FoldStep(ledger, T[n-1], n)
  BY <1>6 DEF FoldStep
<1>9. T \in [Nat -> Tallies]
  <2> DEFINE S == {n \in Nat : T[n] \in Tallies}
  <2>1. 0 \in S
    BY <1>7 DEF NoTallies, Tallies
  <2>2. ASSUME NEW n \in Nat, n \in S PROVE n + 1 \in S
    <3>1. n + 1 \in Nat \ {0} /\ (n + 1) - 1 = n
      OBVIOUS
    <3>2. T[n+1] = FoldStep(ledger, T[n], n + 1)
      BY <1>8, <3>1
    <3> QED BY <2>2, <3>1, <3>2, FoldStepType
  <2>3. Nat \subseteq S
    BY <2>1, <2>2, Induction
  <2>4. T = [n \in Nat |-> T[n]]
    BY <1>6
  <2> QED BY <2>3, <2>4
<1> QED BY <1>7, <1>8, <1>9

(* Nothing recorded, nothing counted.                                      *)
LEMMA TalliesOfEmpty == TalliesOf(<<>>) = NoTallies
<1>1. <<>> \in Seq(PriorCandidate) /\ Len(<<>>) = 0
  OBVIOUS
<1>2. TalliesUpTo(<<>>)[0] = NoTallies
  BY <1>1, TalliesUpToDef
<1> QED BY <1>1, <1>2 DEF TalliesOf

LEMMA TalliesOfType ==
  ASSUME NEW ledger \in Seq(PriorCandidate)
  PROVE  TalliesOf(ledger) \in Tallies
BY TalliesUpToDef DEF TalliesOf

(* The tallies of a ledger and one more verdict are the tallies of the     *)
(* ledger with that verdict counted: what the graph does one verdict at a  *)
(* time (counted) and what a resume does at once (talliesOf) agree.        *)
THEOREM TalliesOfAppend ==
  ASSUME NEW ledger \in Seq(PriorCandidate), NEW entry \in PriorCandidate
  PROVE  TalliesOf(Append(ledger, entry)) = Counting(TalliesOf(ledger), entry)
<1> DEFINE longer == Append(ledger, entry)
           n == Len(ledger)
           A == TalliesUpTo(ledger)
           B == TalliesUpTo(longer)
<1>1. /\ longer \in Seq(PriorCandidate) /\ Len(longer) = n + 1 /\ n \in Nat
      /\ longer[n+1] = entry
      /\ \A i \in 1..n : longer[i] = ledger[i]
  OBVIOUS
<1>2. A \in FoldsUpTo(ledger, n) /\ B \in FoldsUpTo(longer, n)
  <2>1. A \in FoldsUpTo(ledger, n)
    BY TalliesUpToDef, <1>1 DEF FoldsUpTo
  <2>2. B \in FoldsUpTo(longer, n)
    <3> HIDE DEF longer
    <3> QED BY TalliesUpToDef, <1>1 DEF FoldsUpTo
  <2> QED BY <2>1, <2>2
<1>3. A[n] = B[n]
  <2> HIDE DEF A, B, longer, n
  <2>1. \A i \in 0..n : A[i] = B[i]
    <3>1. n <= Len(ledger) BY DEF n
    <3>2. n <= Len(longer) BY <1>1
    <3> QED BY <1>1, <1>2, <3>1, <3>2, FoldUnique
  <2> QED BY <2>1, <1>1
<1>4. B[n+1] = FoldStep(longer, B[n], n + 1)
  <2> HIDE DEF longer
  <2>1. n + 1 \in Nat \ {0} /\ (n + 1) - 1 = n
    BY <1>1
  <2> QED BY <2>1, <1>1, TalliesUpToDef
<1>5. FoldStep(longer, B[n], n + 1) = Counting(B[n], entry)
  <2> HIDE DEF longer, B
  <2> QED BY <1>1 DEF FoldStep
<1>6. TalliesOf(longer) = B[n+1] /\ TalliesOf(ledger) = A[n]
  <2> HIDE DEF longer
  <2> QED BY <1>1 DEF TalliesOf
<1> QED BY <1>3, <1>4, <1>5, <1>6

(***************************************************************************)
(* Types.                                                                  *)
(***************************************************************************)

(* The ledger a resume is handed is one entry per record.                  *)
LEMMA RecordedType ==
  ASSUME NEW records \in Seq(CandidateRecord)
  PROVE  /\ RecordedCandidates(records) \in Seq(PriorCandidate)
         /\ Len(RecordedCandidates(records)) = Len(records)
<1> DEFINE entry(i) == [ attempt    |-> records[i].attempt,
                         decision   |-> records[i].decision,
                         target     |-> records[i].target,
                         unmeasured |-> records[i].unmeasured ]
<1>1. DOMAIN records = 1..Len(records) /\ Len(records) \in Nat
  OBVIOUS
<1>2. ASSUME NEW i \in 1..Len(records) PROVE entry(i) \in PriorCandidate
  <2>1. records[i] \in CandidateRecord
    BY <1>1
  <2> QED BY <2>1 DEF CandidateRecord, PriorCandidate
<1> HIDE DEF entry
<1>3. [i \in 1..Len(records) |-> entry(i)] \in Seq(PriorCandidate)
      /\ Len([i \in 1..Len(records) |-> entry(i)]) = Len(records)
  BY <1>1, <1>2
<1>4. RecordedCandidates(records) = [i \in 1..Len(records) |-> entry(i)]
  BY <1>1 DEF RecordedCandidates, entry
<1> QED BY <1>3, <1>4

(* A non-empty set of indices has a least one.                             *)
LEMMA LeastIndex ==
  ASSUME NEW S, S \subseteq Nat, S # {}
  PROVE  \E i \in S : \A j \in S : i <= j
<1>1. PICK x \in S : \A y \in S : ~(<<y, x>> \in Before)
  BY BeforeWellFounded, WFMin
<1>2. ASSUME NEW y \in S PROVE x <= y
  <2>1. x \in Nat /\ y \in Nat /\ ~(<<y, x>> \in Before)
    BY <1>1
  <2> QED BY <2>1 DEF Before
<1> QED BY <1>2

(* The target code chooses is one the analyst ranked, and not one that is  *)
(* closed.                                                                 *)
LEMMA NextTargetType ==
  ASSUME NEW ranking \in Seq(Targets), NEW ledger,
         NextTarget(ranking, ledger) # NoTarget
  PROVE  NextTarget(ranking, ledger) \in Targets \ TriedTargets(ledger)
<1> DEFINE open == Untried(ranking, ledger)
           i == CHOOSE k \in open : \A j \in open : k <= j
<1>1. open # {}
  BY DEF NextTarget
<1>2. open \subseteq Nat
  BY DEF Untried
<1>3. i \in open
  BY <1>1, <1>2, LeastIndex
<1>4. NextTarget(ranking, ledger) = ranking[i]
  BY <1>1 DEF NextTarget
<1>5. ranking[i] \in Targets /\ ranking[i] \notin TriedTargets(ledger)
  BY <1>3 DEF Untried
<1> QED BY <1>4, <1>5

(* A ranking with nothing open offers no target.                           *)
LEMMA NoTargetMeansExhausted ==
  ASSUME NEW ranking \in Seq(Targets), NEW ledger,
         NextTarget(ranking, ledger) = NoTarget
  PROVE  Untried(ranking, ledger) = {}
<1> DEFINE open == Untried(ranking, ledger)
           i == CHOOSE k \in open : \A j \in open : k <= j
<1>1. SUFFICES ASSUME open # {} PROVE FALSE
  OBVIOUS
<1>2. open \subseteq Nat
  BY DEF Untried
<1>3. i \in open
  BY <1>1, <1>2, LeastIndex
<1>4. NextTarget(ranking, ledger) = ranking[i]
  BY <1>1 DEF NextTarget
<1>5. ranking[i] \in Targets
  BY <1>3 DEF Untried
<1> QED BY <1>4, <1>5, TargetsAssumption

(* Whatever the optimizer answered, Assess returns evidence.               *)
LEMMA AssessmentsType ==
  ASSUME NEW s \in CampaignState, NEW records, NEW e \in Assessments(s, records)
  PROVE  e \in Evidence
<1>1. ASSUME NEW refusal \in BOOLEAN PROVE Unprepared(refusal) \in Evidence
  BY DEF Unprepared, Evidence, Decisions
<1>2. ASSUME NEW p \in Patches PROVE Unbuilt(p) \in Evidence /\ Untested(p) \in Evidence
  BY DEF Unbuilt, Untested, Unprepared, Evidence, Decisions
<1>3. ASSUME NEW p \in Patches, NEW d \in Decisions PROVE Measured(p, d) \in Evidence
  BY DEF Measured, Evidence
<1>4. CASE s.proposal = "none"
  <2> DEFINE asked == s.target # NoTarget /\ "optimizer" \notin s.cycleFailures
  <2>1. asked \in BOOLEAN
    OBVIOUS
  <2>2. Assessments(s, records) = {Unprepared(asked)}
    BY <1>4 DEF Assessments
  <2> HIDE DEF asked
  <2> QED BY <1>1, <2>1, <2>2
<1>5. CASE s.proposal # "none"
  <2>1. \/ \E refusal \in BOOLEAN : e = Unprepared(refusal)
        \/ \E p \in Patches : e = Unbuilt(p) \/ e = Untested(p)
        \/ \E p \in Patches, d \in Decisions : e = Measured(p, d)
    BY <1>5 DEF Assessments
  <2> QED BY <2>1, <1>1, <1>2, <1>3
<1> QED BY <1>4, <1>5

LEMMA StateTalliesType ==
  ASSUME NEW s \in CampaignState
  PROVE  StateTallies(s) \in Tallies
BY DEF StateTallies, CampaignState, Tallies

LEMMA StopReasonType ==
  ASSUME NEW t
  PROVE  StopReason(t) \in BoundReasons \cup {"none"}
BY DEF StopReason, ConsecutiveBound, BoundReasons

LEMMA NoCampaignStateType == NoCampaignState \in CampaignState
BY DEF NoCampaignState, CampaignState, NoEvidence, Evidence, Decisions, StopReasons, Proposals

LEMMA RestoredType ==
  ASSUME NEW ledger \in Seq(PriorCandidate)
  PROVE  /\ Restored(ledger) \in CampaignState
         /\ Restored(ledger).prior = ledger
         /\ StateTallies(Restored(ledger)) = TalliesOf(ledger)
<1>1. TalliesOf(ledger) \in Tallies
  BY TalliesOfType
<1>2. Restored(ledger) \in CampaignState /\ Restored(ledger).prior = ledger
  BY <1>1, NoCampaignStateType DEF Restored, CampaignState, Tallies
<1>3. /\ Restored(ledger).tried = TalliesOf(ledger).tried
      /\ Restored(ledger).failures = TalliesOf(ledger).failures
      /\ Restored(ledger).inconclusive = TalliesOf(ledger).inconclusive
  BY NoCampaignStateType DEF Restored, CampaignState
<1>4. TalliesOf(ledger) = [ tried |-> TalliesOf(ledger).tried,
                            failures |-> TalliesOf(ledger).failures,
                            inconclusive |-> TalliesOf(ledger).inconclusive ]
  BY <1>1 DEF Tallies
<1> QED BY <1>2, <1>3, <1>4 DEF StateTallies

(* Counting a verdict in the graph is counting the entry it appends.       *)
LEMMA CountedType ==
  ASSUME NEW s \in CampaignState
  PROVE  /\ Counted(s) \in CampaignState
         /\ \E entry \in PriorCandidate :
               /\ entry = [ attempt    |-> s.tried + 1,
                            decision   |-> s.evidence.decision,
                            target     |-> s.target,
                            unmeasured |-> s.evidence.unmeasured ]
               /\ Counted(s).prior = Append(s.prior, entry)
               /\ Counted(s).tried = s.tried + 1
               /\ StateTallies(Counted(s)) = Counting(StateTallies(s), entry)
<1> DEFINE entry == [ attempt    |-> s.tried + 1,
                      decision   |-> s.evidence.decision,
                      target     |-> s.target,
                      unmeasured |-> s.evidence.unmeasured ]
           t == After(StateTallies(s), s.evidence.decision)
<1>1. s.evidence.decision \in Decisions /\ entry \in PriorCandidate
  BY DEF CampaignState, Evidence, PriorCandidate
<1>2. StateTallies(s) \in Tallies /\ t \in Tallies /\ t.tried = s.tried
  BY <1>1, AfterType, StateTalliesType DEF StateTallies
<1> HIDE DEF t
<1>3. Append(s.prior, entry) \in Seq(PriorCandidate)
  BY <1>1 DEF CampaignState
<1> HIDE DEF entry
<1>4. Counted(s) = [s EXCEPT !.tried = s.tried + 1, !.failures = t.failures,
                             !.inconclusive = t.inconclusive, !.prior = Append(s.prior, entry)]
  BY DEF Counted, t, entry
<1>5. /\ Counted(s) \in CampaignState
      /\ Counted(s).prior = Append(s.prior, entry)
      /\ Counted(s).tried = s.tried + 1
      /\ Counted(s).failures = t.failures
      /\ Counted(s).inconclusive = t.inconclusive
  <2>1. s.tried + 1 \in Nat /\ t.failures \in Nat /\ t.inconclusive \in Nat
    BY <1>2 DEF CampaignState, Tallies
  <2> DEFINE a == s.tried + 1  b == t.failures  c == t.inconclusive  p == Append(s.prior, entry)
             r == Counted(s)
  <2>2. r = [s EXCEPT !.tried = a, !.failures = b, !.inconclusive = c, !.prior = p]
    BY <1>4
  <2>3. a \in Nat /\ b \in Nat /\ c \in Nat /\ p \in Seq(PriorCandidate)
    BY <2>1, <1>3
  <2> HIDE DEF a, b, c, p, r
  <2>4. r \in CampaignState /\ r.tried = a /\ r.failures = b /\ r.inconclusive = c /\ r.prior = p
    BY <2>2, <2>3 DEF CampaignState
  <2> QED BY <2>4 DEF a, b, c, p, r
<1>6. Counting(StateTallies(s), entry) = [ tried        |-> s.tried + 1,
                                           failures     |-> t.failures,
                                           inconclusive |-> t.inconclusive ]
  <2>1. s.tried \in Nat /\ StateTallies(s).tried = s.tried
    BY DEF CampaignState, StateTallies
  <2>2. entry.attempt = s.tried + 1 /\ entry.decision = s.evidence.decision
    BY DEF entry
  <2>3. [StateTallies(s) EXCEPT !.tried = s.tried + 1]
           = [tried |-> s.tried + 1, failures |-> s.failures, inconclusive |-> s.inconclusive]
    BY DEF StateTallies
  <2>4. Counting(StateTallies(s), entry)
           = After([tried |-> s.tried + 1, failures |-> s.failures,
                    inconclusive |-> s.inconclusive], s.evidence.decision)
    BY <2>1, <2>2, <2>3 DEF Counting
  <2> QED BY <2>4 DEF After, t, StateTallies
<1>7. StateTallies(Counted(s)) = Counting(StateTallies(s), entry)
  BY <1>5, <1>6 DEF StateTallies
<1> QED BY <1>1, <1>5, <1>7 DEF entry

(* A save, accepted or refused, leaves an engine state on disk.            *)
LEMMA SaveType ==
  ASSUME TypeOK, NEW m \in EngineState, Saved(m) \/ SaveEventFails(m)
  PROVE  disk' \in EngineState /\ faults' \in Nat
BY DEF TypeOK, Saved, SaveEventFails, SaveRefused, AppendRefused, Fault

LEMMA FaultType ==
  ASSUME TypeOK, Fault
  PROVE  faults' \in Nat
BY DEF TypeOK, Fault

LEMMA NewRecordType ==
  ASSUME TypeOK
  PROVE  /\ NewRecord \in CandidateRecord
         /\ [mem EXCEPT !.records = Append(@, NewRecord)] \in EngineState
<1>1. mem \in EngineState /\ mem.records \in Seq(CandidateRecord)
  BY DEF TypeOK, EngineState
<1>2. /\ state.evidence \in Evidence /\ state.target \in Targets \cup {NoTarget}
  BY DEF TypeOK, GraphTypeOK, CampaignState
<1>3. Len(mem.records) + 1 \in Nat
  BY <1>1
<1>4. NewRecord \in CandidateRecord
  BY <1>2, <1>3 DEF NewRecord, CandidateRecord, Evidence
<1>5. Append(mem.records, NewRecord) \in Seq(CandidateRecord)
  BY <1>1, <1>4
<1> QED BY <1>1, <1>4, <1>5 DEF EngineState

(* The tallies a settlement persists.                                      *)
LEMMA TallyType ==
  ASSUME TypeOK,
         mem' = [mem EXCEPT !.failures = After(StateTallies(state), state.evidence.decision).failures,
                            !.inconclusive = After(StateTallies(state), state.evidence.decision).inconclusive]
  PROVE  mem' \in EngineState
<1> DEFINE t == After(StateTallies(state), state.evidence.decision)
<1>1. state \in CampaignState /\ state.evidence.decision \in Decisions
  BY DEF TypeOK, GraphTypeOK, CampaignState, Evidence
<1>2. t \in Tallies
  BY <1>1, StateTalliesType, AfterType
<1> HIDE DEF t
<1>3. mem' = [mem EXCEPT !.failures = t.failures, !.inconclusive = t.inconclusive]
  BY DEF t
<1> QED BY <1>2, <1>3 DEF TypeOK, EngineState, Tallies

(* A role that fails is one more entry in CycleFailures.                   *)
LEMMA DegradedType ==
  ASSUME NEW s \in CampaignState, NEW role \in Roles
  PROVE  Degraded(s, role) \in CampaignState
BY DEF Degraded, CampaignState

LEMMA TypeInit == Init => TypeOK
<1>1. NewCampaign \in EngineState
  BY DEF NewCampaign, EngineState, Statuses, StopReasons
<1> QED BY <1>1, NoCampaignStateType
        DEF Init, GraphInit, TypeOK, GraphTypeOK, Nodes, Phases, Causes

(* One action per node of the graph.                                       *)
LEMMA InitializeType ==
  ASSUME TypeOK, Initialize(RecordedCandidates(mem.records))
  PROVE  GraphTypeOK'
<1> DEFINE s == Restored(RecordedCandidates(mem.records))
           reason == StopReason(StateTallies(s))
<1>1. s \in CampaignState
  BY RecordedType, RestoredType DEF TypeOK, EngineState
<1>2. reason \in StopReasons
  BY StopReasonType DEF StopReasons
<1>3. state' = [s EXCEPT !.stop = reason]
  BY DEF Initialize, EndedAtStart
<1> HIDE DEF s, reason
<1>4. state' \in CampaignState
  BY <1>1, <1>2, <1>3 DEF CampaignState
<1>5. node' \in {"discover", "finalize"} /\ asks' = 0
  BY DEF Initialize
<1> QED BY <1>4, <1>5 DEF GraphTypeOK, Nodes

LEMMA AnalystType ==
  ASSUME TypeOK, Analyst
  PROVE  GraphTypeOK'
<1>1. state \in CampaignState /\ asks \in Nat
  BY DEF TypeOK, GraphTypeOK
<1>2. Degraded(state, "analyst") \in CampaignState
  BY <1>1, DegradedType DEF Roles
<1>3. state' \in CampaignState
  <2>1. CASE \E ranking \in Rankings : state' = [state EXCEPT !.ranking = ranking]
    BY <1>1, <2>1 DEF CampaignState
  <2>2. CASE state' = [Degraded(state, "analyst") EXCEPT !.ranking = <<>>]
    BY <1>2, <2>2 DEF CampaignState
  <2> QED BY <2>1, <2>2 DEF Analyst
<1> QED BY <1>1, <1>3 DEF Analyst, GraphTypeOK, Nodes

LEMMA MergeAnalysisType ==
  ASSUME TypeOK, MergeAnalysis
  PROVE  GraphTypeOK'
<1> DEFINE target == NextTarget(state.ranking, state.prior)
           s == [state EXCEPT !.target = target, !.reasked = FALSE]
           end == EndedAfterAnalysis(s)
<1>1. state \in CampaignState /\ state.ranking \in Seq(Targets)
  <2>1. state \in CampaignState /\ state.ranking \in Rankings \cup {<<>>}
    BY DEF TypeOK, GraphTypeOK, CampaignState
  <2>2. <<>> \in Seq(Targets)
    OBVIOUS
  <2> QED BY <2>1, <2>2, GraphAssumption
<1>2. target \in Targets \cup {NoTarget}
  BY <1>1, NextTargetType
<1> HIDE DEF target
<1>3. s \in CampaignState
  BY <1>1, <1>2 DEF CampaignState
<1> HIDE DEF s
<1>4. end.reason \in StopReasons /\ end.failure \in {"none", "analyst", "optimizer"}
  BY DEF EndedAfterAnalysis, Continue, StopReasons
<1> HIDE DEF end
<1>5. state' = s \/ state' = [s EXCEPT !.stop = end.reason, !.failure = end.failure]
  BY DEF MergeAnalysis, s, end, target
<1>6. state' \in CampaignState
  BY <1>3, <1>4, <1>5 DEF CampaignState
<1>7. node' \in {"optimizer", "skip"} /\ asks' = 0
  BY DEF MergeAnalysis
<1> QED BY <1>6, <1>7 DEF GraphTypeOK, Nodes

LEMMA OptimizerType ==
  ASSUME TypeOK, Optimizer
  PROVE  GraphTypeOK'
<1>1. state \in CampaignState /\ asks \in Nat
  BY DEF TypeOK, GraphTypeOK
<1>2. Degraded(state, "optimizer") \in CampaignState
  BY <1>1, DegradedType DEF Roles
<1>3. state' \in CampaignState
  <2>1. CASE \E proposal \in Proposals : state' = [state EXCEPT !.proposal = proposal]
    BY <1>1, <2>1 DEF CampaignState
  <2>2. CASE state' = [Degraded(state, "optimizer") EXCEPT !.proposal = "none"]
    BY <1>2, <2>2 DEF CampaignState, Proposals
  <2> QED BY <2>1, <2>2 DEF Optimizer
<1> QED BY <1>1, <1>3 DEF Optimizer, GraphTypeOK, Nodes

LEMMA EvaluateType ==
  ASSUME TypeOK, NEW evidence \in Assessments(state, mem.records), Evaluate(evidence)
  PROVE  GraphTypeOK'
<1> DEFINE again == Reaskable(state, evidence)
<1>1. state \in CampaignState /\ asks \in Nat
  BY DEF TypeOK, GraphTypeOK
<1>2. evidence \in Evidence
  BY <1>1, AssessmentsType
<1>3. again \in BOOLEAN
  BY DEF Reaskable
<1>4. state' = [state EXCEPT !.evidence = evidence, !.reasked = again]
  BY DEF Evaluate
<1> HIDE DEF again
<1>5. state' \in CampaignState
  BY <1>1, <1>2, <1>3, <1>4 DEF CampaignState
<1>6. node' \in {"optimizer", "reviewer"} /\ asks' = asks
  BY DEF Evaluate
<1> QED BY <1>1, <1>5, <1>6 DEF GraphTypeOK, Nodes

LEMMA ReviewerType ==
  ASSUME TypeOK, Reviewer
  PROVE  GraphTypeOK'
<1>1. state \in CampaignState /\ asks \in Nat
  BY DEF TypeOK, GraphTypeOK
<1>2. Degraded(state, "reviewer") \in CampaignState
  BY <1>1, DegradedType DEF Roles
<1> QED BY <1>1, <1>2 DEF Reviewer, GraphTypeOK, Nodes

LEMMA RouteType ==
  ASSUME TypeOK, Route
  PROVE  GraphTypeOK'
<1> DEFINE outage == IF ProviderFailure(state) THEN state.outage + 1 ELSE 0
           s == [state EXCEPT !.outage = outage]
           end == EndedAfterCycle(s)
<1>1. state \in CampaignState /\ asks \in Nat
  BY DEF TypeOK, GraphTypeOK
<1>2. outage \in Nat
  BY <1>1 DEF CampaignState
<1>3. /\ state' = state
         \/ state' = [s EXCEPT !.stop = end.reason, !.failure = end.failure]
         \/ state' = [s EXCEPT !.cycleFailures = {}]
      /\ node' \in {"analyst", "finalize"}
      /\ asks' = asks
  BY DEF Route
<1> HIDE DEF outage
<1>4. s \in CampaignState
  BY <1>1, <1>2 DEF CampaignState
<1> HIDE DEF s
<1>5. end.reason \in StopReasons /\ end.failure \in {"none", "analyst", "optimizer"}
  BY StopReasonType DEF EndedAfterCycle, StopReasons
<1> HIDE DEF end
<1>6. state' \in CampaignState
  BY <1>1, <1>3, <1>4, <1>5 DEF CampaignState
<1> QED BY <1>1, <1>3, <1>6 DEF GraphTypeOK, Nodes

LEMMA GraphStepType ==
  ASSUME TypeOK, GraphStep
  PROVE  TypeOK'
<1>1. GraphTypeOK'
  <2>1. CASE Initialize(RecordedCandidates(mem.records))
    BY <2>1, InitializeType
  <2>2. CASE Discover \/ SkipCandidate
    BY <2>2 DEF Discover, SkipCandidate, TypeOK, GraphTypeOK, Nodes
  <2>3. CASE Analyst
    BY <2>3, AnalystType
  <2>4. CASE MergeAnalysis
    BY <2>4, MergeAnalysisType
  <2>5. CASE Optimizer
    BY <2>5, OptimizerType
  <2>6. CASE \E evidence \in Assessments(state, mem.records) : Evaluate(evidence)
    BY <2>6, EvaluateType
  <2>7. CASE Reviewer
    BY <2>7, ReviewerType
  <2>8. CASE Route
    BY <2>8, RouteType
  <2> QED BY <2>1, <2>2, <2>3, <2>4, <2>5, <2>6, <2>7, <2>8 DEF GraphStep
<1>2. UNCHANGED engineVars
  BY DEF GraphStep, InGraph
<1> QED BY <1>1, <1>2 DEF TypeOK, engineVars

(* The process is gone.                                                    *)
LEMMA ProcessEndsType ==
  ASSUME TypeOK, ProcessEnds, disk' \in EngineState, faults' \in Nat, mem' = disk'
  PROVE  TypeOK'
BY NoCampaignStateType DEF TypeOK, GraphTypeOK, ProcessEnds, Nodes, Phases, Causes

LEMMA StoppedType ==
  ASSUME TypeOK
  PROVE  Stopped \in EngineState
BY DEF TypeOK, Stopped, EngineState, Statuses, StopReasons

LEMMA TypeNext == TypeOK /\ [Next]_vars => TypeOK'
<1> SUFFICES ASSUME TypeOK, [Next]_vars PROVE TypeOK'
  OBVIOUS
<1>1. CASE Start
  <2>1. [disk EXCEPT !.status = "running"] \in EngineState
    BY DEF TypeOK, EngineState, Statuses
  <2>2. disk' \in EngineState /\ faults' \in Nat
    BY <1>1, <2>1, SaveType DEF Start
  <2> QED BY <1>1, <2>2 DEF Start, TypeOK, GraphTypeOK, graphVars, Phases
<1>2. CASE EnterGraph
  BY <1>2 DEF EnterGraph, TypeOK, GraphTypeOK, Nodes, Phases
<1>3. CASE GraphStep
  BY <1>3, GraphStepType
<1>4. CASE BeginSettle
  BY <1>4 DEF BeginSettle, ApplyPolicy, TypeOK, GraphTypeOK, Nodes, Phases
<1>5. CASE Promote
  <2>1. state.evidence.patch \in Patches \cup {NoPatch}
    BY DEF TypeOK, GraphTypeOK, CampaignState, Evidence
  <2> QED BY <1>5, <2>1 DEF Promote, TypeOK, GraphTypeOK, graphVars, Fault, Phases
<1>6. CASE Record
  <2>1. mem' \in EngineState
    BY <1>6, NewRecordType DEF Record
  <2>2. disk' \in EngineState /\ faults' \in Nat
    BY <1>6, <2>1, SaveType DEF Record
  <2> QED BY <1>6, <2>1, <2>2 DEF Record, TypeOK, GraphTypeOK, graphVars, Phases
<1>7. CASE Mark
  <2>1. disk' \in EngineState /\ faults' \in Nat
    BY <1>7, SaveType DEF Mark, TypeOK
  <2> QED BY <1>7, <2>1 DEF Mark, TypeOK, GraphTypeOK, graphVars, Phases
<1>8. CASE Tally
  <2>1. mem' \in EngineState
    BY <1>8, TallyType DEF Tally
  <2>2. disk' \in EngineState /\ faults' \in Nat
    BY <1>8, <2>1, SaveType DEF Tally
  <2>3. GraphTypeOK' /\ phase' \in Phases
    <3>1. CASE UNCHANGED graphVars /\ phase' = "failing"
      BY <3>1 DEF TypeOK, GraphTypeOK, graphVars, Phases
    <3>2. CASE Settled /\ phase' = "graph"
      BY <3>2, CountedType DEF TypeOK, GraphTypeOK, Settled, Phases, Nodes
    <3> QED BY <1>8, <3>1, <3>2 DEF Tally
  <2> QED BY <1>8, <2>1, <2>2, <2>3 DEF Tally, TypeOK
<1>9. CASE GraphResult
  BY <1>9 DEF GraphResult, Finalize, TypeOK, GraphTypeOK, Nodes, Phases
<1>10. CASE FinishFailed
  <2>1. mem' \in EngineState
    BY <1>10 DEF FinishFailed, TypeOK, GraphTypeOK, EngineState, CampaignState
  <2> QED BY <1>10, <2>1 DEF FinishFailed, TypeOK, GraphTypeOK, graphVars, Phases
<1>11. CASE Complete
  <2>1. mem' \in EngineState
    BY <1>11 DEF Complete, TypeOK, GraphTypeOK, EngineState, CampaignState, Statuses
  <2>2. disk' \in EngineState /\ faults' \in Nat
    BY <1>11, <2>1, SaveType DEF Complete
  <2> QED BY <1>11, <2>1, <2>2 DEF Complete, TypeOK, GraphTypeOK, graphVars, Phases
<1>12. CASE WriteReports
  <2>1. CASE ProcessEnds /\ UNCHANGED faults
    BY <1>12, <2>1, ProcessEndsType DEF WriteReports, ProcessEnds, TypeOK
  <2>2. CASE Fault /\ phase' = "failing" /\ UNCHANGED <<graphVars, mem, accepted, cause, processes>>
    BY <1>12, <2>2, FaultType DEF WriteReports, TypeOK, GraphTypeOK, graphVars, Phases
  <2> QED BY <1>12, <2>1, <2>2 DEF WriteReports
<1>13. CASE CaptureRunFailure
  <2>1. disk' \in EngineState /\ faults' \in Nat
    BY <1>13, StoppedType, SaveType DEF CaptureRunFailure
  <2> QED BY <1>13, <2>1, ProcessEndsType DEF CaptureRunFailure, ProcessEnds
<1>14. CASE RunError
  BY <1>14 DEF RunError, TypeOK, GraphTypeOK, graphVars, Phases
<1>15. CASE ContextDone
  BY <1>15 DEF ContextDone, TypeOK, GraphTypeOK, graphVars, Causes
<1>16. CASE Crash
  BY <1>16, ProcessEndsType DEF Crash, ProcessEnds, TypeOK
<1>17. CASE UNCHANGED vars
  BY <1>17 DEF vars, engineVars, graphVars, TypeOK, GraphTypeOK
<1> QED BY <1>1, <1>2, <1>3, <1>4, <1>5, <1>6, <1>7, <1>8, <1>9, <1>10, <1>11, <1>12,
           <1>13, <1>14, <1>15, <1>16, <1>17 DEF Next, ProcessStep, Settle

(* Every variable of the campaign keeps its type: in particular the ledger *)
(* a resumed process folds is always a ledger (TypeOK).                    *)
THEOREM TypeCorrect == Spec => []TypeOK
BY TypeInit, TypeNext, PTL DEF Spec

(***************************************************************************)
(* Every accepted verdict has its artifact.                                *)
(***************************************************************************)

HasArtifacts(records) ==
    \A i \in DOMAIN records :
        records[i].decision = "accepted" => records[i].patch \in accepted

(* settle copies the patch before anything refers to it, so what the       *)
(* process holds in memory, and the verdict it is about to record, have    *)
(* their artifacts too.                                                    *)
ArtifactsInv ==
    /\ HasArtifacts(disk.records)
    /\ HasArtifacts(mem.records)
    /\ phase = "record" /\ state.evidence.decision = "accepted" =>
          state.evidence.patch \in accepted

LEMMA ArtifactsInit == Init => ArtifactsInv
BY DEF Init, ArtifactsInv, HasArtifacts, NewCampaign

(* One record more, with its artifact.                                     *)
LEMMA ArtifactsAppend ==
  ASSUME NEW records \in Seq(CandidateRecord), HasArtifacts(records),
         NEW record \in CandidateRecord,
         record.decision = "accepted" => record.patch \in accepted
  PROVE  HasArtifacts(Append(records, record))
BY DEF HasArtifacts

LEMMA ArtifactsNext ==
  ASSUME TypeOK, ArtifactsInv, [Next]_vars
  PROVE  ArtifactsInv'
<1>1. CASE Start
  <2>1. disk'.records = disk.records
    BY <1>1 DEF Start, Saved, SaveEventFails, SaveRefused, AppendRefused, TypeOK, EngineState
  <2> QED BY <1>1, <2>1 DEF Start, ArtifactsInv, HasArtifacts
<1>2. CASE EnterGraph
  BY <1>2 DEF EnterGraph, ArtifactsInv, HasArtifacts
<1>3. CASE GraphStep
  BY <1>3 DEF GraphStep, InGraph, engineVars, ArtifactsInv, HasArtifacts
<1>4. CASE BeginSettle
  BY <1>4 DEF BeginSettle, ApplyPolicy, ArtifactsInv, HasArtifacts
<1>5. CASE Promote
  BY <1>5 DEF Promote, graphVars, ArtifactsInv, HasArtifacts
<1>6. CASE Record
  <2>1. mem'.records = Append(mem.records, NewRecord) /\ mem.records \in Seq(CandidateRecord)
    BY <1>6 DEF Record, TypeOK, EngineState
  <2>2. /\ NewRecord \in CandidateRecord
        /\ NewRecord.decision = "accepted" => NewRecord.patch \in accepted
    BY <1>6, NewRecordType DEF Record, ArtifactsInv, NewRecord
  <2>3. HasArtifacts(mem'.records)
    BY <2>1, <2>2, ArtifactsAppend DEF ArtifactsInv
  <2>4. disk' = disk \/ disk' = mem'
    BY <1>6 DEF Record, Saved, SaveEventFails, SaveRefused, AppendRefused
  <2>5. accepted' = accepted /\ phase' # "record"
    BY <1>6 DEF Record
  <2> QED BY <2>3, <2>4, <2>5 DEF ArtifactsInv, HasArtifacts
<1>7. CASE Mark
  <2>1. (disk' = disk \/ disk' = mem) /\ mem' = mem /\ accepted' = accepted /\ phase' # "record"
    BY <1>7 DEF Mark, Saved, SaveEventFails, SaveRefused, AppendRefused
  <2> QED BY <2>1 DEF ArtifactsInv, HasArtifacts
<1>8. CASE Tally
  <2>1. mem'.records = mem.records
    BY <1>8 DEF Tally, TypeOK, EngineState
  <2>2. (disk' = disk \/ disk' = mem') /\ accepted' = accepted /\ phase' # "record"
    BY <1>8 DEF Tally, Saved, SaveEventFails, SaveRefused, AppendRefused
  <2> QED BY <2>1, <2>2 DEF ArtifactsInv, HasArtifacts
<1>9. CASE GraphResult
  BY <1>9 DEF GraphResult, ArtifactsInv, HasArtifacts
<1>10. CASE FinishFailed
  <2>1. mem'.records = mem.records
    BY <1>10 DEF FinishFailed, TypeOK, EngineState
  <2> QED BY <1>10, <2>1 DEF FinishFailed, ArtifactsInv, HasArtifacts
<1>11. CASE Complete
  <2>1. mem'.records = mem.records
    BY <1>11 DEF Complete, TypeOK, EngineState
  <2>2. (disk' = disk \/ disk' = mem') /\ accepted' = accepted /\ phase' # "record"
    BY <1>11 DEF Complete, Saved, SaveEventFails, SaveRefused, AppendRefused
  <2> QED BY <2>1, <2>2 DEF ArtifactsInv, HasArtifacts
<1>12. CASE WriteReports
  BY <1>12 DEF WriteReports, ProcessEnds, ArtifactsInv, HasArtifacts
<1>13. CASE CaptureRunFailure
  <2>1. Stopped.records = mem.records
    BY DEF Stopped, TypeOK, EngineState
  <2>2. disk' = disk \/ disk' = Stopped
    BY <1>13 DEF CaptureRunFailure, Saved, SaveEventFails, SaveRefused, AppendRefused
  <2>3. mem' = disk' /\ accepted' = accepted /\ phase' # "record"
    BY <1>13 DEF CaptureRunFailure, ProcessEnds
  <2> QED BY <2>1, <2>2, <2>3 DEF ArtifactsInv, HasArtifacts
<1>14. CASE RunError
  BY <1>14 DEF RunError, ArtifactsInv, HasArtifacts
<1>15. CASE ContextDone
  BY <1>15 DEF ContextDone, graphVars, ArtifactsInv, HasArtifacts
<1>16. CASE Crash
  BY <1>16 DEF Crash, ProcessEnds, ArtifactsInv, HasArtifacts
<1>17. CASE UNCHANGED vars
  BY <1>17 DEF vars, engineVars, graphVars, ArtifactsInv, HasArtifacts
<1> QED BY <1>1, <1>2, <1>3, <1>4, <1>5, <1>6, <1>7, <1>8, <1>9, <1>10, <1>11, <1>12,
           <1>13, <1>14, <1>15, <1>16, <1>17 DEF Next, ProcessStep, Settle

(* settle's order holds through every crash and every refused save: no     *)
(* accepted verdict is ever on disk without its patch in accepted/         *)
(* (AcceptedRecordHasArtifact).                                            *)
THEOREM PromotedBeforeRecorded == Spec => []AcceptedRecordHasArtifact
<1>1. ArtifactsInv => AcceptedRecordHasArtifact
  BY DEF ArtifactsInv, HasArtifacts, AcceptedRecordHasArtifact
<1>2. TypeOK /\ ArtifactsInv /\ [Next]_vars => ArtifactsInv'
  BY ArtifactsNext
<1> QED BY <1>1, <1>2, ArtifactsInit, TypeCorrect, PTL DEF Spec

(***************************************************************************)
(* The graph and the records agree.                                        *)
(***************************************************************************)

(* Where the graph can be while the engine is in each phase.               *)
PhaseInv ==
    /\ phase = "graph" => node \notin {"idle", "settling", "finished"}
    /\ phase \in {"promote", "record", "mark", "tally"} => node = "settling"

(* Before a verdict is recorded, the graph's state is what the records     *)
(* say; from then until it is counted, the records are one verdict ahead.  *)
Agrees ==
    /\ state.prior = Recorded(mem)
    /\ StateTallies(state) = TalliesOf(Recorded(mem))
    /\ state.tried = Len(mem.records)

OneVerdictAhead ==
    /\ Recorded(mem) = Append(state.prior, [ attempt    |-> state.tried + 1,
                                             decision   |-> state.evidence.decision,
                                             target     |-> state.target,
                                             unmeasured |-> state.evidence.unmeasured ])
    /\ StateTallies(state) = TalliesOf(state.prior)
    /\ Len(mem.records) = state.tried + 1

(* The highest attempt recorded is the number of records.                  *)
CountsAttempts(records) == TalliesOf(RecordedCandidates(records)).tried = Len(records)

AgreementInv ==
    /\ PhaseInv
    /\ CountsAttempts(mem.records)
    /\ CountsAttempts(disk.records)
    /\ phase = "graph" /\ node # "initialize" => Agrees
    /\ phase \in {"promote", "record"} => Agrees
    /\ phase \in {"mark", "tally"} => OneVerdictAhead

(* One record more is one ledger entry more.                               *)
LEMMA RecordedAppend ==
  ASSUME NEW records \in Seq(CandidateRecord), NEW r \in CandidateRecord
  PROVE  /\ [ attempt |-> r.attempt, decision |-> r.decision, target |-> r.target,
              unmeasured |-> r.unmeasured ] \in PriorCandidate
         /\ RecordedCandidates(Append(records, r))
               = Append(RecordedCandidates(records),
                        [ attempt |-> r.attempt, decision |-> r.decision,
                          target |-> r.target, unmeasured |-> r.unmeasured ])
<1> DEFINE entry == [ attempt |-> r.attempt, decision |-> r.decision,
                      target |-> r.target, unmeasured |-> r.unmeasured ]
           longer == Append(records, r)
           n == Len(records)
           L == RecordedCandidates(longer)
           R == Append(RecordedCandidates(records), entry)
<1>1. entry \in PriorCandidate
  BY DEF CandidateRecord, PriorCandidate
<1>2. /\ longer \in Seq(CandidateRecord) /\ Len(longer) = n + 1 /\ n \in Nat
      /\ longer[n+1] = r
      /\ \A i \in 1..n : longer[i] = records[i]
      /\ DOMAIN records = 1..n /\ DOMAIN longer = 1..(n+1)
  OBVIOUS
<1>3. /\ RecordedCandidates(records) \in Seq(PriorCandidate)
      /\ Len(RecordedCandidates(records)) = n
  BY RecordedType
<1>4. L \in Seq(PriorCandidate) /\ Len(L) = n + 1
  BY RecordedType, <1>2
<1>5. R \in Seq(PriorCandidate) /\ Len(R) = n + 1 /\ R[n+1] = entry
      /\ \A i \in 1..n : R[i] = RecordedCandidates(records)[i]
  <2> HIDE DEF entry, n
  <2> QED BY <1>1, <1>3
<1>6. L[n+1] = entry
  BY <1>2 DEF RecordedCandidates
<1>7. \A i \in 1..n : L[i] = RecordedCandidates(records)[i]
  <2> HIDE DEF longer, n
  <2> QED BY <1>2 DEF RecordedCandidates
<1>8. L = R
  <2> HIDE DEF L, R, entry, n
  <2>1. \A i \in 1..(n+1) : L[i] = R[i]
    <3>1. \A i \in 1..(n+1) : i \in 1..n \/ i = n + 1
      BY <1>2
    <3> QED BY <3>1, <1>5, <1>6, <1>7
  <2>2. DOMAIN L = 1..(n+1) /\ DOMAIN R = 1..(n+1)
    BY <1>4, <1>5
  <2> QED BY <1>4, <1>5, <2>1, <2>2
<1> QED BY <1>1, <1>8

(* The next attempt number keeps the highest attempt the count.            *)
LEMMA CountsAttemptsAppend ==
  ASSUME NEW records \in Seq(CandidateRecord), NEW r \in CandidateRecord,
         CountsAttempts(records), r.attempt = Len(records) + 1
  PROVE  CountsAttempts(Append(records, r))
<1> DEFINE entry == [ attempt |-> r.attempt, decision |-> r.decision,
                      target |-> r.target, unmeasured |-> r.unmeasured ]
           ledger == RecordedCandidates(records)
<1>1. /\ entry \in PriorCandidate
      /\ RecordedCandidates(Append(records, r)) = Append(ledger, entry)
  BY RecordedAppend
<1>2. ledger \in Seq(PriorCandidate)
  BY RecordedType
<1>3. entry.attempt = Len(records) + 1 /\ entry.decision \in Decisions
  BY <1>1 DEF PriorCandidate
<1> HIDE DEF entry, ledger
<1>4. TalliesOf(Append(ledger, entry)) = Counting(TalliesOf(ledger), entry)
  BY <1>1, <1>2, TalliesOfAppend
<1>5. TalliesOf(ledger).tried = Len(records) /\ TalliesOf(ledger) \in Tallies
  BY <1>2, TalliesOfType DEF CountsAttempts, ledger
<1> DEFINE t == TalliesOf(ledger)
           u == [t EXCEPT !.tried = IF entry.attempt > t.tried THEN entry.attempt ELSE t.tried]
<1>6. u \in Tallies /\ u.tried = Len(records) + 1
  BY <1>3, <1>5 DEF Tallies
<1>7. Counting(t, entry).tried = Len(records) + 1
  <2> HIDE DEF u
  <2>1. After(u, entry.decision).tried = u.tried
    BY <1>3, <1>6, AfterType
  <2> QED BY <1>6, <2>1 DEF Counting, u
<1> QED BY <1>1, <1>4, <1>7 DEF CountsAttempts

LEMMA AgreementInit == Init => AgreementInv
<1> SUFFICES ASSUME Init PROVE AgreementInv
  OBVIOUS
<1>1. RecordedCandidates(<<>>) = <<>>
  BY DEF RecordedCandidates
<1>2. CountsAttempts(<<>>)
  BY <1>1, TalliesOfEmpty DEF CountsAttempts, NoTallies
<1> QED BY <1>2 DEF Init, GraphInit, NewCampaign, AgreementInv, PhaseInv

LEMMA AgreementNext ==
  ASSUME TypeOK, AgreementInv, [Next]_vars
  PROVE  AgreementInv'
<1>1. CASE Start
  <2>1. disk'.records = disk.records
    BY <1>1 DEF Start, Saved, SaveEventFails, SaveRefused, AppendRefused, TypeOK, EngineState
  <2>2. mem' = disk' /\ phase' \in {"baseline", "down"}
    BY <1>1 DEF Start
  <2> QED BY <2>1, <2>2 DEF AgreementInv, PhaseInv, CountsAttempts
<1>2. CASE EnterGraph
  BY <1>2 DEF EnterGraph, AgreementInv, PhaseInv, CountsAttempts
<1>3. CASE GraphStep
  <2>1. UNCHANGED engineVars /\ phase = "graph"
    BY <1>3 DEF GraphStep, InGraph
  <2>2. PhaseInv'
    <3>1. node' \notin {"idle", "settling", "finished"}
      BY <1>3 DEF GraphStep, Initialize, Discover, Analyst, MergeAnalysis, SkipCandidate,
                  Optimizer, Evaluate, Reviewer, Route
    <3> QED BY <2>1, <3>1 DEF PhaseInv, engineVars
  <2>3. Agrees'
    <3>1. CASE Initialize(RecordedCandidates(mem.records))
      <4> DEFINE ledger == RecordedCandidates(mem.records)
                 s == Restored(ledger)
      <4>1. s \in CampaignState /\ s.prior = ledger /\ StateTallies(s) = TalliesOf(ledger)
        BY RecordedType, RestoredType DEF TypeOK, EngineState
      <4>2. \E reason : state' = [s EXCEPT !.stop = reason]
        BY <3>1 DEF Initialize
      <4> HIDE DEF s
      <4>3. /\ state'.prior = s.prior /\ state'.tried = s.tried
            /\ state'.failures = s.failures /\ state'.inconclusive = s.inconclusive
        BY <4>1, <4>2 DEF CampaignState
      <4>4. StateTallies(state') = StateTallies(s)
        BY <4>3 DEF StateTallies
      <4>5. state'.tried = Len(mem.records)
        <5>1. TalliesOf(ledger).tried = Len(mem.records)
          BY DEF AgreementInv, CountsAttempts
        <5>2. StateTallies(s).tried = s.tried
          BY DEF StateTallies
        <5> QED BY <5>1, <5>2, <4>1, <4>3
      <4> QED BY <2>1, <4>1, <4>3, <4>4, <4>5 DEF Agrees, Recorded, engineVars, StateTallies
    <3>2. CASE ~Initialize(RecordedCandidates(mem.records))
      <4>1. Agrees
        <5>1. node # "initialize"
          BY <1>3, <3>2 DEF GraphStep, Discover, Analyst, MergeAnalysis, SkipCandidate,
                            Optimizer, Evaluate, Reviewer, Route
        <5> QED BY <5>1, <2>1 DEF AgreementInv
      <4>2. /\ state'.prior = state.prior /\ state'.tried = state.tried
            /\ state'.failures = state.failures /\ state'.inconclusive = state.inconclusive
        <5>1. state \in CampaignState
          BY DEF TypeOK, GraphTypeOK
        <5>2. CASE Discover \/ SkipCandidate
          BY <5>2 DEF Discover, SkipCandidate
        <5>3. CASE Analyst
          BY <5>1, <5>3 DEF Analyst, Degraded, CampaignState
        <5>4. CASE MergeAnalysis
          <6> DEFINE target == NextTarget(state.ranking, state.prior)
                     s == [state EXCEPT !.target = target, !.reasked = FALSE]
          <6>1. state' = s \/ \E r, f : state' = [s EXCEPT !.stop = r, !.failure = f]
            BY <5>4 DEF MergeAnalysis
          <6> HIDE DEF target
          <6> QED BY <5>1, <6>1 DEF CampaignState
        <5>5. CASE Optimizer
          BY <5>1, <5>5 DEF Optimizer, Degraded, CampaignState
        <5>6. CASE \E e \in Assessments(state, mem.records) : Evaluate(e)
          <6>1. \E e, b : state' = [state EXCEPT !.evidence = e, !.reasked = b]
            BY <5>6 DEF Evaluate
          <6> QED BY <5>1, <6>1 DEF CampaignState
        <5>7. CASE Reviewer
          BY <5>1, <5>7 DEF Reviewer, Degraded, CampaignState
        <5>8. CASE Route
          <6> DEFINE outage == IF ProviderFailure(state) THEN state.outage + 1 ELSE 0
                     s == [state EXCEPT !.outage = outage]
          <6>1. \/ state' = state
                \/ \E r, f : state' = [s EXCEPT !.stop = r, !.failure = f]
                \/ state' = [s EXCEPT !.cycleFailures = {}]
            BY <5>8 DEF Route
          <6> HIDE DEF outage
          <6> QED BY <5>1, <6>1 DEF CampaignState
        <5> QED BY <1>3, <3>2, <5>2, <5>3, <5>4, <5>5, <5>6, <5>7, <5>8 DEF GraphStep
      <4> QED BY <2>1, <4>1, <4>2 DEF Agrees, Recorded, engineVars, StateTallies
    <3> QED BY <3>1, <3>2
  <2> QED BY <2>1, <2>2, <2>3 DEF AgreementInv, engineVars, CountsAttempts
<1>4. CASE BeginSettle
  <2>1. Agrees
    BY <1>4 DEF BeginSettle, ApplyPolicy, AgreementInv
  <2>2. /\ UNCHANGED <<state, mem, disk>> /\ phase' \in {"promote", "record"}
        /\ node' = "settling"
    BY <1>4 DEF BeginSettle, ApplyPolicy
  <2> QED BY <2>1, <2>2 DEF AgreementInv, PhaseInv, Agrees, Recorded, CountsAttempts
<1>5. CASE Promote
  <2>1. Agrees /\ node = "settling"
    BY <1>5 DEF Promote, AgreementInv, PhaseInv
  <2>2. UNCHANGED <<state, node, mem, disk>> /\ phase' \in {"record", "failing"}
    BY <1>5 DEF Promote, graphVars
  <2> QED BY <2>1, <2>2 DEF AgreementInv, PhaseInv, Agrees, Recorded, CountsAttempts
<1>6. CASE Record
  <2>1. Agrees /\ node = "settling"
    BY <1>6 DEF Record, AgreementInv, PhaseInv
  <2>2. mem'.records = Append(mem.records, NewRecord) /\ mem.records \in Seq(CandidateRecord)
    BY <1>6 DEF Record, TypeOK, EngineState
  <2>3. /\ NewRecord \in CandidateRecord
        /\ NewRecord.attempt = Len(mem.records) + 1
        /\ NewRecord.decision = state.evidence.decision
        /\ NewRecord.target = state.target
        /\ NewRecord.unmeasured = state.evidence.unmeasured
    BY NewRecordType DEF NewRecord
  <2>4. CountsAttempts(mem'.records)
    BY <2>2, <2>3, CountsAttemptsAppend DEF AgreementInv
  <2>5. disk' = disk \/ disk' = mem'
    BY <1>6 DEF Record, Saved, SaveEventFails, SaveRefused, AppendRefused
  <2>6. UNCHANGED <<state, node>> /\ phase' \in {"mark", "tally"}
    BY <1>6 DEF Record, graphVars
  <2>7. RecordedCandidates(mem'.records)
          = Append(RecordedCandidates(mem.records),
                   [ attempt    |-> Len(mem.records) + 1,
                     decision   |-> state.evidence.decision,
                     target     |-> state.target,
                     unmeasured |-> state.evidence.unmeasured ])
    BY <2>2, <2>3, RecordedAppend
  <2>8. Len(mem'.records) = Len(mem.records) + 1
    BY <2>2, <2>3
  <2>9. OneVerdictAhead'
    BY <2>1, <2>6, <2>7, <2>8 DEF Agrees, OneVerdictAhead, Recorded
  <2> QED BY <2>1, <2>4, <2>5, <2>6, <2>9 DEF AgreementInv, PhaseInv, CountsAttempts
<1>7. CASE Mark
  <2>1. OneVerdictAhead /\ node = "settling"
    BY <1>7 DEF Mark, AgreementInv, PhaseInv
  <2>2. (disk' = disk \/ disk' = mem) /\ UNCHANGED <<mem, state, node>>
        /\ phase' \in {"tally", "failing"}
    BY <1>7 DEF Mark, graphVars, Saved, SaveEventFails, SaveRefused, AppendRefused
  <2> QED BY <2>1, <2>2 DEF AgreementInv, PhaseInv, OneVerdictAhead, Recorded, CountsAttempts
<1>8. CASE Tally
  <2>1. OneVerdictAhead /\ node = "settling"
    BY <1>8 DEF Tally, AgreementInv, PhaseInv
  <2>2. mem'.records = mem.records
    BY <1>8 DEF Tally, TypeOK, EngineState
  <2>3. disk' = disk \/ disk' = mem'
    BY <1>8 DEF Tally, Saved, SaveEventFails, SaveRefused, AppendRefused
  <2>4. CASE phase' = "failing"
    BY <2>2, <2>3, <2>4 DEF AgreementInv, PhaseInv, CountsAttempts
  <2>5. CASE phase' = "graph" /\ Settled
    <3>1. state' = Counted(state) /\ node' = "route"
      BY <2>5 DEF Settled
    <3> DEFINE entry == [ attempt    |-> state.tried + 1,
                          decision   |-> state.evidence.decision,
                          target     |-> state.target,
                          unmeasured |-> state.evidence.unmeasured ]
    <3>2. /\ entry \in PriorCandidate
          /\ state'.prior = Append(state.prior, entry)
          /\ state'.tried = state.tried + 1
          /\ StateTallies(state') = Counting(StateTallies(state), entry)
      BY <3>1, CountedType DEF TypeOK, GraphTypeOK
    <3>3. state.prior \in Seq(PriorCandidate)
      BY DEF TypeOK, GraphTypeOK, CampaignState
    <3>4. /\ Recorded(mem) = Append(state.prior, entry)
          /\ StateTallies(state) = TalliesOf(state.prior)
          /\ Len(mem.records) = state.tried + 1
      BY <2>1 DEF OneVerdictAhead
    <3> HIDE DEF entry
    <3>5. TalliesOf(Recorded(mem)) = StateTallies(state')
      BY <3>2, <3>3, <3>4, TalliesOfAppend
    <3>6. Agrees'
      BY <2>2, <3>2, <3>4, <3>5 DEF Agrees, Recorded, StateTallies
    <3> QED BY <2>2, <2>3, <2>5, <3>1, <3>6 DEF AgreementInv, PhaseInv, CountsAttempts
  <2> QED BY <1>8, <2>4, <2>5 DEF Tally
<1>9. CASE GraphResult
  BY <1>9 DEF GraphResult, AgreementInv, PhaseInv, CountsAttempts
<1>10. CASE FinishFailed
  <2>1. mem'.records = mem.records
    BY <1>10 DEF FinishFailed, TypeOK, EngineState
  <2> QED BY <1>10, <2>1 DEF FinishFailed, AgreementInv, PhaseInv, CountsAttempts
<1>11. CASE Complete
  <2>1. mem'.records = mem.records
    BY <1>11 DEF Complete, TypeOK, EngineState
  <2>2. (disk' = disk \/ disk' = mem') /\ phase' \in {"report", "failing"}
    BY <1>11 DEF Complete, Saved, SaveEventFails, SaveRefused, AppendRefused
  <2> QED BY <2>1, <2>2 DEF AgreementInv, PhaseInv, CountsAttempts
<1>12. CASE WriteReports
  BY <1>12 DEF WriteReports, ProcessEnds, AgreementInv, PhaseInv, CountsAttempts
<1>13. CASE CaptureRunFailure
  <2>1. Stopped.records = mem.records
    BY DEF Stopped, TypeOK, EngineState
  <2>2. disk' = disk \/ disk' = Stopped
    BY <1>13 DEF CaptureRunFailure, Saved, SaveEventFails, SaveRefused, AppendRefused
  <2>3. mem' = disk' /\ phase' = "down"
    BY <1>13 DEF CaptureRunFailure, ProcessEnds
  <2> QED BY <2>1, <2>2, <2>3 DEF AgreementInv, PhaseInv, CountsAttempts
<1>14. CASE RunError
  BY <1>14 DEF RunError, AgreementInv, PhaseInv, CountsAttempts
<1>15. CASE ContextDone
  BY <1>15 DEF ContextDone, graphVars, AgreementInv, PhaseInv, CountsAttempts,
               Agrees, OneVerdictAhead, Recorded
<1>16. CASE Crash
  BY <1>16 DEF Crash, ProcessEnds, AgreementInv, PhaseInv, CountsAttempts
<1>17. CASE UNCHANGED vars
  BY <1>17 DEF vars, engineVars, graphVars, AgreementInv, PhaseInv, CountsAttempts,
               Agrees, OneVerdictAhead, Recorded
<1> QED BY <1>1, <1>2, <1>3, <1>4, <1>5, <1>6, <1>7, <1>8, <1>9, <1>10, <1>11, <1>12,
           <1>13, <1>14, <1>15, <1>16, <1>17 DEF Next, ProcessStep, Settle

LEMMA AgreementInvariant == Spec => []AgreementInv
<1>1. TypeOK /\ AgreementInv /\ [Next]_vars => AgreementInv'
  BY AgreementNext
<1> QED BY <1>1, AgreementInit, TypeCorrect, PTL DEF Spec

(* In every process the counters the bounds read are those of the recorded *)
(* verdicts, whether they were counted one at a time or derived at once by *)
(* a resume, and no attempt number repeats (GraphAgreesWithRecords).       *)
THEOREM CountersAreTheRecords == Spec => []GraphAgreesWithRecords
<1>1. AgreementInv => GraphAgreesWithRecords
  BY DEF AgreementInv, Agrees, GraphAgreesWithRecords
<1> QED BY <1>1, AgreementInvariant, PTL

(***************************************************************************)
(* Where records and tallies come from.                                    *)
(***************************************************************************)

(* The part of an engine state that verdicts make.                         *)
Ledgered(m) == <<m.records, m.failures, m.inconclusive>>

(* What the process and the database hold is only moved between them.      *)
OnlyMoved ==
    /\ Ledgered(mem') \in {Ledgered(mem), Ledgered(disk)}
    /\ Ledgered(disk') \in {Ledgered(mem), Ledgered(disk)}

(* The process stays, leaves the graph, or is gone.                        *)
LeavesGraph ==
    \/ UNCHANGED <<node, state, asks>> /\ (phase' \in {"down", "baseline"} => phase = "down")
    \/ node' = "idle" /\ state' = NoCampaignState /\ asks' = 0
    \/ node' = "finished" /\ UNCHANGED <<state, asks>> /\ node = "finalize"
       /\ phase' \notin {"down", "baseline"}

(* Every step is one of the seven that work on a verdict, a step out of    *)
(* the graph that only moves what is already there, or none of these.      *)
LEMMA StepShape ==
  ASSUME TypeOK, [Next]_vars
  PROVE  \/ EnterGraph \/ GraphStep \/ BeginSettle \/ Promote \/ Record \/ Mark \/ Tally
         \/ /\ phase' \notin {"graph", "promote", "record", "mark", "tally"}
            /\ OnlyMoved
            /\ LeavesGraph
         \/ UNCHANGED <<node, state, asks, mem, disk, phase>>
<1>1. CASE Start
  <2>1. Ledgered(disk') = Ledgered(disk) /\ mem' = disk'
    BY <1>1 DEF Start, Saved, SaveEventFails, SaveRefused, AppendRefused, TypeOK, EngineState,
                Ledgered
  <2> QED BY <1>1, <2>1 DEF Start, graphVars, OnlyMoved, LeavesGraph
<1>2. CASE GraphResult
  BY <1>2 DEF GraphResult, Finalize, OnlyMoved, LeavesGraph
<1>3. CASE FinishFailed
  <2>1. Ledgered(mem') = Ledgered(mem)
    BY <1>3 DEF FinishFailed, TypeOK, EngineState, Ledgered
  <2> QED BY <1>3, <2>1 DEF FinishFailed, graphVars, OnlyMoved, LeavesGraph
<1>4. CASE Complete
  <2>1. Ledgered(mem') = Ledgered(mem)
    BY <1>4 DEF Complete, TypeOK, EngineState, Ledgered
  <2>2. disk' = disk \/ disk' = mem'
    BY <1>4 DEF Complete, Saved, SaveEventFails, SaveRefused, AppendRefused
  <2>3. phase' \in {"report", "failing"} /\ UNCHANGED <<node, state, asks>>
    BY <1>4 DEF Complete, graphVars
  <2> QED BY <2>1, <2>2, <2>3 DEF OnlyMoved, LeavesGraph
<1>5. CASE WriteReports
  BY <1>5 DEF WriteReports, ProcessEnds, graphVars, OnlyMoved, LeavesGraph
<1>6. CASE CaptureRunFailure
  <2>1. Ledgered(Stopped) = Ledgered(mem)
    BY DEF Stopped, TypeOK, EngineState, Ledgered
  <2>2. disk' = disk \/ disk' = Stopped
    BY <1>6 DEF CaptureRunFailure, Saved, SaveEventFails, SaveRefused, AppendRefused
  <2> QED BY <1>6, <2>1, <2>2 DEF CaptureRunFailure, ProcessEnds, OnlyMoved, LeavesGraph
<1>7. CASE RunError
  BY <1>7 DEF RunError, graphVars, OnlyMoved, LeavesGraph
<1>8. CASE Crash
  BY <1>8 DEF Crash, ProcessEnds, OnlyMoved, LeavesGraph
<1>9. CASE ContextDone \/ UNCHANGED vars
  BY <1>9 DEF ContextDone, vars, engineVars, graphVars
<1> QED BY <1>1, <1>2, <1>3, <1>4, <1>5, <1>6, <1>7, <1>8, <1>9 DEF Next, ProcessStep, Settle

(* What joins the records in memory, and what a save then leaves on disk.  *)
LEMMA RecordShape ==
  ASSUME TypeOK, Record
  PROVE  /\ phase = "record" /\ phase' \in {"mark", "tally"}
         /\ UNCHANGED <<node, state, asks>>
         /\ mem.records \in Seq(CandidateRecord) /\ NewRecord \in CandidateRecord
         /\ mem'.records = Append(mem.records, NewRecord)
         /\ mem'.failures = mem.failures /\ mem'.inconclusive = mem.inconclusive
         /\ disk' \in {disk, mem'}
<1>1. mem \in EngineState
  BY DEF TypeOK
<1>2. NewRecord \in CandidateRecord
  BY NewRecordType
<1> QED BY <1>1, <1>2 DEF Record, EngineState, graphVars, Saved, SaveEventFails, SaveRefused,
                          AppendRefused

LEMMA TallyShape ==
  ASSUME TypeOK, Tally
  PROVE  /\ phase = "tally" /\ phase' \in {"graph", "failing"}
         /\ mem'.records = mem.records
         /\ mem'.failures = After(StateTallies(state), state.evidence.decision).failures
         /\ mem'.inconclusive = After(StateTallies(state), state.evidence.decision).inconclusive
         /\ disk' \in {disk, mem'}
         /\ \/ phase' = "graph" /\ Settled
            \/ phase' = "failing" /\ UNCHANGED <<node, state, asks>>
BY DEF Tally, TypeOK, EngineState, graphVars, Saved, SaveEventFails, SaveRefused, AppendRefused

(* The settling steps that leave the records alone.                        *)
LEMMA SettleShape ==
  ASSUME BeginSettle \/ Promote \/ Mark
  PROVE  /\ UNCHANGED <<state, asks>> /\ mem' = mem /\ disk' \in {disk, mem}
         /\ node' \in {node, "settling"}
         /\ \/ BeginSettle /\ phase = "graph" /\ node = "decide" /\ node' = "settling"
               /\ phase' \in {"promote", "record"}
            \/ Promote /\ phase = "promote" /\ phase' \in {"record", "failing"} /\ node' = node
            \/ Mark /\ phase = "mark" /\ phase' \in {"tally", "failing"} /\ node' = node
<1>1. CASE BeginSettle
  BY <1>1 DEF BeginSettle, ApplyPolicy
<1>2. CASE Promote
  BY <1>2 DEF Promote, graphVars
<1>3. CASE Mark
  BY <1>3 DEF Mark, graphVars, Saved, SaveEventFails, SaveRefused, AppendRefused
<1> QED BY <1>1, <1>2, <1>3

(***************************************************************************)
(* One re-ask per cycle.                                                   *)
(***************************************************************************)

(* asks counts the optimizer's calls in a cycle; reasked is what the code  *)
(* remembers of it.                                                        *)
ReaskInv ==
    /\ asks <= 2
    /\ node = "optimizer" => asks = IF state.reasked THEN 1 ELSE 0
    /\ node = "evaluate"  => asks = IF state.reasked THEN 2 ELSE 1

LEMMA ReaskGraphStep ==
  ASSUME TypeOK, ReaskInv, GraphStep
  PROVE  ReaskInv'
<1>1. state \in CampaignState /\ asks \in Nat
  BY DEF TypeOK, GraphTypeOK
<1>2. CASE Initialize(RecordedCandidates(mem.records))
  BY <1>2 DEF Initialize, ReaskInv
<1>3. CASE Discover \/ SkipCandidate
  BY <1>3 DEF Discover, SkipCandidate, ReaskInv
<1>4. CASE Analyst
  BY <1>4 DEF Analyst, ReaskInv
<1>5. CASE MergeAnalysis
  <2> DEFINE target == NextTarget(state.ranking, state.prior)
             s == [state EXCEPT !.target = target, !.reasked = FALSE]
  <2>1. state' = s \/ \E r, f : state' = [s EXCEPT !.stop = r, !.failure = f]
    BY <1>5 DEF MergeAnalysis
  <2> HIDE DEF target
  <2>2. state'.reasked = FALSE
    BY <1>1, <2>1 DEF CampaignState
  <2>3. asks' = 0 /\ node' \in {"optimizer", "skip"}
    BY <1>5 DEF MergeAnalysis
  <2> QED BY <2>2, <2>3 DEF ReaskInv
<1>6. CASE Optimizer
  <2>1. state'.reasked = state.reasked
    BY <1>1, <1>6 DEF Optimizer, Degraded, CampaignState
  <2>2. node = "optimizer" /\ node' = "evaluate" /\ asks' = asks + 1
    BY <1>6 DEF Optimizer
  <2> QED BY <1>1, <2>1, <2>2 DEF ReaskInv, CampaignState
<1>7. CASE \E e \in Assessments(state, mem.records) : Evaluate(e)
  <2>1. PICK e : Evaluate(e)
    BY <1>7
  <2> DEFINE again == Reaskable(state, e)
  <2>2. /\ node = "evaluate" /\ asks' = asks
        /\ state' = [state EXCEPT !.evidence = e, !.reasked = again]
        /\ node' = IF again THEN "optimizer" ELSE "reviewer"
    BY <2>1 DEF Evaluate
  <2>3. again \in BOOLEAN /\ (again => ~state.reasked)
    BY DEF Reaskable
  <2> HIDE DEF again
  <2>4. state'.reasked = again
    BY <1>1, <2>2 DEF CampaignState
  <2> QED BY <1>1, <2>2, <2>3, <2>4 DEF ReaskInv, CampaignState
<1>8. CASE Reviewer
  BY <1>8 DEF Reviewer, ReaskInv
<1>9. CASE Route
  <2>1. node' \in {"analyst", "finalize"} /\ asks' = asks
    BY <1>9 DEF Route
  <2> QED BY <2>1 DEF ReaskInv
<1> QED BY <1>2, <1>3, <1>4, <1>5, <1>6, <1>7, <1>8, <1>9 DEF GraphStep

LEMMA ReaskNext ==
  ASSUME TypeOK, ReaskInv, [Next]_vars
  PROVE  ReaskInv'
<1>1. CASE EnterGraph
  BY <1>1 DEF EnterGraph, ReaskInv
<1>2. CASE GraphStep
  BY <1>2, ReaskGraphStep
<1>3. CASE BeginSettle \/ Promote \/ Mark
  BY <1>3, SettleShape DEF ReaskInv
<1>4. CASE Record
  BY <1>4, RecordShape DEF ReaskInv
<1>5. CASE Tally
  <2>1. \/ node' = "route" /\ asks' = asks
        \/ UNCHANGED <<node, state, asks>>
    BY <1>5, TallyShape DEF Settled
  <2> QED BY <2>1 DEF ReaskInv
<1>6. CASE LeavesGraph
  BY <1>6 DEF LeavesGraph, ReaskInv
<1>7. CASE UNCHANGED <<node, state, asks, mem, disk, phase>>
  BY <1>7 DEF ReaskInv
<1> QED BY <1>1, <1>2, <1>3, <1>4, <1>5, <1>6, <1>7, StepShape

(* Whatever the analyst and the optimizer answer, a cycle asks the         *)
(* optimizer at most twice, the second time only after a refusal, and the  *)
(* next cycle starts with both asks unspent (OneReaskPerCycle).            *)
THEOREM ReaskedOnce == Spec => []OneReaskPerCycle
<1>1. Init => ReaskInv
  BY DEF Init, GraphInit, ReaskInv
<1>2. TypeOK /\ ReaskInv /\ [Next]_vars => ReaskInv'
  BY ReaskNext
<1>3. ReaskInv /\ TypeOK => OneReaskPerCycle
  BY DEF ReaskInv, OneReaskPerCycle, TypeOK, GraphTypeOK, CampaignState
<1> QED BY <1>1, <1>2, <1>3, TypeCorrect, PTL DEF Spec

(***************************************************************************)
(* No patch is measured twice.                                             *)
(***************************************************************************)

(* The verdict in hand is of a patch the records in memory have not        *)
(* measured, until it becomes one of them.                                 *)
MeasuresApart(records) ==
    \A i, j \in DOMAIN records :
        i # j /\ IsMeasured(records[i]) /\ IsMeasured(records[j])
            => records[i].patch # records[j].patch

JudgesFresh(evidence, records) ==
    IsMeasured(evidence) => evidence.patch \notin KnownPatches(records)

ApartInv ==
    /\ MeasuresApart(mem.records)
    /\ MeasuresApart(disk.records)
    /\ phase = "graph" /\ node \in {"reviewer", "decide"} =>
          JudgesFresh(state.evidence, mem.records)
    /\ phase \in {"promote", "record"} => JudgesFresh(state.evidence, mem.records)

(* One record more, whose patch no measured record has.                    *)
LEMMA MeasuresApartAppend ==
  ASSUME NEW records \in Seq(CandidateRecord), NEW r \in CandidateRecord,
         MeasuresApart(records), JudgesFresh(r, records)
  PROVE  MeasuresApart(Append(records, r))
<1> DEFINE longer == Append(records, r)
           n == Len(records)
<1>1. /\ n \in Nat /\ DOMAIN records = 1..n /\ DOMAIN longer = 1..(n + 1)
      /\ longer[n + 1] = r /\ \A i \in 1..n : longer[i] = records[i]
  OBVIOUS
<1>2. \A i \in 1..n : IsMeasured(records[i]) /\ IsMeasured(r) => records[i].patch # r.patch
  BY <1>1 DEF JudgesFresh, KnownPatches
<1> HIDE DEF longer, n
<1> SUFFICES ASSUME NEW i \in 1..(n + 1), NEW j \in 1..(n + 1), i # j,
                    IsMeasured(longer[i]), IsMeasured(longer[j])
             PROVE  longer[i].patch # longer[j].patch
  BY <1>1 DEF MeasuresApart, longer
<1>3. CASE i \in 1..n /\ j \in 1..n
  BY <1>1, <1>3 DEF MeasuresApart
<1>4. CASE i = n + 1 /\ j \in 1..n
  BY <1>1, <1>2, <1>4
<1>5. CASE j = n + 1 /\ i \in 1..n
  BY <1>1, <1>2, <1>5
<1> QED BY <1>1, <1>3, <1>4, <1>5

(* What Assess returns is unmeasured, or of a patch no record measured.    *)
LEMMA AssessmentsAreFresh ==
  ASSUME NEW s, NEW records, NEW e \in Assessments(s, records)
  PROVE  JudgesFresh(e, records)
<1>1. \/ \E refusal : e = Unprepared(refusal)
      \/ \E p : e = Unbuilt(p) \/ e = Untested(p)
      \/ \E p \in Patches \ KnownPatches(records), d \in Decisions : e = Measured(p, d)
  BY DEF Assessments
<1>2. ASSUME NEW refusal, e = Unprepared(refusal) PROVE ~IsMeasured(e)
  BY <1>2 DEF Unprepared, IsMeasured
<1>3. ASSUME NEW p, e = Unbuilt(p) \/ e = Untested(p) PROVE ~IsMeasured(e)
  BY <1>3 DEF Untested, Unbuilt, Unprepared, IsMeasured
<1>4. ASSUME NEW p \in Patches \ KnownPatches(records), NEW d, e = Measured(p, d)
      PROVE  e.patch \notin KnownPatches(records)
  BY <1>4 DEF Measured
<1> QED BY <1>1, <1>2, <1>3, <1>4 DEF JudgesFresh

LEMMA ApartGraphStep ==
  ASSUME TypeOK, ApartInv, GraphStep
  PROVE  ApartInv'
<1>1. UNCHANGED <<mem, disk, phase>> /\ phase = "graph" /\ state \in CampaignState
  BY DEF GraphStep, InGraph, engineVars, TypeOK, GraphTypeOK
<1>2. node' \in {"reviewer", "decide"} => JudgesFresh(state'.evidence, mem.records)
  <2>1. CASE \E e \in Assessments(state, mem.records) : Evaluate(e)
    <3>1. PICK e \in Assessments(state, mem.records) : Evaluate(e)
      BY <2>1
    <3>2. PICK b : state' = [state EXCEPT !.evidence = e, !.reasked = b]
      BY <3>1 DEF Evaluate
    <3>3. state'.evidence = e
      BY <1>1, <3>2 DEF CampaignState
    <3> QED BY <3>1, <3>3, AssessmentsAreFresh
  <2>2. CASE Reviewer
    <3>1. state'.evidence = state.evidence /\ node = "reviewer"
      BY <1>1, <2>2 DEF Reviewer, Degraded, CampaignState
    <3> QED BY <1>1, <3>1 DEF ApartInv
  <2>3. CASE ~Reviewer /\ ~\E e \in Assessments(state, mem.records) : Evaluate(e)
    BY <2>3 DEF GraphStep, Initialize, Discover, Analyst, MergeAnalysis, SkipCandidate,
                Optimizer, Route
  <2> QED BY <2>1, <2>2, <2>3
<1> QED BY <1>1, <1>2 DEF ApartInv

LEMMA ApartNext ==
  ASSUME TypeOK, ApartInv, [Next]_vars
  PROVE  ApartInv'
<1>1. CASE EnterGraph
  BY <1>1 DEF EnterGraph, ApartInv
<1>2. CASE GraphStep
  BY <1>2, ApartGraphStep
<1>3. CASE BeginSettle \/ Promote \/ Mark
  <2>1. phase' \in {"promote", "record"} => JudgesFresh(state.evidence, mem.records)
    BY <1>3, SettleShape DEF ApartInv
  <2>2. /\ UNCHANGED <<state, mem>> /\ disk' \in {disk, mem}
        /\ phase' \in {"promote", "record", "tally", "failing"}
    BY <1>3, SettleShape
  <2> QED BY <2>1, <2>2 DEF ApartInv
<1>4. CASE Record
  <2>1. /\ mem.records \in Seq(CandidateRecord) /\ NewRecord \in CandidateRecord
        /\ mem'.records = Append(mem.records, NewRecord)
        /\ disk' \in {disk, mem'} /\ phase = "record" /\ phase' \in {"mark", "tally"}
    BY <1>4, RecordShape
  <2>2. JudgesFresh(NewRecord, mem.records)
    BY <2>1 DEF ApartInv, JudgesFresh, IsMeasured, NewRecord
  <2>3. MeasuresApart(mem'.records)
    BY <2>1, <2>2, MeasuresApartAppend DEF ApartInv
  <2> QED BY <2>1, <2>3 DEF ApartInv
<1>5. CASE Tally
  <2>1. mem'.records = mem.records /\ disk' \in {disk, mem'}
    BY <1>5, TallyShape
  <2>2. phase' = "failing" \/ (phase' = "graph" /\ node' = "route")
    BY <1>5, TallyShape DEF Settled
  <2> QED BY <2>1, <2>2 DEF ApartInv
<1>6. CASE OnlyMoved /\ phase' \notin {"graph", "promote", "record", "mark", "tally"}
  <2>1. /\ mem'.records \in {mem.records, disk.records}
        /\ disk'.records \in {mem.records, disk.records}
    BY <1>6 DEF OnlyMoved, Ledgered
  <2> QED BY <1>6, <2>1 DEF ApartInv
<1>7. CASE UNCHANGED <<node, state, asks, mem, disk, phase>>
  BY <1>7 DEF ApartInv
<1> QED BY <1>1, <1>2, <1>3, <1>4, <1>5, <1>6, <1>7, StepShape

(* Through crashes, resumes and refused saves, two verdicts that were      *)
(* reached by a measurement never share a patch: what a process remembers  *)
(* as measured is what its records say, and a verdict is recorded before   *)
(* the next candidate is judged (PatchMeasuredOnce).                       *)
THEOREM MeasuredOnce == Spec => []PatchMeasuredOnce
<1>1. Init => ApartInv
  BY DEF Init, GraphInit, NewCampaign, ApartInv, MeasuresApart
<1>2. TypeOK /\ ApartInv /\ [Next]_vars => ApartInv'
  BY ApartNext
<1>3. ApartInv => PatchMeasuredOnce
  BY DEF ApartInv, MeasuresApart, PatchMeasuredOnce
<1> QED BY <1>1, <1>2, <1>3, TypeCorrect, PTL DEF Spec

(***************************************************************************)
(* The persisted tallies are those of a prefix.                            *)
(***************************************************************************)

(* A verdict more leaves every prefix of the earlier ones as it was.       *)
LEMMA PrefixOfAppend ==
  ASSUME NEW S, NEW ledger \in Seq(S), NEW entry \in S, NEW n \in 0..Len(ledger)
  PROVE  SubSeq(Append(ledger, entry), 1, n) = SubSeq(ledger, 1, n)
OBVIOUS

LEMMA WholePrefix ==
  ASSUME NEW S, NEW ledger \in Seq(S)
  PROVE  SubSeq(ledger, 1, Len(ledger)) = ledger
OBVIOUS

(* TalliesCountRecordedPrefix, for the three fields of a state it reads.   *)
CountsPrefix(records, failures, inconclusive) ==
    \E n \in 0..Len(records) :
        LET t == TalliesOf(SubSeq(RecordedCandidates(records), 1, n))
        IN  failures = t.failures /\ inconclusive = t.inconclusive

LEMMA CountsPrefixAppend ==
  ASSUME NEW records \in Seq(CandidateRecord), NEW r \in CandidateRecord,
         NEW f, NEW c, CountsPrefix(records, f, c)
  PROVE  CountsPrefix(Append(records, r), f, c)
<1> DEFINE ledger == RecordedCandidates(records)
           longer == RecordedCandidates(Append(records, r))
<1>1. PICK n \in 0..Len(records) : /\ f = TalliesOf(SubSeq(ledger, 1, n)).failures
                                   /\ c = TalliesOf(SubSeq(ledger, 1, n)).inconclusive
  BY DEF CountsPrefix
<1>2. /\ ledger \in Seq(PriorCandidate) /\ Len(ledger) = Len(records)
      /\ \E entry \in PriorCandidate : longer = Append(ledger, entry)
  BY RecordedType, RecordedAppend
<1>3. n \in 0..Len(Append(records, r))
  OBVIOUS
<1> HIDE DEF ledger, longer
<1>4. SubSeq(longer, 1, n) = SubSeq(ledger, 1, n)
  BY <1>2, PrefixOfAppend
<1> QED BY <1>1, <1>3, <1>4 DEF CountsPrefix, longer

(* The tallies of all the records are those of the longest prefix.         *)
LEMMA CountsWholePrefix ==
  ASSUME NEW records \in Seq(CandidateRecord)
  PROVE  CountsPrefix(records, TalliesOf(RecordedCandidates(records)).failures,
                               TalliesOf(RecordedCandidates(records)).inconclusive)
<1> DEFINE ledger == RecordedCandidates(records)
<1>1. ledger \in Seq(PriorCandidate) /\ Len(ledger) = Len(records) /\ Len(records) \in Nat
  BY RecordedType
<1> HIDE DEF ledger
<1>2. SubSeq(ledger, 1, Len(records)) = ledger
  BY <1>1, WholePrefix
<1>3. Len(records) \in 0..Len(records)
  BY <1>1
<1> QED BY <1>2, <1>3 DEF CountsPrefix, ledger

(* What Tally persists are the tallies of every verdict recorded.          *)
LEMMA TallyCountsAll ==
  ASSUME TypeOK, OneVerdictAhead
  PROVE  /\ After(StateTallies(state), state.evidence.decision).failures
               = TalliesOf(Recorded(mem)).failures
         /\ After(StateTallies(state), state.evidence.decision).inconclusive
               = TalliesOf(Recorded(mem)).inconclusive
<1> DEFINE entry == [ attempt    |-> state.tried + 1,
                      decision   |-> state.evidence.decision,
                      target     |-> state.target,
                      unmeasured |-> state.evidence.unmeasured ]
           t == StateTallies(state)
<1>1. state \in CampaignState /\ state.prior \in Seq(PriorCandidate)
  BY DEF TypeOK, GraphTypeOK, CampaignState
<1>2. entry \in PriorCandidate
  BY <1>1 DEF CampaignState, Evidence, PriorCandidate
<1>3. Recorded(mem) = Append(state.prior, entry) /\ t = TalliesOf(state.prior)
  BY DEF OneVerdictAhead
<1>4. entry.decision = state.evidence.decision
  OBVIOUS
<1>5. t \in Tallies
  BY <1>1, StateTalliesType
<1> HIDE DEF entry, t
<1>6. TalliesOf(Recorded(mem)) = Counting(t, entry)
  BY <1>1, <1>2, <1>3, TalliesOfAppend
<1> DEFINE u == [t EXCEPT !.tried = IF entry.attempt > t.tried THEN entry.attempt ELSE t.tried]
<1>7. u.failures = t.failures /\ u.inconclusive = t.inconclusive
  BY <1>5 DEF Tallies
<1>8. Counting(t, entry) = After(u, entry.decision)
  BY DEF Counting
<1> HIDE DEF u
<1>9. /\ After(u, entry.decision).failures = After(t, entry.decision).failures
      /\ After(u, entry.decision).inconclusive = After(t, entry.decision).inconclusive
  BY <1>7 DEF After
<1> QED BY <1>4, <1>6, <1>8, <1>9 DEF t

Counts(m) == CountsPrefix(m.records, m.failures, m.inconclusive)

CountsInv == Counts(mem) /\ Counts(disk)

LEMMA CountsNext ==
  ASSUME TypeOK, AgreementInv, CountsInv, [Next]_vars
  PROVE  CountsInv'
<1>1. CASE EnterGraph
  BY <1>1 DEF EnterGraph, CountsInv, Counts
<1>2. CASE GraphStep
  BY <1>2 DEF GraphStep, InGraph, engineVars, CountsInv, Counts
<1>3. CASE BeginSettle \/ Promote \/ Mark
  BY <1>3, SettleShape DEF CountsInv, Counts
<1>4. CASE Record
  <2>1. Counts(mem')
    BY <1>4, RecordShape, CountsPrefixAppend DEF CountsInv, Counts
  <2>2. disk' \in {disk, mem'}
    BY <1>4, RecordShape
  <2> QED BY <2>1, <2>2 DEF CountsInv, Counts
<1>5. CASE Tally
  <2>1. OneVerdictAhead
    BY <1>5 DEF Tally, AgreementInv
  <2>2. mem.records \in Seq(CandidateRecord)
    BY DEF TypeOK, EngineState
  <2>3. /\ mem'.records = mem.records
        /\ mem'.failures = TalliesOf(Recorded(mem)).failures
        /\ mem'.inconclusive = TalliesOf(Recorded(mem)).inconclusive
        /\ disk' \in {disk, mem'}
    BY <1>5, <2>1, TallyShape, TallyCountsAll
  <2>4. Counts(mem')
    BY <2>2, <2>3, CountsWholePrefix DEF Counts, Recorded
  <2> QED BY <2>3, <2>4 DEF CountsInv, Counts
<1>6. CASE OnlyMoved
  BY <1>6 DEF OnlyMoved, Ledgered, CountsInv, Counts
<1>7. CASE UNCHANGED <<node, state, asks, mem, disk, phase>>
  BY <1>7 DEF CountsInv, Counts
<1> QED BY <1>1, <1>2, <1>3, <1>4, <1>5, <1>6, <1>7, StepShape

(* The tallies a reader finds in the database may lag the verdicts it      *)
(* finds there, by what a crash or a refused save kept back, and never     *)
(* count one that is not there (TalliesCountRecordedPrefix).               *)
THEOREM TalliesNeverAhead == Spec => []TalliesCountRecordedPrefix
<1>1. Init => CountsInv
  <2>1. SUFFICES ASSUME Init PROVE Counts(NewCampaign)
    BY DEF Init, CountsInv
  <2>2. RecordedCandidates(<<>>) = <<>> /\ <<>> \in Seq(CandidateRecord)
    BY DEF RecordedCandidates
  <2>3. TalliesOf(RecordedCandidates(<<>>)) = NoTallies
    BY <2>2, TalliesOfEmpty
  <2>4. CountsPrefix(<<>>, NoTallies.failures, NoTallies.inconclusive)
    <3>1. CountsPrefix(<<>>, TalliesOf(RecordedCandidates(<<>>)).failures,
                             TalliesOf(RecordedCandidates(<<>>)).inconclusive)
      BY <2>2, CountsWholePrefix
    <3> QED BY <2>3, <3>1
  <2> QED BY <2>4 DEF Counts, NewCampaign, NoTallies
<1>2. TypeOK /\ AgreementInv /\ CountsInv /\ [Next]_vars => CountsInv'
  BY CountsNext
<1>3. CountsInv => TalliesCountRecordedPrefix
  BY DEF CountsInv, Counts, CountsPrefix, TalliesCountRecordedPrefix, Recorded
<1> QED BY <1>1, <1>2, <1>3, TypeCorrect, AgreementInvariant, PTL DEF Spec

(***************************************************************************)
(* An outage is two failed cycles.                                         *)
(***************************************************************************)

IsFailedCycle(r) == r.unmeasured /\ r.patch = NoPatch

EndsInFailures(records, k) ==
    /\ k <= Len(records)
    /\ \A i \in (Len(records) - k + 1)..Len(records) : IsFailedCycle(records[i])

(* The last no records are all failed cycles.                              *)
LEMMA NoFailuresNeeded ==
  ASSUME NEW records \in Seq(CandidateRecord)
  PROVE  EndsInFailures(records, 0)
BY DEF EndsInFailures

(* One failed cycle more.                                                  *)
LEMMA EndsInFailuresAppend ==
  ASSUME NEW records \in Seq(CandidateRecord), NEW r \in CandidateRecord, NEW k \in Nat,
         EndsInFailures(records, k), IsFailedCycle(r)
  PROVE  EndsInFailures(Append(records, r), k + 1)
<1> DEFINE longer == Append(records, r)
           n == Len(records)
<1>1. /\ n \in Nat /\ Len(longer) = n + 1
      /\ longer[n + 1] = r /\ \A i \in 1..n : longer[i] = records[i]
  OBVIOUS
<1> HIDE DEF longer, n
<1>2. k <= n /\ \A i \in (n - k + 1)..n : IsFailedCycle(records[i])
  BY DEF EndsInFailures, n
<1>3. k + 1 <= Len(longer)
  BY <1>1, <1>2
<1>4. ASSUME NEW i \in (Len(longer) - (k + 1) + 1)..Len(longer)
      PROVE  IsFailedCycle(longer[i])
  <2>1. i \in (n - k + 1)..n \/ i = n + 1
    BY <1>1
  <2>2. i \in (n - k + 1)..n => i \in 1..n
    BY <1>1, <1>2
  <2> QED BY <1>1, <1>2, <2>1, <2>2
<1> QED BY <1>3, <1>4 DEF EndsInFailures, longer

Deciding == {"reviewer", "decide", "settling"}

(* What the walk through one cycle remembers of a failed optimizer.        *)
CycleOf(n, s) ==
    /\ s.outage >= OutageCycles => s.stop = "provider_failure"
    /\ n \notin {"skip", "route", "finalize", "finished"} => s.stop = "none"
    /\ n = "skip" => s.stop \notin {"none", "provider_failure"}
    /\ n \in {"idle", "initialize"} => s = NoCampaignState
    /\ n \in {"discover", "analyst"} => s.cycleFailures = {}
    /\ n \in {"merge", "optimizer"} => ~ProviderFailure(s)
    /\ n = "evaluate" /\ ProviderFailure(s) => s.proposal = "none"
    /\ n \in Deciding /\ ProviderFailure(s) => IsFailedCycle(s.evidence)

InCycle == {"discover", "analyst", "merge", "optimizer", "evaluate", "reviewer", "decide"}

OutageInv ==
    /\ CycleOf(node, state)
    /\ phase \in {"down", "baseline"} => state = NoCampaignState
    /\ phase = "graph" /\ node \in InCycle => EndsInFailures(mem.records, state.outage)
    /\ phase \in {"promote", "record"} => EndsInFailures(mem.records, state.outage)
    /\ phase \in {"mark", "tally"} /\ ProviderFailure(state) =>
          EndsInFailures(mem.records, state.outage + 1)
    /\ phase = "graph" /\ node = "route" /\ state.stop = "none" /\ ProviderFailure(state) =>
          EndsInFailures(mem.records, state.outage + 1)
    /\ phase = "graph" /\ state.stop = "provider_failure" =>
          EndsInFailures(mem.records, OutageCycles)

(* A cycle's analysis never ends the campaign as an outage.                *)
LEMMA AnalysisIsNoOutage ==
  ASSUME NEW s
  PROVE  EndedAfterAnalysis(s).reason # "provider_failure"
BY DEF EndedAfterAnalysis, Continue

LEMMA BoundIsNoOutage ==
  ASSUME NEW t
  PROVE  StopReason(t) # "provider_failure"
BY StopReasonType DEF BoundReasons

(* An optimizer that failed leaves the cycle nothing to prepare.           *)
LEMMA FailedOptimizerIsRejected ==
  ASSUME NEW s, NEW records, NEW e \in Assessments(s, records),
         ProviderFailure(s), s.proposal = "none"
  PROVE  IsFailedCycle(e) /\ e.refusal = FALSE
<1> DEFINE asked == s.target # NoTarget /\ "optimizer" \notin s.cycleFailures
<1>1. e = Unprepared(asked)
  BY DEF Assessments
<1>2. asked = FALSE
  BY DEF ProviderFailure
<1> HIDE DEF asked
<1> QED BY <1>1, <1>2 DEF Unprepared, IsFailedCycle

(* What a step of the graph leaves of the invariant, beside the records,   *)
(* which it does not touch.                                                *)
WalkInv(n, s, records) ==
    /\ CycleOf(n, s)
    /\ n \in InCycle => EndsInFailures(records, s.outage)
    /\ n = "route" /\ s.stop = "none" /\ ProviderFailure(s) =>
          EndsInFailures(records, s.outage + 1)
    /\ s.stop = "provider_failure" => EndsInFailures(records, OutageCycles)

LEMMA InitializeWalk ==
  ASSUME TypeOK, Initialize(RecordedCandidates(mem.records))
  PROVE  WalkInv(node', state', mem.records)
<1> DEFINE s == Restored(RecordedCandidates(mem.records))
           reason == StopReason(StateTallies(s))
<1>1. mem.records \in Seq(CandidateRecord)
  BY DEF TypeOK, EngineState
<1>2. s \in CampaignState
  BY <1>1, RecordedType, RestoredType
<1>3. s.outage = 0 /\ s.cycleFailures = {} /\ s.stop = "none"
  BY NoCampaignStateType DEF Restored, NoCampaignState
<1>4. /\ state' = [s EXCEPT !.stop = reason]
      /\ node' = IF reason = "none" THEN "discover" ELSE "finalize"
  BY DEF Initialize, EndedAtStart
<1>5. reason # "provider_failure"
  BY BoundIsNoOutage
<1> HIDE DEF s, reason
<1>6. state'.outage = 0 /\ state'.cycleFailures = {} /\ state'.stop = reason
  BY <1>2, <1>3, <1>4 DEF CampaignState
<1>7. EndsInFailures(mem.records, 0)
  BY <1>1, NoFailuresNeeded
<1> QED BY <1>4, <1>5, <1>6, <1>7 DEF WalkInv, CycleOf, Deciding, InCycle, OutageCycles

LEMMA AnalystWalk ==
  ASSUME TypeOK, WalkInv(node, state, mem.records), Analyst
  PROVE  WalkInv(node', state', mem.records)
<1>1. state \in CampaignState
  BY DEF TypeOK, GraphTypeOK
<1>2. /\ state'.outage = state.outage /\ state'.stop = state.stop
      /\ state'.cycleFailures \in {state.cycleFailures, state.cycleFailures \cup {"analyst"}}
  BY <1>1 DEF Analyst, Degraded, CampaignState
<1>3. node = "analyst" /\ node' = "merge"
  BY DEF Analyst
<1> QED BY <1>2, <1>3 DEF WalkInv, CycleOf, Deciding, InCycle, ProviderFailure

LEMMA MergeWalk ==
  ASSUME TypeOK, WalkInv(node, state, mem.records), MergeAnalysis
  PROVE  WalkInv(node', state', mem.records)
<1> DEFINE target == NextTarget(state.ranking, state.prior)
           s == [state EXCEPT !.target = target, !.reasked = FALSE]
           end == EndedAfterAnalysis(s)
<1>1. state \in CampaignState
  BY DEF TypeOK, GraphTypeOK
<1>2. /\ state' = IF end.reason = "none" THEN s
                  ELSE [s EXCEPT !.stop = end.reason, !.failure = end.failure]
      /\ node' = IF end.reason = "none" THEN "optimizer" ELSE "skip"
      /\ node = "merge"
  BY DEF MergeAnalysis
<1>3. end.reason # "provider_failure"
  BY AnalysisIsNoOutage
<1> HIDE DEF end, target
<1>4. /\ state'.outage = state.outage /\ state'.cycleFailures = state.cycleFailures
      /\ state'.stop = IF end.reason = "none" THEN state.stop ELSE end.reason
  BY <1>1, <1>2 DEF CampaignState
<1> QED BY <1>2, <1>3, <1>4 DEF WalkInv, CycleOf, Deciding, InCycle, ProviderFailure

LEMMA OptimizerWalk ==
  ASSUME TypeOK, WalkInv(node, state, mem.records), Optimizer
  PROVE  WalkInv(node', state', mem.records)
<1>1. state \in CampaignState
  BY DEF TypeOK, GraphTypeOK
<1>2. /\ state'.outage = state.outage /\ state'.stop = state.stop
      /\ \/ state'.cycleFailures = state.cycleFailures
         \/ state'.proposal = "none"
  BY <1>1 DEF Optimizer, Degraded, CampaignState
<1>3. node = "optimizer" /\ node' = "evaluate"
  BY DEF Optimizer
<1> QED BY <1>2, <1>3 DEF WalkInv, CycleOf, Deciding, InCycle, ProviderFailure

LEMMA EvaluateWalk ==
  ASSUME TypeOK, WalkInv(node, state, mem.records),
         NEW e \in Assessments(state, mem.records), Evaluate(e)
  PROVE  WalkInv(node', state', mem.records)
<1> DEFINE again == Reaskable(state, e)
<1>1. state \in CampaignState
  BY DEF TypeOK, GraphTypeOK
<1>2. /\ node = "evaluate" /\ node' = IF again THEN "optimizer" ELSE "reviewer"
      /\ state' = [state EXCEPT !.evidence = e, !.reasked = again]
  BY DEF Evaluate
<1>3. ProviderFailure(state) => IsFailedCycle(e) /\ ~again
  <2>1. ProviderFailure(state) => state.proposal = "none"
    BY <1>2 DEF WalkInv, CycleOf
  <2> QED BY <2>1, FailedOptimizerIsRejected DEF Reaskable
<1> HIDE DEF again
<1>4. /\ state'.outage = state.outage /\ state'.stop = state.stop
      /\ state'.cycleFailures = state.cycleFailures /\ state'.evidence = e
  BY <1>1, <1>2 DEF CampaignState
<1> QED BY <1>2, <1>3, <1>4 DEF WalkInv, CycleOf, Deciding, InCycle, ProviderFailure

LEMMA ReviewerWalk ==
  ASSUME TypeOK, WalkInv(node, state, mem.records), Reviewer
  PROVE  WalkInv(node', state', mem.records)
<1>1. state \in CampaignState
  BY DEF TypeOK, GraphTypeOK
<1>2. /\ state'.outage = state.outage /\ state'.stop = state.stop
      /\ state'.evidence = state.evidence
      /\ state'.cycleFailures \in {state.cycleFailures, state.cycleFailures \cup {"reviewer"}}
  BY <1>1 DEF Reviewer, Degraded, CampaignState
<1>3. node = "reviewer" /\ node' = "decide"
  BY DEF Reviewer
<1> QED BY <1>2, <1>3 DEF WalkInv, CycleOf, Deciding, InCycle, ProviderFailure

LEMMA RouteWalk ==
  ASSUME TypeOK, WalkInv(node, state, mem.records), Route
  PROVE  WalkInv(node', state', mem.records)
<1> DEFINE outage == IF ProviderFailure(state) THEN state.outage + 1 ELSE 0
           s == [state EXCEPT !.outage = outage]
           end == EndedAfterCycle(s)
<1>1. state \in CampaignState /\ mem.records \in Seq(CandidateRecord)
  BY DEF TypeOK, GraphTypeOK, EngineState
<1>2. CASE state.stop # "none"
  <2>1. state' = state /\ node = "route" /\ node' = "finalize"
    BY <1>2 DEF Route
  <2> QED BY <1>2, <2>1 DEF WalkInv, CycleOf, Deciding, InCycle
<1>3. CASE state.stop = "none"
  <2>1. /\ node = "route"
        /\ node' = IF end.reason # "none" THEN "finalize" ELSE "analyst"
        /\ state' = IF end.reason # "none"
                    THEN [s EXCEPT !.stop = end.reason, !.failure = end.failure]
                    ELSE [s EXCEPT !.cycleFailures = {}]
    BY <1>3 DEF Route
  <2>2. state.outage \in Nat /\ state.outage < OutageCycles
    BY <1>1, <1>3 DEF WalkInv, CycleOf, OutageCycles, CampaignState
  <2>3. outage \in Nat /\ outage <= OutageCycles
    BY <2>2 DEF OutageCycles
  <2>4. EndsInFailures(mem.records, outage)
    <3>1. CASE ProviderFailure(state)
      BY <1>3, <2>1, <3>1 DEF WalkInv
    <3>2. CASE ~ProviderFailure(state)
      BY <1>1, <3>2, NoFailuresNeeded
    <3> QED BY <3>1, <3>2
  <2>5. outage # 0 => ProviderFailure(state)
    OBVIOUS
  <2> HIDE DEF outage
  <2>6. s.outage = outage /\ s.stop = "none" /\ ProviderFailure(s) = ProviderFailure(state)
        /\ s \in CampaignState
    BY <1>1, <1>3, <2>3 DEF CampaignState, ProviderFailure
  <2>7. end.reason = "provider_failure" <=> outage >= OutageCycles
    BY <2>5, <2>6, BoundIsNoOutage DEF EndedAfterCycle, OutageCycles
  <2> HIDE DEF end, s
  <2>8. /\ state'.outage = outage
        /\ state'.stop = IF end.reason # "none" THEN end.reason ELSE "none"
        /\ end.reason = "none" => state'.cycleFailures = {}
    BY <2>1, <2>6 DEF CampaignState
  <2>9. outage >= OutageCycles => outage = OutageCycles
    BY <2>3 DEF OutageCycles
  <2>10. node' \in {"finalize", "analyst"} /\ (node' = "analyst" <=> end.reason = "none")
    BY <2>1
  <2>11. CycleOf(node', state')
    BY <2>7, <2>8, <2>10 DEF CycleOf, Deciding
  <2> QED BY <2>4, <2>7, <2>8, <2>9, <2>10, <2>11 DEF WalkInv, InCycle
<1> QED BY <1>2, <1>3

LEMMA GraphStepWalk ==
  ASSUME TypeOK, WalkInv(node, state, mem.records), GraphStep
  PROVE  WalkInv(node', state', mem.records)
<1>1. CASE Initialize(RecordedCandidates(mem.records))
  BY <1>1, InitializeWalk
<1>2. CASE Discover
  BY <1>2 DEF Discover, WalkInv, CycleOf, Deciding, InCycle, ProviderFailure
<1>3. CASE Analyst
  BY <1>3, AnalystWalk
<1>4. CASE MergeAnalysis
  BY <1>4, MergeWalk
<1>5. CASE SkipCandidate
  BY <1>5 DEF SkipCandidate, WalkInv, CycleOf, Deciding, InCycle, ProviderFailure
<1>6. CASE Optimizer
  BY <1>6, OptimizerWalk
<1>7. CASE \E e \in Assessments(state, mem.records) : Evaluate(e)
  BY <1>7, EvaluateWalk
<1>8. CASE Reviewer
  BY <1>8, ReviewerWalk
<1>9. CASE Route
  BY <1>9, RouteWalk
<1> QED BY <1>1, <1>2, <1>3, <1>4, <1>5, <1>6, <1>7, <1>8, <1>9 DEF GraphStep

LEMMA OutageNext ==
  ASSUME TypeOK, PhaseInv, OutageInv, [Next]_vars
  PROVE  OutageInv'
<1> state \in CampaignState /\ mem.records \in Seq(CandidateRecord)
  BY DEF TypeOK, GraphTypeOK, EngineState
<1>1. CASE EnterGraph
  <2>1. /\ phase = "baseline" /\ phase' = "graph" /\ node' = "initialize"
        /\ UNCHANGED <<state, mem>>
    BY <1>1 DEF EnterGraph
  <2>2. state = NoCampaignState
    BY <2>1 DEF OutageInv
  <2>3. state.stop = "none" /\ state.outage = 0
    BY <2>2 DEF NoCampaignState
  <2> QED BY <2>1, <2>2, <2>3 DEF OutageInv, CycleOf, Deciding, InCycle, OutageCycles
<1>2. CASE GraphStep
  <2>1. phase = "graph" /\ UNCHANGED <<mem, phase>>
    BY <1>2 DEF GraphStep, InGraph, engineVars
  <2>2. WalkInv(node, state, mem.records)
    BY <2>1 DEF OutageInv, WalkInv
  <2>3. WalkInv(node', state', mem.records)
    BY <1>2, <2>2, GraphStepWalk
  <2> QED BY <2>1, <2>3 DEF OutageInv, WalkInv
<1>3. CASE BeginSettle \/ Promote \/ Mark
  <2>1. /\ UNCHANGED <<state, mem>>
        /\ \/ phase = "graph" /\ node = "decide" /\ phase' \in {"promote", "record"}
              /\ node' = "settling"
           \/ phase = "promote" /\ phase' \in {"record", "failing"} /\ node' = node
           \/ phase = "mark" /\ phase' \in {"tally", "failing"} /\ node' = node
    BY <1>3, SettleShape
  <2>2. CycleOf(node', state')
    BY <2>1 DEF OutageInv, CycleOf, Deciding
  <2>3. phase' \in {"promote", "record"} => EndsInFailures(mem.records, state.outage)
    BY <2>1 DEF OutageInv, InCycle
  <2>4. phase' = "tally" /\ ProviderFailure(state) =>
           EndsInFailures(mem.records, state.outage + 1)
    BY <2>1 DEF OutageInv
  <2> QED BY <2>1, <2>2, <2>3, <2>4 DEF OutageInv
<1>4. CASE Record
  <2>1. /\ phase = "record" /\ phase' \in {"mark", "tally"}
        /\ UNCHANGED <<node, state>> /\ NewRecord \in CandidateRecord
        /\ mem'.records = Append(mem.records, NewRecord)
    BY <1>4, RecordShape
  <2>2. node = "settling" /\ EndsInFailures(mem.records, state.outage) /\ CycleOf(node, state)
    BY <2>1 DEF OutageInv, PhaseInv
  <2>3. ProviderFailure(state) => IsFailedCycle(NewRecord)
    BY <2>2 DEF CycleOf, Deciding, IsFailedCycle, NewRecord
  <2>4. state.outage \in Nat
    BY DEF CampaignState
  <2>5. ProviderFailure(state) => EndsInFailures(mem'.records, state.outage + 1)
    BY <2>1, <2>2, <2>3, <2>4, EndsInFailuresAppend
  <2> QED BY <2>1, <2>2, <2>5 DEF OutageInv
<1>5. CASE Tally
  <2>1. phase = "tally" /\ mem'.records = mem.records
    BY <1>5, TallyShape
  <2>2. CASE phase' = "failing" /\ UNCHANGED <<node, state, asks>>
    BY <2>2 DEF OutageInv
  <2>3. CASE phase' = "graph" /\ Settled
    <3>1. node = "settling" /\ node' = "route" /\ state' = Counted(state)
      BY <2>3 DEF Settled
    <3>2. /\ state'.outage = state.outage /\ state'.stop = state.stop
          /\ state'.cycleFailures = state.cycleFailures
      BY <3>1 DEF Counted, CampaignState
    <3>3. ProviderFailure(state) => EndsInFailures(mem.records, state.outage + 1)
      BY <2>1 DEF OutageInv
    <3>4. state.stop = "none" /\ (state.outage >= OutageCycles => state.stop = "provider_failure")
      BY <3>1 DEF OutageInv, CycleOf
    <3> QED BY <2>1, <2>3, <3>1, <3>2, <3>3, <3>4
            DEF OutageInv, CycleOf, Deciding, InCycle, ProviderFailure
  <2> QED BY <1>5, TallyShape, <2>2, <2>3
<1>6. CASE LeavesGraph /\ phase' \notin {"graph", "promote", "record", "mark", "tally"}
  <2>1. CASE UNCHANGED <<node, state, asks>> /\ (phase' \in {"down", "baseline"} => phase = "down")
    BY <1>6, <2>1 DEF OutageInv
  <2>2. CASE node' = "idle" /\ state' = NoCampaignState
    <3>1. state'.stop = "none" /\ state'.outage = 0
      BY <2>2 DEF NoCampaignState
    <3> QED BY <1>6, <2>2, <3>1 DEF OutageInv, CycleOf, Deciding, OutageCycles
  <2>3. CASE /\ node' = "finished" /\ UNCHANGED <<state, asks>> /\ node = "finalize"
             /\ phase' \notin {"down", "baseline"}
    BY <1>6, <2>3 DEF OutageInv, CycleOf, Deciding
  <2> QED BY <1>6, <2>1, <2>2, <2>3 DEF LeavesGraph
<1>7. CASE UNCHANGED <<node, state, asks, mem, disk, phase>>
  BY <1>7 DEF OutageInv
<1> QED BY <1>1, <1>2, <1>3, <1>4, <1>5, <1>6, <1>7, StepShape

(* A campaign stops for an outage exactly when two cycles in a row lost    *)
(* their optimizer: the two last verdicts are then the empty rejections of *)
(* those cycles, and no bound reached at the same time hides the outage    *)
(* (OutageIsTwoFailedCycles).                                              *)
THEOREM OutageIsObserved == Spec => []OutageIsTwoFailedCycles
<1>1. Init => OutageInv
  BY DEF Init, GraphInit, OutageInv, CycleOf, NoCampaignState, Deciding, InCycle, OutageCycles
<1>2. TypeOK /\ AgreementInv /\ OutageInv /\ [Next]_vars => OutageInv'
  BY OutageNext DEF AgreementInv
<1>3. TypeOK /\ OutageInv => OutageIsTwoFailedCycles
  <2> SUFFICES ASSUME TypeOK, OutageInv PROVE OutageIsTwoFailedCycles
    OBVIOUS
  <2>1. Len(mem.records) \in Nat
    BY DEF TypeOK, EngineState
  <2>2. state.outage >= OutageCycles => state.stop = "provider_failure"
    BY DEF OutageInv, CycleOf
  <2>3. ASSUME phase = "graph", state.stop = "provider_failure"
        PROVE  /\ Len(mem.records) >= OutageCycles
               /\ \A i \in (Len(mem.records) - 1)..Len(mem.records) :
                     mem.records[i].unmeasured /\ mem.records[i].patch = NoPatch
    <3>1. EndsInFailures(mem.records, OutageCycles)
      BY <2>3 DEF OutageInv
    <3> QED BY <2>1, <3>1 DEF EndsInFailures, IsFailedCycle, OutageCycles
  <2> QED BY <2>2, <2>3 DEF OutageIsTwoFailedCycles
<1> QED BY <1>1, <1>2, <1>3, TypeCorrect, AgreementInvariant, PTL DEF Spec

====
