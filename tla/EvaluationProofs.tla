-------------------------- MODULE EvaluationProofs --------------------------
(***************************************************************************)
(* What TLAPS proves of the evaluations of candidates and their gate, for  *)
(* every set of patches and whatever the suite prints: the worktrees an    *)
(* evaluation leaves, and the tests a candidate is held to however often   *)
(* the required set was narrowed.                                          *)
(***************************************************************************)
EXTENDS Evaluation, TLAPS

(***************************************************************************)
(* Types                                                                   *)
(***************************************************************************)

BasePasses == UNION {Outcome(o).passed : o \in BaseOutputs}
BaseFailures == UNION {Outcome(o).failed : o \in BaseOutputs}
BasePackages == UNION {Outcome(o).packages : o \in BaseOutputs}

Baselines == [ failures : SUBSET BaseFailures, passes : SUBSET BasePasses,
               unbuildable : SUBSET BasePackages, rechecks : 0 .. MaxBaselineRechecks ]

CampaignStates == [ marked : BOOLEAN, baseline : Baselines,
                    recorded : SUBSET Patches, measured : SUBSET Patches ]

TreeNames == Patches \cup {"base", "suite"}

Stages == {"resolve", "prepare", "apply", "shape", "build", "test",
           "recheck", "rerun", "measure", "return"}

Results == {"unresolved", "unmeasured", "measured"}

BaselineJobs == [at : {"baseline", "suite"}, cancelled : BOOLEAN]

Evaluations == [ at : Stages, kind : {"attempt", "verify"}, patch : Patches,
                 output : {""} \cup CandidateOutputs, baseline : Baselines,
                 cancelled : BOOLEAN, defers : SUBSET TreeNames, result : Results ]

Pasts == [bases : SUBSET SUBSET BasePasses, started : Nat]

TreesOK == trees \in SUBSET TreeNames /\ left \in SUBSET TreeNames

EvaluationTypeOK ==
    /\ campaign \in CampaignStates /\ disk \in CampaignStates
    /\ job \in {NoJob} \cup BaselineJobs \cup Evaluations
    /\ TreesOK /\ past \in Pasts

LEMMA EvaluatingType == EvaluationTypeOK /\ Evaluating => job \in Evaluations
BY DEF EvaluationTypeOK, Evaluating, NoJob, BaselineJobs

(* What an evaluation holds its candidate to is a baseline.                *)
LEMMA HeldType == EvaluationTypeOK /\ Evaluating => Held \in Baselines
BY EvaluatingType DEF EvaluationTypeOK, CampaignStates, Evaluations, Held

LEMMA BaselineType ==
    ASSUME NEW output \in BaseOutputs, NEW rechecks \in 0 .. MaxBaselineRechecks
    PROVE  Baseline(output, rechecks) \in Baselines
<1>1. /\ Outcome(output).failed \in SUBSET BaseFailures
      /\ Outcome(output).passed \in SUBSET BasePasses
      /\ Outcome(output).packages \in SUBSET BasePackages
  BY DEF BaseFailures, BasePasses, BasePackages
<1> QED
  BY <1>1 DEF Baseline, Baselines

LEMMA NarrowedType ==
    ASSUME NEW b \in Baselines, NEW fresh
    PROVE  /\ RequirePasses(b, fresh) \in Baselines
           /\ RequirePasses(b, fresh).passes = StillRequired(b.passes, fresh)
           /\ RequirePasses(b, fresh).failures = b.failures
           /\ RequirePasses(b, fresh).unbuildable = b.unbuildable
<1>1. StillRequired(b.passes, fresh) \in SUBSET BasePasses
  BY DEF StillRequired, Baselines
<1> QED
  BY <1>1 DEF RequirePasses, Baselines

(* A re-run is spent only while one is left.                               *)
LEMMA SpentType ==
    ASSUME NEW b \in Baselines, NEW output, MayRecheck(b, output)
    PROVE  /\ Spend(b) \in Baselines /\ Spend(b).passes = b.passes
           /\ Spend(b).failures = b.failures /\ Spend(b).unbuildable = b.unbuildable
<1>1. b.rechecks + 1 \in 0 .. MaxBaselineRechecks
  BY DEF MayRecheck, MaxBaselineRechecks, Baselines
<1> QED
  BY <1>1 DEF Spend, Baselines

(* A step of an evaluation that leaves the campaign's state alone.         *)
Proceeds ==
    \/ ResolvePatch \/ RejectUnresolvedPatch \/ Prepare \/ RejectUncreated
    \/ Apply \/ RejectUnapplied \/ HasShape \/ BuildCandidate \/ RejectBeforeTests
    \/ TestsRejected \/ MeasureAndFinalize
    \/ Evaluating /\ (CancelEvaluation \/ CreateSuite)

(* A step after which an event or the record of the verdict may be saved.  *)
Gives == NothingUnstable \/ Return

(* A step of the baseline that records none.                               *)
Prepares ==
    \/ StartBaseline \/ RefuseBaseline
    \/ ~Evaluating /\ (CancelEvaluation \/ CreateSuite)

(***************************************************************************)
(* The worktrees                                                           *)
(***************************************************************************)

LEMMA StageTrees ==
    ASSUME EvaluationTypeOK, Evaluating
    PROVE  job.patch \in TreeNames /\ job.defers \in SUBSET TreeNames
BY EvaluatingType DEF Evaluations, TreeNames

LEMMA TreesType ==
    ASSUME TreesOK, NEW these \in SUBSET TreeNames,
           \/ RemoveTrees(these) \/ UNCHANGED <<trees, left>>
           \/ \E tree \in these : CreateTree(tree) \/ CreateTreeFails(tree)
    PROVE  TreesOK'
<1>1. CASE RemoveTrees(these)
  BY <1>1 DEF RemoveTrees, TreesOK
<1>2. CASE UNCHANGED <<trees, left>>
  BY <1>2 DEF TreesOK
<1>3. CASE \E tree \in these : CreateTree(tree) \/ CreateTreeFails(tree)
  <2>1. PICK tree \in these : CreateTree(tree) \/ CreateTreeFails(tree)
    BY <1>3
  <2>2. CASE CreateTree(tree)
    BY <2>1, <2>2 DEF CreateTree, TreesOK
  <2>3. CASE CreateTreeFails(tree)
    <3>1. PICK rest \in IF tree \in Patches \cap trees THEN {{tree}} ELSE SUBSET {tree} :
            trees' = (trees \ {tree}) \cup rest /\ left' = (left \ {tree}) \cup rest
      BY <2>3 DEF CreateTreeFails
    <3>2. rest \subseteq {tree}
      OBVIOUS
    <3> QED
      BY <2>1, <3>1, <3>2 DEF TreesOK
  <2> QED
    BY <2>1, <2>2, <2>3
<1> QED
  BY <1>1, <1>2, <1>3

(* Which commands on which tree every step runs.                           *)
LEMMA StepTrees ==
    ASSUME EvaluationNext, ~Kill
    PROVE  \/ UNCHANGED <<trees, left>>
           \/ Evaluating /\ \/ CreateTree("base") \/ CreateTreeFails("base")
                            \/ CreateTree(job.patch) \/ CreateTreeFails(job.patch)
                            \/ RemoveTrees({job.patch}) \/ RemoveTrees(job.defers)
           \/ CreateTree("suite") \/ CreateTreeFails("suite") \/ RemoveTrees({"suite"})
BY DEF EvaluationNext, StartBaseline, CreateSuite, RecordBaseline, RefuseBaseline,
       StartEvaluation, CancelEvaluation, ResolvePatch, RejectUnresolvedPatch, Prepare,
       RejectUncreated, Apply, RejectUnapplied, HasShape, BuildCandidate,
       RejectBeforeTests, CandidateTests, TestsRejected, NothingUnstable, Narrow,
       MeasureAndFinalize, Return, Evaluating, At

LEMMA KillTrees ==
    ASSUME EvaluationTypeOK, Kill
    PROVE  TreesOK' /\ left' = trees'
<1>1. UnderHand \in SUBSET TreeNames
  <2>1. CASE Evaluating
    BY <2>1, StageTrees DEF UnderHand, TreeNames, At, Evaluating
  <2>2. CASE ~Evaluating
    BY <2>2 DEF UnderHand, TreeNames, At, Evaluating
  <2> QED
    BY <2>1, <2>2
<1>2. PICK now \in SUBSET UnderHand : trees' = (trees \ UnderHand) \cup now
  BY DEF Kill
<1> QED
  BY <1>1, <1>2 DEF Kill, EvaluationTypeOK, TreesOK

LEMMA TreesTypeStep ==
    ASSUME EvaluationTypeOK, EvaluationNext
    PROVE  TreesOK'
<1>1. CASE Kill
  BY <1>1, KillTrees
<1>2. CASE ~Kill
  <2>1. TreesOK
    BY DEF EvaluationTypeOK
  <2>2. "base" \in TreeNames /\ "suite" \in TreeNames
    BY DEF TreeNames
  <2>3. Evaluating => job.patch \in TreeNames /\ job.defers \in SUBSET TreeNames
    BY StageTrees
  <2>4. CASE UNCHANGED <<trees, left>>
    BY <2>4 DEF EvaluationTypeOK, TreesOK
  <2>5. CASE \/ CreateTree("base") \/ CreateTreeFails("base")
             \/ CreateTree("suite") \/ CreateTreeFails("suite")
    BY <2>1, <2>2, <2>5, TreesType
  <2>6. CASE Evaluating /\ (CreateTree(job.patch) \/ CreateTreeFails(job.patch))
    BY <2>1, <2>3, <2>6, TreesType
  <2>7. CASE RemoveTrees({"suite"})
    <3>1. {"suite"} \in SUBSET TreeNames
      BY <2>2
    <3> QED
      BY <2>1, <2>7, <3>1, TreesType
  <2>8. CASE Evaluating /\ RemoveTrees({job.patch})
    <3>1. {job.patch} \in SUBSET TreeNames
      BY <2>3, <2>8
    <3> QED
      BY <2>1, <2>8, <3>1, TreesType
  <2>9. CASE Evaluating /\ RemoveTrees(job.defers)
    BY <2>1, <2>3, <2>9, TreesType
  <2> QED
    BY <1>2, StepTrees, <2>4, <2>5, <2>6, <2>7, <2>8, <2>9
<1> QED
  BY <1>1, <1>2

(* The base tree is deferred from the start of an evaluation to its end.   *)
TreesInv == TreesAreTidied /\ (Evaluating => "base" \in job.defers)

LEMMA KeptTidy ==
    ASSUME TreesAreTidied, UNCHANGED <<trees, left>>, Owned \subseteq Owned'
    PROVE  TreesAreTidied'
BY DEF TreesAreTidied

LEMMA CreatedTidy ==
    ASSUME TreesAreTidied, NEW tree, CreateTree(tree),
           Owned \ {tree} \subseteq Owned', tree \in Owned'
    PROVE  TreesAreTidied'
BY DEF TreesAreTidied, CreateTree

LEMMA UncreatedTidy ==
    ASSUME TreesAreTidied, NEW tree, CreateTreeFails(tree),
           Owned \ {tree} \subseteq Owned'
    PROVE  TreesAreTidied'
BY DEF TreesAreTidied, CreateTreeFails

LEMMA RemovedTidy ==
    ASSUME TreesAreTidied, NEW these, RemoveTrees(these), Owned \ these \subseteq Owned'
    PROVE  TreesAreTidied'
BY DEF TreesAreTidied, RemoveTrees, WithoutCancel

(* What an evaluation owns at a stage.                                     *)
OwnedAt(stage, patch, defers) ==
    UNION {defers, IF stage = "apply" THEN {patch} ELSE {},
           IF stage \in {"suite", "rerun"} THEN {"suite"} ELSE {}}

LEMMA OwnedEvaluating == Evaluating => Owned = OwnedAt(job.at, job.patch, job.defers)
BY DEF Owned, OwnedAt, Evaluating, At

LEMMA OwnedOtherwise ==
    ~Evaluating => Owned = OwnedAt(job.at, job.patch, {})
BY DEF Owned, OwnedAt, Evaluating, At

(***************************************************************************)
(* Types, step by step                                                     *)
(***************************************************************************)

(* The stages a step of an evaluation goes to.                             *)
NextStage(at, next) ==
    \/ next = at
    \/ next \in {"prepare", "apply", "shape", "build", "test", "return"}
    \/ at = "recheck" /\ next = "rerun"

LEMMA ProceedsJob ==
    ASSUME EvaluationTypeOK, Proceeds
    PROVE  /\ Evaluating /\ job \in Evaluations /\ job' \in Evaluations
           /\ job'.kind = job.kind /\ job'.patch = job.patch /\ job'.baseline = job.baseline
           /\ job'.output = job.output /\ NextStage(job.at, job'.at)
           /\ job'.defers = IF Apply THEN job.defers \cup {job.patch} ELSE job.defers
           /\ UNCHANGED <<campaign, disk, past>>
<1>1. Evaluating /\ job \in Evaluations /\ UNCHANGED <<campaign, disk, past>>
  <2>1. Evaluating /\ UNCHANGED <<campaign, disk, past>>
    BY DEF Proceeds, ResolvePatch, RejectUnresolvedPatch, Prepare, RejectUncreated, Apply,
           RejectUnapplied, HasShape, BuildCandidate, RejectBeforeTests, TestsRejected,
           MeasureAndFinalize, CancelEvaluation, CreateSuite, RejectCandidate, Evaluating, At
  <2> QED
    BY <2>1, EvaluatingType
<1>2. CASE Apply
  <2>1. job' = [job EXCEPT !.at = "shape", !.defers = job.defers \cup {job.patch}]
    BY <1>2 DEF Apply
  <2>2. job.defers \cup {job.patch} \in SUBSET TreeNames
    BY <1>1 DEF Evaluations, TreeNames
  <2> QED
    BY <1>1, <1>2, <2>1, <2>2 DEF Evaluations, Stages, NextStage
<1>3. CASE ~Apply
  <2> DEFINE Moved == /\ job' \in Evaluations
                      /\ job'.kind = job.kind /\ job'.patch = job.patch
                      /\ job'.baseline = job.baseline /\ job'.output = job.output
                      /\ job'.defers = job.defers /\ NextStage(job.at, job'.at)
  <2>1. CASE ResolvePatch \/ MeasureAndFinalize
    <3>1. PICK next \in {"prepare", "return"}, result \in Results :
            job' = [job EXCEPT !.at = next, !.result = result]
      BY <2>1 DEF ResolvePatch, MeasureAndFinalize, Results
    <3>2. Moved
      BY <1>1, <3>1 DEF Evaluations, Stages, NextStage
    <3> QED
      BY <1>1, <1>3, <3>2
  <2>2. CASE CancelEvaluation
    <3>1. job' = [job EXCEPT !.cancelled = TRUE]
      BY <2>2 DEF CancelEvaluation
    <3>2. Moved
      BY <1>1, <3>1 DEF Evaluations, NextStage
    <3> QED
      BY <1>1, <1>3, <3>2
  <2>3. CASE CreateSuite
    <3>1. job.at = "recheck" /\ job' = [job EXCEPT !.at = "rerun"]
      BY <1>1, <2>3 DEF CreateSuite, Evaluations, Stages
    <3>2. Moved
      BY <1>1, <3>1 DEF Evaluations, Stages, NextStage
    <3> QED
      BY <1>1, <1>3, <3>2
  <2>4. CASE \/ Prepare \/ HasShape \/ BuildCandidate
             \/ RejectUnresolvedPatch \/ RejectUncreated \/ RejectUnapplied
             \/ RejectBeforeTests \/ TestsRejected
    <3>1. PICK next \in {"apply", "build", "test", "return"} : job' = [job EXCEPT !.at = next]
      <4>1. CASE Prepare \/ HasShape \/ BuildCandidate
        BY <4>1 DEF Prepare, HasShape, BuildCandidate
      <4>2. CASE RejectUnresolvedPatch \/ RejectUncreated \/ RejectUnapplied
                   \/ RejectBeforeTests \/ TestsRejected
        BY <4>2 DEF RejectUnresolvedPatch, RejectUncreated, RejectUnapplied,
                    RejectBeforeTests, TestsRejected, RejectCandidate
      <4> QED
        BY <2>4, <4>1, <4>2
    <3>2. Moved
      BY <1>1, <3>1 DEF Evaluations, Stages, NextStage
    <3> QED
      BY <1>1, <1>3, <3>2
  <2> QED
    BY <1>3, <2>1, <2>2, <2>3, <2>4 DEF Proceeds
<1> QED
  BY <1>2, <1>3

LEMMA ProceedsType ==
    ASSUME EvaluationTypeOK, EvaluationNext, Proceeds
    PROVE  EvaluationTypeOK'
BY ProceedsJob, TreesTypeStep DEF EvaluationTypeOK

LEMMA GivesJob ==
    ASSUME EvaluationTypeOK, Gives
    PROVE  /\ Evaluating /\ job \in Evaluations /\ UNCHANGED past
           /\ campaign' \in CampaignStates
           /\ campaign'.marked = campaign.marked /\ campaign'.baseline = campaign.baseline
           /\ disk' \in {disk, campaign'}
           /\ \/ job' = NoJob
              \/ /\ job' \in Evaluations /\ job'.at = "return"
                 /\ job'.baseline = job.baseline /\ job'.defers = job.defers
                 /\ job'.patch = job.patch
<1>1. /\ Evaluating /\ UNCHANGED past /\ disk' \in {disk, campaign'}
  BY DEF Gives, NothingUnstable, Return, RejectCandidate, SaveOrKeep, Evaluating, At
<1>2. job \in Evaluations /\ campaign \in CampaignStates
  BY <1>1, EvaluatingType DEF EvaluationTypeOK
<1>3. CASE NothingUnstable
  <2>1. campaign' = campaign /\ job' = [job EXCEPT !.at = "return"]
    BY <1>3 DEF NothingUnstable, RejectCandidate
  <2> QED
    BY <1>1, <1>2, <2>1 DEF Evaluations, Stages
<1>4. CASE Return
  <2>1. job' = NoJob /\ campaign' = Settled
    BY <1>4 DEF Return
  <2>2. \E recorded, measured \in SUBSET Patches :
          Settled = [campaign EXCEPT !.recorded = recorded, !.measured = measured]
    <3>1. /\ campaign.recorded \in SUBSET Patches /\ campaign.measured \in SUBSET Patches
          /\ job.patch \in Patches
      BY <1>2 DEF CampaignStates, Evaluations
    <3>2. campaign = [campaign EXCEPT !.recorded = campaign.recorded,
                                      !.measured = campaign.measured]
      BY <1>2 DEF CampaignStates
    <3>3. CASE job.kind = "verify" \/ job.result = "unresolved"
      BY <3>1, <3>2, <3>3 DEF Settled
    <3>4. CASE ~(job.kind = "verify" \/ job.result = "unresolved")
      <4> DEFINE recorded == campaign.recorded \cup {job.patch}
                 measured == IF job.result = "measured" THEN campaign.measured \cup {job.patch}
                             ELSE campaign.measured
      <4>1. recorded \in SUBSET Patches /\ measured \in SUBSET Patches
        BY <3>1
      <4>2. Settled = [campaign EXCEPT !.recorded = recorded, !.measured = measured]
        BY <3>4 DEF Settled
      <4> HIDE DEF recorded, measured
      <4> QED
        BY <4>1, <4>2
    <3> QED
      BY <3>3, <3>4
  <2> QED
    BY <1>1, <1>2, <2>1, <2>2 DEF CampaignStates
<1> QED
  BY <1>3, <1>4 DEF Gives

LEMMA GivesType ==
    ASSUME EvaluationTypeOK, EvaluationNext, Gives
    PROVE  EvaluationTypeOK'
BY GivesJob, TreesTypeStep DEF EvaluationTypeOK

LEMMA PreparesJob ==
    ASSUME EvaluationTypeOK, Prepares
    PROVE  /\ job \in {NoJob} \cup BaselineJobs /\ job' \in {NoJob} \cup BaselineJobs
           /\ past' \in Pasts /\ past'.bases = past.bases /\ UNCHANGED <<campaign, disk>>
<1>1. past \in Pasts /\ past.started + 1 \in Nat
  BY DEF EvaluationTypeOK, Pasts
<1>2. ~Evaluating => job \in {NoJob} \cup BaselineJobs
  BY DEF EvaluationTypeOK, Evaluating, Evaluations, Stages
<1>3. CASE StartBaseline
  <2>1. /\ ~Evaluating /\ job' \in BaselineJobs
        /\ past' = [past EXCEPT !.started = past.started + 1] /\ UNCHANGED <<campaign, disk>>
    BY <1>3 DEF StartBaseline, Evaluating, At, BaselineJobs
  <2> QED
    BY <1>1, <1>2, <2>1 DEF Pasts
<1>4. CASE RefuseBaseline
  BY <1>1, <1>2, <1>4 DEF RefuseBaseline, Evaluating, At
<1>5. CASE ~Evaluating /\ CancelEvaluation
  BY <1>1, <1>2, <1>5 DEF CancelEvaluation, At, BaselineJobs, NoJob
<1>6. CASE ~Evaluating /\ CreateSuite
  <2>1. job \in BaselineJobs /\ job' = [job EXCEPT !.at = "suite"]
    BY <1>2, <1>6 DEF CreateSuite, Evaluating, BaselineJobs, NoJob
  <2> QED
    BY <1>1, <1>6, <2>1 DEF CreateSuite, BaselineJobs
<1> QED
  BY <1>3, <1>4, <1>5, <1>6 DEF Prepares

LEMMA PreparesType ==
    ASSUME EvaluationTypeOK, EvaluationNext, Prepares
    PROVE  EvaluationTypeOK'
BY PreparesJob, TreesTypeStep DEF EvaluationTypeOK

LEMMA StartsType ==
    ASSUME EvaluationTypeOK, EvaluationNext, StartEvaluation
    PROVE  /\ EvaluationTypeOK' /\ past'.bases = past.bases /\ job' \in Evaluations
           /\ job'.at = "resolve" /\ job'.baseline = campaign.baseline
           /\ job'.defers = {"base"}
<1>1. /\ past \in Pasts /\ past.started + 1 \in Nat /\ campaign.baseline \in Baselines
  BY DEF EvaluationTypeOK, Pasts, CampaignStates
<1>2. past' \in Pasts /\ past'.bases = past.bases
  BY <1>1 DEF StartEvaluation, Pasts
<1>3. PICK kind \in {"attempt", "verify"}, patch \in Patches : job' = Begun(kind, patch)
  BY DEF StartEvaluation
<1>4. /\ job' \in Evaluations /\ job'.at = "resolve" /\ job'.baseline = campaign.baseline
      /\ job'.defers = {"base"}
  BY <1>1, <1>3 DEF Begun, Evaluations, Stages, Results, TreeNames
<1> QED
  BY <1>2, <1>4, TreesTypeStep DEF StartEvaluation, EvaluationTypeOK

LEMMA RecordType ==
    ASSUME EvaluationTypeOK, EvaluationNext, RecordBaseline
    PROVE  EvaluationTypeOK'
<1>1. PICK output \in BaseOutputs :
        /\ campaign' = [campaign EXCEPT
                          !.marked = TRUE,
                          !.baseline = Baseline(output, campaign.baseline.rechecks)]
        /\ past' = [past EXCEPT !.bases = {Outcome(output).passed}]
        /\ disk' = campaign' /\ job' = NoJob
  BY DEF RecordBaseline
<1>2. Baseline(output, campaign.baseline.rechecks) \in Baselines
  BY BaselineType DEF EvaluationTypeOK, CampaignStates, Baselines
<1>3. campaign' \in CampaignStates
  BY <1>1, <1>2 DEF EvaluationTypeOK, CampaignStates
<1>4. Outcome(output).passed \in SUBSET BasePasses
  BY DEF BasePasses
<1>5. past' \in Pasts
  BY <1>1, <1>4 DEF EvaluationTypeOK, Pasts
<1> QED
  BY <1>1, <1>3, <1>5, TreesTypeStep DEF EvaluationTypeOK

LEMMA TestsType ==
    ASSUME EvaluationTypeOK, EvaluationNext, CandidateTests
    PROVE  /\ EvaluationTypeOK' /\ Evaluating /\ job \in Evaluations /\ job' \in Evaluations
           /\ job'.defers = job.defers /\ job'.patch = job.patch
           /\ job'.at \in {"measure", "recheck"} /\ UNCHANGED <<disk, trees, left, past>>
<1>1. Evaluating /\ job \in Evaluations /\ Held \in Baselines
  BY EvaluatingType, HeldType DEF CandidateTests, Evaluating, At
<1>2. PICK output \in CandidateOutputs :
        \/ /\ job' = [job EXCEPT !.at = "measure", !.output = output]
           /\ UNCHANGED campaign
        \/ /\ MayRecheck(Held, output)
           /\ job' = [job EXCEPT !.at = "recheck", !.output = output, !.baseline = Spend(Held)]
           /\ campaign' = IF NarrowsCampaign(job.kind)
                          THEN [campaign EXCEPT !.baseline = Spend(@)] ELSE campaign
  BY DEF CandidateTests
<1>3. UNCHANGED <<disk, trees, left, past>>
  BY DEF CandidateTests
<1>4. CASE /\ job' = [job EXCEPT !.at = "measure", !.output = output]
           /\ UNCHANGED campaign
  BY <1>1, <1>3, <1>4, TreesTypeStep DEF EvaluationTypeOK, Evaluations, Stages
<1>5. CASE /\ MayRecheck(Held, output)
           /\ job' = [job EXCEPT !.at = "recheck", !.output = output, !.baseline = Spend(Held)]
           /\ campaign' = IF NarrowsCampaign(job.kind)
                          THEN [campaign EXCEPT !.baseline = Spend(@)] ELSE campaign
  <2>1. Spend(Held) \in Baselines
    BY <1>1, <1>5, SpentType
  <2>2. /\ job' \in Evaluations /\ job'.at = "recheck" /\ job'.defers = job.defers
        /\ job'.patch = job.patch
    BY <1>1, <1>5, <2>1 DEF Evaluations, Stages
  <2>3. campaign' \in CampaignStates
    <3>1. NarrowsCampaign(job.kind) => Held = campaign.baseline
      BY DEF Held
    <3> QED
      BY <1>5, <2>1, <3>1 DEF EvaluationTypeOK, CampaignStates
  <2> QED
    BY <1>1, <1>3, <2>2, <2>3, TreesTypeStep DEF EvaluationTypeOK
<1> QED
  BY <1>2, <1>4, <1>5

LEMMA NarrowType ==
    ASSUME EvaluationTypeOK, EvaluationNext, Narrow
    PROVE  /\ EvaluationTypeOK' /\ Evaluating /\ job \in Evaluations /\ job' \in Evaluations
           /\ job'.at \in {"measure", "return"} /\ job'.defers = job.defers
           /\ job'.patch = job.patch
<1>1. Evaluating /\ job \in Evaluations /\ Held \in Baselines /\ campaign \in CampaignStates
  BY EvaluatingType, HeldType DEF Narrow, Evaluating, At, EvaluationTypeOK
<1>2. PICK output \in BaseOutputs :
        LET fresh == Outcome(output).passed
            narrowed == RequirePasses(Held, fresh)
        IN  /\ campaign' = IF NarrowsCampaign(job.kind)
                           THEN [campaign EXCEPT !.baseline = narrowed] ELSE campaign
            /\ past' = IF NarrowsCampaign(job.kind)
                       THEN [past EXCEPT !.bases = @ \cup {fresh}] ELSE past
            /\ \/ job' = [job EXCEPT !.at = "measure", !.baseline = narrowed]
               \/ job' = [job EXCEPT !.at = "return"]
  BY DEF Narrow
<1> DEFINE fresh == Outcome(output).passed
           narrowed == RequirePasses(Held, fresh)
<1>3. narrowed \in Baselines /\ fresh \in SUBSET BasePasses
  BY <1>1, NarrowedType DEF BasePasses
<1>4. campaign' = campaign \/ campaign' = [campaign EXCEPT !.baseline = narrowed]
  BY <1>2
<1>5. past' = past \/ past' = [past EXCEPT !.bases = past.bases \cup {fresh}]
  BY <1>2
<1>6. \/ job' = [job EXCEPT !.at = "measure", !.baseline = narrowed]
      \/ job' = [job EXCEPT !.at = "return"]
  BY <1>2
<1> HIDE DEF fresh, narrowed
<1>7. campaign' \in CampaignStates /\ disk' \in CampaignStates
  <2>1. campaign' \in CampaignStates
    BY <1>1, <1>3, <1>4 DEF CampaignStates
  <2> QED
    BY <2>1 DEF Narrow, SaveOrKeep, EvaluationTypeOK
<1>8. past' \in Pasts
  <2>1. past \in Pasts /\ past.bases \cup {fresh} \in SUBSET SUBSET BasePasses
    BY <1>3 DEF EvaluationTypeOK, Pasts
  <2> QED
    BY <1>5, <2>1 DEF Pasts
<1>9. /\ job' \in Evaluations /\ job'.at \in {"measure", "return"}
      /\ job'.defers = job.defers /\ job'.patch = job.patch
  BY <1>1, <1>3, <1>6 DEF Evaluations, Stages
<1> QED
  BY <1>1, <1>7, <1>8, <1>9, TreesTypeStep DEF EvaluationTypeOK

LEMMA KillType ==
    ASSUME EvaluationTypeOK, Kill
    PROVE  EvaluationTypeOK' /\ job' = NoJob
BY KillTrees DEF Kill, EvaluationTypeOK

(***************************************************************************)
(* Every step keeps the worktrees accounted for                            *)
(***************************************************************************)

LEMMA ProceedsTrees ==
    ASSUME EvaluationTypeOK, EvaluationNext, TreesInv, Proceeds
    PROVE  TreesInv'
<1>1. /\ Evaluating /\ job \in Evaluations /\ job' \in Evaluations
      /\ job'.patch = job.patch /\ "base" \in job.defers
      /\ job'.defers = IF Apply THEN job.defers \cup {job.patch} ELSE job.defers
  BY ProceedsJob DEF TreesInv
<1>2. Evaluating'
  BY <1>1 DEF Evaluating, Evaluations, Stages
<1>3. /\ Owned = OwnedAt(job.at, job.patch, job.defers)
      /\ Owned' = OwnedAt(job'.at, job'.patch, job'.defers)
  <2>1. Owned = OwnedAt(job.at, job.patch, job.defers)
    BY <1>1, OwnedEvaluating
  <2>2. Owned' = OwnedAt(job'.at, job'.patch, job'.defers)
    BY <1>2 DEF Owned, OwnedAt, Evaluating, At
  <2> QED
    BY <2>1, <2>2
<1>4. "base" \in job'.defers
  BY <1>1
<1>5. CASE ResolvePatch \/ RejectUnresolvedPatch
  <2>1. /\ job.at = "resolve" /\ job'.at \in {"prepare", "return"} /\ ~Apply
        /\ UNCHANGED <<trees, left>> \/ CreateTree("base") \/ CreateTreeFails("base")
    BY <1>1, <1>5 DEF ResolvePatch, RejectUnresolvedPatch, RejectCandidate, Apply, At,
                      Evaluations
  <2>2. Owned = job.defers /\ Owned' = job.defers
    BY <1>1, <1>3, <2>1 DEF OwnedAt
  <2> QED
    BY <1>1, <1>4, <2>1, <2>2, KeptTidy, CreatedTidy, UncreatedTidy DEF TreesInv
<1>6. CASE Prepare
  <2>1. job.at = "prepare" /\ job'.at = "apply" /\ ~Apply /\ CreateTree(job.patch)
    BY <1>1, <1>6 DEF Prepare, Apply, At, Evaluations
  <2>2. Owned = job.defers /\ Owned' = job.defers \cup {job.patch}
    BY <1>1, <1>3, <2>1 DEF OwnedAt
  <2> QED
    BY <1>4, <2>1, <2>2, CreatedTidy DEF TreesInv
<1>7. CASE RejectUncreated
  <2>1. job.at = "prepare" /\ job'.at = "return" /\ ~Apply /\ CreateTreeFails(job.patch)
    BY <1>1, <1>7 DEF RejectUncreated, RejectCandidate, Apply, At, Evaluations
  <2>2. Owned = job.defers /\ Owned' = job.defers
    BY <1>1, <1>3, <2>1 DEF OwnedAt
  <2> QED
    BY <1>4, <2>1, <2>2, UncreatedTidy DEF TreesInv
<1>8. CASE Apply
  <2>1. job.at = "apply" /\ job'.at = "shape" /\ UNCHANGED <<trees, left>>
    BY <1>1, <1>8 DEF Apply, At, Evaluations
  <2>2. Owned = job.defers \cup {job.patch} /\ Owned' = job.defers \cup {job.patch}
    BY <1>1, <1>3, <1>8, <2>1 DEF OwnedAt
  <2> QED
    BY <1>4, <2>1, <2>2, KeptTidy DEF TreesInv
<1>9. CASE RejectUnapplied
  <2>1. job.at = "apply" /\ job'.at = "return" /\ RemoveTrees({job.patch})
    BY <1>1, <1>9 DEF RejectUnapplied, RejectCandidate, At, Evaluations
  <2>2. Owned = job.defers \cup {job.patch} /\ job.defers \subseteq Owned'
    BY <1>1, <1>3, <2>1 DEF OwnedAt
  <2> QED
    BY <1>4, <2>1, <2>2, RemovedTidy DEF TreesInv
<1>10. CASE Evaluating /\ CreateSuite
  <2>1. job.at = "recheck" /\ job'.at = "rerun" /\ ~Apply /\ CreateTree("suite")
    BY <1>1, <1>10 DEF CreateSuite, Apply, At, Evaluations, Stages
  <2>2. Owned = job.defers /\ Owned' = job.defers \cup {"suite"}
    BY <1>1, <1>3, <2>1 DEF OwnedAt
  <2> QED
    BY <1>4, <2>1, <2>2, CreatedTidy DEF TreesInv
<1>11. CASE CancelEvaluation
  <2>1. job'.at = job.at /\ job'.defers = job.defers /\ UNCHANGED <<trees, left>>
    BY <1>1, <1>11 DEF CancelEvaluation, Evaluations
  <2> QED
    BY <1>1, <1>3, <1>4, <2>1, KeptTidy DEF TreesInv
<1>12. CASE HasShape \/ BuildCandidate \/ RejectBeforeTests \/ TestsRejected
             \/ MeasureAndFinalize
  <2>1. /\ job.at \in {"shape", "build", "test", "measure"} /\ UNCHANGED <<trees, left>>
        /\ job.defers \subseteq job'.defers
    BY <1>1, <1>12 DEF HasShape, BuildCandidate, RejectBeforeTests, TestsRejected,
                       MeasureAndFinalize, At
  <2>2. Owned = job.defers /\ job'.defers \subseteq Owned'
    BY <1>3, <2>1 DEF OwnedAt
  <2> QED
    BY <1>4, <2>1, <2>2, KeptTidy DEF TreesInv
<1> QED
  BY <1>5, <1>6, <1>7, <1>8, <1>9, <1>10, <1>11, <1>12 DEF Proceeds

LEMMA GivesTrees ==
    ASSUME EvaluationTypeOK, TreesInv, Gives
    PROVE  TreesInv'
<1>1. Evaluating /\ job \in Evaluations /\ "base" \in job.defers
  BY GivesJob DEF TreesInv
<1>2. Owned = OwnedAt(job.at, job.patch, job.defers)
  BY <1>1, OwnedEvaluating
<1>3. CASE NothingUnstable
  <2>1. /\ job.at \in {"recheck", "rerun"} /\ job'.at = "return" /\ job'.defers = job.defers
        /\ CreateTreeFails("suite") \/ RemoveTrees({"suite"})
    BY <1>1, <1>3 DEF NothingUnstable, RejectCandidate, At, Evaluations
  <2>2. Evaluating' /\ job.defers \subseteq Owned'
    BY <2>1 DEF Owned, Evaluating
  <2>3. Owned \ {"suite"} \subseteq Owned'
    BY <1>2, <2>1, <2>2 DEF OwnedAt
  <2> QED
    BY <1>1, <2>1, <2>3, UncreatedTidy, RemovedTidy DEF TreesInv
<1>4. CASE Return
  <2>1. /\ job.at = "return" /\ job'.at = "idle" /\ RemoveTrees(job.defers)
    BY <1>4 DEF Return, At, NoJob
  <2>2. Owned = job.defers /\ ~Evaluating'
    BY <1>2, <2>1 DEF OwnedAt, Evaluating
  <2> QED
    BY <2>1, <2>2, RemovedTidy DEF TreesInv
<1> QED
  BY <1>3, <1>4 DEF Gives

LEMMA PreparesTrees ==
    ASSUME EvaluationTypeOK, TreesInv, Prepares \/ RecordBaseline
    PROVE  TreesInv'
<1>1. ~Evaluating /\ ~Evaluating'
  <2>1. CASE Prepares
    BY <2>1, PreparesJob DEF Evaluating, NoJob, BaselineJobs
  <2>2. CASE RecordBaseline
    BY <2>2 DEF RecordBaseline, Evaluating, At, NoJob
  <2> QED
    BY <2>1, <2>2
<1>2. /\ Owned = OwnedAt(job.at, job.patch, {})
      /\ Owned' = OwnedAt(job'.at, job'.patch, {})
  <2>1. Owned = OwnedAt(job.at, job.patch, {})
    BY <1>1, OwnedOtherwise
  <2>2. Owned' = OwnedAt(job'.at, job'.patch, {})
    BY <1>1 DEF Owned, OwnedAt, Evaluating, At
  <2> QED
    BY <2>1, <2>2
<1>3. CASE StartBaseline
  <2>1. job.at = "idle" /\ UNCHANGED <<trees, left>>
    BY <1>3 DEF StartBaseline, At
  <2>2. Owned = {}
    BY <1>2, <2>1 DEF OwnedAt
  <2> QED
    BY <1>1, <2>1, <2>2, KeptTidy DEF TreesInv
<1>4. CASE RefuseBaseline \/ RecordBaseline
  <2>1. \/ job.at = "baseline" /\ CreateTreeFails("suite")
        \/ job.at = "suite" /\ RemoveTrees({"suite"})
    BY <1>4 DEF RefuseBaseline, RecordBaseline, At
  <2>2. Owned \subseteq {"suite"}
    BY <1>2, <2>1 DEF OwnedAt
  <2> QED
    BY <1>1, <2>1, <2>2, UncreatedTidy, RemovedTidy DEF TreesInv
<1>5. CASE ~Evaluating /\ CancelEvaluation
  <2>1. job \in BaselineJobs
    <3>1. job \in {NoJob} \cup BaselineJobs
      BY <1>5, PreparesJob DEF Prepares
    <3> QED
      BY <1>5, <3>1 DEF CancelEvaluation, At, NoJob
  <2>2. /\ job.at \in {"baseline", "suite"} /\ job'.at = job.at
        /\ UNCHANGED <<trees, left>>
    BY <1>5, <2>1 DEF CancelEvaluation, BaselineJobs
  <2>3. Owned \subseteq Owned'
    BY <1>2, <2>2 DEF OwnedAt
  <2> QED
    BY <1>1, <2>2, <2>3, KeptTidy DEF TreesInv
<1>6. CASE ~Evaluating /\ CreateSuite
  <2>1. job.at = "baseline" /\ job'.at = "suite" /\ CreateTree("suite")
    BY <1>6 DEF CreateSuite, Evaluating, EvaluationTypeOK, BaselineJobs, Evaluations, Stages,
       NoJob
  <2>2. Owned = {} /\ Owned' = {"suite"}
    BY <1>2, <2>1 DEF OwnedAt
  <2> QED
    BY <1>1, <2>1, <2>2, CreatedTidy DEF TreesInv
<1> QED
  BY <1>3, <1>4, <1>5, <1>6 DEF Prepares

LEMMA StartsTrees ==
    ASSUME EvaluationTypeOK, EvaluationNext, TreesInv, StartEvaluation
    PROVE  TreesInv'
<1>1. ~Evaluating /\ job.at = "idle" /\ UNCHANGED <<trees, left>>
  BY DEF StartEvaluation, Evaluating, At
<1>2. Owned = {}
  BY <1>1 DEF Owned, At
<1>3. "base" \in job'.defers
  BY StartsType
<1> QED
  BY <1>1, <1>2, <1>3, KeptTidy DEF TreesInv

LEMMA TestsTrees ==
    ASSUME EvaluationTypeOK, EvaluationNext, TreesInv, CandidateTests \/ Narrow
    PROVE  TreesInv'
<1>1. /\ Evaluating /\ job \in Evaluations /\ job' \in Evaluations
      /\ job'.defers = job.defers /\ "base" \in job.defers
      /\ job'.at \in {"measure", "recheck", "return"}
  BY TestsType, NarrowType DEF TreesInv
<1>2. Evaluating' /\ job.defers \subseteq Owned'
  BY <1>1 DEF Evaluating, Evaluations, Stages, Owned
<1>3. Owned = OwnedAt(job.at, job.patch, job.defers)
  BY <1>1, OwnedEvaluating
<1>4. CASE CandidateTests
  <2>1. job.at = "test" /\ UNCHANGED <<trees, left>>
    BY <1>4 DEF CandidateTests, At
  <2>2. Owned = job.defers
    BY <1>3, <2>1 DEF OwnedAt
  <2> QED
    BY <1>1, <1>2, <2>1, <2>2, KeptTidy DEF TreesInv
<1>5. CASE Narrow
  <2>1. job.at = "rerun" /\ RemoveTrees({"suite"})
    BY <1>5 DEF Narrow, At
  <2>2. Owned \ {"suite"} \subseteq job.defers
    BY <1>3, <2>1 DEF OwnedAt
  <2> QED
    BY <1>1, <1>2, <2>1, <2>2, RemovedTidy DEF TreesInv
<1> QED
  BY <1>4, <1>5

LEMMA KillTidy ==
    ASSUME EvaluationTypeOK, Kill
    PROVE  TreesInv'
<1>1. job'.at = "idle" /\ left' = trees'
  BY KillTrees DEF Kill, NoJob
<1> QED
  BY <1>1 DEF TreesInv, TreesAreTidied, Evaluating

(***************************************************************************)
(* The gate                                                                *)
(***************************************************************************)

(* A recorded baseline requires tests that a run of the base passed, and   *)
(* every stable one.                                                       *)
RequiresStable(state) ==
    state.marked =>
        /\ past.bases # {}
        /\ state.baseline.passes \subseteq FirstPasses
        /\ StableTests \subseteq state.baseline.passes

(* A candidate is judged by a baseline that differs from the campaign's in *)
(* the tests it requires at most.                                          *)
JudgedAlike ==
    Evaluating =>
        /\ campaign.marked
        /\ job.baseline.failures = campaign.baseline.failures
        /\ job.baseline.unbuildable = campaign.baseline.unbuildable

(* Past the suite there is what it printed.                                *)
RanTests == job.at \in {"recheck", "rerun", "measure"} => job.output \in CandidateOutputs

GateInv ==
    /\ RequiresStable(campaign) /\ RequiresStable(disk)
    /\ JudgedAlike /\ RanTests /\ MeasuredPassedTheGate

(* A further run of the base makes no test stable that was not.            *)
LEMMA StableShrinks ==
    ASSUME past.bases # {}, past'.bases = past.bases \/
             \E fresh : past'.bases = past.bases \cup {fresh}
    PROVE  /\ StableTests' \subseteq StableTests /\ FirstPasses \subseteq FirstPasses'
           /\ RegeneratedTops \subseteq RegeneratedTops'
<1>1. past.bases \subseteq past'.bases
  OBVIOUS
<1>2. FirstPasses \subseteq FirstPasses'
  BY <1>1 DEF FirstPasses
<1>3. RegeneratedTops \subseteq RegeneratedTops'
  BY <1>1, <1>2 DEF RegeneratedTops
<1>4. StableTests' \subseteq StableTests
  <2> SUFFICES ASSUME NEW t \in StableTests' PROVE t \in StableTests
    OBVIOUS
  <2>1. /\ \A run \in past.bases : t \in run
        /\ t.sub = "" \/ [pkg |-> t.pkg, top |-> t.top] \notin RegeneratedTops
    BY <1>1, <1>3 DEF StableTests
  <2>2. t \in FirstPasses
    BY <2>1 DEF FirstPasses
  <2> QED
    BY <2>1, <2>2 DEF StableTests
<1> QED
  BY <1>2, <1>3, <1>4

LEMMA RequiredKept ==
    ASSUME NEW state, RequiresStable(state),
           \/ past'.bases = past.bases
           \/ past.bases # {} /\ \E fresh : past'.bases = past.bases \cup {fresh},
           NEW next, next.marked = state.marked,
           next.baseline.passes = state.baseline.passes
    PROVE  /\ next.marked => past'.bases # {}
           /\ next.marked => next.baseline.passes \subseteq FirstPasses'
           /\ next.marked => StableTests' \subseteq next.baseline.passes
BY StableShrinks DEF RequiresStable

(* splitStable drops no stable test: what it drops beyond the tests that   *)
(* the fresh run lost has a sibling among them.                            *)
LEMMA NarrowedRequires ==
    ASSUME NEW passes, past.bases # {}, passes \subseteq FirstPasses,
           StableTests \subseteq passes, NEW fresh,
           past'.bases = past.bases \cup {fresh}
    PROVE  /\ StillRequired(passes, fresh) \subseteq FirstPasses'
           /\ StableTests' \subseteq StillRequired(passes, fresh)
<1>1. /\ StableTests' \subseteq StableTests /\ FirstPasses \subseteq FirstPasses'
  BY StableShrinks
<1>2. StillRequired(passes, fresh) \subseteq FirstPasses'
  BY <1>1 DEF StillRequired
<1> DEFINE randomized == {[pkg |-> t.pkg, top |-> t.top] :
                             t \in {x \in passes \ fresh : x.sub # ""}}
<1>3. randomized \subseteq RegeneratedTops'
  <2>1. \A x \in passes \ fresh : x \in FirstPasses' /\ fresh \in past'.bases
    BY <1>1
  <2> QED
    BY <2>1 DEF RegeneratedTops
<1>4. ASSUME NEW t \in StableTests' PROVE t \in StillRequired(passes, fresh)
  <2>1. t \in passes /\ t \in fresh
    BY <1>1 DEF StableTests
  <2>2. t.sub = "" \/ [pkg |-> t.pkg, top |-> t.top] \notin randomized
    BY <1>3 DEF StableTests
  <2> QED
    BY <2>1, <2>2 DEF StillRequired
<1> QED
  BY <1>2, <1>4

(* What an output says when nothing of it counts against the candidate.    *)
LEMMA PassedGate ==
    ASSUME NEW output \in CandidateOutputs, NEW b, Classify(b, output) = "passed"
    PROVE  /\ Outcome(output).failed \subseteq b.failures
           /\ b.passes \subseteq Outcome(output).passed
           /\ output.unbuilt \subseteq b.unbuildable
<1>1. /\ NewlyBroken(b, Outcome(output)) = {} /\ NewFailures(b, Outcome(output)) = {}
      /\ Lost(b, Outcome(output)) = {}
  BY DEF Classify
<1>2. output.unbuilt \subseteq Outcome(output).packages
  <2>1. output.unbuilt \subseteq output.dead
    BY TestGateAssumption DEF IsOutput
  <2> QED
    BY <2>1 DEF Outcome
<1> QED
  BY <1>1, <1>2 DEF NewlyBroken, NewFailures, Lost

LEMMA StartsGate ==
    ASSUME EvaluationTypeOK, EvaluationNext, GateInv, StartEvaluation \/ Prepares
    PROVE  GateInv'
<1>1. past'.bases = past.bases /\ UNCHANGED <<campaign, disk>>
  BY StartsType, PreparesJob DEF StartEvaluation
<1>2. RequiresStable(campaign)' /\ RequiresStable(disk)'
  BY <1>1 DEF GateInv, RequiresStable, FirstPasses, StableTests, RegeneratedTops
<1>3. ~At("measure")' /\ JudgedAlike' /\ RanTests'
  <2>1. CASE Prepares
    <3>1. job'.at \in {"baseline", "suite", "idle"}
      BY <2>1, PreparesJob DEF NoJob, BaselineJobs
    <3> QED
      BY <3>1 DEF At, JudgedAlike, Evaluating, RanTests
  <2>2. CASE StartEvaluation
    <3>1. job'.at = "resolve" /\ job'.baseline = campaign.baseline /\ campaign'.marked
      BY <1>1, <2>2, StartsType DEF StartEvaluation
    <3> QED
      BY <1>1, <3>1 DEF At, JudgedAlike, RanTests
  <2> QED
    BY <2>1, <2>2
<1> QED
  BY <1>2, <1>3 DEF GateInv, MeasuredPassedTheGate

LEMMA RecordGate ==
    ASSUME EvaluationTypeOK, GateInv, RecordBaseline
    PROVE  GateInv'
<1>1. PICK output \in BaseOutputs :
        /\ campaign' = [campaign EXCEPT
                          !.marked = TRUE,
                          !.baseline = Baseline(output, campaign.baseline.rechecks)]
        /\ past' = [past EXCEPT !.bases = {Outcome(output).passed}]
        /\ disk' = campaign' /\ job' = NoJob
  BY DEF RecordBaseline
<1>2. /\ campaign'.baseline.passes = Outcome(output).passed
      /\ past'.bases = {Outcome(output).passed}
  BY <1>1 DEF EvaluationTypeOK, CampaignStates, Pasts, Baseline
<1>3. FirstPasses' = Outcome(output).passed
  BY <1>2 DEF FirstPasses
<1>4. StableTests' \subseteq FirstPasses'
  BY DEF StableTests
<1>5. RequiresStable(campaign)' /\ RequiresStable(disk)'
  BY <1>1, <1>2, <1>3, <1>4 DEF RequiresStable
<1>6. job'.at = "idle"
  BY <1>1 DEF NoJob
<1> QED
  BY <1>5, <1>6 DEF GateInv, JudgedAlike, RanTests, MeasuredPassedTheGate, At, Evaluating

(* Steps that change no baseline.                                          *)
LEMMA ProceedsGate ==
    ASSUME EvaluationTypeOK, GateInv, Proceeds
    PROVE  GateInv'
<1>1. /\ Evaluating /\ job'.baseline = job.baseline /\ UNCHANGED <<campaign, disk, past>>
      /\ job'.kind = job.kind /\ job'.output = job.output /\ NextStage(job.at, job'.at)
  BY ProceedsJob
<1>2. RequiresStable(campaign)' /\ RequiresStable(disk)' /\ JudgedAlike'
  BY <1>1 DEF GateInv, RequiresStable, FirstPasses, StableTests, RegeneratedTops, JudgedAlike
<1>3. RanTests'
  BY <1>1 DEF GateInv, RanTests, NextStage
<1>4. MeasuredPassedTheGate'
  <2>1. CASE job'.at = "measure"
    <3>1. At("measure")
      BY <1>1, <2>1 DEF NextStage, At
    <3> QED
      BY <1>1, <3>1 DEF GateInv, MeasuredPassedTheGate, StableTests, FirstPasses,
                        RegeneratedTops
  <2>2. CASE job'.at # "measure"
    BY <2>2 DEF MeasuredPassedTheGate, At
  <2> QED
    BY <2>1, <2>2
<1> QED
  BY <1>2, <1>3, <1>4 DEF GateInv

LEMMA GivesGate ==
    ASSUME EvaluationTypeOK, GateInv, Gives
    PROVE  GateInv'
<1>1. /\ Evaluating /\ past' = past /\ campaign'.marked = campaign.marked
      /\ campaign'.baseline = campaign.baseline /\ disk' \in {disk, campaign'}
      /\ job' = NoJob \/ (job'.at = "return" /\ job'.baseline = job.baseline)
  BY GivesJob
<1>2. job'.at \in {"idle", "return"}
  BY <1>1 DEF NoJob
<1>3. RequiresStable(campaign)' /\ RequiresStable(disk)'
  BY <1>1 DEF GateInv, RequiresStable, FirstPasses, StableTests, RegeneratedTops
<1>4. JudgedAlike'
  <2>1. Evaluating' => job'.baseline = job.baseline
    BY <1>1 DEF Evaluating, NoJob
  <2> QED
    BY <1>1, <2>1 DEF GateInv, JudgedAlike
<1> QED
  BY <1>2, <1>3, <1>4 DEF GateInv, RanTests, MeasuredPassedTheGate, At

LEMMA TestsGate ==
    ASSUME EvaluationTypeOK, EvaluationNext, GateInv, CandidateTests
    PROVE  GateInv'
<1>1. /\ Evaluating /\ Evaluating' /\ job \in Evaluations /\ job' \in Evaluations
      /\ UNCHANGED <<disk, past>> /\ Held \in Baselines /\ campaign \in CampaignStates
  BY TestsType, HeldType DEF CandidateTests, EvaluationTypeOK, Evaluating, Evaluations, Stages
<1>2. /\ campaign.marked /\ Held.failures = campaign.baseline.failures
      /\ Held.unbuildable = campaign.baseline.unbuildable
      /\ StableTests \subseteq campaign.baseline.passes
      /\ job.kind = "attempt" => Held = campaign.baseline
  BY <1>1 DEF GateInv, JudgedAlike, RequiresStable, Held, NarrowsCampaign
<1>3. PICK output \in CandidateOutputs :
        \/ /\ Classify(Held, output) = "passed"
           /\ job' = [job EXCEPT !.at = "measure", !.output = output]
           /\ UNCHANGED campaign
        \/ /\ MayRecheck(Held, output)
           /\ job' = [job EXCEPT !.at = "recheck", !.output = output, !.baseline = Spend(Held)]
           /\ campaign' = IF NarrowsCampaign(job.kind)
                          THEN [campaign EXCEPT !.baseline = Spend(@)] ELSE campaign
  BY DEF CandidateTests
<1>4. CASE /\ Classify(Held, output) = "passed"
           /\ job' = [job EXCEPT !.at = "measure", !.output = output]
           /\ UNCHANGED campaign
  <2>1. job'.output = output /\ job'.kind = job.kind /\ job'.baseline = job.baseline
    BY <1>1, <1>4 DEF Evaluations
  <2>2. /\ Outcome(output).failed \subseteq Held.failures
        /\ Held.passes \subseteq Outcome(output).passed
        /\ output.unbuilt \subseteq Held.unbuildable
    BY <1>4, PassedGate
  <2>3. MeasuredPassedTheGate'
    <3>1. /\ Outcome(output).failed \subseteq campaign'.baseline.failures
          /\ job.kind = "attempt" => StableTests' \subseteq Outcome(output).passed
          /\ output.unbuilt \subseteq campaign'.baseline.unbuildable
      BY <1>1, <1>2, <1>4, <2>2 DEF StableTests, FirstPasses, RegeneratedTops
    <3> QED
      BY <2>1, <3>1 DEF MeasuredPassedTheGate
  <2>4. RequiresStable(campaign)' /\ RequiresStable(disk)' /\ JudgedAlike'
    BY <1>1, <1>4, <2>1 DEF GateInv, RequiresStable, FirstPasses, StableTests,
                            RegeneratedTops, JudgedAlike
  <2>5. RanTests'
    BY <2>1 DEF RanTests
  <2> QED
    BY <2>3, <2>4, <2>5 DEF GateInv
<1>5. CASE /\ MayRecheck(Held, output)
           /\ job' = [job EXCEPT !.at = "recheck", !.output = output, !.baseline = Spend(Held)]
           /\ campaign' = IF NarrowsCampaign(job.kind)
                          THEN [campaign EXCEPT !.baseline = Spend(@)] ELSE campaign
  <2>1. /\ Spend(Held).passes = Held.passes /\ Spend(Held).failures = Held.failures
        /\ Spend(Held).unbuildable = Held.unbuildable
    BY <1>1, <1>5, SpentType
  <2>2. job'.at = "recheck" /\ job'.baseline = Spend(Held) /\ job'.output = output
    BY <1>1, <1>5 DEF Evaluations
  <2>3. /\ campaign'.marked = campaign.marked
        /\ campaign'.baseline.passes = campaign.baseline.passes
        /\ campaign'.baseline.failures = campaign.baseline.failures
        /\ campaign'.baseline.unbuildable = campaign.baseline.unbuildable
    <3>1. NarrowsCampaign(job.kind) => Held = campaign.baseline
      BY DEF Held
    <3> QED
      BY <1>1, <1>5, <2>1, <3>1 DEF CampaignStates
  <2>4. RequiresStable(campaign)' /\ RequiresStable(disk)'
    BY <1>1, <2>3 DEF GateInv, RequiresStable, FirstPasses, StableTests, RegeneratedTops
  <2>5. JudgedAlike'
    BY <1>2, <2>1, <2>2, <2>3 DEF JudgedAlike
  <2> QED
    BY <2>2, <2>4, <2>5 DEF GateInv, RanTests, MeasuredPassedTheGate, At
<1> QED
  BY <1>3, <1>4, <1>5

LEMMA NarrowGate ==
    ASSUME EvaluationTypeOK, EvaluationNext, GateInv, Narrow
    PROVE  GateInv'
<1>1. /\ Evaluating /\ job \in Evaluations /\ Held \in Baselines /\ campaign \in CampaignStates
      /\ job.at = "rerun" /\ past \in Pasts
  BY NarrowType, HeldType DEF Narrow, At, EvaluationTypeOK
<1>2. /\ campaign.marked /\ past.bases # {} /\ Held.failures = campaign.baseline.failures
      /\ Held.unbuildable = campaign.baseline.unbuildable
      /\ StableTests \subseteq campaign.baseline.passes
      /\ campaign.baseline.passes \subseteq FirstPasses
      /\ NarrowsCampaign(job.kind) => Held = campaign.baseline
      /\ job.kind = "attempt" <=> NarrowsCampaign(job.kind)
  BY <1>1 DEF GateInv, JudgedAlike, RequiresStable, Held, NarrowsCampaign
<1>3. PICK base \in BaseOutputs :
        LET fresh == Outcome(base).passed
            narrowed == RequirePasses(Held, fresh)
        IN  /\ campaign' = IF NarrowsCampaign(job.kind)
                           THEN [campaign EXCEPT !.baseline = narrowed] ELSE campaign
            /\ past' = IF NarrowsCampaign(job.kind)
                       THEN [past EXCEPT !.bases = @ \cup {fresh}] ELSE past
            /\ IF Classify(narrowed, job.output) = "passed"
               THEN job' = [job EXCEPT !.at = "measure", !.baseline = narrowed]
               ELSE job' = [job EXCEPT !.at = "return"]
  BY DEF Narrow
<1> DEFINE fresh == Outcome(base).passed
           narrowed == RequirePasses(Held, fresh)
<1>4. /\ narrowed.passes = StillRequired(Held.passes, fresh)
      /\ narrowed.failures = Held.failures /\ narrowed.unbuildable = Held.unbuildable
  BY <1>1, NarrowedType
<1>5. /\ campaign' = IF NarrowsCampaign(job.kind)
                     THEN [campaign EXCEPT !.baseline = narrowed] ELSE campaign
      /\ past' = IF NarrowsCampaign(job.kind)
                 THEN [past EXCEPT !.bases = past.bases \cup {fresh}] ELSE past
      /\ IF Classify(narrowed, job.output) = "passed"
         THEN job' = [job EXCEPT !.at = "measure", !.baseline = narrowed]
         ELSE job' = [job EXCEPT !.at = "return"]
  BY <1>3
<1>6. disk' = campaign' \/ disk' = disk
  BY DEF Narrow, SaveOrKeep
<1> HIDE DEF fresh, narrowed
<1>7. /\ campaign'.marked /\ campaign'.baseline.failures = campaign.baseline.failures
      /\ campaign'.baseline.unbuildable = campaign.baseline.unbuildable
      /\ NarrowsCampaign(job.kind) =>
            /\ campaign'.baseline.passes = StillRequired(campaign.baseline.passes, fresh)
            /\ past'.bases = past.bases \cup {fresh}
      /\ ~NarrowsCampaign(job.kind) => UNCHANGED <<campaign, past>>
  BY <1>1, <1>2, <1>4, <1>5 DEF CampaignStates, Pasts
<1>8. RequiresStable(campaign)'
  <2>1. CASE NarrowsCampaign(job.kind)
    <3>1. /\ campaign'.baseline.passes = StillRequired(campaign.baseline.passes, fresh)
          /\ past'.bases = past.bases \cup {fresh} /\ past'.bases # {}
      BY <1>7, <2>1
    <3>2. /\ StillRequired(campaign.baseline.passes, fresh) \subseteq FirstPasses'
          /\ StableTests' \subseteq StillRequired(campaign.baseline.passes, fresh)
      BY <1>2, <3>1, NarrowedRequires
    <3> QED
      BY <3>1, <3>2 DEF RequiresStable
  <2>2. CASE ~NarrowsCampaign(job.kind)
    BY <1>7, <2>2 DEF GateInv, RequiresStable, FirstPasses, StableTests, RegeneratedTops
  <2> QED
    BY <2>1, <2>2
<1>9. RequiresStable(disk)'
  <2>1. CASE disk' = disk
    <3>1. \/ past'.bases = past.bases
          \/ past.bases # {} /\ past'.bases = past.bases \cup {fresh}
      BY <1>2, <1>7
    <3> QED
      BY <2>1, <3>1, RequiredKept DEF GateInv, RequiresStable
  <2>2. CASE disk' = campaign'
    BY <1>8, <2>2 DEF RequiresStable
  <2> QED
    BY <1>6, <2>1, <2>2
<1>10. CASE Classify(narrowed, job.output) = "passed"
  <2>1. /\ job'.at = "measure" /\ job'.baseline = narrowed /\ job'.output = job.output
        /\ job'.kind = job.kind
    BY <1>1, <1>5, <1>10 DEF Evaluations
  <2>2. JudgedAlike'
    BY <1>2, <1>4, <1>7, <2>1 DEF JudgedAlike
  <2>3. MeasuredPassedTheGate'
    <3>1. job.output \in CandidateOutputs
      BY <1>1 DEF GateInv, RanTests
    <3>2. /\ Outcome(job.output).failed \subseteq narrowed.failures
          /\ narrowed.passes \subseteq Outcome(job.output).passed
          /\ job.output.unbuilt \subseteq narrowed.unbuildable
      BY <1>10, <3>1, PassedGate
    <3>3. job.kind = "attempt" => StableTests' \subseteq narrowed.passes
      BY <1>2, <1>4, <1>7, <1>8 DEF RequiresStable
    <3> QED
      BY <1>2, <1>4, <1>7, <2>1, <3>2, <3>3 DEF MeasuredPassedTheGate
  <2>4. RanTests'
    BY <1>1, <2>1 DEF GateInv, RanTests
  <2> QED
    BY <1>8, <1>9, <2>2, <2>3, <2>4 DEF GateInv
<1>11. CASE Classify(narrowed, job.output) # "passed"
  <2>1. job'.at = "return" /\ job'.baseline = job.baseline
    BY <1>1, <1>5, <1>11 DEF Evaluations
  <2>2. JudgedAlike'
    BY <1>1, <1>7, <2>1 DEF GateInv, JudgedAlike
  <2> QED
    BY <1>8, <1>9, <2>1, <2>2 DEF GateInv, RanTests, MeasuredPassedTheGate, At
<1> QED
  BY <1>10, <1>11

LEMMA KillGate ==
    ASSUME EvaluationTypeOK, GateInv, Kill
    PROVE  GateInv'
<1>1. past'.bases = past.bases
  BY DEF Kill, EvaluationTypeOK, Pasts
<1>2. job'.at = "idle" /\ campaign' = disk /\ disk' = disk
  BY DEF Kill, NoJob
<1>3. RequiresStable(campaign)' /\ RequiresStable(disk)'
  BY <1>1, <1>2 DEF GateInv, RequiresStable, FirstPasses, StableTests, RegeneratedTops
<1> QED
  BY <1>2, <1>3 DEF GateInv, JudgedAlike, RanTests, MeasuredPassedTheGate, At, Evaluating

(***************************************************************************)
(* The invariant and what follows from it                                  *)
(***************************************************************************)

EvaluationInv == EvaluationTypeOK /\ TreesInv /\ GateInv

LEMMA EvaluationInitial == EvaluationInit => EvaluationInv
<1> SUFFICES ASSUME EvaluationInit PROVE EvaluationInv
  OBVIOUS
<1>1. /\ campaign = [marked |-> FALSE, baseline |-> NoBaseline,
                      recorded |-> {}, measured |-> {}]
      /\ disk = campaign /\ job = NoJob /\ job.at = "idle"
  BY DEF EvaluationInit, NoJob
<1>2. EvaluationTypeOK
  <2>1. NoBaseline \in Baselines
    BY DEF NoBaseline, Baselines, MaxBaselineRechecks
  <2>2. campaign \in CampaignStates
    BY <1>1, <2>1 DEF CampaignStates
  <2>3. TreesOK /\ past \in Pasts
    BY DEF EvaluationInit, TreesOK, Pasts
  <2> QED
    BY <1>1, <2>2, <2>3 DEF EvaluationTypeOK
<1>3. TreesInv
  BY <1>1 DEF EvaluationInit, TreesInv, TreesAreTidied, Evaluating
<1>4. GateInv
  BY <1>1 DEF GateInv, RequiresStable, JudgedAlike, RanTests, MeasuredPassedTheGate, At,
              Evaluating
<1> QED
  BY <1>2, <1>3, <1>4 DEF EvaluationInv

LEMMA EvaluationStep == EvaluationInv /\ [EvaluationNext]_evaluationVars => EvaluationInv'
<1> SUFFICES ASSUME EvaluationInv, [EvaluationNext]_evaluationVars
             PROVE  EvaluationInv'
  OBVIOUS
<1>1. EvaluationTypeOK /\ TreesInv /\ GateInv
  BY DEF EvaluationInv
<1>2. CASE EvaluationNext /\ StartEvaluation
  BY <1>1, <1>2, StartsType, StartsTrees, StartsGate DEF EvaluationInv
<1>3. CASE EvaluationNext /\ Prepares
  BY <1>1, <1>3, PreparesType, PreparesTrees, StartsGate DEF EvaluationInv
<1>4. CASE EvaluationNext /\ RecordBaseline
  BY <1>1, <1>4, RecordType, PreparesTrees, RecordGate DEF EvaluationInv
<1>5. CASE EvaluationNext /\ Proceeds
  BY <1>1, <1>5, ProceedsType, ProceedsTrees, ProceedsGate DEF EvaluationInv
<1>6. CASE EvaluationNext /\ Gives
  BY <1>1, <1>6, GivesType, GivesTrees, GivesGate DEF EvaluationInv
<1>7. CASE EvaluationNext /\ CandidateTests
  BY <1>1, <1>7, TestsType, TestsTrees, TestsGate DEF EvaluationInv
<1>8. CASE EvaluationNext /\ Narrow
  BY <1>1, <1>8, NarrowType, TestsTrees, NarrowGate DEF EvaluationInv
<1>9. CASE Kill
  BY <1>1, <1>9, KillType, KillTidy, KillGate DEF EvaluationInv
<1>10. CASE UNCHANGED evaluationVars
  <2>1. EvaluationTypeOK' /\ TreesInv'
    BY <1>1, <1>10 DEF evaluationVars, EvaluationTypeOK, TreesOK, TreesInv, TreesAreTidied,
                       Owned, Evaluating, At
  <2>2. GateInv'
    BY <1>1, <1>10 DEF evaluationVars, GateInv, RequiresStable, FirstPasses, StableTests,
         RegeneratedTops, JudgedAlike, RanTests, MeasuredPassedTheGate, At, Evaluating
  <2> QED
    BY <2>1, <2>2 DEF EvaluationInv
<1>11. EvaluationNext => \/ StartEvaluation \/ Prepares \/ RecordBaseline \/ Proceeds
                        \/ Gives \/ CandidateTests \/ Narrow \/ Kill
  BY DEF EvaluationNext, Prepares, Proceeds, Gives
<1> QED
  BY <1>2, <1>3, <1>4, <1>5, <1>6, <1>7, <1>8, <1>9, <1>10, <1>11

(* The invariant that carries the theorems: the types, whose each worktree *)
(* is, and what the baselines of the campaign, of the disk and of the      *)
(* evaluation require.                                                     *)
THEOREM EvaluationInvariant == EvaluationSpec => []EvaluationInv
<1>1. EvaluationInit => EvaluationInv
  BY EvaluationInitial
<1>2. EvaluationInv /\ [EvaluationNext]_evaluationVars => EvaluationInv'
  BY EvaluationStep
<1> QED
  BY <1>1, <1>2, PTL DEF EvaluationSpec

(* Whatever git refuses, whichever stage ends a candidate, under a         *)
(* cancelled context too: a worktree is one the process will still remove, *)
(* or one a kill, a failed removal or a failed creation left (evaluate's   *)
(* deferred calls, Prepare, baseSuite.worktree).                           *)
THEOREM LeavesNoTrees == EvaluationSpec => []TreesAreTidied
<1>1. EvaluationInv => TreesAreTidied
  BY DEF EvaluationInv, TreesInv
<1> QED
  BY <1>1, EvaluationInvariant, PTL

(* Whatever the suite prints, however often attempts narrow the required   *)
(* set, through refused saves and kills: a test every run of the base      *)
(* passed stays required (pruneUnstablePasses, splitStable).               *)
THEOREM KeepsStableTests == EvaluationSpec => []StableTestsStayRequired
<1>1. EvaluationInv => StableTestsStayRequired
  BY DEF EvaluationInv, GateInv, RequiresStable, StableTestsStayRequired
<1> QED
  BY <1>1, EvaluationInvariant, PTL

(* No candidate is measured whose own run failed a test, or left a package *)
(* unbuilt, that the recorded baseline did not, or missed a test the base  *)
(* always passes (candidateTestsPassed).                                   *)
THEOREM MeasuresOnlyWhatPassed == EvaluationSpec => []MeasuredPassedTheGate
<1>1. EvaluationInv => MeasuredPassedTheGate
  BY DEF EvaluationInv, GateInv
<1> QED
  BY <1>1, EvaluationInvariant, PTL

(* No step of a verification changes what later attempts are held to,      *)
(* except that a kill forgets what was not saved (scratchBaselineFrom).    *)
THEOREM VerifiesApart == EvaluationSpec => VerificationLeavesBaseline
<1> DEFINE Apart == Evaluating /\ job.kind = "verify" =>
                       campaign'.baseline \in {campaign.baseline, disk.baseline}
<1>1. EvaluationInv /\ [EvaluationNext]_evaluationVars => [Apart]_evaluationVars
  <2> SUFFICES ASSUME EvaluationInv, EvaluationNext, Evaluating, job.kind = "verify"
               PROVE  campaign'.baseline \in {campaign.baseline, disk.baseline}
    OBVIOUS
  <2>1. EvaluationTypeOK /\ ~NarrowsCampaign(job.kind)
    BY DEF EvaluationInv, NarrowsCampaign
  <2>2. CASE StartEvaluation \/ RecordBaseline \/ Prepares
    BY <2>2 DEF StartEvaluation, RecordBaseline, Prepares, StartBaseline, RefuseBaseline, At,
                Evaluating
  <2>3. CASE Proceeds
    BY <2>1, <2>3, ProceedsJob
  <2>4. CASE Gives
    BY <2>1, <2>4, GivesJob
  <2>5. CASE CandidateTests \/ Narrow
    BY <2>1, <2>5 DEF CandidateTests, Narrow
  <2>6. CASE Kill
    BY <2>6 DEF Kill
  <2> QED
    BY <2>2, <2>3, <2>4, <2>5, <2>6 DEF EvaluationNext, Prepares, Proceeds, Gives
<1> QED
  BY <1>1, EvaluationInvariant, PTL DEF EvaluationSpec, VerificationLeavesBaseline

=============================================================================
