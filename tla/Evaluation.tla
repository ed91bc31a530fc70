----------------------------- MODULE Evaluation -----------------------------
(***************************************************************************)
(* One campaign's candidate evaluations up to the measurement, and the     *)
(* verifications of its candidates (candidate_eval.go, evaluator.go,       *)
(* base_tree.go, verify.go, candidate/worktree.go): the stages a proposal  *)
(* passes, the worktrees they make and remove, by git commands that may    *)
(* fail, and the test baseline the gate may narrow, in processes that can  *)
(* be cancelled and killed between any two steps.                          *)
(***************************************************************************)
EXTENDS TestGate

CONSTANTS
    Patches,         \* normalized patches, which are candidate IDs
    MaxEvaluations   \* bound: evaluations and baseline runs that start

(* A candidate's worktree is named after its patch and is neither of the   *)
(* other two of the campaign directory.                                    *)
ASSUME EvaluationAssumption ==
    /\ MaxEvaluations \in Nat /\ Patches # {}
    /\ Patches \cap {"base", "suite"} = {}

VARIABLES
    campaign,   \* the campaign's state in the memory of the process
    disk,       \* the state last saved
    job,        \* what the process is at
    trees,      \* the worktrees under the campaign directory
    left,       \* history: those of them that a mishap left
    past        \* history: runs of the base, work started

evaluationVars == <<campaign, disk, job, trees, left, past>>

NoBaseline == [failures |-> {}, passes |-> {}, unbuildable |-> {}, rechecks |-> 0]

NoJob == [at |-> "idle"]
At(stage) == job.at = stage
Evaluating == job.at \in {"resolve", "prepare", "apply", "shape", "build", "test",
                          "recheck", "rerun", "measure", "return"}

EvaluationInit ==
    /\ campaign = [marked |-> FALSE, baseline |-> NoBaseline,
                   recorded |-> {}, measured |-> {}]
    /\ disk = campaign
    /\ job = NoJob
    /\ trees = {} /\ left = {}
    /\ past = [bases |-> {}, started |-> 0]

(* saveEvent; evaluation ignores a refusal, and the change stays in memory.*)
SaveOrKeep == disk' = campaign' \/ UNCHANGED disk

-----------------------------------------------------------------------------
(* The worktrees, by git commands                                          *)

(* git worktree add, in place of a base or suite tree left behind.         *)
CreateTree(tree) ==
    /\ trees' = trees \cup {tree} /\ left' = left \ {tree}

(* A creation that fails, or is cut by a cancelled context, may leave what *)
(* it had made, and so may the removal of what was there; git refuses to   *)
(* create a candidate's tree where there is one, and leaves it alone.      *)
CreateTreeFails(tree) ==
    \E rest \in IF tree \in Patches \cap trees THEN {{tree}} ELSE SUBSET {tree} :
       /\ trees' = (trees \ {tree}) \cup rest
       /\ left' = (left \ {tree}) \cup rest

(* Fault: a removal runs under the context of the evaluation.              *)
FaultWithoutCancel(these) == IF job.cancelled THEN {} ELSE these

(* Every removal runs under context.WithoutCancel.                         *)
WithoutCancel(these) == these

(* Removals, each of which may fail: the error is discarded.               *)
RemoveTrees(these) ==
    \E refused \in SUBSET (these \cap trees) :
       /\ trees' = trees \ (WithoutCancel(these) \ refused)
       /\ left' = (left \ these) \cup refused

-----------------------------------------------------------------------------
(* runBaselineTestStep runs the suite of the base in a worktree of its own.*)
StartBaseline ==
    /\ At("idle") /\ ~campaign.marked /\ past.started < MaxEvaluations
    /\ job' = [at |-> "baseline", cancelled |-> FALSE]
    /\ past' = [past EXCEPT !.started = @ + 1]
    /\ UNCHANGED <<campaign, disk, trees, left>>

Baseline(output, rechecks) ==
    LET o == Outcome(output) IN
    [failures |-> o.failed, passes |-> o.passed, unbuildable |-> o.packages,
     rechecks |-> rechecks]

(* baseSuite.worktree, for the baseline step and for a re-run.             *)
CreateSuite ==
    /\ job.at \in {"baseline", "recheck"} /\ ~job.cancelled
    /\ job' = [job EXCEPT !.at = IF @ = "baseline" THEN "suite" ELSE "rerun"]
    /\ CreateTree("suite")
    /\ UNCHANGED <<campaign, disk, past>>

RecordBaseline ==
    /\ At("suite") /\ RemoveTrees({"suite"})
    /\ \E output \in BaseOutputs :
          /\ ~BaselineRefused(output)
          /\ campaign' = [campaign EXCEPT
                            !.marked = TRUE,
                            !.baseline = Baseline(output, campaign.baseline.rechecks)]
          /\ past' = [past EXCEPT !.bases = {Outcome(output).passed}]
    /\ disk' = campaign'
    /\ job' = NoJob

(* No worktree, a refused output or a refused save: the step fails, and    *)
(* with it the process, as after a kill.                                   *)
RefuseBaseline ==
    /\ \/ At("baseline") /\ CreateTreeFails("suite")
       \/ At("suite") /\ RemoveTrees({"suite"})
    /\ job' = NoJob
    /\ UNCHANGED <<campaign, disk, past>>

-----------------------------------------------------------------------------
(* Fault: a verification narrows the campaign's own baseline.              *)
FaultNarrowsCampaign(kind) == TRUE

(* A verification narrows a copy, an attempt the campaign's own baseline.  *)
NarrowsCampaign(kind) == kind = "attempt"

RefuseRepeats(kind) == kind = "attempt"

(* `defers` is what the deferred calls of evaluate will remove: the base   *)
(* tree from the start, the candidate's worktree once it is prepared.      *)
Begun(kind, patch) ==
    [at |-> "resolve", kind |-> kind, patch |-> patch, output |-> "",
     baseline |-> campaign.baseline, cancelled |-> FALSE, defers |-> {"base"},
     result |-> "unresolved"]

(* An attempt, or a verification of an attempt that has a patch. Without   *)
(* free space evaluate returns before it has done or deferred anything.    *)
StartEvaluation ==
    /\ At("idle") /\ campaign.marked /\ past.started < MaxEvaluations
    /\ \E kind \in {"attempt", "verify"}, patch \in Patches :
          /\ kind = "verify" => patch \in campaign.recorded
          /\ job' = Begun(kind, patch)
    /\ past' = [past EXCEPT !.started = @ + 1]
    /\ UNCHANGED <<campaign, disk, trees, left>>

(* The baseline the gate holds this candidate to.                          *)
Held == IF NarrowsCampaign(job.kind) THEN campaign.baseline ELSE job.baseline

(* The duration budget or Ctrl-C, under any stage.                         *)
CancelEvaluation ==
    /\ ~At("idle") /\ ~job.cancelled
    /\ job' = [job EXCEPT !.cancelled = TRUE]
    /\ UNCHANGED <<campaign, disk, trees, left, past>>

(* A stage ends the candidate.                                             *)
RejectCandidate == job' = [job EXCEPT !.at = "return"] /\ UNCHANGED <<campaign, past>>

(* resolveCandidatePatch: a diff as it came, or one built against the base *)
(* tree, which is there or is created again (baseTree.root); the patch is  *)
(* then written.                                                           *)
ResolvePatch ==
    /\ At("resolve")
    /\ \/ UNCHANGED <<trees, left>>
       \/ ~job.cancelled /\ CreateTree("base")
    /\ job' = [job EXCEPT !.at = "prepare", !.result = "unmeasured"]
    /\ UNCHANGED <<campaign, disk, past>>

(* An empty or unusable answer, no base tree, no room for the patch.       *)
RejectUnresolvedPatch ==
    /\ At("resolve") /\ RejectCandidate
    /\ \/ UNCHANGED <<trees, left>>
       \/ ~job.cancelled /\ CreateTree("base")
       \/ CreateTreeFails("base")
    /\ UNCHANGED disk

(* WorktreeManager.Prepare: a worktree of the same patch that is already   *)
(* there makes git refuse to create it.                                    *)
Prepare ==
    /\ At("prepare") /\ ~job.cancelled /\ job.patch \notin trees
    /\ CreateTree(job.patch)
    /\ job' = [job EXCEPT !.at = "apply"]
    /\ UNCHANGED <<campaign, disk, past>>

(* Prepare returns without a Close: the diff is invalid, or no worktree.   *)
RejectUncreated ==
    /\ At("prepare") /\ RejectCandidate
    /\ CreateTreeFails(job.patch) /\ UNCHANGED disk

(* Once Prepare has returned, evaluate defers Close.                       *)
Apply ==
    /\ At("apply") /\ ~job.cancelled
    /\ job' = [job EXCEPT !.at = "shape", !.defers = @ \cup {job.patch}]
    /\ UNCHANGED <<campaign, disk, trees, left, past>>

(* A diff that does not apply, or a protected path: Prepare itself closes. *)
RejectUnapplied ==
    /\ At("apply") /\ RejectCandidate
    /\ RemoveTrees({job.patch}) /\ UNCHANGED disk

(* rejectMeasuredDuplicate: identical patches are measured once.           *)
HasShape ==
    /\ At("shape")
    /\ RefuseRepeats(job.kind) => job.patch \notin campaign.measured
    /\ job' = [job EXCEPT !.at = "build"]
    /\ UNCHANGED <<campaign, disk, trees, left, past>>

BuildCandidate ==
    /\ At("build") /\ ~job.cancelled
    /\ job' = [job EXCEPT !.at = "test"]
    /\ UNCHANGED <<campaign, disk, trees, left, past>>

(* A duplicate, another shape, an accepted fix, or it does not compile.    *)
RejectBeforeTests ==
    /\ job.at \in {"shape", "build"} /\ RejectCandidate
    /\ UNCHANGED <<disk, trees, left>>

(* spendRecheck comes before the suite runs; no event saves it yet.        *)
Spend(b) == [b EXCEPT !.rechecks = @ + 1]

(* The output decides, a cancelled run's no less.                          *)
CandidateTests ==
    /\ At("test")
    /\ \E output \in CandidateOutputs :
          \/ /\ Classify(Held, output) = "passed"
             /\ job' = [job EXCEPT !.at = "measure", !.output = output]
             /\ UNCHANGED campaign
          \/ /\ Classify(Held, output) # "passed" /\ MayRecheck(Held, output)
             /\ job' = [job EXCEPT !.at = "recheck", !.output = output,
                                   !.baseline = Spend(Held)]
             /\ campaign' = IF NarrowsCampaign(job.kind)
                            THEN [campaign EXCEPT !.baseline = Spend(@)] ELSE campaign
    /\ UNCHANGED <<disk, trees, left, past>>

TestsRejected ==
    /\ At("test") /\ RejectCandidate
    /\ \E output \in CandidateOutputs :
          Classify(Held, output) # "passed" /\ ~MayRecheck(Held, output)
    /\ UNCHANGED <<disk, trees, left>>

(* pruneUnstablePasses: nothing narrows when the fresh run has no worktree,*)
(* is refused, or passed every required test again.                        *)
NothingUnstable ==
    /\ \/ At("recheck") /\ CreateTreeFails("suite")
       \/ At("rerun") /\ RemoveTrees({"suite"})
    /\ RejectCandidate /\ SaveOrKeep

RequirePasses(b, fresh) == [b EXCEPT !.passes = StillRequired(@, fresh)]

Narrow ==
    /\ At("rerun") /\ RemoveTrees({"suite"})
    /\ \E output \in BaseOutputs :
          LET fresh == Outcome(output).passed
              narrowed == RequirePasses(Held, fresh)
          IN
          /\ ~BaselineRefused(output) /\ ~(Held.passes \subseteq fresh)
          /\ campaign' = IF NarrowsCampaign(job.kind)
                         THEN [campaign EXCEPT !.baseline = narrowed] ELSE campaign
          /\ past' = IF NarrowsCampaign(job.kind)
                     THEN [past EXCEPT !.bases = @ \cup {fresh}] ELSE past
          /\ job' = IF Classify(narrowed, job.output) = "passed"
                    THEN [job EXCEPT !.at = "measure", !.baseline = narrowed]
                    ELSE [job EXCEPT !.at = "return"]
    /\ SaveOrKeep

(* measureAndFinalize (Measurement.tla), with comparisons or, when the     *)
(* series failed, without.                                                 *)
MeasureAndFinalize ==
    /\ At("measure")
    /\ \E result \in {"measured", "unmeasured"} :
          job' = [job EXCEPT !.at = "return", !.result = result]
    /\ UNCHANGED <<campaign, disk, trees, left, past>>

(* The record of an attempt has a patch when one was resolved, and counts  *)
(* as measured with comparisons; a verification changes nothing an attempt *)
(* reads.                                                                  *)
Settled ==
    IF job.kind = "verify" \/ job.result = "unresolved" THEN campaign
    ELSE [campaign EXCEPT !.recorded = @ \cup {job.patch},
                          !.measured = IF job.result = "measured"
                                       THEN @ \cup {job.patch} ELSE @]

(* evaluate returns through its deferred calls, whatever stage ended it,   *)
(* and the verdict is recorded.                                            *)
Return ==
    /\ At("return") /\ RemoveTrees(job.defers)
    /\ job' = NoJob
    /\ campaign' = Settled /\ SaveOrKeep
    /\ UNCHANGED past

(* The tree a command of this stage may be creating or removing.           *)
UnderHand ==
    CASE At("resolve") -> {"base"}
      [] At("prepare") -> {job.patch} \ trees
      [] At("apply") -> {job.patch}
      [] job.at \in {"baseline", "suite", "recheck", "rerun"} -> {"suite"}
      [] At("return") -> job.defers
      [] OTHER -> {}

(* A kill loses the memory, runs no deferred call and leaves every tree of *)
(* the moment.                                                             *)
Kill ==
    /\ campaign' = disk /\ UNCHANGED <<disk, past>>
    /\ job' = NoJob
    /\ \E now \in SUBSET UnderHand : trees' = (trees \ UnderHand) \cup now
    /\ left' = trees'

EvaluationNext ==
    \/ StartBaseline \/ CreateSuite \/ RecordBaseline \/ RefuseBaseline
    \/ StartEvaluation \/ CancelEvaluation \/ ResolvePatch \/ RejectUnresolvedPatch
    \/ Prepare \/ RejectUncreated \/ Apply \/ RejectUnapplied
    \/ HasShape \/ BuildCandidate \/ RejectBeforeTests
    \/ CandidateTests \/ TestsRejected \/ NothingUnstable \/ Narrow
    \/ MeasureAndFinalize \/ Return \/ Kill

EvaluationSpec == EvaluationInit /\ [][EvaluationNext]_evaluationVars

-----------------------------------------------------------------------------
FirstPasses == UNION past.bases

RegeneratedTops ==
    {[pkg |-> t.pkg, top |-> t.top] :
        t \in {x \in FirstPasses : x.sub # "" /\ \E run \in past.bases : x \notin run}}

(* Passed by every run of the base, and no subtest of a test that names    *)
(* its subtests anew on every run.                                         *)
StableTests ==
    {t \in FirstPasses :
        /\ \A run \in past.bases : t \in run
        /\ t.sub = "" \/ [pkg |-> t.pkg, top |-> t.top] \notin RegeneratedTops}

(***************************************************************************)
(* However often the required set was narrowed, by attempts whose own runs *)
(* lost tests, through verifications, refused saves and kills: a test that *)
(* passed on every run of the unpatched revision is still required, unless *)
(* another subtest of its top-level test vanished from one                 *)
(* (pruneUnstablePasses, splitStable).                                     *)
(***************************************************************************)
StableTestsStayRequired ==
    campaign.marked => StableTests \subseteq campaign.baseline.passes

(***************************************************************************)
(* A candidate is measured only if its own run failed no test beyond those *)
(* the recorded baseline failed, and passed every test that the unpatched  *)
(* revision always passes (candidateTestsPassed).                          *)
(***************************************************************************)
MeasuredPassedTheGate ==
    At("measure") =>
        LET o == Outcome(job.output) IN
        /\ o.failed \subseteq campaign.baseline.failures
        /\ job.kind = "attempt" => StableTests \subseteq o.passed
        /\ job.output.unbuilt \subseteq campaign.baseline.unbuildable

(***************************************************************************)
(* A verification judges by the campaign's baseline and may narrow it for  *)
(* itself, but whatever it runs, no later attempt is held to less by it,   *)
(* nor has it fewer re-runs left (scratchBaselineFrom, Verify).            *)
(***************************************************************************)
VerificationLeavesBaseline ==
    [][Evaluating /\ job.kind = "verify" =>
        campaign'.baseline \in {campaign.baseline, disk.baseline}]_evaluationVars

(* The trees that the process will remove as it goes on: the deferred ones,*)
(* and those of a function that has not returned.                          *)
Owned ==
    UNION {IF Evaluating THEN job.defers ELSE {},
           IF At("apply") THEN {job.patch} ELSE {},
           IF At("suite") \/ At("rerun") THEN {"suite"} ELSE {}}

(***************************************************************************)
(* A worktree is the process's own to remove, or it was left by a kill, by *)
(* a removal that failed or by a creation that did, and not removed or     *)
(* replaced since. So no stage that ends a candidate forgets a tree, and a *)
(* cancelled context stops no removal (evaluate's deferred calls, Prepare, *)
(* baseSuite.worktree): an idle process has only such leftovers.           *)
(***************************************************************************)
TreesAreTidied == trees \subseteq left \cup Owned

=============================================================================
