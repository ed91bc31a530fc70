------------------------------ MODULE TestGate ------------------------------
(***************************************************************************)
(* The behavior gate of internal/campaign/testgate.go: what one run of     *)
(* `go test -json` says, when the unpatched revision can be a baseline,    *)
(* what counts against a candidate, and which tests stop being required.   *)
(***************************************************************************)
EXTENDS Integers, FiniteSets

CONSTANTS
    BaseOutputs,        \* what the suite prints on the unpatched revision
    CandidateOutputs    \* what it prints on a candidate

(* An output is a set of results.  A printed test name carries its         *)
(* package, its top-level test, its subtest ("" for none), and the pointer *)
(* address it may be named after.                                          *)
IsOutput(o) ==
    /\ DOMAIN o = {"readable", "exit", "results", "dead", "unbuilt"}
    /\ o.readable \in BOOLEAN /\ o.exit \in {0, 1}
    /\ o.unbuilt \subseteq o.dead
    /\ \A r \in o.results : r.action \in {"pass", "fail", "skip"}
    /\ ~o.readable => o.results = {} /\ o.dead = {}

ASSUME TestGateAssumption ==
    \A o \in BaseOutputs \cup CandidateOutputs : IsOutput(o)

StableTestName(test) == [pkg |-> test.pkg, top |-> test.top, sub |-> test.sub]

(* parseTestFailures: a test that ran several times is in several sets, a  *)
(* package counts when it never built or died without naming a failure.    *)
Outcome(output) ==
    LET named(action) == {StableTestName(r.test) : r \in {x \in output.results : x.action = action}}
    IN  [ failed |-> named("fail"), passed |-> named("pass"), skipped |-> named("skip"),
          packages |-> {p \in output.dead :
                          p \in output.unbuilt \/ \A t \in named("fail") : t.pkg # p} ]

(* baseSuite.run: an output no candidate could be attributed against.      *)
BaselineRefused(output) ==
    LET o == Outcome(output) IN
    \/ ~output.readable
    \/ o.packages # {} /\ o.passed = {}
    \/ output.exit # 0 /\ o.failed = {} /\ o.packages = {}

Lost(baseline, outcome) == baseline.passes \ outcome.passed

(* Fault: only lost passes and broken packages reject.                     *)
FaultNewFailures(baseline, outcome) == {}

NewFailures(baseline, outcome) == outcome.failed \ baseline.failures

NewlyBroken(baseline, outcome) == outcome.packages \ baseline.unbuildable

(* classifyTestOutcome.                                                    *)
Classify(baseline, output) ==
    LET o == Outcome(output) IN
    IF ~output.readable /\ output.exit # 0 THEN "unreadable"
    ELSE IF NewlyBroken(baseline, o) # {} THEN "unbuildable"
    ELSE IF NewFailures(baseline, o) # {} THEN "new failures"
    ELSE IF Lost(baseline, o) # {} THEN "lost passes"
    ELSE "passed"

(* The one fault a second baseline run can change: tests that did not run. *)
OnlyVanished(baseline, outcome) ==
    /\ NewlyBroken(baseline, outcome) = {}
    /\ NewFailures(baseline, outcome) = {}
    /\ Lost(baseline, outcome) # {}
    /\ Lost(baseline, outcome) \cap outcome.skipped = {}

MaxBaselineRechecks == 2

MayRecheck(baseline, output) ==
    /\ baseline.rechecks < MaxBaselineRechecks
    /\ output.readable
    /\ OnlyVanished(baseline, Outcome(output))

(* Fault: one lost test takes every test of its top-level test with it.    *)
FaultStillRequired(required, fresh) ==
    {t \in required : \A s \in required : s.top = t.top /\ s.pkg = t.pkg => s \in fresh}

(* splitStable: a subtest the fresh run lost takes every subtest of its    *)
(* top-level test with it, never the top-level test.                       *)
StillRequired(required, fresh) ==
    LET randomized == {[pkg |-> t.pkg, top |-> t.top] :
                          t \in {x \in required \ fresh : x.sub # ""}}
    IN  {t \in required \cap fresh :
            t.sub = "" \/ [pkg |-> t.pkg, top |-> t.top] \notin randomized}

=============================================================================
