----------------------------- MODULE BaselineRun -----------------------------
(***************************************************************************)
(* The processes that work on one campaign without agents: the baseline    *)
(* steps, discovery and the null candidates of internal/campaign           *)
(* (engine.go, null.go), under max_duration, which is spent across          *)
(* processes.  Two clocks run: the wall clock, which keeps running while   *)
(* the machine is suspended, and the clock of Go's timers, which does not. *)
(***************************************************************************)
EXTENDS Integers, Sequences, FiniteSets

CONSTANTS
    SeedSteps,      \* the manifest's seeds, in order
    MaxDuration,    \* ticks, 0 when the campaign is not bounded
    NullCandidates, \* how many null candidates the campaign asks for
    MaxRuns,        \* bound: processes that work on the campaign
    LastTick        \* bound: the last tick of the wall clock

ASSUME BaselineAssumption ==
    /\ SeedSteps \in Seq(STRING) /\ MaxDuration \in Nat
    /\ NullCandidates \in Nat /\ MaxRuns \in Nat /\ LastTick \in Nat

VARIABLES
    clock,      \* the wall clock
    record,     \* the campaign's state in its database
    binaries,   \* the baseline binaries are on disk
    engine,     \* the process working on the campaign, or NoEngine
    tally       \* history: what the processes lived, and what was lost

baselineVars == <<clock, record, binaries, engine, tally>>

(* Nothing has run yet.  Of the marks the step of a seed, workload:<seed>, *)
(* is kept in `seeded`, under the seed.                                    *)
NewRecord ==
    [ steps |-> {}, seeded |-> {}, runs |-> <<>>, weights |-> {}, nulls |-> <<>>,
      elapsed |-> 0, status |-> "pending", reason |-> "" ]

NoEngine == [phase |-> "down"]
Up == engine.phase # "down"

BaselineInit ==
    /\ clock = 0 /\ record = NewRecord /\ binaries = FALSE /\ engine = NoEngine
    /\ tally = [runs |-> 0, lived |-> 0, lost |-> 0, savedAt |-> 0, excused |-> 0]

(* --- The clocks and the budget ------------------------------------------- *)
(* Fault: a resumed process gets the whole budget again.                   *)
FaultRemaining(elapsed) == MaxDuration

(* What is left of the budget, never the whole of it again.                *)
RemainingBudget(elapsed) == IF elapsed < MaxDuration THEN MaxDuration - elapsed ELSE 0

(* Fault: the run's clock is added to a total that holds it already.       *)
FaultElapsed == engine.state.elapsed + (clock - engine.startedAt)

ElapsedRunTime == engine.before + (clock - engine.startedAt)

TimerSpent == MaxDuration > 0 /\ engine.awake >= engine.remaining

WallClockSpent ==
    MaxDuration > 0 /\ clock >= engine.startedAt + engine.remaining

(* Past a due timer only a cancelled process still has something to do.    *)
Tick ==
    /\ Up /\ clock < LastTick
    /\ engine.cause = "none" => ~TimerSpent /\ ~WallClockSpent
    /\ clock' = clock + 1
    /\ engine' = [engine EXCEPT !.awake = @ + 1]
    /\ tally' = [tally EXCEPT !.excused = IF engine.cause = "none" THEN @ ELSE @ + 1]
    /\ UNCHANGED <<record, binaries>>

(* The machine sleeps: nothing of the process runs, the wall clock does.   *)
Suspend ==
    /\ Up /\ clock < LastTick
    /\ clock' = clock + 1
    /\ tally' = [tally EXCEPT !.excused =
                    IF engine.cause = "none" /\ ~WallClockSpent THEN @ ELSE @ + 1]
    /\ UNCHANGED <<record, binaries, engine>>

Cancelled(cause) ==
    /\ engine.cause = "none"
    /\ engine' = [engine EXCEPT !.cause = cause]
    /\ UNCHANGED <<clock, record, binaries, tally>>

BudgetTimer == Up /\ TimerSpent /\ Cancelled("budget")
WallClockGuard == Up /\ WallClockSpent /\ Cancelled("budget")
OperatorStops == Up /\ Cancelled("signal")

(* Between processes time passes, and builds/ may be cleared.              *)
Idle ==
    /\ ~Up /\ clock < LastTick
    /\ clock' = clock + 1 /\ binaries' \in {binaries, FALSE}
    /\ UNCHANGED <<record, engine, tally>>

(* --- Saves ----------------------------------------------------------------- *)
Stamped(state) == [state EXCEPT !.elapsed = ElapsedRunTime]

(* saveEvent: the state and then its event go to disk.  If the store       *)
(* refuses the state, or only the event, the step returns the error with   *)
(* the change still in memory, and in the second case on disk as well.     *)
Carries(state, next) ==
    engine' = [engine EXCEPT !.state = Stamped(state), !.phase = next, !.busy = FALSE]

Stored(state) == record' = Stamped(state) /\ tally' = [tally EXCEPT !.savedAt = clock]

Save(state, next) == Carries(state, next) /\ Stored(state)

Refused(state) == Carries(state, "stopping") /\ UNCHANGED <<record, tally>>

EventRefused(state) == Carries(state, "stopping") /\ Stored(state)

SaveOrStop(state, next) == Save(state, next) \/ Refused(state) \/ EventRefused(state)

(* --- Run ------------------------------------------------------------------- *)
Started(state) == [state EXCEPT !.status = "running"]

StartRun ==
    /\ ~Up /\ record.status # "completed" /\ tally.runs < MaxRuns
    /\ LET running == Started(record) IN
       /\ record' = running
       /\ engine' = [ phase |-> "inspect", state |-> running, busy |-> FALSE,
                      startedAt |-> clock, before |-> record.elapsed, awake |-> 0,
                      remaining |-> RemainingBudget(record.elapsed), cause |-> "none" ]
    /\ tally' = [tally EXCEPT !.runs = @ + 1, !.savedAt = clock]
    /\ UNCHANGED <<clock, binaries>>

(* The first save of a process is refused, or its event is: Run returns    *)
(* before captureRunFailure is deferred.                                   *)
StartRefused ==
    /\ ~Up /\ record.status # "completed" /\ tally.runs < MaxRuns
    /\ record' \in {record, Started(record)}
    /\ tally' = [tally EXCEPT !.runs = @ + 1]
    /\ UNCHANGED <<clock, binaries, engine>>

(* A step that is already marked is passed over.                           *)
NextPhase ==
    [ inspect |-> "build", build |-> "tests", tests |-> "seeds",
      seeds |-> "discovery", discovery |-> "report" ]

PendingSeeds == {i \in DOMAIN SeedSteps : SeedSteps[i] \notin engine.state.seeded}
NextSeed == SeedSteps[CHOOSE i \in PendingSeeds : \A j \in PendingSeeds : i <= j]

Done(phase) ==
    CASE phase = "inspect" -> "inspect" \in engine.state.steps
      [] phase = "build" -> "build" \in engine.state.steps /\ binaries
      [] phase = "tests" -> {"baseline_tests", "baseline_test_passes"} \subseteq engine.state.steps
      [] phase = "seeds" -> PendingSeeds = {}
      [] phase = "discovery" -> "discovery_profile" \in engine.state.steps

PassOver ==
    /\ Up /\ engine.phase \in DOMAIN NextPhase /\ ~engine.busy
    /\ Done(engine.phase)
    /\ engine' = [engine EXCEPT !.phase = NextPhase[engine.phase]]
    /\ UNCHANGED <<clock, record, binaries, tally>>

(* Commands start only under a live context.                               *)
BeginStep ==
    /\ Up /\ engine.phase \in DOMAIN NextPhase \cup {"candidates"} /\ ~engine.busy
    /\ IF engine.phase = "candidates" THEN Len(engine.state.nulls) < NullCandidates
                                      ELSE ~Done(engine.phase)
    /\ engine.cause = "none"
    /\ engine' = [engine EXCEPT !.busy = TRUE]
    /\ UNCHANGED <<clock, record, binaries, tally>>

InStep(phase) == Up /\ engine.phase = phase /\ engine.busy

EndStep(phase, marks, next) ==
    /\ InStep(phase)
    /\ SaveOrStop([engine.state EXCEPT !.steps = @ \cup marks], next)
    /\ UNCHANGED <<clock, binaries>>

Inspect == EndStep("inspect", {"inspect"}, "build")

Build ==
    /\ InStep("build")
    /\ binaries' = TRUE
    /\ SaveOrStop([engine.state EXCEPT !.steps = @ \cup {"build"}], "tests")
    /\ UNCHANGED clock

BaselineTests ==
    EndStep("tests", {"baseline_tests", "baseline_test_passes"}, "seeds")

(* Fault: an invalid run marks its step as well.                           *)
FaultAfterSeed(state, seed, valid) ==
    [state EXCEPT !.runs = Append(@, [seed |-> seed, valid |-> valid]),
                  !.seeded = @ \cup {seed}]

(* The run is kept whatever came of it; only a valid one marks the step.   *)
AfterSeed(state, seed, valid) ==
    [state EXCEPT !.runs = Append(@, [seed |-> seed, valid |-> valid]),
                  !.seeded = IF valid THEN @ \cup {seed} ELSE @]

RunSeed ==
    /\ InStep("seeds")
    /\ SaveOrStop(AfterSeed(engine.state, NextSeed, TRUE), "seeds")
    /\ UNCHANGED <<clock, binaries>>

InvalidSeed ==
    /\ InStep("seeds")
    /\ engine' = [engine EXCEPT !.state = AfterSeed(@, NextSeed, FALSE),
                                !.phase = "stopping", !.busy = FALSE]
    /\ UNCHANGED <<clock, record, binaries, tally>>

(* applyDiscovery merges the weights into those of an earlier discovery,   *)
(* and each of its events is saved before the step is marked.              *)
ApplyDiscovery ==
    /\ InStep("discovery")
    /\ SaveOrStop([engine.state EXCEPT !.weights = @ \cup {tally.runs}], "discovered")
    /\ UNCHANGED <<clock, binaries>>

MarkDiscovery ==
    /\ Up /\ engine.phase = "discovered"
    /\ SaveOrStop([engine.state EXCEPT !.steps = @ \cup {"discovery_profile"}], "report")
    /\ UNCHANGED <<clock, binaries>>

(* verifyClean, and on to the candidates or, with none, to the end.        *)
VerifyClean ==
    /\ Up /\ engine.phase = "report" /\ engine.cause = "none"
    /\ engine' = [engine EXCEPT !.phase = "candidates"]
    /\ UNCHANGED <<clock, record, binaries, tally>>

(* The verdict of a null candidate counts only if no cancellation came     *)
(* before it; its attempt number is taken from the records.                *)
NullCandidate ==
    /\ InStep("candidates") /\ engine.cause = "none"
    /\ SaveOrStop([engine.state EXCEPT !.nulls = Append(@, Len(@) + 1)], "candidates")
    /\ UNCHANGED <<clock, binaries>>

CompleteBaseline ==
    /\ Up /\ engine.phase = "candidates" /\ ~engine.busy
    /\ Len(engine.state.nulls) >= NullCandidates
    /\ SaveOrStop([engine.state EXCEPT !.status = "completed"], "ending")
    /\ UNCHANGED <<clock, binaries>>

(* --- Failure and the end of a process -------------------------------------- *)
StepFails ==
    /\ Up
    /\ engine.busy \/ engine.phase = "report" \/ engine.cause # "none"
    /\ engine.phase \notin {"stopping", "ending"}
    /\ engine' = [engine EXCEPT !.phase = "stopping", !.busy = FALSE]
    /\ UNCHANGED <<clock, record, binaries, tally>>

(* captureRunFailure: a spent budget wins over the error that was returned.*)
Classified ==
    IF engine.cause = "budget"
    THEN {[engine.state EXCEPT !.status = "interrupted", !.reason = "max_duration"]}
    ELSE {[engine.state EXCEPT !.status = s] :
            s \in IF engine.cause = "signal" THEN {"interrupted", "failed"} ELSE {"failed"}}

Ended(lost) ==
    /\ engine' = NoEngine
    /\ tally' = [tally EXCEPT !.lived = @ + (clock - engine.startedAt), !.lost = @ + lost]

CaptureStop ==
    /\ Up /\ engine.phase = "stopping"
    /\ \E state \in Classified :
          \/ record' = Stamped(state) /\ Ended(0)
          \/ record' = record /\ Ended(clock - tally.savedAt)
    /\ UNCHANGED <<clock, binaries>>

ReportsWritten ==
    /\ Up /\ engine.phase = "ending"
    /\ Ended(clock - tally.savedAt)
    /\ UNCHANGED <<clock, record, binaries>>

(* WriteReports fails after the completion was saved: finishCampaign       *)
(* returns the error, and the completed campaign is saved again as failed. *)
ReportsRefused ==
    /\ Up /\ engine.phase = "ending"
    /\ engine' = [engine EXCEPT !.phase = "stopping"]
    /\ UNCHANGED <<clock, record, binaries, tally>>

Killed ==
    /\ Up
    /\ Ended(clock - tally.savedAt)
    /\ UNCHANGED <<clock, record, binaries>>

BaselineNext ==
    \/ Tick \/ Suspend \/ BudgetTimer \/ WallClockGuard \/ OperatorStops \/ Idle
    \/ StartRun \/ StartRefused \/ PassOver \/ BeginStep \/ Inspect \/ Build \/ BaselineTests
    \/ RunSeed \/ InvalidSeed \/ ApplyDiscovery \/ MarkDiscovery \/ VerifyClean
    \/ NullCandidate \/ CompleteBaseline
    \/ StepFails \/ CaptureStop \/ ReportsWritten \/ ReportsRefused \/ Killed

BaselineSpec == BaselineInit /\ [][BaselineNext]_baselineVars

-----------------------------------------------------------------------------
(* The campaign's clock is what its processes lived less what a kill gave  *)
(* back, the time since the last save: elapsedRunTime counts no second     *)
(* twice and none between processes.                                       *)
ElapsedIsTheTimeLived ==
    record.elapsed + tally.lost =
        tally.lived + (IF Up THEN tally.savedAt - engine.startedAt ELSE 0)

(* Over all its processes a campaign works no longer than max_duration and *)
(* what kills gave back: neither a resume (withCampaignDeadline) nor a     *)
(* suspended machine (guardWallClockBudget) extends it.  Time asleep past  *)
(* the deadline and time spent stopping is excused.                        *)
BudgetIsNotExceeded ==
    MaxDuration > 0 =>
        tally.lived + (IF Up THEN clock - engine.startedAt ELSE 0)
            - tally.lost - tally.excused <= MaxDuration

(* The runs and the marks on disk agree through kills, refused saves and   *)
(* invalid runs: a seed is marked if and only if exactly one valid run of  *)
(* it is recorded.                                                         *)
SeedRunsMatchSteps ==
    \A i \in DOMAIN SeedSteps :
        LET valid == {j \in DOMAIN record.runs :
                        record.runs[j] = [seed |-> SeedSteps[i], valid |-> TRUE]}
        IN  Cardinality(valid) = IF SeedSteps[i] \in record.seeded THEN 1 ELSE 0

=============================================================================
