------------------------- MODULE BaselineRunProofs --------------------------
(***************************************************************************)
(* What TLAPS proves of the processes that work on one campaign, for every *)
(* max_duration, every list of seeds and any number of processes: the      *)
(* clock of the campaign, its budget, and the agreement of the seeds' runs *)
(* with their marks.                                                       *)
(***************************************************************************)
EXTENDS BaselineRun, FiniteSetTheorems, WellFoundedInduction, TLAPS

LEMMA DurationType == MaxDuration \in Nat
BY BaselineAssumption

LEMMA SeedType == \A i \in DOMAIN SeedSteps : i \in Nat /\ SeedSteps[i] \in STRING
BY BaselineAssumption

(***************************************************************************)
(* Types                                                                   *)
(***************************************************************************)

Phases == {"inspect", "build", "tests", "seeds", "discovery", "discovered",
           "report", "candidates", "stopping", "ending"}

Marks == {"inspect", "build", "baseline_tests", "baseline_test_passes", "discovery_profile"}

Statuses == {"pending", "running", "completed", "interrupted", "failed"}

SeedRuns == [seed : STRING, valid : BOOLEAN]

States ==
    [ steps : SUBSET Marks, seeded : SUBSET STRING, runs : Seq(SeedRuns),
      weights : SUBSET Nat, nulls : Seq(Nat), elapsed : Int, status : Statuses,
      reason : {"", "max_duration"} ]

Engines ==
    [ phase : Phases, state : States, busy : BOOLEAN, startedAt : Nat, before : Int,
      awake : Nat, remaining : Int, cause : {"none", "budget", "signal"} ]

LivedTallies == [runs : Nat, lived : Int, lost : Int, savedAt : Nat, excused : Nat]

BaselineTypeOK ==
    /\ clock \in Nat /\ record \in States /\ binaries \in BOOLEAN
    /\ engine = NoEngine \/ engine \in Engines
    /\ tally \in LivedTallies

LEMMA UpType == ASSUME BaselineTypeOK, Up PROVE engine \in Engines
BY DEF BaselineTypeOK, Up, NoEngine

LEMMA StampedType ==
    ASSUME BaselineTypeOK, Up, NEW state \in States
    PROVE  Stamped(state) \in States
<1>1. ElapsedRunTime \in Int
  BY UpType DEF BaselineTypeOK, ElapsedRunTime, Engines
<1> QED
  BY <1>1 DEF Stamped, States

(* A save carries the state on and stores it, unless the store refuses it. *)
LEMMA SavesAre ==
    ASSUME NEW state, NEW next, SaveOrStop(state, next)
    PROVE  \E then \in {next, "stopping"} :
              /\ Carries(state, then)
              /\ Stored(state) \/ UNCHANGED <<record, tally>>
<1>1. CASE Save(state, next)
  BY <1>1 DEF Save
<1>2. CASE Refused(state)
  BY <1>2 DEF Refused
<1>3. CASE EventRefused(state)
  BY <1>3 DEF EventRefused
<1> QED
  BY <1>1, <1>2, <1>3 DEF SaveOrStop

LEMMA SaveType ==
    ASSUME BaselineTypeOK, Up, NEW state \in States, NEW next \in Phases,
           SaveOrStop(state, next), UNCHANGED clock, binaries' \in BOOLEAN
    PROVE  BaselineTypeOK'
<1>1. Stamped(state) \in States /\ engine \in Engines
  BY StampedType, UpType
<1>2. "stopping" \in Phases
  BY DEF Phases
<1>3. PICK then \in Phases :
        /\ Carries(state, then)
        /\ Stored(state) \/ UNCHANGED <<record, tally>>
  BY <1>2, SavesAre
<1>4. engine' \in Engines
  BY <1>1, <1>3 DEF Carries, Engines
<1>5. record' \in States /\ tally' \in LivedTallies
  BY <1>1, <1>3 DEF Stored, BaselineTypeOK, LivedTallies
<1> QED
  BY <1>4, <1>5 DEF BaselineTypeOK

(* The seed of the next step is the first that is not marked.              *)
LEMMA NextSeedIsPending ==
    ASSUME PendingSeeds # {}
    PROVE  \E i \in PendingSeeds : NextSeed = SeedSteps[i]
<1> DEFINE Less == OpToRel(<, Nat)
<1>1. PendingSeeds \subseteq Nat
  BY SeedType DEF PendingSeeds
<1>2. PICK i \in PendingSeeds : \A j \in PendingSeeds : ~(<<j, i>> \in Less)
  BY <1>1, NatLessThanWellFounded, WFMin
<1>3. \A j \in PendingSeeds : i <= j
  <2> TAKE j \in PendingSeeds
  <2>1. i \in Nat /\ j \in Nat /\ ~(j < i)
    BY <1>1, <1>2 DEF OpToRel
  <2> QED
    BY <2>1
<1> DEFINE first == CHOOSE k \in PendingSeeds : \A j \in PendingSeeds : k <= j
<1>4. first \in PendingSeeds
  BY <1>3
<1> QED
  BY <1>4 DEF NextSeed

LEMMA AfterSeedType ==
    ASSUME NEW state \in States, NEW seed \in STRING, NEW valid \in BOOLEAN
    PROVE  AfterSeed(state, seed, valid) \in States
<1>1. [seed |-> seed, valid |-> valid] \in SeedRuns
  BY DEF SeedRuns
<1>2. Append(state.runs, [seed |-> seed, valid |-> valid]) \in Seq(SeedRuns)
  <2> DEFINE run == [seed |-> seed, valid |-> valid]
  <2>1. state.runs \in Seq(SeedRuns) /\ run \in SeedRuns
    BY <1>1 DEF States
  <2> HIDE DEF run
  <2> QED
    BY <2>1 DEF run
<1>3. (IF valid THEN state.seeded \cup {seed} ELSE state.seeded) \in SUBSET STRING
  BY DEF States
<1> QED
  BY <1>2, <1>3 DEF AfterSeed, States

(* A step under way at the seeds has a seed left to run.                   *)
SeedsLeft == Up /\ engine.busy /\ engine.phase = "seeds" => PendingSeeds # {}

LEMMA PendingSeedType ==
    ASSUME PendingSeeds # {}
    PROVE  NextSeed \in STRING /\ NextSeed \notin engine.state.seeded
BY NextSeedIsPending, SeedType DEF PendingSeeds

(* The states the steps hand to a save.                                    *)
LEMMA EditedState ==
    ASSUME NEW state \in States
    PROVE  /\ \A marks \in SUBSET Marks : [state EXCEPT !.steps = @ \cup marks] \in States
           /\ \A n \in Nat : [state EXCEPT !.weights = @ \cup {n}] \in States
           /\ [state EXCEPT !.nulls = Append(@, Len(@) + 1)] \in States
           /\ \A status \in Statuses : [state EXCEPT !.status = status] \in States
<1>1. Append(state.nulls, Len(state.nulls) + 1) \in Seq(Nat)
  <2>1. state.nulls \in Seq(Nat)
    BY DEF States
  <2>2. Len(state.nulls) + 1 \in Nat
    BY <2>1
  <2> QED
    BY <2>1, <2>2
<1>2. [state EXCEPT !.nulls = Append(@, Len(@) + 1)] \in States
  BY <1>1 DEF States
<1>3. ASSUME NEW marks \in SUBSET Marks
      PROVE  [state EXCEPT !.steps = @ \cup marks] \in States
  <2>1. state.steps \cup marks \in SUBSET Marks
    BY DEF States
  <2> QED
    BY <2>1 DEF States
<1>4. ASSUME NEW n \in Nat
      PROVE  [state EXCEPT !.weights = @ \cup {n}] \in States
  <2>1. state.weights \cup {n} \in SUBSET Nat
    BY DEF States
  <2> QED
    BY <2>1 DEF States
<1>5. \A status \in Statuses : [state EXCEPT !.status = status] \in States
  BY DEF States
<1> QED
  BY <1>2, <1>3, <1>4, <1>5

(* The saved states of the steps.                                          *)
LEMMA StepType ==
    ASSUME BaselineTypeOK, SeedsLeft, Up
    PROVE  /\ Inspect => BaselineTypeOK'
           /\ Build => BaselineTypeOK'
           /\ BaselineTests => BaselineTypeOK'
           /\ RunSeed => BaselineTypeOK'
           /\ InvalidSeed => BaselineTypeOK'
           /\ ApplyDiscovery => BaselineTypeOK'
           /\ MarkDiscovery => BaselineTypeOK'
           /\ NullCandidate => BaselineTypeOK'
           /\ CompleteBaseline => BaselineTypeOK'
<1>1. engine.state \in States /\ engine \in Engines
  BY UpType DEF Engines
<1>2. {"build", "tests", "seeds", "discovered", "report", "candidates", "ending", "stopping"} \subseteq Phases
  BY DEF Phases
<1>3. binaries \in BOOLEAN /\ tally.runs \in Nat
  BY DEF BaselineTypeOK, LivedTallies
<1>4. /\ {"inspect"} \in SUBSET Marks /\ {"build"} \in SUBSET Marks
      /\ {"baseline_tests", "baseline_test_passes"} \in SUBSET Marks
      /\ {"discovery_profile"} \in SUBSET Marks /\ "completed" \in Statuses
  BY DEF Marks, Statuses
<1>5. Inspect => BaselineTypeOK'
  <2>1. [engine.state EXCEPT !.steps = @ \cup {"inspect"}] \in States
    BY <1>1, <1>4, EditedState
  <2> QED
    BY <1>2, <1>3, <2>1, SaveType DEF Inspect, EndStep
<1>6. Build => BaselineTypeOK'
  <2>1. [engine.state EXCEPT !.steps = @ \cup {"build"}] \in States
    BY <1>1, <1>4, EditedState
  <2> QED
    BY <1>2, <2>1, SaveType DEF Build
<1>7. BaselineTests => BaselineTypeOK'
  <2>1. [engine.state EXCEPT !.steps = @ \cup {"baseline_tests", "baseline_test_passes"}]
          \in States
    BY <1>1, <1>4, EditedState
  <2> QED
    BY <1>2, <1>3, <2>1, SaveType DEF BaselineTests, EndStep
<1>8. RunSeed => BaselineTypeOK'
  <2> SUFFICES ASSUME RunSeed PROVE BaselineTypeOK'
    OBVIOUS
  <2>1. NextSeed \in STRING
    BY PendingSeedType DEF RunSeed, InStep, SeedsLeft
  <2>2. AfterSeed(engine.state, NextSeed, TRUE) \in States
    BY <1>1, <2>1, AfterSeedType
  <2> QED
    BY <1>2, <1>3, <2>2, SaveType DEF RunSeed
<1>9. InvalidSeed => BaselineTypeOK'
  <2> SUFFICES ASSUME InvalidSeed PROVE BaselineTypeOK'
    OBVIOUS
  <2>1. NextSeed \in STRING
    BY PendingSeedType DEF InvalidSeed, InStep, SeedsLeft
  <2>2. AfterSeed(engine.state, NextSeed, FALSE) \in States
    BY <1>1, <2>1, AfterSeedType
  <2> QED
    BY <1>1, <1>2, <2>2 DEF InvalidSeed, BaselineTypeOK, Engines
<1>10. ApplyDiscovery => BaselineTypeOK'
  <2>1. [engine.state EXCEPT !.weights = @ \cup {tally.runs}] \in States
    BY <1>1, <1>3, EditedState
  <2> QED
    BY <1>2, <1>3, <2>1, SaveType DEF ApplyDiscovery
<1>11. MarkDiscovery => BaselineTypeOK'
  <2>1. [engine.state EXCEPT !.steps = @ \cup {"discovery_profile"}] \in States
    BY <1>1, <1>4, EditedState
  <2> QED
    BY <1>2, <1>3, <2>1, SaveType DEF MarkDiscovery
<1>12. NullCandidate => BaselineTypeOK'
  <2>1. [engine.state EXCEPT !.nulls = Append(@, Len(@) + 1)] \in States
    BY <1>1, EditedState
  <2> QED
    BY <1>2, <1>3, <2>1, SaveType DEF NullCandidate
<1>13. CompleteBaseline => BaselineTypeOK'
  <2>1. [engine.state EXCEPT !.status = "completed"] \in States
    BY <1>1, <1>4, EditedState
  <2> QED
    BY <1>2, <1>3, <2>1, SaveType DEF CompleteBaseline
<1> QED
  BY <1>5, <1>6, <1>7, <1>8, <1>9, <1>10, <1>11, <1>12, <1>13

(* A step of the process that saves nothing.                               *)
Quiet == PassOver \/ BeginStep \/ BudgetTimer \/ WallClockGuard \/ OperatorStops
         \/ VerifyClean \/ StepFails \/ ReportsRefused

LEMMA NextPhaseType == \A phase \in DOMAIN NextPhase : NextPhase[phase] \in Phases
BY DEF NextPhase, Phases

LEMMA QuietType ==
    ASSUME BaselineTypeOK, Quiet
    PROVE  /\ Up /\ engine' \in Engines /\ engine'.state = engine.state
           /\ engine'.startedAt = engine.startedAt /\ engine'.before = engine.before
           /\ engine'.remaining = engine.remaining
           /\ UNCHANGED <<clock, record, binaries, tally>>
<1>1. Up /\ engine \in Engines /\ UNCHANGED <<clock, record, binaries, tally>>
  BY UpType DEF Quiet, PassOver, BeginStep, BudgetTimer, WallClockGuard, OperatorStops,
                VerifyClean, StepFails, ReportsRefused, Cancelled
<1>2. {"candidates", "stopping"} \subseteq Phases
  BY DEF Phases
<1>3. CASE PassOver
  <2>1. NextPhase[engine.phase] \in Phases
    BY <1>3, NextPhaseType DEF PassOver
  <2> QED
    BY <1>1, <1>3, <2>1 DEF PassOver, Engines
<1>4. CASE BeginStep
  BY <1>1, <1>4 DEF BeginStep, Engines
<1>5. CASE BudgetTimer \/ WallClockGuard \/ OperatorStops
  BY <1>1, <1>5 DEF BudgetTimer, WallClockGuard, OperatorStops, Cancelled, Engines
<1>6. CASE VerifyClean
  BY <1>1, <1>2, <1>6 DEF VerifyClean, Engines
<1>7. CASE StepFails
  BY <1>1, <1>2, <1>7 DEF StepFails, Engines
<1>8. CASE ReportsRefused
  BY <1>1, <1>2, <1>8 DEF ReportsRefused, Engines
<1> QED
  BY <1>3, <1>4, <1>5, <1>6, <1>7, <1>8 DEF Quiet

(* The end of a process, by a kill or with its last save.                  *)
Ends == CaptureStop \/ ReportsWritten \/ Killed

LEMMA ClassifiedType ==
    ASSUME BaselineTypeOK, Up, NEW state \in Classified
    PROVE  state \in States
<1>1. engine.state \in States
  BY UpType DEF Engines
<1>2. [engine.state EXCEPT !.status = "interrupted", !.reason = "max_duration"] \in States
  BY <1>1 DEF States, Statuses
<1>3. \A status \in Statuses : [engine.state EXCEPT !.status = status] \in States
  BY <1>1, EditedState
<1>4. "interrupted" \in Statuses /\ "failed" \in Statuses
  BY DEF Statuses
<1> QED
  BY <1>2, <1>3, <1>4 DEF Classified

LEMMA EndsType ==
    ASSUME BaselineTypeOK, Ends
    PROVE  BaselineTypeOK'
<1>1. Up /\ engine \in Engines /\ engine' = NoEngine /\ UNCHANGED <<clock, binaries>>
  BY UpType DEF Ends, CaptureStop, ReportsWritten, Killed, Ended
<1>2. record' \in States
  <2>1. CASE CaptureStop
    <3>1. PICK state \in Classified : record' = Stamped(state) \/ record' = record
      BY <2>1 DEF CaptureStop
    <3>2. Stamped(state) \in States
      BY <1>1, ClassifiedType, StampedType
    <3> QED
      BY <3>1, <3>2 DEF BaselineTypeOK
  <2>2. CASE ReportsWritten \/ Killed
    BY <2>2 DEF ReportsWritten, Killed, BaselineTypeOK
  <2> QED
    BY <2>1, <2>2 DEF Ends
<1>3. tally' \in LivedTallies
  <2>1. PICK lost \in {0, clock - tally.savedAt} :
          tally' = [tally EXCEPT !.lived = @ + (clock - engine.startedAt), !.lost = @ + lost]
    BY DEF Ends, CaptureStop, ReportsWritten, Killed, Ended
  <2>2. /\ tally.lived + (clock - engine.startedAt) \in Int /\ tally.lost + lost \in Int
        /\ tally \in LivedTallies
    BY <1>1 DEF BaselineTypeOK, LivedTallies, Engines
  <2> QED
    BY <2>1, <2>2 DEF LivedTallies
<1> QED
  BY <1>1, <1>2, <1>3 DEF BaselineTypeOK

LEMMA StartRunType ==
    ASSUME BaselineTypeOK, StartRun
    PROVE  BaselineTypeOK' /\ engine' \in Engines
<1>1. record \in States /\ "running" \in Statuses
  BY DEF BaselineTypeOK, Statuses
<1>2. Started(record) \in States
  BY <1>1, EditedState DEF Started
<1>3. record.elapsed \in Int /\ RemainingBudget(record.elapsed) \in Int
  <2>1. record.elapsed \in Int /\ MaxDuration \in Nat
    BY <1>1, DurationType DEF States
  <2> QED
    BY <2>1 DEF RemainingBudget
<1>4. clock \in Nat /\ "inspect" \in Phases
  BY DEF BaselineTypeOK, Phases
<1>5. engine' \in Engines
  BY <1>2, <1>3, <1>4 DEF StartRun, Engines
<1>6. tally' \in LivedTallies
  <2>1. tally \in LivedTallies /\ tally.runs + 1 \in Nat
    BY DEF BaselineTypeOK, LivedTallies
  <2>2. tally' = [tally EXCEPT !.runs = tally.runs + 1, !.savedAt = clock]
    BY DEF StartRun
  <2> QED
    BY <1>4, <2>1, <2>2 DEF LivedTallies
<1> QED
  BY <1>2, <1>5, <1>6 DEF StartRun, BaselineTypeOK

(* A process whose first save was refused leaves at most a new status.     *)
LEMMA StartRefusedKeeps ==
    ASSUME BaselineTypeOK, StartRefused
    PROVE  /\ BaselineTypeOK' /\ ~Up /\ UNCHANGED <<clock, engine>>
           /\ record'.elapsed = record.elapsed /\ record'.runs = record.runs
           /\ record'.seeded = record.seeded
           /\ tally'.lived = tally.lived /\ tally'.lost = tally.lost
           /\ tally'.savedAt = tally.savedAt /\ tally'.excused = tally.excused
<1>1. record \in States /\ "running" \in Statuses
  BY DEF BaselineTypeOK, Statuses
<1>2. Started(record) \in States
  BY <1>1, EditedState DEF Started
<1>3. /\ Started(record).elapsed = record.elapsed /\ Started(record).runs = record.runs
      /\ Started(record).seeded = record.seeded
  BY <1>1 DEF Started, States
<1>4. record' = record \/ record' = Started(record)
  BY DEF StartRefused
<1>5. tally \in LivedTallies /\ tally.runs + 1 \in Nat
  BY DEF BaselineTypeOK, LivedTallies
<1>6. /\ tally' \in LivedTallies /\ tally'.lived = tally.lived /\ tally'.lost = tally.lost
      /\ tally'.savedAt = tally.savedAt /\ tally'.excused = tally.excused
  <2>1. tally' = [tally EXCEPT !.runs = tally.runs + 1]
    BY DEF StartRefused
  <2> QED
    BY <1>5, <2>1 DEF LivedTallies
<1>7. ~Up /\ UNCHANGED <<clock, binaries, engine>>
  BY DEF StartRefused
<1> QED
  BY <1>1, <1>2, <1>3, <1>4, <1>6, <1>7 DEF BaselineTypeOK

(* A tick of the wall clock, with a process awake or asleep, or with none. *)
Passes == Tick \/ Suspend \/ Idle

LEMMA PassesType ==
    ASSUME BaselineTypeOK, Passes
    PROVE  /\ BaselineTypeOK' /\ record' = record /\ clock' = clock + 1
           /\ Up => engine \in Engines /\ engine' \in Engines
<1>1. clock \in Nat /\ tally \in LivedTallies /\ tally.excused \in Nat
  BY DEF BaselineTypeOK, LivedTallies
<1>2. CASE Tick
  <2>1. engine \in Engines /\ engine.awake + 1 \in Nat
    BY <1>2, UpType DEF Tick, Engines
  <2>2. engine' \in Engines
    BY <1>2, <2>1 DEF Tick, Engines
  <2>3. tally' = tally \/ tally' = [tally EXCEPT !.excused = tally.excused + 1]
    BY <1>1, <1>2 DEF Tick, LivedTallies
  <2>4. tally' \in LivedTallies
    BY <1>1, <2>3 DEF LivedTallies
  <2> QED
    BY <1>1, <1>2, <2>1, <2>2, <2>4 DEF Tick, BaselineTypeOK
<1>3. CASE Suspend
  <2>1. engine \in Engines /\ engine' = engine
    BY <1>3, UpType DEF Suspend
  <2>3. tally' = tally \/ tally' = [tally EXCEPT !.excused = tally.excused + 1]
    BY <1>1, <1>3 DEF Suspend, LivedTallies
  <2>4. tally' \in LivedTallies
    BY <1>1, <2>3 DEF LivedTallies
  <2> QED
    BY <1>1, <1>3, <2>1, <2>4 DEF Suspend, BaselineTypeOK
<1>4. CASE Idle
  <2>1. ~Up /\ UNCHANGED <<record, engine, tally>> /\ clock' = clock + 1
    BY <1>4 DEF Idle
  <2>2. binaries' \in BOOLEAN
    BY <1>4 DEF Idle, BaselineTypeOK
  <2>3. BaselineTypeOK'
    BY <1>1, <2>1, <2>2 DEF BaselineTypeOK
  <2> QED
    BY <2>1, <2>3
<1> QED
  BY <1>2, <1>3, <1>4 DEF Passes

(***************************************************************************)
(* The campaign's clock and its budget                                     *)
(***************************************************************************)

InOrder ==
    Up => engine.startedAt <= tally.savedAt /\ tally.savedAt <= clock

(* What a process took up when it started.                                 *)
TookUp ==
    Up => /\ engine.before + tally.lost = tally.lived
          /\ engine.remaining = RemainingBudget(engine.before)

ClockInv == InOrder /\ TookUp /\ ElapsedIsTheTimeLived /\ BudgetIsNotExceeded

(* A step that leaves the clocks and what was saved alone.                 *)
LEMMA QuietClock ==
    ASSUME BaselineTypeOK, ClockInv, Up, engine' \in Engines,
           UNCHANGED <<clock, tally>>, record'.elapsed = record.elapsed,
           engine'.startedAt = engine.startedAt, engine'.before = engine.before,
           engine'.remaining = engine.remaining
    PROVE  ClockInv'
<1>1. Up'
  BY DEF Up, Engines, Phases
<1> QED
  BY <1>1 DEF ClockInv, InOrder, TookUp, ElapsedIsTheTimeLived, BudgetIsNotExceeded,
              RemainingBudget

LEMMA SaveClock ==
    ASSUME BaselineTypeOK, ClockInv, Up, NEW state \in States, NEW next \in Phases,
           SaveOrStop(state, next), UNCHANGED clock
    PROVE  ClockInv'
<1>1. engine \in Engines /\ Stamped(state) \in States /\ "stopping" \in Phases
  BY UpType, StampedType DEF Phases
<1>2. PICK then \in Phases :
        /\ Carries(state, then)
        /\ Stored(state) \/ UNCHANGED <<record, tally>>
  BY <1>1, SavesAre
<1>3. /\ engine' \in Engines /\ engine'.startedAt = engine.startedAt
      /\ engine'.before = engine.before /\ engine'.remaining = engine.remaining
  BY <1>1, <1>2 DEF Carries, Engines
<1>4. CASE UNCHANGED <<record, tally>>
  BY <1>4, <1>3, QuietClock
<1>5. CASE Stored(state)
  <2>1. /\ engine' \in Engines /\ engine'.startedAt = engine.startedAt
        /\ engine'.before = engine.before /\ engine'.remaining = engine.remaining
    BY <1>3
  <2>2. record'.elapsed = engine.before + (clock - engine.startedAt)
    BY <1>5 DEF Stored, Stamped, ElapsedRunTime, States
  <2>3. /\ tally'.savedAt = clock /\ tally'.lived = tally.lived /\ tally'.lost = tally.lost
        /\ tally'.excused = tally.excused
    BY <1>5 DEF Stored, BaselineTypeOK, LivedTallies
  <2>4. Up'
    BY <2>1 DEF Up, Engines, Phases
  <2>5. /\ clock \in Nat /\ engine.startedAt \in Nat /\ engine.before \in Int
        /\ tally.lived \in Int /\ tally.lost \in Int /\ tally.savedAt \in Nat
        /\ tally.excused \in Nat
    BY <1>1 DEF BaselineTypeOK, LivedTallies, Engines
  <2>6. /\ engine.before + tally.lost = tally.lived
        /\ engine.startedAt <= tally.savedAt /\ tally.savedAt <= clock
        /\ engine.remaining = RemainingBudget(engine.before)
    BY DEF ClockInv, InOrder, TookUp
  <2>7. InOrder' /\ TookUp' /\ ElapsedIsTheTimeLived'
    BY <2>1, <2>2, <2>3, <2>4, <2>5, <2>6
       DEF InOrder, TookUp, ElapsedIsTheTimeLived, RemainingBudget
  <2>8. BudgetIsNotExceeded'
    BY <2>1, <2>3, <2>4, <2>5 DEF ClockInv, BudgetIsNotExceeded
  <2> QED
    BY <2>7, <2>8 DEF ClockInv
<1> QED
  BY <1>4, <1>5, <1>2

LEMMA StartRunClock ==
    ASSUME BaselineTypeOK, ClockInv, StartRun
    PROVE  ClockInv'
<1>1. /\ ~Up /\ engine'.phase = "inspect" /\ engine'.startedAt = clock
      /\ engine'.before = record.elapsed
      /\ engine'.remaining = RemainingBudget(record.elapsed)
      /\ record'.elapsed = record.elapsed /\ clock' = clock
  BY DEF StartRun, Started, BaselineTypeOK, States
<1>2. /\ tally'.savedAt = clock /\ tally'.lived = tally.lived /\ tally'.lost = tally.lost
      /\ tally'.excused = tally.excused
  BY DEF StartRun, BaselineTypeOK, LivedTallies
<1>3. /\ clock \in Nat /\ record.elapsed \in Int /\ tally.lived \in Int
      /\ tally.lost \in Int /\ tally.excused \in Nat
  BY DEF BaselineTypeOK, States, LivedTallies
<1>4. Up'
  BY <1>1 DEF Up
<1>5. record.elapsed + tally.lost = tally.lived
  BY <1>1, <1>3 DEF ClockInv, ElapsedIsTheTimeLived
<1>6. InOrder' /\ TookUp' /\ ElapsedIsTheTimeLived'
  BY <1>1, <1>2, <1>3, <1>4, <1>5
     DEF InOrder, TookUp, ElapsedIsTheTimeLived, RemainingBudget
<1>7. BudgetIsNotExceeded'
  BY <1>1, <1>2, <1>3, <1>4 DEF ClockInv, BudgetIsNotExceeded
<1> QED
  BY <1>6, <1>7 DEF ClockInv

LEMMA EndedTally ==
    ASSUME BaselineTypeOK, Up, NEW lost \in Int, Ended(lost)
    PROVE  /\ tally'.lived = tally.lived + (clock - engine.startedAt)
           /\ tally'.lost = tally.lost + lost /\ tally'.excused = tally.excused
<1> DEFINE l == tally.lived + (clock - engine.startedAt)
           m == tally.lost + lost
<1>1. tally \in LivedTallies /\ tally' = [tally EXCEPT !.lived = l, !.lost = m]
  BY DEF Ended, BaselineTypeOK
<1> HIDE DEF l, m
<1>2. tally'.lived = l /\ tally'.lost = m /\ tally'.excused = tally.excused
  BY <1>1 DEF LivedTallies
<1> QED
  BY <1>2 DEF l, m

(* A kill and a refused last save give back the time since the last save.  *)
LEMMA EndsClock ==
    ASSUME BaselineTypeOK, ClockInv, Ends
    PROVE  ClockInv'
<1>1. Up /\ engine \in Engines /\ engine' = NoEngine /\ clock' = clock
  BY UpType DEF Ends, CaptureStop, ReportsWritten, Killed, Ended
<1>2. ~Up'
  BY <1>1 DEF Up, NoEngine
<1> DEFINE ran == clock - engine.startedAt
           unsaved == clock - tally.savedAt
<1>3. /\ clock \in Nat /\ engine.startedAt \in Nat /\ engine.before \in Int
      /\ tally.lived \in Int /\ tally.lost \in Int /\ tally.savedAt \in Nat
      /\ tally.excused \in Nat /\ record.elapsed \in Int
  BY <1>1 DEF BaselineTypeOK, States, LivedTallies, Engines
<1>4. \/ record'.elapsed = engine.before + ran /\ Ended(0)
      \/ record'.elapsed = record.elapsed /\ Ended(unsaved)
  <2>1. CASE CaptureStop
    <3>1. PICK state \in Classified :
            \/ record' = Stamped(state) /\ Ended(0)
            \/ record' = record /\ Ended(clock - tally.savedAt)
      BY <2>1 DEF CaptureStop
    <3>2. state \in States
      BY <1>1, ClassifiedType
    <3>3. Stamped(state).elapsed = engine.before + ran
      BY <3>2 DEF Stamped, ElapsedRunTime, States
    <3> QED
      BY <3>1, <3>3
  <2>2. CASE ReportsWritten \/ Killed
    BY <2>2 DEF ReportsWritten, Killed
  <2> QED
    BY <2>1, <2>2 DEF Ends
<1>5. PICK lost \in Int :
        /\ tally'.lived = tally.lived + ran /\ tally'.lost = tally.lost + lost
        /\ tally'.excused = tally.excused
        /\ \/ record'.elapsed = engine.before + ran /\ lost = 0
           \/ record'.elapsed = record.elapsed /\ lost = unsaved
  <2>1. unsaved \in Int /\ 0 \in Int
    BY <1>3
  <2> HIDE DEF unsaved
  <2> QED
    BY <1>1, <1>4, <2>1, EndedTally
<1>6. /\ engine.before + tally.lost = tally.lived
      /\ engine.startedAt <= tally.savedAt /\ tally.savedAt <= clock
      /\ record.elapsed + tally.lost = tally.lived + (tally.savedAt - engine.startedAt)
      /\ MaxDuration > 0 => tally.lived + ran - tally.lost - tally.excused <= MaxDuration
  BY <1>1 DEF ClockInv, InOrder, TookUp, ElapsedIsTheTimeLived, BudgetIsNotExceeded
<1>7. InOrder' /\ TookUp'
  BY <1>2 DEF InOrder, TookUp
<1>8. record'.elapsed + tally'.lost = tally'.lived /\ lost >= 0
  <2>1. CASE record'.elapsed = engine.before + ran /\ lost = 0
    BY <1>3, <1>5, <1>6, <2>1
  <2>2. CASE record'.elapsed = record.elapsed /\ lost = unsaved
    <3>1. record.elapsed + (tally.lost + unsaved) = tally.lived + ran
      BY <1>3, <1>6
    <3>2. unsaved >= 0
      BY <1>3, <1>6
    <3> QED
      BY <1>5, <2>2, <3>1, <3>2
  <2> QED
    BY <1>5, <2>1, <2>2
<1>9. ElapsedIsTheTimeLived'
  <2>1. tally'.lived + 0 = tally'.lived
    BY <1>3, <1>5
  <2> QED
    BY <1>2, <1>8, <2>1 DEF ElapsedIsTheTimeLived
<1>10. BudgetIsNotExceeded'
  <2>1. MaxDuration > 0 =>
          tally'.lived + 0 - tally'.lost - tally'.excused <= MaxDuration
    <3>1. /\ tally'.lived = tally.lived + ran /\ tally'.lost = tally.lost + lost
          /\ tally'.excused = tally.excused /\ lost \in Int /\ lost >= 0
      BY <1>5, <1>8
    <3>2. MaxDuration > 0 =>
            tally.lived + ran + 0 - (tally.lost + lost) - tally.excused <= MaxDuration
      <4>1. MaxDuration > 0 =>
              tally.lived + ran - tally.lost - tally.excused <= MaxDuration
        BY <1>6
      <4>2. /\ tally.lived \in Int /\ tally.lost \in Int /\ tally.excused \in Int
            /\ ran \in Int /\ MaxDuration \in Int
        BY <1>3, DurationType
      <4> HIDE DEF ran
      <4> QED
        BY <3>1, <4>1, <4>2
    <3> QED
      BY <3>1, <3>2
  <2> QED
    BY <1>2, <2>1 DEF BudgetIsNotExceeded
<1> QED
  BY <1>7, <1>9, <1>10 DEF ClockInv

(* A tick that nothing excuses comes before both deadlines.                *)
LEMMA PassesClock ==
    ASSUME BaselineTypeOK, ClockInv, Passes
    PROVE  ClockInv'
<1>1. record' = record /\ clock' = clock + 1 /\ clock \in Nat
  BY PassesType DEF BaselineTypeOK
<1>2. /\ tally.lived \in Int /\ tally.lost \in Int /\ tally.savedAt \in Nat
      /\ tally.excused \in Nat /\ tally \in LivedTallies /\ record.elapsed \in Int
  BY DEF BaselineTypeOK, LivedTallies, States
<1>3. CASE Idle
  <2>1. ~Up /\ ~Up' /\ tally' = tally
    BY <1>3 DEF Idle, Up
  <2> QED
    BY <1>1, <2>1 DEF ClockInv, InOrder, TookUp, ElapsedIsTheTimeLived, BudgetIsNotExceeded
<1>4. CASE Tick \/ Suspend
  <2>1. /\ Up /\ engine \in Engines /\ engine' \in Engines
        /\ engine'.startedAt = engine.startedAt /\ engine'.before = engine.before
        /\ engine'.remaining = engine.remaining
    BY <1>4, UpType, PassesType DEF Tick, Suspend, Passes, Engines
  <2>2. Up'
    BY <2>1 DEF Up, Engines, Phases
  <2>3. /\ tally'.lived = tally.lived /\ tally'.lost = tally.lost
        /\ tally'.savedAt = tally.savedAt
        /\ \/ tally'.excused = tally.excused /\ ~WallClockSpent
           \/ tally'.excused = tally.excused + 1
    <3>1. \/ tally' = tally /\ ~WallClockSpent
          \/ tally' = [tally EXCEPT !.excused = tally.excused + 1]
      BY <1>2, <1>4 DEF Tick, Suspend, LivedTallies
    <3> QED
      BY <1>2, <3>1 DEF LivedTallies
  <2>4. /\ engine.startedAt \in Nat /\ engine.before \in Int /\ engine.remaining \in Int
    BY <2>1 DEF Engines
  <2>5. /\ engine.before + tally.lost = tally.lived
        /\ engine.startedAt <= tally.savedAt /\ tally.savedAt <= clock
        /\ engine.remaining = RemainingBudget(engine.before)
        /\ record.elapsed + tally.lost = tally.lived + (tally.savedAt - engine.startedAt)
    BY <2>1 DEF ClockInv, InOrder, TookUp, ElapsedIsTheTimeLived
  <2>6. InOrder'
    BY <1>1, <1>2, <2>1, <2>3, <2>5 DEF InOrder
  <2>7. TookUp' /\ ElapsedIsTheTimeLived'
    BY <1>1, <2>1, <2>2, <2>3, <2>5 DEF TookUp, ElapsedIsTheTimeLived, RemainingBudget
  <2>8. BudgetIsNotExceeded'
    <3> SUFFICES ASSUME MaxDuration > 0
                 PROVE  tally.lived + ((clock + 1) - engine.startedAt) - tally.lost
                            - tally'.excused <= MaxDuration
      BY <1>1, <2>1, <2>2, <2>3 DEF BudgetIsNotExceeded
    <3>1. tally.lived + (clock - engine.startedAt) - tally.lost - tally.excused <= MaxDuration
      BY <2>1 DEF ClockInv, BudgetIsNotExceeded
    <3>2. CASE tally'.excused = tally.excused + 1
      BY <1>1, <1>2, <2>4, <3>1, <3>2, DurationType
    <3>3. CASE tally'.excused = tally.excused /\ ~WallClockSpent
      <4>1. clock < engine.startedAt + engine.remaining
        BY <1>1, <2>4, <3>3 DEF WallClockSpent
      <4>2. engine.before < MaxDuration
        <5>1. engine.startedAt <= clock
          BY <1>1, <1>2, <2>4, <2>5
        <5>2. engine.remaining > 0
          BY <1>1, <2>4, <4>1, <5>1
        <5> QED
          BY <2>4, <2>5, <5>2, DurationType DEF RemainingBudget
      <4>3. engine.remaining = MaxDuration - engine.before
        BY <2>5, <4>2 DEF RemainingBudget
      <4>4. clock + 1 - engine.startedAt <= MaxDuration - engine.before
        BY <1>1, <2>4, <4>1, <4>3, DurationType
      <4>5. tally.lived - tally.lost = engine.before
        BY <1>2, <2>4, <2>5
      <4> QED
        BY <1>1, <1>2, <2>4, <3>3, <4>4, <4>5, DurationType
    <3> QED
      BY <2>3, <3>2, <3>3
  <2> QED
    BY <2>6, <2>7, <2>8 DEF ClockInv
<1> QED
  BY <1>3, <1>4 DEF Passes

(***************************************************************************)
(* The seeds' runs and their marks                                         *)
(***************************************************************************)

ValidRuns(state, seed) ==
    {j \in DOMAIN state.runs : state.runs[j] = [seed |-> seed, valid |-> TRUE]}

(* A marked seed has one valid run, any other has none.                    *)
OneValidRun(state) ==
    \A seed \in STRING :
        IF seed \in state.seeded THEN \E j : ValidRuns(state, seed) = {j}
                                ELSE ValidRuns(state, seed) = {}

RunsMatchMarks == OneValidRun(record) /\ (Up => OneValidRun(engine.state))

SeedsInv == SeedsLeft /\ RunsMatchMarks

LEMMA SameRuns ==
    ASSUME NEW state, NEW other, OneValidRun(state),
           other.runs = state.runs, other.seeded = state.seeded
    PROVE  OneValidRun(other)
BY DEF OneValidRun, ValidRuns

(* One more run of a seed that is not marked, valid or not.                *)
LEMMA AfterSeedMatches ==
    ASSUME NEW state \in States, OneValidRun(state),
           NEW seed \in STRING, seed \notin state.seeded, NEW valid \in BOOLEAN
    PROVE  OneValidRun(AfterSeed(state, seed, valid))
<1> DEFINE run == [seed |-> seed, valid |-> valid]
           next == AfterSeed(state, seed, valid)
           last == Len(state.runs) + 1
<1>1. /\ next.runs = Append(state.runs, run)
      /\ next.seeded = IF valid THEN state.seeded \cup {seed} ELSE state.seeded
  BY DEF AfterSeed, States
<1>2. state.runs \in Seq(SeedRuns) /\ run \in SeedRuns
  BY DEF States, SeedRuns
<1> SUFFICES ASSUME NEW other \in STRING
             PROVE  IF other \in next.seeded THEN \E j : ValidRuns(next, other) = {j}
                                             ELSE ValidRuns(next, other) = {}
  BY DEF OneValidRun
<1>3. ValidRuns(next, other) =
        IF valid /\ other = seed THEN ValidRuns(state, other) \cup {last}
                                 ELSE ValidRuns(state, other)
  <2>1. /\ DOMAIN next.runs = DOMAIN state.runs \cup {last}
        /\ \A j \in DOMAIN state.runs : next.runs[j] = state.runs[j]
        /\ next.runs[last] = run /\ last \notin DOMAIN state.runs
    <3> HIDE DEF next, run
    <3> QED
      BY <1>1, <1>2
  <2>2. run = [seed |-> other, valid |-> TRUE] <=> valid /\ other = seed
    OBVIOUS
  <2> HIDE DEF next, run, last
  <2> QED
    BY <2>1, <2>2 DEF ValidRuns
<1>4. IF other \in state.seeded THEN \E j : ValidRuns(state, other) = {j}
                                ELSE ValidRuns(state, other) = {}
  BY DEF OneValidRun
<1> HIDE DEF next, last
<1>5. CASE valid /\ other = seed
  BY <1>1, <1>3, <1>4, <1>5
<1>6. CASE ~(valid /\ other = seed)
  BY <1>1, <1>3, <1>4, <1>6
<1> QED
  BY <1>5, <1>6

LEMMA SaveSeeds ==
    ASSUME BaselineTypeOK, SeedsInv, Up, NEW state \in States, OneValidRun(state),
           NEW next \in Phases, SaveOrStop(state, next)
    PROVE  SeedsInv'
<1>1. engine \in Engines /\ Stamped(state) \in States
  BY UpType, StampedType
<1>2. OneValidRun(Stamped(state))
  <2>1. Stamped(state).runs = state.runs /\ Stamped(state).seeded = state.seeded
    BY DEF Stamped, States
  <2> QED
    BY <2>1, SameRuns
<1>3. engine'.state = Stamped(state) /\ engine'.busy = FALSE
  <2>1. PICK then \in {next, "stopping"} : Carries(state, then)
    BY SavesAre
  <2> QED
    BY <1>1, <2>1 DEF Carries, Engines
<1>4. record' = record \/ record' = Stamped(state)
  BY SavesAre DEF Stored
<1>5. SeedsLeft'
  BY <1>3 DEF SeedsLeft
<1>6. RunsMatchMarks'
  BY <1>2, <1>3, <1>4 DEF SeedsInv, RunsMatchMarks
<1> QED
  BY <1>5, <1>6 DEF SeedsInv

(* A quiet step begins the next seed only while one is left.               *)
LEMMA QuietSeeds ==
    ASSUME BaselineTypeOK, SeedsInv, Quiet
    PROVE  SeedsInv'
<1>1. /\ Up /\ engine \in Engines /\ engine' \in Engines /\ engine'.state = engine.state
      /\ record' = record
  BY QuietType, UpType
<1>2. SeedsLeft'
  <2>1. PendingSeeds' = PendingSeeds
    BY <1>1 DEF PendingSeeds
  <2>2. CASE PassOver \/ StepFails
    <3>1. engine'.busy = FALSE
      BY <1>1, <2>2 DEF PassOver, StepFails, Engines
    <3> QED
      BY <3>1 DEF SeedsLeft
  <2>3. CASE BeginStep
    <3>1. engine.phase = "seeds" => PendingSeeds # {}
      BY <2>3 DEF BeginStep, Done
    <3>2. engine'.phase = engine.phase
      BY <1>1, <2>3 DEF BeginStep, Engines
    <3> QED
      BY <2>1, <3>1, <3>2 DEF SeedsLeft
  <2>4. CASE BudgetTimer \/ WallClockGuard \/ OperatorStops
    <3>1. engine'.phase = engine.phase /\ engine'.busy = engine.busy
      BY <1>1, <2>4 DEF BudgetTimer, WallClockGuard, OperatorStops, Cancelled, Engines
    <3> QED
      BY <1>1, <2>1, <3>1 DEF SeedsInv, SeedsLeft
  <2>5. CASE VerifyClean
    <3>1. engine'.phase = "candidates"
      BY <1>1, <2>5 DEF VerifyClean, Engines
    <3> QED
      BY <3>1 DEF SeedsLeft
  <2>6. CASE ReportsRefused
    <3>1. engine'.phase = "stopping"
      BY <1>1, <2>6 DEF ReportsRefused, Engines
    <3> QED
      BY <3>1 DEF SeedsLeft
  <2> QED
    BY <2>2, <2>3, <2>4, <2>5, <2>6 DEF Quiet
<1> QED
  BY <1>1, <1>2 DEF SeedsInv, RunsMatchMarks

(* An invalid run is kept in memory, the step is left unmarked.            *)
LEMMA InvalidSeedSeeds ==
    ASSUME BaselineTypeOK, SeedsInv, InvalidSeed
    PROVE  SeedsInv'
<1>1. Up /\ engine \in Engines /\ engine.state \in States /\ record' = record
  BY UpType DEF InvalidSeed, InStep, Engines
<1>2. NextSeed \in STRING /\ NextSeed \notin engine.state.seeded
  BY PendingSeedType DEF InvalidSeed, InStep, SeedsInv, SeedsLeft
<1>3. engine'.state = AfterSeed(engine.state, NextSeed, FALSE) /\ engine'.busy = FALSE
  BY <1>1 DEF InvalidSeed, Engines
<1>4. OneValidRun(engine'.state)
  BY <1>1, <1>2, <1>3, AfterSeedMatches DEF SeedsInv, RunsMatchMarks
<1> QED
  BY <1>1, <1>3, <1>4 DEF SeedsInv, SeedsLeft, RunsMatchMarks

LEMMA StartRunSeeds ==
    ASSUME BaselineTypeOK, SeedsInv, StartRun
    PROVE  SeedsInv'
<1>1. /\ record' = Started(record) /\ engine'.state = Started(record)
      /\ engine'.busy = FALSE
  BY DEF StartRun
<1>2. OneValidRun(Started(record))
  <2>1. Started(record).runs = record.runs /\ Started(record).seeded = record.seeded
    BY DEF Started, BaselineTypeOK, States
  <2> QED
    BY <2>1, SameRuns DEF SeedsInv, RunsMatchMarks
<1> QED
  BY <1>1, <1>2 DEF SeedsInv, SeedsLeft, RunsMatchMarks

LEMMA EndsSeeds ==
    ASSUME BaselineTypeOK, SeedsInv, Ends
    PROVE  SeedsInv'
<1>1. Up /\ engine.state \in States /\ engine' = NoEngine
  BY UpType DEF Ends, CaptureStop, ReportsWritten, Killed, Ended, Engines
<1>2. ~Up'
  BY <1>1 DEF Up, NoEngine
<1>3. OneValidRun(record')
  <2>1. CASE CaptureStop
    <3>1. PICK state \in Classified : record' = Stamped(state) \/ record' = record
      BY <2>1 DEF CaptureStop
    <3>2. state \in States
      BY <1>1, ClassifiedType
    <3>3. state.runs = engine.state.runs /\ state.seeded = engine.state.seeded
      BY <1>1 DEF Classified, States
    <3>4. /\ Stamped(state).runs = engine.state.runs
          /\ Stamped(state).seeded = engine.state.seeded
      BY <3>2, <3>3 DEF Stamped, States
    <3>5. OneValidRun(Stamped(state))
      BY <1>1, <3>4, SameRuns DEF SeedsInv, RunsMatchMarks
    <3> QED
      BY <3>1, <3>5 DEF SeedsInv, RunsMatchMarks
  <2>2. CASE ReportsWritten \/ Killed
    BY <2>2 DEF ReportsWritten, Killed, SeedsInv, RunsMatchMarks
  <2> QED
    BY <2>1, <2>2 DEF Ends
<1> QED
  BY <1>2, <1>3 DEF SeedsInv, SeedsLeft, RunsMatchMarks

LEMMA PassesSeeds ==
    ASSUME BaselineTypeOK, SeedsInv, Passes
    PROVE  SeedsInv'
<1>1. record' = record /\ (Up <=> Up') /\ (Up => engine \in Engines)
  BY PassesType DEF Passes, Tick, Suspend, Idle, Up, Engines, Phases
<1>2. Up => /\ engine'.state = engine.state /\ engine'.phase = engine.phase
            /\ engine'.busy = engine.busy
  BY <1>1 DEF Passes, Tick, Suspend, Idle, Engines
<1>3. SeedsLeft'
  BY <1>1, <1>2 DEF SeedsInv, SeedsLeft, PendingSeeds
<1> QED
  BY <1>1, <1>2, <1>3 DEF SeedsInv, RunsMatchMarks

(***************************************************************************)
(* The invariant and what follows from it                                  *)
(***************************************************************************)

BaselineInv == BaselineTypeOK /\ ClockInv /\ SeedsInv

(* The steps that end in a save.                                           *)
Saves == Inspect \/ Build \/ BaselineTests \/ RunSeed \/ ApplyDiscovery
         \/ MarkDiscovery \/ NullCandidate \/ CompleteBaseline

(* Each hands the store a state whose runs match its marks.                *)
LEMMA SavesMatch ==
    ASSUME BaselineTypeOK, SeedsInv, Saves
    PROVE  /\ Up /\ UNCHANGED clock /\ binaries' \in BOOLEAN
           /\ \E state \in States : \E next \in Phases :
                OneValidRun(state) /\ SaveOrStop(state, next)
<1>1. /\ Up /\ UNCHANGED clock /\ binaries' \in BOOLEAN
  BY DEF Saves, Inspect, Build, BaselineTests, RunSeed, ApplyDiscovery, MarkDiscovery,
         NullCandidate, CompleteBaseline, EndStep, InStep, BaselineTypeOK
<1>2. engine.state \in States /\ OneValidRun(engine.state) /\ tally.runs \in Nat
  BY <1>1, UpType DEF SeedsInv, RunsMatchMarks, Engines, BaselineTypeOK, LivedTallies
<1>3. {"build", "tests", "seeds", "discovered", "report", "candidates", "ending"}
        \subseteq Phases
  BY DEF Phases
<1> DEFINE Held(state) == state \in States /\ OneValidRun(state)
<1>4. \A marks \in SUBSET Marks : Held([engine.state EXCEPT !.steps = @ \cup marks])
  <2> TAKE marks \in SUBSET Marks
  <2> DEFINE state == [engine.state EXCEPT !.steps = @ \cup marks]
  <2>1. state \in States
    BY <1>2, EditedState
  <2>2. state.runs = engine.state.runs /\ state.seeded = engine.state.seeded
    BY <1>2 DEF States
  <2>3. Held(state)
    <3> HIDE DEF state
    <3> QED
      BY <1>2, <2>1, <2>2, SameRuns
  <2> QED
    BY <2>3
<1>5. Held([engine.state EXCEPT !.weights = @ \cup {tally.runs}])
  <2> DEFINE state == [engine.state EXCEPT !.weights = @ \cup {tally.runs}]
  <2>1. state \in States
    BY <1>2, EditedState
  <2>2. state.runs = engine.state.runs /\ state.seeded = engine.state.seeded
    BY <1>2 DEF States
  <2> HIDE DEF state
  <2> QED
    BY <1>2, <2>1, <2>2, SameRuns DEF state
<1>6. Held([engine.state EXCEPT !.nulls = Append(@, Len(@) + 1)])
  <2> DEFINE state == [engine.state EXCEPT !.nulls = Append(@, Len(@) + 1)]
  <2>1. state \in States
    BY <1>2, EditedState
  <2>2. state.runs = engine.state.runs /\ state.seeded = engine.state.seeded
    BY <1>2 DEF States
  <2> HIDE DEF state
  <2> QED
    BY <1>2, <2>1, <2>2, SameRuns DEF state
<1>7. Held([engine.state EXCEPT !.status = "completed"])
  <2> DEFINE state == [engine.state EXCEPT !.status = "completed"]
  <2>0. "completed" \in Statuses
    BY DEF Statuses
  <2>1. state \in States
    BY <1>2, <2>0, EditedState
  <2>2. state.runs = engine.state.runs /\ state.seeded = engine.state.seeded
    BY <1>2 DEF States
  <2> HIDE DEF state
  <2> QED
    BY <1>2, <2>1, <2>2, SameRuns DEF state
<1>8. RunSeed => Held(AfterSeed(engine.state, NextSeed, TRUE))
  <2>1. RunSeed => NextSeed \in STRING /\ NextSeed \notin engine.state.seeded
    BY PendingSeedType DEF RunSeed, InStep, SeedsInv, SeedsLeft
  <2> QED
    BY <1>2, <2>1, AfterSeedType, AfterSeedMatches
<1>9. /\ {"inspect"} \in SUBSET Marks /\ {"build"} \in SUBSET Marks
      /\ {"baseline_tests", "baseline_test_passes"} \in SUBSET Marks
      /\ {"discovery_profile"} \in SUBSET Marks
  BY DEF Marks
<1>10. \E state : \E next \in Phases : Held(state) /\ SaveOrStop(state, next)
  <2> HIDE DEF Held
  <2>1. CASE Inspect
    BY <1>3, <1>4, <1>9, <2>1 DEF Inspect, EndStep
  <2>2. CASE Build
    BY <1>3, <1>4, <1>9, <2>2 DEF Build
  <2>3. CASE BaselineTests
    BY <1>3, <1>4, <1>9, <2>3 DEF BaselineTests, EndStep
  <2>4. CASE RunSeed
    BY <1>3, <1>8, <2>4 DEF RunSeed
  <2>5. CASE ApplyDiscovery
    BY <1>3, <1>5, <2>5 DEF ApplyDiscovery
  <2>6. CASE MarkDiscovery
    BY <1>3, <1>4, <1>9, <2>6 DEF MarkDiscovery
  <2>7. CASE NullCandidate
    BY <1>3, <1>6, <2>7 DEF NullCandidate
  <2>8. CASE CompleteBaseline
    BY <1>3, <1>7, <2>8 DEF CompleteBaseline
  <2> QED
    BY <2>1, <2>2, <2>3, <2>4, <2>5, <2>6, <2>7, <2>8 DEF Saves
<1> QED
  BY <1>1, <1>10

LEMMA BaselineInitial == BaselineInit => BaselineInv
<1> SUFFICES ASSUME BaselineInit PROVE BaselineInv
  OBVIOUS
<1>1. ~Up
  BY DEF BaselineInit, Up, NoEngine
<1>2. NewRecord \in States
  <2>1. <<>> \in Seq(SeedRuns) /\ <<>> \in Seq(Nat) /\ "pending" \in Statuses /\ 0 \in Int
    BY DEF Statuses
  <2> QED
    BY <2>1 DEF NewRecord, States
<1>3. BaselineTypeOK
  <2>1. clock = 0 /\ record = NewRecord /\ binaries = FALSE /\ engine = NoEngine
    BY DEF BaselineInit
  <2>2. tally \in LivedTallies
    BY DEF BaselineInit, LivedTallies
  <2> QED
    BY <1>2, <2>1, <2>2 DEF BaselineTypeOK
<1>4. ClockInv
  <2>1. record.elapsed = 0 /\ tally.lived = 0 /\ tally.lost = 0 /\ tally.excused = 0
    BY DEF BaselineInit, NewRecord
  <2>2. BudgetIsNotExceeded
    BY <1>1, <2>1, DurationType DEF BudgetIsNotExceeded
  <2> QED
    BY <1>1, <2>1, <2>2 DEF ClockInv, InOrder, TookUp, ElapsedIsTheTimeLived
<1>5. SeedsInv
  <2>1. record.runs = <<>> /\ record.seeded = {}
    BY DEF BaselineInit, NewRecord
  <2>2. OneValidRun(record)
    BY <2>1 DEF OneValidRun, ValidRuns
  <2> QED
    BY <1>1, <2>2 DEF SeedsInv, SeedsLeft, RunsMatchMarks
<1> QED
  BY <1>3, <1>4, <1>5 DEF BaselineInv

LEMMA BaselineStep == BaselineInv /\ [BaselineNext]_baselineVars => BaselineInv'
<1> SUFFICES ASSUME BaselineInv, [BaselineNext]_baselineVars
             PROVE  BaselineInv'
  OBVIOUS
<1>1. BaselineTypeOK /\ ClockInv /\ SeedsInv
  BY DEF BaselineInv
<1>2. CASE Saves
  <2>1. PICK state \in States, next \in Phases :
          /\ Up /\ UNCHANGED clock /\ binaries' \in BOOLEAN
          /\ OneValidRun(state) /\ SaveOrStop(state, next)
    BY <1>1, <1>2, SavesMatch
  <2>2. BaselineTypeOK'
    BY <1>1, <2>1, SaveType
  <2>3. ClockInv'
    BY <1>1, <2>1, SaveClock
  <2>4. SeedsInv'
    BY <1>1, <2>1, SaveSeeds
  <2> QED
    BY <2>2, <2>3, <2>4 DEF BaselineInv
<1>3. CASE Quiet
  <2>1. /\ Up /\ engine' \in Engines /\ engine'.startedAt = engine.startedAt
        /\ engine'.before = engine.before /\ engine'.remaining = engine.remaining
        /\ UNCHANGED <<clock, record, binaries, tally>>
    BY <1>1, <1>3, QuietType
  <2>2. BaselineTypeOK'
    BY <1>1, <2>1 DEF BaselineTypeOK
  <2>3. ClockInv' /\ SeedsInv'
    BY <1>1, <1>3, <2>1, QuietClock, QuietSeeds
  <2> QED
    BY <2>2, <2>3 DEF BaselineInv
<1>4. CASE InvalidSeed
  <2>1. Up /\ engine \in Engines /\ SeedsLeft
    BY <1>1, <1>4, UpType DEF InvalidSeed, InStep, SeedsInv
  <2>2. BaselineTypeOK'
    BY <1>1, <1>4, <2>1, StepType
  <2>3. /\ engine'.startedAt = engine.startedAt /\ engine'.before = engine.before
        /\ engine'.remaining = engine.remaining /\ engine' # NoEngine
        /\ UNCHANGED <<clock, record, tally>>
    BY <1>4, <2>1 DEF InvalidSeed, NoEngine, Engines
  <2>4. engine' \in Engines
    BY <2>2, <2>3 DEF BaselineTypeOK
  <2>5. ClockInv'
    BY <1>1, <2>1, <2>3, <2>4, QuietClock
  <2> QED
    BY <1>1, <1>4, <2>2, <2>5, InvalidSeedSeeds DEF BaselineInv
<1>5. CASE StartRun
  BY <1>1, <1>5, StartRunType, StartRunClock, StartRunSeeds DEF BaselineInv
<1>6. CASE Ends
  BY <1>1, <1>6, EndsType, EndsClock, EndsSeeds DEF BaselineInv
<1>7. CASE Passes
  BY <1>1, <1>7, PassesType, PassesClock, PassesSeeds DEF BaselineInv
<1>8. CASE StartRefused
  <2>1. ~Up /\ ~Up'
    BY <1>1, <1>8, StartRefusedKeeps DEF Up
  <2>2. ClockInv'
    BY <1>1, <1>8, <2>1, StartRefusedKeeps
       DEF ClockInv, InOrder, TookUp, ElapsedIsTheTimeLived, BudgetIsNotExceeded
  <2>3. OneValidRun(record')
    BY <1>1, <1>8, StartRefusedKeeps, SameRuns DEF SeedsInv, RunsMatchMarks
  <2> QED
    BY <1>1, <1>8, <2>1, <2>2, <2>3, StartRefusedKeeps
       DEF BaselineInv, SeedsInv, SeedsLeft, RunsMatchMarks
<1>9. CASE UNCHANGED baselineVars
  BY <1>1, <1>9 DEF baselineVars, BaselineInv, BaselineTypeOK, ClockInv, InOrder, TookUp,
       ElapsedIsTheTimeLived, BudgetIsNotExceeded, Up, SeedsInv, SeedsLeft, PendingSeeds,
       RunsMatchMarks
<1> QED
  BY <1>2, <1>3, <1>4, <1>5, <1>6, <1>7, <1>8, <1>9
     DEF BaselineNext, Saves, Quiet, Ends, Passes

(* The invariant that carries the three theorems: the types, what a        *)
(* process took up when it started, and the runs and marks of the state in *)
(* memory as well as of the one on disk.                                   *)
THEOREM BaselineInvariant == BaselineSpec => []BaselineInv
<1>1. BaselineInit => BaselineInv
  BY BaselineInitial
<1>2. BaselineInv /\ [BaselineNext]_baselineVars => BaselineInv'
  BY BaselineStep
<1> QED
  BY <1>1, <1>2, PTL DEF BaselineSpec

(* elapsedRunTime and the saves account for every second the processes     *)
(* lived, less what kills and refused last saves gave back, for any number *)
(* of processes, kills and suspensions.                                    *)
THEOREM CountsTheTimeLived == BaselineSpec => []ElapsedIsTheTimeLived
<1>1. BaselineInv => ElapsedIsTheTimeLived
  BY DEF BaselineInv, ClockInv
<1> QED
  BY <1>1, BaselineInvariant, PTL

(* Whatever max_duration is and however often the campaign is resumed, its *)
(* processes work no longer than that together, beyond what was lost and   *)
(* what a suspended machine or the stop itself excuses.                    *)
THEOREM BudgetIsKept == BaselineSpec => []BudgetIsNotExceeded
<1>1. BaselineInv => BudgetIsNotExceeded
  BY DEF BaselineInv, ClockInv
<1> QED
  BY <1>1, BaselineInvariant, PTL

(* For every list of seeds, one that repeats a seed included, a seed's     *)
(* step is marked on disk if and only if exactly one valid run of it is    *)
(* recorded there.                                                         *)
THEOREM RunsMatchSteps == BaselineSpec => []SeedRunsMatchSteps
<1>1. BaselineInv => SeedRunsMatchSteps
  <2> SUFFICES ASSUME BaselineInv, NEW i \in DOMAIN SeedSteps
               PROVE  Cardinality(ValidRuns(record, SeedSteps[i]))
                        = IF SeedSteps[i] \in record.seeded THEN 1 ELSE 0
    BY DEF SeedRunsMatchSteps, ValidRuns
  <2>1. /\ SeedSteps[i] \in STRING /\ OneValidRun(record)
    BY SeedType DEF BaselineInv, SeedsInv, RunsMatchMarks
  <2>2. CASE SeedSteps[i] \in record.seeded
    <3>1. PICK j : ValidRuns(record, SeedSteps[i]) = {j}
      BY <2>1, <2>2 DEF OneValidRun
    <3>2. Cardinality({j}) = 1
      BY FS_Singleton
    <3> QED
      BY <2>2, <3>1, <3>2
  <2>3. CASE SeedSteps[i] \notin record.seeded
    <3>1. ValidRuns(record, SeedSteps[i]) = {}
      BY <2>1, <2>3 DEF OneValidRun
    <3> QED
      BY <2>3, <3>1, FS_EmptySet
  <2> QED
    BY <2>2, <2>3
<1> QED
  BY <1>1, BaselineInvariant, PTL

=============================================================================
