# gotorque, verified: a campaign, its candidates and what survives it

gotorque runs *campaigns*: it profiles a Go program, lets agents propose
patches one at a time, measures each patch against the baseline, and records a
verdict. A campaign lasts hours, can be killed at any instant, and is resumed by
another process from its database. This directory models that control flow in
TLA+, checks it with TLC on small instances and proves its main promises with
TLAPS for every instance.

## The system

| component (under `src/internal`) | state it keeps | operations | hard behaviour | what makes it correct |
|---|---|---|---|---|
| `orchestrator/ledger.go`, `termination.go` | none: pure functions of the ledger of judged candidates | fold the ledger into tallies, find the next open target, test the bounds | a resume derives at once what a process counted one by one | both ways give the same numbers |
| `orchestrator/orchestrator.go` | `CampaignState`, in a session that dies with the process | the nodes initialize, discover, analyst, merge, optimizer, evaluate, reviewer, apply_policy, skip, route, finalize | failing roles, the re-ask loop, outages, termination | one re-ask per cycle; an outage is two failed cycles; every run ends |
| `campaign/engine.go`, `adk.go` | `Engine.state` in memory, the `accepted/` directory, the run clock | Resume, Run, settle, finishCampaign, captureRunFailure | crash between two writes, refused writes, signals, spent budget | the database is an append-only log of lawful verdicts |
| `campaign/store.go` | bbolt: the state record, the events, the Jev cache | Save, Append, JevCacheGet, JevCachePut | Save and Append are two transactions | whatever failed, the state on disk is one that was saved |
| `campaign/engine.go` (baseline steps), `null.go` | completed steps, seed runs, elapsed time | inspect, build, test, seeds, discovery, verify clean, null candidates | a kill between a run and its save, a suspended machine, a budget spent over processes | recorded runs match step marks; no process gets more than what is left |
| `campaign/candidate_eval.go`, `eval_ports.go`, `verify.go`, `candidate/worktree.go` | worktrees, the test baseline, the measured candidates | resolve, prepare, build, test, measure; verify again later | ten stages that may each end it, a kill at any of them | worktrees are removed; a verification leaves the campaign's baseline alone |
| the measurement in `candidate_eval.go`, `loadavg.go` | the series kept per workload, the evidence | passes, stress seeds, replication, confirmation, selection | contended passes, readings chosen for being good, failing series | nothing discarded is judged; the second looks end |
| `policy/policy.go` | none | verdict from gates, guardrails, objective | missing, unsupported or spared readings | no acceptance past a proven breach, nothing passed over in silence |
| `campaign/testgate.go` | the baseline's test outcomes | establish, recheck, prune, compare | flaky and vanishing tests | a stable pass is never pruned |
| `runner/runner.go`, `campaign/paired.go`, `shift.go` | the runs of one series | interleave, compare outputs, test differences | position effects, slow stretches, unordered output | a difference read is one of the binaries |
| `candidate/normalize.go`, `remap.go`, `patch.go` | the patch file | normalise, remap, validate, apply | damaged hunks, guessed paths, a fuzzy apply tool | what is applied is what was proposed |
| `discovery`, `profile` | report files, samples, the hot list | sample, retry, amplify, fall back, attribute, merge | blank reports, colliding names, orphaned system calls | evidence cites the report it was read from; credit is conserved |
| `jev/client.go`, `canary.go`, `campaign/jevcache.go` | answers by digest, here and across campaigns | ask, cache, replay, preflight | retries, partial answers, another build, scattering samples | no answer of another build; one outlier decides nothing |
| `campaign/causes.go`, `veto.go`, `writes.go`, `history.go`, `jev/causes.go`, `fixkinds.go` | the ranking of a cycle, the targets earlier campaigns closed | flag, veto, rank, put code-derived targets first, load history | failing classifications, crowded and vetoed causes, chains of campaigns | a cause that stands out gets its turn; nothing measured is attacked again |
| `toolchain/executor.go` | a process group | run, cancel, terminate, kill | cancellation racing exit, helpers holding pipes | what Run returned from is over |
| `agents/fence.go`, `stream.go` | attempt counter, pump goroutine | retry ladder, idle timer | partial answers, backoff racing cancellation | at most one answer escapes |
| `manifest`, `cli`, source rewriting, decoding, reports | files and text | parse, rewrite, render | - | out of scope, see below |

The interaction that matters: `Engine.Run` hands the recorded candidates to the
graph (`recordedCandidates`), the graph calls back into the engine through the
`Bench` interface (`Assess` to evaluate a candidate, `Settle` to make a verdict
durable), and the engine saves through `saveEvent`. `Assess` runs one evaluation:
the patch pipeline prepares a worktree, the test gate judges it, the measurement
runs its series through the runner and the executor, and the policy reads the
evidence. Discovery and Jev feed the ranking the graph starts from. The process, its session
state and `Engine.state` vanish together; the database and `accepted/` stay.

## Modules

| module | models | proved in |
|---|---|---|
| `Ledger` | `tallies`, `talliesOf`, `after`, `triedTargets`, `nextTarget`, the bounds: operators only, written without RECURSIVE so that theorems can use them | `CampaignProofs` |
| `CampaignGraph` | the agent graph, one action per node; `state` is `CampaignState`, `node` the scheduler's position, `asks` a history variable counting optimizer calls of a cycle | with `Campaign` |
| `Campaign` | composes the graph with the engine, its store and its processes | `CampaignProofs` |
| `VerdictLog` | the abstract promise: an append-only log with Judge, Conclude and Reopen | `CampaignRefinement` |
| `CampaignProperties` | the properties and the refinement mapping | |
| `MCCampaign` | the values TLC runs with | |
| `OneAnswer` | the abstract promise of one model call | `ModelCallProofs` |
| `Ladder` | the retry ladder of `agents/fence.go` over any inner model | `ModelCallProofs` |
| `Stream` | the ladder over the streamed model: per attempt a context, a pump goroutine, `drain`, and the reasoning budget they share with the transport | `ModelCallProofs` |
| `Policy` | `policy.Evaluate` and the predicates that ask for more pairs: operators over readings | `MeasurementProofs` |
| `Measurement` | the measurement of one candidate, on top of `Policy`; `MeasurementProperties` states what it promises | `MeasurementProofs` |
| `BaselineRun` | the processes of a campaign without agents: baseline steps, null candidates, both clocks | `BaselineRunProofs` |
| `TestGate` | one `go test -json` run, the baseline, the classification, the pruning: operators | `EvaluationProofs` |
| `Evaluation` | evaluations and verifications up to the measurement, on top of `TestGate`, with worktrees and kills | `EvaluationProofs` |
| `JevQuestions` | one classification from cache, record or Jev, over processes and builds | `ServicesProofs` |
| `JevPreflight` | the canary and its confirmation | `ServicesProofs` |
| `Executor` | one command, its process group and its cancellation | `ServicesProofs` |
| `HotList` | from stacks to credit, shares and the hot list: operators | `ServicesProofs` |
| `Discovery` | the ladder of samples and its fallbacks, on top of `HotList` | `ServicesProofs` |
| `CauseTargets` | from Jev's answers and code's evidence to the target of each cycle, over campaigns with `--history` | `ServicesProofs` |
| `PairedSeries` | one workload run by run, and what its pairs are read as | `ServicesProofs` |
| `Patch` | a proposed patch from text to worktree | `PatchProofs` |
| `MCMeasurement`, `MCServices` | the values TLC runs with; `MCServices` puts the parts side by side | |

### How the campaign model corresponds to the code

* `mem` is `Engine.state`, `disk` the state record of the database. Only the
  fields a verdict or a stop touches are kept; the events are write-only and
  only the failure to append one is kept.
* `Start` is Resume and the head of `Run`: the save of `campaign_started` may
  fail, and that error returns before `captureRunFailure` is armed.
* `BeginSettle`, `Promote`, `Record`, `Mark`, `Tally` are `settle` cut at every
  write: the copy into `accepted/`, `persistVerdict` (whose error is swallowed,
  so the run continues with a record that is only in memory),
  `candidate_accepted`, and the tallies (`adk_progress`). `Tally` that succeeds
  returns to `apply_policy`, which counts the verdict in the graph.
* A save is `Saved`, `SaveRefused` (nothing written) or `AppendRefused` (the
  state written, the event not): both failures are an error to the caller.
* `Complete`, `FinishFailed`, `WriteReports` are the ends of `finishCampaign`;
  `CaptureRunFailure` is the deferred handler, best effort as in the code. A
  report that fails after the completed state was saved makes
  `captureRunFailure` save the campaign as failed: `VerdictLog` calls it Reopen.
* `ContextDone` is the operator's signal or the spent `max_duration`;
  `RunError` is any error a step returns, afterwards classified as interrupted
  or failed. A canceled graph may drain without a result, so both
  classifications are possible. `Crash` is SIGKILL or power loss.
* Saves of other events during a run (notes, the evaluation journal) rewrite
  fields the model does not keep and leave the kept ones as they are on disk,
  except in settlement, where every save is an action.
* Answers of models are data: a ranking of targets, the shape of the optimizer's
  answer, the success of the reviewer. An evaluation is `Assessments`: every
  evidence `Assess` can return for that answer, given the patches already
  measured.

### How the model call corresponds to the code

* `Ladder` has one action per outcome of `streamAttempt`: a permanent error, a
  transient one, a partial, an unusable response, an answer, the end of the
  inner sequence. Each includes the report to the observer and, on a retry, the
  reading of `exhausted`. `run` is `generateRun`, with the attempt each value
  came from instead of its text. JSON parsing is the choice between "usable"
  and "garbled".
* `Stream` replaces the arbitrary inner model by `streamedModel`. `call[a]` is
  all that belongs to attempt `a`, whose pump may outlive it. A channel
  operation follows Go: a parked goroutine is woken by the first event that
  makes one of its cases ready (`Interrupted`, `PumpCloses`, `InnerYields`), and
  a goroutine that arrives at its select takes any case that is ready
  (`DrainTakes`, `DrainSeesClose`, `DrainSeesCancel`, `IdleTimer`).
* The inner sequence is ADK's client over `eventStreamReader`: deltas and then
  one aggregated item; a stream without a terminal event is an error. A
  reasoning-only cutoff marks `exhausted` when the reader sees it, before the
  error travels through pump and drain.
* `over` and `sent` are read by no action; they record that a sequence ended by
  itself and how a request went out, for the properties.

### How the evaluation models correspond to the code

* `Policy` is a pure function, translated gate by gate in the order of
  `Evaluate`. Percentages are integers, which keeps every comparison with a
  limit; a reading that is no number compares with nothing, as a NaN does. What
  a verdict says is reduced to its decision, the rule that took it and the
  reading it names.
* `Measurement` names every series kept for a workload by its origin ("first
  pass", "confirmation", "fresh"...), and lets each derivation of the comparisons
  take any readings: what pairs read is the world's choice. `stage` follows
  `measureAndFinalize` (pass, stress, replicate, regressions, improvements,
  extend, selection, remeasure), and `SeriesFails` may end any series.
* `TestGate` keeps a test's package, its top-level test, its subtest and the
  pointer address in its name, because the rules tell those apart. `Evaluation`
  takes one proposal through the stages of `evaluate` and `Verify`; a baseline
  is `campaign` in memory and `disk` when saved. Worktrees are made and removed by
  git commands that may fail: `Close` discards the error of a removal, and a creation
  that fails, or that a cancelled context cuts (SIGKILL 250 ms after SIGTERM), returns
  without one (`CreateTreeFails`, `RemoveTrees`). `CancelEvaluation` is the budget or
  Ctrl-C, under any stage; `Kill` may strike anywhere, in the middle of a git command
  too. `trees` is what is on disk, `defers` what the deferred calls of `evaluate` will
  remove, and `left` is history: the trees one of these mishaps left.
* `Patch` represents a line by its kind and its origin, so that damage and repair
  are visible and text is not. A proposed hunk is a body and what became of it: the
  space of its blank lines trimmed or not, and either slack after it or, after its
  first `at` lines, a line no hunk can hold, which may so stand before the body, in it
  or behind it. `Left` is how much of such a hunk can be read: `normalizeHunk` cuts it
  at its first malformed line and recounts what is left. `GitReads` is external: what
  `git apply` takes from the lines it is given. The fuzzy tool may apply to any file it
  can find, which is what `rejectProtectedChanges` guards against.
* `PairedSeries` computes the exact signed-rank test by counting sign patterns
  and the shift as a median, in integers; its world has a position effect, one
  slow stretch, and output whose order changes in a chosen run.

### How the other models correspond to the code

* `BaselineRun` has one action per step of `runBaselineSteps` and per save. A save is
  stored, refused (`Refused`) or stored without its event (`EventRefused`): either
  failure stops the process, and the second leaves the change on disk. The first save
  of a process may fail before `captureRunFailure` is armed (`StartRefused`), and final
  reports that cannot be written turn a completed campaign into a failed one
  (`ReportsRefused`).
  `Tick` moves both clocks; `Suspend` moves the wall clock alone, which is what a
  sleeping machine does to Go's timers. `tally` is history, read by no action:
  what the processes lived, what a kill gave back.
* `JevQuestions` keeps two stores, the campaign's bucket and the record shared
  across campaigns; `StartClient` may pin another build. An answer may lack its
  model, its provider or answers. Usage goes the way the code sends it: an answer that
  is taken adds to the process's collector (`Counted`), a save writes the collector's
  total on top of what the process found (`RecordTokenUsage`), a process that dies
  takes what it had not saved with it. Jev charges on its own account (`bill`, read by
  no action), also for what no process takes: an answer of another build or provider
  (`AnswerRefused`), a request that was cut or timed out (`Throttled`, `JevFails`,
  `KillClient`). `JevPreflight` has one action per sample.
* `Executor`: leader, helper and pipes end in any order; `TerminateGroup`,
  `KillGroup` and `WaitReturns` are the escalation. A wait returns when the leader
  is dead and nobody holds its pipes. `OutputExceeds` allows more than the code does
  today: `limitedBuffer` embeds a `bytes.Buffer`, and the copy of the pipe goes through
  its promoted `ReadFrom`, which knows no limit.
* `Discovery`: one step is one run of the sampler, which may be blank, fail,
  miss the target or be refused; `Rediscover` is a resumed campaign, whose
  reports of before are still on disk. `pending` holds the workloads still to
  sample, each with its place in its list and the report file it writes to (a list and
  a place in it: the file names are formatted from exactly those, and no two of them are
  the same); `Work` is the first of them. A stress seed that stands in for the first one leaves no
  skip behind: `FirstLiving` reports a failure only when every candidate failed, and
  then there is no sample. `HotList` is the arithmetic, over a common
  denominator so that shares stay integers.
* `CauseTargets`: what discovery, Jev and the syntax checks say of a program is a
  constant (`Evidence`), one value per start of a campaign; the answers Jev fails
  to give are chosen in every cycle, and one that was given stays (the cache).
  `Analysis` is `AnalyzeCauses` with its order of stages; weights are compared by
  their squares, which keeps them integers. `CreateCampaign` may name any earlier
  campaigns as history; records keep how an attempt ended, because a failed one
  closes its target in its own campaign and not in the next. `Ledger` has the same
  rule for one campaign, over an arbitrary ranking.

Definitions named `Fault...` are wrong variants of the definition below them,
used to test that each property can fail; no specification uses them.

## Checks

| run | what it asks | size |
|---|---|---|
| `MCCampaign.cfg` | types, and the safety of settlement, resume, re-ask and outage | 1.6 M states |
| `MCCampaignLog.cfg` | every run ends; the database follows the verdict log; targets chosen by code | 0.29 M |
| `MCCampaignFreeChoice.cfg` | the same refinement with free choice and a target closed by history | 0.27 M |
| `MCBudgetBindsPerProcess.cfg` | fails as expected: see Disagreements | - |
| `MCProviderFailureIsWhatStopped.cfg` | fails as expected | - |
| `MCLadder.cfg` | three attempts over every inner model | 558 states |
| `MCStream.cfg` | two attempts over the streamed model: what is rebuilt, what is retried, that everything ends | 1.0 M states |
| `MCCutStream.cfg` | fails as expected | - |
| `MCServices.cfg` | every part that works for an evaluation or a discovery: 19 invariants, 4 action properties | 1.4 M states |
| `MCSupportedWin.cfg`, `MCMemoryVeto.cfg`, `MCJevPartial.cfg` | fail as expected: see Disagreements | - |

The parts of `MCServices` share no variable: in the program they meet only
through what one hands to the next, which the models take as data. So a
behaviour of that run is a behaviour of one part (`part`), every part is explored
whole, and the state spaces add up instead of multiplying.

Properties of the campaign (`CampaignProperties`): `GraphAgreesWithRecords`,
`TalliesCountRecordedPrefix`, `AcceptedRecordHasArtifact`, `PatchMeasuredOnce`,
`OneReaskPerCycle`, `OutageIsTwoFailedCycles`, `RunEnds`, `KeepsVerdictLog`; of a
model call (end of `Ladder` and `Stream`): `KeepsOneAnswer`,
`NoReplayAfterPartial`, `ReportsOwnFailure`, `AnswerIsTheWholeStream`,
`RunawayIsNotRepeated`, `NothingLingers`. Of the other parts, each stated next to
its model:

| property | what it says |
|---|---|
| `NoDiscardedReading` | nothing of a contended pass is left for the verdict |
| `OneExtension` | one confirmation at most; series of one length whenever they are pooled; a fresh series holds no pair that selected its workload |
| `SelectionIsFresh` | an acceptance on one of several workloads rests on pairs that did not select it |
| `MeasurementEnds` | a variant decreases with every step, whatever is read |
| `FailedSeriesRejects` | a failing series rejects, however many verified before it |
| `AcceptanceIsEarned` | what an acceptance stands for, stated without the order of the policy's rules |
| `OverLimitIsNamed` | an acceptance names every reading past its limit |
| `StableTestsStayRequired` | a test that passed on every run of the base stays required |
| `MeasuredPassedTheGate` | what is measured failed nothing the base passes, and as an attempt passed every stable test; a verification holds its patch to a copy that its own re-runs may narrow |
| `TreesAreTidied` | a worktree is one the process is still to remove, or one that a kill, a failed removal or a failed creation left: no stage that ends a candidate forgets one, cancelled or not |
| `VerificationLeavesBaseline` | a verification never loosens what attempts are held to |
| `PreparedIsTheProposal` | a prepared patch holds of every hunk the lines up to the first that no hunk can hold, counted right, in its file unless the section's first hunk was emptied, and nothing else; nothing guarded changed; preparing again changes nothing |
| `SeriesReadsTheBinaries` | equal binaries are never read as different, whatever the order of the pairs costs and whenever the machine slows down; a difference larger than that cost is read, at its size; wrong output is never judged |
| `ElapsedIsTheTimeLived`, `BudgetIsNotExceeded` | the campaign's clock over processes, and its budget on both clocks |
| `SeedRunsMatchSteps` | a marked seed has one valid run on record, through kills and refused saves |
| `AnswerIsOfThisBuild`, `UsageIsWhatWasPaid` | what the two answer stores may replay; what Jev charged is what is on record, what the running process has yet to save, what died unsaved and what was paid for nothing, so nothing is counted twice or lost in another way |
| `OneOutlierDecidesNothing` | the canary refuses exactly when two of three samples moved the same way |
| `ReturnedRunIsOver` | when `Run` returns nobody writes any more, and success is a whole output |
| `EvidenceIsBacked` | each merged sample has a report of its own, the one it was read from, and none is of a workload called skipped; two samples of one workload are of two options with one name |
| `CreditIsConserved` | attribution neither loses nor invents samples, and the rounding that the ranking reads moves no function by more than half a sample or past another |
| `AttacksWhatIsOwed` | each cycle attacks a target nothing has answered and leaves no better founded cause waiting; the promise is stated by counting stronger causes, not by the code's tiers and sorts, and leaves the order among the targets code derives by itself open |

**Bounds.** `MaxCandidates` 2 or 3, `MaxConsecutiveFailures` 2 and
`MaxConsecutiveInconclusive` 0 or 2 are manifest values of the code, not
artificial: with three candidates each bound can be the one that stops. Two
targets make "first open target", "both closed" and "closed by a second
unmeasured attempt" happen. `MaxProcesses` = 2 is one crash and one resume;
what a resume can go wrong about is the state one process left. `MaxFaults` = 1
bounds refused writes per campaign, at any write. Patches are interchangeable,
so the safety run uses symmetry; runs with temporal properties do not.
`Attempts` is 3 for the ladder alone, as in the code, and 2 with streams, which
is what one attempt can leave to the next. `MaxDeltas` = 2 lets a response be
built from several deltas and be cut before, between and after them.

In `MCServices`: `MaxDuration` 2 within `LastTick` 4 leaves time to overrun, to
suspend and to resume; `MaxRuns` 2 is a kill and a resume; two seeds are one
before and one after a failure; one null candidate is one after the last step
and may be cut. `MaxEvaluations` 4 is the base's run and three evaluations of one
patch: an attempt, the same patch again (refused as a duplicate, or by the worktree a
mishap left) and a verification between or after them, with cancellations and kills
at will. A second patch would add nothing but a second tree that meets none of the
others; the proofs are for any set of patches. Two eligible workloads make a
selection possible, none makes the measurement inapplicable; one stress seed;
readings are a win, a larger unsupported win, a slowdown and a breach. One site,
one question (an answer is partial without it), two builds and three processes let an
answer return after an upgrade and after a downgrade; two asks are an answer and its
replay, one retry is a failure charged for before the answer. Seven pairs are the fewest
for which the exact test can be significant with one difference against it and
with an odd number of pairs, the case where alternation does not cancel out; two
series are a first one and its confirmation. The order of the pairs costs nothing, the
same in each pair or more in each; a candidate is as fast as the baseline or faster or
slower by more than that. Three sections give a patch a file before and after the
damaged one, and the hunks are sound, trimmed, slack, or broken before, in and behind
their lines; `MaxPrepares` 2 is the evaluation and the
verification. `MaxDiscoveries` 2 is a discovery and the one after a resume; its three seeds are the
first, a stress seed that may stand in for it and is sampled again otherwise, and one
no measurement accepts; a variant is an option of the sampled seed.
Three evidences give `CauseTargets` a vetoed cause between two others, a crowded
one, a deferred one, code-derived targets, both objectives and another revision;
two campaigns and three attempts are an attempt before and after a history, both
refusals of a target and a third choice.

Deadlock is not checked: a model call returns, and a campaign that is complete, or whose last process has
gone, really stops.

**Fairness.** `FairSpec` is weak fairness of the process's own steps: a live
process keeps executing, every role call and every evaluation returns (the code
puts a timeout on every node). Nothing is assumed of `Start`, crashes, signals
or errors. `ServicesSpec` assumes none: that a measurement cannot go on for ever is
shown by a variant that every step decreases (`MeasurementEnds`), which needs none.

## Proofs

Every theorem is for all values of the constants that satisfy the named `ASSUME`s,
and TLC evaluates those on each run. They say what the program guarantees of its
inputs, and nothing else: bounds are naturals, as the manifest's validation makes
them; the seeds of a manifest, and the workloads of one measurement, have distinct
names (`validateSeeds`); a required guardrail is a configured one; readings are
numbers or no number. Data that comes from outside has its shape and no more: the
`Profiles` are stacks of known symbols, each `Evidence` is a hot list and write sites
over located functions, no file of the `Tree` is `/dev/null`,
and a proposed section has a path and hunks of diff lines, each trimmed or not, and
sound, slack, or broken by a foreign line at any place. The constants that only bound a run of TLC (`MaxProcesses`,
`MaxEvaluations`...) are arbitrary naturals in the proofs.

An invariant is seldom inductive as it stands. What follows names, for each
theorem, what had to be added and why.

### The campaign (`CampaignProofs`, `CampaignRefinement`)

* `TalliesOfAppend`: the tallies of a ledger and one entry are the tallies of
  the ledger with the entry counted. `talliesOf` is a recursive function, so its
  existence and its defining equation are proved first (`FoldExists`,
  `FoldUnique`, `TalliesUpToDef`), by induction with a set of naturals as the
  hypothesis.
* `TypeCorrect`: `TypeOK`, one lemma per node of the graph.
* `PromotedBeforeRecorded`: `AcceptedRecordHasArtifact` is not inductive, since
  the record on disk comes from memory, and the record in memory from the
  verdict being settled. `ArtifactsInv` adds those two.
* `CountersAreTheRecords`: `GraphAgreesWithRecords` is stated where no verdict is
  being settled. `AgreementInv` adds that the records are one verdict ahead
  between `Record` and the graph's counting, that the graph waits in `settling`
  during a settlement, and that the highest recorded attempt is the number of
  records, both in memory and on disk (what a resume will read).
* `ReaskedOnce`: `OneReaskPerCycle` compares a count with the one bit the code keeps,
  `reasked`. `ReaskInv` says at the optimizer and at the evaluation what the bit
  means as a count.
* `MeasuredOnce`: `PatchMeasuredOnce` speaks of the disk. `ApartInv` adds memory, and
  that from the evaluation to the record the evidence being judged, if it was
  measured, is of a patch no record holds: that is what `rejectMeasuredDuplicate`
  established, and nothing else may record in between.
* `TalliesNeverAhead`: `CountsInv` is `TalliesCountRecordedPrefix` of memory and disk. A
  settlement that stops before its last step keeps the counts it had, of a shorter
  prefix; `Tally` counts what `AgreementInv` says is recorded.
* `OutageIsObserved`: `OutageInv` says that the last `outage` records are empty
  rejections, one more between the record and the route, and that the evidence of a
  failed cycle is the empty one wherever it is judged.
* `ImplementsVerdictLog`: `Spec => KeepsVerdictLog`. `CycleInv` says that the
  cycle runs below every bound and on an open target, and that a reason to stop
  is supported by the recorded verdicts; `LagInv` says that the database lacks
  at most one verdict, and then a lawful one, and that nothing is recorded in a
  completed campaign.

### A model call (`ModelCallProofs`)

For every number of attempts and every length of stream:

* `LadderTypeCorrect`: `LadderTypeOK`.
* `LadderKeepsOneAnswer`, `PartialIsNotReplayed`: `KeepsOneAnswer` and
  `NoReplayAfterPartial`. `HeardInv` says that a call still running has let out
  partials at most, and never waits for another attempt after one.
* `ReportsAreOwn`: `ReportsOwnFailure`. `ReportInv` adds what holds between an
  attempt's end and its report: `run` is of the current attempt, has an error or
  a response but not both, and nothing while the attempt is under way.
* `StreamImplementsLadder`: each step of the streamed call is a step of the
  ladder or changes nothing of it, so the theorems above hold of it
  (`StreamKeepsOneAnswer`, `StreamReportsAreOwn`).
* `StreamTypeCorrect`, `AnswerIsWhole`, `RunawayStaysOff`: `StreamTypeOK`,
  `AnswerIsTheWholeStream` and `RunawayIsNotRepeated`, from `StreamInv`. Of each
  attempt's record it says where the items are while pump and drain run against each
  other: drain has taken all that was produced but the one item the pump is parked on
  (`Awaits`), has accumulated the text deltas among them but the one it holds back
  (`Kept`), and rebuilds an answer only from a closed sequence (`Answered`). Of the
  attempts together it says that they open in order, the one before yielded
  (`Climbed`), and that reasoning is off from the moment the ladder turns away from a
  cutoff (`Budget`). `Steps` has one case per action.

### The measurement and the policy (`MeasurementProofs`)

For every list of workloads, every set of guardrails and whatever the series read:

* `AcceptsWhatIsEarned`, `NamesWhatIsOver`, `SelectsOnFreshPairs`: `AcceptanceIsEarned`,
  `OverLimitIsNamed` and `SelectionIsFresh`. They rest on facts about `Policy`: the
  decision is the first rule's that does not continue (`FirstDecides`), and the walk of
  `bestImprovement` is a function (`WalkExists`) that carries a supported reading past
  the minimum whenever it accepts.
* `ContendedPassIsForgotten`, `ExtendsOnce`: `NoDiscardedReading` and `OneExtension`.
  `MeasurementInv` says at every stage how many series each workload holds
  (`DepthInv`), of which origin (`SeriesKept`), that the readings under judgement are of
  the current pass (`EvidenceInv`), and that the queue of a fresh series is of one
  workload not yet measured afresh (`FreshInv`).
* `FailureRejects`: `FailedSeriesRejects`, an action property.
* `SecondLooksEnd`: `MeasurementEnds`. The variant is lexicographic: the stages still
  ahead, the workloads not measured afresh, the queue.

### The evaluation (`EvaluationProofs`)

* `LeavesNoTrees`: `TreesAreTidied`, of every interleaving of failing git commands,
  cancellations and kills. `TreesInv` adds that the base tree is among the deferred
  removals from the start of an evaluation. Each step then either makes a tree the
  process owns from that moment on (`CreatedTidy`), fails to (`UncreatedTidy`), removes
  what it stops owning (`RemovedTidy`), or gives up nothing (`KeptTidy`).
* `KeepsStableTests`, `MeasuresOnlyWhatPassed`: `StableTestsStayRequired` and
  `MeasuredPassedTheGate`. `GateInv` says that a recorded baseline, in memory or on
  disk, requires every stable test and only tests some run of the base passed, and that a
  candidate is judged by a baseline that differs from the campaign's in the required
  tests at most. A further run of the base can only make fewer tests stable
  (`StableShrinks`), which is why a recheck may prune.
* `VerifiesApart`: `VerificationLeavesBaseline`, an action property.

### A campaign's processes (`BaselineRunProofs`)

* `CountsTheTimeLived`, `BudgetIsKept`: `ElapsedIsTheTimeLived` and
  `BudgetIsNotExceeded`. `ClockInv` adds what a process took up when it started: the
  time before it, less what a kill gave back, and the budget that left.
* `RunsMatchSteps`: `SeedRunsMatchSteps`. `SeedsInv` extends it to the state in memory,
  which any later save may write, and says that a step under way has a seed to run.

### The services (`ServicesProofs`)

* `ReturnedIsOver`: `ReturnedRunIsOver`. `ExecutorInv` follows what was reaped to the
  report: `Wait` returned only when nobody could write, only cancellation signals, and
  a signalled command has no clean exit.
* `EvidenceHasItsReport`: `EvidenceIsBacked`, for every manifest and list of variants.
  `EvidenceInv` says that what is still to sample is new: its report is that of no
  sample, of nothing skipped and of no other workload to come, and among the seeds its
  name is no sample's. So a try writes over a report of its own workload's earlier
  tries at most, or over one an earlier discovery left.
* `OutlierDecidesNothing`: `OneOutlierDecidesNothing`, an action property, for all
  questions, tolerances and answers. What it needs is arithmetic: the median of three
  (`MedianOfThree`) moved exactly if two of the three moved its way (`MedianMoves`).
* `AnswersAreOfThisBuild`, `ReportsWhatItPaid`: `AnswerIsOfThisBuild` and
  `UsageIsWhatWasPaid`. `JevInv` adds that both stores hold, under the digest of a
  build, only answers of that build or of none, and that what a running process found
  and collected is what is saved and what is not (`CollectorIsAhead`): so a save made
  at any time, any number of times, writes each charge once.
* `CreditLosesNothing`: `CreditIsConserved`. The credit is a sum of sums over sets of
  stacks, symbols and calls, divided where a call has no owner of its own. The library's
  sums are folds over sets, so the facts about them come first, by well-founded induction
  on the subsets of a finite set: a fold takes its members in any order
  (`TakenInAnyOrder`), sums of sums may be exchanged (`SumSwap`), and a disjoint family
  adds up (`SumOfFamily`). The denominator of a call is divided by every share taken of
  it (`DenominatorDivides`), so no division leaves a rest, and the shares of an
  orphaned call add up to it (`SharesOfACall`). Every profile is then conserved
  (`EveryProfileIsConserved`), its whole samples are the nearest to the exact credits
  and in their order (`EveryCreditIsRounded`), and every sample of a discovery shows
  one. The arithmetic is exact; that of the code is in floating point.
* `TargetsAreOwed`: `AttacksWhatIsOwed`. The code sorts tiers and joins them; the property
  counts, for a cause, the stronger ones that wait. `Ranks` says of a list that it holds
  each member of a set once, behind all that go before it: a sort of a strict order ranks
  (`OrderRanks`, by the number of members ahead), two lists joined rank, and a filtered
  list ranks. So does each tier (`TiersRank`), what Jev's answers make of them
  (`JevRanks`), and the whole analysis (`AnalysisRanks`). `TargetsInv` says that the
  history a campaign reads is what earlier ones measured, and that the cycle under way
  plans the first open target.
* `JudgedPrintedTheSame`: `BehaviorIsTheBinaries`. `SeriesInv` says that baseline and
  candidate take turns (`TurnsAlternate`), so that a full series holds as many runs of
  each, that every run a confirmation keeps printed the baseline's lines, and, of a
  series that ended, what a judgement or a refusal of it was reached on.

### A proposed patch (`PatchProofs`)

For every list of sections, fenced or not, every tree and any number of preparations.
Nothing here bounds the length of a text: `NormalizeUnifiedDiff` is followed turn by turn,
as a recursive function on the turns that is first shown to exist (`ScanExists`,
`NormalizedIs`).

* `HeadersSettle`: correcting a corrected header changes nothing, since a corrected path
  is either a file of the tree, or one no suffix of which names a single file.
* `LoadingSettles`: whatever the file, what loading leaves has hunks of hunk lines alone
  under headers that count them, and loading it again changes nothing. A turn does one
  of six things (`ScanTurns`). `Whole` is what every turn keeps of the lines that are out:
  each of their hunks is what is left of one of the file's, it ended where that one
  ended, no later line can join it, and it stands under the header it stood under, if
  the first hunk behind that header was not emptied (`Governs`, `Opened`).
  `Recovered` says that no surviving hunk was lost. A text that
  needs no repair (`Settled`) is copied line by line.
* `PreparingKeepsTheProposal`: `PreparedIsTheProposal`. `TextInv` says that the patch file
  is the text of the proposal or that text loaded, and every file written back the latter.
  What remains is about one text: where each hunk stands in it (`TextIsWritten`, from the
  places of texts in a flattened list), that what is kept of a hunk, however damaged,
  are the lines before the first no hunk can hold (`KeptIsLegible`), and that a hunk's corrected header names the file it was meant
  for (`LoadedIsTheProposal`).
* `PreparedReachesNothingGuarded`: `GuardInv` says what validation and the check of the
  worktree established, at each stage, of the patch, the changed files and every file
  prepared so far. What git reaches when it applies a validated file is a name that was
  judged, with its prefix or without.

### Only model-checked

* `RunEnds` and `NothingLingers`: liveness under fairness, outside the prover's reach.
* `DifferenceIsTheBinaries`, the other half of `SeriesReadsTheBinaries`: when the paired
  test finds a difference significant depends on the number of pairs and on which costs
  tie, so it is a statement about the instance of `MCServices` and not one about
  arbitrary constants.

## Disagreements between the code and its text

* `docs/architecture.md:1626` says the candidate budget binds per process since
  the number tried is not persisted. `initialize` derives it from the recorded
  candidates, so it binds per campaign. (`BudgetBindsPerProcess` fails.)
* `internal/campaign/engine.go:304` says `ProviderFailure` is what stopped the
  campaign. A campaign that failed on an outage, was resumed and was then
  interrupted by its operator keeps the earlier value, and its report prints it
  as the failed role. (`ProviderFailureIsWhatStopped` fails.)
* `internal/agents/stream.go:134` says a cut attempt is reported with the cause
  of the cut. The pump closes its channel when the context is cancelled, and a
  drain that was handling a chunk finds both the closed channel and the
  cancelled context ready: it may take the close and deliver what had arrived as
  the finished response, or a single delta as a partial, after which the ladder
  neither retries nor reports an error. (`CutStreamIsAnError` fails.)

* `internal/policy/policy.go:558` says the supported reading wins when one exists.
  The loop of `bestImprovement` also takes a reading that is merely larger, so a
  supported -8 % followed by an unsupported -9 % ends inconclusive.
  (`SupportedWinCarries` fails.)
* `internal/campaign/candidate_eval.go:661` and ADR 0040 say peak memory rejects
  only when a fresh series reproduces the breach. A breach that first shows in the
  comparisons derived after the selected workload was measured again rejects on
  that reading alone: nothing measures after it. (`MemoryVetoIsReproduced` fails.)
* `internal/campaign/store.go:125` and `jevcache.go:46` say a partial response is
  never cached. Nothing checks that every question was answered, so one is stored
  in both places, and refused again on every later ask.
  (`PartialAnswerIsNeverCached` fails.)

Met while modelling, without a run of their own:

* `internal/toolchain/executor.go:46` says cancellation kills the whole process
  group. SIGKILL is sent only if the leader or its pipes outlive 250 ms; a helper
  that closed its pipes and ignores SIGTERM lives on. `ReturnedRunIsOver` is
  about what can still write, and holds.
* `internal/campaign/engine.go:915` says a campaign killed during discovery runs it
  again from a clean state. Weights applied before the step was marked may have
  been saved with another event, and a second discovery is merged into them by
  maximum.
* `docs/architecture.md:317` says there are at most two re-runs of the unpatched
  suite. The count is saved only with a later event, so a kill gives one back.
* `internal/candidate/worktree.go:45`: `Prepare` does not remove a worktree that is
  already there, so after a kill, a removal that failed (its error is discarded at
  `candidate_eval.go:104`, `worktree.go:183` and `testgate.go:463`) or a creation that
  was cut by a cancelled context, the identical patch is refused on resume or
  verification.
* `internal/campaign/testgate.go:215` judges a run of the base by its output. One cut by
  a cancelled context after it named a failing test is accepted, and a re-run of that
  kind narrows what is required by the tests it did not get to;
  `StableTestsStayRequired` holds because such a run did not pass them.
* No account has all that Jev was paid. An answer `checkBuildAndProvider` refuses and a
  request cut after Jev had answered are counted nowhere, the explorer's requests are
  recorded by nobody (`explore.go` has no `recordUsage`), nor is the canary's request
  before a campaign. `UsageIsWhatWasPaid` has the first two as what was paid for
  nothing; the others are outside the model.
* `docs/architecture.md:193` says an emptied hunk is dropped with its file headers.
  `applyNormalizedHunk` drops the headers of the whole file when its first hunk is
  empty, so a later, valid hunk of that file lands under the header of the file
  before it; the clause of `PreparedIsTheProposal` about files therefore leaves out the
  hunks of a section whose first hunk was emptied, and those alone.
* `internal/candidate/normalize.go:76` cuts a hunk at its first malformed line and
  recounts it, so part of a proposed hunk is prepared as a patch of its own: git may
  well apply it, and the tests and the measurement judge that part.
  `PreparedIsTheProposal` says which part. A deleted line that begins with `-- ` reads
  as a file header and cuts its hunk too, and a header of a new file may be remapped to
  an existing file with the same suffix; the former is not modelled, nor is the
  `\ No newline` marker.
* `internal/profile/writes.go:11` defines a share of all the time attributed to a
  function, "exactly as AttributeToOwn does"; orphaned samples of calls other than
  writes are left out of that total.
* `internal/policy/policy.go:404` and ADR 0021 measure no win again when the manifest
  asks for no support, "since the point estimate then decides alone".
  `decideOnImprovement` asks for support whatever the manifest says, so such a win
  is neither measured again nor accepted.
* `internal/campaign/writes.go:21` puts a target for every unbuffered-write site
  first, on evidence that does not need Jev. `AnalyzeCauses` returns before that
  step when no hot function can be sent whole, or when Jev answered for none, and
  such a cycle has no target at all.
* `internal/campaign/history.go:77` says the earlier candidates are kept most recent
  campaign first. `loadHistory` takes them in the order the flags were given, and of
  each campaign the oldest attempts first, until sixteen.
* ADR 0041 replaces a workload's series after the confirmation of guardrails, and
  `FreshGuardrails` keeps the readings of the series that was replaced.

## Plan

Every part with behaviour of its own is modelled, and every safety property but one half
of `SeriesReadsTheBinaries` is proved. What comes next:

1. Composition: that an evaluation of `Evaluation` followed by `Measurement` produces
   only what `Assessments` gives the campaign.
2. The PGO lane and the outputs `verify` compares over input variants.

## Not modelled

* Source rewriting, excerpts, signatures and the syntax checks behind vetoes and a
  patch's shape: Go syntax trees in, text out, no state.
* Prompts, the decoding and repair of model output, reports, manifests and the
  command line: text. What a decoded answer can be is data of `CampaignGraph`.
* The PGO lane: a second build and a second set of series, reported and never judged.
* The exploration of a program's help text and profile parsing: text. Their results
  are data of `Discovery`. The scores behind Jev's answers are data of
  `CauseTargets`, and so is what the syntax checks see in a function.
* Welch's test, benchstat and the Clopper-Pearson bound: real arithmetic. Their
  verdicts are inputs of `Policy`.
* `verifyOutputs` and its input variants; token accounting; isolation of a run
  beyond its exit.

Every component is listed in `PROJECT.json` with its status.
