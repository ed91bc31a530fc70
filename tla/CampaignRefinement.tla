------------------------ MODULE CampaignRefinement ------------------------
(***************************************************************************)
(* The campaign implements the verdict log, for every set of targets,      *)
(* rankings and patches and for every value of the bounds.  The invariant  *)
(* says what the database may lack (one verdict, while it is being settled *)
(* or after a refused save), which targets and tallies admit the verdict   *)
(* being prepared, and what supports the reason a campaign stops for.      *)
(***************************************************************************)
EXTENDS CampaignProofs

Open(ledger) ==
    (Targets \ TriedTargets(ledger)) \cup (IF FreeChoice THEN {NoTarget} ELSE {})

(* A ledger that a lawful verdict turns into a longer one.                 *)
OneVerdictMore(ledger, longer) ==
    /\ StopReason(TalliesOf(ledger)) = "none"
    /\ \E decision \in Decisions, target \in Open(ledger), unmeasured \in BOOLEAN :
          longer = Append(ledger, [ attempt    |-> Len(ledger) + 1,
                                    decision   |-> decision,
                                    target     |-> target,
                                    unmeasured |-> unmeasured ])

SupportedBy(ledger, reason) ==
    \/ reason \in BoundReasons /\ reason = StopReason(TalliesOf(ledger))
    \/ /\ reason = "ranking_exhausted"
       /\ ~FreeChoice
       /\ \E ranking \in Rankings : ranking # <<>> /\ Untried(ranking, ledger) = {}
    \/ reason = "nothing_flagged" /\ ~FreeChoice

Going == state.stop = "none" /\ state.failure = "none"

Concluding == state.failure = "none" => SupportedBy(Recorded(mem), state.stop)

(* The cycle only runs below every bound, and on an open target.           *)
CycleInv ==
    /\ \/ phase = "graph" /\ node \in {"discover", "analyst", "merge", "optimizer",
                                       "evaluate", "reviewer", "decide"}
       \/ phase \in {"promote", "record"}
       => Going /\ StopReason(StateTallies(state)) = "none"
    /\ \/ phase = "graph" /\ node \in {"optimizer", "evaluate", "reviewer", "decide"}
       \/ phase \in {"promote", "record"}
       => state.target \in Open(state.prior)
    /\ phase \in {"mark", "tally"} => Going
    /\ phase = "graph" /\ node = "route" => Going \/ (state.stop # "none" /\ Concluding)
    /\ \/ phase = "graph" /\ node \in {"skip", "finalize"}
       \/ phase = "result"
       => state.stop # "none" /\ Concluding

(* What the database lacks.                                                *)
LagInv ==
    /\ phase \notin {"mark", "tally", "failing"} => mem.records = disk.records
    /\ phase \in {"mark", "tally", "failing"} =>
          \/ mem.records = disk.records
          \/ /\ disk.status # "completed"
             /\ OneVerdictMore(Recorded(disk), Recorded(mem))
    /\ phase \notin {"down", "report", "failing"} =>
          mem.status # "completed" /\ disk.status # "completed"

(* Saving an event leaves the old state or the new one on disk.            *)
LEMMA SaveOutcome ==
  ASSUME NEW m, Saved(m) \/ SaveEventFails(m)
  PROVE  disk' = disk \/ disk' = m
BY DEF Saved, SaveEventFails, SaveRefused, AppendRefused

-----------------------------------------------------------------------------
(* The cycle.                                                              *)

LEMMA CycleInit == Init => CycleInv
BY DEF Init, GraphInit, CycleInv

(* What a node leaves alone in the campaign state.                         *)
SameVerdicts ==
    /\ state'.prior = state.prior
    /\ state'.tried = state.tried
    /\ state'.failures = state.failures
    /\ state'.inconclusive = state.inconclusive

SameStop == state'.stop = state.stop /\ state'.failure = state.failure

LEMMA InitializeCycle ==
  ASSUME TypeOK, UNCHANGED engineVars, phase = "graph",
         Initialize(RecordedCandidates(mem.records))
  PROVE  CycleInv'
<1> DEFINE ledger == RecordedCandidates(mem.records)
           s == Restored(ledger)
           reason == StopReason(StateTallies(s))
<1>1. s \in CampaignState /\ StateTallies(s) = TalliesOf(ledger)
  BY RecordedType, RestoredType DEF TypeOK, EngineState
<1>2. s.failure = "none"
  BY DEF Restored, NoCampaignState
<1>3. /\ state' = [s EXCEPT !.stop = reason]
      /\ node' = IF reason = "none" THEN "discover" ELSE "finalize"
  BY DEF Initialize, EndedAtStart
<1> HIDE DEF s
<1>4. /\ state'.stop = reason /\ state'.failure = "none"
      /\ StateTallies(state') = StateTallies(s)
  BY <1>1, <1>2, <1>3 DEF CampaignState, StateTallies
<1>5. CASE reason = "none"
  BY <1>3, <1>4, <1>5 DEF CycleInv, Going, engineVars, StateTallies
<1>6. CASE reason # "none"
  <2>1. SupportedBy(ledger, reason)
    BY <1>1, <1>6, StopReasonType DEF SupportedBy
  <2>2. (Concluding /\ state.stop # "none")'
    BY <1>4, <1>6, <2>1 DEF Concluding, Recorded, engineVars
  <2> QED BY <1>3, <1>6, <2>2 DEF CycleInv, engineVars
<1> QED BY <1>5, <1>6

LEMMA MergeAnalysisCycle ==
  ASSUME TypeOK, AgreementInv, CycleInv, UNCHANGED engineVars, phase = "graph", MergeAnalysis
  PROVE  CycleInv'
<1> DEFINE ledger == Recorded(mem)
           target == NextTarget(state.ranking, state.prior)
           s == [state EXCEPT !.target = target, !.reasked = FALSE]
           end == EndedAfterAnalysis(s)
<1>1. state \in CampaignState /\ state.ranking \in Rankings \cup {<<>>}
  BY DEF TypeOK, GraphTypeOK, CampaignState
<1>2. state.ranking \in Seq(Targets)
  <2>1. <<>> \in Seq(Targets)
    OBVIOUS
  <2> QED BY <1>1, <2>1, GraphAssumption
<1>3. node = "merge" /\ Going /\ StopReason(StateTallies(state)) = "none"
  BY DEF MergeAnalysis, CycleInv
<1>4. state.prior = ledger
  BY <1>3 DEF AgreementInv, Agrees
<1>5. /\ state' = IF end.reason = "none" THEN s
                  ELSE [s EXCEPT !.stop = end.reason, !.failure = end.failure]
      /\ node' = IF end.reason = "none" THEN "optimizer" ELSE "skip"
  BY DEF MergeAnalysis
<1>6. target # NoTarget => target \in Targets \ TriedTargets(ledger)
  BY <1>2, <1>4, NextTargetType
<1>7. target = NoTarget => Untried(state.ranking, ledger) = {}
  BY <1>2, <1>4, NoTargetMeansExhausted
<1> HIDE DEF target
<1>8. /\ s.target = target /\ s.ranking = state.ranking /\ s.prior = state.prior
      /\ s.stop = "none" /\ s.failure = "none"
      /\ StateTallies(s) = StateTallies(state)
  BY <1>1, <1>3 DEF CampaignState, Going, StateTallies
<1>9. s \in CampaignState
  <2>1. target \in Targets \cup {NoTarget}
    BY <1>6
  <2> QED BY <1>1, <2>1 DEF CampaignState
<1>10. end.reason = "none" => FreeChoice \/ target # NoTarget
  BY <1>8 DEF EndedAfterAnalysis, Continue
<1>11. end.reason # "none" /\ end.failure = "none" => SupportedBy(ledger, end.reason)
  <2>1. SUFFICES ASSUME end.reason # "none", end.failure = "none"
                 PROVE  SupportedBy(ledger, end.reason)
    OBVIOUS
  <2>2. ~FreeChoice /\ target = NoTarget
    BY <1>8, <2>1 DEF EndedAfterAnalysis, Continue
  <2>3. CASE state.ranking # <<>>
    <3>1. end.reason = "ranking_exhausted"
      BY <1>8, <2>2, <2>3 DEF EndedAfterAnalysis
    <3>2. state.ranking \in Rankings /\ Untried(state.ranking, ledger) = {}
      BY <1>1, <1>7, <2>2, <2>3
    <3> QED BY <2>2, <2>3, <3>1, <3>2 DEF SupportedBy
  <2>4. CASE state.ranking = <<>>
    <3>1. end.reason = "nothing_flagged"
      BY <1>8, <2>1, <2>2, <2>4 DEF EndedAfterAnalysis
    <3> QED BY <2>2, <3>1 DEF SupportedBy
  <2> QED BY <2>3, <2>4
<1> HIDE DEF s, end
<1>12. CASE end.reason = "none"
  <2>1. state' = s /\ node' = "optimizer"
    BY <1>5, <1>12
  <2>2. s.target \in Open(s.prior)
    BY <1>4, <1>6, <1>8, <1>10, <1>12 DEF Open
  <2>3. (Going /\ StopReason(StateTallies(state)) = "none" /\ state.target \in Open(state.prior))'
    BY <1>3, <1>8, <2>1, <2>2 DEF Going, StateTallies, Open
  <2> QED BY <2>1, <2>3 DEF CycleInv, engineVars
<1>13. CASE end.reason # "none"
  <2>1. state' = [s EXCEPT !.stop = end.reason, !.failure = end.failure] /\ node' = "skip"
    BY <1>5, <1>13
  <2>2. state'.stop = end.reason /\ state'.failure = end.failure
    BY <2>1, <1>9 DEF CampaignState
  <2>3. (state.stop # "none" /\ Concluding)'
    BY <1>11, <1>13, <2>2 DEF Concluding, Recorded, engineVars
  <2> QED BY <2>1, <2>3 DEF CycleInv, engineVars
<1> QED BY <1>12, <1>13

LEMMA RouteCycle ==
  ASSUME TypeOK, AgreementInv, CycleInv, UNCHANGED engineVars, phase = "graph", Route
  PROVE  CycleInv'
<1> DEFINE ledger == Recorded(mem)
           outage == IF ProviderFailure(state) THEN state.outage + 1 ELSE 0
           s == [state EXCEPT !.outage = outage]
           end == EndedAfterCycle(s)
<1>1. state \in CampaignState /\ state.outage \in Nat
  BY DEF TypeOK, GraphTypeOK, CampaignState
<1>2. node = "route" /\ (Going \/ (state.stop # "none" /\ Concluding))
  BY DEF Route, CycleInv
<1>3. StateTallies(state) = TalliesOf(ledger)
  BY <1>2 DEF AgreementInv, Agrees
<1>4. CASE state.stop # "none"
  <2>1. state' = state /\ node' = "finalize" /\ Concluding
    BY <1>2, <1>4 DEF Route, Going
  <2> QED BY <1>4, <2>1 DEF CycleInv, Concluding, Recorded, engineVars
<1>5. CASE state.stop = "none"
  <2>1. Going
    BY <1>2, <1>5
  <2>2. IF end.reason # "none"
        THEN /\ state' = [s EXCEPT !.stop = end.reason, !.failure = end.failure]
             /\ node' = "finalize"
        ELSE state' = [s EXCEPT !.cycleFailures = {}] /\ node' = "analyst"
    BY <1>5 DEF Route
  <2>3. outage \in Nat
    BY <1>1
  <2> HIDE DEF outage
  <2>4. s \in CampaignState /\ StateTallies(s) = StateTallies(state)
        /\ s.stop = "none" /\ s.failure = "none"
    BY <1>1, <2>1, <2>3 DEF CampaignState, StateTallies, Going
  <2> HIDE DEF s
  <2>5. end.failure = "none" => end.reason = StopReason(StateTallies(s))
    BY DEF EndedAfterCycle
  <2>6. end.reason = "none" => StopReason(StateTallies(s)) = "none"
    BY DEF EndedAfterCycle
  <2> HIDE DEF end
  <2>7. CASE end.reason = "none"
    <3>1. state' = [s EXCEPT !.cycleFailures = {}] /\ node' = "analyst"
      BY <2>2, <2>7
    <3>2. state'.stop = "none" /\ state'.failure = "none" /\ StateTallies(state') = StateTallies(s)
      BY <2>4, <3>1 DEF CampaignState, StateTallies
    <3> QED BY <2>6, <2>7, <3>1, <3>2 DEF CycleInv, Going, StateTallies, engineVars
  <2>8. CASE end.reason # "none"
    <3>1. /\ state' = [s EXCEPT !.stop = end.reason, !.failure = end.failure]
          /\ node' = "finalize"
      BY <2>2, <2>8
    <3>2. state'.stop = end.reason /\ state'.failure = end.failure
      BY <2>4, <3>1 DEF CampaignState
    <3>3. end.failure = "none" => SupportedBy(ledger, end.reason)
      BY <1>3, <2>4, <2>5, <2>8, StopReasonType DEF SupportedBy
    <3>4. (state.stop # "none" /\ Concluding)'
      BY <2>8, <3>2, <3>3 DEF Concluding, Recorded, engineVars
    <3> QED BY <3>1, <3>4 DEF CycleInv, engineVars
  <2> QED BY <2>7, <2>8
<1> QED BY <1>4, <1>5

(* The nodes that neither choose the target nor stop the campaign.         *)
LEMMA PassingCycle ==
  ASSUME TypeOK, CycleInv, UNCHANGED engineVars, phase = "graph",
         \/ Discover \/ Analyst \/ SkipCandidate \/ Optimizer \/ Reviewer
         \/ \E evidence \in Assessments(state, mem.records) : Evaluate(evidence)
  PROVE  CycleInv'
<1>1. state \in CampaignState
  BY DEF TypeOK, GraphTypeOK
<1>2. SameVerdicts /\ SameStop
  <2> USE DEF SameVerdicts, SameStop
  <2>1. CASE Discover \/ SkipCandidate
    BY <2>1 DEF Discover, SkipCandidate
  <2>2. CASE Analyst
    BY <1>1, <2>2 DEF Analyst, Degraded, CampaignState
  <2>3. CASE Optimizer
    BY <1>1, <2>3 DEF Optimizer, Degraded, CampaignState
  <2>4. CASE Reviewer
    BY <1>1, <2>4 DEF Reviewer, Degraded, CampaignState
  <2>5. CASE \E evidence \in Assessments(state, mem.records) : Evaluate(evidence)
    <3>1. \E e, b : state' = [state EXCEPT !.evidence = e, !.reasked = b]
      BY <2>5 DEF Evaluate
    <3> QED BY <1>1, <3>1 DEF CampaignState
  <2> QED BY <2>1, <2>2, <2>3, <2>4, <2>5
<1>3. ~(Discover \/ Analyst \/ SkipCandidate) => state'.target = state.target
  <2>1. CASE Optimizer
    BY <1>1, <2>1 DEF Optimizer, Degraded, CampaignState
  <2>2. CASE Reviewer
    BY <1>1, <2>2 DEF Reviewer, Degraded, CampaignState
  <2>3. CASE \E evidence \in Assessments(state, mem.records) : Evaluate(evidence)
    <3>1. \E e, b : state' = [state EXCEPT !.evidence = e, !.reasked = b]
      BY <2>3 DEF Evaluate
    <3> QED BY <1>1, <3>1 DEF CampaignState
  <2> QED BY <2>1, <2>2, <2>3
<1>4. /\ StateTallies(state') = StateTallies(state)
      /\ Going => Going'
      /\ state.stop # "none" /\ Concluding => (state.stop # "none" /\ Concluding)'
  BY <1>2 DEF SameVerdicts, SameStop, StateTallies, Going, Concluding, Recorded, engineVars
<1>5. CASE Discover \/ Analyst
  <2>1. node' \in {"analyst", "merge"} /\ node \in {"discover", "analyst"}
    BY <1>5 DEF Discover, Analyst
  <2> QED BY <1>4, <2>1 DEF CycleInv, engineVars, StateTallies
<1>6. CASE SkipCandidate
  <2>1. node = "skip" /\ node' = "route"
    BY <1>6 DEF SkipCandidate
  <2> QED BY <1>4, <2>1 DEF CycleInv, engineVars
<1>7. CASE ~(Discover \/ Analyst \/ SkipCandidate)
  <2>1. node \in {"optimizer", "evaluate", "reviewer"}
        /\ node' \in {"optimizer", "evaluate", "reviewer", "decide"}
    BY <1>7 DEF Optimizer, Reviewer, Evaluate
  <2>2. state'.target \in Open(state'.prior)
    BY <1>2, <1>3, <1>7, <2>1 DEF CycleInv, SameVerdicts
  <2>3. Going /\ StopReason(StateTallies(state)) = "none"
    BY <2>1 DEF CycleInv
  <2>4. (Going /\ StopReason(StateTallies(state)) = "none" /\ state.target \in Open(state.prior))'
    BY <1>4, <2>2, <2>3 DEF StateTallies, Open
  <2> QED BY <2>1, <2>4 DEF CycleInv, engineVars
<1> QED BY <1>5, <1>6, <1>7

LEMMA CycleNext ==
  ASSUME TypeOK, AgreementInv, CycleInv, [Next]_vars
  PROVE  CycleInv'
<1>1. CASE Start
  <2>1. phase' \in {"baseline", "down"}
    BY <1>1 DEF Start
  <2> QED BY <2>1 DEF CycleInv
<1>2. CASE EnterGraph
  <2>1. phase' = "graph" /\ node' = "initialize"
    BY <1>2 DEF EnterGraph
  <2> QED BY <2>1 DEF CycleInv
<1>3. CASE GraphStep
  <2>1. UNCHANGED engineVars /\ phase = "graph"
    BY <1>3 DEF GraphStep, InGraph
  <2>2. CASE Initialize(RecordedCandidates(mem.records))
    BY <2>1, <2>2, InitializeCycle
  <2>3. CASE MergeAnalysis
    BY <2>1, <2>3, MergeAnalysisCycle
  <2>4. CASE Route
    BY <2>1, <2>4, RouteCycle
  <2>5. CASE \/ Discover \/ Analyst \/ SkipCandidate \/ Optimizer \/ Reviewer
             \/ \E evidence \in Assessments(state, mem.records) : Evaluate(evidence)
    BY <2>1, <2>5, PassingCycle
  <2> QED BY <1>3, <2>2, <2>3, <2>4, <2>5 DEF GraphStep
<1>4. CASE BeginSettle
  <2>1. /\ phase = "graph" /\ node = "decide" /\ UNCHANGED state
        /\ phase' \in {"promote", "record"}
    BY <1>4 DEF BeginSettle, ApplyPolicy
  <2> QED BY <2>1 DEF CycleInv, Going, StateTallies, Open
<1>5. CASE Promote
  <2>1. phase = "promote" /\ phase' \in {"record", "failing"} /\ UNCHANGED state
    BY <1>5 DEF Promote, graphVars
  <2> QED BY <2>1 DEF CycleInv, Going, StateTallies, Open
<1>6. CASE Record
  <2>1. phase = "record" /\ phase' \in {"mark", "tally"} /\ UNCHANGED state
    BY <1>6 DEF Record, graphVars
  <2> QED BY <2>1 DEF CycleInv, Going
<1>7. CASE Mark
  <2>1. phase = "mark" /\ phase' \in {"tally", "failing"} /\ UNCHANGED state
    BY <1>7 DEF Mark, graphVars
  <2> QED BY <2>1 DEF CycleInv, Going
<1>8. CASE Tally
  <2>1. CASE phase' = "failing"
    BY <2>1 DEF CycleInv
  <2>2. CASE phase' = "graph" /\ Settled
    <3>1. Going
      BY <1>8 DEF Tally, CycleInv
    <3>2. state' = Counted(state) /\ node' = "route" /\ state \in CampaignState
      BY <2>2 DEF Settled, TypeOK, GraphTypeOK
    <3> DEFINE t == After(StateTallies(state), state.evidence.decision)
               entries == Append(state.prior, [ attempt    |-> state.tried + 1,
                                                decision   |-> state.evidence.decision,
                                                target     |-> state.target,
                                                unmeasured |-> state.evidence.unmeasured ])
    <3>3. state' = [state EXCEPT !.tried = state.tried + 1, !.failures = t.failures,
                                 !.inconclusive = t.inconclusive, !.prior = entries]
      BY <3>2 DEF Counted
    <3> HIDE DEF t, entries
    <3>4. Going'
      BY <3>1, <3>2, <3>3 DEF Going, CampaignState
    <3> QED BY <2>2, <3>2, <3>4 DEF CycleInv
  <2> QED BY <1>8, <2>1, <2>2 DEF Tally
<1>9. CASE GraphResult
  <2>1. /\ phase = "graph" /\ node = "finalize" /\ phase' = "result"
        /\ UNCHANGED <<state, mem>>
    BY <1>9 DEF GraphResult, Finalize
  <2> QED BY <2>1 DEF CycleInv, Concluding, Recorded
<1>10. CASE FinishFailed
  BY <1>10 DEF FinishFailed, CycleInv
<1>11. CASE Complete
  BY <1>11 DEF Complete, CycleInv
<1>12. CASE WriteReports
  BY <1>12 DEF WriteReports, ProcessEnds, CycleInv
<1>13. CASE CaptureRunFailure
  BY <1>13 DEF CaptureRunFailure, ProcessEnds, CycleInv
<1>14. CASE RunError
  BY <1>14 DEF RunError, CycleInv
<1>15. CASE ContextDone \/ UNCHANGED vars
  <2>1. UNCHANGED <<graphVars, mem, phase>>
    BY <1>15 DEF ContextDone, vars, engineVars
  <2> QED BY <2>1 DEF graphVars, CycleInv, Going, Concluding, Recorded, StateTallies, Open
<1>16. CASE Crash
  BY <1>16 DEF Crash, ProcessEnds, CycleInv
<1> QED BY <1>1, <1>2, <1>3, <1>4, <1>5, <1>6, <1>7, <1>8, <1>9, <1>10, <1>11, <1>12,
           <1>13, <1>14, <1>15, <1>16 DEF Next, ProcessStep, Settle

-----------------------------------------------------------------------------
(* What the database lacks.                                                *)

LEMMA LagInit == Init => LagInv
BY DEF Init, NewCampaign, LagInv

(* The verdict being settled is a lawful one for the ledger in memory.     *)
LEMMA SettledVerdictLawful ==
  ASSUME TypeOK, AgreementInv, CycleInv, Record
  PROVE  /\ mem'.records = Append(mem.records, NewRecord)
         /\ mem'.status = mem.status
         /\ OneVerdictMore(Recorded(mem), Recorded(mem'))
<1>1. /\ mem' = [mem EXCEPT !.records = Append(mem.records, NewRecord)]
      /\ phase = "record"
      /\ mem \in EngineState
      /\ mem.records \in Seq(CandidateRecord)
  BY DEF Record, TypeOK, EngineState
<1>2. mem'.records = Append(mem.records, NewRecord) /\ mem'.status = mem.status
  BY <1>1 DEF EngineState
<1>3. state.prior = Recorded(mem) /\ StateTallies(state) = TalliesOf(Recorded(mem))
  BY <1>1 DEF AgreementInv, Agrees
<1>4. StopReason(TalliesOf(Recorded(mem))) = "none" /\ state.target \in Open(Recorded(mem))
  BY <1>1, <1>3 DEF CycleInv
<1>5. state.evidence.decision \in Decisions /\ state.evidence.unmeasured \in BOOLEAN
  BY DEF TypeOK, GraphTypeOK, CampaignState, Evidence
<1>6. Len(Recorded(mem)) = Len(mem.records)
  BY <1>1, RecordedType DEF Recorded
<1>7. /\ NewRecord \in CandidateRecord
      /\ NewRecord.attempt = Len(mem.records) + 1
      /\ NewRecord.decision = state.evidence.decision
      /\ NewRecord.target = state.target
      /\ NewRecord.unmeasured = state.evidence.unmeasured
  BY NewRecordType DEF NewRecord
<1>8. Recorded(mem') = Append(Recorded(mem), [ attempt    |-> Len(Recorded(mem)) + 1,
                                               decision   |-> state.evidence.decision,
                                               target     |-> state.target,
                                               unmeasured |-> state.evidence.unmeasured ])
  BY <1>1, <1>2, <1>6, <1>7, RecordedAppend DEF Recorded
<1>9. OneVerdictMore(Recorded(mem), Recorded(mem'))
  BY <1>4, <1>5, <1>8 DEF OneVerdictMore
<1> QED BY <1>2, <1>9

LEMMA LagNext ==
  ASSUME TypeOK, AgreementInv, CycleInv, LagInv, [Next]_vars
  PROVE  LagInv'
<1>1. CASE Start
  <2> DEFINE m == [disk EXCEPT !.status = "running"]
  <2>1. m.status # "completed"
    BY DEF TypeOK, EngineState
  <2>2. mem' = disk' /\ disk.status # "completed" /\ (Saved(m) \/ SaveEventFails(m))
        /\ phase' \in {"baseline", "down"}
    BY <1>1 DEF Start
  <2>3. disk' = disk \/ disk' = m
    BY <2>2, SaveOutcome
  <2> QED BY <2>1, <2>2, <2>3 DEF LagInv
<1>2. CASE EnterGraph \/ GraphResult
  BY <1>2 DEF EnterGraph, GraphResult, LagInv
<1>3. CASE GraphStep
  BY <1>3 DEF GraphStep, InGraph, engineVars, LagInv
<1>4. CASE BeginSettle
  BY <1>4 DEF BeginSettle, LagInv
<1>5. CASE Promote
  BY <1>5 DEF Promote, LagInv
<1>6. CASE Record
  <2>1. mem.records = disk.records /\ mem.status # "completed" /\ disk.status # "completed"
    BY <1>6 DEF Record, LagInv
  <2>2. /\ mem'.status # "completed"
        /\ OneVerdictMore(Recorded(disk), Recorded(mem'))
    BY <1>6, <2>1, SettledVerdictLawful DEF Recorded
  <2>3. disk' = disk \/ disk' = mem'
    BY <1>6, SaveOutcome DEF Record
  <2>4. phase' \in {"mark", "tally"}
    BY <1>6 DEF Record
  <2> QED BY <2>1, <2>2, <2>3, <2>4 DEF LagInv, Recorded
<1>7. CASE Mark
  <2>1. disk' = disk \/ disk' = mem
    BY <1>7, SaveOutcome DEF Mark
  <2>2. mem' = mem /\ phase = "mark" /\ phase' \in {"tally", "failing"}
    BY <1>7 DEF Mark
  <2> QED BY <2>1, <2>2 DEF LagInv, Recorded
<1>8. CASE Tally
  <2>1. mem'.records = mem.records /\ mem'.status = mem.status
    BY <1>8 DEF Tally, TypeOK, EngineState
  <2>2. phase = "tally" /\ mem.status # "completed" /\ disk.status # "completed"
    BY <1>8 DEF Tally, LagInv
  <2>3. \/ disk' = mem' /\ phase' = "graph"
        \/ (disk' = disk \/ disk' = mem') /\ phase' = "failing"
    BY <1>8 DEF Tally, Saved, SaveEventFails, SaveRefused, AppendRefused
  <2> QED BY <2>1, <2>2, <2>3 DEF LagInv, Recorded
<1>9. CASE FinishFailed
  <2>1. mem'.records = mem.records
    BY <1>9 DEF FinishFailed, TypeOK, EngineState
  <2> QED BY <1>9, <2>1 DEF FinishFailed, LagInv
<1>10. CASE Complete
  <2>1. mem'.records = mem.records
    BY <1>10 DEF Complete, TypeOK, EngineState
  <2>2. mem.records = disk.records /\ phase' \in {"report", "failing"}
    BY <1>10 DEF Complete, LagInv
  <2>3. disk' = disk \/ disk' = mem'
    BY <1>10, SaveOutcome DEF Complete
  <2> QED BY <2>1, <2>2, <2>3 DEF LagInv
<1>11. CASE WriteReports
  BY <1>11 DEF WriteReports, ProcessEnds, LagInv
<1>12. CASE CaptureRunFailure
  BY <1>12 DEF CaptureRunFailure, ProcessEnds, LagInv
<1>13. CASE RunError
  BY <1>13 DEF RunError, LagInv
<1>14. CASE ContextDone
  BY <1>14 DEF ContextDone, LagInv
<1>15. CASE Crash
  BY <1>15 DEF Crash, ProcessEnds, LagInv
<1>16. CASE UNCHANGED vars
  BY <1>16 DEF vars, engineVars, LagInv
<1> QED BY <1>1, <1>2, <1>3, <1>4, <1>5, <1>6, <1>7, <1>8, <1>9, <1>10, <1>11, <1>12,
           <1>13, <1>14, <1>15, <1>16 DEF Next, ProcessStep, Settle

-----------------------------------------------------------------------------
(* The steps of the log.                                                   *)

Conclusion(s) == IF s.status = "completed" THEN s.stop ELSE "none"

(* The log reads the ledger with the same operators as the code.           *)
LEMMA LogOperators ==
  /\ Log!Decisions = Decisions
  /\ Log!BoundReasons = BoundReasons
  /\ \A ledger : Log!TalliesOf(ledger) = TalliesOf(ledger)
  /\ \A t : Log!StopReason(t) = StopReason(t)
  /\ \A ledger : Log!TriedTargets(ledger) = TriedTargets(ledger)
  /\ \A ranking, ledger : Log!Untried(ranking, ledger) = Untried(ranking, ledger)
<1>1. Log!Decisions = Decisions /\ Log!BoundReasons = BoundReasons
  BY DEF Log!Decisions, Decisions, Log!BoundReasons, BoundReasons
<1>2. ASSUME NEW ledger PROVE Log!TalliesOf(ledger) = TalliesOf(ledger)
  BY DEF Log!TalliesOf, Log!TalliesUpTo, Log!Counting, Log!After, Log!NoTallies,
         Log!SeparateBound, TalliesOf, TalliesUpTo, Counting, After, NoTallies, SeparateBound
<1>3. ASSUME NEW t PROVE Log!StopReason(t) = StopReason(t)
  BY DEF Log!StopReason, Log!ConsecutiveBound, Log!SeparateBound,
         StopReason, ConsecutiveBound, SeparateBound
<1>4. ASSUME NEW ledger PROVE Log!TriedTargets(ledger) = TriedTargets(ledger)
  <2> DEFINE Refused(t) == {i \in AttemptsOn(ledger, t) : ledger[i].unmeasured}
             Closed(t) == \/ \E i \in AttemptsOn(ledger, t) : ~ledger[i].unmeasured
                          \/ Cardinality(Refused(t)) >= 2
  <2>1. \A t : Log!AttemptsOn(ledger, t) = AttemptsOn(ledger, t)
    BY DEF Log!AttemptsOn, AttemptsOn
  <2>2. TriedTargets(ledger) = PriorTargets \cup {t \in Targets : Closed(t)}
    BY DEF TriedTargets, MaxUnmeasuredAttempts
  <2>3. Log!TriedTargets(ledger) = PriorTargets \cup {t \in Targets : Closed(t)}
    <3> DEFINE LogClosed(t) == \/ \E i \in Log!AttemptsOn(ledger, t) : ~ledger[i].unmeasured
                               \/ Cardinality({i \in Log!AttemptsOn(ledger, t) :
                                                  ledger[i].unmeasured}) >= 2
    <3>1. Log!TriedTargets(ledger) = PriorTargets \cup {t \in Targets : LogClosed(t)}
      <4>1. \A S : Log!Cardinality(S) = Cardinality(S)
        BY DEF Log!Cardinality, Cardinality
      <4> QED BY <4>1 DEF Log!TriedTargets, Log!MaxUnmeasuredAttempts
    <3>2. \A t : LogClosed(t) <=> Closed(t)
      BY <2>1
    <3> HIDE DEF LogClosed, Closed
    <3> QED BY <3>1, <3>2
  <2> QED BY <2>2, <2>3
<1>5. ASSUME NEW ranking, NEW ledger
      PROVE  Log!Untried(ranking, ledger) = Untried(ranking, ledger)
  BY <1>4 DEF Log!Untried, Untried
<1> QED BY <1>1, <1>2, <1>3, <1>4, <1>5

(* A lawful verdict reaching a database that is not complete is Judge.     *)
LEMMA JudgeStep ==
  ASSUME OneVerdictMore(Recorded(disk), Recorded(disk)'),
         disk.status # "completed", disk'.status # "completed"
  PROVE  Log!Judge
BY LogOperators DEF OneVerdictMore, Open, Log!Judge, Log!OpenTargets

LEMMA SameLog ==
  ASSUME disk'.records = disk.records, Conclusion(disk') = Conclusion(disk)
  PROVE  UNCHANGED Log!logVars
BY DEF Log!logVars, Recorded, Conclusion

LEMMA LogInit == Init => Log!Init
<1>1. RecordedCandidates(<<>>) = <<>>
  BY DEF RecordedCandidates
<1> QED BY <1>1 DEF Init, NewCampaign, Log!Init, Recorded

LEMMA LogNext ==
  ASSUME TypeOK, AgreementInv, CycleInv, LagInv, [Next]_vars
  PROVE  [Log!Next]_Log!logVars
<1>1. CASE UNCHANGED disk
  BY <1>1, SameLog DEF Conclusion
<1>2. CASE Start
  <2> DEFINE m == [disk EXCEPT !.status = "running"]
  <2>1. m.status # "completed" /\ m.records = disk.records
    BY DEF TypeOK, EngineState
  <2>2. disk.status # "completed" /\ (disk' = disk \/ disk' = m)
    BY <1>2, SaveOutcome DEF Start
  <2> HIDE DEF m
  <2>3. disk'.records = disk.records /\ Conclusion(disk') = Conclusion(disk)
    BY <2>1, <2>2 DEF Conclusion
  <2> QED BY <2>3, SameLog
<1>3. CASE Record /\ disk' # disk
  <2>1. disk' = mem'
    BY <1>3, SaveOutcome DEF Record
  <2>2. mem.records = disk.records /\ mem.status # "completed" /\ disk.status # "completed"
    BY <1>3 DEF Record, LagInv
  <2>3. mem'.status # "completed" /\ OneVerdictMore(Recorded(disk), Recorded(mem'))
    BY <1>3, <2>2, SettledVerdictLawful DEF Recorded
  <2>4. Recorded(disk)' = Recorded(mem')
    BY <2>1 DEF Recorded
  <2>5. Log!Judge
    BY <2>1, <2>2, <2>3, <2>4, JudgeStep
  <2> QED BY <2>5 DEF Log!Next
<1>4. CASE (Mark \/ Tally \/ CaptureRunFailure) /\ disk' # disk
  <2>1. disk'.records = mem.records /\ disk'.status # "completed"
    <3>1. CASE Mark
      <4>1. disk' = mem
        BY <1>4, <3>1, SaveOutcome DEF Mark
      <4>2. mem.status # "completed"
        BY <3>1 DEF Mark, LagInv
      <4> QED BY <4>1, <4>2
    <3>2. CASE Tally
      <4>1. disk' = mem'
        BY <1>4, <3>2, SaveOutcome DEF Tally
      <4>2. mem'.records = mem.records /\ mem'.status = mem.status
        BY <3>2 DEF Tally, TypeOK, EngineState
      <4>3. mem.status # "completed"
        BY <3>2 DEF Tally, LagInv
      <4> QED BY <4>1, <4>2, <4>3
    <3>3. CASE CaptureRunFailure
      <4>1. disk' = Stopped
        BY <1>4, <3>3, SaveOutcome DEF CaptureRunFailure
      <4>2. Stopped.records = mem.records /\ Stopped.status # "completed"
        BY DEF Stopped, TypeOK, EngineState
      <4> QED BY <4>1, <4>2
    <3> QED BY <1>4, <3>1, <3>2, <3>3
  <2>2. phase \in {"mark", "tally", "failing", "interrupting"}
    BY <1>4 DEF Mark, Tally, CaptureRunFailure
  <2>3. CASE mem.records = disk.records
    <3>1. Recorded(disk)' = Recorded(disk) /\ Conclusion(disk') = "none"
      BY <2>1, <2>3 DEF Recorded, Conclusion
    <3>2. CASE Conclusion(disk) = "none"
      BY <2>1, <2>3, <3>1, <3>2, SameLog
    <3>3. CASE Conclusion(disk) # "none"
      <4>1. Log!Reopen
        BY <3>1, <3>3 DEF Conclusion, Log!Reopen
      <4> QED BY <4>1 DEF Log!Next
    <3> QED BY <3>2, <3>3
  <2>4. CASE mem.records # disk.records
    <3>1. disk.status # "completed" /\ OneVerdictMore(Recorded(disk), Recorded(mem))
      BY <2>2, <2>4 DEF LagInv
    <3>2. Recorded(disk)' = Recorded(mem)
      BY <2>1 DEF Recorded
    <3>3. Log!Judge
      BY <2>1, <3>1, <3>2, JudgeStep
    <3> QED BY <3>3 DEF Log!Next
  <2> QED BY <2>3, <2>4
<1>5. CASE Complete /\ disk' # disk
  <2>1. disk' = mem'
    BY <1>5, SaveOutcome DEF Complete
  <2>2. /\ mem'.records = mem.records /\ mem'.stop = state.stop
        /\ mem'.status = "completed"
    BY <1>5 DEF Complete, TypeOK, EngineState
  <2>3. /\ mem.records = disk.records /\ disk.status # "completed"
        /\ state.stop # "none" /\ Concluding /\ state.failure = "none"
    BY <1>5 DEF Complete, LagInv, CycleInv
  <2>4. SupportedBy(Recorded(disk), state.stop)
    BY <2>3 DEF Concluding, Recorded
  <2>5. Log!Supported(state.stop)
    BY <2>4, LogOperators DEF SupportedBy, Log!Supported, Log!SomeRankingExhausted
  <2>6. state.stop \in BoundReasons \cup {"ranking_exhausted", "nothing_flagged"}
    BY <2>4 DEF SupportedBy
  <2>7. Recorded(disk)' = Recorded(disk)
    BY <2>1, <2>2, <2>3 DEF Recorded
  <2>8. Log!Conclude
    BY <2>1, <2>2, <2>3, <2>5, <2>6, <2>7, LogOperators DEF Log!Conclude
  <2> QED BY <2>8 DEF Log!Next
<1>6. CASE /\ \/ EnterGraph \/ GraphStep \/ BeginSettle \/ Promote \/ GraphResult
              \/ FinishFailed \/ WriteReports \/ RunError \/ ContextDone \/ Crash
              \/ UNCHANGED vars
  <2>1. UNCHANGED disk
    BY <1>6 DEF EnterGraph, GraphStep, InGraph, engineVars, BeginSettle, Promote, GraphResult,
                FinishFailed, WriteReports, RunError, ContextDone, Crash, vars
  <2> QED BY <1>1, <2>1
<1> QED BY <1>1, <1>2, <1>3, <1>4, <1>5, <1>6 DEF Next, ProcessStep, Settle

LEMMA LagInvariant == Spec => [](TypeOK /\ AgreementInv /\ CycleInv /\ LagInv)
<1>1. /\ TypeOK /\ AgreementInv /\ CycleInv /\ [Next]_vars => CycleInv'
      /\ TypeOK /\ AgreementInv /\ CycleInv /\ LagInv /\ [Next]_vars => LagInv'
  BY CycleNext, LagNext
<1> QED BY <1>1, CycleInit, LagInit, TypeCorrect, AgreementInvariant, PTL DEF Spec

(* Through every crash, resume and refused save the database only takes    *)
(* steps of the verdict log (KeepsVerdictLog): verdicts are appended one   *)
(* at a time, below every bound and for open targets, and a campaign       *)
(* completes only for a reason its recorded verdicts support.              *)
THEOREM ImplementsVerdictLog == Spec => KeepsVerdictLog
<1>1. TypeOK /\ AgreementInv /\ CycleInv /\ LagInv /\ [Next]_vars => [Log!Next]_Log!logVars
  BY LogNext
<1> QED BY <1>1, LogInit, LagInvariant, PTL DEF Spec, KeepsVerdictLog, Log!Spec
====
