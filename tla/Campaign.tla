------------------------------ MODULE Campaign ------------------------------
(***************************************************************************)
(* A campaign over all the processes that work on it: the engine of        *)
(* internal/campaign (Resume, Run, settle, captureRunFailure,              *)
(* finishCampaign), its bbolt store, its accepted/ directory, and the      *)
(* agent graph of module CampaignGraph inside it.                          *)
(*                                                                         *)
(*   mem       Engine.state, the fields a verdict or a stop touches        *)
(*   disk      the state record of the database, replaced whole by Save    *)
(*   accepted  the candidates whose patch is in accepted/                  *)
(*   phase     what the process is doing; "down" when there is none        *)
(*                                                                         *)
(* The process can die at any point (Crash); the store can refuse a save   *)
(* or an event.  saveEvent is two transactions, Save of the whole state    *)
(* and Append of the event, so it can also fail after it saved.            *)
(***************************************************************************)
EXTENDS CampaignGraph

CONSTANTS
    HistoryPatches,     \* candidates --history already measured
    MaxProcesses,       \* bound: processes that work on the campaign
    MaxFaults           \* bound: store and directory failures

ASSUME CampaignAssumption ==
    /\ HistoryPatches \subseteq Patches
    /\ MaxProcesses \in Nat
    /\ MaxFaults \in Nat

VARIABLES mem, disk, accepted, phase, cause, processes, faults

engineVars == <<mem, disk, accepted, phase, cause, processes, faults>>
vars == <<graphVars, engineVars>>

Statuses == {"pending", "running", "interrupted", "completed", "failed"}

Phases == {"down", "baseline", "graph", "promote", "record", "mark", "tally",
           "result", "report", "interrupting", "failing"}

(* Why the campaign's context is done, if it is: the operator's signal, or *)
(* the spent max_duration budget.                                          *)
Causes == {"none", "canceled", "budget"}

CandidateRecord == [ attempt    : Nat,
                     decision   : Decisions,
                     target     : Targets \cup {NoTarget},
                     unmeasured : BOOLEAN,
                     patch      : Patches \cup {NoPatch},
                     compared   : BOOLEAN ]

EngineState == [ status       : Statuses,
                 stop         : StopReasons \cup {"max_duration"},
                 failure      : {"none", "analyst", "optimizer"},
                 records      : Seq(CandidateRecord),
                 failures     : Nat,
                 inconclusive : Nat ]

NewCampaign == [ status |-> "pending", stop |-> "none", failure |-> "none",
                 records |-> <<>>, failures |-> 0, inconclusive |-> 0 ]

TypeOK ==
    /\ GraphTypeOK
    /\ mem \in EngineState
    /\ disk \in EngineState
    /\ accepted \subseteq Patches \cup {NoPatch}
    /\ phase \in Phases
    /\ cause \in Causes
    /\ processes \in Nat
    /\ faults \in Nat

Init ==
    /\ GraphInit
    /\ mem = NewCampaign
    /\ disk = NewCampaign
    /\ accepted = {}
    /\ phase = "down"
    /\ cause = "none"
    /\ processes = 0
    /\ faults = 0

-----------------------------------------------------------------------------
(* The store.                                                              *)

Fault == faults < MaxFaults /\ faults' = faults + 1

(* saveEvent(m): the state replaced, or the save refused.  Appending the   *)
(* event can fail after a save that succeeded.                             *)
Saved(m)      == disk' = m /\ UNCHANGED faults
SaveRefused   == disk' = disk /\ Fault
AppendRefused(m) == disk' = m /\ Fault
SaveEventFails(m) == SaveRefused \/ AppendRefused(m)

-----------------------------------------------------------------------------
(* What an engine hands the graph.                                         *)

RecordedCandidates(records) ==
    [i \in DOMAIN records |->
        [ attempt    |-> records[i].attempt,
          decision   |-> records[i].decision,
          target     |-> records[i].target,
          unmeasured |-> records[i].unmeasured ]]

IsMeasured(record) == record.decision = "accepted" \/ record.compared

(* Fault: only accepted patches are remembered as measured.                *)
FaultKnownPatches(records) ==
    HistoryPatches \cup
    {records[i].patch : i \in {j \in DOMAIN records : records[j].decision = "accepted"}}

KnownPatches(records) ==
    HistoryPatches \cup {records[i].patch : i \in {j \in DOMAIN records : IsMeasured(records[j])}}

(* Rejected before there was a prepared candidate: no code, a transport    *)
(* that could not be resolved, or a patch that was refused or did not      *)
(* apply.  Only some of these can be answered again.                       *)
Unprepared(refusal) ==
    [ patch |-> NoPatch, decision |-> "rejected", unmeasured |-> TRUE,
      compared |-> FALSE, refusal |-> refusal ]

(* Prepared, then refused by the shape check or the build, or because the  *)
(* identical patch was measured before.                                    *)
Unbuilt(p) == [Unprepared(FALSE) EXCEPT !.patch = p]

(* Built, then failed by the test gate or by its own measurement.          *)
Untested(p) == [Unbuilt(p) EXCEPT !.unmeasured = FALSE]

Measured(p, decision) ==
    [ patch |-> p, decision |-> decision, unmeasured |-> FALSE,
      compared |-> TRUE, refusal |-> FALSE ]

(* Every outcome of Assess for the optimizer's answer.                     *)
Assessments(s, records) ==
    IF s.proposal = "none"
    THEN {Unprepared(s.target # NoTarget /\ "optimizer" \notin s.cycleFailures)}
    ELSE {Unprepared(refusal) : refusal \in BOOLEAN}
         \cup {Unbuilt(p) : p \in Patches}
         \cup {Untested(p) : p \in Patches \ KnownPatches(records)}
         \cup {Measured(p, d) : p \in Patches \ KnownPatches(records), d \in Decisions}

-----------------------------------------------------------------------------
(* A process starts: Resume (or Start) and the head of Run.  A completed   *)
(* campaign is left alone.  A refused campaign_started event ends the run  *)
(* before captureRunFailure is armed.                                      *)
Start ==
    /\ phase = "down"
    /\ disk.status # "completed"
    /\ processes < MaxProcesses
    /\ processes' = processes + 1
    /\ LET m == [disk EXCEPT !.status = "running"]
       IN  \/ Saved(m) /\ phase' = "baseline"
           \/ SaveEventFails(m) /\ phase' = "down"
    /\ mem' = disk'
    /\ UNCHANGED <<graphVars, accepted, cause>>

(* The baseline steps, verifyClean, and RunADK up to the graph's entry.    *)
EnterGraph ==
    /\ phase = "baseline"
    /\ phase' = "graph"
    /\ node' = "initialize"
    /\ UNCHANGED <<state, asks, mem, disk, accepted, cause, processes, faults>>

InGraph == phase = "graph" /\ UNCHANGED engineVars

GraphStep ==
    \/ InGraph /\ Initialize(RecordedCandidates(mem.records))
    \/ InGraph /\ Discover
    \/ InGraph /\ Analyst
    \/ InGraph /\ MergeAnalysis
    \/ InGraph /\ SkipCandidate
    \/ InGraph /\ Optimizer
    \/ InGraph /\ \E evidence \in Assessments(state, mem.records) : Evaluate(evidence)
    \/ InGraph /\ Reviewer
    \/ InGraph /\ Route

(* apply_policy calls Settle, which first looks at the decision.           *)
BeginSettle ==
    /\ phase = "graph"
    /\ ApplyPolicy
    /\ phase' = IF state.evidence.decision = "accepted" THEN "promote" ELSE "record"
    /\ UNCHANGED <<mem, disk, accepted, cause, processes, faults>>

(* Fault: a copy that failed does not stop the settlement.                 *)
FaultPromote ==
    /\ phase = "promote"
    /\ phase' = "record"
    /\ \/ accepted' = accepted \cup {state.evidence.patch} /\ UNCHANGED faults
       \/ Fault /\ UNCHANGED accepted
    /\ UNCHANGED <<graphVars, mem, disk, cause, processes>>

(* keepAcceptedPatch, before anything refers to the copy.                  *)
Promote ==
    /\ phase = "promote"
    /\ \/ /\ accepted' = accepted \cup {state.evidence.patch}
          /\ phase' = "record"
          /\ UNCHANGED faults
       \/ /\ Fault
          /\ phase' = "failing"
          /\ UNCHANGED accepted
    /\ UNCHANGED <<graphVars, mem, disk, cause, processes>>

NewRecord ==
    [ attempt    |-> Len(mem.records) + 1,
      decision   |-> state.evidence.decision,
      target     |-> state.target,
      unmeasured |-> state.evidence.unmeasured,
      patch      |-> state.evidence.patch,
      compared   |-> state.evidence.compared ]

(* Fault: the tallies are saved before the verdict they count.             *)
FaultRecord ==
    /\ phase = "record"
    /\ mem' = [mem EXCEPT !.records = Append(@, NewRecord)]
    /\ LET t == After(StateTallies(state), state.evidence.decision)
       IN  Saved([mem EXCEPT !.failures = t.failures, !.inconclusive = t.inconclusive])
    /\ phase' = IF state.evidence.decision = "accepted" THEN "mark" ELSE "tally"
    /\ UNCHANGED <<graphVars, accepted, cause, processes>>

(* persistVerdict: the record joins the state in memory, and its save is   *)
(* attempted.  settle swallows the error.                                  *)
Record ==
    /\ phase = "record"
    /\ mem' = [mem EXCEPT !.records = Append(@, NewRecord)]
    /\ Saved(mem') \/ SaveEventFails(mem')
    /\ phase' = IF state.evidence.decision = "accepted" THEN "mark" ELSE "tally"
    /\ UNCHANGED <<graphVars, accepted, cause, processes>>

(* candidate_accepted on the event stream.                                 *)
Mark ==
    /\ phase = "mark"
    /\ \/ Saved(mem) /\ phase' = "tally"
       \/ SaveEventFails(mem) /\ phase' = "failing"
    /\ UNCHANGED <<graphVars, mem, accepted, cause, processes>>

(* adk_progress: the tallies, after the record they count; then the graph  *)
(* counts the verdict too.                                                 *)
Tally ==
    /\ phase = "tally"
    /\ LET t == After(StateTallies(state), state.evidence.decision)
       IN  mem' = [mem EXCEPT !.failures = t.failures, !.inconclusive = t.inconclusive]
    /\ \/ Saved(mem') /\ phase' = "graph" /\ Settled
       \/ SaveEventFails(mem') /\ phase' = "failing" /\ UNCHANGED graphVars
    /\ UNCHANGED <<accepted, cause, processes>>

(* finalize_campaign; RunADK returns the graph's result.                   *)
GraphResult ==
    /\ phase = "graph"
    /\ Finalize
    /\ phase' = "result"
    /\ UNCHANGED <<mem, disk, accepted, cause, processes, faults>>

(* finishCampaign with the result.  A provider failure is returned as the  *)
(* run's error; anything else completes the campaign.                      *)
FinishFailed ==
    /\ phase = "result"
    /\ state.failure # "none"
    /\ mem' = [mem EXCEPT !.failure = state.failure, !.stop = state.stop]
    /\ phase' = "failing"
    /\ UNCHANGED <<graphVars, disk, accepted, cause, processes, faults>>

Complete ==
    /\ phase = "result"
    /\ state.failure = "none"
    /\ mem' = [mem EXCEPT !.failure = "none", !.stop = state.stop, !.status = "completed"]
    /\ \/ Saved(mem') /\ phase' = "report"
       \/ SaveEventFails(mem') /\ phase' = "failing"
    /\ UNCHANGED <<graphVars, accepted, cause, processes>>

(* The process is gone, and with it everything but what it committed.      *)
ProcessEnds ==
    /\ phase' = "down"
    /\ node' = "idle"
    /\ state' = NoCampaignState
    /\ asks' = 0
    /\ mem' = disk'
    /\ cause' = "none"
    /\ UNCHANGED <<accepted, processes>>

(* WriteReports is the last thing finishCampaign does, and its error is    *)
(* the run's error even though the campaign is saved as completed.         *)
WriteReports ==
    /\ phase = "report"
    /\ UNCHANGED disk
    /\ \/ /\ ProcessEnds
          /\ UNCHANGED faults
       \/ /\ Fault
          /\ phase' = "failing"
          /\ UNCHANGED <<graphVars, mem, accepted, cause, processes>>

(* The run returns an error of its own: a baseline step, a graph node, a   *)
(* node timeout, or a canceled context surfacing as one of these.          *)
RunError ==
    /\ phase \in {"baseline", "graph"}
    /\ phase' \in {"interrupting", "failing"}
    /\ UNCHANGED <<graphVars, mem, disk, accepted, cause, processes, faults>>

(* Fault: the reason and the status of a spent budget swapped.             *)
FaultStopped ==
    IF cause = "budget"
    THEN [mem EXCEPT !.stop = "interrupted", !.status = "max_duration"]
    ELSE [mem EXCEPT !.status = IF phase = "interrupting" THEN "interrupted" ELSE "failed"]

(* captureRunFailure.  A spent budget is the stop reason whatever error it *)
(* surfaced as; otherwise the error decides between interrupted and failed *)
(* and the stop reason is left as it is.  The save is best effort.         *)
Stopped ==
    IF cause = "budget"
    THEN [mem EXCEPT !.stop = "max_duration", !.status = "interrupted"]
    ELSE [mem EXCEPT !.status = IF phase = "interrupting" THEN "interrupted" ELSE "failed"]

CaptureRunFailure ==
    /\ phase \in {"interrupting", "failing"}
    /\ Saved(Stopped) \/ SaveEventFails(Stopped)
    /\ ProcessEnds

-----------------------------------------------------------------------------
(* The environment.                                                        *)

Running == phase # "down"

ContextDone ==
    /\ Running
    /\ cause = "none"
    /\ cause' \in {"canceled", "budget"}
    /\ UNCHANGED <<graphVars, mem, disk, accepted, phase, processes, faults>>

(* SIGKILL or power loss: memory is gone, what was committed stays.        *)
Crash ==
    /\ Running
    /\ UNCHANGED <<disk, faults>>
    /\ ProcessEnds

-----------------------------------------------------------------------------

Settle == BeginSettle \/ Promote \/ Record \/ Mark \/ Tally

ProcessStep ==
    \/ EnterGraph
    \/ GraphStep
    \/ Settle
    \/ GraphResult
    \/ FinishFailed
    \/ Complete
    \/ WriteReports
    \/ CaptureRunFailure

Next == Start \/ ProcessStep \/ RunError \/ ContextDone \/ Crash

Spec == Init /\ [][Next]_vars

(* A process keeps working while it lives.  Nothing obliges an operator to *)
(* resume, a run to fail or a process to die.                              *)
FairSpec == Spec /\ WF_vars(ProcessStep)

=============================================================================
