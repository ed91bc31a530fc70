--------------------------- MODULE CampaignGraph ---------------------------
(***************************************************************************)
(* The agent graph of internal/orchestrator: one process's walk through    *)
(* initialize_campaign, run_discovery, the candidate cycle (analyst,       *)
(* merge_analysis, optimizer, evaluate_candidate, reviewer, apply_policy   *)
(* or skip_candidate), route_campaign and finalize_campaign.  There is one *)
(* action per node.  The graph keeps its CampaignState in session state    *)
(* that dies with the process; what outlives it is the engine's business   *)
(* (module Campaign), which supplies the recorded candidates to Initialize *)
(* and the assessment to Evaluate, and makes a verdict durable between     *)
(* ApplyPolicy and Settled.                                                *)
(*                                                                         *)
(* A role's answer is what the properties tell apart.  The analyst's is a  *)
(* ranking of targets.  The optimizer's is "none" (no code), "single" (one *)
(* transport: a patch or a function_source) or "both".  The reviewer's is  *)
(* advice nothing below depends on, so only its failure is kept.  A role   *)
(* that fails is absorbed by degradingNode: an empty answer, and an entry  *)
(* in CycleFailures.                                                       *)
(***************************************************************************)
EXTENDS Ledger

CONSTANTS
    Rankings,       \* the analyses the analyst can return
    FreeChoice,     \* --free-choice: the negation of StopWhenRankingExhausted
    Patches,        \* the distinct normalized patches
    NoPatch         \* the candidate of an answer that never became a prepared patch

ASSUME GraphAssumption ==
    /\ Rankings \subseteq Seq(Targets)
    /\ FreeChoice \in BOOLEAN
    /\ NoPatch \notin Patches

VARIABLES
    node,       \* the node the scheduler runs next, or where the graph rests
    state,      \* CampaignState
    asks        \* optimizer calls spent on this cycle; read by no action

graphVars == <<node, state, asks>>

Roles == {"analyst", "optimizer", "reviewer"}

Nodes == {"idle", "initialize", "discover", "analyst", "merge", "skip", "optimizer",
          "evaluate", "reviewer", "decide", "settling", "route", "finalize", "finished"}

Proposals == {"none", "single", "both"}

StopReasons == BoundReasons \cup {"none", "ranking_exhausted", "nothing_flagged",
                                  "provider_failure", "analysis_unavailable"}

Evidence == [ patch      : Patches \cup {NoPatch},
              decision   : Decisions,
              unmeasured : BOOLEAN,      \* refused before measurement
              compared   : BOOLEAN,      \* has comparisons against the baseline
              refusal    : BOOLEAN ]     \* ReaskCause is not empty

NoEvidence == [ patch |-> NoPatch, decision |-> "rejected", unmeasured |-> TRUE,
                compared |-> FALSE, refusal |-> FALSE ]

OutageCycles == 2

CampaignState == [ tried         : Nat,
                   failures      : Nat,
                   inconclusive  : Nat,
                   prior         : Seq(PriorCandidate),
                   ranking       : Rankings \cup {<<>>},
                   target        : Targets \cup {NoTarget},
                   reasked       : BOOLEAN,
                   cycleFailures : SUBSET Roles,
                   outage        : Nat,
                   stop          : StopReasons,
                   failure       : {"none", "analyst", "optimizer"},
                   proposal      : Proposals,
                   evidence      : Evidence ]

NoCampaignState == [ tried |-> 0, failures |-> 0, inconclusive |-> 0, prior |-> <<>>,
                     ranking |-> <<>>, target |-> NoTarget, reasked |-> FALSE,
                     cycleFailures |-> {}, outage |-> 0, stop |-> "none",
                     failure |-> "none", proposal |-> "none", evidence |-> NoEvidence ]

GraphTypeOK ==
    /\ node \in Nodes
    /\ state \in CampaignState
    /\ asks \in Nat

GraphInit == node = "idle" /\ state = NoCampaignState /\ asks = 0

StateTallies(s) ==
    [tried |-> s.tried, failures |-> s.failures, inconclusive |-> s.inconclusive]

-----------------------------------------------------------------------------
(* How a campaign ends (termination.go).                                   *)

Continue == [reason |-> "none", failure |-> "none"]

(* Fault: a process is not asked whether it starts at a bound.             *)
FaultEndedAtStart(s) == Continue

EndedAtStart(s) == [reason |-> StopReason(StateTallies(s)), failure |-> "none"]

(* Fault: stops on an exhausted ranking although the campaign has free choice. *)
FaultEndedAfterAnalysis(s) ==
    IF s.target # NoTarget THEN Continue
    ELSE [ reason  |-> IF s.ranking # <<>> THEN "ranking_exhausted" ELSE "nothing_flagged",
           failure |-> "none" ]

EndedAfterAnalysis(s) ==
    IF FreeChoice \/ s.target # NoTarget THEN Continue
    ELSE IF s.ranking # <<>> THEN [reason |-> "ranking_exhausted", failure |-> "none"]
    ELSE IF "analyst" \in s.cycleFailures
         THEN [reason |-> "analysis_unavailable", failure |-> "analyst"]
    ELSE [reason |-> "nothing_flagged", failure |-> "none"]

ProviderFailure(s) == "optimizer" \in s.cycleFailures

(* Fault: the bounds are consulted before the outage.                      *)
FaultEndedAfterCycle(s) ==
    IF StopReason(StateTallies(s)) = "none" /\ ProviderFailure(s) /\ s.outage >= OutageCycles
    THEN [reason |-> "provider_failure", failure |-> "optimizer"]
    ELSE [reason |-> StopReason(StateTallies(s)), failure |-> "none"]

EndedAfterCycle(s) ==
    IF ProviderFailure(s) /\ s.outage >= OutageCycles
    THEN [reason |-> "provider_failure", failure |-> "optimizer"]
    ELSE [reason |-> StopReason(StateTallies(s)), failure |-> "none"]

-----------------------------------------------------------------------------
(* The outer graph.                                                        *)

(* Fault: the counters of a resumed process restart at zero (#91).         *)
FaultRestored(recorded) == [NoCampaignState EXCEPT !.prior = recorded]

(* The state a process enters the graph with: counters derived from the    *)
(* recorded candidates, never carried over one by one.                     *)
Restored(recorded) ==
    LET t == TalliesOf(recorded)
    IN  [NoCampaignState EXCEPT !.tried = t.tried, !.failures = t.failures,
                                !.inconclusive = t.inconclusive, !.prior = recorded]

Initialize(recorded) ==
    /\ node = "initialize"
    /\ LET s   == Restored(recorded)
           end == EndedAtStart(s)
       IN  /\ state' = [s EXCEPT !.stop = end.reason]
           /\ node' = IF end.reason = "none" THEN "discover" ELSE "finalize"
    /\ asks' = 0

Discover ==
    /\ node = "discover"
    /\ node' = "analyst"
    /\ UNCHANGED <<state, asks>>

(* The deterministic evidence of a role call that failed: an empty answer  *)
(* and one more entry in CycleFailures.                                    *)
Degraded(s, role) == [s EXCEPT !.cycleFailures = @ \cup {role}]

Analyst ==
    /\ node = "analyst"
    /\ \/ \E ranking \in Rankings : state' = [state EXCEPT !.ranking = ranking]
       \/ state' = [Degraded(state, "analyst") EXCEPT !.ranking = <<>>]
    /\ node' = "merge"
    /\ UNCHANGED asks

MergeAnalysis ==
    /\ node = "merge"
    /\ LET s   == [state EXCEPT !.target = NextTarget(state.ranking, state.prior),
                                !.reasked = FALSE]
           end == EndedAfterAnalysis(s)
       IN  /\ state' = IF end.reason = "none" THEN s
                       ELSE [s EXCEPT !.stop = end.reason, !.failure = end.failure]
           /\ node' = IF end.reason = "none" THEN "optimizer" ELSE "skip"
    /\ asks' = 0

SkipCandidate ==
    /\ node = "skip"
    /\ node' = "route"
    /\ UNCHANGED <<state, asks>>

Optimizer ==
    /\ node = "optimizer"
    /\ \/ \E proposal \in Proposals : state' = [state EXCEPT !.proposal = proposal]
       \/ state' = [Degraded(state, "optimizer") EXCEPT !.proposal = "none"]
    /\ node' = "evaluate"
    /\ asks' = asks + 1

(* Fault: the cycle forgets that it already spent its re-ask.              *)
FaultReaskable(s, evidence) ==
    s.target # NoTarget /\ evidence.refusal /\ s.proposal # "both"

(* An answer refused before any of its change was judged is worth one more *)
(* ask per cycle, for a target code chose, unless a patch came beside a    *)
(* function_source.                                                        *)
Reaskable(s, evidence) ==
    /\ s.target # NoTarget
    /\ ~s.reasked
    /\ evidence.refusal
    /\ s.proposal # "both"

Evaluate(evidence) ==
    /\ node = "evaluate"
    /\ LET again == Reaskable(state, evidence)
       IN  /\ state' = [state EXCEPT !.evidence = evidence, !.reasked = again]
           /\ node' = IF again THEN "optimizer" ELSE "reviewer"
    /\ UNCHANGED asks

Reviewer ==
    /\ node = "reviewer"
    /\ state' \in {state, Degraded(state, "reviewer")}
    /\ node' = "decide"
    /\ UNCHANGED asks

(* counted: the state once the pending verdict is counted.                 *)
Counted(s) ==
    LET t == After(StateTallies(s), s.evidence.decision)
    IN  [s EXCEPT !.tried = @ + 1,
                  !.failures = t.failures,
                  !.inconclusive = t.inconclusive,
                  !.prior = Append(@, [ attempt    |-> s.tried + 1,
                                        decision   |-> s.evidence.decision,
                                        target     |-> s.target,
                                        unmeasured |-> s.evidence.unmeasured ])]

(* apply_policy hands the verdict to the settler and waits; Settled is its *)
(* return once the settlement succeeded.                                   *)
ApplyPolicy ==
    /\ node = "decide"
    /\ node' = "settling"
    /\ UNCHANGED <<state, asks>>

Settled ==
    /\ node = "settling"
    /\ state' = Counted(state)
    /\ node' = "route"
    /\ UNCHANGED asks

(* Fault: a stop that the analysis decided is forgotten.                   *)
FaultRoute ==
    /\ node = "route"
    /\ LET s   == [state EXCEPT !.outage = IF ProviderFailure(state) THEN @ + 1 ELSE 0]
           end == EndedAfterCycle(s)
       IN  IF end.reason # "none"
           THEN /\ state' = [s EXCEPT !.stop = end.reason, !.failure = end.failure]
                /\ node' = "finalize"
           ELSE /\ state' = [s EXCEPT !.cycleFailures = {}]
                /\ node' = "analyst"
    /\ UNCHANGED asks

Route ==
    /\ node = "route"
    /\ IF state.stop # "none"
       THEN node' = "finalize" /\ UNCHANGED state
       ELSE LET s   == [state EXCEPT !.outage = IF ProviderFailure(state) THEN @ + 1 ELSE 0]
                end == EndedAfterCycle(s)
            IN  IF end.reason # "none"
                THEN /\ state' = [s EXCEPT !.stop = end.reason, !.failure = end.failure]
                     /\ node' = "finalize"
                ELSE /\ state' = [s EXCEPT !.cycleFailures = {}]
                     /\ node' = "analyst"
    /\ UNCHANGED asks

Finalize ==
    /\ node = "finalize"
    /\ node' = "finished"
    /\ UNCHANGED <<state, asks>>

=============================================================================
