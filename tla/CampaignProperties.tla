------------------------- MODULE CampaignProperties -------------------------
(***************************************************************************)
(* What should be true of a campaign, and the abstract log it implements.  *)
(***************************************************************************)
EXTENDS Campaign

Recorded(s) == RecordedCandidates(s.records)

(* The graph's counters and history are exactly what the engine's records  *)
(* say whenever no verdict is being settled, in every process: a resume    *)
(* (orchestrator.initialize from recordedCandidates) and the counting of a *)
(* settled verdict (counted) land on the same numbers, so the bounds are   *)
(* the campaign's and attempt numbers never repeat.                        *)
GraphAgreesWithRecords ==
    phase = "graph" /\ node \notin {"idle", "initialize", "settling"} =>
        /\ state.prior = Recorded(mem)
        /\ StateTallies(state) = TalliesOf(Recorded(mem))
        /\ state.tried = Len(mem.records)

(* The tallies persisted for a reader (adk_progress, settle's last step)   *)
(* are the tallies of a prefix of the verdicts persisted with them: they   *)
(* may lag after a crash, and never count a verdict that is not on disk.   *)
TalliesCountRecordedPrefix ==
    \E n \in 0..Len(disk.records) :
        LET t == TalliesOf(SubSeq(Recorded(disk), 1, n))
        IN  disk.failures = t.failures /\ disk.inconclusive = t.inconclusive

(* settle promises an order that cannot leave a record without its         *)
(* promotion: every accepted verdict on disk has its patch in accepted/,   *)
(* after any crash and any refused save.                                   *)
AcceptedRecordHasArtifact ==
    \A i \in DOMAIN disk.records :
        disk.records[i].decision = "accepted" => disk.records[i].patch \in accepted

(* No patch is measured twice, by whichever process: knownCandidates is    *)
(* read from the records a resume brings back (rejectMeasuredDuplicate).   *)
PatchMeasuredOnce ==
    \A i, j \in DOMAIN disk.records :
        /\ i # j
        /\ IsMeasured(disk.records[i])
        /\ IsMeasured(disk.records[j])
        => disk.records[i].patch # disk.records[j].patch

(* A cycle calls the optimizer at most twice, and a second time only to    *)
(* answer a refusal, so a re-ask can neither loop nor leak into the next   *)
(* cycle (evaluate, reaskable, mergeAnalysis; ADR 0045).                   *)
OneReaskPerCycle ==
    /\ asks <= 2
    /\ asks = 2 /\ node = "evaluate" => state.reasked

(* An outage is two consecutive cycles in which the optimizer failed: the  *)
(* last two verdicts are the empty rejections of such cycles.  Conversely  *)
(* two such cycles always end the campaign as an outage, even when they    *)
(* also used up its last candidate (route, ended).                         *)
OutageIsTwoFailedCycles ==
    /\ state.stop = "provider_failure" /\ phase = "graph" =>
          /\ Len(mem.records) >= OutageCycles
          /\ \A i \in (Len(mem.records) - 1)..Len(mem.records) :
                mem.records[i].unmeasured /\ mem.records[i].patch = NoPatch
    /\ state.outage >= OutageCycles => state.stop = "provider_failure"

(* Every run that starts comes to an end: the candidate budget bounds the  *)
(* cycles and nothing inside a cycle repeats for ever.                     *)
RunEnds == Running ~> ~Running

(* The abstract log: the verdicts on disk, and the reason of a campaign    *)
(* that is complete on disk.                                               *)
Log == INSTANCE VerdictLog WITH
           log       <- Recorded(disk),
           concluded <- IF disk.status = "completed" THEN disk.stop ELSE "none"

(* Whatever the processes and the store do, the database only ever goes    *)
(* through steps of the verdict log: verdicts are appended one at a time,  *)
(* in order, for open targets, before any bound, and a completion has a    *)
(* reason the verdicts on disk support.                                    *)
KeepsVerdictLog == Log!Spec

-----------------------------------------------------------------------------
(* Two statements of the repository that its code does not keep.           *)

(* docs/architecture.md:1626: the number of candidates tried is not        *)
(* persisted, so the candidate budget binds per process.  A process would  *)
(* then always begin its first cycle with no candidate tried.              *)
BudgetBindsPerProcess == node = "discover" => state.tried = 0

(* internal/campaign/engine.go:304: ProviderFailure is the role and        *)
(* failure that stopped the campaign.  A campaign that the operator        *)
(* interrupted would then have none.                                       *)
ProviderFailureIsWhatStopped ==
    disk.status = "interrupted" /\ disk.stop # "max_duration" => disk.failure = "none"

=============================================================================
