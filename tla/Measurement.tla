----------------------------- MODULE Measurement -----------------------------
(***************************************************************************)
(* The measurement of one built and tested candidate (measureAndFinalize   *)
(* in internal/campaign/candidate_eval.go): series of interleaved pairs on *)
(* every workload, a second pass when the machine was contended during the *)
(* first, one confirmation series on every seed, and a fresh series on the *)
(* workload an acceptance would rest on.  What the pairs read is left      *)
(* open: every derivation takes any readings of the given sets, and a      *)
(* series may fail or show a changed behaviour.                            *)
(***************************************************************************)
EXTENDS Policy, FiniteSets

CONSTANTS
    SeedLists,      \* what a manifest may make acceptance-eligible: lists of
                    \* workloads in order of name
    StressSeeds,    \* the other workloads of the manifest
    PrimaryReadings, GuardrailReadings, StressReadings,
    LocalIsolation  \* the campaign watches the load of its own machine

(* What a series reads of one metric.                                      *)
ReadingSet == [ delta : Int, shift : {NoShift} \cup [1 .. 1 -> Int], valid : BOOLEAN,
                fit : BOOLEAN, significant : BOOLEAN ]

(* A manifest names a workload once.                                       *)
ASSUME MeasurementAssumption ==
    /\ SeedLists \subseteq Seq(STRING) /\ StressSeeds \in Seq(STRING)
    /\ \A list \in SeedLists : \A i, j \in DOMAIN list :
          list[i] # Pooled /\ (list[i] = list[j] => i = j)
    /\ LocalIsolation \in BOOLEAN
    /\ PrimaryReadings \subseteq ReadingSet
    /\ \A r \in GuardrailReadings \cup StressReadings :
          DOMAIN r \subseteq STRING /\ \A g \in DOMAIN r : r[g] \in ReadingSet
    /\ \A r \in StressReadings : Replicated \subseteq DOMAIN r

VARIABLES
    seeds,      \* the acceptance-eligible workloads of this campaign
    stage,      \* the step of the evaluation
    queue,      \* the seeds that step still has to run
    pass,       \* 1, or 2 after a contended first pass
    runs,       \* seed |-> the series kept for it, named by their origin
    sized,      \* both binaries could be sized
    confirmed,  \* the confirmation job is on the evidence
    remeasured, \* the workloads that got their fresh series
    ev          \* the evidence the policy judges

vars == <<seeds, stage, queue, pass, runs, sized, confirmed, remeasured, ev>>

SeedSet == {seeds[i] : i \in DOMAIN seeds}
Nothing == [none \in {} |-> none]

(* Evidence with no measurement in it: nothing is shown to match yet.      *)
NoEvidence ==
    [ behaviorMatches |-> FALSE, safetyChecksPassed |-> FALSE,
      representative |-> FALSE, eligible |-> <<>>, pooled |-> Nothing,
      stress |-> Nothing, first |-> Nothing, fresh |-> Nothing,
      freshStress |-> Nothing ]

NoRuns == [s \in SeedSet |-> <<>>]

Init ==
    /\ seeds \in SeedLists
    /\ stage = "start" /\ queue = <<>> /\ pass = 1 /\ runs = NoRuns
    /\ sized \in BOOLEAN /\ confirmed = FALSE /\ remeasured = {}
    /\ ev = NoEvidence

(* A reading as it goes into the evidence, with the pass it was made in.   *)
Reading(subject, r) ==
    [ workload |-> subject, delta |-> r.delta, shift |-> r.shift,
      valid |-> r.valid, fit |-> r.fit, significant |-> r.significant,
      pass |-> pass ]
Readings(rs) == [g \in DOMAIN rs |-> Reading(Pooled, rs[g])]

(***************************************************************************)
(* finalizeCandidateEvidence over the runs kept so far: one reading of the *)
(* primary metric per seed and a pooled one, and the pooled guardrails.    *)
(* `pooled`, `primary` and `guardrails` are what the pairs happened to     *)
(* read.                                                                   *)
(***************************************************************************)
Finalized(e, pooled, primary, guardrails) ==
    [e EXCEPT
        !.behaviorMatches = TRUE, !.safetyChecksPassed = TRUE,
        !.representative = seeds # <<>>,
        !.eligible = << Reading(Pooled, pooled) >> \o
                     [i \in DOMAIN seeds |-> Reading(seeds[i], primary[seeds[i]])],
        !.pooled = [g \in {h \in DOMAIN guardrails : h = "binary_size_bytes" => sized}
                        |-> Reading(Pooled, guardrails[g])]]

(* --- One pass over every workload ---------------------------------------- *)
Start ==
    /\ stage = "start"
    /\ stage' = "pass" /\ queue' = seeds
    /\ UNCHANGED <<seeds, pass, runs, sized, confirmed, remeasured, ev>>

Ran(seed, origin) == runs' = [runs EXCEPT ![seed] = Append(@, origin)]

MeasureSeed ==
    /\ stage = "pass" /\ queue # <<>>
    /\ Ran(Head(queue), IF pass = 1 THEN "first pass" ELSE "second pass")
    /\ queue' = Tail(queue)
    /\ UNCHANGED <<seeds, stage, pass, sized, confirmed, remeasured, ev>>

FinishSeeds ==
    /\ stage = "pass" /\ queue = <<>> /\ seeds # <<>>
    /\ \E pooled \in PrimaryReadings, primary \in [SeedSet -> PrimaryReadings],
          guardrails \in GuardrailReadings :
          ev' = Finalized(ev, pooled, primary, guardrails)
    /\ stage' = "stress" /\ queue' = StressSeeds
    /\ UNCHANGED <<seeds, pass, runs, sized, confirmed, remeasured>>

NothingEligible ==
    /\ stage = "pass" /\ seeds = <<>>
    /\ stage' = "done"
    /\ UNCHANGED <<seeds, queue, pass, runs, sized, confirmed, remeasured, ev>>

With(f, key, value) == [k \in DOMAIN f \cup {key} |-> IF k = key THEN value ELSE f[k]]

MeasureStressSeed ==
    /\ stage = "stress" /\ queue # <<>>
    /\ \E r \in StressReadings :
          /\ ev' = [ev EXCEPT !.stress = With(@, Head(queue), Readings(r))]
          /\ IF StressGuardrailsToReplicate(r) # {}
             THEN stage' = "replicate" /\ queue' = queue
             ELSE stage' = "stress" /\ queue' = Tail(queue)
    /\ UNCHANGED <<seeds, pass, runs, sized, confirmed, remeasured>>

(* The breach of one stress seed gets a series of its own, on that seed.   *)
ReplicateStressBreach ==
    /\ stage = "replicate"
    /\ \E r \in StressReadings, g \in Replicated :
          ev' = [ev EXCEPT !.freshStress =
                    With(@, Head(queue), Reading(Pooled, r[g]))]
    /\ stage' = "stress" /\ queue' = Tail(queue)
    /\ UNCHANGED <<seeds, pass, runs, sized, confirmed, remeasured>>

(* Fault: the fresh readings of the stress pass outlive the pass.          *)
FaultDiscarded == [evidence |-> [NoEvidence EXCEPT !.freshStress = ev.freshStress],
                   runs |-> NoRuns]

(* What a second pass starts from: none of what the first one measured.    *)
Discarded == [evidence |-> NoEvidence, runs |-> NoRuns]

RemeasureContendedPass ==
    /\ stage = "stress" /\ queue = <<>>
    /\ pass = 1 /\ LocalIsolation
    /\ pass' = 2 /\ stage' = "pass" /\ queue' = seeds
    /\ ev' = Discarded.evidence /\ runs' = Discarded.runs
    /\ UNCHANGED <<seeds, sized, confirmed, remeasured>>

KeepPass ==
    /\ stage = "stress" /\ queue = <<>>
    /\ stage' = "regressions"
    /\ UNCHANGED <<seeds, queue, pass, runs, sized, confirmed, remeasured, ev>>

(* --- Second look ---------------------------------------------------------- *)
RegressionsToConfirm ==
    \/ UnconfirmedRegressions(ev) # {}
    \/ UnconfirmedGuardrails(ev) # {}
    \/ GuardrailsToReplicate(ev) # {}

ImprovementsToConfirm ==
    LET decision == Evaluate(ev).decision
    IN  \/ decision = "inconclusive" /\ UnconfirmedImprovements(ev) # {}
        \/ decision = "accepted" /\ BorderlineImprovement(ev)

Look(at, extend, next) ==
    /\ stage = at
    /\ IF extend THEN stage' = "extend" /\ queue' = seeds
                 ELSE stage' = next /\ UNCHANGED queue
    /\ UNCHANGED <<seeds, pass, runs, sized, confirmed, remeasured, ev>>

ConfirmRegressions == Look("regressions", RegressionsToConfirm, "improvements")

(* A candidate gets one confirmation series, whoever asks for it first.    *)
ConfirmImprovements ==
    Look("improvements", ~confirmed /\ ImprovementsToConfirm, "selection")

ExtendSeed ==
    /\ stage = "extend" /\ queue # <<>>
    /\ Ran(Head(queue), "confirmation")
    /\ queue' = Tail(queue)
    /\ UNCHANGED <<seeds, stage, pass, sized, confirmed, remeasured, ev>>

(* rederive, and the replicated guardrails of the series before and of the *)
(* series that was just added.                                             *)
FinishExtension ==
    /\ stage = "extend" /\ queue = <<>>
    /\ \E pooled \in PrimaryReadings, primary \in [SeedSet -> PrimaryReadings],
          guardrails, fresh \in GuardrailReadings :
          LET derived == Finalized(ev, pooled, primary, guardrails)
              replicated(rs) == [g \in Replicated \cap DOMAIN rs |-> rs[g]]
          IN  ev' = [derived EXCEPT !.first = replicated(ev.pooled),
                                    !.fresh = replicated(Readings(fresh))]
    /\ confirmed' = TRUE
    /\ stage' = "improvements"
    /\ UNCHANGED <<seeds, queue, pass, runs, sized, remeasured>>

(* Fault: a workload already measured afresh is selected again.            *)
FaultWorkloadToRemeasure ==
    IF Len(seeds) >= 2 /\ Evaluate(ev).decision = "accepted"
    THEN SelectedImprovements(ev) ELSE {}

(* Fault: a confirmation series stands in for the fresh one.               *)
FaultWorkloadUnconfirmed ==
    IF Len(seeds) >= 2 /\ ~confirmed /\ Evaluate(ev).decision = "accepted"
    THEN SelectedImprovements(ev) \ remeasured ELSE {}

(* The workload an acceptance would rest on, unless it has been measured   *)
(* again already or there was nothing to choose from.                      *)
WorkloadToRemeasure ==
    IF Len(seeds) >= 2 /\ Evaluate(ev).decision = "accepted"
    THEN SelectedImprovements(ev) \ remeasured ELSE {}

FreshSeriesOf(seed) == [i \in DOMAIN runs[seed] |-> seed]

ConfirmSelection ==
    /\ stage = "selection"
    /\ \E seed \in WorkloadToRemeasure :
          stage' = "remeasure" /\ queue' = FreshSeriesOf(seed)
    /\ UNCHANGED <<seeds, pass, runs, sized, confirmed, remeasured, ev>>

SelectionStands ==
    /\ stage = "selection" /\ WorkloadToRemeasure = {}
    /\ stage' = "done" /\ confirmed' = (confirmed \/ remeasured # {})
    /\ UNCHANGED <<seeds, queue, pass, runs, sized, remeasured, ev>>

MeasureFreshSeries ==
    /\ stage = "remeasure" /\ Len(queue) > 1
    /\ queue' = Tail(queue)
    /\ UNCHANGED <<seeds, stage, pass, runs, sized, confirmed, remeasured, ev>>

(* Fault: the pairs that selected the workload stay in its series.         *)
FaultKeepsSelecting(seed, series) ==
    [i \in DOMAIN series |-> IF i = 1 THEN series[i] ELSE "fresh"]

(* The fresh series takes the place of everything the workload had.        *)
Replacement(seed, series) == [i \in DOMAIN series |-> "fresh"]

ReplaceSeries ==
    /\ stage = "remeasure" /\ Len(queue) = 1
    /\ LET seed == Head(queue) IN
       /\ runs' = [runs EXCEPT ![seed] = Replacement(seed, @)]
       /\ remeasured' = remeasured \cup {seed}
    /\ \E pooled \in PrimaryReadings, primary \in [SeedSet -> PrimaryReadings],
          guardrails \in GuardrailReadings :
          ev' = Finalized(ev, pooled, primary, guardrails)
    /\ stage' = "selection" /\ queue' = <<>>
    /\ UNCHANGED <<seeds, pass, sized, confirmed>>

(* Fault: an earlier series' match outlives the series that failed.        *)
FaultUnverified(e, mismatch) ==
    [e EXCEPT !.safetyChecksPassed = @ \/ mismatch]

(***************************************************************************)
(* Any series may end in an error, which leaves the behaviour unverified   *)
(* even when an earlier series had verified it, or in a mismatch, which    *)
(* also says that the safety checks had passed.                            *)
(***************************************************************************)
Running ==
    \/ stage \in {"pass", "stress", "extend", "remeasure"} /\ queue # <<>>
    \/ stage = "replicate"

Unverified(e, mismatch) ==
    [e EXCEPT !.behaviorMatches = FALSE,
              !.safetyChecksPassed = @ \/ mismatch,
              !.stress = IF stage \in {"stress", "replicate"} THEN Nothing ELSE @]

SeriesFails ==
    /\ Running
    /\ \E mismatch \in BOOLEAN : ev' = Unverified(ev, mismatch)
    /\ stage' = "done" /\ queue' = <<>>
    /\ UNCHANGED <<seeds, pass, runs, sized, confirmed, remeasured>>

Next ==
    \/ Start \/ MeasureSeed \/ FinishSeeds \/ NothingEligible
    \/ MeasureStressSeed \/ ReplicateStressBreach
    \/ RemeasureContendedPass \/ KeepPass
    \/ ConfirmRegressions \/ ConfirmImprovements \/ ExtendSeed \/ FinishExtension
    \/ ConfirmSelection \/ SelectionStands \/ MeasureFreshSeries \/ ReplaceSeries
    \/ SeriesFails

Spec == Init /\ [][Next]_vars

=============================================================================
