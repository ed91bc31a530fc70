------------------------ MODULE MeasurementProperties ------------------------
(***************************************************************************)
(* What the measurement of a candidate promises.                           *)
(***************************************************************************)
EXTENDS Measurement

AllReadings(e) ==
    {e.eligible[i] : i \in DOMAIN e.eligible}
    \cup {e.pooled[g] : g \in DOMAIN e.pooled}
    \cup {e.first[g] : g \in DOMAIN e.first}
    \cup {e.fresh[g] : g \in DOMAIN e.fresh}
    \cup {e.freshStress[s] : s \in DOMAIN e.freshStress}
    \cup UNION {{e.stress[s][g] : g \in DOMAIN e.stress[s]} : s \in DOMAIN e.stress}

(***************************************************************************)
(* A pass measured on a contended machine is thrown away whole: once the   *)
(* second pass runs, no series and no reading of the first is left for a   *)
(* verdict to rest on, be vetoed by or be spared by                        *)
(* (measureSeedsOnQuietMachine).                                           *)
(***************************************************************************)
NoDiscardedReading ==
    pass = 2 =>
        /\ \A s \in SeedSet : \A i \in DOMAIN runs[s] : runs[s][i] # "first pass"
        /\ \A r \in AllReadings(ev) : r.pass = 2

(***************************************************************************)
(* A candidate gets one confirmation series in total, whether a regression *)
(* or an improvement asks for it, and a workload is measured afresh only   *)
(* as often as it was selected.  Whenever the comparisons are derived,     *)
(* every workload holds as many pairs as every other: the pooled readings  *)
(* fold the workloads pair by pair over their common prefix, and a shorter *)
(* series would silently drop measurements of the others                   *)
(* (confirmImprovements, remeasureSelectedWorkload, commonDepth).          *)
(***************************************************************************)
OneExtension ==
    /\ \A s \in SeedSet :
          /\ Cardinality({i \in DOMAIN runs[s] : runs[s][i] = "confirmation"}) <= 1
          /\ s \in remeasured => \A i \in DOMAIN runs[s] : runs[s][i] = "fresh"
    /\ stage \in {"stress", "regressions", "improvements", "selection"} =>
          \A s, t \in SeedSet : Len(runs[s]) = Len(runs[t])

Judged == Evaluate(ev)
Accepting == stage = "done" /\ Judged.decision = "accepted"

(***************************************************************************)
(* Where there were several workloads to choose from, a verdict that       *)
(* accepts on one workload's reading rests on pairs none of which selected *)
(* that workload (confirmSelection, ADR 0041).                             *)
(***************************************************************************)
SelectionIsFresh ==
    Accepting /\ Len(seeds) >= 2 /\ SupportRequired /\ Judged.subject # Pooled =>
        \A i \in DOMAIN runs[Judged.subject] : runs[Judged.subject][i] = "fresh"

(***************************************************************************)
(* What an acceptance stands for, stated without the policy's order of     *)
(* rules: the last series of every workload matched the baseline, every    *)
(* required guardrail was read, nothing proven to regress was left out,    *)
(* a peak-memory breach was contradicted by a fresh series, and a          *)
(* supported reading improved by the minimum in both estimators            *)
(* (policy.Evaluate, runSeries).                                           *)
(***************************************************************************)
ProvenOver(r, limit) ==
    r.valid /\ r.delta > limit /\ (r.significant \/ ~SupportRequired)

AcceptanceIsEarned ==
    Accepting =>
        /\ ev.behaviorMatches /\ ev.safetyChecksPassed
        /\ Required \subseteq DOMAIN ev.pooled
        /\ \A g \in Configured \cap DOMAIN ev.pooled :
              ProvenOver(ev.pooled[g], LimitOf(g)) =>
                  /\ g = "peak_memory_bytes" /\ g \in DOMAIN ev.fresh
                  /\ ~ProvenOver(ev.fresh[g], LimitOf(g))
        /\ \A i \in DOMAIN ev.eligible : ~ProvenOver(ev.eligible[i], RegressionCeiling)
        /\ \A s \in DOMAIN ev.stress : \A g \in Configured \cap DOMAIN ev.stress[s] :
              ProvenOver(ev.stress[s][g], LimitOf(g)) =>
                  /\ g = "peak_memory_bytes" /\ s \in DOMAIN ev.freshStress
                  /\ ~ProvenOver(ev.freshStress[s], LimitOf(g))
        /\ \E i \in DOMAIN ev.eligible :
              LET r == ev.eligible[i] IN
              /\ r.workload = Judged.subject
              /\ r.fit /\ r.delta < 0
              /\ (IF r.shift = NoShift THEN r.delta ELSE r.shift[1]) <= -MinimumImprovement

(***************************************************************************)
(* A series that fails or shows another behaviour rejects the candidate,   *)
(* however many earlier series had verified it (runSeries, secondLook).    *)
(***************************************************************************)
FailedSeriesRejects ==
    [][Running /\ stage' = "done" => Judged'.decision = "rejected"]_vars

(***************************************************************************)
(* No reading over its limit is passed over in silence: an acceptance      *)
(* names each of them in its reasons (noteUnactedReadings, ADR 0016,       *)
(* ADR 0040).                                                              *)
(***************************************************************************)
OverLimitIsNamed ==
    Accepting =>
        /\ \A i \in DOMAIN ev.eligible :
              Over(ev.eligible[i], RegressionCeiling) => i \in UnconfirmedRegressions(ev)
        /\ \A g \in Configured \cap DOMAIN ev.pooled :
              Over(ev.pooled[g], LimitOf(g)) =>
                  g \in UnconfirmedGuardrails(ev) \cup UnreplicatedGuardrails(ev)
        /\ \A s \in DOMAIN ev.stress :
              (\E g \in Configured \cap DOMAIN ev.stress[s] :
                    Over(ev.stress[s][g], LimitOf(g))) =>
                  s \in UnconfirmedStress(ev) \cup UnreplicatedStress(ev)

(***************************************************************************)
(* How much of an evaluation is left, compared from left to right: the     *)
(* stage, the workloads not yet measured afresh, the seeds still queued.   *)
(***************************************************************************)
Remaining ==
    LET choices == Cardinality(SeedSet \ remeasured)
    IN  CASE stage = "start"        -> <<9, 0, 0>>
          [] stage = "pass"         -> <<9 - pass, 1, Len(queue)>>
          [] stage = "stress"       -> <<9 - pass, 0, 2 * Len(queue)>>
          [] stage = "replicate"    -> <<9 - pass, 0, 2 * Len(queue) - 1>>
          [] stage = "regressions"  -> <<6, 0, 0>>
          [] stage = "improvements" -> <<IF confirmed THEN 3 ELSE 5, 0, 0>>
          [] stage = "extend"       -> <<4, 0, Len(queue)>>
          [] stage = "selection"    -> <<2, 2 * choices, 0>>
          [] stage = "remeasure"    -> <<2, 2 * choices - 1, Len(queue)>>
          [] stage = "done"         -> <<0, 0, 0>>

LessRemains(a, b) ==
    \E i \in 1 .. 3 : a[i] < b[i] /\ \A j \in 1 .. i - 1 : a[j] = b[j]

(***************************************************************************)
(* The second looks end: every step leaves less to do, so there is no      *)
(* cycle of confirmations and selections whatever the series read          *)
(* (secondLook, the loop of confirmSelection).                             *)
(***************************************************************************)
MeasurementEnds == [][LessRemains(Remaining', Remaining)]_vars

(***************************************************************************)
(* candidate_eval.go:661 and ADR 0040: a peak-memory breach rejects only   *)
(* when a fresh series reproduces it.                                      *)
(***************************************************************************)
MemoryVetoIsReproduced ==
    stage = "done" /\ SupportRequired
    /\ Judged = Reject("guardrail", "peak_memory_bytes") =>
        "peak_memory_bytes" \in DOMAIN ev.fresh

(***************************************************************************)
(* policy.go:582: the supported reading wins when one exists, because that *)
(* is the one an acceptance rests on.                                      *)
(***************************************************************************)
SupportedWinCarries ==
    stage = "done" /\ Judged.rule = "unsupported" =>
        ~\E i \in DOMAIN ev.eligible :
            ev.eligible[i].fit /\ ImprovedAtLeastMinimum(ev.eligible[i])

=============================================================================
