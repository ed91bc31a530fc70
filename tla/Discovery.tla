------------------------------ MODULE Discovery ------------------------------
(***************************************************************************)
(* Discovery (internal/discovery, internal/profile/sampler.go): which      *)
(* workloads are sampled, the rungs a sample that failed falls down, the   *)
(* reports kept on disk, the benchmarks it falls back to, and the evidence *)
(* the campaign is handed.                                                 *)
(*                                                                         *)
(* One step is one run of the platform's sampler.  A discovery that is     *)
(* cancelled leaves its reports; the resumed campaign discovers again.     *)
(***************************************************************************)
EXTENDS HotList

CONSTANTS
    DiscoverySeeds,   \* the manifest's seeds: [id, stress, eligible, weight, repeatable, stdin]
    VariantLists,     \* what the explorer may return
    Profiles,         \* the stacks a usable report may show
    BenchmarkHot,     \* the hot list of the module's benchmarks
    AllocationHot,    \* the locations of their allocation profile
    MemoryObjective,  \* whether the campaign's objective is peak memory
    MaxDiscoveries    \* bound: discoveries of one campaign

Workloads ==
    [id : STRING, stress : BOOLEAN, eligible : BOOLEAN, weight : Nat, repeatable : BOOLEAN,
     stdin : BOOLEAN]

Stacks == Seq([frames : Seq(Range(Symbols)), weight : Nat])

(* The manifest refuses two seeds of one id (validateSeeds); two variants  *)
(* may have one.                                                           *)
ASSUME DiscoveryAssumption ==
    /\ DiscoverySeeds \in Seq(Workloads) /\ Len(DiscoverySeeds) > 0
    /\ \A i, j \in DOMAIN DiscoverySeeds : i # j => DiscoverySeeds[i].id # DiscoverySeeds[j].id
    /\ VariantLists \subseteq Seq(Workloads) /\ Profiles \subseteq Stacks
    /\ MemoryObjective \in BOOLEAN /\ MaxDiscoveries \in Nat

VARIABLES
    disc,     \* this discovery
    reports   \* the report files, each with the run that wrote it last

discoveryVars == <<disc, reports>>

NoSamples == <<>>

StartDiscovery(nth) ==
    [nth |-> nth, phase |-> "target", pending |-> {}, try |-> <<>>,
     samples |-> NoSamples, skipped |-> {}, source |-> "none", hot |-> <<>>, writes |-> {},
     pgo |-> FALSE]

DiscoveryInit == disc = StartDiscovery(1) /\ reports = [file \in {} |-> <<>>]

-----------------------------------------------------------------------------
(* --- One workload's rungs ---------------------------------------------------- *)
(* A workload to sample: its place in its list, what is run, the file its  *)
(* report goes to, and whether it is a variant (which may also be run line *)
(* by line).  A file is named after its list and the place in it, in one   *)
(* of three formats no two places share (sample-report.txt, -seed-<place>, *)
(* -<place>), so the pair stands for the name.                             *)
Queued(at, seed, file, variant) ==
    [at |-> at, seed |-> seed, file |-> file, variant |-> variant]

FirstTry == [input |-> "amplified", again |-> FALSE]

Transcripts ==
    {[kind |-> "sample", blank |-> FALSE, stacks |-> p] : p \in Profiles}
      \cup {[kind |-> k, blank |-> k \in {"unavailable", "error"}, stacks |-> <<>>] :
                k \in {"unavailable", "early", "failed", "noframes", "idle", "error"}}
      \cup {[kind |-> "failed", blank |-> TRUE, stacks |-> <<>>]}

ProfileReadings == [p \in Profiles |-> SampleReading(p)]

EmptyHanded == {"noframes", "idle"}

TooEarly == {"early", "noframes", "idle"}

(* Every report that is not blank is kept, whatever it turns out to show.  *)
SaveReport(file, run, blank) ==
    IF blank THEN reports
    ELSE [f \in DOMAIN reports \cup {file} |-> IF f = file THEN run ELSE reports[f]]

(* The rung after a failure: the same input once more, an input eight      *)
(* times larger, a variant's input one copy per line; or none.             *)
NextRung(work, try, kind) ==
    IF kind \in EmptyHanded /\ ~try.again
    THEN <<[try EXCEPT !.again = TRUE]>>
    ELSE IF kind \in TooEarly /\ try.input = "amplified" /\ work.seed.repeatable
    THEN <<[input |-> "larger", again |-> FALSE]>>
    ELSE IF work.variant /\ work.seed.stdin /\ try.input # "lines"
    THEN <<[input |-> "lines", again |-> FALSE]>>
    ELSE <<>>

-----------------------------------------------------------------------------
(* --- The workloads ------------------------------------------------------------ *)
(* The first seed, and every stress seed should it fail.                   *)
FirstCandidates ==
    {Queued(i, DiscoverySeeds[i], <<"report", 0>>, FALSE) :
        i \in {j \in DOMAIN DiscoverySeeds : j = 1 \/ DiscoverySeeds[j].stress}}

(* Fault: the seed that was sampled first is sampled again.                *)
FaultAcceptanceQueue(sampled) ==
    {Queued(i, DiscoverySeeds[i], <<"seed", i>>, FALSE) :
        i \in {j \in DOMAIN DiscoverySeeds : j # 1 /\ DiscoverySeeds[j].eligible}}

(* Every other seed that can accept a candidate.                           *)
AcceptanceQueue(sampled) ==
    {Queued(i, DiscoverySeeds[i], <<"seed", i>>, FALSE) :
        i \in {j \in DOMAIN DiscoverySeeds :
                  j # 1 /\ DiscoverySeeds[j].id # sampled.id /\ DiscoverySeeds[j].eligible}}

VariantQueue(variants) ==
    {Queued(i, variants[i], <<"variant", i>>, TRUE) : i \in DOMAIN variants}

(* The workload that is sampled, the first of those still to sample.       *)
Work == CHOOSE w \in disc.pending : \A v \in disc.pending : w.at <= v.at

(* The stand-in for the first seed and its variants carry its weight.      *)
TierWeight(work) ==
    IF work.variant \/ disc.phase = "first" THEN Head(DiscoverySeeds).weight ELSE work.seed.weight

(* sampleTarget needs a binary to run.                                     *)
SampleTarget ==
    /\ disc.phase = "target"
    /\ disc' = [disc EXCEPT !.phase = "first", !.pending = FirstCandidates, !.try = <<FirstTry>>]
    /\ UNCHANGED reports

NoBinary ==
    /\ disc.phase = "target"
    /\ disc' = [disc EXCEPT !.phase = "fallback"]
    /\ UNCHANGED reports

TriesFor(pending) == IF pending = {} THEN <<>> ELSE <<FirstTry>>

(* What follows a workload, sampled or skipped.                            *)
Onward(d) ==
    LET rest == d.pending \ {Work}
    IN  [d EXCEPT !.pending = rest, !.try = TriesFor(rest)]

(* The workload's last try failed.  FirstLiving says so only when none of  *)
(* its candidates lived.                                                   *)
Missed ==
    IF disc.phase = "first" THEN Onward(disc)
    ELSE Onward([disc EXCEPT !.skipped = @ \cup {Work.file}])

(* The first sample decides which seeds follow it.                         *)
Sampled(sample) ==
    LET taken == [disc EXCEPT !.samples = Append(@, sample)]
        queue == AcceptanceQueue(Work.seed)
    IN  IF disc.phase = "first"
        THEN [taken EXCEPT !.phase = "seeds", !.pending = queue, !.try = TriesFor(queue)]
        ELSE Onward(taken)

SampleOf(run, stacks) ==
    [seed |-> Work.seed.id, run |-> run, file |-> Work.file, stacks |-> stacks,
     reading |-> ProfileReadings[stacks], weight |-> TierWeight(Work)]

(* profile.Sample, one run of the sampler: the report is saved, then       *)
(* classified.                                                             *)
SampleOnce ==
    /\ disc.try # <<>>
    /\ \E t \in Transcripts :
          LET run == <<disc.nth, Work.seed.id, Head(disc.try)>>
              rung == NextRung(Work, Head(disc.try), t.kind)
          IN  /\ reports' = SaveReport(Work.file, run, t.blank)
              /\ disc' = IF t.kind = "sample" THEN Sampled(SampleOf(run, t.stacks))
                         ELSE IF rung # <<>> THEN [disc EXCEPT !.try = rung]
                         ELSE Missed

(* No candidate for the first sample lived.                                *)
NothingSampled ==
    /\ disc.phase = "first" /\ disc.try = <<>>
    /\ disc' = [disc EXCEPT !.phase = "fallback"]
    /\ UNCHANGED reports

(* Options of the sampled seed that change what it prints.                 *)
Explore ==
    /\ disc.phase = "seeds" /\ disc.try = <<>>
    /\ \E variants \in VariantLists :
          disc' = [disc EXCEPT !.phase = "variants", !.pending = VariantQueue(variants),
                               !.try = TriesFor(VariantQueue(variants))]
    /\ UNCHANGED reports

-----------------------------------------------------------------------------
(* --- The evidence -------------------------------------------------------------- *)
(* The sample chose the list; the benchmarks' profile is kept for the PGO  *)
(* lane.                                                                   *)
SampleDecides ==
    /\ disc.phase = "variants" /\ disc.try = <<>>
    /\ LET hot == HotList(disc.samples)
       IN  \E pgo \in BOOLEAN :
              disc' = [disc EXCEPT !.phase = "allocations", !.source = "sample", !.pgo = pgo,
                         !.hot = hot, !.writes = UnbufferedWrites(disc.samples, hot)]
    /\ UNCHANGED reports

(* A profile that was written and could not be read still serves the lane. *)
FallBackToBenchmarks ==
    /\ disc.phase = "fallback"
    /\ \/ disc' = [disc EXCEPT !.phase = "allocations", !.source = "benchmarks", !.pgo = TRUE,
                               !.hot = BenchmarkHot]
       \/ \E pgo \in BOOLEAN : disc' = [disc EXCEPT !.phase = "over", !.pgo = pgo]
    /\ UNCHANGED reports

AllocationEvidence ==
    /\ disc.phase = "allocations"
    /\ \/ MemoryObjective
          /\ disc' = [disc EXCEPT !.phase = "over", !.hot = MergeAllocFirst(@, AllocationHot)]
       \/ disc' = [disc EXCEPT !.phase = "over"]
    /\ UNCHANGED reports

(* The one error is the context's: there is no evidence, and the step is   *)
(* not marked.                                                             *)
DiscoveryCancelled ==
    /\ disc.phase \notin {"over", "cancelled"}
    /\ disc' = [StartDiscovery(disc.nth) EXCEPT !.phase = "cancelled"]
    /\ UNCHANGED reports

Rediscover ==
    /\ disc.phase = "cancelled" /\ disc.nth < MaxDiscoveries
    /\ disc' = StartDiscovery(disc.nth + 1)
    /\ UNCHANGED reports

DiscoveryNext ==
    \/ SampleTarget \/ NoBinary \/ SampleOnce \/ NothingSampled \/ Explore
    \/ SampleDecides \/ FallBackToBenchmarks \/ AllocationEvidence
    \/ DiscoveryCancelled \/ Rediscover

DiscoverySpec == DiscoveryInit /\ [][DiscoveryNext]_discoveryVars

-----------------------------------------------------------------------------
(***************************************************************************)
(* Whatever failed on the way, and whatever an earlier discovery left      *)
(* behind, each sample the hot list was merged from has a report of its    *)
(* own, which is the one it was read from, and none is of a workload that  *)
(* was called skipped; two samples of one workload are of two options with *)
(* one name (sampleSeeds, FirstLiving, saveReport, BoolFlags).             *)
(***************************************************************************)
OfVariant(s) == s.file[1] = "variant"

EvidenceIsBacked ==
    /\ \A i \in DOMAIN disc.samples :
          LET s == disc.samples[i]
          IN  /\ s.file \in DOMAIN reports /\ reports[s.file] = s.run
              /\ s.file \notin disc.skipped
    /\ \A i, j \in DOMAIN disc.samples : i # j =>
          LET s == disc.samples[i]
              t == disc.samples[j]
          IN  s.file # t.file /\ (s.seed = t.seed => OfVariant(s) \/ OfVariant(t))

Conserved(stacks) ==
    LET seen == {k \in DOMAIN stacks : Innermost(stacks[k].frames) > 0}
        adopted == UNION {Orphaned(stacks, call) : call \in Calls(stacks)}
    IN  SumFunction([f \in Own |-> Credit(stacks, f)])
          = Denominator(stacks) * Weight(stacks, seen \cup adopted)

Rounded(stacks, kept) ==
    LET d == Denominator(stacks)
    IN  \A f \in Own :
            /\ 2 * Credit(stacks, f) - 2 * d * kept[f] \in -d .. d
            /\ \A g \in Own : kept[f] > kept[g] => Credit(stacks, f) > Credit(stacks, g)

(***************************************************************************)
(* Crediting loses no sample and invents none: what the target's functions *)
(* are credited with in the profiles discovery reads is what was seen      *)
(* under one of them and the orphaned calls some function was seen making  *)
(* (AttributeToOwn, shareOrphans).  What the ranking then reads is off by  *)
(* half a sample a function at most, and in the credits' order.            *)
(***************************************************************************)
CreditIsConserved ==
    disc.phase = "allocations" =>
        \A i \in DOMAIN disc.samples :
            LET s == disc.samples[i]
            IN  Conserved(s.stacks) /\ Rounded(s.stacks, s.reading.credit)

=============================================================================
