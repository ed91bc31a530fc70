---------------------------- MODULE PairedSeries ----------------------------
(***************************************************************************)
(* One workload measured run by run (internal/runner/runner.go             *)
(* RunInterleaved) and what its pairs are read as                          *)
(* (internal/campaign/paired.go, shift.go, candidate_eval.go): the order   *)
(* of a pair, the output of its two runs, the signed-rank test on the      *)
(* differences and the support the policy is shown.                        *)
(*                                                                         *)
(* The world: the second run of a pair pays for its position, the machine  *)
(* may be slow for one stretch, one run may print its lines in another     *)
(* order, one repetition of the candidate may print other lines.           *)
(***************************************************************************)
EXTENDS Integers, Sequences, SequencesExt, FiniteSetsExt

CONSTANTS
    Pairs,            \* repetitions of one series
    MaxSeries,        \* series of one workload: the first and a confirmation
    PositionEffects,  \* what the second run of each pair pays
    Effects,          \* how much slower the candidate is
    RunCost,          \* what a run costs
    SlowCost,         \* what it costs more in the slow stretch
    Limit             \* the regression ceiling, in percent

ASSUME SeriesAssumption ==
    /\ Pairs \in Nat \ {0} /\ MaxSeries \in Nat \ {0}
    /\ \A p \in PositionEffects : p \in [1 .. Pairs -> Nat]
    /\ Effects \subseteq Int /\ {RunCost, SlowCost, Limit} \subseteq Nat

VARIABLES
    world,   \* what the binaries and the machine do
    series   \* the runs, and what they were read as

pairVars == <<world, series>>

Sides == {"baseline", "candidate"}

Runs == 1 .. 2 * Pairs * MaxSeries

(* A run that prints another order or other lines, by its place in the     *)
(* sequence of runs; 0 for none.                                           *)
Unordered == [order : Runs, lines : {0}]
Changed == [order : {0}, lines : Runs]
Repeatable == [order |-> 0, lines |-> 0]

SeriesInit ==
    /\ \E position \in PositionEffects, effect \in Effects, odd \in {Repeatable} \cup Unordered \cup Changed :
          /\ odd # Repeatable => effect = 0
          /\ world = [position |-> position, effect |-> effect, odd |-> odd, speed |-> "normal",
                      split |-> FALSE]
    /\ series = [stage |-> "running", nth |-> 1, deterministic |-> TRUE,
                 baseline |-> <<>>, candidate |-> <<>>, kept |-> 0, reading |-> <<>>]

-----------------------------------------------------------------------------
(* --- One series ------------------------------------------------------------- *)
RunsDone == Len(series.baseline) + Len(series.candidate)

(* Fault: the baseline always runs first.                                  *)
FaultFirst(repetition) == "baseline"

(* Even repetitions run the baseline first, odd ones the candidate.        *)
First(repetition) == IF repetition % 2 = 0 THEN "baseline" ELSE "candidate"

Other(side) == IF side = "baseline" THEN "candidate" ELSE "baseline"

Repetition == (RunsDone \div 2) % Pairs

Second == RunsDone % 2 = 1

Turn == IF Second THEN Other(First(Repetition)) ELSE First(Repetition)

Printed(side, nth) ==
    [lines |-> IF side = "candidate" /\ world.odd.lines = nth THEN "other" ELSE "same",
     order |-> IF world.odd.order = nth THEN "other" ELSE "same"]

Cost(side) ==
    RunCost + (IF Second THEN world.position[Repetition + 1] ELSE 0)
            + (IF side = "candidate" THEN world.effect ELSE 0)
            + (IF world.speed = "slow" THEN SlowCost ELSE 0)

(* runInto appends the run to its side.                                    *)
RunNext ==
    /\ series.stage = "running" /\ RunsDone < 2 * Pairs * series.nth
    /\ series' = [series EXCEPT ![Turn] =
                     Append(@, [time |-> Cost(Turn), out |-> Printed(Turn, RunsDone + 1)])]
    /\ UNCHANGED world

(* A run that did not end as its workload expects.                         *)
RunFails ==
    /\ series.stage = "running" /\ RunsDone < 2 * Pairs * series.nth
    /\ series' = [series EXCEPT !.stage = "failed"]
    /\ UNCHANGED world

(* A stretch that begins or ends inside a pair splits it.  (One            *)
(* disturbance at a time: the machine is steady when an output is odd.)    *)
MachineTurns ==
    /\ series.stage = "running" /\ world.odd = Repeatable
    /\ world' = [world EXCEPT !.speed = IF @ = "normal" THEN "slow" ELSE "over",
                              !.split = @ \/ Second]
    /\ world.speed # "over"
    /\ UNCHANGED series

(* The two probes of the baseline before the first series disagreed.       *)
ProbesDisagree ==
    /\ RunsDone = 0 /\ world.odd.order # 0 /\ series.deterministic
    /\ series' = [series EXCEPT !.deterministic = FALSE]
    /\ UNCHANGED world

-----------------------------------------------------------------------------
(* --- The behaviour of the series --------------------------------------------- *)
Of(side) == SubSeq(series[side], series.kept + 1, series.kept + Pairs)

SameStdout(runs) == \A i \in DOMAIN runs : runs[i].out = runs[1].out

(* Byte for byte while the baseline agrees with itself, else by its lines. *)
BehaviorMatches ==
    LET exact == series.deterministic /\ SameStdout(Of("baseline"))
    IN  \A i \in 1 .. Pairs :
          LET a == Of("baseline")[i].out
              b == Of("candidate")[i].out
          IN  a.lines = b.lines /\ (exact => a.order = b.order)

-----------------------------------------------------------------------------
(* --- The signed-rank test ------------------------------------------------------ *)
SumOf(s) == FoldLeft(LAMBDA a, b : a + b, 0, s)

Times(side) == [i \in DOMAIN series[side] |-> series[side][i].time]

Magnitude(d) == IF d < 0 THEN -d ELSE d

Differences(base, cand) == [i \in DOMAIN base |-> cand[i] - base[i]]

(* Twice the rank of each value, ties sharing the mean of theirs.          *)
DoubleRanks(diffs) ==
    [i \in DOMAIN diffs |->
        LET below == {j \in DOMAIN diffs : Magnitude(diffs[j]) < Magnitude(diffs[i])}
            equal == {j \in DOMAIN diffs : Magnitude(diffs[j]) = Magnitude(diffs[i])}
        IN  2 * Cardinality(below) + Cardinality(equal) + 1]

(* The sign assignments of ranks 1..n whose positive ones sum to s.        *)
Ways[n \in Nat, s \in Int] ==
    IF s < 0 THEN 0
    ELSE IF n = 0 THEN IF s = 0 THEN 1 ELSE 0
    ELSE Ways[n - 1, s] + Ways[n - 1, s - n]

RankSumWays ==
    [n \in 0 .. Pairs * MaxSeries |-> [s \in 0 .. (n * (n + 1)) \div 2 |-> Ways[n, s]]]

(* p < 0.05: twice the smaller tail over all 2^n assignments.              *)
ExactBelowAlpha(n, positive) ==
    LET tail(sums) == MapThenSumSet(LAMBDA s : RankSumWays[n][s], sums)
        lower == tail(0 .. positive)
        upper == tail(positive .. (n * (n + 1)) \div 2)
    IN  40 * (IF lower < upper THEN lower ELSE upper) < 2 ^ n

(* The normal approximation with its continuity and tie corrections, as    *)
(* z > 1.96: both sides of the squared inequality times 48.                *)
ApproxBelowAlpha(n, doublePositive, doubleRanks) ==
    LET size(r) == Cardinality({i \in DOMAIN doubleRanks : doubleRanks[i] = r})
        correction == MapThenSumSet(LAMBDA r : size(r) * size(r) * size(r) - size(r), Range(doubleRanks))
        variance48 == 2 * n * (n + 1) * (2 * n + 1) - correction
        far == Magnitude(2 * doublePositive - n * (n + 1)) - 2
    IN  /\ variance48 > 0 /\ far > 0
        /\ 3 * far * far * 10000 > 38416 * variance48

SignedRankBelowAlpha(diffs) ==
    LET telling == SelectSeq(diffs, LAMBDA d : d # 0)
        ranks == DoubleRanks(telling)
        positive == MapThenSumSet(LAMBDA i : ranks[i], {i \in DOMAIN telling : telling[i] > 0})
        n == Len(telling)
    IN  /\ n > 0
        /\ IF Cardinality(Range(ranks)) = n
           THEN ExactBelowAlpha(n, positive \div 2)
           ELSE ApproxBelowAlpha(n, positive, ranks)

(* Fewer than four pairs never count.                                      *)
PairedSignificant(base, cand) ==
    Len(base) >= 4 /\ SignedRankBelowAlpha(Differences(base, cand))

(* Significant, or no improvement and a confidence interval that lies      *)
(* below the limit.                                                        *)
PairedSupport(base, cand) ==
    LET diffs == Differences(base, cand)
        n == Len(diffs)
        total == SumOf(diffs)
        spread == n * SumOf([i \in DOMAIN diffs |-> diffs[i] * diffs[i]]) - total * total
        room == Limit * SumOf(base) - 100 * total
    IN  /\ n >= 4
        /\ \/ PairedSignificant(base, cand)
           \/ spread = 0 /\ total = 0
           \/ /\ spread > 0 /\ total >= 0 /\ room > 0
              /\ 48400 * spread < room * room * (n - 1)

(* Twice the median of every candidate-minus-baseline difference.          *)
DoubleShift(base, cand) ==
    LET n == Len(base) * Len(cand)
        all == [k \in 1 .. n |-> cand[((k - 1) \div Len(base)) + 1] - base[((k - 1) % Len(base)) + 1]]
        sorted == SortSeq(all, LAMBDA a, b : a < b)
    IN  IF n % 2 = 1 THEN 2 * sorted[n \div 2 + 1] ELSE sorted[n \div 2] + sorted[n \div 2 + 1]

-----------------------------------------------------------------------------
(* A series that matches is pooled with the earlier one and judged.        *)
JudgeSeries ==
    /\ series.stage = "running" /\ RunsDone = 2 * Pairs * series.nth
    /\ IF BehaviorMatches
       THEN LET base == Times("baseline")
                cand == Times("candidate")
            IN  series' = [series EXCEPT
                    !.stage = "judged", !.kept = Len(base),
                    !.reading = <<[significant |-> PairedSignificant(base, cand),
                                   fit         |-> PairedSupport(base, cand),
                                   shift       |-> DoubleShift(base, cand)]>>]
       ELSE series' = [series EXCEPT !.stage = "mismatch"]
    /\ UNCHANGED world

(* A confirmation extends what was measured.                               *)
ExtendSeries ==
    /\ series.stage = "judged" /\ series.nth < MaxSeries
    /\ series' = [series EXCEPT !.stage = "running", !.nth = @ + 1, !.reading = <<>>]
    /\ UNCHANGED world

SeriesNext ==
    \/ RunNext \/ RunFails \/ MachineTurns \/ ProbesDisagree \/ JudgeSeries \/ ExtendSeries

SeriesSpec == SeriesInit /\ [][SeriesNext]_pairVars

-----------------------------------------------------------------------------
(***************************************************************************)
(* A reading is about the binaries, not about the machine.  Two equal      *)
(* binaries never read significant, wherever the slow stretch falls and    *)
(* whatever the second position costs; a candidate slower or faster by     *)
(* more than its position reads significant unless a stretch split a pair; *)
(* an unmoved shift is within the position's cost (RunInterleaved,         *)
(* pairedSignificant).                                                     *)
(***************************************************************************)
PositionCost == Max(Range(world.position))

DifferenceIsTheBinaries ==
    series.stage = "judged" =>
        LET r == series.reading[1] IN
        /\ world.effect = 0 => ~r.significant
        /\ Magnitude(world.effect) > PositionCost /\ ~world.split => r.significant /\ r.fit
        /\ world.speed = "normal" => Magnitude(r.shift - 2 * world.effect) <= 2 * PositionCost

(***************************************************************************)
(* A candidate that printed other lines in any repetition is never judged; *)
(* one that printed the baseline's lines is only refused for their order   *)
(* when no run of the baseline's series printed another (sameStdout).      *)
(***************************************************************************)
BehaviorIsTheBinaries ==
    /\ series.stage = "judged" =>
          \A i \in DOMAIN series.candidate : series.candidate[i].out.lines = "same"
    /\ series.stage = "mismatch" =>
          \/ \E i \in DOMAIN series.candidate : series.candidate[i].out.lines = "other"
          \/ /\ series.deterministic
             /\ \A i, j \in DOMAIN Of("baseline") : Of("baseline")[i].out = Of("baseline")[j].out

SeriesReadsTheBinaries == DifferenceIsTheBinaries /\ BehaviorIsTheBinaries

=============================================================================
