------------------------------- MODULE HotList -------------------------------
(***************************************************************************)
(* From sampled stacks to a hot list (internal/profile/stacks.go,          *)
(* writes.go; internal/discovery/hotlist.go, sampled.go, writes.go,        *)
(* bench.go, resolve.go): every sample is credited to the function of the  *)
(* target it was spent for, the workloads' shares are merged by the weight *)
(* of their tier, and the names are resolved to source locations.          *)
(*                                                                         *)
(* A frame is a member of Symbols; a stack is [frames, weight], leaf       *)
(* first.  A sample is [reading, weight], its reading what                 *)
(* SampleReading takes from its stacks.                                    *)
(***************************************************************************)
EXTENDS Integers, Sequences, SequencesExt, FiniteSetsExt

CONSTANTS
    Symbols,       \* every frame, in the order their names sort in
    Own,           \* the frames of the target's own packages
    GoSyscall,     \* Go's system-call wrappers, each with the libc name of its call
    Libc,          \* the frames without a package
    SwitchFrames,  \* where a Go system call leaves the goroutine's stack
    Bufio,         \* the frames of package bufio
    Actionable,    \* the frames a patch may address
    LocationOf,    \* the declaration a symbol resolves to
    HotBudget,     \* hotFunctionBudget
    MaxCallers     \* maxWriteCallers

ASSUME HotListAssumption ==
    /\ Own \cup DOMAIN GoSyscall \cup Libc \cup SwitchFrames \cup Bufio \cup Actionable
         \subseteq Range(Symbols)
    /\ IsFiniteSet(Range(Symbols))
    /\ HotBudget \in Nat /\ MaxCallers \in Nat

Product(factors) == FoldFunction(LAMBDA a, b : a * b, 1, factors)

Weight(stacks, at) == SumFunction([k \in at |-> stacks[k].weight])

(* The position of the innermost frame of the target's own, or 0.          *)
Innermost(frames) == SelectInSeq(frames, LAMBDA f : f \in Own)

(* The system call whose wrapper is nearest below position i.              *)
SyscallBelow(frames, i) ==
    LET wrapper == SelectLastInSubSeq(frames, 1, i - 1, LAMBDA f : f \in DOMAIN GoSyscall)
    IN  IF wrapper = 0 THEN "none" ELSE GoSyscall[frames[wrapper]]

(* A libc call with no own frame above it: the sampler could not unwind    *)
(* across the switch of stacks.                                            *)
OrphanSyscall(frames) ==
    IF /\ frames # <<>> /\ Head(frames) \in Libc
       /\ \E i \in 2 .. Len(frames) : frames[i] \in SwitchFrames
    THEN Head(frames) ELSE "none"

Credited(stacks, f) ==
    {k \in DOMAIN stacks :
        LET i == Innermost(stacks[k].frames) IN i > 0 /\ stacks[k].frames[i] = f}

Orphaned(stacks, call) ==
    {k \in DOMAIN stacks :
        Innermost(stacks[k].frames) = 0 /\ OrphanSyscall(stacks[k].frames) = call}

(* The samples that show f making the call.                                *)
Calling(stacks, f, call) ==
    {k \in Credited(stacks, f) :
        SyscallBelow(stacks[k].frames, Innermost(stacks[k].frames)) = call}

SeenCalling(stacks, call) ==
    SumFunction([f \in Own |-> Weight(stacks, Calling(stacks, f, call))])

Calls(stacks) == {call \in Libc : SeenCalling(stacks, call) > 0}

(* Fractions of samples have one denominator, the product of the calls     *)
(* seen.                                                                   *)
Denominator(stacks) == Product([call \in Calls(stacks) |-> SeenCalling(stacks, call)])

(* Fault: every function seen calling gets the whole of the orphans.       *)
FaultShareOrphans(stacks, f) ==
    SumFunction([call \in Calls(stacks) |->
        IF Calling(stacks, f, call) = {} THEN 0
        ELSE Weight(stacks, Orphaned(stacks, call)) * Denominator(stacks)])

(* Each orphaned call is divided among the functions seen making it, in    *)
(* proportion; a call nobody was seen making stays with nobody.            *)
ShareOrphans(stacks, f) ==
    SumFunction([call \in Calls(stacks) |->
        Weight(stacks, Orphaned(stacks, call))
          * Weight(stacks, Calling(stacks, f, call))
          * (Denominator(stacks) \div SeenCalling(stacks, call))])

(* The samples credited to f, in parts of the denominator.                 *)
Credit(stacks, f) ==
    Weight(stacks, Credited(stacks, f)) * Denominator(stacks) + ShareOrphans(stacks, f)

(* AttributeToOwn rounds a credit to whole samples.                        *)
AttributeToOwn(stacks) ==
    LET d == Denominator(stacks)
    IN  [f \in Own |-> (2 * Credit(stacks, f) + d) \div (2 * d)]

-----------------------------------------------------------------------------
(* --- Ranking -------------------------------------------------------------- *)
(* Heaviest first and then by name.                                        *)
Ranked(weight) ==
    LET order(f) == SelectInSeq(Symbols, LAMBDA s : s = f)
    IN  SetToSortSeq(DOMAIN weight,
                     LAMBDA f, g : \/ weight[f] > weight[g]
                                   \/ weight[f] = weight[g] /\ order(f) < order(g))

(* What the sampler lists: the frames on top of a stack.                   *)
TopOfStack(stacks) ==
    LET leaf(k) == Head(stacks[k].frames)
    IN  Ranked([f \in {leaf(k) : k \in DOMAIN stacks} |->
                   Weight(stacks, {k \in DOMAIN stacks : leaf(k) = f})])

AtMost(n, list) == SubSeq(list, 1, IF Len(list) < n THEN Len(list) ELSE n)

Appended(list, more, limit) ==
    FoldLeft(LAMBDA names, f : IF Len(names) < limit /\ f \notin Range(names)
                               THEN Append(names, f) ELSE names, list, more)

-----------------------------------------------------------------------------
(* --- Unbuffered writes ------------------------------------------------------- *)
Writing(stacks, f) == Calling(stacks, f, "write")

Unbuffered(stacks, f) ==
    {k \in Writing(stacks, f) :
        \A j \in 1 .. Innermost(stacks[k].frames) : stacks[k].frames[j] \notin Bufio}

(* A function's samples and its unbuffered writes, orphaned writes shared  *)
(* as they were seen, in parts of the writes seen.                         *)
WriteTally(stacks, f) ==
    LET seen == SeenCalling(stacks, "write")
        lost == IF seen = 0 THEN 0 ELSE Weight(stacks, Orphaned(stacks, "write"))
        parts == IF seen = 0 THEN 1 ELSE seen
    IN  [total      |-> parts * Weight(stacks, Credited(stacks, f))
                          + lost * Weight(stacks, Writing(stacks, f)),
         unbuffered |-> (parts + lost) * Weight(stacks, Unbuffered(stacks, f))]

(* At least unbufferedWriteShare, one half.                                *)
MostlyWrites(stacks, f) ==
    LET t == WriteTally(stacks, f) IN t.total > 0 /\ 2 * t.unbuffered >= t.total

(* The own frames above f on those paths, most samples first.              *)
WriteCallers(stacks, f) ==
    LET caller(k) == LET frames == stacks[k].frames
                         above == SubSeq(frames, Innermost(frames) + 1, Len(frames))
                     IN  IF Innermost(above) = 0 THEN "none" ELSE above[Innermost(above)]
    IN  Ranked([g \in {caller(k) : k \in Unbuffered(stacks, f)} \ {"none"} |->
                   Weight(stacks, {k \in Unbuffered(stacks, f) : caller(k) = g})])

WriteSites(stacks) ==
    LET site(f) == [tally |-> WriteTally(stacks, f), callers |-> WriteCallers(stacks, f)]
    IN  [f \in {g \in Own : MostlyWrites(stacks, g)} |-> site(f)]

SampleReading(stacks) ==
    [credit |-> AttributeToOwn(stacks), top |-> TopOfStack(stacks), sites |-> WriteSites(stacks)]

-----------------------------------------------------------------------------
(* --- The merged list ------------------------------------------------------- *)
Attributed(sample) == SumFunction(sample.reading.credit)

Telling(samples) == {i \in DOMAIN samples : Attributed(samples[i]) > 0}

(* A sample counts as a fraction of its own total, times its tier's weight *)
(* unless no sample carries one.                                           *)
Share(samples, i, f) ==
    LET weightless == \A j \in DOMAIN samples : samples[j].weight = 0
        others == {j \in Telling(samples) : j # i}
    IN  (IF weightless THEN 1 ELSE samples[i].weight)
          * samples[i].reading.credit[f]
          * Product([j \in others |-> Attributed(samples[j])])

Merged(samples, f) == SumFunction([i \in Telling(samples) |-> Share(samples, i, f)])

HotFunctionNames(ranked, limit) == AtMost(limit, SelectSeq(ranked, LAMBDA f : f \in Actionable))

SampledHotNames(samples) ==
    LET limit == 2 * HotBudget
        named == {f \in Own : \E i \in DOMAIN samples : samples[i].reading.credit[f] > 0}
        credited == HotFunctionNames(Ranked([f \in named |-> Merged(samples, f)]), limit)
    IN  FoldLeft(LAMBDA names, sample :
                    Appended(names, HotFunctionNames(sample.reading.top, limit), limit),
                 credited, samples)

(* Symbols of one declaration take one place.                              *)
Resolved(names) == Appended(<<>>, [i \in DOMAIN names |-> LocationOf[names[i]]], HotBudget)

HotList(samples) == Resolved(SampledHotNames(samples))

MergeAllocFirst(cpu, alloc) == Appended(<<>>, alloc \o cpu, HotBudget)

(* A function's site with the largest share of its time over the samples,  *)
(* the first of equals.                                                    *)
LargestShare(samples, f) ==
    LET found == {i \in DOMAIN samples : f \in DOMAIN samples[i].reading.sites}
        tally(i) == samples[i].reading.sites[f].tally
        share(i, j) == tally(i).unbuffered * tally(j).total
    IN  CHOOSE i \in found :
            \A j \in found : share(i, j) > share(j, i) \/ (share(i, j) = share(j, i) /\ i <= j)

(* The sites whose location is on the hot list, with their callers'.       *)
UnbufferedWrites(samples, hot) ==
    LET sites == UNION {DOMAIN samples[i].reading.sites : i \in DOMAIN samples}
        callers(f) ==
            LET named == SelectSeq(samples[LargestShare(samples, f)].reading.sites[f].callers,
                                   LAMBDA g : LocationOf[g] \notin {g, LocationOf[f]})
            IN  Appended(<<>>, [i \in DOMAIN named |-> LocationOf[named[i]]], MaxCallers)
    IN  {[location |-> LocationOf[f], callers |-> callers(f)] :
            f \in {g \in sites : LocationOf[g] \in Range(hot)}}

=============================================================================
