--------------------------- MODULE ServicesProofs ---------------------------
(***************************************************************************)
(* What TLAPS proves of the services a campaign rests on: a command under  *)
(* OSExecutor, a discovery and the profiles it reads, the targets a cycle  *)
(* attacks, the two interleaved runs of one workload, the preflight of a   *)
(* campaign and the questions asked of Jev. They share no variable; each   *)
(* has its inductive invariant and its theorems.                           *)
(***************************************************************************)
EXTENDS Executor, JevQuestions, JevPreflight, Discovery, CauseTargets,
        PairedSeries, FiniteSetTheorems, SequenceTheorems, WellFoundedInduction,
        TLAPS

(***************************************************************************)
(* A command (Executor)                                                    *)
(***************************************************************************)

Commands ==
    [ at : {"start", "waiting", "terminating", "killing", "reporting", "returned"},
      cancelled : BOOLEAN, done : BOOLEAN, over : BOOLEAN,
      signal : {"none", "term", "kill"}, code : {-1, 0, 1},
      error : {"none", "start", "limit", "cancelled", "exit"} ]

Groups ==
    [ leader : {"none", "alive", "dead"}, helper : {"none", "alive", "dead"},
      holds : BOOLEAN, ignores : BOOLEAN ]

ExecutorTypeOK == cmd \in Commands /\ group \in Groups

(* What Wait returned stays over: nobody is left who could write, so the   *)
(* exit code and the output are settled.                                   *)
ReapedIsOver == cmd.done => group.leader = "dead" /\ ~group.holds

(* Nothing runs, and nothing was waited for, before the start.             *)
NothingBeforeTheStart ==
    cmd.at = "start" => group.leader = "none" /\ ~group.holds /\ ~cmd.done

(* Run passes on only a command that was waited for.                       *)
ReportsTheReaped ==
    /\ cmd.at = "reporting" => cmd.done
    /\ cmd.at = "returned" /\ cmd.error # "start" => cmd.done

(* Only cancellation sends a signal, and none is sent before.              *)
SignalsTheCancelled ==
    /\ cmd.signal # "none" \/ cmd.at \in {"terminating", "killing"} => cmd.cancelled
    /\ cmd.at \in {"start", "waiting"} => cmd.signal = "none"

(* finishCanceled leaves no clean exit behind a signal.                    *)
SignalledIsNoSuccess ==
    cmd.signal # "none" /\ cmd.at = "reporting" => cmd.code # 0

(* The error of a returned command was derived from what it still says.    *)
ErrorIsDerived ==
    cmd.at = "returned" /\ cmd.error # "start" =>
        /\ cmd.error = "none" => cmd.code = 0 /\ ~cmd.over /\ cmd.signal = "none"
        /\ cmd.signal # "none" => cmd.error \in {"cancelled", "limit"}

ExecutorInv ==
    /\ ReapedIsOver /\ NothingBeforeTheStart /\ ReportsTheReaped /\ SignalsTheCancelled
    /\ SignalledIsNoSuccess /\ ErrorIsDerived

LEMMA ExecutorTypeCorrect == ExecutorSpec => []ExecutorTypeOK
<1> USE DEF ExecutorTypeOK, Commands, Groups
<1>1. ExecutorInit => ExecutorTypeOK
  BY DEF ExecutorInit
<1>2. ExecutorTypeOK /\ [ExecutorNext]_executorVars => ExecutorTypeOK'
  <2> SUFFICES ASSUME ExecutorTypeOK, [ExecutorNext]_executorVars
               PROVE  ExecutorTypeOK'
    OBVIOUS
  <2>1. CASE StartCommand
    BY <2>1 DEF StartCommand
  <2>2. CASE StartFails
    BY <2>2 DEF StartFails
  <2>3. CASE Cancel
    BY <2>3 DEF Cancel
  <2>4. CASE LeaderExits
    BY <2>4 DEF LeaderExits
  <2>5. CASE HelperExits \/ HelperClosesPipes
    BY <2>5 DEF HelperExits, HelperClosesPipes
  <2>6. CASE OutputExceeds
    BY <2>6 DEF OutputExceeds
  <2>7. CASE SignalArrives
    BY <2>7 DEF SignalArrives
  <2>8. CASE WaitReturns
    BY <2>8 DEF WaitReturns
  <2>9. CASE Finished \/ TerminateGroup \/ KillGroup \/ FinishCanceled
    BY <2>9 DEF Finished, TerminateGroup, KillGroup, FinishCanceled
  <2>10. CASE ReturnResult
    BY <2>10 DEF ReturnResult, CommandError
  <2>11. CASE UNCHANGED executorVars
    BY <2>11 DEF executorVars
  <2> QED
    BY <2>1, <2>2, <2>3, <2>4, <2>5, <2>6, <2>7, <2>8, <2>9, <2>10, <2>11
       DEF ExecutorNext
<1> QED
  BY <1>1, <1>2, PTL DEF ExecutorSpec

LEMMA ExecutorInvariant == ExecutorSpec => [](ExecutorTypeOK /\ ExecutorInv)
<1> USE DEF ExecutorInv, ReapedIsOver, NothingBeforeTheStart, ReportsTheReaped,
            SignalsTheCancelled, SignalledIsNoSuccess, ErrorIsDerived
<1>1. ExecutorInit => ExecutorInv
  BY DEF ExecutorInit
<1>2. ExecutorTypeOK /\ ExecutorInv /\ [ExecutorNext]_executorVars => ExecutorInv'
  <2> SUFFICES ASSUME ExecutorTypeOK, ExecutorInv, [ExecutorNext]_executorVars
               PROVE  ExecutorInv'
    OBVIOUS
  <2> USE DEF ExecutorTypeOK, Commands, Groups
  <2>1. CASE StartCommand
    BY <2>1 DEF StartCommand
  <2>2. CASE StartFails
    BY <2>2 DEF StartFails
  <2>3. CASE Cancel
    BY <2>3 DEF Cancel
  <2>4. CASE LeaderExits
    BY <2>4 DEF LeaderExits
  <2>5. CASE HelperExits \/ HelperClosesPipes
    BY <2>5 DEF HelperExits, HelperClosesPipes
  <2>6. CASE OutputExceeds
    BY <2>6 DEF OutputExceeds
  <2>7. CASE SignalArrives
    BY <2>7 DEF SignalArrives
  <2>8. CASE WaitReturns
    BY <2>8 DEF WaitReturns
  <2>9. CASE Finished \/ TerminateGroup
    BY <2>9 DEF Finished, TerminateGroup
  <2>10. CASE KillGroup
    BY <2>10 DEF KillGroup
  <2>11. CASE FinishCanceled
    BY <2>11 DEF FinishCanceled
  <2>12. CASE ReturnResult
    <3>1. cmd'.at = "returned" /\ cmd'.error = CommandError /\ group' = group
      BY <2>12 DEF ReturnResult
    <3>2. /\ cmd'.cancelled = cmd.cancelled /\ cmd'.done = cmd.done
          /\ cmd'.over = cmd.over /\ cmd'.signal = cmd.signal /\ cmd'.code = cmd.code
      BY <2>12 DEF ReturnResult
    <3>3. /\ CommandError = "none" => cmd.code = 0 /\ ~cmd.over /\ ~cmd.cancelled
          /\ cmd.cancelled => CommandError \in {"cancelled", "limit"}
      BY DEF CommandError
    <3>4. cmd.at = "reporting" /\ cmd.done
      BY <2>12 DEF ReturnResult
    <3>5. ErrorIsDerived'
      BY <3>1, <3>2, <3>3, <3>4
    <3> QED
      BY <3>1, <3>2, <3>4, <3>5
  <2>13. CASE UNCHANGED executorVars
    BY <2>13 DEF executorVars
  <2> QED
    BY <2>1, <2>2, <2>3, <2>4, <2>5, <2>6, <2>7, <2>8, <2>9, <2>10, <2>11, <2>12, <2>13
       DEF ExecutorNext
<1> QED
  BY <1>1, <1>2, ExecutorTypeCorrect, PTL DEF ExecutorSpec

(***************************************************************************)
(* However a command's own end, its helper and its cancellation race, Run  *)
(* returns a command that is reaped and that nobody can write for, and a   *)
(* result without an error is of a command that ended by itself with       *)
(* status 0 (waitOrCancel, finishCanceled, commandError).                  *)
(***************************************************************************)
THEOREM ReturnedIsOver == ExecutorSpec => []ReturnedRunIsOver
<1>1. ExecutorInv => ReturnedRunIsOver
  BY DEF ExecutorInv, ReapedIsOver, ReportsTheReaped, ErrorIsDerived, ReturnedRunIsOver
<1> QED
  BY <1>1, ExecutorInvariant, PTL

(***************************************************************************)
(* A discovery (Discovery)                                                 *)
(***************************************************************************)

(* The fields of a discovery.                                              *)
DiscoveryFields == {"nth", "phase", "pending", "try", "samples", "skipped", "source", "hot",
                    "writes", "pgo"}

IsList(s) == s \in Seq({s[i] : i \in DOMAIN s})

ReportFiles == {"report", "seed", "variant"} \X Nat

Works == [at : Nat, seed : Workloads, file : ReportFiles, variant : BOOLEAN]

SamplingPhases == {"first", "seeds", "variants"}

(* The report of a workload is of its phase, and names its place.          *)
PlacedFor(phase, w) ==
    /\ phase = "first" => w.file = <<"report", 0>>
    /\ phase = "seeds" =>
          w.file = <<"seed", w.at>> /\ w.at \in DOMAIN DiscoverySeeds /\ w.seed = DiscoverySeeds[w.at]
    /\ phase = "variants" => w.file = <<"variant", w.at>>

(* A workload still to sample is new: to the samples, to the log and to    *)
(* the others.                                                             *)
IsNew(d, w) ==
    /\ w.file \notin d.skipped
    /\ \A i \in DOMAIN d.samples :
          d.samples[i].file # w.file /\ (d.phase = "seeds" => d.samples[i].seed # w.seed.id)

PendingIsNew(d) ==
    d.phase \in SamplingPhases =>
        /\ d.pending \subseteq Works
        /\ \A w \in d.pending : PlacedFor(d.phase, w) /\ IsNew(d, w)
        /\ \A v, w \in d.pending : v.at = w.at => v = w

(* Only the variants' own phase samples or skips one.                      *)
NoVariantYet(d) ==
    d.phase = "seeds" =>
        /\ \A i \in DOMAIN d.samples : ~OfVariant(d.samples[i])
        /\ \A file \in d.skipped : file[1] # "variant"

NothingYet(d) == d.phase \in {"target", "first"} => d.samples = <<>> /\ d.skipped = {}

TriesAWorkload(d) == d.try # <<>> => d.phase \in SamplingPhases /\ d.pending # {}

Backed(d, r) ==
    \A i \in DOMAIN d.samples :
        /\ d.samples[i].file \in DOMAIN r /\ r[d.samples[i].file] = d.samples[i].run
        /\ d.samples[i].file \notin d.skipped

Apart(d) ==
    \A i, j \in DOMAIN d.samples : i # j =>
        /\ d.samples[i].file # d.samples[j].file
        /\ d.samples[i].seed = d.samples[j].seed =>
              OfVariant(d.samples[i]) \/ OfVariant(d.samples[j])

EvidenceOf(d, r) ==
    /\ DOMAIN d = DiscoveryFields /\ IsList(d.samples)
    /\ TriesAWorkload(d) /\ NothingYet(d) /\ NoVariantYet(d) /\ PendingIsNew(d)
    /\ Backed(d, r) /\ Apart(d)

EvidenceInv == EvidenceOf(disc, reports)

LEMMA LeastPlace ==
    ASSUME NEW S \in SUBSET Nat, S # {}
    PROVE  \E i \in S : \A j \in S : i <= j
<1> DEFINE Less == OpToRel(<, Nat)
<1>1. PICK i \in S : \A j \in S : ~(<<j, i>> \in Less)
  BY NatLessThanWellFounded, WFMin
<1>2. \A j \in S : i <= j
  <2> TAKE j \in S
  <2>1. i \in Nat /\ j \in Nat /\ ~(j < i)
    BY <1>1 DEF OpToRel
  <2> QED
    BY <2>1
<1> QED
  BY <1>2

LEMMA AppendToList ==
    ASSUME NEW s, IsList(s), NEW e
    PROVE  /\ IsList(Append(s, e)) /\ Len(s) + 1 \notin DOMAIN s
           /\ DOMAIN Append(s, e) = DOMAIN s \cup {Len(s) + 1}
           /\ \A i \in DOMAIN s : Append(s, e)[i] = s[i]
           /\ Append(s, e)[Len(s) + 1] = e
<1> DEFINE S == {s[i] : i \in DOMAIN s}
           T == S \cup {e}
           t == Append(s, e)
<1>1. s \in Seq(T)
  <2>1. s \in Seq(S)
    BY DEF IsList
  <2> HIDE DEF S
  <2> QED
    BY <2>1
<1>2. /\ Len(s) \in Nat /\ DOMAIN s = 1 .. Len(s)
      /\ t \in Seq(T) /\ Len(t) = Len(s) + 1
      /\ \A i \in 1 .. Len(s) : t[i] = s[i]
      /\ t[Len(s) + 1] = e
  <2> HIDE DEF T
  <2>1. e \in T
    BY DEF T
  <2> QED
    BY <1>1, <2>1
<1>3. DOMAIN t = 1 .. Len(t)
  <2> HIDE DEF T, t
  <2> QED
    BY <1>2
<1>4. IsList(t)
  <2> HIDE DEF T, t
  <2> DEFINE range == {t[k] : k \in DOMAIN t}
  <2>1. \A i \in DOMAIN t : t[i] \in range
    OBVIOUS
  <2> HIDE DEF range
  <2>2. t \in [1 .. Len(t) -> range]
    BY <1>2, <1>3, <2>1
  <2>3. t \in Seq(range)
    BY <1>2, <2>2
  <2> QED
    BY <2>3 DEF IsList, range
<1> QED
  <2> HIDE DEF t
  <2>1. DOMAIN t = DOMAIN s \cup {Len(s) + 1} /\ Len(s) + 1 \notin DOMAIN s
    BY <1>2, <1>3
  <2> QED
    BY <1>2, <1>4, <2>1 DEF t

(* There is a workload to try, it is new and no other has its place.       *)
LEMMA WorkIsPending ==
    ASSUME EvidenceInv, disc.try # <<>>
    PROVE  /\ disc.phase \in SamplingPhases
           /\ Work \in disc.pending /\ Work \in Works
           /\ PlacedFor(disc.phase, Work) /\ IsNew(disc, Work)
<1> DEFINE places == {w.at : w \in disc.pending}
<1>1. /\ disc.phase \in SamplingPhases /\ disc.pending # {} /\ disc.pending \subseteq Works
      /\ \A w \in disc.pending : PlacedFor(disc.phase, w) /\ IsNew(disc, w)
  BY DEF EvidenceInv, EvidenceOf, TriesAWorkload, PendingIsNew
<1>2. places \in SUBSET Nat /\ places # {}
  BY <1>1 DEF Works
<1>3. \E i \in places : \A j \in places : i <= j
  <2> HIDE DEF places
  <2> QED
    BY <1>2, LeastPlace
<1>4. \E w \in disc.pending : \A v \in disc.pending : w.at <= v.at
  BY <1>3
<1>5. Work \in disc.pending
  BY <1>4 DEF Work
<1> QED
  BY <1>1, <1>5

(* Once a workload is dealt with the others are still new, and they name   *)
(* other reports and, among the seeds, other workloads.                    *)
LEMMA OthersDiffer ==
    ASSUME EvidenceInv, disc.try # <<>>, disc.phase # "first",
           NEW w \in disc.pending \ {Work}
    PROVE  /\ w.file # Work.file
           /\ disc.phase = "seeds" => w.seed.id # Work.seed.id
<1>1. /\ disc.phase \in SamplingPhases /\ Work \in disc.pending /\ disc.pending \subseteq Works
      /\ \A v \in disc.pending : PlacedFor(disc.phase, v)
      /\ \A u, v \in disc.pending : u.at = v.at => u = v
  BY WorkIsPending DEF EvidenceInv, EvidenceOf, PendingIsNew
<1>2. w.at # Work.at
  BY <1>1
<1>3. w.file # Work.file
  BY <1>1, <1>2 DEF PlacedFor, SamplingPhases
<1>4. ASSUME disc.phase = "seeds" PROVE w.seed.id # Work.seed.id
  BY <1>1, <1>2, <1>4, DiscoveryAssumption DEF PlacedFor
<1> QED
  BY <1>3, <1>4

(* What a try writes leaves the reports the samples were read from.        *)
LEMMA SavedApart ==
    ASSUME EvidenceInv, disc.try # <<>>, NEW run, NEW blank \in BOOLEAN
    PROVE  /\ Backed(disc, SaveReport(Work.file, run, blank))
           /\ ~blank => /\ Work.file \in DOMAIN SaveReport(Work.file, run, blank)
                        /\ SaveReport(Work.file, run, blank)[Work.file] = run
<1>1. Backed(disc, reports) /\ \A i \in DOMAIN disc.samples : disc.samples[i].file # Work.file
  BY WorkIsPending DEF IsNew, EvidenceInv, EvidenceOf
<1> QED
  BY <1>1 DEF Backed, SaveReport

LEMMA TriesForPending ==
    ASSUME NEW pending, TriesFor(pending) # <<>>
    PROVE  pending # {}
BY DEF TriesFor

(* The first sample decides which seeds follow it.                         *)
LEMMA FirstSampled ==
    ASSUME EvidenceInv, disc.try # <<>>, disc.phase = "first",
           NEW run, NEW stacks, NEW d, NEW r,
           d = Sampled(SampleOf(run, stacks)), r = SaveReport(Work.file, run, FALSE)
    PROVE  EvidenceOf(d, r)
<1> DEFINE s == SampleOf(run, stacks)
           W == Work
           queue == AcceptanceQueue(Work.seed)
<1>1. /\ DOMAIN disc = DiscoveryFields /\ disc.samples = <<>> /\ disc.skipped = {}
      /\ W.file = <<"report", 0>> /\ W \in Works
  BY WorkIsPending DEF EvidenceInv, EvidenceOf, NothingYet, PlacedFor
<1>2. s.file = W.file /\ s.run = run /\ s.seed = W.seed.id
  BY DEF SampleOf
<1>3. W.file \in DOMAIN r /\ r[W.file] = run
  BY SavedApart
<1>4. /\ queue \subseteq Works
      /\ \A w \in queue : /\ w.at \in DOMAIN DiscoverySeeds /\ w.seed = DiscoverySeeds[w.at]
                          /\ w.file = <<"seed", w.at>> /\ w.seed.id # W.seed.id
                          /\ w.variant = FALSE
  <2>1. DOMAIN DiscoverySeeds \subseteq Nat /\ \A i \in DOMAIN DiscoverySeeds :
            DiscoverySeeds[i] \in Workloads
    BY DiscoveryAssumption
  <2>2. ASSUME NEW w \in queue
        PROVE  /\ w \in Works
               /\ w.at \in DOMAIN DiscoverySeeds /\ w.seed = DiscoverySeeds[w.at]
               /\ w.file = <<"seed", w.at>> /\ w.seed.id # W.seed.id /\ w.variant = FALSE
    <3>1. PICK i \in DOMAIN DiscoverySeeds :
            /\ w = Queued(i, DiscoverySeeds[i], <<"seed", i>>, FALSE)
            /\ DiscoverySeeds[i].id # W.seed.id
      BY DEF AcceptanceQueue
    <3>2. i \in Nat /\ DiscoverySeeds[i] \in Workloads /\ <<"seed", i>> \in ReportFiles
      BY <2>1 DEF ReportFiles
    <3> QED
      BY <3>1, <3>2 DEF Queued, Works
  <2> QED
    BY <2>2
<1>5. /\ DOMAIN d = DiscoveryFields /\ d.samples = Append(<<>>, s) /\ d.skipped = {}
      /\ d.phase = "seeds" /\ d.pending = queue /\ d.try = TriesFor(queue)
  <2> HIDE DEF s, queue
  <2> QED
    BY <1>1 DEF Sampled, DiscoveryFields, s, queue
<1> HIDE DEF s, queue, W
<1>6. IsList(d.samples) /\ DOMAIN d.samples = {1} /\ d.samples[1] = s
  <2>1. IsList(<<>>) /\ Len(<<>>) = 0 /\ DOMAIN <<>> = {}
    BY DEF IsList
  <2>2. /\ IsList(Append(<<>>, s)) /\ DOMAIN Append(<<>>, s) = {} \cup {0 + 1}
        /\ Append(<<>>, s)[0 + 1] = s
    BY <2>1, AppendToList
  <2> QED
    BY <2>2, <1>5
<1>7. TriesAWorkload(d)
  BY <1>5, TriesForPending DEF TriesAWorkload, SamplingPhases
<1>8. NoVariantYet(d) /\ NothingYet(d)
  BY <1>1, <1>2, <1>5, <1>6 DEF NoVariantYet, NothingYet, OfVariant
<1>9. PendingIsNew(d)
  <2>1. \A w \in queue : PlacedFor("seeds", w) /\ IsNew(d, w)
    BY <1>1, <1>2, <1>4, <1>5, <1>6 DEF PlacedFor, IsNew
  <2>2. ASSUME NEW v \in queue, NEW w \in queue, v.at = w.at PROVE v = w
    BY <1>4, <2>2 DEF Works
  <2> QED
    BY <1>4, <1>5, <2>1, <2>2 DEF PendingIsNew
<1>10. Backed(d, r) /\ Apart(d)
  BY <1>2, <1>3, <1>5, <1>6 DEF Backed, Apart
<1> QED
  BY <1>5, <1>6, <1>7, <1>8, <1>9, <1>10 DEF EvidenceOf

(* What is left once a workload is dealt with is still new.                *)
LEMMA RestIsNew ==
    ASSUME EvidenceInv, disc.try # <<>>, disc.phase # "first",
           NEW d, d.phase = disc.phase, d.pending = disc.pending \ {Work},
           d.skipped \subseteq disc.skipped \cup {Work.file},
           \A i \in DOMAIN d.samples :
              \/ i \in DOMAIN disc.samples /\ d.samples[i] = disc.samples[i]
              \/ d.samples[i].file = Work.file /\ d.samples[i].seed = Work.seed.id
    PROVE  PendingIsNew(d)
<1>1. /\ disc.phase \in SamplingPhases /\ disc.pending \subseteq Works
      /\ \A w \in disc.pending : PlacedFor(disc.phase, w) /\ IsNew(disc, w)
      /\ \A v, w \in disc.pending : v.at = w.at => v = w
  BY WorkIsPending DEF EvidenceInv, EvidenceOf, PendingIsNew
<1>2. ASSUME NEW w \in d.pending PROVE IsNew(d, w)
  <2>1. w.file # Work.file /\ (disc.phase = "seeds" => w.seed.id # Work.seed.id)
    BY OthersDiffer
  <2>2. IsNew(disc, w)
    BY <1>1
  <2> QED
    BY <2>1, <2>2 DEF IsNew
<1> QED
  BY <1>1, <1>2 DEF PendingIsNew

(* Another sample has a report and a workload of its own.                  *)
LEMMA NextSampled ==
    ASSUME EvidenceInv, disc.try # <<>>, disc.phase # "first",
           NEW run, NEW stacks, NEW d, NEW r,
           d = Sampled(SampleOf(run, stacks)), r = SaveReport(Work.file, run, FALSE)
    PROVE  EvidenceOf(d, r)
<1> DEFINE s == SampleOf(run, stacks)
           n == Len(disc.samples) + 1
<1>1. /\ DOMAIN disc = DiscoveryFields /\ IsList(disc.samples)
      /\ NoVariantYet(disc) /\ Apart(disc)
  BY DEF EvidenceInv, EvidenceOf
<1>2. s.file = Work.file /\ s.run = run /\ s.seed = Work.seed.id
  BY DEF SampleOf
<1>3. /\ disc.phase \in {"seeds", "variants"}
      /\ PlacedFor(disc.phase, Work) /\ IsNew(disc, Work)
  BY WorkIsPending DEF SamplingPhases
<1>4. Backed(disc, r) /\ Work.file \in DOMAIN r /\ r[Work.file] = run
  BY SavedApart
<1>5. /\ DOMAIN d = DiscoveryFields /\ d.samples = Append(disc.samples, s)
      /\ d.skipped = disc.skipped /\ d.phase = disc.phase
      /\ d.pending = disc.pending \ {Work} /\ d.try = TriesFor(disc.pending \ {Work})
  <2> HIDE DEF s
  <2>1. d = Onward([disc EXCEPT !.samples = Append(@, s)])
    BY DEF Sampled, s
  <2> QED
    BY <1>1, <2>1 DEF Onward, DiscoveryFields
<1> HIDE DEF s
<1>6. /\ IsList(d.samples) /\ DOMAIN d.samples = DOMAIN disc.samples \cup {n}
      /\ n \notin DOMAIN disc.samples
      /\ \A i \in DOMAIN disc.samples : d.samples[i] = disc.samples[i]
      /\ d.samples[n] = s
  BY <1>1, <1>5, AppendToList
<1> HIDE DEF n
<1>7. TriesAWorkload(d)
  BY <1>3, <1>5, TriesForPending DEF TriesAWorkload, SamplingPhases
<1>8. NoVariantYet(d) /\ NothingYet(d)
  BY <1>1, <1>2, <1>3, <1>5, <1>6 DEF NoVariantYet, NothingYet, OfVariant, PlacedFor
<1>9. PendingIsNew(d)
  <2>1. \A i \in DOMAIN d.samples :
           \/ i \in DOMAIN disc.samples /\ d.samples[i] = disc.samples[i]
           \/ d.samples[i].file = Work.file /\ d.samples[i].seed = Work.seed.id
    BY <1>2, <1>6
  <2> QED
    BY <1>5, <2>1, RestIsNew
<1>10. Backed(d, r)
  <2>1. ASSUME NEW i \in DOMAIN disc.samples
        PROVE  /\ d.samples[i].file \in DOMAIN r /\ r[d.samples[i].file] = d.samples[i].run
               /\ d.samples[i].file \notin d.skipped
    BY <1>4, <1>5, <1>6 DEF Backed
  <2>2. s.file \in DOMAIN r /\ r[s.file] = s.run /\ s.file \notin d.skipped
    BY <1>2, <1>3, <1>4, <1>5 DEF IsNew
  <2> QED
    BY <1>6, <2>1, <2>2 DEF Backed
<1>11. Apart(d)
  <2>1. ASSUME NEW i \in DOMAIN disc.samples
        PROVE  /\ d.samples[i].file # s.file
               /\ d.samples[i].seed = s.seed => OfVariant(s)
    BY <1>2, <1>3, <1>6 DEF IsNew, PlacedFor, OfVariant
  <2> QED
    BY <1>1, <1>6, <2>1 DEF Apart
<1> QED
  BY <1>5, <1>6, <1>7, <1>8, <1>9, <1>10, <1>11 DEF EvidenceOf

(* A workload that is missed leaves the samples as they were.              *)
LEMMA WorkMissed ==
    ASSUME EvidenceInv, disc.try # <<>>, NEW run, NEW blank \in BOOLEAN, NEW d, NEW r,
           d = Missed, r = SaveReport(Work.file, run, blank)
    PROVE  EvidenceOf(d, r)
<1>1. /\ DOMAIN disc = DiscoveryFields /\ IsList(disc.samples)
      /\ NoVariantYet(disc) /\ NothingYet(disc) /\ Apart(disc) /\ PendingIsNew(disc)
  BY DEF EvidenceInv, EvidenceOf
<1>2. disc.phase \in SamplingPhases /\ PlacedFor(disc.phase, Work) /\ IsNew(disc, Work)
  BY WorkIsPending
<1>3. Backed(disc, r)
  BY SavedApart
<1>4. /\ DOMAIN d = DiscoveryFields /\ d.samples = disc.samples /\ d.phase = disc.phase
      /\ d.skipped = IF disc.phase = "first" THEN disc.skipped ELSE disc.skipped \cup {Work.file}
      /\ d.pending = disc.pending \ {Work} /\ d.try = TriesFor(disc.pending \ {Work})
  BY <1>1 DEF Missed, Onward, DiscoveryFields
<1>5. TriesAWorkload(d)
  BY <1>2, <1>4, TriesForPending DEF TriesAWorkload
<1>6. NoVariantYet(d) /\ NothingYet(d)
  BY <1>1, <1>2, <1>4 DEF NoVariantYet, NothingYet, PlacedFor, SamplingPhases
<1>7. PendingIsNew(d)
  <2>1. CASE disc.phase = "first"
    BY <1>1, <1>4, <2>1 DEF PendingIsNew, IsNew
  <2>2. CASE disc.phase # "first"
    BY <1>4, <2>2, RestIsNew
  <2> QED
    BY <2>1, <2>2
<1>8. Backed(d, r) /\ Apart(d)
  BY <1>1, <1>2, <1>3, <1>4 DEF Backed, Apart, IsNew
<1> QED
  BY <1>1, <1>4, <1>5, <1>6, <1>7, <1>8 DEF EvidenceOf

(* Another rung changes only what is tried.                                *)
LEMMA AnotherRung ==
    ASSUME EvidenceInv, disc.try # <<>>, NEW run, NEW blank \in BOOLEAN, NEW rung, NEW d, NEW r,
           d = [disc EXCEPT !.try = rung], r = SaveReport(Work.file, run, blank)
    PROVE  EvidenceOf(d, r)
<1>1. /\ DOMAIN disc = DiscoveryFields /\ IsList(disc.samples) /\ disc.pending # {}
      /\ disc.phase \in SamplingPhases
      /\ NoVariantYet(disc) /\ NothingYet(disc) /\ Apart(disc) /\ PendingIsNew(disc)
  BY WorkIsPending DEF EvidenceInv, EvidenceOf
<1>2. Backed(disc, r)
  BY SavedApart
<1>3. /\ DOMAIN d = DiscoveryFields /\ d.samples = disc.samples /\ d.phase = disc.phase
      /\ d.skipped = disc.skipped /\ d.pending = disc.pending
  BY <1>1 DEF DiscoveryFields
<1> QED
  BY <1>1, <1>2, <1>3 DEF EvidenceOf, TriesAWorkload, NothingYet, NoVariantYet,
                         PendingIsNew, IsNew, Backed, Apart

(* One run of the sampler, whatever it says.                               *)
LEMMA SampleOnceKeeps == EvidenceInv /\ SampleOnce => EvidenceInv'
<1> SUFFICES ASSUME EvidenceInv, SampleOnce PROVE EvidenceOf(disc', reports')
  BY DEF EvidenceInv
<1>1. disc.try # <<>>
  BY DEF SampleOnce
<1> DEFINE run == <<disc.nth, Work.seed.id, Head(disc.try)>>
<1>2. PICK t \in Transcripts :
        /\ reports' = SaveReport(Work.file, run, t.blank)
        /\ disc' = IF t.kind = "sample" THEN Sampled(SampleOf(run, t.stacks))
                   ELSE IF NextRung(Work, Head(disc.try), t.kind) # <<>>
                   THEN [disc EXCEPT !.try = NextRung(Work, Head(disc.try), t.kind)]
                   ELSE Missed
  BY DEF SampleOnce
<1>3. t.blank \in BOOLEAN /\ (t.kind = "sample" => t.blank = FALSE)
  <2>1. ASSUME NEW p \in Profiles, t = [kind |-> "sample", blank |-> FALSE, stacks |-> p]
        PROVE  t.blank = FALSE
    BY <2>1
  <2>2. ASSUME NEW k \in {"unavailable", "early", "failed", "noframes", "idle", "error"},
               t = [kind |-> k, blank |-> k \in {"unavailable", "error"}, stacks |-> <<>>]
        PROVE  t.blank \in BOOLEAN /\ t.kind # "sample"
    BY <2>2
  <2>3. ASSUME t = [kind |-> "failed", blank |-> TRUE, stacks |-> <<>>]
        PROVE  t.blank = TRUE /\ t.kind # "sample"
    BY <2>3
  <2> QED
    BY <2>1, <2>2, <2>3 DEF Transcripts
<1> HIDE DEF run
<1>4. CASE t.kind = "sample"
  <2>1. CASE disc.phase = "first"
    BY <1>1, <1>2, <1>3, <1>4, <2>1, FirstSampled
  <2>2. CASE disc.phase # "first"
    BY <1>1, <1>2, <1>3, <1>4, <2>2, NextSampled
  <2> QED
    BY <2>1, <2>2
<1>5. CASE t.kind # "sample" /\ NextRung(Work, Head(disc.try), t.kind) # <<>>
  BY <1>1, <1>2, <1>3, <1>5, AnotherRung
<1>6. CASE t.kind # "sample" /\ NextRung(Work, Head(disc.try), t.kind) = <<>>
  BY <1>1, <1>2, <1>3, <1>6, WorkMissed
<1> QED
  BY <1>4, <1>5, <1>6

(* The other steps sample nothing.                                         *)
LEMMA ExploreKeeps == EvidenceInv /\ Explore => EvidenceInv'
<1> SUFFICES ASSUME EvidenceInv, Explore PROVE EvidenceOf(disc', reports')
  BY DEF EvidenceInv
<1>1. /\ DOMAIN disc = DiscoveryFields /\ IsList(disc.samples) /\ disc.phase = "seeds"
      /\ NoVariantYet(disc) /\ Apart(disc) /\ Backed(disc, reports)
  BY DEF EvidenceInv, EvidenceOf, Explore
<1>2. PICK variants \in VariantLists :
        disc' = [disc EXCEPT !.phase = "variants", !.pending = VariantQueue(variants),
                             !.try = TriesFor(VariantQueue(variants))]
  BY DEF Explore
<1> DEFINE queue == VariantQueue(variants)
<1>3. \A w \in queue : w \in Works /\ w.file = <<"variant", w.at>>
  <2> SUFFICES ASSUME NEW w \in queue PROVE w \in Works /\ w.file = <<"variant", w.at>>
    OBVIOUS
  <2>1. variants \in Seq(Workloads)
    BY DiscoveryAssumption
  <2>2. PICK i \in DOMAIN variants : w = Queued(i, variants[i], <<"variant", i>>, TRUE)
    BY DEF VariantQueue
  <2>3. i \in Nat /\ variants[i] \in Workloads
    BY <2>1
  <2>4. <<"variant", i>> \in ReportFiles
    BY <2>3 DEF ReportFiles
  <2> QED
    BY <2>2, <2>3, <2>4 DEF Queued, Works
<1>4. ASSUME NEW v \in queue, NEW w \in queue, v.at = w.at PROVE v = w
  <2>1. PICK i \in DOMAIN variants : v = Queued(i, variants[i], <<"variant", i>>, TRUE)
    BY DEF VariantQueue
  <2>2. PICK j \in DOMAIN variants : w = Queued(j, variants[j], <<"variant", j>>, TRUE)
    BY DEF VariantQueue
  <2>3. v.at = i /\ w.at = j
    BY <2>1, <2>2 DEF Queued
  <2> QED
    BY <1>4, <2>1, <2>2, <2>3
<1>5. /\ DOMAIN disc' = DiscoveryFields /\ disc'.samples = disc.samples
      /\ disc'.skipped = disc.skipped /\ disc'.phase = "variants"
      /\ disc'.pending = queue /\ disc'.try = TriesFor(queue) /\ reports' = reports
  <2> HIDE DEF queue
  <2>1. disc' = [disc EXCEPT !.phase = "variants", !.pending = queue, !.try = TriesFor(queue)]
    BY <1>2 DEF queue
  <2> QED
    BY <1>1, <2>1 DEF DiscoveryFields, Explore
<1> HIDE DEF queue
<1>6. TriesAWorkload(disc') /\ NothingYet(disc') /\ NoVariantYet(disc')
  BY <1>5, TriesForPending DEF TriesAWorkload, NothingYet, NoVariantYet, SamplingPhases
<1>7. PendingIsNew(disc')
  <2>1. \A w \in queue : PlacedFor("variants", w) /\ IsNew(disc', w)
    BY <1>1, <1>3, <1>5 DEF PlacedFor, IsNew, NoVariantYet, OfVariant
  <2> QED
    BY <1>3, <1>4, <1>5, <2>1 DEF PendingIsNew
<1>8. Backed(disc', reports') /\ Apart(disc')
  BY <1>1, <1>5 DEF Backed, Apart
<1> QED
  BY <1>1, <1>5, <1>6, <1>7, <1>8 DEF EvidenceOf

LEMMA TargetKeeps == EvidenceInv /\ SampleTarget => EvidenceInv'
<1> SUFFICES ASSUME EvidenceInv, SampleTarget PROVE EvidenceOf(disc', reports')
  BY DEF EvidenceInv
<1>1. /\ DOMAIN disc = DiscoveryFields /\ disc.samples = <<>> /\ disc.skipped = {}
      /\ IsList(disc.samples)
  BY DEF EvidenceInv, EvidenceOf, NothingYet, SampleTarget
<1>2. \A w \in FirstCandidates : w \in Works /\ w.file = <<"report", 0>>
  <2> SUFFICES ASSUME NEW w \in FirstCandidates
               PROVE  w \in Works /\ w.file = <<"report", 0>>
    OBVIOUS
  <2>1. PICK i \in DOMAIN DiscoverySeeds :
          w = Queued(i, DiscoverySeeds[i], <<"report", 0>>, FALSE)
    BY DEF FirstCandidates
  <2>2. i \in Nat /\ DiscoverySeeds[i] \in Workloads
    BY DiscoveryAssumption
  <2>3. <<"report", 0>> \in ReportFiles
    BY DEF ReportFiles
  <2> QED
    BY <2>1, <2>2, <2>3 DEF Queued, Works
<1>3. ASSUME NEW v \in FirstCandidates, NEW w \in FirstCandidates, v.at = w.at PROVE v = w
  <2>1. PICK i \in DOMAIN DiscoverySeeds :
          v = Queued(i, DiscoverySeeds[i], <<"report", 0>>, FALSE)
    BY DEF FirstCandidates
  <2>2. PICK j \in DOMAIN DiscoverySeeds :
          w = Queued(j, DiscoverySeeds[j], <<"report", 0>>, FALSE)
    BY DEF FirstCandidates
  <2>3. v.at = i /\ w.at = j
    BY <2>1, <2>2 DEF Queued
  <2> QED
    BY <1>3, <2>1, <2>2, <2>3
<1>4. FirstCandidates # {}
  <2>1. 1 \in DOMAIN DiscoverySeeds
    BY DiscoveryAssumption
  <2> QED
    BY <2>1 DEF FirstCandidates
<1>5. /\ DOMAIN disc' = DiscoveryFields /\ disc'.samples = disc.samples
      /\ disc'.skipped = disc.skipped /\ disc'.phase = "first"
      /\ disc'.pending = FirstCandidates /\ reports' = reports
  BY <1>1 DEF SampleTarget, DiscoveryFields
<1>6. \A i \in DOMAIN disc'.samples : FALSE
  BY <1>1, <1>5
<1>7. PendingIsNew(disc')
  <2>1. \A w \in FirstCandidates : PlacedFor("first", w) /\ IsNew(disc', w)
    BY <1>1, <1>2, <1>5, <1>6 DEF PlacedFor, IsNew
  <2> QED
    BY <1>2, <1>3, <1>5, <2>1 DEF PendingIsNew
<1>8. Backed(disc', reports') /\ Apart(disc') /\ NoVariantYet(disc')
  BY <1>5, <1>6 DEF Backed, Apart, NoVariantYet
<1> QED
  BY <1>1, <1>4, <1>5, <1>7, <1>8 DEF EvidenceOf, TriesAWorkload, NothingYet, SamplingPhases

LEMMA StartIsBacked ==
    ASSUME NEW nth, NEW r, NEW d,
           \/ d = StartDiscovery(nth)
           \/ d = [StartDiscovery(nth) EXCEPT !.phase = "cancelled"]
    PROVE  EvidenceOf(d, r)
<1>1. /\ DOMAIN d = DiscoveryFields /\ d.samples = <<>> /\ d.skipped = {} /\ d.try = <<>>
      /\ d.phase \in {"target", "cancelled"}
  BY DEF StartDiscovery, NoSamples, DiscoveryFields
<1>2. IsList(<<>>) /\ \A i \in DOMAIN <<>> : FALSE
  BY DEF IsList
<1> QED
  BY <1>1, <1>2 DEF EvidenceOf, TriesAWorkload, NothingYet, NoVariantYet, PendingIsNew,
                   Backed, Apart, SamplingPhases

(* The steps after the samples keep them.                                  *)
LEMMA LaterKeeps ==
    ASSUME EvidenceInv, disc.try = <<>>, NEW d,
           DOMAIN d = DOMAIN disc, d.samples = disc.samples, d.skipped = disc.skipped,
           d.try = disc.try, d.phase \in {"fallback", "allocations", "over"}
    PROVE  EvidenceOf(d, reports)
BY DEF EvidenceInv, EvidenceOf, TriesAWorkload, NothingYet, NoVariantYet, PendingIsNew,
       Backed, Apart, SamplingPhases

LEMMA EvidenceInvariant == DiscoverySpec => []EvidenceInv
<1>1. DiscoveryInit => EvidenceInv
  <2> SUFFICES ASSUME DiscoveryInit PROVE EvidenceOf(disc, reports)
    BY DEF EvidenceInv
  <2>1. disc = StartDiscovery(1)
    BY DEF DiscoveryInit
  <2> QED
    BY <2>1, StartIsBacked
<1>2. EvidenceInv /\ [DiscoveryNext]_discoveryVars => EvidenceInv'
  <2> SUFFICES ASSUME EvidenceInv, [DiscoveryNext]_discoveryVars PROVE EvidenceInv'
    OBVIOUS
  <2>0. DOMAIN disc = DiscoveryFields /\ TriesAWorkload(disc)
    BY DEF EvidenceInv, EvidenceOf
  <2>1. CASE SampleTarget
    BY <2>1, TargetKeeps
  <2>2. CASE SampleOnce
    BY <2>2, SampleOnceKeeps
  <2>3. CASE Explore
    BY <2>3, ExploreKeeps
  <2>4. CASE NoBinary \/ NothingSampled \/ SampleDecides \/ FallBackToBenchmarks
               \/ AllocationEvidence
    <3>1. disc.try = <<>>
      BY <2>0, <2>4 DEF NoBinary, NothingSampled, SampleDecides, FallBackToBenchmarks,
                        AllocationEvidence, TriesAWorkload, SamplingPhases
    <3>2. /\ DOMAIN disc' = DOMAIN disc /\ disc'.samples = disc.samples
          /\ disc'.skipped = disc.skipped /\ disc'.try = disc.try
          /\ disc'.phase \in {"fallback", "allocations", "over"} /\ reports' = reports
      <4>1. CASE NoBinary
        BY <2>0, <4>1 DEF NoBinary, DiscoveryFields
      <4>2. CASE NothingSampled
        BY <2>0, <4>2 DEF NothingSampled, DiscoveryFields
      <4>3. CASE SampleDecides
        <5>1. \E hot, writes, pgo :
                 disc' = [disc EXCEPT !.phase = "allocations", !.source = "sample", !.pgo = pgo,
                                      !.hot = hot, !.writes = writes]
          BY <4>3 DEF SampleDecides
        <5> QED
          BY <2>0, <4>3, <5>1 DEF SampleDecides, DiscoveryFields
      <4>4. CASE FallBackToBenchmarks
        BY <2>0, <4>4 DEF FallBackToBenchmarks, DiscoveryFields
      <4>5. CASE AllocationEvidence
        <5>1. \E hot : \/ disc' = [disc EXCEPT !.phase = "over", !.hot = hot]
                       \/ disc' = [disc EXCEPT !.phase = "over"]
          BY <4>5 DEF AllocationEvidence
        <5> QED
          BY <2>0, <4>5, <5>1 DEF AllocationEvidence, DiscoveryFields
      <4> QED
        BY <2>4, <4>1, <4>2, <4>3, <4>4, <4>5
    <3> QED
      BY <3>1, <3>2, LaterKeeps DEF EvidenceInv
  <2>5. CASE DiscoveryCancelled
    <3>1. disc' = [StartDiscovery(disc.nth) EXCEPT !.phase = "cancelled"]
      BY <2>5 DEF DiscoveryCancelled
    <3> QED
      BY <3>1, StartIsBacked DEF EvidenceInv
  <2>6. CASE Rediscover
    <3>1. disc' = StartDiscovery(disc.nth + 1)
      BY <2>6 DEF Rediscover
    <3> QED
      BY <3>1, StartIsBacked DEF EvidenceInv
  <2>7. CASE UNCHANGED discoveryVars
    BY <2>7 DEF discoveryVars, EvidenceInv
  <2> QED
    BY <2>1, <2>2, <2>3, <2>4, <2>5, <2>6, <2>7 DEF DiscoveryNext
<1> QED
  BY <1>1, <1>2, PTL DEF DiscoverySpec

(***************************************************************************)
(* Every sample the hot list is merged from has a report of its own, the   *)
(* one it was read from, whatever failed on the way and whatever an        *)
(* earlier discovery left on disk; none is of a workload called skipped,   *)
(* and two of one workload are of two options with one name.               *)
(***************************************************************************)
THEOREM EvidenceHasItsReport == DiscoverySpec => []EvidenceIsBacked
<1>1. EvidenceInv => EvidenceIsBacked
  BY DEF EvidenceInv, EvidenceOf, Backed, Apart, EvidenceIsBacked
<1> QED
  BY <1>1, EvidenceInvariant, PTL

(***************************************************************************)
(* Sums and products over finite sets                                      *)
(***************************************************************************)
(* A fact that passes from the subsets with one element less to a set      *)
(* holds of every subset of a finite set.                                  *)
LEMMA SubsetInduction ==
  ASSUME NEW S, IsFiniteSet(S), NEW H,
         \A T \in SUBSET S : (\A x \in T : T \ {x} \in H) => T \in H
  PROVE  \A T \in SUBSET S : T \in H
<1> DEFINE Sizes == {Cardinality(T) : T \in (SUBSET S) \ H}
<1>1. SUFFICES ASSUME NEW T \in SUBSET S, T \notin H
               PROVE  FALSE
  OBVIOUS
<1>2. \A U \in SUBSET S : IsFiniteSet(U) /\ Cardinality(U) \in Nat
  BY FS_Subset, FS_CardinalityType
<1>3. Sizes \subseteq Nat /\ Sizes # {}
  BY <1>1, <1>2
<1>4. PICK n \in Sizes : \A m \in Sizes : n <= m
  <2> HIDE DEF Sizes
  <2> QED BY <1>3, LeastPlace
<1>5. PICK U \in (SUBSET S) \ H : n = Cardinality(U)
  BY <1>4
<1>6. ASSUME NEW x \in U
      PROVE  U \ {x} \in H
  <2>1. IsFiniteSet(U) /\ U \ {x} \in SUBSET S
    BY <1>2, <1>5
  <2>2. Cardinality(U \ {x}) = Cardinality(U) - 1 /\ Cardinality(U \ {x}) \in Nat
    BY <1>2, <1>6, <2>1, FS_RemoveElement
  <2>3. Cardinality(U \ {x}) < n /\ n \in Nat
    BY <1>2, <1>5, <2>2
  <2>4. Cardinality(U \ {x}) \notin Sizes
    <3> HIDE DEF Sizes
    <3> QED BY <1>3, <1>4, <2>2, <2>3
  <2> QED BY <2>1, <2>4
<1> QED BY <1>5, <1>6

(* Induction on the natural numbers, over a set.                           *)
LEMMA NatSets ==
  ASSUME NEW H, 0 \in H, \A n \in Nat : n \in H => n + 1 \in H
  PROVE  Nat \subseteq H
<1>1. SUFFICES ASSUME Nat \ H # {} PROVE FALSE
  OBVIOUS
<1>2. PICK n \in Nat \ H : \A m \in Nat \ H : n <= m
  BY <1>1, LeastPlace
<1>3. n - 1 \in Nat /\ n - 1 < n /\ (n - 1) + 1 = n
  BY <1>2
<1> QED BY <1>2, <1>3

Chosen(s) == CHOOSE x \in s : TRUE

(* How a fold takes one element: by addition, or by multiplication.        *)
Kinds == {"sum", "product"}

Taken(kind, a, b) == IF kind = "product" THEN a * b ELSE a + b
Unit(kind) == IF kind = "product" THEN 1 ELSE 0

FoldStep(kind, fn, h, s) ==
    IF s = {} THEN Unit(kind) ELSE Taken(kind, fn[Chosen(s)], h[s \ {Chosen(s)}])

IsFold(kind, h, fn, S) ==
    h = [s \in SUBSET S |-> FoldStep(kind, fn, h, s)]

LEMMA FoldStepAlike ==
  ASSUME NEW kind, NEW fn, NEW gn, NEW h, NEW k, NEW s,
         \A x \in s : fn[x] = gn[x] /\ h[s \ {x}] = k[s \ {x}]
  PROVE  FoldStep(kind, fn, h, s) = FoldStep(kind, gn, k, s)
<1>1. CASE s = {}
  BY <1>1 DEF FoldStep
<1>2. CASE s # {}
  <2>1. Chosen(s) \in s
    BY <1>2 DEF Chosen
  <2> QED BY <1>2, <2>1 DEF FoldStep
<1> QED BY <1>1, <1>2

(* The recursive function of a fold exists: it does on the subsets of at   *)
(* most n elements, for every n.                                           *)
LEMMA FoldExists ==
  ASSUME NEW kind, NEW fn, NEW S, IsFiniteSet(S)
  PROVE  \E h : IsFold(kind, h, fn, S)
<1> DEFINE Upto(n, h) ==
              /\ h = [s \in SUBSET S |-> h[s]]
              /\ \A s \in SUBSET S : Cardinality(s) <= n => h[s] = FoldStep(kind, fn, h, s)
<1>1. \A s \in SUBSET S : IsFiniteSet(s) /\ Cardinality(s) \in Nat
  BY FS_Subset, FS_CardinalityType
<1>2. ASSUME NEW n \in Nat, NEW h, Upto(n, h)
      PROVE  \E g : Upto(n + 1, g)
  <2> DEFINE g == [s \in SUBSET S |-> IF Cardinality(s) <= n THEN h[s]
                                      ELSE FoldStep(kind, fn, h, s)]
  <2>1. ASSUME NEW s \in SUBSET S, Cardinality(s) <= n + 1
        PROVE  g[s] = FoldStep(kind, fn, g, s)
    <3>1. ASSUME NEW x \in s
          PROVE  h[s \ {x}] = g[s \ {x}]
      <4>1. s \ {x} \in SUBSET S /\ Cardinality(s \ {x}) = Cardinality(s) - 1
        BY <1>1, FS_RemoveElement
      <4>2. Cardinality(s) \in Nat
        BY <1>1
      <4>3. Cardinality(s \ {x}) <= n
        BY <2>1, <4>1, <4>2
      <4> QED BY <4>1, <4>3
    <3>2. FoldStep(kind, fn, h, s) = FoldStep(kind, fn, g, s)
      <4> HIDE DEF g
      <4> QED BY <3>1, FoldStepAlike
    <3>3. g[s] = FoldStep(kind, fn, h, s)
      <4>1. CASE Cardinality(s) <= n
        BY <1>2, <4>1
      <4>2. CASE ~(Cardinality(s) <= n)
        BY <4>2
      <4> QED BY <4>1, <4>2
    <3> QED BY <3>2, <3>3
  <2>2. g = [s \in SUBSET S |-> g[s]]
    OBVIOUS
  <2> HIDE DEF g
  <2> QED BY <2>1, <2>2
<1>3. \E h : Upto(0, h)
  <2> DEFINE h == [s \in SUBSET S |-> Unit(kind)]
  <2>1. ASSUME NEW s \in SUBSET S, Cardinality(s) <= 0
        PROVE  h[s] = FoldStep(kind, fn, h, s)
    <3>1. s = {}
      BY <1>1, <2>1, FS_EmptySet
    <3> QED BY <3>1 DEF FoldStep
  <2>2. h = [s \in SUBSET S |-> h[s]]
    OBVIOUS
  <2> HIDE DEF h
  <2> QED BY <2>1, <2>2
<1> DEFINE Some == {n \in Nat : \E h : Upto(n, h)}
<1>4. Nat \subseteq Some
  <2>1. 0 \in Some
    BY <1>3
  <2>2. \A n \in Nat : n \in Some => n + 1 \in Some
    <3> HIDE DEF Upto
    <3> QED BY <1>2
  <2> HIDE DEF Some
  <2> QED BY <2>1, <2>2, NatSets
<1>5. PICK h : Upto(Cardinality(S), h)
  BY <1>1, <1>4
<1>6. \A s \in SUBSET S : h[s] = FoldStep(kind, fn, h, s)
  <2> TAKE s \in SUBSET S
  <2>1. Cardinality(s) <= Cardinality(S)
    BY FS_Subset
  <2> QED BY <1>5, <2>1
<1> QED BY <1>5, <1>6 DEF IsFold

FoldOf(kind, fn, S) == (CHOOSE h : IsFold(kind, h, fn, S))[S]

(* A fold over a set folds every subset, whatever values lie outside it.   *)
LEMMA FoldsAgree ==
  ASSUME NEW kind, NEW fn, NEW gn, NEW S, NEW T, IsFiniteSet(T), T \subseteq S,
         \A x \in T : fn[x] = gn[x],
         NEW h, IsFold(kind, h, fn, S), NEW k, IsFold(kind, k, gn, T)
  PROVE  h[T] = k[T]
<1> DEFINE H == {U \in SUBSET T : h[U] = k[U]}
<1>1. ASSUME NEW U \in SUBSET T, \A x \in U : U \ {x} \in H
      PROVE  U \in H
  <2>1. \A x \in U : fn[x] = gn[x] /\ h[U \ {x}] = k[U \ {x}]
    BY <1>1
  <2>2. FoldStep(kind, fn, h, U) = FoldStep(kind, gn, k, U)
    BY <2>1, FoldStepAlike
  <2>3. h[U] = FoldStep(kind, fn, h, U) /\ k[U] = FoldStep(kind, gn, k, U)
    BY DEF IsFold
  <2> QED BY <2>2, <2>3
<1>2. T \in H
  <2> HIDE DEF H
  <2> QED BY <1>1, SubsetInduction
<1> QED BY <1>2

LEMMA FoldOfIs ==
  ASSUME NEW kind, NEW fn, NEW S, IsFiniteSet(S)
  PROVE  \E h : IsFold(kind, h, fn, S) /\ FoldOf(kind, fn, S) = h[S]
<1>1. IsFold(kind, CHOOSE h : IsFold(kind, h, fn, S), fn, S)
  BY FoldExists
<1> QED BY <1>1 DEF FoldOf

LEMMA FoldAlike ==
  ASSUME NEW kind, NEW fn, NEW gn, NEW S, IsFiniteSet(S), \A x \in S : fn[x] = gn[x]
  PROVE  FoldOf(kind, fn, S) = FoldOf(kind, gn, S)
<1>1. PICK h : IsFold(kind, h, fn, S) /\ FoldOf(kind, fn, S) = h[S]
  BY FoldOfIs
<1>2. PICK k : IsFold(kind, k, gn, S) /\ FoldOf(kind, gn, S) = k[S]
  BY FoldOfIs
<1> QED BY <1>1, <1>2, FoldsAgree

LEMMA FoldEquation ==
  ASSUME NEW kind, NEW fn, NEW S, IsFiniteSet(S)
  PROVE  /\ S = {} => FoldOf(kind, fn, S) = Unit(kind)
         /\ S # {} => /\ Chosen(S) \in S
                      /\ FoldOf(kind, fn, S) =
                            Taken(kind, fn[Chosen(S)], FoldOf(kind, fn, S \ {Chosen(S)}))
<1>1. PICK h : IsFold(kind, h, fn, S) /\ FoldOf(kind, fn, S) = h[S]
  BY FoldOfIs
<1>2. h[S] = FoldStep(kind, fn, h, S)
  BY <1>1 DEF IsFold
<1>3. ASSUME S # {}
      PROVE  Chosen(S) \in S /\ h[S \ {Chosen(S)}] = FoldOf(kind, fn, S \ {Chosen(S)})
  <2> DEFINE T == S \ {Chosen(S)}
  <2>1. Chosen(S) \in S
    BY <1>3 DEF Chosen
  <2>2. T \subseteq S /\ IsFiniteSet(T)
    BY FS_Subset
  <2> HIDE DEF T
  <2>3. PICK k : IsFold(kind, k, fn, T) /\ FoldOf(kind, fn, T) = k[T]
    BY <2>2, FoldOfIs
  <2>4. h[T] = k[T]
    BY <1>1, <2>2, <2>3, FoldsAgree
  <2> QED BY <2>1, <2>3, <2>4 DEF T
<1> QED BY <1>1, <1>2, <1>3 DEF FoldStep

(* A fold of numbers is a number, and any element may be taken first.      *)
LEMMA FoldType ==
  ASSUME NEW kind \in Kinds, NEW fn, NEW S, IsFiniteSet(S), \A x \in S : fn[x] \in Nat
  PROVE  FoldOf(kind, fn, S) \in Nat
<1> DEFINE H == {U \in SUBSET S : FoldOf(kind, fn, U) \in Nat}
<1>1. ASSUME NEW U \in SUBSET S, \A x \in U : U \ {x} \in H
      PROVE  U \in H
  <2>1. IsFiniteSet(U)
    BY FS_Subset
  <2>2. CASE U = {}
    BY <2>1, <2>2, FoldEquation DEF Unit
  <2>3. CASE U # {}
    <3>1. /\ Chosen(U) \in U /\ fn[Chosen(U)] \in Nat
          /\ FoldOf(kind, fn, U) = Taken(kind, fn[Chosen(U)], FoldOf(kind, fn, U \ {Chosen(U)}))
      BY <2>1, <2>3, FoldEquation
    <3>2. FoldOf(kind, fn, U \ {Chosen(U)}) \in Nat
      BY <1>1, <3>1
    <3> DEFINE a == fn[Chosen(U)]
               b == FoldOf(kind, fn, U \ {Chosen(U)})
    <3>3. Taken(kind, a, b) \in Nat
      <4> HIDE DEF a, b
      <4>1. a \in Nat /\ b \in Nat
        BY <3>1, <3>2 DEF a, b
      <4> QED BY <4>1 DEF Taken
    <3> QED BY <3>1, <3>3
  <2> QED BY <2>2, <2>3
<1>2. S \in H
  <2> HIDE DEF H
  <2>1. \A U \in SUBSET S : (\A x \in U : U \ {x} \in H) => U \in H
    BY <1>1
  <2>2. \A U \in SUBSET S : U \in H
    BY ONLY <2>1, SubsetInduction, IsFiniteSet(S)
  <2> QED BY <2>2
<1> QED BY <1>2

LEMMA TakenInAnyOrder ==
  ASSUME NEW kind \in Kinds, NEW a \in Nat, NEW b \in Nat, NEW c \in Nat
  PROVE  Taken(kind, a, Taken(kind, b, c)) = Taken(kind, b, Taken(kind, a, c))
<1>1. a * (b * c) = b * (a * c)
  OBVIOUS
<1> QED BY <1>1 DEF Taken

LEMMA FoldRemove ==
  ASSUME NEW kind \in Kinds, NEW fn, NEW S, IsFiniteSet(S), \A x \in S : fn[x] \in Nat,
         NEW y \in S
  PROVE  FoldOf(kind, fn, S) = Taken(kind, fn[y], FoldOf(kind, fn, S \ {y}))
<1> DEFINE F(U) == FoldOf(kind, fn, U)
           H == {U \in SUBSET S : \A z \in U : F(U) = Taken(kind, fn[z], F(U \ {z}))}
<1>0. \A U \in SUBSET S : IsFiniteSet(U) /\ F(U) \in Nat
  <2> TAKE U \in SUBSET S
  <2>1. IsFiniteSet(U)
    BY FS_Subset
  <2> QED BY <2>1, FoldType
<1>1. ASSUME NEW U \in SUBSET S, \A x \in U : U \ {x} \in H, NEW z \in U
      PROVE  F(U) = Taken(kind, fn[z], F(U \ {z}))
  <2> DEFINE c == Chosen(U)
             V == (U \ {c}) \ {z}
  <2>1. c \in U /\ F(U) = Taken(kind, fn[c], F(U \ {c}))
    BY <1>0, FoldEquation
  <2> HIDE DEF c
  <2>2. CASE c = z
    BY <2>1, <2>2
  <2>3. CASE c # z
    <3>1. z \in U \ {c} /\ c \in U \ {z} /\ V = (U \ {z}) \ {c} /\ V \in SUBSET S
      BY <2>1, <2>3
    <3>2. F(U \ {c}) = Taken(kind, fn[z], F(V))
      BY <1>1, <2>1, <3>1
    <3>3. F(U \ {z}) = Taken(kind, fn[c], F((U \ {z}) \ {c}))
      BY <1>1, <2>1, <3>1
    <3>4. F(U \ {z}) = Taken(kind, fn[c], F(V))
      BY <3>1, <3>3
    <3>5. F(V) \in Nat /\ fn[c] \in Nat /\ fn[z] \in Nat
      BY <1>0, <2>1, <3>1
    <3> HIDE DEF F, V
    <3> QED BY <2>1, <3>2, <3>4, <3>5, TakenInAnyOrder
  <2> QED BY <2>2, <2>3
<1>2. \A U \in SUBSET S : (\A x \in U : U \ {x} \in H) => U \in H
  BY <1>1
<1>3. S \in H
  <2> HIDE DEF H
  <2>1. \A U \in SUBSET S : U \in H
    BY ONLY <1>2, SubsetInduction, IsFiniteSet(S)
  <2> QED BY <2>1
<1> QED BY <1>3

-----------------------------------------------------------------------------
LEMMA SumIsFold ==
  ASSUME NEW fn, NEW S, IsFiniteSet(S)
  PROVE  SumFunctionOnSet(fn, S) = FoldOf("sum", fn, S)
<1> DEFINE Is(g) == g = [s \in SUBSET S |->
                IF s = {} THEN 0 ELSE LET x == CHOOSE y \in s : TRUE IN fn[x] + g[s \ {x}]]
<1>1. SumFunctionOnSet(fn, S) = (CHOOSE g : Is(g))[S]
  BY DEF SumFunctionOnSet, FoldFunctionOnSet, MapThenFoldSet
<1>2. PICK h : IsFold("sum", h, fn, S) /\ FoldOf("sum", fn, S) = h[S]
  BY FoldOfIs
<1>3. \A g : Is(g) <=> IsFold("sum", g, fn, S)
  BY DEF IsFold, FoldStep, Taken, Unit, Chosen
<1>4. IsFold("sum", CHOOSE g : Is(g), fn, S)
  <2> HIDE DEF Is
  <2> QED BY <1>2, <1>3
<1> QED
  <2> HIDE DEF Is
  <2>1. PICK k : k = (CHOOSE g : Is(g)) /\ IsFold("sum", k, fn, S)
    BY <1>4
  <2>2. h[S] = k[S]
    BY <1>2, <2>1, FoldsAgree
  <2> QED BY <1>1, <1>2, <2>1, <2>2

LEMMA ProductIsFold ==
  ASSUME NEW fn, NEW S, IsFiniteSet(S)
  PROVE  FoldFunctionOnSet(LAMBDA a, b : a * b, 1, fn, S) = FoldOf("product", fn, S)
<1> DEFINE Is(g) == g = [s \in SUBSET S |->
                IF s = {} THEN 1 ELSE LET x == CHOOSE y \in s : TRUE IN fn[x] * g[s \ {x}]]
<1>1. FoldFunctionOnSet(LAMBDA a, b : a * b, 1, fn, S) = (CHOOSE g : Is(g))[S]
  BY DEF FoldFunctionOnSet, MapThenFoldSet
<1>2. PICK h : IsFold("product", h, fn, S) /\ FoldOf("product", fn, S) = h[S]
  BY FoldOfIs
<1>3. \A g : Is(g) <=> IsFold("product", g, fn, S)
  BY DEF IsFold, FoldStep, Taken, Unit, Chosen
<1>4. IsFold("product", CHOOSE g : Is(g), fn, S)
  <2> HIDE DEF Is
  <2> QED BY <1>2, <1>3
<1> QED
  <2> HIDE DEF Is
  <2>1. PICK k : k = (CHOOSE g : Is(g)) /\ IsFold("product", k, fn, S)
    BY <1>4
  <2>2. h[S] = k[S]
    BY <1>2, <2>1, FoldsAgree
  <2> QED BY <1>1, <1>2, <2>1, <2>2

Sum(fn, S) == FoldOf("sum", fn, S)

LEMMA SumOfFunction ==
  ASSUME NEW fn, IsFiniteSet(DOMAIN fn)
  PROVE  SumFunction(fn) = Sum(fn, DOMAIN fn)
BY SumIsFold DEF SumFunction, Sum

LEMMA SumEmpty ==
  ASSUME NEW fn
  PROVE  Sum(fn, {}) = 0
BY FoldEquation, FS_EmptySet DEF Sum, Unit

LEMMA SumType ==
  ASSUME NEW fn, NEW S, IsFiniteSet(S), \A x \in S : fn[x] \in Nat
  PROVE  Sum(fn, S) \in Nat
BY FoldType DEF Sum, Kinds

LEMMA SumAlike ==
  ASSUME NEW fn, NEW gn, NEW S, IsFiniteSet(S), \A x \in S : fn[x] = gn[x]
  PROVE  Sum(fn, S) = Sum(gn, S)
BY FoldAlike DEF Sum

LEMMA SumRemove ==
  ASSUME NEW fn, NEW S, IsFiniteSet(S), \A x \in S : fn[x] \in Nat, NEW y \in S
  PROVE  /\ Sum(fn, S) = fn[y] + Sum(fn, S \ {y})
         /\ fn[y] \in Nat /\ Sum(fn, S \ {y}) \in Nat
<1>1. Sum(fn, S) = Taken("sum", fn[y], Sum(fn, S \ {y}))
  BY FoldRemove DEF Sum, Kinds
<1>2. IsFiniteSet(S \ {y}) /\ \A x \in S \ {y} : fn[x] \in Nat
  BY FS_Subset
<1>3. Sum(fn, S \ {y}) \in Nat
  BY <1>2, SumType
<1> QED BY <1>1, <1>3 DEF Taken

LEMMA SumWithin ==
  ASSUME NEW fn, NEW S, IsFiniteSet(S), \A x \in S : fn[x] \in Nat
  PROVE  \A U \in SUBSET S : \A y \in U :
            /\ Sum(fn, U) = fn[y] + Sum(fn, U \ {y})
            /\ fn[y] \in Nat /\ Sum(fn, U \ {y}) \in Nat
<1> TAKE U \in SUBSET S
<1> TAKE y \in U
<1>1. IsFiniteSet(U) /\ \A x \in U : fn[x] \in Nat
  BY FS_Subset
<1> QED BY <1>1, SumRemove

(* Sums of sums, of multiples and over disjoint sets.                      *)
LEMMA SumAdd ==
  ASSUME NEW S, IsFiniteSet(S), NEW fn, NEW gn, NEW hn,
         \A x \in S : fn[x] \in Nat /\ gn[x] \in Nat /\ hn[x] = fn[x] + gn[x]
  PROVE  Sum(hn, S) = Sum(fn, S) + Sum(gn, S)
<1> DEFINE H == {U \in SUBSET S : Sum(hn, U) = Sum(fn, U) + Sum(gn, U)}
<1>f. \A U \in SUBSET S : \A y \in U :
         /\ Sum(fn, U) = fn[y] + Sum(fn, U \ {y})
         /\ fn[y] \in Nat /\ Sum(fn, U \ {y}) \in Nat
  <2>1. \A x \in S : fn[x] \in Nat
    OBVIOUS
  <2> QED BY ONLY IsFiniteSet(S), <2>1, SumWithin
<1>g. \A U \in SUBSET S : \A y \in U :
         /\ Sum(gn, U) = gn[y] + Sum(gn, U \ {y})
         /\ gn[y] \in Nat /\ Sum(gn, U \ {y}) \in Nat
  <2>1. \A x \in S : gn[x] \in Nat
    OBVIOUS
  <2> QED BY ONLY IsFiniteSet(S), <2>1, SumWithin
<1>h. \A U \in SUBSET S : \A y \in U :
         /\ Sum(hn, U) = hn[y] + Sum(hn, U \ {y})
         /\ hn[y] \in Nat /\ Sum(hn, U \ {y}) \in Nat
  <2>1. \A x \in S : hn[x] \in Nat
    OBVIOUS
  <2> QED BY ONLY IsFiniteSet(S), <2>1, SumWithin
<1>1. ASSUME NEW U \in SUBSET S, \A x \in U : U \ {x} \in H
      PROVE  Sum(hn, U) = Sum(fn, U) + Sum(gn, U)
  <2>1. IsFiniteSet(U)
    BY FS_Subset
  <2>2. CASE U = {}
    BY <2>2, SumEmpty
  <2>3. CASE U # {}
    <3>1. PICK y \in U : TRUE
      BY <2>3
    <3> DEFINE V == U \ {y}
    <3>3. Sum(fn, U) = fn[y] + Sum(fn, V) /\ fn[y] \in Nat /\ Sum(fn, V) \in Nat
      BY <1>f, <3>1
    <3>4. Sum(gn, U) = gn[y] + Sum(gn, V) /\ gn[y] \in Nat /\ Sum(gn, V) \in Nat
      BY <1>g, <3>1
    <3>5. Sum(hn, U) = hn[y] + Sum(hn, V)
      BY <1>h, <3>1
    <3>6. Sum(hn, V) = Sum(fn, V) + Sum(gn, V) /\ hn[y] = fn[y] + gn[y]
      BY <1>1, <3>1
    <3> HIDE DEF V
    <3> QED BY <3>3, <3>4, <3>5, <3>6
  <2> QED BY <2>2, <2>3
<1>2. \A U \in SUBSET S : (\A x \in U : U \ {x} \in H) => U \in H
  BY <1>1
<1>3. S \in H
  <2> HIDE DEF H
  <2>1. \A U \in SUBSET S : U \in H
    BY ONLY <1>2, SubsetInduction, IsFiniteSet(S)
  <2> QED BY <2>1
<1> QED BY <1>3

LEMMA SumOfZeros ==
  ASSUME NEW S, IsFiniteSet(S), NEW fn, \A x \in S : fn[x] = 0
  PROVE  Sum(fn, S) = 0
<1>1. \A x \in S : fn[x] \in Nat /\ fn[x] = fn[x] + fn[x]
  OBVIOUS
<1>2. Sum(fn, S) = Sum(fn, S) + Sum(fn, S)
  BY <1>1, SumAdd
<1>3. Sum(fn, S) \in Nat
  BY <1>1, SumType
<1>4. \A n \in Nat : n = n + n => n = 0
  OBVIOUS
<1> QED BY <1>2, <1>3, <1>4

LEMMA SumTimes ==
  ASSUME NEW S, IsFiniteSet(S), NEW c \in Nat, NEW fn, NEW hn,
         \A x \in S : fn[x] \in Nat /\ hn[x] = c * fn[x]
  PROVE  Sum(hn, S) = c * Sum(fn, S)
<1> DEFINE H == {U \in SUBSET S : Sum(hn, U) = c * Sum(fn, U)}
<1>f. \A U \in SUBSET S : \A y \in U :
         /\ Sum(fn, U) = fn[y] + Sum(fn, U \ {y})
         /\ fn[y] \in Nat /\ Sum(fn, U \ {y}) \in Nat
  <2>1. \A x \in S : fn[x] \in Nat
    OBVIOUS
  <2> QED BY ONLY IsFiniteSet(S), <2>1, SumWithin
<1>h. \A U \in SUBSET S : \A y \in U :
         /\ Sum(hn, U) = hn[y] + Sum(hn, U \ {y})
         /\ hn[y] \in Nat /\ Sum(hn, U \ {y}) \in Nat
  <2>1. \A x \in S : hn[x] \in Nat
    OBVIOUS
  <2> QED BY ONLY IsFiniteSet(S), <2>1, SumWithin
<1>1. ASSUME NEW U \in SUBSET S, \A x \in U : U \ {x} \in H
      PROVE  Sum(hn, U) = c * Sum(fn, U)
  <2>1. IsFiniteSet(U)
    BY FS_Subset
  <2>2. CASE U = {}
    BY <2>2, SumEmpty
  <2>3. CASE U # {}
    <3>1. PICK y \in U : TRUE
      BY <2>3
    <3> DEFINE V == U \ {y}
    <3>3. Sum(fn, U) = fn[y] + Sum(fn, V) /\ fn[y] \in Nat /\ Sum(fn, V) \in Nat
      BY <1>f, <3>1
    <3>5. Sum(hn, U) = hn[y] + Sum(hn, V)
      BY <1>h, <3>1
    <3>6. Sum(hn, V) = c * Sum(fn, V) /\ hn[y] = c * fn[y]
      BY <1>1, <3>1
    <3>7. \A a, b \in Nat : c * (a + b) = c * a + c * b
      OBVIOUS
    <3>8. Sum(hn, U) = c * (fn[y] + Sum(fn, V))
      <4> HIDE DEF V
      <4> QED BY <3>3, <3>5, <3>6, <3>7
    <3> QED BY <3>3, <3>8
  <2> QED BY <2>2, <2>3
<1>2. \A U \in SUBSET S : (\A x \in U : U \ {x} \in H) => U \in H
  BY <1>1
<1>3. S \in H
  <2> HIDE DEF H
  <2>1. \A U \in SUBSET S : U \in H
    BY ONLY <1>2, SubsetInduction, IsFiniteSet(S)
  <2> QED BY <2>1
<1> QED BY <1>3

LEMMA SumDisjoint ==
  ASSUME NEW S, NEW T, IsFiniteSet(S), IsFiniteSet(T), S \cap T = {}, NEW fn,
         \A x \in S \cup T : fn[x] \in Nat
  PROVE  Sum(fn, S \cup T) = Sum(fn, S) + Sum(fn, T)
<1> DEFINE H == {U \in SUBSET S : Sum(fn, U \cup T) = Sum(fn, U) + Sum(fn, T)}
<1>0. Sum(fn, T) \in Nat
  BY SumType
<1>1. ASSUME NEW U \in SUBSET S, \A x \in U : U \ {x} \in H
      PROVE  Sum(fn, U \cup T) = Sum(fn, U) + Sum(fn, T)
  <2>1. IsFiniteSet(U) /\ IsFiniteSet(U \cup T) /\ \A x \in U \cup T : fn[x] \in Nat
    BY FS_Subset, FS_Union
  <2>2. CASE U = {}
    <3>1. U \cup T = T /\ Sum(fn, U) = 0
      BY <2>2, SumEmpty
    <3> QED BY <1>0, <3>1
  <2>3. CASE U # {}
    <3>1. PICK y \in U : TRUE
      BY <2>3
    <3> DEFINE V == U \ {y}
    <3>2. (U \cup T) \ {y} = V \cup T /\ y \in U \cup T
      BY <3>1
    <3>0. \A x \in U : fn[x] \in Nat
      OBVIOUS
    <3>3. Sum(fn, U) = fn[y] + Sum(fn, V) /\ fn[y] \in Nat /\ Sum(fn, V) \in Nat
      BY <2>1, <3>0, <3>1, SumRemove
    <3>4. Sum(fn, U \cup T) = fn[y] + Sum(fn, V \cup T)
      <4>1. Sum(fn, U \cup T) = fn[y] + Sum(fn, (U \cup T) \ {y})
        BY <2>1, <3>2, SumRemove
      <4> QED BY <3>2, <4>1
    <3>5. Sum(fn, V \cup T) = Sum(fn, V) + Sum(fn, T)
      BY <1>1, <3>1
    <3> HIDE DEF V
    <3> QED BY <1>0, <3>3, <3>4, <3>5
  <2> QED BY <2>2, <2>3
<1>2. \A U \in SUBSET S : (\A x \in U : U \ {x} \in H) => U \in H
  BY <1>1
<1>3. S \in H
  <2> HIDE DEF H
  <2>1. \A U \in SUBSET S : U \in H
    BY ONLY <1>2, SubsetInduction, IsFiniteSet(S)
  <2> QED BY <2>1
<1> QED BY <1>3

(* The sums over the members of a family of disjoint sets add up to the    *)
(* sum over their union.                                                   *)
AreDisjoint(I, family, fn, hn) ==
    /\ IsFiniteSet(I)
    /\ \A i \in I : IsFiniteSet(family[i]) /\ hn[i] = Sum(fn, family[i])
    /\ \A i \in I : \A x \in family[i] : fn[x] \in Nat
    /\ \A i, j \in I : i # j => family[i] \cap family[j] = {}

LEMMA SumOfFamily ==
  ASSUME NEW I, NEW Family, NEW fn, NEW hn, AreDisjoint(I, Family, fn, hn)
  PROVE  /\ Sum(hn, I) = Sum(fn, UNION {Family[i] : i \in I})
         /\ IsFiniteSet(UNION {Family[i] : i \in I})
<1>a. IsFiniteSet(I)
  BY DEF AreDisjoint
<1>b. \A i \in I : IsFiniteSet(Family[i]) /\ hn[i] = Sum(fn, Family[i])
  BY DEF AreDisjoint
<1>d. \A i \in I : \A x \in Family[i] : fn[x] \in Nat
  BY DEF AreDisjoint
<1>c. \A i, j \in I : i # j => Family[i] \cap Family[j] = {}
  BY DEF AreDisjoint
<1> DEFINE All(U) == UNION {Family[i] : i \in U}
           H == {U \in SUBSET I : Sum(hn, U) = Sum(fn, All(U)) /\ IsFiniteSet(All(U))}
<1>0. \A i \in I : hn[i] \in Nat
  <2> TAKE i \in I
  <2>1. \A x \in Family[i] : fn[x] \in Nat
    BY <1>d
  <2> QED BY <1>b, <2>1, SumType
<1>1. ASSUME NEW U \in SUBSET I, \A x \in U : U \ {x} \in H
      PROVE  Sum(hn, U) = Sum(fn, All(U)) /\ IsFiniteSet(All(U))
  <2>1. IsFiniteSet(U)
    BY <1>a, FS_Subset
  <2>2. CASE U = {}
    <3>1. All(U) = {}
      BY <2>2
    <3> QED BY <2>2, <3>1, SumEmpty, FS_EmptySet
  <2>3. CASE U # {}
    <3>1. PICK y \in U : TRUE
      BY <2>3
    <3> DEFINE V == U \ {y}
    <3>2. All(U) = Family[y] \cup All(V)
      BY <3>1
    <3>3. Family[y] \cap All(V) = {}
      BY <1>c, <3>1
    <3>4. \A x \in Family[y] \cup All(V) : fn[x] \in Nat
      BY <1>d, <3>1
    <3>5. V \in H
      BY <1>1, <3>1
    <3>6. Sum(hn, V) = Sum(fn, All(V)) /\ IsFiniteSet(All(V))
      BY <3>5
    <3>7. IsFiniteSet(Family[y]) /\ hn[y] = Sum(fn, Family[y])
      BY <1>b, <3>1
    <3>8. Sum(hn, U) = hn[y] + Sum(hn, V)
      BY <1>0, <2>1, <3>1, SumRemove
    <3> HIDE DEF All, V
    <3>9. Sum(fn, Family[y] \cup All(V)) = Sum(fn, Family[y]) + Sum(fn, All(V))
      BY <3>3, <3>4, <3>6, <3>7, SumDisjoint
    <3>10. IsFiniteSet(Family[y] \cup All(V))
      BY <3>6, <3>7, FS_Union
    <3> QED BY <3>2, <3>6, <3>7, <3>8, <3>9, <3>10
  <2> QED BY <2>2, <2>3
<1>2. \A U \in SUBSET I : (\A x \in U : U \ {x} \in H) => U \in H
  <2> HIDE DEF All
  <2> QED BY <1>1
<1>3. I \in H
  <2> HIDE DEF H
  <2>1. \A U \in SUBSET I : U \in H
    BY ONLY <1>2, <1>a, SubsetInduction
  <2> QED BY <2>1
<1> QED BY <1>3

(* A table is summed by its rows or by its columns.                        *)
IsTable(I, J, row, col, hn, kn) ==
    /\ IsFiniteSet(I) /\ IsFiniteSet(J)
    /\ \A i \in I : hn[i] = Sum(row[i], J)
    /\ \A j \in J : kn[j] = Sum(col[j], I)
    /\ \A i \in I : \A j \in J : row[i][j] \in Nat /\ col[j][i] = row[i][j]

LEMMA SumSwap ==
  ASSUME NEW I, NEW J, NEW Row, NEW Col, NEW hn, NEW kn, IsTable(I, J, Row, Col, hn, kn)
  PROVE  Sum(hn, I) = Sum(kn, J)
<1> USE DEF IsTable
<1> DEFINE Part(U) == [j \in J |-> Sum(Col[j], U)]
           H == {U \in SUBSET I : Sum(hn, U) = Sum(Part(U), J)}
<1>0. \A i \in I : hn[i] \in Nat
  BY SumType
<1>1. ASSUME NEW U \in SUBSET I, \A x \in U : U \ {x} \in H
      PROVE  Sum(hn, U) = Sum(Part(U), J)
  <2>1. IsFiniteSet(U)
    BY FS_Subset
  <2>2. CASE U = {}
    <3>1. \A j \in J : Part(U)[j] = 0
      BY <2>2, SumEmpty
    <3>2. Sum(Part(U), J) = 0
      <4> HIDE DEF Part
      <4> QED BY <3>1, SumOfZeros
    <3> QED BY <2>2, <3>2, SumEmpty
  <2>3. CASE U # {}
    <3>1. PICK y \in U : TRUE
      BY <2>3
    <3> DEFINE V == U \ {y}
    <3>2. IsFiniteSet(V) /\ V \in SUBSET I
      BY <2>1, FS_Subset
    <3>3. ASSUME NEW j \in J
          PROVE  /\ Row[y][j] \in Nat /\ Part(V)[j] \in Nat
                 /\ Part(U)[j] = Row[y][j] + Part(V)[j]
      <4>1. \A x \in U : Col[j][x] \in Nat /\ Col[j][y] = Row[y][j]
        BY <3>1
      <4>2. Sum(Col[j], U) = Col[j][y] + Sum(Col[j], V) /\ Col[j][y] \in Nat /\ Sum(Col[j], V) \in Nat
        BY <2>1, <3>1, <4>1, SumRemove
      <4> QED BY <4>1, <4>2
    <3>4. Sum(Part(U), J) = Sum(Row[y], J) + Sum(Part(V), J)
      <4> HIDE DEF Part, V
      <4> QED BY <3>3, SumAdd
    <3>5. V \in H
      BY <1>1, <3>1
    <3>6. Sum(hn, V) = Sum(Part(V), J)
      BY <3>5
    <3>7. Sum(hn, U) = hn[y] + Sum(hn, V) /\ hn[y] = Sum(Row[y], J)
      BY <1>0, <2>1, <3>1, SumRemove
    <3> HIDE DEF Part, V
    <3> QED BY <3>4, <3>6, <3>7
  <2> QED BY <2>2, <2>3
<1>2. \A U \in SUBSET I : (\A x \in U : U \ {x} \in H) => U \in H
  <2> HIDE DEF Part
  <2> QED BY <1>1
<1>3. I \in H
  <2> HIDE DEF H
  <2>1. \A U \in SUBSET I : U \in H
    <3>1. IsFiniteSet(I)
      OBVIOUS
    <3> QED BY ONLY <1>2, <3>1, SubsetInduction
  <2> QED BY <2>1
<1>4. Sum(hn, I) = Sum(Part(I), J)
  BY <1>3
<1>5. \A j \in J : Part(I)[j] = kn[j]
  OBVIOUS
<1> QED
  <2> HIDE DEF Part
  <2> QED BY <1>4, <1>5, SumAlike

(***************************************************************************)
(* What a profile's functions are credited with (HotList)                  *)
(***************************************************************************)

(* The weights of a profile's stacks, and a finite set of its stacks.      *)
Weights(stacks) == [k \in DOMAIN stacks |-> stacks[k].weight]

LEMMA WeightIsSum ==
  ASSUME NEW stacks \in Stacks
  PROVE  /\ IsFiniteSet(DOMAIN stacks)
         /\ \A k \in DOMAIN stacks : Weights(stacks)[k] \in Nat
         /\ \A at \in SUBSET DOMAIN stacks :
               /\ IsFiniteSet(at)
               /\ Weight(stacks, at) = Sum(Weights(stacks), at)
               /\ Weight(stacks, at) \in Nat
<1>1. DOMAIN stacks = 1 .. Len(stacks) /\ Len(stacks) \in Nat
      /\ \A k \in DOMAIN stacks : stacks[k] \in [frames : Seq(Range(Symbols)), weight : Nat]
  <2> DEFINE T == [frames : Seq(Range(Symbols)), weight : Nat]
  <2>1. stacks \in Seq(T)
    BY DEF Stacks
  <2> HIDE DEF T
  <2>2. DOMAIN stacks = 1 .. Len(stacks) /\ Len(stacks) \in Nat
    BY <2>1
  <2>3. \A k \in DOMAIN stacks : stacks[k] \in T
    BY <2>1, <2>2
  <2> QED BY <2>2, <2>3 DEF T
<1>2. IsFiniteSet(DOMAIN stacks)
  BY <1>1, FS_Interval
<1>3. \A k \in DOMAIN stacks : stacks[k].weight \in Nat
  BY <1>1
<1>4. \A k \in DOMAIN stacks : Weights(stacks)[k] = stacks[k].weight
  BY DEF Weights
<1>5. ASSUME NEW at \in SUBSET DOMAIN stacks
      PROVE  /\ IsFiniteSet(at)
             /\ Weight(stacks, at) = Sum(Weights(stacks), at)
             /\ Weight(stacks, at) \in Nat
  <2> DEFINE w == [k \in at |-> stacks[k].weight]
  <2>1. IsFiniteSet(at)
    BY <1>2, FS_Subset
  <2>2. DOMAIN w = at /\ \A k \in at : w[k] = Weights(stacks)[k] /\ w[k] \in Nat
    BY <1>3, <1>4
  <2>3. Weight(stacks, at) = SumFunction(w)
    BY DEF Weight
  <2> HIDE DEF w
  <2>4. SumFunction(w) = Sum(w, at)
    BY <2>1, <2>2, SumOfFunction
  <2>5. Sum(w, at) = Sum(Weights(stacks), at)
    BY <2>1, <2>2, SumAlike
  <2>6. Sum(w, at) \in Nat
    BY <2>1, <2>2, SumType
  <2> QED BY <2>1, <2>3, <2>4, <2>5, <2>6
<1> QED BY <1>2, <1>3, <1>4, <1>5

LEMMA StackType ==
  ASSUME NEW stacks \in Stacks, NEW k \in DOMAIN stacks
  PROVE  stacks[k].frames \in Seq(Range(Symbols))
<1> DEFINE T == [frames : Seq(Range(Symbols)), weight : Nat]
<1>1. stacks \in Seq(T)
  BY DEF Stacks
<1>2. stacks[k] \in T
  <2> HIDE DEF T
  <2> QED BY <1>1
<1> QED BY <1>2

LEMMA OwnAndCallsFinite ==
  ASSUME NEW stacks
  PROVE  IsFiniteSet(Own) /\ IsFiniteSet(Calls(stacks))
<1>1. Own \subseteq Range(Symbols) /\ Calls(stacks) \subseteq Range(Symbols)
  BY HotListAssumption DEF Calls
<1> QED BY <1>1, HotListAssumption, FS_Subset

(* The innermost own frame is an own frame.                                *)
LEMMA InnermostIsOwn ==
  ASSUME NEW frames \in Seq(Range(Symbols))
  PROVE  /\ Innermost(frames) \in Nat
         /\ Innermost(frames) > 0 => frames[Innermost(frames)] \in Own
<1> DEFINE I == {i \in 1 .. Len(frames) : frames[i] \in Own}
<1>1. Innermost(frames) = IF I # {} THEN Min(I) ELSE 0
  BY DEF Innermost, SelectInSeq
<1>2. CASE I = {}
  BY <1>1, <1>2
<1>3. CASE I # {}
  <2>1. I \in SUBSET Nat
    BY Z3
  <2>2. \E i \in I : \A j \in I : i <= j
    <3> HIDE DEF I
    <3> QED BY <1>3, <2>1, LeastPlace
  <2>3. Min(I) \in I
    <3> HIDE DEF I
    <3> QED BY <2>2 DEF Min
  <2> QED BY <1>1, <1>3, <2>1, <2>3
<1> QED BY <1>2, <1>3

(* What the functions are credited with directly is what was seen under    *)
(* one of them.                                                            *)
Seen(stacks) == {k \in DOMAIN stacks : Innermost(stacks[k].frames) > 0}

LEMMA CreditedIsSeen ==
  ASSUME NEW stacks \in Stacks
  PROVE  /\ \A f \in Own : Credited(stacks, f) \in SUBSET DOMAIN stacks
         /\ Sum([f \in Own |-> Weight(stacks, Credited(stacks, f))], Own)
              = Weight(stacks, Seen(stacks))
<1> DEFINE family == [f \in Own |-> Credited(stacks, f)]
           hn == [f \in Own |-> Weight(stacks, Credited(stacks, f))]
<1>1. \A f \in Own : Credited(stacks, f) \in SUBSET DOMAIN stacks
  BY DEF Credited
<1>2. \A f \in Own : /\ IsFiniteSet(family[f])
                     /\ \A k \in family[f] : Weights(stacks)[k] \in Nat
                     /\ hn[f] = Sum(Weights(stacks), family[f])
  BY <1>1, WeightIsSum
<1>3. \A f, g \in Own : f # g => family[f] \cap family[g] = {}
  BY DEF Credited
<1>4. IsFiniteSet(Own)
  BY OwnAndCallsFinite
<1>5. Sum(hn, Own) = Sum(Weights(stacks), UNION {family[f] : f \in Own})
  <2> HIDE DEF family, hn
  <2>1. AreDisjoint(Own, family, Weights(stacks), hn)
    BY <1>2, <1>3, <1>4 DEF AreDisjoint
  <2> QED BY <2>1, SumOfFamily
<1>6. UNION {family[f] : f \in Own} = Seen(stacks)
  <2>1. ASSUME NEW k \in Seen(stacks)
        PROVE  \E f \in Own : k \in family[f]
    <3>1. k \in DOMAIN stacks /\ stacks[k].frames \in Seq(Range(Symbols))
          /\ Innermost(stacks[k].frames) > 0
      <4>1. k \in DOMAIN stacks /\ Innermost(stacks[k].frames) > 0
        BY DEF Seen
      <4> QED BY <4>1, StackType
    <3>2. stacks[k].frames[Innermost(stacks[k].frames)] \in Own
      BY <3>1, InnermostIsOwn
    <3> QED BY <3>1, <3>2 DEF Credited
  <2>2. \A f \in Own : family[f] \subseteq Seen(stacks)
    BY DEF Credited, Seen
  <2> HIDE DEF family
  <2> QED BY <2>1, <2>2
<1>7. Seen(stacks) \in SUBSET DOMAIN stacks
  BY DEF Seen
<1> QED BY <1>1, <1>5, <1>6, <1>7, WeightIsSum

(* The orphaned calls that are shared weigh what their calls weigh.        *)
Adopted(stacks) == UNION {Orphaned(stacks, syscall) : syscall \in Calls(stacks)}

LEMMA OrphansAddUp ==
  ASSUME NEW stacks \in Stacks
  PROVE  /\ \A syscall : Orphaned(stacks, syscall) \in SUBSET DOMAIN stacks
         /\ Adopted(stacks) \in SUBSET DOMAIN stacks
         /\ Sum([syscall \in Calls(stacks) |-> Weight(stacks, Orphaned(stacks, syscall))], Calls(stacks))
              = Weight(stacks, Adopted(stacks))
<1> DEFINE C == Calls(stacks)
           family == [syscall \in C |-> Orphaned(stacks, syscall)]
           hn == [syscall \in C |-> Weight(stacks, Orphaned(stacks, syscall))]
<1>1. \A syscall : Orphaned(stacks, syscall) \in SUBSET DOMAIN stacks
  BY DEF Orphaned
<1>2. \A c \in C : /\ IsFiniteSet(family[c])
                   /\ \A k \in family[c] : Weights(stacks)[k] \in Nat
                   /\ hn[c] = Sum(Weights(stacks), family[c])
  BY <1>1, WeightIsSum
<1>3. \A c, d \in C : c # d => family[c] \cap family[d] = {}
  BY DEF Orphaned
<1>4. IsFiniteSet(C)
  BY OwnAndCallsFinite
<1>5. Sum(hn, C) = Sum(Weights(stacks), UNION {family[c] : c \in C})
  <2> HIDE DEF family, hn, C
  <2>1. AreDisjoint(C, family, Weights(stacks), hn)
    BY <1>2, <1>3, <1>4 DEF AreDisjoint
  <2> QED BY <2>1, SumOfFamily
<1>6. UNION {family[c] : c \in C} = Adopted(stacks)
  BY DEF Adopted
<1>7. Adopted(stacks) \in SUBSET DOMAIN stacks
  BY <1>1 DEF Adopted
<1> QED BY <1>1, <1>5, <1>6, <1>7, WeightIsSum

(* The denominator is divisible by what was seen of each call.             *)
LEMMA SeenType ==
  ASSUME NEW stacks \in Stacks, NEW syscall
  PROVE  /\ \A f \in Own : Weight(stacks, Calling(stacks, f, syscall)) \in Nat
         /\ SeenCalling(stacks, syscall)
              = Sum([f \in Own |-> Weight(stacks, Calling(stacks, f, syscall))], Own)
         /\ SeenCalling(stacks, syscall) \in Nat
<1> DEFINE hn == [f \in Own |-> Weight(stacks, Calling(stacks, f, syscall))]
<1>1. \A f \in Own : Calling(stacks, f, syscall) \in SUBSET DOMAIN stacks
  BY DEF Calling, Credited
<1>2. \A f \in Own : Weight(stacks, Calling(stacks, f, syscall)) \in Nat
  BY <1>1, WeightIsSum
<1>3. DOMAIN hn = Own /\ \A f \in Own : hn[f] \in Nat
  BY <1>2
<1>4. SeenCalling(stacks, syscall) = SumFunction(hn)
  BY DEF SeenCalling
<1>5. SumFunction(hn) = Sum(hn, Own) /\ Sum(hn, Own) \in Nat
  <2> HIDE DEF hn
  <2> QED BY <1>3, OwnAndCallsFinite, SumOfFunction, SumType
<1> QED BY <1>2, <1>4, <1>5

LEMMA DivisionIsExact ==
  ASSUME NEW a \in Nat, a > 0, NEW b \in Nat
  PROVE  (a * b) \div a = b /\ a * ((a * b) \div a) = a * b
<1>1. (a * b) \div a = b
  OBVIOUS
<1> QED BY <1>1

LEMMA DenominatorDivides ==
  ASSUME NEW stacks \in Stacks
  PROVE  /\ Denominator(stacks) \in Nat
         /\ \A syscall \in Calls(stacks) :
              /\ Denominator(stacks) \div SeenCalling(stacks, syscall) \in Nat
              /\ SeenCalling(stacks, syscall) * (Denominator(stacks) \div SeenCalling(stacks, syscall))
                   = Denominator(stacks)
<1> DEFINE C == Calls(stacks)
           seen == [syscall \in C |-> SeenCalling(stacks, syscall)]
<1>1. IsFiniteSet(C)
  BY OwnAndCallsFinite
<1>2. DOMAIN seen = C /\ \A syscall \in C : seen[syscall] \in Nat /\ seen[syscall] > 0
  BY SeenType DEF Calls
<1>3. Denominator(stacks) = FoldFunctionOnSet(LAMBDA a, b : a * b, 1, seen, DOMAIN seen)
  BY DEF Denominator, Product, FoldFunction
<1>4. Denominator(stacks) = FoldOf("product", seen, C)
  <2> HIDE DEF seen, C
  <2> QED BY <1>1, <1>2, <1>3, ProductIsFold
<1>5. Denominator(stacks) \in Nat
  <2> HIDE DEF seen, C
  <2> QED BY <1>1, <1>2, <1>4, FoldType DEF Kinds
<1>6. ASSUME NEW syscall \in C
      PROVE  /\ Denominator(stacks) \div seen[syscall] \in Nat
             /\ seen[syscall] * (Denominator(stacks) \div seen[syscall]) = Denominator(stacks)
  <2> DEFINE rest == FoldOf("product", seen, C \ {syscall})
  <2> HIDE DEF seen, C
  <2>1. IsFiniteSet(C \ {syscall}) /\ \A x \in C \ {syscall} : seen[x] \in Nat
    BY <1>1, <1>2, FS_Subset
  <2>2. rest \in Nat
    BY <2>1, FoldType DEF Kinds
  <2>3. FoldOf("product", seen, C) = Taken("product", seen[syscall], rest)
    BY <1>1, <1>2, FoldRemove DEF Kinds
  <2> HIDE DEF rest
  <2>4. Denominator(stacks) = seen[syscall] * rest
    BY <1>4, <2>3 DEF Taken
  <2>5. seen[syscall] \in Nat /\ seen[syscall] > 0
    BY <1>2
  <2>6. (seen[syscall] * rest) \div seen[syscall] = rest
    BY <2>2, <2>5, DivisionIsExact
  <2> QED BY <2>2, <2>4, <2>6
<1> QED BY <1>5, <1>6

(* A call's orphans are divided without a remainder, so the shares of all  *)
(* functions in all calls are the adopted samples.                         *)
Cell(stacks, f, syscall) ==
    Weight(stacks, Orphaned(stacks, syscall))
      * Weight(stacks, Calling(stacks, f, syscall))
      * (Denominator(stacks) \div SeenCalling(stacks, syscall))

LEMMA CellType ==
  ASSUME NEW stacks \in Stacks, NEW f \in Own, NEW syscall \in Calls(stacks)
  PROVE  Cell(stacks, f, syscall) \in Nat
<1>1. Weight(stacks, Orphaned(stacks, syscall)) \in Nat
  BY OrphansAddUp, WeightIsSum
<1>2. Weight(stacks, Calling(stacks, f, syscall)) \in Nat
  BY SeenType
<1>3. Denominator(stacks) \div SeenCalling(stacks, syscall) \in Nat
  BY DenominatorDivides
<1>4. \A a, b, c \in Nat : a * b * c \in Nat
  OBVIOUS
<1> QED BY <1>1, <1>2, <1>3, <1>4 DEF Cell

LEMMA SharesOfACall ==
  ASSUME NEW stacks \in Stacks, NEW syscall \in Calls(stacks)
  PROVE  Sum([f \in Own |-> Cell(stacks, f, syscall)], Own)
            = Denominator(stacks) * Weight(stacks, Orphaned(stacks, syscall))
<1> DEFINE o == Weight(stacks, Orphaned(stacks, syscall))
           q == Denominator(stacks) \div SeenCalling(stacks, syscall)
           s == SeenCalling(stacks, syscall)
           calling == [f \in Own |-> Weight(stacks, Calling(stacks, f, syscall))]
           cells == [f \in Own |-> Cell(stacks, f, syscall)]
<1>1. o \in Nat
  BY OrphansAddUp, WeightIsSum
<1>2. q \in Nat /\ s * q = Denominator(stacks) /\ Denominator(stacks) \in Nat
  BY DenominatorDivides
<1>3. s = Sum(calling, Own) /\ s \in Nat
  BY SeenType
<1>4. \A f \in Own : calling[f] \in Nat /\ cells[f] = o * calling[f] * q
  BY SeenType DEF Cell
<1> HIDE DEF o, q, s, calling, cells
<1>5. \A n \in Nat : o * n * q = (o * q) * n
  BY <1>1, <1>2
<1>6. o * q \in Nat
  BY <1>1, <1>2
<1>7. \A f \in Own : calling[f] \in Nat /\ cells[f] = (o * q) * calling[f]
  BY <1>4, <1>5
<1>8. Sum(cells, Own) = (o * q) * Sum(calling, Own)
  BY ONLY <1>6, <1>7, OwnAndCallsFinite, SumTimes
<1>9. (o * q) * s = (s * q) * o
  BY <1>1, <1>2, <1>3
<1> QED BY <1>2, <1>3, <1>8, <1>9 DEF cells, o

LEMMA SharesAddUp ==
  ASSUME NEW stacks \in Stacks
  PROVE  /\ \A f \in Own : ShareOrphans(stacks, f) \in Nat
         /\ Sum([f \in Own |-> ShareOrphans(stacks, f)], Own)
              = Denominator(stacks) * Weight(stacks, Adopted(stacks))
<1> DEFINE C == Calls(stacks)
           row == [f \in Own |-> [syscall \in C |-> Cell(stacks, f, syscall)]]
           col == [syscall \in C |-> [f \in Own |-> Cell(stacks, f, syscall)]]
           share == [f \in Own |-> ShareOrphans(stacks, f)]
           orphans == [syscall \in C |-> Weight(stacks, Orphaned(stacks, syscall))]
           whole == [syscall \in C |-> Denominator(stacks) * Weight(stacks, Orphaned(stacks, syscall))]
<1>1. IsFiniteSet(Own) /\ IsFiniteSet(C)
  BY OwnAndCallsFinite
<1>2. ASSUME NEW f \in Own
      PROVE  share[f] = Sum(row[f], C) /\ share[f] \in Nat
  <2>1. DOMAIN row[f] = C /\ \A syscall \in C : row[f][syscall] \in Nat
    BY CellType
  <2>2. ShareOrphans(stacks, f) = SumFunction(row[f])
    BY DEF ShareOrphans, Cell
  <2>3. share[f] = SumFunction(row[f])
    BY <2>2
  <2> HIDE DEF row, share, C
  <2>4. SumFunction(row[f]) = Sum(row[f], C) /\ Sum(row[f], C) \in Nat
    BY <1>1, <2>1, SumOfFunction, SumType
  <2> QED BY <2>3, <2>4
<1>3. \A syscall \in C : whole[syscall] = Sum(col[syscall], Own)
  BY SharesOfACall
<1>4. \A f \in Own : \A syscall \in C : row[f][syscall] \in Nat /\ col[syscall][f] = row[f][syscall]
  BY CellType
<1>5. Sum(share, Own) = Sum(whole, C)
  <2>1. \A f \in Own : share[f] = Sum(row[f], C)
    BY <1>2
  <2> HIDE DEF row, col, share, whole, C
  <2>2. IsTable(Own, C, row, col, share, whole)
    BY <1>1, <2>1, <1>3, <1>4 DEF IsTable
  <2> QED BY <2>2, SumSwap
<1>6. \A syscall \in C : orphans[syscall] \in Nat /\ whole[syscall] = Denominator(stacks) * orphans[syscall]
  BY OrphansAddUp, WeightIsSum
<1>7. Denominator(stacks) \in Nat
  BY DenominatorDivides
<1>8. Sum(whole, C) = Denominator(stacks) * Sum(orphans, C)
  <2> HIDE DEF orphans, whole, C
  <2> QED BY ONLY <1>1, <1>6, <1>7, SumTimes
<1>9. Sum(orphans, C) = Weight(stacks, Adopted(stacks))
  BY OrphansAddUp
<1> QED BY <1>2, <1>5, <1>8, <1>9

(* Crediting conserves every profile.                                      *)
LEMMA EveryProfileIsConserved ==
  ASSUME NEW stacks \in Stacks
  PROVE  Conserved(stacks)
<1> DEFINE d == Denominator(stacks)
           direct == [f \in Own |-> Weight(stacks, Credited(stacks, f))]
           scaled == [f \in Own |-> d * Weight(stacks, Credited(stacks, f))]
           share == [f \in Own |-> ShareOrphans(stacks, f)]
           credit == [f \in Own |-> Credit(stacks, f)]
           a == Weight(stacks, Seen(stacks))
           b == Weight(stacks, Adopted(stacks))
<1>1. IsFiniteSet(Own) /\ d \in Nat
  BY OwnAndCallsFinite, DenominatorDivides
<1>2. /\ Seen(stacks) \in SUBSET DOMAIN stacks /\ Adopted(stacks) \in SUBSET DOMAIN stacks
      /\ Seen(stacks) \cap Adopted(stacks) = {}
  <2>1. \A k \in Adopted(stacks) : Innermost(stacks[k].frames) = 0
    BY DEF Adopted, Orphaned
  <2>2. Seen(stacks) \in SUBSET DOMAIN stacks
        /\ \A k \in Seen(stacks) : Innermost(stacks[k].frames) # 0
    <3>1. \A k \in Seen(stacks) : k \in DOMAIN stacks /\ Innermost(stacks[k].frames) > 0
      BY DEF Seen
    <3> QED BY <3>1, StackType, InnermostIsOwn
  <2>3. Adopted(stacks) \in SUBSET DOMAIN stacks
    BY OrphansAddUp
  <2> QED BY <2>1, <2>2, <2>3
<1>3. a \in Nat /\ b \in Nat /\ Weight(stacks, Seen(stacks) \cup Adopted(stacks)) = a + b
  <2> DEFINE u == Seen(stacks) \cup Adopted(stacks)
  <2>1. u \in SUBSET DOMAIN stacks
    BY <1>2
  <2>2. /\ IsFiniteSet(Seen(stacks)) /\ IsFiniteSet(Adopted(stacks))
        /\ \A k \in u : Weights(stacks)[k] \in Nat
    BY <1>2, <2>1, WeightIsSum
  <2>3. Sum(Weights(stacks), u) = Sum(Weights(stacks), Seen(stacks))
                                    + Sum(Weights(stacks), Adopted(stacks))
    BY <1>2, <2>2, SumDisjoint
  <2> QED BY <1>2, <2>1, <2>3, WeightIsSum
<1>4. \A f \in Own : /\ direct[f] \in Nat /\ scaled[f] = d * direct[f]
                     /\ scaled[f] \in Nat /\ share[f] \in Nat
                     /\ credit[f] = scaled[f] + share[f]
  <2> TAKE f \in Own
  <2>1. Weight(stacks, Credited(stacks, f)) \in Nat
    BY CreditedIsSeen, WeightIsSum
  <2>2. ShareOrphans(stacks, f) \in Nat
    BY SharesAddUp
  <2>3. Credit(stacks, f) = Weight(stacks, Credited(stacks, f)) * d + ShareOrphans(stacks, f)
    BY DEF Credit
  <2>4. \A n \in Nat : d * n \in Nat /\ n * d = d * n
    BY <1>1
  <2> QED BY <2>1, <2>2, <2>3, <2>4
<1>5. Sum(direct, Own) = a /\ Sum(share, Own) = d * b
  BY CreditedIsSeen, SharesAddUp
<1>6. SumFunction(credit) = Sum(credit, Own)
  BY <1>1, SumOfFunction
<1> HIDE DEF d, direct, scaled, share, credit, a, b
<1>7. Sum(scaled, Own) = d * a
  <2>1. Sum(scaled, Own) = d * Sum(direct, Own)
    BY ONLY <1>1, <1>4, SumTimes
  <2> QED BY <1>5, <2>1
<1>8. Sum(credit, Own) = d * a + d * b
  <2>1. Sum(credit, Own) = Sum(scaled, Own) + Sum(share, Own)
    BY ONLY <1>1, <1>4, SumAdd
  <2> QED BY <1>5, <1>7, <2>1
<1>9. SumFunction(credit) = d * (a + b)
  <2>1. d * (a + b) = d * a + d * b
    BY <1>1, <1>3
  <2> QED BY <1>6, <1>8, <2>1
<1>10. SumFunction(credit) = d * Weight(stacks, Seen(stacks) \cup Adopted(stacks))
  BY <1>3, <1>9
<1> QED BY <1>10 DEF Conserved, Seen, Adopted, credit, d

(* A product of numbers above zero is one, and so the denominator.         *)
LEMMA ProductIsPositive ==
  ASSUME NEW fn, NEW S, IsFiniteSet(S), \A x \in S : fn[x] \in Nat /\ fn[x] > 0
  PROVE  FoldOf("product", fn, S) > 0
<1> DEFINE H == {U \in SUBSET S : FoldOf("product", fn, U) > 0}
<1>1. ASSUME NEW U \in SUBSET S, \A x \in U : U \ {x} \in H
      PROVE  U \in H
  <2>1. IsFiniteSet(U)
    BY FS_Subset
  <2>2. CASE U = {}
    BY <2>1, <2>2, FoldEquation DEF Unit
  <2>3. CASE U # {}
    <3> DEFINE a == fn[Chosen(U)]
               b == FoldOf("product", fn, U \ {Chosen(U)})
    <3>1. /\ Chosen(U) \in U
          /\ FoldOf("product", fn, U) = Taken("product", a, b)
      BY <2>1, <2>3, FoldEquation
    <3>2. a \in Nat /\ a > 0 /\ b > 0
      BY <1>1, <3>1
    <3>3. b \in Nat
      <4>1. IsFiniteSet(U \ {Chosen(U)}) /\ \A x \in U \ {Chosen(U)} : fn[x] \in Nat
        BY <2>1, FS_Subset
      <4> QED BY <4>1, FoldType DEF Kinds
    <3> HIDE DEF a, b
    <3>4. a * b > 0
      BY <3>2, <3>3
    <3> QED BY <3>1, <3>4 DEF Taken
  <2> QED BY <2>2, <2>3
<1>2. S \in H
  <2> HIDE DEF H
  <2>1. \A U \in SUBSET S : (\A x \in U : U \ {x} \in H) => U \in H
    BY <1>1
  <2>2. \A U \in SUBSET S : U \in H
    BY ONLY <2>1, SubsetInduction, IsFiniteSet(S)
  <2> QED BY <2>2
<1> QED BY <1>2

LEMMA DenominatorIsPositive ==
  ASSUME NEW stacks \in Stacks
  PROVE  Denominator(stacks) > 0
<1> DEFINE C == Calls(stacks)
           seen == [syscall \in C |-> SeenCalling(stacks, syscall)]
<1>1. IsFiniteSet(C)
  BY OwnAndCallsFinite
<1>2. DOMAIN seen = C /\ \A syscall \in C : seen[syscall] \in Nat /\ seen[syscall] > 0
  BY SeenType DEF Calls
<1>3. Denominator(stacks) = FoldFunctionOnSet(LAMBDA a, b : a * b, 1, seen, DOMAIN seen)
  BY DEF Denominator, Product, FoldFunction
<1> HIDE DEF seen, C
<1>4. Denominator(stacks) = FoldOf("product", seen, C)
  BY <1>1, <1>2, <1>3, ProductIsFold
<1> QED BY <1>1, <1>2, <1>4, ProductIsPositive

(* Rounding to the nearest multiple of b moves a number by half of b at    *)
(* most.                                                                   *)
LEMMA NearestMultiple ==
  ASSUME NEW a \in Nat, NEW b \in Nat, b > 0
  PROVE  LET n == (2 * a + b) \div (2 * b)
         IN  n \in Nat /\ 2 * b * n <= 2 * a + b /\ 2 * a + b < 2 * b * n + 2 * b
<1> DEFINE x == 2 * a + b
           y == 2 * b
           n == x \div y
<1>1. x \in Nat /\ y \in Nat /\ y > 0
  OBVIOUS
<1>2. n \in Nat /\ y * n <= x /\ x < y * n + y
  <2> HIDE DEF x, y
  <2> QED BY <1>1
<1> QED BY <1>2

(* The credits a sample keeps are the exact ones rounded: none is off by   *)
(* more than half a sample, and two of them stay in order.                 *)
LEMMA EveryCreditIsRounded ==
  ASSUME NEW stacks \in Stacks
  PROVE  Rounded(stacks, AttributeToOwn(stacks))
<1> DEFINE d == Denominator(stacks)
           credit == [f \in Own |-> Credit(stacks, f)]
           kept == AttributeToOwn(stacks)
<1>1. d \in Nat /\ d > 0
  BY DenominatorDivides, DenominatorIsPositive
<1>2. \A f \in Own : credit[f] = Credit(stacks, f) /\ credit[f] \in Nat
  <2> TAKE f \in Own
  <2>1. Weight(stacks, Credited(stacks, f)) \in Nat
    BY CreditedIsSeen, WeightIsSum
  <2>2. ShareOrphans(stacks, f) \in Nat
    BY SharesAddUp
  <2>3. Credit(stacks, f) = Weight(stacks, Credited(stacks, f)) * d + ShareOrphans(stacks, f)
    BY DEF Credit
  <2>4. \A n \in Nat : n * d \in Nat
    BY <1>1
  <2> QED BY <2>1, <2>2, <2>3, <2>4
<1>3. \A f \in Own : kept[f] = (2 * credit[f] + d) \div (2 * d)
  BY <1>2 DEF AttributeToOwn
<1> HIDE DEF d, credit, kept
<1>4. \A f \in Own : /\ kept[f] \in Nat /\ 2 * d * kept[f] <= 2 * credit[f] + d
                     /\ 2 * credit[f] + d < 2 * d * kept[f] + 2 * d
  BY <1>1, <1>2, <1>3, NearestMultiple
<1>5. \A n \in Nat : 2 * d * n \in Nat
  BY <1>1
<1>6. ASSUME NEW f \in Own
      PROVE  2 * credit[f] - 2 * d * kept[f] \in -d .. d
  <2>1. PICK n : n = 2 * d * kept[f]
    OBVIOUS
  <2>2. n \in Nat /\ n <= 2 * credit[f] + d /\ 2 * credit[f] + d < n + 2 * d
    BY <1>4, <1>5, <2>1
  <2>3. 2 * credit[f] - n \in -d .. d
    BY <1>1, <1>2, <2>2
  <2> QED BY <2>1, <2>3
<1>7. ASSUME NEW f \in Own, NEW g \in Own, kept[f] > kept[g]
      PROVE  credit[f] > credit[g]
  <2>1. PICK k \in Nat : kept[f] = kept[g] + 1 + k
    <3>1. kept[f] - kept[g] - 1 \in Nat /\ kept[f] = kept[g] + 1 + (kept[f] - kept[g] - 1)
      BY <1>4, <1>7
    <3> QED BY <3>1
  <2>2. 2 * d * kept[f] = 2 * d * kept[g] + 2 * d + 2 * d * k
    BY <1>1, <1>4, <2>1
  <2>3. PICK m, n, r : m = 2 * d * kept[f] /\ n = 2 * d * kept[g] /\ r = 2 * d * k
    OBVIOUS
  <2>4. /\ m \in Nat /\ n \in Nat /\ r \in Nat /\ m = n + 2 * d + r
        /\ m <= 2 * credit[f] + d /\ 2 * credit[g] + d < n + 2 * d
    BY <1>4, <1>5, <2>1, <2>2, <2>3
  <2> QED BY <1>1, <1>2, <1>7, <2>4
<1> QED BY <1>2, <1>6, <1>7 DEF Rounded, d, kept

(* A step of the sampler adds the sample of one profile, or none.          *)
LEMMA SampledOrNot ==
    ASSUME EvidenceInv, SampleOnce
    PROVE  \/ disc'.samples = disc.samples
           \/ \E stacks \in Profiles : \E run :
                 disc'.samples = Append(disc.samples, SampleOf(run, stacks))
<1>1. DOMAIN disc = DiscoveryFields
  BY DEF EvidenceInv, EvidenceOf
<1> DEFINE run == <<disc.nth, Work.seed.id, Head(disc.try)>>
<1>2. PICK t \in Transcripts :
        disc' = IF t.kind = "sample" THEN Sampled(SampleOf(run, t.stacks))
                ELSE IF NextRung(Work, Head(disc.try), t.kind) # <<>>
                THEN [disc EXCEPT !.try = NextRung(Work, Head(disc.try), t.kind)]
                ELSE Missed
  BY DEF SampleOnce
<1> HIDE DEF run
<1>3. CASE t.kind = "sample"
  <2>1. t.stacks \in Profiles
    <3>1. ASSUME NEW k \in {"unavailable", "early", "failed", "noframes", "idle", "error"}
          PROVE  k # "sample"
      OBVIOUS
    <3> QED BY <1>3, <3>1 DEF Transcripts
  <2> DEFINE s == SampleOf(run, t.stacks)
  <2>2. disc' = Sampled(s)
    BY <1>2, <1>3
  <2>3. disc'.samples = Append(disc.samples, s)
    <3> HIDE DEF s
    <3> QED BY <1>1, <2>2 DEF Sampled, Onward, DiscoveryFields
  <2> QED BY <2>1, <2>3
<1>4. CASE t.kind # "sample" /\ NextRung(Work, Head(disc.try), t.kind) # <<>>
  BY <1>1, <1>2, <1>4 DEF DiscoveryFields
<1>5. CASE t.kind # "sample" /\ NextRung(Work, Head(disc.try), t.kind) = <<>>
  BY <1>1, <1>2, <1>5 DEF Missed, Onward, DiscoveryFields
<1> QED BY <1>3, <1>4, <1>5

(* Every sample shows a profile discovery may read, and keeps its reading. *)
ShowsAProfile(samples) ==
    \A i \in DOMAIN samples : /\ samples[i].stacks \in Profiles
                              /\ samples[i].reading = ProfileReadings[samples[i].stacks]

LEMMA AnotherProfile ==
    ASSUME NEW samples, IsList(samples), ShowsAProfile(samples),
           NEW run, NEW stacks \in Profiles
    PROVE  ShowsAProfile(Append(samples, SampleOf(run, stacks)))
<1> DEFINE s == SampleOf(run, stacks)
<1>1. s.stacks \in Profiles /\ s.reading = ProfileReadings[s.stacks]
  BY DEF SampleOf
<1> HIDE DEF s
<1>2. \A i \in DOMAIN Append(samples, s) :
         \/ Append(samples, s)[i] = s
         \/ i \in DOMAIN samples /\ Append(samples, s)[i] = samples[i]
  BY AppendToList
<1>3. ShowsAProfile(Append(samples, s))
  BY <1>1, <1>2 DEF ShowsAProfile
<1> QED BY <1>3 DEF s

(* The fields that change after the samples are taken are others.          *)
LEMMA SamplesStay ==
    ASSUME NEW d, DOMAIN d = DiscoveryFields, NEW e,
           \/ \E phase, pending, try :
                 e = [d EXCEPT !.phase = phase, !.pending = pending, !.try = try]
           \/ \E phase, source, pgo, hot, writes :
                 e = [d EXCEPT !.phase = phase, !.source = source, !.pgo = pgo, !.hot = hot,
                               !.writes = writes]
           \/ \E phase, source, pgo, hot :
                 e = [d EXCEPT !.phase = phase, !.source = source, !.pgo = pgo, !.hot = hot]
           \/ \E phase, pgo : e = [d EXCEPT !.phase = phase, !.pgo = pgo]
           \/ \E phase, hot : e = [d EXCEPT !.phase = phase, !.hot = hot]
           \/ \E phase : e = [d EXCEPT !.phase = phase]
    PROVE  e.samples = d.samples
BY DEF DiscoveryFields

LEMMA ProfilesInvariant == DiscoverySpec => []ShowsAProfile(disc.samples)
<1>1. DiscoveryInit => ShowsAProfile(disc.samples)
  BY DEF DiscoveryInit, StartDiscovery, NoSamples, ShowsAProfile
<1>2. ShowsAProfile(disc.samples) /\ EvidenceInv /\ [DiscoveryNext]_discoveryVars
        => ShowsAProfile(disc.samples)'
  <2> SUFFICES ASSUME ShowsAProfile(disc.samples), EvidenceInv, [DiscoveryNext]_discoveryVars
               PROVE  ShowsAProfile(disc'.samples)
    OBVIOUS
  <2>0. DOMAIN disc = DiscoveryFields /\ IsList(disc.samples)
    BY DEF EvidenceInv, EvidenceOf
  <2>1. CASE SampleOnce
    <3>1. CASE disc'.samples = disc.samples
      BY <3>1
    <3>2. ASSUME NEW stacks \in Profiles, NEW run,
                 disc'.samples = Append(disc.samples, SampleOf(run, stacks))
          PROVE  ShowsAProfile(disc'.samples)
      <4>1. ShowsAProfile(Append(disc.samples, SampleOf(run, stacks)))
        BY <2>0, AnotherProfile
      <4> QED BY <3>2, <4>1
    <3> QED BY <2>1, <3>1, <3>2, SampledOrNot
  <2>2. CASE DiscoveryCancelled \/ Rediscover
    BY <2>2 DEF DiscoveryCancelled, Rediscover, StartDiscovery, NoSamples,
               ShowsAProfile
  <2>3. CASE \/ SampleTarget \/ NoBinary \/ NothingSampled \/ Explore \/ SampleDecides
             \/ FallBackToBenchmarks \/ AllocationEvidence
    <3>1. disc'.samples = disc.samples
      <4>0. DOMAIN disc = DiscoveryFields
        BY <2>0
      <4>1. CASE SampleTarget \/ NoBinary \/ NothingSampled
        BY <2>0, <4>1 DEF SampleTarget, NoBinary, NothingSampled, DiscoveryFields
      <4>2. CASE Explore
        <5>1. \E phase, pending, try :
                 disc' = [disc EXCEPT !.phase = phase, !.pending = pending, !.try = try]
          BY <4>2, Zenon DEF Explore
        <5> QED BY <4>0, <5>1, SamplesStay, Zenon
      <4>3. CASE SampleDecides
        <5>1. PICK hot, writes, pgo :
                 disc' = [disc EXCEPT !.phase = "allocations", !.source = "sample", !.pgo = pgo,
                                      !.hot = hot, !.writes = writes]
          BY <4>3 DEF SampleDecides
        <5>2. \E phase, source, fed, list, direct :
                 disc' = [disc EXCEPT !.phase = phase, !.source = source, !.pgo = fed,
                                      !.hot = list, !.writes = direct]
          <6> WITNESS "allocations", "sample", pgo, hot, writes
          <6> QED BY <5>1
        <5> QED BY <4>0, <5>2, SamplesStay, Zenon
      <4>4. CASE FallBackToBenchmarks
        <5>1. \/ disc' = [disc EXCEPT !.phase = "allocations", !.source = "benchmarks",
                                      !.pgo = TRUE, !.hot = BenchmarkHot]
              \/ \E pgo \in BOOLEAN : disc' = [disc EXCEPT !.phase = "over", !.pgo = pgo]
          BY <4>4 DEF FallBackToBenchmarks
        <5>2. \/ \E phase, source, pgo, hot :
                    disc' = [disc EXCEPT !.phase = phase, !.source = source, !.pgo = pgo,
                                         !.hot = hot]
              \/ \E phase, pgo : disc' = [disc EXCEPT !.phase = phase, !.pgo = pgo]
          BY <5>1, Zenon
        <5> QED BY <4>0, <5>2, SamplesStay, Zenon
      <4>5. CASE AllocationEvidence
        <5>1. \/ \E phase, hot : disc' = [disc EXCEPT !.phase = phase, !.hot = hot]
              \/ \E phase : disc' = [disc EXCEPT !.phase = phase]
          BY <4>5, Zenon DEF AllocationEvidence
        <5> QED BY <4>0, <5>1, SamplesStay, Zenon
      <4> QED BY <2>3, <4>1, <4>2, <4>3, <4>4, <4>5
    <3> QED BY <3>1
  <2>4. CASE UNCHANGED discoveryVars
    BY <2>4 DEF discoveryVars
  <2> QED BY <2>1, <2>2, <2>3, <2>4 DEF DiscoveryNext
<1> QED BY <1>1, <1>2, EvidenceInvariant, PTL DEF DiscoverySpec

(***************************************************************************)
(* Crediting loses no sample and invents none: what the target's functions *)
(* are credited with in each profile the hot list is merged from is what   *)
(* was seen under one of them and the orphaned calls some function was     *)
(* seen making (AttributeToOwn, shareOrphans).  Rounded to whole samples,  *)
(* no credit is off by more than half a sample and none overtakes another. *)
(***************************************************************************)
THEOREM CreditLosesNothing == DiscoverySpec => []CreditIsConserved
<1>1. ShowsAProfile(disc.samples) => CreditIsConserved
  <2>1. \A stacks \in Profiles : Conserved(stacks)
    BY DiscoveryAssumption, EveryProfileIsConserved
  <2>2. \A stacks \in Profiles : Rounded(stacks, ProfileReadings[stacks].credit)
    BY DiscoveryAssumption, EveryCreditIsRounded DEF ProfileReadings, SampleReading
  <2> QED BY <2>1, <2>2 DEF ShowsAProfile, CreditIsConserved
<1> QED BY <1>1, ProfilesInvariant, PTL

(***************************************************************************)
(* What a campaign attacks (CauseTargets)                                  *)
(***************************************************************************)

(* A list made of the places 1 .. n, and one with another member there.    *)
LEMMA MadeList ==
    ASSUME NEW n \in Nat, NEW s, DOMAIN s = 1 .. n, NEW T, s \in [DOMAIN s -> T]
    PROVE  IsList(s) /\ Len(s) = n /\ s \in Seq(T)
<1> DEFINE range == {s[i] : i \in DOMAIN s}
<1>1. s \in [1 .. n -> range]
  OBVIOUS
<1>2. s \in Seq(range) /\ Len(s) = n
  <2> HIDE DEF range
  <2> QED BY <1>1
<1>3. s \in Seq(T)
  OBVIOUS
<1> QED BY <1>2, <1>3 DEF IsList

LEMMA ListPlaces ==
    ASSUME NEW s, IsList(s)
    PROVE  Len(s) \in Nat /\ DOMAIN s = 1 .. Len(s) /\ (s # <<>> <=> Len(s) \in DOMAIN s)
<1> DEFINE S == {s[i] : i \in DOMAIN s}
<1>1. s \in Seq(S)
  BY DEF IsList
<1> HIDE DEF S
<1>2. Len(s) \in Nat /\ DOMAIN s = 1 .. Len(s) /\ (s = <<>> <=> Len(s) = 0)
  BY <1>1
<1> QED BY <1>2

LEMMA ReplacedInList ==
    ASSUME NEW s, IsList(s), NEW i \in DOMAIN s, NEW e
    PROVE  /\ IsList([s EXCEPT ![i] = e]) /\ Len([s EXCEPT ![i] = e]) = Len(s)
           /\ DOMAIN [s EXCEPT ![i] = e] = DOMAIN s
           /\ [s EXCEPT ![i] = e][i] = e
           /\ \A j \in DOMAIN s : j # i => [s EXCEPT ![i] = e][j] = s[j]
<1> DEFINE t == [s EXCEPT ![i] = e]
<1>1. DOMAIN t = DOMAIN s /\ t[i] = e /\ \A j \in DOMAIN s : j # i => t[j] = s[j]
  <2>1. DOMAIN s = 1 .. Len(s) /\ s = [k \in DOMAIN s |-> s[k]]
    <3> DEFINE S == {s[k] : k \in DOMAIN s}
    <3>1. s \in Seq(S)
      BY DEF IsList
    <3> HIDE DEF S
    <3> QED BY <3>1
  <2> QED BY <2>1
<1> DEFINE T == {t[k] : k \in DOMAIN t}
<1>2. t \in [DOMAIN t -> T]
  OBVIOUS
<1> HIDE DEF t, T
<1>3. IsList(t) /\ Len(t) = Len(s)
  BY <1>1, <1>2, ListPlaces, MadeList
<1> QED BY <1>1, <1>3 DEF t

-----------------------------------------------------------------------------
(* The fields of a campaign, and its records.                              *)
CampaignFields == {"from", "dirs", "history", "classified", "records"}

IsCampaign(c) ==
    /\ DOMAIN c = CampaignFields /\ c.from \in DOMAIN Evidence /\ IsList(c.records)
    /\ \A k \in DOMAIN c.records : c.records[k].outcome \in Outcomes

HistoryOf(list, dirs, revision) ==
    UNION {MeasuredTargets(list[d].records) :
              d \in {x \in dirs : Evidence[list[x].from].revision = revision}}

(* The campaigns before the last one are as they were when it began: its   *)
(* history is what they measured.                                          *)
HistoryIsMeasured(list) ==
    \A n \in DOMAIN list : n = Len(list) =>
        /\ list[n].dirs \subseteq DOMAIN list \ {n}
        /\ list[n].history = HistoryOf(list, list[n].dirs, Evidence[list[n].from].revision)

(* A plan takes the first target of a ranking that is not closed.          *)
Plans(ranking, c, target) ==
    \/ target = Untargeted /\ \A k \in DOMAIN ranking : Tried(c, TargetKey(ranking[k]))
    \/ \E k \in DOMAIN ranking :
          /\ target = ranking[k] /\ ~Tried(c, TargetKey(ranking[k]))
          /\ \A j \in DOMAIN ranking : j < k => Tried(c, TargetKey(ranking[j]))

PlansTheLast(list, c) ==
    c.at = "attack" =>
        \E n \in DOMAIN list : n = Len(list)
            /\ Plans(Analysis(Evidence[list[n].from], c.failed), list[n], c.target)

TargetsOf(list, c) ==
    /\ IsList(list) /\ \A d \in DOMAIN list : IsCampaign(list[d])
    /\ HistoryIsMeasured(list) /\ PlansTheLast(list, c)

TargetsInv == TargetsOf(campaigns, cycle)

LEMMA HistoryAlike ==
    ASSUME NEW list, NEW other, NEW dirs, NEW revision,
           \A d \in dirs : list[d].from = other[d].from /\ list[d].records = other[d].records
    PROVE  HistoryOf(list, dirs, revision) = HistoryOf(other, dirs, revision)
<1>1. {x \in dirs : Evidence[list[x].from].revision = revision}
        = {x \in dirs : Evidence[other[x].from].revision = revision}
  OBVIOUS
<1>2. \A d \in dirs : MeasuredTargets(list[d].records) = MeasuredTargets(other[d].records)
  OBVIOUS
<1> QED BY <1>1, <1>2 DEF HistoryOf

(* A campaign that starts has the history its directories show.            *)
LEMMA CreateKeeps == TargetsInv /\ CreateCampaign => TargetsInv'
<1> SUFFICES ASSUME TargetsInv, CreateCampaign PROVE TargetsOf(campaigns', cycle')
  BY DEF TargetsInv
<1>1. /\ IsList(campaigns) /\ cycle' = cycle /\ cycle.at = "none"
      /\ \A d \in DOMAIN campaigns : IsCampaign(campaigns[d])
  BY DEF TargetsInv, TargetsOf, CreateCampaign
<1>2. PICK name \in DOMAIN Evidence, dirs \in SUBSET DOMAIN campaigns :
         campaigns' = Append(campaigns, Campaign(name, dirs))
  BY DEF CreateCampaign
<1> DEFINE c == Campaign(name, dirs)
           n == Len(campaigns) + 1
<1>3. /\ IsCampaign(c) /\ c.dirs = dirs /\ c.from = name
      /\ c.history = HistoryOf(campaigns, dirs, Evidence[name].revision)
  <2>1. IsList(<<>>) /\ \A k \in DOMAIN <<>> : FALSE
    BY DEF IsList
  <2>2. DOMAIN c = CampaignFields /\ c.from = name /\ c.dirs = dirs /\ c.records = <<>>
    BY DEF Campaign, CampaignFields
  <2>3. c.history = HistoryOf(campaigns, dirs, Evidence[name].revision)
    BY DEF Campaign, LoadHistory, HistoryOf
  <2> HIDE DEF c
  <2> QED BY <2>1, <2>2, <2>3 DEF IsCampaign
<1> HIDE DEF c
<1>4. /\ IsList(campaigns') /\ DOMAIN campaigns' = DOMAIN campaigns \cup {n}
      /\ n \notin DOMAIN campaigns /\ campaigns'[n] = c
      /\ \A d \in DOMAIN campaigns : campaigns'[d] = campaigns[d]
  BY <1>1, <1>2, AppendToList DEF c
<1>5. Len(campaigns') = n
  <2>1. Len(campaigns) \in Nat /\ DOMAIN campaigns = 1 .. Len(campaigns)
    BY <1>1, ListPlaces
  <2>2. Len(campaigns') \in Nat /\ DOMAIN campaigns' = 1 .. Len(campaigns')
    BY <1>4, ListPlaces
  <2> QED BY <1>4, <2>1, <2>2
<1> HIDE DEF n
<1>6. \A d \in DOMAIN campaigns' : IsCampaign(campaigns'[d])
  BY <1>1, <1>3, <1>4
<1>7. HistoryIsMeasured(campaigns')
  <2>1. HistoryOf(campaigns', dirs, Evidence[name].revision)
          = HistoryOf(campaigns, dirs, Evidence[name].revision)
    <3>1. \A d \in dirs : /\ campaigns'[d].from = campaigns[d].from
                          /\ campaigns'[d].records = campaigns[d].records
      BY <1>4
    <3> QED BY <3>1, HistoryAlike
  <2>2. dirs \subseteq DOMAIN campaigns' \ {n}
    BY <1>4
  <2> QED BY <1>3, <1>4, <1>5, <2>1, <2>2 DEF HistoryIsMeasured
<1>8. PlansTheLast(campaigns', cycle')
  BY <1>1 DEF PlansTheLast
<1> QED BY <1>4, <1>6, <1>7, <1>8 DEF TargetsOf

(* The last campaign moves on: the ones before it stay, and its history.   *)
LEMMA LastMovesOn ==
    ASSUME NEW list, IsList(list), \A d \in DOMAIN list : IsCampaign(list[d]),
           HistoryIsMeasured(list), NEW n \in DOMAIN list, n = Len(list),
           NEW c, IsCampaign(c), c.from = list[n].from, c.dirs = list[n].dirs,
           c.history = list[n].history
    PROVE  LET moved == [list EXCEPT ![n] = c]
           IN  /\ IsList(moved) /\ Len(moved) = n /\ n \in DOMAIN moved /\ moved[n] = c
               /\ \A d \in DOMAIN moved : IsCampaign(moved[d])
               /\ HistoryIsMeasured(moved)
<1> DEFINE moved == [list EXCEPT ![n] = c]
<1>1. /\ IsList(moved) /\ Len(moved) = n /\ DOMAIN moved = DOMAIN list /\ moved[n] = c
      /\ \A d \in DOMAIN list : d # n => moved[d] = list[d]
  BY ReplacedInList
<1> HIDE DEF moved
<1>2. \A d \in DOMAIN moved : IsCampaign(moved[d])
  BY <1>1
<1>3. HistoryIsMeasured(moved)
  <2>1. c.dirs \subseteq DOMAIN list \ {n}
    BY DEF HistoryIsMeasured
  <2>2. c.history = HistoryOf(list, c.dirs, Evidence[c.from].revision)
    BY DEF HistoryIsMeasured
  <2>3. \A d \in c.dirs : moved[d].from = list[d].from /\ moved[d].records = list[d].records
    BY <1>1, <2>1
  <2>4. HistoryOf(moved, c.dirs, Evidence[c.from].revision)
          = HistoryOf(list, c.dirs, Evidence[c.from].revision)
    BY <2>3, HistoryAlike
  <2> QED BY <1>1, <2>1, <2>2, <2>4 DEF HistoryIsMeasured
<1> QED BY <1>1, <1>2, <1>3 DEF moved

(* What a campaign is closed for is a matter of its history and records.   *)
LEMMA TriedAlike ==
    ASSUME NEW c, NEW d, c.history = d.history, c.records = d.records, NEW key
    PROVE  Tried(c, key) <=> Tried(d, key)
BY DEF Tried, AttemptsOn

(* The target of a plan is the first of the ranking that is not closed.    *)
LEMMA FirstIsPlanned ==
    ASSUME NEW ranking, IsList(ranking), NEW c
    PROVE  Plans(ranking, c, PlannedTarget(ranking, c))
<1> DEFINE open == {k \in 1 .. Len(ranking) : ~Tried(c, TargetKey(ranking[k]))}
           first == SelectInSeq(ranking, LAMBDA t : ~Tried(c, TargetKey(t)))
<1>1. Len(ranking) \in Nat /\ DOMAIN ranking = 1 .. Len(ranking)
  BY ListPlaces
<1>2. first = IF open # {} THEN Min(open) ELSE 0
  BY DEF SelectInSeq
<1>3. PlannedTarget(ranking, c) = IF first = 0 THEN Untargeted ELSE ranking[first]
  BY DEF PlannedTarget
<1> HIDE DEF first
<1>4. CASE open = {}
  BY <1>1, <1>2, <1>3, <1>4 DEF Plans
<1>5. CASE open # {}
  <2>1. Min(open) \in open /\ \A k \in open : Min(open) <= k
    <3>1. open \in SUBSET Nat
      BY <1>1
    <3> HIDE DEF open
    <3>2. \E i \in open : \A j \in open : i <= j
      BY <1>5, <3>1, LeastPlace
    <3> QED BY <3>2 DEF Min
  <2>2. first = Min(open) /\ first # 0
    BY <1>1, <1>2, <1>5, <2>1
  <2> HIDE DEF open
  <2>3. first \in open /\ \A k \in open : first <= k
    BY <2>1, <2>2
  <2>4. first \in DOMAIN ranking /\ ~Tried(c, TargetKey(ranking[first]))
    BY <1>1, <2>3 DEF open
  <2>5. \A j \in DOMAIN ranking : j < first => Tried(c, TargetKey(ranking[j]))
    <3> SUFFICES ASSUME NEW j \in DOMAIN ranking, j < first, ~Tried(c, TargetKey(ranking[j]))
                 PROVE  FALSE
      OBVIOUS
    <3>1. j \in open
      BY <1>1 DEF open
    <3>2. first <= j
      BY <2>3, <3>1
    <3> QED BY <1>1, <2>4, <3>2
  <2> QED BY <1>3, <2>2, <2>4, <2>5 DEF Plans
<1> QED BY <1>4, <1>5

(* A strict order of a finite set, and how many members are ahead of one.  *)
Orders(S, R) ==
    /\ IsFiniteSet(S) /\ \A x \in S : <<x, x>> \notin R
    /\ \A x, y, z \in S : <<x, y>> \in R /\ <<y, z>> \in R => <<x, z>> \in R
    /\ \A x, y \in S : x # y => <<x, y>> \in R \/ <<y, x>> \in R

AheadOf(S, R, x) == Cardinality({y \in S : <<y, x>> \in R})

LEMMA AheadIsLess ==
    ASSUME NEW S, NEW R, Orders(S, R)
    PROVE  /\ Cardinality(S) \in Nat
           /\ \A x \in S : AheadOf(S, R, x) \in 0 .. Cardinality(S) - 1
           /\ \A x, y \in S : <<x, y>> \in R => AheadOf(S, R, x) < AheadOf(S, R, y)
<1> DEFINE ahead(x) == {y \in S : <<y, x>> \in R}
<1>1. IsFiniteSet(S) /\ Cardinality(S) \in Nat
  BY FS_CardinalityType DEF Orders
<1>2. \A x \in S : IsFiniteSet(ahead(x)) /\ Cardinality(ahead(x)) \in Nat
  BY <1>1, FS_Subset, FS_CardinalityType
<1>3. ASSUME NEW x, NEW T, IsFiniteSet(T), x \in T, NEW U \in SUBSET T, x \notin U
      PROVE  Cardinality(U) < Cardinality(T)
  <2>1. U \in SUBSET (T \ {x}) /\ IsFiniteSet(T \ {x})
        /\ Cardinality(T \ {x}) = Cardinality(T) - 1
    BY <1>3, FS_RemoveElement
  <2>2. Cardinality(U) <= Cardinality(T \ {x}) /\ IsFiniteSet(U)
    BY <2>1, FS_Subset
  <2>3. Cardinality(U) \in Nat /\ Cardinality(T) \in Nat
    BY <1>3, <2>2, FS_CardinalityType
  <2> QED BY <2>1, <2>2, <2>3
<1>4. ASSUME NEW x \in S PROVE AheadOf(S, R, x) \in 0 .. Cardinality(S) - 1
  <2>1. ahead(x) \in SUBSET S /\ x \notin ahead(x)
    BY DEF Orders
  <2>2. Cardinality(ahead(x)) < Cardinality(S)
    <3> HIDE DEF ahead
    <3> QED BY <1>1, <1>3, <2>1
  <2> QED BY <1>1, <1>2, <2>2 DEF AheadOf
<1>5. ASSUME NEW x \in S, NEW y \in S, <<x, y>> \in R
      PROVE  AheadOf(S, R, x) < AheadOf(S, R, y)
  <2>1. ahead(x) \in SUBSET ahead(y) /\ x \in ahead(y) /\ x \notin ahead(x)
    BY <1>5 DEF Orders
  <2>2. Cardinality(ahead(x)) < Cardinality(ahead(y))
    <3> HIDE DEF ahead
    <3> QED BY <1>2, <1>3, <2>1
  <2> QED BY <2>2 DEF AheadOf
<1> QED BY <1>1, <1>4, <1>5

(* Each member stands in the list behind those ahead of it.                *)
LEMMA StandsInOrder ==
    ASSUME NEW S, NEW R, Orders(S, R)
    PROVE  LET s == InOrder(S, R)
           IN  /\ IsList(s) /\ s \in Seq(S) /\ Len(s) = Cardinality(S)
               /\ \A x \in S : /\ AheadOf(S, R, x) + 1 \in DOMAIN s
                               /\ s[AheadOf(S, R, x) + 1] = x
               /\ \A k \in DOMAIN s : s[k] \in S /\ AheadOf(S, R, s[k]) = k - 1
<1> DEFINE s == InOrder(S, R)
           n == Cardinality(S)
           place == [x \in S |-> AheadOf(S, R, x) + 1]
<1>1. IsFiniteSet(S) /\ n \in Nat /\ IsFiniteSet(1 .. n) /\ Cardinality(1 .. n) = n
  <2>1. IsFiniteSet(S) /\ n \in Nat
    BY AheadIsLess DEF Orders
  <2> HIDE DEF n
  <2> QED BY <2>1, FS_Interval
<1>2. \A x \in S : place[x] \in 1 .. n /\ AheadOf(S, R, x) \in Nat
  BY <1>1, AheadIsLess
<1>3. \A x, y \in S : place[x] = place[y] => x = y
  <2> SUFFICES ASSUME NEW x \in S, NEW y \in S, x # y PROVE place[x] # place[y]
    OBVIOUS
  <2>1. <<x, y>> \in R \/ <<y, x>> \in R
    BY DEF Orders
  <2>2. AheadOf(S, R, x) # AheadOf(S, R, y)
    BY <1>2, <2>1, AheadIsLess
  <2> QED BY <1>2, <2>2
<1>4. place \in Injection(S, 1 .. n)
  BY <1>2, <1>3 DEF Injection, IsInjective
<1>5. place \in Surjection(S, 1 .. n)
  <2> HIDE DEF place
  <2> QED BY <1>1, <1>4, FS_Injection
<1>6. \A k \in 1 .. n : \E x \in S : place[x] = k
  BY <1>5 DEF Surjection
<1>7. \A k \in 1 .. n : s[k] = CHOOSE x \in S : AheadOf(S, R, x) = k - 1
  BY DEF InOrder, AheadOf
<1>8. DOMAIN s = 1 .. n
  BY DEF InOrder
<1>9. \A k \in 1 .. n : s[k] \in S /\ AheadOf(S, R, s[k]) = k - 1
  <2> TAKE k \in 1 .. n
  <2>1. \E x \in S : AheadOf(S, R, x) = k - 1
    BY <1>1, <1>2, <1>6
  <2> QED BY <1>7, <2>1
<1>10. \A x \in S : /\ AheadOf(S, R, x) + 1 \in 1 .. n
                    /\ s[AheadOf(S, R, x) + 1] = x
  <2> TAKE x \in S
  <2>1. AheadOf(S, R, x) + 1 \in 1 .. n /\ AheadOf(S, R, x) \in Nat
    BY <1>2
  <2> DEFINE y == s[AheadOf(S, R, x) + 1]
  <2>2. y \in S /\ AheadOf(S, R, y) = AheadOf(S, R, x)
    <3>1. AheadOf(S, R, y) = AheadOf(S, R, x) + 1 - 1 /\ y \in S
      BY <1>9, <2>1
    <3> QED BY <2>1, <3>1
  <2>3. y = x
    BY <1>3, <2>2
  <2> QED BY <2>1, <2>3
<1> HIDE DEF s
<1>11. IsList(s) /\ Len(s) = n /\ s \in Seq(S)
  <2>1. s \in [1 .. n -> S]
    <3> DEFINE first(k) == CHOOSE x \in S : AheadOf(S, R, x) = k - 1
    <3>1. s = [k \in 1 .. n |-> first(k)]
      BY DEF s, InOrder, AheadOf
    <3>2. \A k \in 1 .. n : first(k) \in S
      BY <1>7, <1>9
    <3> HIDE DEF first
    <3> QED BY <3>1, <3>2
  <2> QED BY <1>1, <1>8, <2>1, MadeList
<1> QED BY <1>8, <1>9, <1>10, <1>11 DEF s

(* In an order, what is ahead is earlier.                                  *)
LEMMA AheadIsEarlier ==
    ASSUME NEW S, NEW R, Orders(S, R), NEW x \in S, NEW j \in DOMAIN InOrder(S, R),
           <<x, InOrder(S, R)[j]>> \in R
    PROVE  \E i \in DOMAIN InOrder(S, R) : i < j /\ InOrder(S, R)[i] = x
<1> DEFINE s == InOrder(S, R)
           i == AheadOf(S, R, x) + 1
<1>1. i \in DOMAIN s /\ s[i] = x /\ s[j] \in S /\ AheadOf(S, R, s[j]) = j - 1
  BY StandsInOrder
<1>2. AheadOf(S, R, x) < AheadOf(S, R, s[j])
  BY <1>1, AheadIsLess
<1>3. j \in Nat /\ AheadOf(S, R, x) \in Nat
  <2>1. IsList(s)
    BY StandsInOrder
  <2>2. AheadOf(S, R, x) \in Nat
    BY AheadIsLess
  <2> HIDE DEF s
  <2>3. DOMAIN s \subseteq Nat
    BY <2>1, ListPlaces
  <2> QED BY <2>2, <2>3 DEF s
<1>4. i < j
  <2> HIDE DEF s
  <2> QED BY <1>1, <1>2, <1>3
<1> QED BY <1>1, <1>4

LEMMA IncreasingPlaces ==
    ASSUME NEW S \in SUBSET Nat, IsFiniteSet(S)
    PROVE  LET s == Increasing(S)
           IN  /\ IsList(s) /\ \A k \in DOMAIN s : s[k] \in S
               /\ \A x \in S : \E k \in DOMAIN s : s[k] = x
               /\ \A j, k \in DOMAIN s : s[j] = s[k] => j = k
               /\ \A x \in S : \A k \in DOMAIN s :
                     x < s[k] => \E j \in DOMAIN s : j < k /\ s[j] = x
<1> DEFINE R == {p \in S \X S : p[1] < p[2]}
           s == Increasing(S)
<1>1. s = InOrder(S, R)
  BY DEF Increasing
<1>2. \A x, y \in S : <<x, y>> \in R <=> x < y
  OBVIOUS
<1>3. Orders(S, R)
  <2> HIDE DEF R
  <2>1. \A x \in S : x \in Nat
    OBVIOUS
  <2> QED BY <1>2, <2>1 DEF Orders
<1>4. /\ IsList(s) /\ \A k \in DOMAIN s : s[k] \in S /\ AheadOf(S, R, s[k]) = k - 1
      /\ \A x \in S : AheadOf(S, R, x) + 1 \in DOMAIN s /\ s[AheadOf(S, R, x) + 1] = x
  <2> HIDE DEF R, s
  <2> QED BY <1>1, <1>3, StandsInOrder
<1>5. \A x \in S : \A k \in DOMAIN s : x < s[k] => \E j \in DOMAIN s : j < k /\ s[j] = x
  <2> SUFFICES ASSUME NEW x \in S, NEW k \in DOMAIN s, x < s[k]
               PROVE  \E j \in DOMAIN s : j < k /\ s[j] = x
    OBVIOUS
  <2>1. <<x, s[k]>> \in R
    BY <1>2, <1>4
  <2> HIDE DEF R, s
  <2> QED BY <1>1, <1>3, <2>1, AheadIsEarlier
<1>6. \A j, k \in DOMAIN s : s[j] = s[k] => j = k
  <2> HIDE DEF R, s
  <2>1. DOMAIN s \subseteq Nat
    BY <1>4, ListPlaces
  <2> QED BY <1>4, <2>1
<1> HIDE DEF s, R
<1> QED BY <1>4, <1>5, <1>6 DEF s

(* What is kept of a list is in it, in its order.                          *)
LEMMA OnlyKeeps ==
    ASSUME NEW list, IsList(list), NEW P
    PROVE  LET kept == Only(list, P)
           IN  /\ IsList(kept)
               /\ \A i \in DOMAIN list :
                     list[i] \in P => \E k \in DOMAIN kept : kept[k] = list[i]
               /\ \A k \in DOMAIN kept : \E i \in DOMAIN list :
                     /\ kept[k] = list[i] /\ list[i] \in P
                     /\ \A h \in DOMAIN list :
                           h < i /\ list[h] \in P =>
                               \E j \in DOMAIN kept : j < k /\ kept[j] = list[h]
<1> DEFINE S == {i \in DOMAIN list : list[i] \in P}
           at == Increasing(S)
           kept == Only(list, P)
<1>1. DOMAIN list = 1 .. Len(list) /\ Len(list) \in Nat
  BY ListPlaces
<1>2. S \in SUBSET Nat /\ IsFiniteSet(S)
  <2>1. IsFiniteSet(1 .. Len(list)) /\ S \in SUBSET (1 .. Len(list))
    BY <1>1, FS_Interval
  <2> QED BY <2>1, FS_Subset
<1>3. /\ IsList(at) /\ \A k \in DOMAIN at : at[k] \in S
      /\ \A x \in S : \E k \in DOMAIN at : at[k] = x
      /\ \A x \in S : \A k \in DOMAIN at : x < at[k] => \E j \in DOMAIN at : j < k /\ at[j] = x
  <2> HIDE DEF S
  <2> QED BY <1>2, IncreasingPlaces
<1>4. DOMAIN kept = DOMAIN at /\ \A k \in DOMAIN at : kept[k] = list[at[k]]
  BY DEF Only
<1>5. \A i : i \in S <=> i \in DOMAIN list /\ list[i] \in P
  OBVIOUS
<1> HIDE DEF S, at, kept
<1>6. IsList(kept)
  <2> DEFINE T == {kept[k] : k \in DOMAIN kept}
  <2>1. kept \in [DOMAIN kept -> T]
    <3>1. kept = [k \in DOMAIN at |-> list[at[k]]]
      BY DEF kept, Only, at, S
    <3>2. \A k \in DOMAIN at : list[at[k]] \in T
      BY <1>4
    <3> HIDE DEF T
    <3> QED BY <1>4, <3>1, <3>2
  <2>2. DOMAIN kept = 1 .. Len(at) /\ Len(at) \in Nat
    BY <1>3, <1>4, ListPlaces
  <2> HIDE DEF T
  <2> QED BY <2>1, <2>2, MadeList
<1>7. \A i \in DOMAIN list : list[i] \in P => \E k \in DOMAIN kept : kept[k] = list[i]
  BY <1>3, <1>4, <1>5
<1>8. ASSUME NEW k \in DOMAIN kept
      PROVE  \E i \in DOMAIN list :
                /\ kept[k] = list[i] /\ list[i] \in P
                /\ \A h \in DOMAIN list :
                      h < i /\ list[h] \in P => \E j \in DOMAIN kept : j < k /\ kept[j] = list[h]
  <2>1. at[k] \in DOMAIN list /\ list[at[k]] \in P /\ kept[k] = list[at[k]]
    BY <1>3, <1>4, <1>5
  <2>2. \A h \in DOMAIN list :
           h < at[k] /\ list[h] \in P => \E j \in DOMAIN kept : j < k /\ kept[j] = list[h]
    <3> SUFFICES ASSUME NEW h \in DOMAIN list, h < at[k], list[h] \in P
                 PROVE  \E j \in DOMAIN kept : j < k /\ kept[j] = list[h]
      OBVIOUS
    <3>1. h \in S
      BY <1>5
    <3>2. PICK j \in DOMAIN at : j < k /\ at[j] = h
      BY <1>3, <1>4, <3>1
    <3> QED BY <1>4, <3>2
  <2> QED BY <2>1, <2>2
<1> QED BY <1>6, <1>7, <1>8 DEF kept

LEMMA FirstOfList ==
    ASSUME NEW list, IsList(list), NEW n \in Nat
    PROVE  /\ IsList(FirstOf(n, list))
           /\ DOMAIN FirstOf(n, list) = {j \in DOMAIN list : j <= n}
           /\ \A k \in DOMAIN FirstOf(n, list) : FirstOf(n, list)[k] = list[k]
<1> DEFINE s == FirstOf(n, list)
           T == {list[k] : k \in DOMAIN list}
           m == IF n <= Len(list) THEN n ELSE Len(list)
<1>1. Len(list) \in Nat /\ DOMAIN list = 1 .. Len(list)
  BY ListPlaces
<1>2. /\ s = [k \in {j \in DOMAIN list : j <= n} |-> list[k]]
      /\ DOMAIN s = {j \in DOMAIN list : j <= n}
      /\ \A k \in DOMAIN s : s[k] = list[k]
  BY DEF FirstOf
<1>3. DOMAIN s = 1 .. m /\ m \in Nat
  <2> HIDE DEF s
  <2> QED BY <1>1, <1>2
<1>4. s \in [DOMAIN s -> T]
  <2>1. \A k \in DOMAIN list : list[k] \in T
    OBVIOUS
  <2> HIDE DEF T
  <2> QED BY <2>1 DEF FirstOf
<1> HIDE DEF s, T, m
<1>5. IsList(s)
  BY <1>3, <1>4, MadeList
<1> QED BY <1>2, <1>5 DEF s

-----------------------------------------------------------------------------
(* A list of the members of S in which what B puts before another comes    *)
(* earlier than every place of that other.                                 *)
Earlier(s, x, k) == \E i \in DOMAIN s : i < k /\ s[i] = x

Ranks(s, S, B) ==
    /\ IsList(s) /\ \A k \in DOMAIN s : s[k] \in S
    /\ \A x \in S : \E k \in DOMAIN s : s[k] = x
    /\ \A k \in DOMAIN s : \A x \in S : <<x, s[k]>> \in B => Earlier(s, x, k)

LEMMA OrderRanks ==
    ASSUME NEW S, NEW R, Orders(S, R), NEW B,
           \A x, y \in S : <<x, y>> \in B => <<x, y>> \in R
    PROVE  Ranks(InOrder(S, R), S, B)
<1> DEFINE s == InOrder(S, R)
<1>1. /\ IsList(s) /\ \A k \in DOMAIN s : s[k] \in S
      /\ \A x \in S : \E k \in DOMAIN s : s[k] = x
  BY StandsInOrder
<1>2. ASSUME NEW k \in DOMAIN s, NEW x \in S, <<x, s[k]>> \in B PROVE Earlier(s, x, k)
  BY <1>1, <1>2, AheadIsEarlier DEF Earlier
<1> HIDE DEF s
<1> QED BY <1>1, <1>2 DEF Ranks, s

LEMMA JoinRanks ==
    ASSUME NEW s, NEW t, NEW S, NEW T, NEW B, Ranks(s, S, B), Ranks(t, T, B),
           \A x \in S : \A y \in T : <<y, x>> \notin B
    PROVE  Ranks(s \o t, S \cup T, B)
<1> DEFINE n == Len(s)
           m == Len(t)
           st == s \o t
           A == {s[i] : i \in DOMAIN s} \cup {t[i] : i \in DOMAIN t}
<1>1. /\ n \in Nat /\ DOMAIN s = 1 .. n /\ m \in Nat /\ DOMAIN t = 1 .. m
  BY ListPlaces DEF Ranks
<1>2. s \in Seq(A) /\ t \in Seq(A)
  <2>1. /\ s \in Seq({s[i] : i \in DOMAIN s}) /\ t \in Seq({t[i] : i \in DOMAIN t})
    BY DEF Ranks, IsList
  <2> DEFINE A1 == {s[i] : i \in DOMAIN s}
             A2 == {t[i] : i \in DOMAIN t}
  <2>2. s \in Seq(A1) /\ t \in Seq(A2) /\ A = A1 \cup A2
    BY <2>1
  <2> HIDE DEF A1, A2, A
  <2> QED BY <2>2
<1> HIDE DEF A
<1>3. /\ DOMAIN st = 1 .. n + m /\ st \in Seq(A)
      /\ \A i \in 1 .. n : st[i] = s[i]
      /\ \A j \in 1 .. m : st[n + j] = t[j]
  BY <1>1, <1>2
<1> HIDE DEF st, n, m
<1>4. \A k \in DOMAIN st : k \in 1 .. n \/ (k - n \in 1 .. m /\ st[k] = t[k - n])
  <2> TAKE k \in DOMAIN st
  <2>1. CASE k > n
    <3>1. k - n \in 1 .. m /\ n + (k - n) = k
      BY <1>1, <1>3, <2>1
    <3> QED BY <1>3, <3>1
  <2> QED BY <1>1, <1>3, <2>1
<1>5. IsList(st)
  <2> DEFINE T2 == {st[k] : k \in DOMAIN st}
  <2>1. st \in [DOMAIN st -> T2]
    <3>1. st \in [1 .. Len(st) -> A] /\ DOMAIN st = 1 .. Len(st)
      BY <1>3
    <3> QED BY <3>1
  <2> HIDE DEF T2
  <2> QED BY <1>1, <1>3, <2>1, MadeList
<1>6. \A k \in DOMAIN st : st[k] \in S \cup T
  BY <1>1, <1>3, <1>4 DEF Ranks
<1>7. \A x \in S \cup T : \E k \in DOMAIN st : st[k] = x
  <2>1. ASSUME NEW x \in S PROVE \E k \in DOMAIN st : st[k] = x
    <3>1. PICK i \in DOMAIN s : s[i] = x
      BY DEF Ranks
    <3> QED BY <1>1, <1>3, <3>1
  <2>2. ASSUME NEW x \in T PROVE \E k \in DOMAIN st : st[k] = x
    <3>1. PICK j \in DOMAIN t : t[j] = x
      BY DEF Ranks
    <3>2. n + j \in DOMAIN st
      BY <1>1, <1>3
    <3> QED BY <1>1, <1>3, <3>1, <3>2
  <2> QED BY <2>1, <2>2
<1>8. ASSUME NEW k \in DOMAIN st, NEW x \in S \cup T, <<x, st[k]>> \in B
      PROVE  Earlier(st, x, k)
  <2>1. CASE k \in 1 .. n
    <3>1. st[k] = s[k] /\ s[k] \in S /\ k \in DOMAIN s
      BY <1>1, <1>3, <2>1 DEF Ranks
    <3>2. x \in S
      BY <1>8, <3>1
    <3>3. Earlier(s, x, k)
      BY <1>8, <3>1, <3>2 DEF Ranks
    <3>4. PICK i \in DOMAIN s : i < k /\ s[i] = x
      BY <3>3 DEF Earlier
    <3>5. i \in DOMAIN st /\ st[i] = x
      BY <1>1, <1>3, <3>4
    <3> QED BY <3>4, <3>5 DEF Earlier
  <2>2. CASE k \notin 1 .. n
    <3>1. k - n \in DOMAIN t /\ st[k] = t[k - n]
      BY <1>1, <1>4, <2>2
    <3>2. CASE x \in S
      <4>1. PICK i \in DOMAIN s : s[i] = x
        BY <3>2 DEF Ranks
      <4>2. i \in DOMAIN st /\ st[i] = x /\ i < k
        BY <1>1, <1>3, <2>2, <4>1
      <4> QED BY <4>2 DEF Earlier
    <3>3. CASE x \in T
      <4>1. Earlier(t, x, k - n)
        BY <1>8, <3>1, <3>3 DEF Ranks
      <4>2. PICK j \in DOMAIN t : j < k - n /\ t[j] = x
        BY <4>1 DEF Earlier
      <4>3. n + j \in DOMAIN st /\ st[n + j] = x /\ n + j < k
        BY <1>1, <1>3, <4>2
      <4> QED BY <4>3 DEF Earlier
    <3> QED BY <3>2, <3>3
  <2> QED BY <2>1, <2>2
<1>9. Ranks(st, S \cup T, B)
  BY <1>5, <1>6, <1>7, <1>8 DEF Ranks
<1> QED BY <1>9 DEF st

LEMMA OnlyRanks ==
    ASSUME NEW s, NEW S, NEW B, Ranks(s, S, B), NEW P
    PROVE  Ranks(Only(s, P), S \cap P, B)
<1> DEFINE kept == Only(s, P)
<1>1. /\ IsList(kept)
      /\ \A i \in DOMAIN s : s[i] \in P => \E k \in DOMAIN kept : kept[k] = s[i]
  BY OnlyKeeps DEF Ranks
<1>2. \A k \in DOMAIN kept : \E i \in DOMAIN s :
         /\ kept[k] = s[i] /\ s[i] \in P
         /\ \A h \in DOMAIN s :
               h < i /\ s[h] \in P => \E j \in DOMAIN kept : j < k /\ kept[j] = s[h]
  BY OnlyKeeps DEF Ranks
<1> HIDE DEF kept
<1>3. \A k \in DOMAIN kept : kept[k] \in S \cap P
  BY <1>2 DEF Ranks
<1>4. \A x \in S \cap P : \E k \in DOMAIN kept : kept[k] = x
  BY <1>1 DEF Ranks
<1>5. ASSUME NEW k \in DOMAIN kept, NEW x \in S \cap P, <<x, kept[k]>> \in B
      PROVE  Earlier(kept, x, k)
  <2>1. PICK i \in DOMAIN s :
          /\ kept[k] = s[i]
          /\ \A h \in DOMAIN s :
                h < i /\ s[h] \in P => \E j \in DOMAIN kept : j < k /\ kept[j] = s[h]
    BY <1>2
  <2>2. Earlier(s, x, i)
    BY <1>5, <2>1 DEF Ranks
  <2>3. PICK h \in DOMAIN s : h < i /\ s[h] = x
    BY <2>2 DEF Earlier
  <2> QED BY <2>1, <2>3 DEF Earlier
<1>6. Ranks(kept, S \cap P, B)
  BY <1>1, <1>3, <1>4, <1>5 DEF Ranks
<1> QED BY <1>6 DEF kept

-----------------------------------------------------------------------------
(* The place of a value in a list.                                         *)
LEMMA FoundInList ==
    ASSUME NEW list, IsList(list), NEW x, \E i \in DOMAIN list : list[i] = x
    PROVE  /\ SelectInSeq(list, LAMBDA y : y = x) \in DOMAIN list
           /\ list[SelectInSeq(list, LAMBDA y : y = x)] = x
<1> DEFINE at == {k \in 1 .. Len(list) : list[k] = x}
           first == SelectInSeq(list, LAMBDA y : y = x)
<1>1. Len(list) \in Nat /\ DOMAIN list = 1 .. Len(list)
  BY ListPlaces
<1>2. first = IF at # {} THEN Min(at) ELSE 0
  BY DEF SelectInSeq
<1>3. at # {} /\ at \in SUBSET Nat
  BY <1>1
<1> HIDE DEF first
<1>4. Min(at) \in at
  <2> HIDE DEF at
  <2>1. \E i \in at : \A j \in at : i <= j
    BY <1>3, LeastPlace
  <2> QED BY <2>1 DEF Min
<1>5. first \in at
  <2> HIDE DEF at
  <2> QED BY <1>2, <1>3, <1>4
<1>6. first \in DOMAIN list /\ list[first] = x
  BY <1>1, <1>5
<1> QED BY <1>6 DEF first

(* The causes by z, ties in the order they are asked in.                   *)
AskedCauses == Range(CauseOrder)

Asked(c) == SelectInSeq(CauseOrder, LAMBDA y : y = c)

LEMMA CausesAreListed ==
    /\ IsFiniteSet(AskedCauses)
    /\ \A c \in AskedCauses : Asked(c) \in Nat /\ CauseOrder[Asked(c)] = c
<1>1. IsList(CauseOrder)
  BY DEF CauseOrder, IsList
<1>2. AskedCauses = {CauseOrder[i] : i \in DOMAIN CauseOrder}
  BY DEF AskedCauses, Range
<1>3. DOMAIN CauseOrder = 1 .. Len(CauseOrder) /\ Len(CauseOrder) \in Nat
  BY <1>1, ListPlaces
<1>4. IsFiniteSet(AskedCauses)
  <2>1. IsFiniteSet(DOMAIN CauseOrder)
    BY <1>3, FS_Interval
  <2>2. CauseOrder \in Surjection(DOMAIN CauseOrder, AskedCauses)
    <3>1. CauseOrder \in [DOMAIN CauseOrder -> AskedCauses]
      BY <1>2 DEF CauseOrder
    <3> QED BY <1>2, <3>1 DEF Surjection
  <2> QED BY <2>1, <2>2, FS_Surjection
<1>5. ASSUME NEW c \in AskedCauses PROVE Asked(c) \in Nat /\ CauseOrder[Asked(c)] = c
  <2>1. \E i \in DOMAIN CauseOrder : CauseOrder[i] = c
    BY <1>2
  <2>2. Asked(c) \in DOMAIN CauseOrder /\ CauseOrder[Asked(c)] = c
    BY <1>1, <2>1, FoundInList DEF Asked
  <2> QED BY <1>3, <2>2
<1> QED BY <1>4, <1>5

LEMMA CausesAreOrdered ==
    ASSUME NEW S \in SUBSET AskedCauses, NEW z \in [AskedCauses -> Int]
    PROVE  Orders(S, {p \in S \X S : Precedes(z, p[1], p[2])})
<1> DEFINE R == {p \in S \X S : Precedes(z, p[1], p[2])}
<1>1. \A c, d : Precedes(z, c, d) <=> z[c] > z[d] \/ (z[c] = z[d] /\ Asked(c) < Asked(d))
  BY DEF Precedes, Asked
<1>2. \A c, d \in S : <<c, d>> \in R <=> Precedes(z, c, d)
  OBVIOUS
<1>3. \A c \in S : z[c] \in Int /\ Asked(c) \in Nat /\ CauseOrder[Asked(c)] = c
  BY CausesAreListed
<1>4. IsFiniteSet(S)
  BY CausesAreListed, FS_Subset
<1> HIDE DEF R
<1>5. \A c \in S : <<c, c>> \notin R
  BY <1>1, <1>2, <1>3
<1>6. \A c, d \in S : c # d => <<c, d>> \in R \/ <<d, c>> \in R
  <2> SUFFICES ASSUME NEW c \in S, NEW d \in S, c # d PROVE <<c, d>> \in R \/ <<d, c>> \in R
    OBVIOUS
  <2>1. Asked(c) # Asked(d)
    BY <1>3
  <2> QED BY <1>1, <1>2, <1>3, <2>1
<1>7. \A c, d, x \in S : <<c, d>> \in R /\ <<d, x>> \in R => <<c, x>> \in R
  BY <1>1, <1>2, <1>3
<1>8. Orders(S, R)
  BY <1>4, <1>5, <1>6, <1>7 DEF Orders
<1> QED BY <1>8 DEF R

-----------------------------------------------------------------------------
(* The sites of an evidence: located functions, each once.                 *)
IsSites(e, sites) ==
    /\ IsList(sites)
    /\ \A i \in DOMAIN sites : sites[i] \in DOMAIN e.at
    /\ \A i, j \in DOMAIN sites : sites[i] = sites[j] => i = j

LEMMA HotFunctionsAreSites ==
    ASSUME NEW e, e.hot \in Seq(Range(e.hot))
    PROVE  IsSites(e, HotFunctions(e))
<1> DEFINE hottest(k) ==
             /\ Classifiable(e, e.hot[k])
             /\ \A j \in 1 .. k - 1 :
                   Classifiable(e, e.hot[j]) =>
                       e.at[e.hot[j]].declaration # e.at[e.hot[k]].declaration
           H == {k \in DOMAIN e.hot : hottest(k)}
           all == Increasing(H)
           at == FirstOf(MaxCauseSites, all)
           sites == HotFunctions(e)
<1>1. sites = [n \in DOMAIN at |-> e.hot[at[n]]]
  BY DEF HotFunctions
<1>2. DOMAIN e.hot = 1 .. Len(e.hot) /\ Len(e.hot) \in Nat
  <2> DEFINE T == Range(e.hot)
  <2>1. e.hot \in Seq(T)
    OBVIOUS
  <2> HIDE DEF T
  <2> QED BY <2>1
<1>3. H \in SUBSET Nat /\ IsFiniteSet(H) /\ H \in SUBSET DOMAIN e.hot
  <2>1. IsFiniteSet(1 .. Len(e.hot)) /\ H \in SUBSET (1 .. Len(e.hot))
    BY <1>2, FS_Interval
  <2> QED BY <2>1, FS_Subset
<1>4. \A k \in H : Classifiable(e, e.hot[k])
  OBVIOUS
<1>5. \A j, k \in H : j < k => e.hot[j] # e.hot[k]
  <2> SUFFICES ASSUME NEW j \in H, NEW k \in H, j < k PROVE e.hot[j] # e.hot[k]
    OBVIOUS
  <2>1. j \in 1 .. k - 1
    BY <1>3
  <2> QED BY <1>4, <2>1
<1> HIDE DEF H
<1>6. /\ IsList(all) /\ \A k \in DOMAIN all : all[k] \in H
      /\ \A j, k \in DOMAIN all : all[j] = all[k] => j = k
  BY <1>3, IncreasingPlaces
<1> HIDE DEF all
<1>7. /\ IsList(at) /\ DOMAIN at \subseteq DOMAIN all /\ \A k \in DOMAIN at : at[k] = all[k]
  <2>1. MaxCauseSites \in Nat
    BY CauseTargetsAssumption
  <2> QED BY <1>6, <2>1, FirstOfList
<1> HIDE DEF at
<1>8. /\ \A k \in DOMAIN at : at[k] \in H
      /\ \A j, k \in DOMAIN at : at[j] = at[k] => j = k
  BY <1>6, <1>7
<1> HIDE DEF sites
<1>9. DOMAIN sites = DOMAIN at /\ \A k \in DOMAIN sites : sites[k] = e.hot[at[k]]
  BY <1>1
<1>10. IsList(sites)
  <2>1. DOMAIN at = 1 .. Len(at) /\ Len(at) \in Nat
    BY <1>7, ListPlaces
  <2> DEFINE T == {sites[k] : k \in DOMAIN sites}
  <2>2. sites \in [DOMAIN sites -> T]
    <3>1. sites = [k \in DOMAIN sites |-> sites[k]]
      BY <1>1
    <3> QED BY <3>1
  <2> HIDE DEF T
  <2> QED BY <1>9, <2>1, <2>2, MadeList
<1>11. \A i \in DOMAIN sites : sites[i] \in DOMAIN e.at
  BY <1>4, <1>8, <1>9 DEF Classifiable
<1>12. \A i, j \in DOMAIN sites : sites[i] = sites[j] => i = j
  <2> SUFFICES ASSUME NEW i \in DOMAIN sites, NEW j \in DOMAIN sites, sites[i] = sites[j], i # j
               PROVE  FALSE
    OBVIOUS
  <2>1. at[i] \in H /\ at[j] \in H /\ at[i] # at[j] /\ e.hot[at[i]] = e.hot[at[j]]
    BY <1>8, <1>9
  <2>2. at[i] \in Nat /\ at[j] \in Nat
    BY <1>3, <2>1
  <2>3. at[i] < at[j] \/ at[j] < at[i]
    BY <2>1, <2>2
  <2> QED BY <1>5, <2>1, <2>3
<1>13. IsSites(e, sites)
  BY <1>10, <1>11, <1>12 DEF IsSites
<1> QED BY <1>13 DEF sites

-----------------------------------------------------------------------------
(* The causes of a function that stand out, and where its flags are.       *)
LEMMA PlacesOfCauses ==
    ASSUME NEW f, IsFunction(f)
    PROVE  /\ \A c \in AskedCauses : Place(f, c) \in Nat
           /\ \A c : c \in TierFlags(f, 2) <=> c \in AskedCauses /\ StandsOut(f, c) /\ Deferred(c)
           /\ \A rank \in {0, 1} : \A c :
                 c \in TierFlags(f, rank) <=>
                     /\ c \in AskedCauses /\ StandsOut(f, c) /\ ~Deferred(c)
                     /\ Place(f, c) = rank
<1> DEFINE S == {c \in Cleared(f) : ~Deferred(c)}
           R == {p \in S \X S : Precedes(f.z, p[1], p[2])}
           ranked == Rank(S, f.z)
<1>1. \A c : c \in Cleared(f) <=> c \in AskedCauses /\ StandsOut(f, c)
  BY DEF Cleared, StandsOut, Vetoed, AskedCauses
<1>2. \A c : c \in S <=> c \in AskedCauses /\ StandsOut(f, c) /\ ~Deferred(c)
  BY <1>1
<1>3. f.z \in [AskedCauses -> Int]
  BY DEF IsFunction, AskedCauses
<1>4. Orders(S, R)
  <2>1. S \in SUBSET AskedCauses
    BY <1>2
  <2> HIDE DEF S
  <2> QED BY <1>3, <2>1, CausesAreOrdered
<1>5. ranked = InOrder(S, R)
  BY DEF Rank
<1>6. ASSUME NEW c \in AskedCauses PROVE IsFiniteSet(Stronger(f, c))
  <2>1. Stronger(f, c) \in SUBSET AskedCauses
    BY DEF Stronger, AskedCauses
  <2> QED BY <2>1, CausesAreListed, FS_Subset
<1>7. \A c \in AskedCauses : Place(f, c) \in Nat
  BY <1>6, FS_CardinalityType DEF Place, MaxFlagged
<1>8. ASSUME NEW c \in S PROVE AheadOf(S, R, c) = Place(f, c)
  <2>1. {y \in S : <<y, c>> \in R} = Stronger(f, c)
    BY <1>2 DEF Stronger, AskedCauses
  <2> QED BY <1>2, <2>1 DEF AheadOf, Place
<1>9. TierFlags(f, 2) = {c \in Cleared(f) : Deferred(c)}
  BY DEF TierFlags, MaxFlagged
<1>10. ASSUME NEW rank \in {0, 1}, NEW c
       PROVE  c \in TierFlags(f, rank) <=> c \in S /\ Place(f, c) = rank
  <2> DEFINE primary == Primary(f)
  <2>1. primary = FirstOf(2, ranked)
    BY DEF Primary, MaxFlagged
  <2>2. TierFlags(f, rank) = {primary[k] : k \in {rank + 1} \cap DOMAIN primary}
    BY DEF TierFlags, MaxFlagged
  <2> HIDE DEF S, R, ranked
  <2>3. /\ IsList(ranked)
        /\ \A x \in S : /\ AheadOf(S, R, x) + 1 \in DOMAIN ranked
                        /\ ranked[AheadOf(S, R, x) + 1] = x
        /\ \A k \in DOMAIN ranked : ranked[k] \in S /\ AheadOf(S, R, ranked[k]) = k - 1
    BY <1>4, <1>5, StandsInOrder
  <2>4. /\ DOMAIN primary = {j \in DOMAIN ranked : j <= 2}
        /\ \A k \in DOMAIN primary : primary[k] = ranked[k]
    <3>1. 2 \in Nat
      OBVIOUS
    <3>2. /\ DOMAIN FirstOf(2, ranked) = {j \in DOMAIN ranked : j <= 2}
          /\ \A k \in DOMAIN FirstOf(2, ranked) : FirstOf(2, ranked)[k] = ranked[k]
      BY <2>3, <3>1, FirstOfList
    <3> QED BY <2>1, <3>2
  <2> HIDE DEF primary
  <2>5. ASSUME c \in TierFlags(f, rank) PROVE c \in S /\ Place(f, c) = rank
    <3>1. rank + 1 \in DOMAIN primary /\ c = primary[rank + 1]
      BY <2>2, <2>5
    <3>2. rank + 1 \in DOMAIN ranked /\ c = ranked[rank + 1]
      BY <2>4, <3>1
    <3> QED BY <1>8, <2>3, <3>2
  <2>6. ASSUME c \in S, Place(f, c) = rank PROVE c \in TierFlags(f, rank)
    <3>1. rank + 1 \in DOMAIN ranked /\ ranked[rank + 1] = c
      BY <1>8, <2>3, <2>6
    <3>2. rank + 1 \in DOMAIN primary /\ primary[rank + 1] = c
      BY <2>4, <3>1
    <3> QED BY <2>2, <3>2
  <2> QED BY <2>5, <2>6
<1> HIDE DEF S, R, ranked
<1> QED BY <1>1, <1>2, <1>7, <1>9, <1>10

-----------------------------------------------------------------------------
(* The places of a tier, their order, and what may not be left waiting.    *)
TierPlaces(e, sites, failed, rank) ==
    {p \in [i : DOMAIN sites, cause : AskedCauses] :
        /\ sites[p.i] \notin failed
        /\ p.cause \in TierFlags(e.at[sites[p.i]], rank)}

Compared(e, sites, S) == {p \in S \X S : CompareRanked(e, sites, p[1], p[2])}

PlaceAt(e, sites, p) == Place(e.at[sites[p.i]], p.cause)

AheadAt(e, sites, p, q) ==
    LET weight(r) == e.at[sites[r.i]].z[r.cause] * e.at[sites[r.i]].z[r.cause]
    IN  \/ PlaceAt(e, sites, p) < PlaceAt(e, sites, q)
        \/ /\ PlaceAt(e, sites, p) = PlaceAt(e, sites, q)
           /\ IF e.memory /\ IsAllocation(p.cause) # IsAllocation(q.cause)
              THEN IsAllocation(p.cause)
              ELSE weight(p) * q.i > weight(q) * p.i

Located(e) == e.memory \in BOOLEAN /\ \A loc \in DOMAIN e.at : IsFunction(e.at[loc])

LEMMA TierMembers ==
    ASSUME NEW e, NEW sites, Located(e), IsSites(e, sites), NEW failed, NEW rank \in {0, 1, 2},
           NEW p \in TierPlaces(e, sites, failed, rank)
    PROVE  /\ p.i \in DOMAIN sites /\ p.i \in Nat /\ p.i > 0 /\ p.cause \in AskedCauses
           /\ p = [i |-> p.i, cause |-> p.cause] /\ sites[p.i] \in DOMAIN e.at
           /\ sites[p.i] \notin failed /\ StandsOut(e.at[sites[p.i]], p.cause)
           /\ e.at[sites[p.i]].z[p.cause] \in Int
           /\ Deferred(p.cause) <=> rank = 2
           /\ PlaceAt(e, sites, p) = rank
<1>1. /\ p.i \in DOMAIN sites /\ p.cause \in AskedCauses /\ sites[p.i] \notin failed
      /\ p = [i |-> p.i, cause |-> p.cause] /\ p.cause \in TierFlags(e.at[sites[p.i]], rank)
  BY DEF TierPlaces
<1>2. sites[p.i] \in DOMAIN e.at /\ p.i \in Nat /\ p.i > 0
  <2>1. DOMAIN sites = 1 .. Len(sites) /\ Len(sites) \in Nat
    BY ListPlaces DEF IsSites
  <2> QED BY <1>1, <2>1 DEF IsSites
<1> DEFINE f == e.at[sites[p.i]]
<1>3. IsFunction(f)
  BY <1>2 DEF Located
<1>4. f.z[p.cause] \in Int
  BY <1>1, <1>3 DEF IsFunction, AskedCauses
<1>5. CASE rank = 2
  <2>1. StandsOut(f, p.cause) /\ Deferred(p.cause)
    BY <1>1, <1>3, <1>5, PlacesOfCauses
  <2>2. Place(f, p.cause) = 2
    BY <2>1 DEF Place, MaxFlagged
  <2> QED BY <1>1, <1>2, <1>4, <1>5, <2>1, <2>2 DEF PlaceAt
<1>6. CASE rank \in {0, 1}
  <2>1. StandsOut(f, p.cause) /\ ~Deferred(p.cause) /\ Place(f, p.cause) = rank
    BY <1>1, <1>3, <1>6, PlacesOfCauses
  <2> QED BY <1>1, <1>2, <1>4, <1>6, <2>1 DEF PlaceAt
<1> QED BY <1>5, <1>6

(* A comparison of shares, each a weight over a position.                  *)
LEMMA SharesCompare ==
    ASSUME NEW a \in Int, NEW b \in Int, NEW c \in Int,
           NEW i \in Nat, NEW j \in Nat, NEW k \in Nat, i > 0, j > 0, k > 0,
           a * j >= b * i, b * k >= c * j
    PROVE  /\ a * k >= c * i
           /\ a * j > b * i \/ b * k > c * j => a * k > c * i
<1>1. (a * j) * k >= (b * i) * k /\ (b * k) * i >= (c * j) * i
  <2>1. \A x, y \in Int : \A n \in Nat : x >= y => x * n >= y * n
    OBVIOUS
  <2>2. a * j \in Int /\ b * i \in Int /\ b * k \in Int /\ c * j \in Int
    OBVIOUS
  <2> QED BY <2>1, <2>2
<1>2. a * j > b * i => (a * j) * k > (b * i) * k
  <2>1. \A x, y \in Int : \A n \in Nat : n > 0 /\ x > y => x * n > y * n
    OBVIOUS
  <2>2. a * j \in Int /\ b * i \in Int
    OBVIOUS
  <2> QED BY <2>1, <2>2
<1>3. b * k > c * j => (b * k) * i > (c * j) * i
  <2>1. \A x, y \in Int : \A n \in Nat : n > 0 /\ x > y => x * n > y * n
    OBVIOUS
  <2>2. b * k \in Int /\ c * j \in Int
    OBVIOUS
  <2> QED BY <2>1, <2>2
<1>4. /\ (a * j) * k = (a * k) * j /\ (b * i) * k = (b * k) * i /\ (c * j) * i = (c * i) * j
  OBVIOUS
<1> DEFINE x == a * k
           y == c * i
<1>5. x \in Int /\ y \in Int /\ b * k \in Int /\ (b * k) * i \in Int
  OBVIOUS
<1>6. x * j >= y * j /\ (a * j > b * i \/ b * k > c * j => x * j > y * j)
  <2> DEFINE u == (a * j) * k
             v == (b * i) * k
             w == (c * j) * i
  <2>1. u \in Int /\ v \in Int /\ w \in Int
    OBVIOUS
  <2>2. u >= v /\ v >= w /\ (a * j > b * i => u > v) /\ (b * k > c * j => v > w)
    BY <1>1, <1>2, <1>3, <1>4
  <2>3. u = x * j /\ w = y * j
    BY <1>4
  <2> HIDE DEF u, v, w, x, y
  <2> QED BY <2>1, <2>2, <2>3
<1> HIDE DEF x, y
<1>7. (x * j >= y * j => x >= y) /\ (x * j > y * j => x > y)
  <2>1. x < y => x * j < y * j
    BY <1>5
  <2>2. x = y => x * j = y * j
    OBVIOUS
  <2>3. x * j \in Int /\ y * j \in Int
    BY <1>5
  <2> QED BY <1>5, <2>1, <2>2, <2>3
<1>8. x >= y /\ (a * j > b * i \/ b * k > c * j => x > y)
  BY <1>6, <1>7
<1> QED BY <1>8 DEF x, y

(* A function has one place in a tier, so that a tier is finite and, by    *)
(* weight and hotness, in an order.                                        *)
LEMMA TiersAreOrdered ==
    ASSUME NEW e, NEW sites, Located(e), IsSites(e, sites), NEW failed, NEW rank \in {0, 1, 2}
    PROVE  Orders(TierPlaces(e, sites, failed, rank),
                  Compared(e, sites, TierPlaces(e, sites, failed, rank)))
<1> DEFINE S == TierPlaces(e, sites, failed, rank)
           R == Compared(e, sites, S)
           w(p) == e.at[sites[p.i]].z[p.cause] * e.at[sites[p.i]].z[p.cause]
           split(p, q) == e.memory /\ IsAllocation(p.cause) # IsAllocation(q.cause)
<1>1. \A p \in S : /\ p.i \in DOMAIN sites /\ p.i \in Nat /\ p.i > 0 /\ p.cause \in AskedCauses
                   /\ p = [i |-> p.i, cause |-> p.cause] /\ w(p) \in Int
  <2> TAKE p \in S
  <2>1. e.at[sites[p.i]].z[p.cause] \in Int
    BY TierMembers
  <2> QED BY <2>1, TierMembers
<1>2. \A p, q \in S : <<p, q>> \in R <=>
         IF split(p, q) THEN IsAllocation(p.cause)
         ELSE w(p) * q.i > w(q) * p.i \/ (w(p) * q.i = w(q) * p.i /\ p.i < q.i)
  BY DEF Compared, CompareRanked
<1>3. \A p, q \in S : p.i = q.i => p = q
  <2> SUFFICES ASSUME NEW p \in S, NEW q \in S, p.i = q.i PROVE p.cause = q.cause
    BY <1>1
  <2> DEFINE f == e.at[sites[p.i]]
  <2>1. p.cause \in TierFlags(f, rank) /\ q.cause \in TierFlags(f, rank)
    BY DEF TierPlaces
  <2>2. CASE rank = 2
    <3>1. Deferred(p.cause) /\ Deferred(q.cause)
      BY <2>2, TierMembers
    <3> QED BY <3>1 DEF Deferred
  <2>3. CASE rank \in {0, 1}
    BY <2>1, <2>3 DEF TierFlags, MaxFlagged
  <2> QED BY <2>2, <2>3
<1>4. IsFiniteSet(S)
  <2> DEFINE place == [p \in S |-> p.i]
  <2>1. place \in Injection(S, DOMAIN sites)
    <3> HIDE DEF S
    <3> QED BY <1>1, <1>3 DEF Injection, IsInjective
  <2>2. IsFiniteSet(DOMAIN sites)
    <3>1. DOMAIN sites = 1 .. Len(sites) /\ Len(sites) \in Nat
      BY ListPlaces DEF IsSites
    <3> QED BY <3>1, FS_Interval
  <2> HIDE DEF place
  <2> QED BY <2>1, <2>2, FS_Injection
<1> HIDE DEF S, R, w
<1>5. \A p \in S : <<p, p>> \notin R
  <2> TAKE p \in S
  <2>1. w(p) * p.i \in Int
    BY <1>1
  <2> QED BY <1>1, <1>2, <2>1
<1>6. \A p, q \in S : p # q => <<p, q>> \in R \/ <<q, p>> \in R
  <2> SUFFICES ASSUME NEW p \in S, NEW q \in S, p # q PROVE <<p, q>> \in R \/ <<q, p>> \in R
    OBVIOUS
  <2>1. w(p) * q.i \in Int /\ w(q) * p.i \in Int /\ p.i # q.i
    BY <1>1, <1>3
  <2>2. CASE split(p, q)
    <3>1. split(q, p) /\ (IsAllocation(p.cause) \/ IsAllocation(q.cause))
      BY <2>2 DEF IsAllocation
    <3> QED BY <1>2, <2>2, <3>1
  <2>3. CASE ~split(p, q)
    <3>1. ~split(q, p)
      BY <2>3
    <3>2. \/ w(p) * q.i > w(q) * p.i \/ w(q) * p.i > w(p) * q.i
          \/ w(p) * q.i = w(q) * p.i
      BY <2>1
    <3>3. p.i < q.i \/ q.i < p.i
      BY <1>1, <2>1
    <3> QED BY <1>2, <2>3, <3>1, <3>2, <3>3
  <2> QED BY <2>2, <2>3
<1>7. ASSUME NEW p \in S, NEW q \in S, NEW r \in S, <<p, q>> \in R, <<q, r>> \in R
      PROVE  <<p, r>> \in R
  <2>1. CASE split(p, r)
    <3>1. IsAllocation(p.cause)
      <4>1. split(p, q) \/ split(q, r)
        BY <2>1
      <4> QED BY <1>2, <1>7, <2>1, <4>1
    <3> QED BY <1>2, <2>1, <3>1
  <2>2. CASE ~split(p, r)
    <3>1. ~split(p, q) /\ ~split(q, r)
      <4>1. split(p, q) => IsAllocation(p.cause) /\ ~IsAllocation(q.cause)
        BY <1>2, <1>7
      <4>2. split(q, r) => IsAllocation(q.cause) /\ ~IsAllocation(r.cause)
        BY <1>2, <1>7
      <4> QED BY <2>2, <4>1, <4>2
    <3>2. /\ w(p) * q.i > w(q) * p.i \/ (w(p) * q.i = w(q) * p.i /\ p.i < q.i)
          /\ w(q) * r.i > w(r) * q.i \/ (w(q) * r.i = w(r) * q.i /\ q.i < r.i)
      BY <1>2, <1>7, <3>1
    <3>3. /\ w(p) * q.i \in Int /\ w(q) * p.i \in Int /\ w(q) * r.i \in Int
          /\ w(r) * q.i \in Int /\ w(p) * r.i \in Int /\ w(r) * p.i \in Int
      BY <1>1
    <3>4. w(p) * q.i >= w(q) * p.i /\ w(q) * r.i >= w(r) * q.i
      BY <3>2, <3>3
    <3>5. /\ w(p) * r.i >= w(r) * p.i
          /\ w(p) * q.i > w(q) * p.i \/ w(q) * r.i > w(r) * q.i => w(p) * r.i > w(r) * p.i
      BY <1>1, <3>4, SharesCompare
    <3>6. p.i < q.i /\ q.i < r.i => p.i < r.i
      BY <1>1
    <3>7. w(p) * r.i > w(r) * p.i \/ (w(p) * r.i = w(r) * p.i /\ p.i < r.i)
      BY <3>2, <3>3, <3>5, <3>6
    <3> QED BY <1>2, <2>2, <3>7
  <2> QED BY <2>1, <2>2
<1>8. Orders(S, R)
  BY <1>4, <1>5, <1>6, <1>7 DEF Orders
<1> QED BY <1>8 DEF S, R

(* The tiers together, and what of them may not be left waiting.           *)
Flagged(e, sites, failed) ==
    UNION {TierPlaces(e, sites, failed, rank) : rank \in {0, 1, 2}}

Waits(e, sites, S) == {p \in S \X S : AheadAt(e, sites, p[1], p[2])}

LEMMA FlaggedAre ==
    ASSUME NEW e, NEW sites, Located(e), IsSites(e, sites), NEW failed
    PROVE  \A p : p \in Flagged(e, sites, failed) <=>
              /\ p \in [i : DOMAIN sites, cause : AskedCauses] /\ sites[p.i] \notin failed
              /\ StandsOut(e.at[sites[p.i]], p.cause)
              /\ Deferred(p.cause) \/ PlaceAt(e, sites, p) < MaxFlagged
<1> TAKE p
<1>1. ASSUME p \in Flagged(e, sites, failed)
      PROVE  /\ p \in [i : DOMAIN sites, cause : AskedCauses] /\ sites[p.i] \notin failed
             /\ StandsOut(e.at[sites[p.i]], p.cause)
             /\ Deferred(p.cause) \/ PlaceAt(e, sites, p) < MaxFlagged
  <2>1. PICK rank \in {0, 1, 2} : p \in TierPlaces(e, sites, failed, rank)
    BY <1>1 DEF Flagged
  <2>2. p \in [i : DOMAIN sites, cause : AskedCauses]
    BY <2>1 DEF TierPlaces
  <2>3. /\ sites[p.i] \notin failed /\ StandsOut(e.at[sites[p.i]], p.cause)
        /\ (Deferred(p.cause) <=> rank = 2) /\ PlaceAt(e, sites, p) = rank
    BY <2>1, TierMembers
  <2> QED BY <2>2, <2>3 DEF MaxFlagged
<1>2. ASSUME p \in [i : DOMAIN sites, cause : AskedCauses], sites[p.i] \notin failed,
             StandsOut(e.at[sites[p.i]], p.cause),
             Deferred(p.cause) \/ PlaceAt(e, sites, p) < MaxFlagged
      PROVE  p \in Flagged(e, sites, failed)
  <2> DEFINE f == e.at[sites[p.i]]
  <2>1. p.i \in DOMAIN sites /\ p.cause \in AskedCauses
    BY <1>2
  <2>2. IsFunction(f)
    BY <2>1 DEF IsSites, Located
  <2>3. \E rank \in {0, 1, 2} : p.cause \in TierFlags(f, rank)
    <3>1. CASE Deferred(p.cause)
      BY <1>2, <2>1, <2>2, <3>1, PlacesOfCauses
    <3>2. CASE ~Deferred(p.cause)
      <4>1. Place(f, p.cause) \in Nat /\ Place(f, p.cause) < 2
        BY <1>2, <2>1, <2>2, <3>2, PlacesOfCauses DEF PlaceAt, MaxFlagged
      <4>2. Place(f, p.cause) \in {0, 1}
        BY <4>1
      <4> QED BY <1>2, <2>1, <2>2, <3>2, <4>2, PlacesOfCauses
    <3> QED BY <3>1, <3>2
  <2> QED BY <1>2, <2>3 DEF Flagged, TierPlaces
<1> QED BY <1>1, <1>2

LEMMA TiersRank ==
    ASSUME NEW e, NEW sites, Located(e), IsSites(e, sites), NEW failed
    PROVE  LET tier(rank) == RankTier(e, sites, failed, rank)
               S == Flagged(e, sites, failed)
           IN  Ranks(tier(0) \o tier(1) \o tier(2), S, Waits(e, sites, S))
<1> DEFINE tier(rank) == RankTier(e, sites, failed, rank)
           T(rank) == TierPlaces(e, sites, failed, rank)
           S == Flagged(e, sites, failed)
           B == Waits(e, sites, S)
<1>1. S = T(0) \cup T(1) \cup T(2)
  BY DEF Flagged
<1>2. ASSUME NEW rank \in {0, 1, 2} PROVE Ranks(tier(rank), T(rank), B)
  <2>1. tier(rank) = InOrder(T(rank), Compared(e, sites, T(rank)))
    BY DEF RankTier, TierPlaces, Compared, AskedCauses
  <2>2. \A p, q \in T(rank) : <<p, q>> \in B => <<p, q>> \in Compared(e, sites, T(rank))
    <3> SUFFICES ASSUME NEW p \in T(rank), NEW q \in T(rank), <<p, q>> \in B
                 PROVE  CompareRanked(e, sites, p, q)
      BY DEF Compared
    <3>1. AheadAt(e, sites, p, q)
      BY DEF Waits
    <3>2. PlaceAt(e, sites, p) = rank /\ PlaceAt(e, sites, q) = rank
      BY TierMembers
    <3>3. /\ p.i \in Nat /\ q.i \in Nat /\ e.at[sites[p.i]].z[p.cause] \in Int
          /\ e.at[sites[q.i]].z[q.cause] \in Int
      BY TierMembers
    <3>4. ~(PlaceAt(e, sites, p) < PlaceAt(e, sites, q))
      BY <3>2
    <3> QED BY <3>1, <3>4 DEF AheadAt, CompareRanked
  <2>3. Orders(T(rank), Compared(e, sites, T(rank)))
    BY TiersAreOrdered
  <2> HIDE DEF T, B
  <2> QED BY <2>1, <2>2, <2>3, OrderRanks
<1>3. ASSUME NEW a \in {0, 1, 2}, NEW b \in {0, 1, 2}, a < b, NEW p \in T(a), NEW q \in T(b)
      PROVE  <<q, p>> \notin B
  <2> SUFFICES ASSUME AheadAt(e, sites, q, p) PROVE FALSE
    BY DEF Waits
  <2>1. PlaceAt(e, sites, p) = a /\ PlaceAt(e, sites, q) = b
    BY TierMembers
  <2>2. ~(PlaceAt(e, sites, q) < PlaceAt(e, sites, p)) /\ PlaceAt(e, sites, q) # PlaceAt(e, sites, p)
    BY <1>3, <2>1
  <2> QED BY <2>2 DEF AheadAt
<1>7. /\ 0 \in {0, 1, 2} /\ 1 \in {0, 1, 2} /\ 2 \in {0, 1, 2} /\ 0 < 1 /\ 0 < 2 /\ 1 < 2
  OBVIOUS
<1> HIDE DEF T, B, tier, S
<1>4. Ranks(tier(0) \o tier(1), T(0) \cup T(1), B)
  <2>1. \A p \in T(0) : \A q \in T(1) : <<q, p>> \notin B
    BY <1>3, <1>7
  <2>2. Ranks(tier(0), T(0), B) /\ Ranks(tier(1), T(1), B)
    BY <1>2
  <2> QED BY <2>1, <2>2, JoinRanks
<1>5. Ranks((tier(0) \o tier(1)) \o tier(2), (T(0) \cup T(1)) \cup T(2), B)
  <2>1. \A p \in T(0) \cup T(1) : \A q \in T(2) : <<q, p>> \notin B
    <3>1. \A p \in T(0) : \A q \in T(2) : <<q, p>> \notin B
      BY <1>3, <1>7
    <3>2. \A p \in T(1) : \A q \in T(2) : <<q, p>> \notin B
      BY <1>3, <1>7
    <3> QED BY <3>1, <3>2
  <2>2. Ranks(tier(2), T(2), B)
    BY <1>2
  <2> QED BY <1>4, <2>1, <2>2, JoinRanks
<1>6. Ranks(tier(0) \o tier(1) \o tier(2), S, B)
  BY <1>1, <1>5
<1> QED BY <1>6 DEF B, S, tier

-----------------------------------------------------------------------------
(* The targets Jev's flags make, by their keys.                            *)
AheadIn(e, sites, u, t) ==
    LET f(key) == e.at[key[1]]
        hot(key) == SelectInSeq(sites, LAMBDA s : s = key[1])
        weight(key) == f(key).z[key[2]] * f(key).z[key[2]]
    IN  \/ Place(f(u), u[2]) < Place(f(t), t[2])
        \/ /\ Place(f(u), u[2]) = Place(f(t), t[2])
           /\ IF e.memory /\ IsAllocation(u[2]) # IsAllocation(t[2])
              THEN IsAllocation(u[2])
              ELSE weight(u) * hot(t) > weight(t) * hot(u)

TargetAt(e, sites, p) == SiteTarget(e, sites[p.i], p.cause)

CauseTargetsOf(e, sites, failed) == {TargetAt(e, sites, p) : p \in Flagged(e, sites, failed)}

MayNotWait(e, sites, S) == {p \in S \X S : AheadIn(e, sites, TargetKey(p[1]), TargetKey(p[2]))}

LEMMA KindIsNamed == \A f, c : FixKind(f, c) \in FixKinds
<1> SUFFICES ASSUME NEW f, NEW c PROVE FixKind(f, c) \in FixKinds
  OBVIOUS
<1>1. "generic" \in FixKinds /\ (HasKinds(c) => KindsOf[c] \subseteq FixKinds)
  BY DEF HasKinds, FixKinds
<1>2. HasKinds(c) => ChooseKind(f, c) \in FixKinds
  <2> SUFFICES ASSUME HasKinds(c) PROVE ChooseKind(f, c) \in FixKinds
    OBVIOUS
  <2> DEFINE leads == {k \in KindsOf[c] :
                         /\ f.kinds[k] >= 0
                         /\ \A l \in KindsOf[c] \ {k} : f.kinds[k] - f.kinds[l] >= KindGate}
  <2>1. ChooseKind(f, c) = IF leads = {} THEN "generic" ELSE CHOOSE k \in leads : TRUE
    BY DEF ChooseKind
  <2>2. leads \subseteq FixKinds
    BY <1>1
  <2> HIDE DEF leads
  <2>3. leads # {} => (CHOOSE k \in leads : TRUE) \in leads
    OBVIOUS
  <2> QED BY <1>1, <2>1, <2>2, <2>3
<1> QED BY <1>1, <1>2 DEF FixKind

LEMMA TargetsOfPlaces ==
    ASSUME NEW e, NEW sites, Located(e), IsSites(e, sites), NEW failed
    PROVE  /\ \A p \in Flagged(e, sites, failed) :
                 /\ TargetKey(TargetAt(e, sites, p)) = <<sites[p.i], p.cause>>
                 /\ TargetAt(e, sites, p).location = sites[p.i]
                 /\ TargetAt(e, sites, p).cause = p.cause
                 /\ TargetAt(e, sites, p) \in [location : DOMAIN e.at, cause : Causes, kind : FixKinds]
           /\ \A p, q \in Flagged(e, sites, failed) :
                 AheadIn(e, sites, TargetKey(TargetAt(e, sites, p)), TargetKey(TargetAt(e, sites, q)))
                    <=> AheadAt(e, sites, p, q)
<1>1. ASSUME NEW p \in Flagged(e, sites, failed)
      PROVE  /\ p.i \in DOMAIN sites /\ sites[p.i] \in DOMAIN e.at /\ p.cause \in Causes
             /\ TargetAt(e, sites, p)
                  = [location |-> sites[p.i], cause |-> p.cause,
                     kind |-> FixKind(e.at[sites[p.i]], p.cause)]
  <2>1. p \in [i : DOMAIN sites, cause : AskedCauses]
    BY FlaggedAre
  <2>2. p.i \in DOMAIN sites /\ p.cause \in AskedCauses
    BY <2>1
  <2>3. AskedCauses \subseteq Causes
    BY DEF AskedCauses, Causes
  <2> QED BY <2>2, <2>3 DEF TargetAt, SiteTarget, Target, IsSites
<1>2. ASSUME NEW p \in Flagged(e, sites, failed)
      PROVE  /\ TargetKey(TargetAt(e, sites, p)) = <<sites[p.i], p.cause>>
             /\ TargetAt(e, sites, p).location = sites[p.i]
             /\ TargetAt(e, sites, p).cause = p.cause
             /\ TargetAt(e, sites, p) \in [location : DOMAIN e.at, cause : Causes, kind : FixKinds]
  <2>1. TargetAt(e, sites, p).location = sites[p.i] /\ TargetAt(e, sites, p).cause = p.cause
    BY <1>1
  <2>2. TargetAt(e, sites, p) \in [location : DOMAIN e.at, cause : Causes, kind : FixKinds]
    BY <1>1, KindIsNamed
  <2> QED BY <2>1, <2>2 DEF TargetKey
<1>3. ASSUME NEW p \in Flagged(e, sites, failed)
      PROVE  SelectInSeq(sites, LAMBDA s : s = sites[p.i]) = p.i
  <2>1. p.i \in DOMAIN sites
    BY <1>1
  <2> DEFINE x == sites[p.i]
             first == SelectInSeq(sites, LAMBDA s : s = x)
  <2>2. \E i \in DOMAIN sites : sites[i] = x
    BY <2>1
  <2>3. first \in DOMAIN sites /\ sites[first] = x
    <3> HIDE DEF x
    <3> QED BY <2>2, FoundInList DEF IsSites
  <2>4. first = p.i
    BY <2>1, <2>3 DEF IsSites
  <2> QED BY <2>4
<1>4. ASSUME NEW p \in Flagged(e, sites, failed), NEW q \in Flagged(e, sites, failed)
      PROVE  AheadIn(e, sites, TargetKey(TargetAt(e, sites, p)), TargetKey(TargetAt(e, sites, q)))
                <=> AheadAt(e, sites, p, q)
  <2> DEFINE u == <<sites[p.i], p.cause>>
             t == <<sites[q.i], q.cause>>
  <2>1. TargetKey(TargetAt(e, sites, p)) = u /\ TargetKey(TargetAt(e, sites, q)) = t
    BY <1>2
  <2>2. u[1] = sites[p.i] /\ u[2] = p.cause /\ t[1] = sites[q.i] /\ t[2] = q.cause
    OBVIOUS
  <2>3. /\ SelectInSeq(sites, LAMBDA s : s = u[1]) = p.i
        /\ SelectInSeq(sites, LAMBDA s : s = t[1]) = q.i
    <3>1. /\ SelectInSeq(sites, LAMBDA s : s = sites[p.i]) = p.i
          /\ SelectInSeq(sites, LAMBDA s : s = sites[q.i]) = q.i
      BY <1>3
    <3> QED BY <3>1
  <2> HIDE DEF u, t
  <2>4. AheadIn(e, sites, u, t) <=> AheadAt(e, sites, p, q)
    BY <2>2, <2>3 DEF AheadIn, AheadAt, PlaceAt
  <2> QED BY <2>1, <2>4
<1> QED BY <1>2, <1>4

LEMMA JevRanks ==
    ASSUME NEW e, NEW sites, Located(e), IsSites(e, sites), NEW failed
    PROVE  LET S == CauseTargetsOf(e, sites, failed)
           IN  Ranks(JevTargets(e, sites, failed), S, MayNotWait(e, sites, S))
<1> DEFINE tier(rank) == RankTier(e, sites, failed, rank)
           tiers == tier(0) \o tier(1) \o tier(2)
           PL == Flagged(e, sites, failed)
           S == CauseTargetsOf(e, sites, failed)
           B == MayNotWait(e, sites, S)
           g(p) == TargetAt(e, sites, p)
           ranked == JevTargets(e, sites, failed)
<1>1. Ranks(tiers, PL, Waits(e, sites, PL))
  BY TiersRank
<1>2. ranked = [k \in DOMAIN tiers |-> g(tiers[k])]
  BY DEF JevTargets, TargetAt, MaxFlagged
<1> HIDE DEF tiers, ranked
<1>3. DOMAIN ranked = DOMAIN tiers /\ \A k \in DOMAIN tiers : ranked[k] = g(tiers[k])
  BY <1>2
<1>4. S = {g(p) : p \in PL}
  BY DEF CauseTargetsOf
<1>5. \A p, q \in PL : <<g(p), g(q)>> \in B => <<p, q>> \in Waits(e, sites, PL)
  BY TargetsOfPlaces DEF Waits, MayNotWait
<1> HIDE DEF PL, S, B, g
<1>6. /\ IsList(tiers) /\ \A k \in DOMAIN tiers : tiers[k] \in PL
      /\ \A p \in PL : \E k \in DOMAIN tiers : tiers[k] = p
      /\ \A k \in DOMAIN tiers : \A p \in PL :
            <<p, tiers[k]>> \in Waits(e, sites, PL) => Earlier(tiers, p, k)
  BY <1>1 DEF Ranks
<1>7. \A k \in DOMAIN ranked : ranked[k] \in S
  BY <1>3, <1>4, <1>6
<1>8. IsList(ranked)
  <2>1. DOMAIN ranked = 1 .. Len(tiers) /\ Len(tiers) \in Nat
    BY <1>3, <1>6, ListPlaces
  <2>2. ranked \in [DOMAIN ranked -> S]
    <3>1. \A k \in DOMAIN tiers : g(tiers[k]) \in S
      BY <1>4, <1>6
    <3> QED BY <1>2, <1>3, <3>1
  <2> QED BY <2>1, <2>2, MadeList
<1>9. \A x \in S : \E k \in DOMAIN ranked : ranked[k] = x
  BY <1>3, <1>4, <1>6
<1>10. ASSUME NEW k \in DOMAIN ranked, NEW x \in S, <<x, ranked[k]>> \in B
       PROVE  Earlier(ranked, x, k)
  <2>1. PICK p \in PL : x = g(p)
    BY <1>4
  <2>2. tiers[k] \in PL /\ ranked[k] = g(tiers[k]) /\ k \in DOMAIN tiers
    BY <1>3, <1>6
  <2>3. <<p, tiers[k]>> \in Waits(e, sites, PL)
    BY <1>5, <1>10, <2>1, <2>2
  <2>4. Earlier(tiers, p, k)
    BY <1>6, <2>2, <2>3
  <2> QED BY <1>3, <2>1, <2>4 DEF Earlier
<1>11. Ranks(ranked, S, B)
  BY <1>7, <1>8, <1>9, <1>10 DEF Ranks
<1> QED BY <1>11 DEF ranked, S, B

-----------------------------------------------------------------------------
(* The other targets, which no order of the causes is about.               *)
LocatedTargets(e) == [location : DOMAIN e.at, cause : Causes, kind : FixKinds]

LEMMA UnrankedList ==
    ASSUME NEW s, IsList(s), NEW B, \A k \in DOMAIN s : \A x : <<x, s[k]>> \notin B
    PROVE  Ranks(s, Range(s), B)
BY DEF Ranks, Range

LEMMA ThrowawaysAre ==
    ASSUME NEW e, NEW sites, Located(e), IsSites(e, sites)
    PROVE  /\ IsList(ThrowawayTargets(e, sites))
           /\ \A k \in DOMAIN ThrowawayTargets(e, sites) :
                 /\ ThrowawayTargets(e, sites)[k] \in LocatedTargets(e)
                 /\ ThrowawayTargets(e, sites)[k].cause = "throwaway_result"
<1> DEFINE consumers(i) == e.at[sites[i]].consumers
           more(i, j) == \/ consumers(i) > consumers(j)
                         \/ consumers(i) = consumers(j) /\ i < j
           hits == {i \in DOMAIN sites : consumers(i) > 0}
           R == {p \in hits \X hits : more(p[1], p[2])}
           ordered == InOrder(hits, R)
           g(i) == Target(sites[i], "throwaway_result", "generic")
           thrown == ThrowawayTargets(e, sites)
<1>1. thrown = [k \in DOMAIN ordered |-> g(ordered[k])]
  BY DEF ThrowawayTargets
<1>2. DOMAIN sites = 1 .. Len(sites) /\ Len(sites) \in Nat
  BY ListPlaces DEF IsSites
<1>3. hits \in SUBSET DOMAIN sites /\ IsFiniteSet(hits)
  <2>1. IsFiniteSet(DOMAIN sites)
    BY <1>2, FS_Interval
  <2> QED BY <2>1, FS_Subset
<1>4. \A i \in hits : i \in Nat /\ consumers(i) \in Nat
  BY <1>2, <1>3 DEF IsSites, Located, IsFunction
<1>5. \A i, j \in hits : <<i, j>> \in R <=> more(i, j)
  OBVIOUS
<1>6. Orders(hits, R)
  <2> HIDE DEF hits, R, consumers
  <2>1. \A i, j, k \in hits : <<i, j>> \in R /\ <<j, k>> \in R => <<i, k>> \in R
    BY <1>4, <1>5
  <2>2. \A i, j \in hits : i # j => <<i, j>> \in R \/ <<j, i>> \in R
    BY <1>4, <1>5
  <2>3. \A i \in hits : <<i, i>> \notin R
    BY <1>4, <1>5
  <2> QED BY <1>3, <2>1, <2>2, <2>3 DEF Orders
<1> HIDE DEF hits, R
<1>7. IsList(ordered) /\ \A k \in DOMAIN ordered : ordered[k] \in hits
  BY <1>6, StandsInOrder
<1> HIDE DEF ordered
<1>8. ASSUME NEW i \in hits PROVE g(i) \in LocatedTargets(e) /\ g(i).cause = "throwaway_result"
  <2>1. sites[i] \in DOMAIN e.at
    BY <1>3 DEF IsSites
  <2>2. "throwaway_result" \in Causes /\ "generic" \in FixKinds
    BY DEF Causes, FixKinds
  <2> QED BY <2>1, <2>2 DEF Target, LocatedTargets
<1> HIDE DEF g, thrown
<1>9. DOMAIN thrown = DOMAIN ordered /\ \A k \in DOMAIN thrown : thrown[k] = g(ordered[k])
  BY <1>1
<1>10. \A k \in DOMAIN thrown :
          thrown[k] \in LocatedTargets(e) /\ thrown[k].cause = "throwaway_result"
  BY <1>7, <1>8, <1>9
<1>11. IsList(thrown)
  <2>1. DOMAIN thrown = 1 .. Len(ordered) /\ Len(ordered) \in Nat
    BY <1>7, <1>9, ListPlaces
  <2> DEFINE T == LocatedTargets(e)
  <2>2. thrown \in [DOMAIN thrown -> T]
    <3> HIDE DEF T
    <3> QED BY <1>1, <1>9, <1>10 DEF T
  <2> HIDE DEF T
  <2> QED BY <2>1, <2>2, MadeList
<1> QED BY <1>10, <1>11 DEF thrown

LEMMA WritesAre ==
    ASSUME NEW e, e.writes \in Seq(Range(e.writes))
    PROVE  /\ IsList(WriteTargets(e))
           /\ \A k \in DOMAIN WriteTargets(e) :
                 /\ WriteTargets(e)[k] \in LocatedTargets(e)
                 /\ WriteTargets(e)[k].cause = "unbuffered_writes"
           /\ \A loc \in DOMAIN e.at :
                 (\E w \in Range(WriteTargets(e)) : w.location = loc) <=> loc \in Range(e.writes)
<1> DEFINE resolved == Only(e.writes, DOMAIN e.at)
           g(loc) == Target(loc, "unbuffered_writes", "generic")
           writes == WriteTargets(e)
<1>1. writes = [k \in DOMAIN resolved |-> g(resolved[k])]
  BY DEF WriteTargets
<1>2. IsList(e.writes)
  BY DEF IsList, Range
<1>3. /\ IsList(resolved)
      /\ \A i \in DOMAIN e.writes :
            e.writes[i] \in DOMAIN e.at => \E k \in DOMAIN resolved : resolved[k] = e.writes[i]
      /\ \A k \in DOMAIN resolved : \E i \in DOMAIN e.writes :
            resolved[k] = e.writes[i] /\ e.writes[i] \in DOMAIN e.at
  <2> DEFINE list == e.writes
             P == DOMAIN e.at
  <2>1. IsList(list) /\ resolved = Only(list, P)
    BY <1>2
  <2> HIDE DEF list, P, resolved
  <2>2. /\ IsList(resolved)
        /\ \A i \in DOMAIN list :
              list[i] \in P => \E k \in DOMAIN resolved : resolved[k] = list[i]
        /\ \A k \in DOMAIN resolved : \E i \in DOMAIN list :
              resolved[k] = list[i] /\ list[i] \in P
    BY <2>1, OnlyKeeps
  <2> QED BY <2>2 DEF list, P
<1> HIDE DEF resolved
<1>4. ASSUME NEW loc \in DOMAIN e.at
      PROVE  /\ g(loc) \in LocatedTargets(e) /\ g(loc).cause = "unbuffered_writes"
             /\ g(loc).location = loc
  <2>1. "unbuffered_writes" \in Causes /\ "generic" \in FixKinds
    BY DEF Causes, FixKinds
  <2> QED BY <2>1 DEF Target, LocatedTargets
<1> HIDE DEF g, writes
<1>5. DOMAIN writes = DOMAIN resolved /\ \A k \in DOMAIN writes : writes[k] = g(resolved[k])
  BY <1>1
<1>6. \A k \in DOMAIN writes :
         /\ writes[k] \in LocatedTargets(e) /\ writes[k].cause = "unbuffered_writes"
         /\ writes[k].location = resolved[k]
  BY <1>3, <1>4, <1>5
<1>7. IsList(writes)
  <2>1. DOMAIN writes = 1 .. Len(resolved) /\ Len(resolved) \in Nat
    BY <1>3, <1>5, ListPlaces
  <2> DEFINE T == LocatedTargets(e)
  <2>2. writes \in [DOMAIN writes -> T]
    <3> HIDE DEF T
    <3> QED BY <1>1, <1>5, <1>6 DEF T
  <2> HIDE DEF T
  <2> QED BY <2>1, <2>2, MadeList
<1>8. ASSUME NEW loc \in DOMAIN e.at
      PROVE  (\E w \in Range(writes) : w.location = loc) <=> loc \in Range(e.writes)
  <2>1. ASSUME NEW w \in Range(writes), w.location = loc PROVE loc \in Range(e.writes)
    <3>1. PICK k \in DOMAIN writes : w = writes[k]
      BY DEF Range
    <3>2. loc = resolved[k]
      BY <1>6, <2>1, <3>1
    <3> QED BY <1>3, <1>5, <3>1, <3>2 DEF Range
  <2>2. ASSUME loc \in Range(e.writes) PROVE \E w \in Range(writes) : w.location = loc
    <3>1. PICK i \in DOMAIN e.writes : loc = e.writes[i]
      BY <2>2 DEF Range
    <3>2. PICK k \in DOMAIN resolved : resolved[k] = loc
      BY <1>3, <3>1
    <3>3. writes[k] \in Range(writes) /\ writes[k].location = loc
      BY <1>5, <1>6, <3>2 DEF Range
    <3> QED BY <3>3
  <2> QED BY <2>1, <2>2
<1> QED BY <1>6, <1>7, <1>8 DEF writes

-----------------------------------------------------------------------------
(* What is owed an attempt, but for whether it is still open.              *)
OwedKeys(e, failed) ==
    {key \in (Range(HotFunctions(e)) \ failed) \X AskedCauses :
        /\ StandsOut(e.at[key[1]], key[2])
        /\ Deferred(key[2]) \/ Place(e.at[key[1]], key[2]) < MaxFlagged
        /\ key[2] = "unbuffered_io" => key[1] \notin Range(e.writes)}

RanksTheOwed(e, failed, ranking) ==
    /\ \A k \in DOMAIN ranking :
          ranking[k].cause \in AskedCauses => TargetKey(ranking[k]) \in OwedKeys(e, failed)
    /\ \A u \in OwedKeys(e, failed) : \E k \in DOMAIN ranking : TargetKey(ranking[k]) = u
    /\ \A k \in DOMAIN ranking : \A u \in OwedKeys(e, failed) :
          /\ ranking[k].cause \in AskedCauses
          /\ AheadIn(e, HotFunctions(e), u, TargetKey(ranking[k]))
          => \E j \in DOMAIN ranking : j < k /\ TargetKey(ranking[j]) = u

LEMMA CauseTargetsAreOwed ==
    ASSUME NEW e, IsEvidence(e), NEW failed
    PROVE  LET S == CauseTargetsOf(e, HotFunctions(e), failed)
           IN  /\ \A x \in S : ~WritesCover(e, x) <=> TargetKey(x) \in OwedKeys(e, failed)
               /\ \A u \in OwedKeys(e, failed) : \E x \in S : TargetKey(x) = u
               /\ \A x \in S : x.cause \in AskedCauses /\ x \in LocatedTargets(e)
<1> DEFINE sites == HotFunctions(e)
           PL == Flagged(e, sites, failed)
           g(p) == TargetAt(e, sites, p)
           S == CauseTargetsOf(e, sites, failed)
<1>1. Located(e) /\ IsSites(e, sites)
  BY HotFunctionsAreSites DEF IsEvidence, Located
<1>2. \A loc \in DOMAIN e.at :
         (\E w \in Range(WriteTargets(e)) : w.location = loc) <=> loc \in Range(e.writes)
  BY WritesAre DEF IsEvidence
<1>3. S = {g(p) : p \in PL}
  BY DEF CauseTargetsOf
<1>4. ASSUME NEW p \in PL
      PROVE  /\ p.i \in DOMAIN sites /\ p.cause \in AskedCauses /\ sites[p.i] \in DOMAIN e.at
             /\ sites[p.i] \notin failed /\ StandsOut(e.at[sites[p.i]], p.cause)
             /\ Deferred(p.cause) \/ Place(e.at[sites[p.i]], p.cause) < MaxFlagged
             /\ TargetKey(g(p)) = <<sites[p.i], p.cause>> /\ g(p).location = sites[p.i]
             /\ g(p).cause = p.cause /\ g(p) \in LocatedTargets(e)
  <2>1. /\ p \in [i : DOMAIN sites, cause : AskedCauses] /\ sites[p.i] \notin failed
        /\ StandsOut(e.at[sites[p.i]], p.cause)
        /\ Deferred(p.cause) \/ PlaceAt(e, sites, p) < MaxFlagged
    BY <1>1, FlaggedAre
  <2>2. p.i \in DOMAIN sites /\ p.cause \in AskedCauses /\ sites[p.i] \in DOMAIN e.at
    BY <1>1, <2>1 DEF IsSites
  <2>3. /\ TargetKey(g(p)) = <<sites[p.i], p.cause>> /\ g(p).location = sites[p.i]
        /\ g(p).cause = p.cause /\ g(p) \in LocatedTargets(e)
    BY <1>1, TargetsOfPlaces DEF LocatedTargets
  <2> QED BY <2>1, <2>2, <2>3 DEF PlaceAt
<1>5. ASSUME NEW p \in PL
      PROVE  ~WritesCover(e, g(p)) <=> TargetKey(g(p)) \in OwedKeys(e, failed)
  <2> DEFINE u == <<sites[p.i], p.cause>>
  <2>1. u[1] = sites[p.i] /\ u[2] = p.cause
    OBVIOUS
  <2>2. u \in (Range(sites) \ failed) \X AskedCauses
    BY <1>4 DEF Range
  <2>3. WritesCover(e, g(p)) <=> u[2] = "unbuffered_io" /\ u[1] \in Range(e.writes)
    BY <1>2, <1>4, <2>1 DEF WritesCover
  <2>4. StandsOut(e.at[u[1]], u[2]) /\ (Deferred(u[2]) \/ Place(e.at[u[1]], u[2]) < MaxFlagged)
    BY <1>4, <2>1
  <2>5. TargetKey(g(p)) = u
    BY <1>4
  <2> HIDE DEF u, g
  <2> QED BY <2>2, <2>3, <2>4, <2>5 DEF OwedKeys
<1>6. ASSUME NEW u \in OwedKeys(e, failed) PROVE \E x \in S : TargetKey(x) = u
  <2>1. /\ u \in (Range(sites) \ failed) \X AskedCauses /\ StandsOut(e.at[u[1]], u[2])
        /\ Deferred(u[2]) \/ Place(e.at[u[1]], u[2]) < MaxFlagged
    BY DEF OwedKeys
  <2>2. u = <<u[1], u[2]>> /\ u[1] \in Range(sites) /\ u[1] \notin failed /\ u[2] \in AskedCauses
    BY <2>1
  <2>3. PICK i \in DOMAIN sites : sites[i] = u[1]
    BY <2>2 DEF Range
  <2> DEFINE p == [i |-> i, cause |-> u[2]]
  <2>4. p \in [i : DOMAIN sites, cause : AskedCauses] /\ p.i = i /\ p.cause = u[2]
    BY <2>2
  <2> HIDE DEF p
  <2>5. p \in PL
    BY <1>1, <2>1, <2>2, <2>3, <2>4, FlaggedAre DEF PlaceAt
  <2>6. TargetKey(g(p)) = <<u[1], u[2]>>
    BY <1>4, <2>3, <2>4, <2>5
  <2> QED BY <1>3, <2>2, <2>5, <2>6
<1>7. \A x \in S : \E p \in PL : x = g(p)
  BY <1>3
<1> HIDE DEF S, PL, g
<1>8. /\ \A x \in S : ~WritesCover(e, x) <=> TargetKey(x) \in OwedKeys(e, failed)
      /\ \A x \in S : x.cause \in AskedCauses /\ x \in LocatedTargets(e)
  BY <1>4, <1>5, <1>7
<1> QED BY <1>6, <1>8 DEF S

LEMMA AnalysisRanks ==
    ASSUME NEW e, IsEvidence(e), NEW failed
    PROVE  /\ IsList(Analysis(e, failed))
           /\ \A k \in DOMAIN Analysis(e, failed) : Analysis(e, failed)[k] \in LocatedTargets(e)
           /\ Range(HotFunctions(e)) \ failed # {} => RanksTheOwed(e, failed, Analysis(e, failed))
<1> DEFINE sites == HotFunctions(e)
           analysis == Analysis(e, failed)
           thrown == ThrowawayTargets(e, sites)
           jev == JevTargets(e, sites, failed)
           writes == WriteTargets(e)
           ranked == thrown \o jev
           P == {t \in Range(ranked) : ~WritesCover(e, t)}
           S == CauseTargetsOf(e, sites, failed)
           B == MayNotWait(e, sites, S)
<1>1. Located(e) /\ IsSites(e, sites)
  BY HotFunctionsAreSites DEF IsEvidence, Located
<1>2. CASE Range(sites) \subseteq failed
  <2>1. analysis = <<>>
    BY <1>2 DEF Analysis
  <2>2. IsList(<<>>) /\ \A k \in DOMAIN <<>> : FALSE
    BY DEF IsList
  <2> HIDE DEF analysis, sites
  <2>3. IsList(analysis) /\ \A k \in DOMAIN analysis : FALSE
    BY <2>1, <2>2
  <2> QED BY <1>2, <2>3 DEF analysis, sites
<1>3. CASE ~(Range(sites) \subseteq failed)
  <2>1. analysis = writes \o Only(ranked, P)
    BY <1>3 DEF Analysis
  <2>2. /\ \A x, y : <<x, y>> \in B => x \in S /\ y \in S
        /\ \A x \in S : x.cause \in AskedCauses /\ x \in LocatedTargets(e)
    BY CauseTargetsAreOwed DEF MayNotWait
  <2>3. "throwaway_result" \notin AskedCauses /\ "unbuffered_writes" \notin AskedCauses
    BY DEF AskedCauses, Range, CauseOrder
  <2>4. /\ \A x \in Range(thrown) : x.cause = "throwaway_result" /\ x \in LocatedTargets(e)
        /\ \A x \in Range(writes) : x.cause = "unbuffered_writes" /\ x \in LocatedTargets(e)
        /\ IsList(thrown) /\ IsList(writes)
    <3>1. /\ e.writes \in Seq(Range(e.writes))
      BY DEF IsEvidence
    <3>2. /\ IsList(writes)
          /\ \A k \in DOMAIN writes :
                writes[k].cause = "unbuffered_writes" /\ writes[k] \in LocatedTargets(e)
      BY <3>1, WritesAre
    <3>3. /\ IsList(thrown)
          /\ \A k \in DOMAIN thrown :
                thrown[k].cause = "throwaway_result" /\ thrown[k] \in LocatedTargets(e)
      BY <1>1, ThrowawaysAre
    <3> HIDE DEF thrown, writes
    <3> QED BY <3>2, <3>3 DEF Range
  <2> HIDE DEF S, B
  <2>5. Ranks(jev, S, B)
    BY <1>1, JevRanks DEF S, B
  <2> HIDE DEF thrown, writes, jev
  <2>6. Ranks(thrown, Range(thrown), B) /\ Ranks(writes, Range(writes), B)
    <3>1. \A k \in DOMAIN thrown : \A x : <<x, thrown[k]>> \notin B
      BY <2>2, <2>3, <2>4 DEF Range
    <3>2. \A k \in DOMAIN writes : \A x : <<x, writes[k]>> \notin B
      BY <2>2, <2>3, <2>4 DEF Range
    <3> QED BY <2>4, <3>1, <3>2, UnrankedList
  <2>7. Ranks(ranked, Range(thrown) \cup S, B)
    <3>1. \A x \in Range(thrown) : \A y \in S : <<y, x>> \notin B
      BY <2>2, <2>3, <2>4
    <3> QED BY <2>5, <2>6, <3>1, JoinRanks
  <2> HIDE DEF ranked
  <2>8. \A x : x \in P <=> x \in Range(thrown) \cup S /\ ~WritesCover(e, x)
    <3>1. Range(ranked) = Range(thrown) \cup S
      BY <2>7 DEF Ranks, Range
    <3> QED BY <3>1
  <2> HIDE DEF P
  <2>9. Ranks(Only(ranked, P), (Range(thrown) \cup S) \cap P, B)
    BY <2>7, OnlyRanks
  <2> DEFINE A == Range(writes) \cup ((Range(thrown) \cup S) \cap P)
  <2>10. Ranks(writes \o Only(ranked, P), A, B)
    <3>1. \A x \in Range(writes) : \A y \in (Range(thrown) \cup S) \cap P : <<y, x>> \notin B
      BY <2>2, <2>3, <2>4
    <3> QED BY <2>6, <2>9, <3>1, JoinRanks
  <2>11. /\ \A x \in A : x \in LocatedTargets(e)
         /\ \A x : x \in A /\ x.cause \in AskedCauses <=> x \in S /\ ~WritesCover(e, x)
    BY <2>2, <2>3, <2>4, <2>8
  <2> HIDE DEF A, analysis
  <2>12. /\ IsList(analysis) /\ \A k \in DOMAIN analysis : analysis[k] \in A
         /\ \A x \in A : \E k \in DOMAIN analysis : analysis[k] = x
         /\ \A k \in DOMAIN analysis : \A x \in A :
               <<x, analysis[k]>> \in B => \E j \in DOMAIN analysis : j < k /\ analysis[j] = x
    BY <2>1, <2>10 DEF Ranks, Earlier
  <2>13. /\ \A x \in S : ~WritesCover(e, x) <=> TargetKey(x) \in OwedKeys(e, failed)
         /\ \A u \in OwedKeys(e, failed) : \E x \in S : TargetKey(x) = u
    BY CauseTargetsAreOwed DEF S
  <2>14. \A u \in OwedKeys(e, failed) : \E x \in S \cap A : TargetKey(x) = u
    BY <2>2, <2>11, <2>13
  <2>15. \A k \in DOMAIN analysis : analysis[k].cause \in AskedCauses =>
            analysis[k] \in S /\ TargetKey(analysis[k]) \in OwedKeys(e, failed)
    BY <2>11, <2>12, <2>13
  <2>16. \A u \in OwedKeys(e, failed) : \E k \in DOMAIN analysis : TargetKey(analysis[k]) = u
    BY <2>12, <2>14
  <2>17. ASSUME NEW k \in DOMAIN analysis, NEW u \in OwedKeys(e, failed),
                analysis[k].cause \in AskedCauses,
                AheadIn(e, sites, u, TargetKey(analysis[k]))
         PROVE  \E j \in DOMAIN analysis : j < k /\ TargetKey(analysis[j]) = u
    <3>1. PICK x \in S \cap A : TargetKey(x) = u
      BY <2>14
    <3>2. <<x, analysis[k]>> \in B
      BY <2>15, <2>17, <3>1 DEF B, MayNotWait
    <3> QED BY <2>12, <3>1, <3>2
  <2>18. RanksTheOwed(e, failed, analysis)
    BY <2>15, <2>16, <2>17 DEF RanksTheOwed
  <2> QED BY <2>11, <2>12, <2>18 DEF analysis
<1> QED BY <1>2, <1>3

-----------------------------------------------------------------------------
(* A cycle plans the first target of its analysis that is not closed.      *)
LEMMA PlanKeeps == TargetsInv /\ PlanCycle => TargetsInv'
<1> SUFFICES ASSUME TargetsInv, PlanCycle PROVE TargetsOf(campaigns', cycle')
  BY DEF TargetsInv
<1> DEFINE n == Len(campaigns)
           d == campaigns[n]
           e == Evidence[d.from]
<1>1. /\ IsList(campaigns) /\ campaigns # <<>>
      /\ \A x \in DOMAIN campaigns : IsCampaign(campaigns[x])
      /\ HistoryIsMeasured(campaigns)
  BY DEF TargetsInv, TargetsOf, PlanCycle
<1>2. n \in DOMAIN campaigns /\ IsCampaign(d)
  BY <1>1, ListPlaces
<1>3. PICK failed :
        /\ cycle' = [at |-> "attack", failed |-> failed,
                     target |-> PlannedTarget(Analysis(e, failed), d)]
        /\ campaigns' = [campaigns EXCEPT ![n].classified = Range(HotFunctions(e)) \ failed]
  BY DEF PlanCycle, Found, Latest
<1> DEFINE c == [d EXCEPT !.classified = Range(HotFunctions(e)) \ failed]
<1>4. campaigns' = [campaigns EXCEPT ![n] = c]
  BY <1>2, <1>3
<1>5. /\ IsCampaign(c) /\ c.from = d.from /\ c.dirs = d.dirs /\ c.history = d.history
      /\ c.records = d.records
  <2>1. /\ DOMAIN d = CampaignFields /\ d.from \in DOMAIN Evidence /\ IsList(d.records)
        /\ \A k \in DOMAIN d.records : d.records[k].outcome \in Outcomes
    BY <1>2 DEF IsCampaign
  <2>2. /\ DOMAIN c = DOMAIN d /\ c.from = d.from /\ c.dirs = d.dirs /\ c.history = d.history
        /\ c.records = d.records
    BY <2>1 DEF CampaignFields
  <2> HIDE DEF c, d
  <2> QED BY <2>1, <2>2 DEF IsCampaign
<1> HIDE DEF c
<1>6. /\ IsList(campaigns') /\ Len(campaigns') = n /\ n \in DOMAIN campaigns'
      /\ campaigns'[n] = c
      /\ \A x \in DOMAIN campaigns' : IsCampaign(campaigns'[x])
      /\ HistoryIsMeasured(campaigns')
  <2> HIDE DEF n
  <2>1. n = Len(campaigns)
    BY DEF n
  <2> QED BY <1>1, <1>2, <1>4, <1>5, <2>1, LastMovesOn
<1>7. PlansTheLast(campaigns', cycle')
  <2> DEFINE ranking == Analysis(e, failed)
             target == PlannedTarget(ranking, d)
  <2>1. IsList(ranking)
    <3>1. IsEvidence(e)
      BY <1>2, CauseTargetsAssumption DEF IsCampaign
    <3> QED BY <3>1, AnalysisRanks
  <2>2. Plans(ranking, d, target)
    BY <2>1, FirstIsPlanned
  <2> HIDE DEF target
  <2>3. Plans(ranking, c, target)
    <3>1. \A key : Tried(c, key) <=> Tried(d, key)
      BY <1>5, TriedAlike
    <3> HIDE DEF ranking
    <3> QED BY <2>2, <3>1 DEF Plans
  <2>4. cycle'.failed = failed /\ cycle'.target = target
    BY <1>3 DEF target
  <2>5. Plans(Analysis(Evidence[campaigns'[n].from], cycle'.failed), campaigns'[n], cycle'.target)
    BY <1>5, <1>6, <2>3, <2>4
  <2> HIDE DEF n
  <2> QED BY <1>6, <2>5 DEF PlansTheLast
<1> QED BY <1>6, <1>7 DEF TargetsOf

(* An attempt ends with a record of the last campaign.                     *)
LEMMA RecordKeeps == TargetsInv /\ RecordAttempt => TargetsInv'
<1> SUFFICES ASSUME TargetsInv, RecordAttempt PROVE TargetsOf(campaigns', cycle')
  BY DEF TargetsInv
<1> DEFINE n == Len(campaigns)
           d == campaigns[n]
<1>1. /\ IsList(campaigns) /\ n \in DOMAIN campaigns
      /\ \A x \in DOMAIN campaigns : IsCampaign(campaigns[x])
      /\ HistoryIsMeasured(campaigns)
  BY DEF TargetsInv, TargetsOf, PlansTheLast, RecordAttempt
<1>2. PICK outcome \in Outcomes :
        campaigns' = [campaigns EXCEPT ![n].records =
                        Append(@, [target |-> cycle.target, outcome |-> outcome])]
  BY DEF RecordAttempt
<1> DEFINE r == [target |-> cycle.target, outcome |-> outcome]
           records == Append(d.records, r)
           c == [d EXCEPT !.records = records]
<1>3. campaigns' = [campaigns EXCEPT ![n] = c]
  BY <1>1, <1>2
<1>4. r.outcome \in Outcomes
  OBVIOUS
<1> HIDE DEF r
<1>5. IsList(records) /\ \A k \in DOMAIN records : records[k].outcome \in Outcomes
  <2>1. IsList(d.records) /\ \A k \in DOMAIN d.records : d.records[k].outcome \in Outcomes
    BY <1>1 DEF IsCampaign
  <2> DEFINE s == d.records
  <2> HIDE DEF d
  <2>2. /\ IsList(Append(s, r)) /\ DOMAIN Append(s, r) = DOMAIN s \cup {Len(s) + 1}
        /\ \A i \in DOMAIN s : Append(s, r)[i] = s[i]
        /\ Append(s, r)[Len(s) + 1] = r
    <3> HIDE DEF s
    <3>1. IsList(s)
      BY <2>1 DEF s
    <3> QED BY <3>1, AppendToList
  <2> HIDE DEF records
  <2>3. records = Append(s, r)
    BY DEF records
  <2> QED BY <1>4, <2>1, <2>2, <2>3
<1> HIDE DEF records
<1>6. IsCampaign(c) /\ c.from = d.from /\ c.dirs = d.dirs /\ c.history = d.history
  <2>1. DOMAIN d = CampaignFields /\ d.from \in DOMAIN Evidence
    BY <1>1 DEF IsCampaign
  <2>2. /\ DOMAIN c = DOMAIN d /\ c.from = d.from /\ c.dirs = d.dirs /\ c.history = d.history
        /\ c.records = records
    BY <2>1 DEF CampaignFields
  <2> HIDE DEF c, d
  <2> QED BY <1>5, <2>1, <2>2 DEF IsCampaign
<1> HIDE DEF c
<1>7. /\ IsList(campaigns') /\ \A x \in DOMAIN campaigns' : IsCampaign(campaigns'[x])
      /\ HistoryIsMeasured(campaigns')
  <2> HIDE DEF n
  <2>1. n = Len(campaigns)
    BY DEF n
  <2> QED BY <1>1, <1>3, <1>6, <2>1, LastMovesOn
<1>8. cycle'.at # "attack"
  BY DEF RecordAttempt, NoCycle
<1> QED BY <1>7, <1>8 DEF TargetsOf, PlansTheLast

LEMMA TargetsInvariant == TargetsSpec => []TargetsInv
<1>1. TargetsInit => TargetsInv
  <2> SUFFICES ASSUME TargetsInit PROVE TargetsOf(campaigns, cycle)
    BY DEF TargetsInv
  <2>1. campaigns = <<>> /\ cycle.at # "attack"
    BY DEF TargetsInit, NoCycle
  <2>2. IsList(<<>>) /\ \A d \in DOMAIN <<>> : FALSE
    BY DEF IsList
  <2>3. IsList(campaigns) /\ \A d \in DOMAIN campaigns : FALSE
    BY <2>1, <2>2
  <2> QED BY <2>1, <2>3 DEF TargetsOf, HistoryIsMeasured, PlansTheLast
<1>2. TargetsInv /\ [TargetsNext]_targetVars => TargetsInv'
  <2> SUFFICES ASSUME TargetsInv, [TargetsNext]_targetVars PROVE TargetsInv'
    OBVIOUS
  <2>1. CASE TargetsNext
    BY <2>1, CreateKeeps, PlanKeeps, RecordKeeps DEF TargetsNext
  <2>2. CASE UNCHANGED targetVars
    BY <2>2 DEF TargetsInv, targetVars
  <2> QED BY <2>1, <2>2
<1> QED BY <1>1, <1>2, PTL DEF TargetsSpec

(* A key is closed for the last campaign when an attempt answered it, or   *)
(* was refused twice.                                                      *)
LEMMA ClosedIsAnswered ==
    ASSUME TargetsInv, campaigns # <<>>, NEW key
    PROVE  Tried(Latest, key) <=> ~Open(key)
<1> DEFINE n == Len(campaigns)
           c == Latest
           answers(r) == r.target # Untargeted /\ TargetKey(r.target) = key
           attempts == AttemptsOn(c, key)
           refused == {k \in attempts : c.records[k].outcome = "unmeasured"}
<1>1. /\ n \in DOMAIN campaigns /\ c = campaigns[n] /\ IsCampaign(c)
      /\ c.dirs \subseteq DOMAIN campaigns \ {n}
      /\ c.history = HistoryOf(campaigns, c.dirs, Evidence[c.from].revision)
  BY ListPlaces DEF TargetsInv, TargetsOf, HistoryIsMeasured, Latest
<1>2. DOMAIN c.records = 1 .. Len(c.records) /\ Len(c.records) \in Nat
  BY <1>1, ListPlaces DEF IsCampaign
<1>3. key \in c.history <=>
        \E d \in c.dirs : /\ Evidence[campaigns[d].from].revision = Found.revision
                          /\ \E r \in Range(campaigns[d].records) :
                                answers(r) /\ r.outcome \in {"accepted", "compared"}
  BY <1>1 DEF HistoryOf, MeasuredTargets, IsMeasured, Found
<1>4. \A k : k \in attempts <=> k \in DOMAIN c.records /\ answers(c.records[k])
  BY DEF AttemptsOn
<1>5. attempts # refused <=>
        \E r \in Range(c.records) :
           answers(r) /\ r.outcome \in {"accepted", "compared", "failed"}
  <2>1. \A k \in DOMAIN c.records :
           c.records[k].outcome \in {"accepted", "compared", "failed", "unmeasured"}
    BY <1>1 DEF IsCampaign, Outcomes
  <2>2. attempts # refused <=> \E k \in attempts : c.records[k].outcome # "unmeasured"
    OBVIOUS
  <2> HIDE DEF attempts, refused, c
  <2>3. attempts # refused <=> \E k \in DOMAIN c.records :
           answers(c.records[k]) /\ c.records[k].outcome \in {"accepted", "compared", "failed"}
    BY <1>4, <2>1, <2>2
  <2> QED BY <2>3 DEF Range
<1>6. Answered(key) <=> key \in c.history \/ attempts # refused
  <2>1. Found.revision = Evidence[campaigns[n].from].revision
    BY <1>1 DEF Found
  <2>2. Answered(key) <=>
          \E d \in c.dirs \cup {n} :
             /\ Evidence[campaigns[d].from].revision = Found.revision
             /\ \E r \in Range(campaigns[d].records) :
                   /\ answers(r)
                   /\ r.outcome \in {"accepted", "compared"} \/ (d = n /\ r.outcome = "failed")
    BY DEF Answered
  <2> HIDE DEF attempts, refused, c, n, answers
  <2> QED BY <1>1, <1>3, <1>5, <2>1, <2>2
<1>7. Cardinality(refused) >= MaxUnmeasured <=> RefusedTwice(key)
  <2>1. RefusedTwice(key) <=> \E k, l \in refused : k # l
    BY <1>4 DEF RefusedTwice
  <2>2. IsFiniteSet(refused) /\ Cardinality(refused) \in Nat
    <3> DEFINE m == Len(c.records)
    <3>3. DOMAIN c.records = 1 .. m /\ m \in Nat
      BY <1>2
    <3> HIDE DEF m
    <3>1. IsFiniteSet(DOMAIN c.records)
      <4>1. IsFiniteSet(1 .. m)
        BY <3>3, FS_Interval
      <4> QED BY <3>3, <4>1
    <3>2. refused \in SUBSET DOMAIN c.records
      BY <1>4
    <3> QED BY <3>1, <3>2, FS_Subset, FS_CardinalityType
  <2> HIDE DEF refused
  <2>3. ASSUME NEW k \in refused, NEW l \in refused, k # l PROVE Cardinality(refused) >= 2
    <3>1. {k, l} \in SUBSET refused /\ IsFiniteSet({k, l}) /\ Cardinality({k, l}) = 2
      <4>1. {k, l} = {k} \cup {l} /\ l \notin {k}
        BY <2>3
      <4>2. IsFiniteSet({k}) /\ Cardinality({k}) = 1
        BY FS_Singleton
      <4>3. IsFiniteSet({k} \cup {l}) /\ Cardinality({k} \cup {l}) = 1 + 1
        BY <4>1, <4>2, FS_AddElement
      <4> QED BY <4>1, <4>3
    <3> QED BY <2>2, <3>1, FS_Subset
  <2>4. ASSUME \A k, l \in refused : k = l PROVE Cardinality(refused) <= 1
    <3>1. CASE refused = {}
      BY <3>1, FS_EmptySet
    <3>2. CASE refused # {}
      <4>1. PICK k \in refused : refused = {k}
        BY <2>4, <3>2
      <4>2. Cardinality({k}) = 1
        BY FS_Singleton
      <4> QED BY <4>1, <4>2
    <3> QED BY <3>1, <3>2
  <2> QED BY <2>1, <2>2, <2>3, <2>4 DEF MaxUnmeasured
<1>8. Tried(c, key) <=> \/ key \in c.history \/ attempts # refused
                        \/ Cardinality(refused) >= MaxUnmeasured
  BY DEF Tried
<1> QED BY <1>6, <1>7, <1>8 DEF Open

(* Invariant of every campaign: the target a cycle attacks is one no       *)
(* attempt answered yet, no cause better founded is left waiting for it,   *)
(* and a cycle goes untargeted only when none is owed an attempt.          *)
THEOREM TargetsAreOwed == TargetsSpec => []AttacksWhatIsOwed
<1>1. TargetsInv => AttacksWhatIsOwed
  <2> SUFFICES ASSUME TargetsInv, cycle.at = "attack",
                      Range(HotFunctions(Found)) \ cycle.failed # {}
               PROVE  IF cycle.target = Untargeted THEN Owed = {}
                      ELSE LET t == TargetKey(cycle.target) IN
                           /\ Open(t)
                           /\ t[2] \in Range(CauseOrder) =>
                                t \in Owed /\ \A u \in Owed : ~GoesBefore(u, t)
    BY DEF AttacksWhatIsOwed
  <2> DEFINE e == Found
             failed == cycle.failed
             ranking == Analysis(e, failed)
             target == cycle.target
             sites == HotFunctions(e)
  <2>1. campaigns # <<>> /\ IsCampaign(Latest)
    BY ListPlaces DEF TargetsInv, TargetsOf, PlansTheLast, Latest
  <2>2. Plans(ranking, Latest, target)
    BY DEF TargetsInv, TargetsOf, PlansTheLast, Latest, Found
  <2>3. \A key : Tried(Latest, key) <=> ~Open(key)
    BY <2>1, ClosedIsAnswered
  <2>4. IsEvidence(e)
    BY <2>1, CauseTargetsAssumption DEF Found, IsCampaign
  <2>5. \A key : key \in Owed <=> key \in OwedKeys(e, failed) /\ Open(key)
    BY DEF Owed, OwedKeys, AskedCauses
  <2>6. \A u, t : GoesBefore(u, t) <=> AheadIn(e, sites, u, t)
    BY DEF GoesBefore, AheadIn
  <2>7. /\ IsList(ranking) /\ \A k \in DOMAIN ranking : ranking[k] \in LocatedTargets(e)
        /\ RanksTheOwed(e, failed, ranking)
    BY <2>4, AnalysisRanks
  <2>8. \A k \in DOMAIN ranking : ranking[k] # Untargeted
    <3>1. e \in {Evidence[name] : name \in DOMAIN Evidence}
      BY <2>1 DEF Found, IsCampaign
    <3>2. LocatedTargets(e) \subseteq Targets
      BY <3>1 DEF LocatedTargets, Targets, Locations
    <3> QED BY <2>7, <3>2, CauseTargetsAssumption
  <2> HIDE DEF e, failed, ranking, sites
  <2>9. CASE target = Untargeted
    <3>1. \A k \in DOMAIN ranking : Tried(Latest, TargetKey(ranking[k]))
      BY <2>2, <2>8, <2>9 DEF Plans
    <3>2. \A u \in OwedKeys(e, failed) : ~Open(u)
      BY <2>3, <2>7, <3>1 DEF RanksTheOwed
    <3> QED BY <2>5, <2>9, <3>2
  <2>10. CASE target # Untargeted
    <3> DEFINE t == TargetKey(target)
    <3>1. PICK k \in DOMAIN ranking :
            /\ target = ranking[k] /\ ~Tried(Latest, TargetKey(ranking[k]))
            /\ \A j \in DOMAIN ranking : j < k => Tried(Latest, TargetKey(ranking[j]))
      BY <2>2, <2>10 DEF Plans
    <3>2. Open(t)
      BY <2>3, <3>1
    <3>3. t[2] = ranking[k].cause
      BY <3>1 DEF TargetKey
    <3> HIDE DEF t
    <3>4. ASSUME t[2] \in Range(CauseOrder) PROVE t \in Owed /\ \A u \in Owed : ~GoesBefore(u, t)
      <4>1. ranking[k].cause \in AskedCauses
        BY <3>3, <3>4 DEF AskedCauses
      <4>2. t \in OwedKeys(e, failed)
        BY <2>7, <3>1, <4>1 DEF RanksTheOwed, t
      <4>3. ASSUME NEW u \in Owed, GoesBefore(u, t) PROVE FALSE
        <5>1. u \in OwedKeys(e, failed) /\ Open(u)
          BY <2>5
        <5>2. AheadIn(e, sites, u, TargetKey(ranking[k]))
          BY <2>6, <3>1, <4>3 DEF t
        <5>3. PICK j \in DOMAIN ranking : j < k /\ TargetKey(ranking[j]) = u
          BY <2>7, <4>1, <5>1, <5>2 DEF RanksTheOwed, sites
        <5> QED BY <2>3, <3>1, <5>1, <5>3
      <4> QED BY <2>5, <3>2, <4>2, <4>3
    <3> QED BY <2>10, <3>2, <3>4 DEF t
  <2> QED BY <2>9, <2>10
<1> QED BY <1>1, TargetsInvariant, PTL

(***************************************************************************)
(* One workload's runs (PairedSeries)                                      *)
(***************************************************************************)

SeriesFields ==
    {"stage", "nth", "deterministic", "baseline", "candidate", "kept", "reading"}

SeriesRuns(s, side) == SubSeq(s[side], s.kept + 1, s.kept + Pairs)

(* The sides take turns, the one that is ahead by the parity of the pair:  *)
(* an even number of runs is as many of each.                              *)
Alternates(b, c) ==
    \/ b = c
    \/ b = c + 1 /\ First(c % Pairs) = "baseline"
    \/ c = b + 1 /\ First(b % Pairs) = "candidate"

(* What was judged stays as it was judged: the candidate printed the       *)
(* baseline's lines in every run that is kept.                             *)
IsSeries(s) ==
    /\ DOMAIN s = SeriesFields /\ s.nth \in Nat \ {0}
    /\ IsList(s.baseline) /\ IsList(s.candidate) /\ Alternates(Len(s.baseline), Len(s.candidate))
    /\ \A i \in DOMAIN s.baseline : s.baseline[i].out.lines = "same"
    /\ \A i \in DOMAIN s.candidate : s.candidate[i].out.lines \in {"same", "other"}

KeepsTheJudged(s) ==
    /\ s.stage = "running" =>
          /\ s.kept = Pairs * (s.nth - 1) /\ s.kept <= Len(s.candidate)
          /\ \A i \in DOMAIN s.candidate : i <= s.kept => s.candidate[i].out.lines = "same"
    /\ s.stage \in {"judged", "mismatch"} => Len(s.baseline) + Len(s.candidate) = 2 * (Pairs * s.nth)
    /\ s.stage = "judged" =>
          /\ s.kept = Pairs * s.nth
          /\ \A i \in DOMAIN s.candidate : s.candidate[i].out.lines = "same"
    /\ s.stage = "mismatch" =>
          \/ \E i \in DOMAIN s.candidate : s.candidate[i].out.lines = "other"
          \/ /\ s.deterministic
             /\ \A i, j \in DOMAIN SeriesRuns(s, "baseline") :
                   SeriesRuns(s, "baseline")[i].out = SeriesRuns(s, "baseline")[j].out

SeriesInv == IsSeries(series) /\ KeepsTheJudged(series)

LEMMA AppendLength ==
    ASSUME NEW s, IsList(s), NEW e
    PROVE  /\ IsList(Append(s, e)) /\ Len(Append(s, e)) = Len(s) + 1 /\ Len(s) \in Nat
           /\ DOMAIN Append(s, e) = DOMAIN s \cup {Len(s) + 1}
           /\ \A i \in DOMAIN s : Append(s, e)[i] = s[i]
           /\ Append(s, e)[Len(s) + 1] = e
<1> DEFINE t == Append(s, e)
           n == Len(s)
           m == Len(t)
<1>1. /\ IsList(t) /\ n + 1 \notin DOMAIN s /\ DOMAIN t = DOMAIN s \cup {n + 1}
      /\ \A i \in DOMAIN s : t[i] = s[i]
      /\ t[n + 1] = e
  BY AppendToList
<1> HIDE DEF t
<1>2. DOMAIN s = 1 .. n /\ n \in Nat /\ DOMAIN t = 1 .. m /\ m \in Nat
  BY <1>1, ListPlaces
<1> HIDE DEF n, m
<1>3. m = n + 1
  BY <1>1, <1>2
<1> QED BY <1>1, <1>2, <1>3 DEF t, n, m

(* Whose turn it is keeps the sides together.                              *)
LEMMA TurnsAlternate ==
    ASSUME NEW b \in Nat, NEW c \in Nat, Alternates(b, c)
    PROVE  LET r == b + c
               repetition == (r \div 2) % Pairs
               turn == IF r % 2 = 1 THEN Other(First(repetition)) ELSE First(repetition)
           IN  /\ turn \in {"baseline", "candidate"}
               /\ turn = "baseline" => Alternates(b + 1, c)
               /\ turn = "candidate" => Alternates(b, c + 1)
<1>1. \A k : First(k) \in {"baseline", "candidate"}
  BY DEF First
<1>2. CASE b = c
  <2>1. (b + c) % 2 = 0 /\ (b + c) \div 2 = b
    BY <1>2
  <2> QED BY <1>1, <1>2, <2>1 DEF Alternates, Other
<1>3. CASE b = c + 1 /\ First(c % Pairs) = "baseline"
  <2>1. (b + c) % 2 = 1 /\ (b + c) \div 2 = c
    BY <1>3
  <2> QED BY <1>1, <1>3, <2>1 DEF Alternates, Other
<1>4. CASE c = b + 1 /\ First(b % Pairs) = "candidate"
  <2>1. (b + c) % 2 = 1 /\ (b + c) \div 2 = b
    BY <1>4
  <2> QED BY <1>1, <1>4, <2>1 DEF Alternates, Other
<1> QED BY <1>2, <1>3, <1>4 DEF Alternates

(* A run is appended to the side whose turn it is.                         *)
LEMMA RunKeeps == SeriesInv /\ RunNext => SeriesInv'
<1> SUFFICES ASSUME SeriesInv, RunNext PROVE IsSeries(series') /\ KeepsTheJudged(series')
  BY DEF SeriesInv
<1> DEFINE s == series
           b == Len(s.baseline)
           c == Len(s.candidate)
           run == [time |-> Cost(Turn), out |-> Printed(Turn, RunsDone + 1)]
<1>1. /\ DOMAIN s = SeriesFields /\ s.nth \in Nat \ {0}
      /\ IsList(s.baseline) /\ IsList(s.candidate) /\ Alternates(b, c)
      /\ \A i \in DOMAIN s.baseline : s.baseline[i].out.lines = "same"
      /\ \A i \in DOMAIN s.candidate : s.candidate[i].out.lines \in {"same", "other"}
  BY DEF SeriesInv, IsSeries
<1>2. /\ s.stage = "running" /\ s.kept = Pairs * (s.nth - 1) /\ s.kept <= c /\ s.kept \in Int
      /\ \A i \in DOMAIN s.candidate : i <= s.kept => s.candidate[i].out.lines = "same"
  BY SeriesAssumption DEF SeriesInv, IsSeries, KeepsTheJudged, RunNext
<1>3. b \in Nat /\ c \in Nat
  BY <1>1, ListPlaces
<1>4. /\ Turn \in {"baseline", "candidate"}
      /\ Turn = "baseline" => Alternates(b + 1, c)
      /\ Turn = "candidate" => Alternates(b, c + 1)
  BY <1>1, <1>3, TurnsAlternate DEF Turn, Second, Repetition, RunsDone
<1>5. /\ run.out.lines \in {"same", "other"}
      /\ Turn = "baseline" => run.out.lines = "same"
  BY DEF Printed
<1> HIDE DEF run
<1>6. CASE Turn = "baseline"
  <2> DEFINE runs == Append(s.baseline, run)
  <2>1. series' = [s EXCEPT !.baseline = runs]
    BY <1>1, <1>6 DEF RunNext, SeriesFields, run
  <2>2. /\ IsList(runs) /\ Len(runs) = b + 1
        /\ \A i \in DOMAIN runs : runs[i].out.lines = "same"
    BY <1>1, <1>5, <1>6, AppendLength
  <2> HIDE DEF runs
  <2>3. /\ DOMAIN series' = DOMAIN s /\ series'.baseline = runs /\ series'.candidate = s.candidate
        /\ series'.nth = s.nth /\ series'.stage = s.stage /\ series'.kept = s.kept
    BY <1>1, <2>1 DEF SeriesFields
  <2> HIDE DEF s
  <2>4. IsSeries(series')
    BY <1>1, <1>4, <1>6, <2>2, <2>3 DEF IsSeries
  <2>5. KeepsTheJudged(series')
    BY <1>2, <2>3, Zenon DEF KeepsTheJudged
  <2> QED BY <2>4, <2>5
<1>7. CASE Turn = "candidate"
  <2> DEFINE runs == Append(s.candidate, run)
  <2>1. series' = [s EXCEPT !.candidate = runs]
    BY <1>1, <1>7 DEF RunNext, SeriesFields, run
  <2>2. /\ IsList(runs) /\ Len(runs) = c + 1 /\ DOMAIN runs = DOMAIN s.candidate \cup {c + 1}
        /\ \A i \in DOMAIN s.candidate : runs[i] = s.candidate[i]
        /\ \A i \in DOMAIN runs : runs[i].out.lines \in {"same", "other"}
    BY <1>1, <1>5, AppendLength
  <2> HIDE DEF runs
  <2>3. /\ DOMAIN series' = DOMAIN s /\ series'.candidate = runs /\ series'.baseline = s.baseline
        /\ series'.nth = s.nth /\ series'.stage = s.stage /\ series'.kept = s.kept
    BY <1>1, <2>1 DEF SeriesFields
  <2> HIDE DEF s
  <2>4. IsSeries(series')
    BY <1>1, <1>4, <1>7, <2>2, <2>3 DEF IsSeries
  <2>5. KeepsTheJudged(series')
    <3>1. \A i \in DOMAIN runs : i <= s.kept => runs[i].out.lines = "same"
      BY <1>2, <1>3, <2>2
    <3>2. s.kept <= Len(runs)
      BY <1>2, <1>3, <2>2
    <3> QED BY <1>2, <2>3, <3>1, <3>2, Zenon DEF KeepsTheJudged
  <2> QED BY <2>4, <2>5
<1> QED BY <1>4, <1>6, <1>7

(* The runs of the series that just ended, and what they say.              *)
LEMMA LastRuns ==
    ASSUME SeriesInv, series.stage = "running", RunsDone = 2 * Pairs * series.nth
    PROVE  /\ Len(series.baseline) = Pairs * series.nth
           /\ Len(series.candidate) = Pairs * series.nth
           /\ series.kept + Pairs = Pairs * series.nth /\ series.kept \in Nat
           /\ \A side \in {"baseline", "candidate"} :
                 /\ DOMAIN SeriesRuns(series, side) = 1 .. Pairs
                 /\ \A i \in 1 .. Pairs :
                       /\ SeriesRuns(series, side)[i] = series[side][series.kept + i]
                       /\ series.kept + i \in DOMAIN series[side]
<1> DEFINE n == series.nth
           N == Pairs * n
           b == Len(series.baseline)
           c == Len(series.candidate)
           kept == series.kept
<1>1. /\ n \in Nat \ {0} /\ Pairs \in Nat \ {0}
      /\ IsList(series.baseline) /\ IsList(series.candidate) /\ Alternates(b, c)
      /\ kept = Pairs * (n - 1) /\ b + c = 2 * Pairs * n
  BY SeriesAssumption DEF SeriesInv, IsSeries, KeepsTheJudged, RunsDone
<1>2. /\ b \in Nat /\ c \in Nat /\ DOMAIN series.baseline = 1 .. b
      /\ DOMAIN series.candidate = 1 .. c
  BY <1>1, ListPlaces
<1>3. N \in Nat /\ 2 * Pairs * n = 2 * N /\ kept + Pairs = N /\ kept \in Nat
  <2>1. N \in Nat /\ Pairs * (n - 1) \in Nat
    BY <1>1
  <2>2. Pairs * (n - 1) = N - Pairs
    BY <1>1
  <2> QED BY <1>1, <2>1, <2>2
<1> HIDE DEF N
<1>4. b = N /\ c = N
  <2> HIDE DEF b, c
  <2> QED BY <1>1, <1>2, <1>3 DEF Alternates
<1>5. ASSUME NEW side \in {"baseline", "candidate"}
      PROVE  /\ DOMAIN SeriesRuns(series, side) = 1 .. Pairs
             /\ \A i \in 1 .. Pairs :
                   /\ SeriesRuns(series, side)[i] = series[side][kept + i]
                   /\ kept + i \in DOMAIN series[side]
  <2> DEFINE runs == series[side]
             S == {runs[i] : i \in DOMAIN runs}
             sub == SubSeq(runs, kept + 1, kept + Pairs)
  <2>1. DOMAIN runs = 1 .. N
    BY <1>2, <1>4
  <2>7. kept \in Nat /\ Pairs \in Nat /\ Pairs > 0 /\ N = kept + Pairs
    <3> HIDE DEF kept
    <3> QED BY <1>1, <1>3
  <2>2. \A i \in kept + 1 .. kept + Pairs : runs[i] \in S
    <3>1. \A i \in DOMAIN runs : runs[i] \in S
      OBVIOUS
    <3> HIDE DEF S, runs, kept
    <3>2. \A i \in kept + 1 .. kept + Pairs : i \in 1 .. N
      BY <2>7
    <3> QED BY <2>1, <3>1, <3>2
  <2> HIDE DEF S, runs, kept
  <2>3. /\ sub \in Seq(S) /\ Len(sub) = Pairs
        /\ \A i \in 1 .. Pairs : sub[i] = runs[kept + i]
    <3>1. kept + 1 \in Int /\ kept + Pairs \in Int
      BY <2>7
    <3> DEFINE m == kept + 1
               q == kept + Pairs
    <3>2. m \in Int /\ q \in Int /\ \A i \in m .. q : runs[i] \in S
      BY <2>2, <3>1
    <3>3. /\ m <= q /\ q - m + 1 = Pairs
          /\ \A i \in 1 .. Pairs : m + i - 1 = kept + i
      BY <2>7
    <3>4. sub = SubSeq(runs, m, q)
      OBVIOUS
    <3> HIDE DEF m, q, sub
    <3>5. /\ SubSeq(runs, m, q) \in Seq(S)
          /\ Len(SubSeq(runs, m, q)) = IF m <= q THEN q - m + 1 ELSE 0
          /\ \A i \in 1 .. q - m + 1 : SubSeq(runs, m, q)[i] = runs[m + i - 1]
      BY <3>2, SubSeqProperties
    <3>6. /\ sub \in Seq(S) /\ Len(sub) = IF m <= q THEN q - m + 1 ELSE 0
          /\ \A i \in 1 .. q - m + 1 : sub[i] = runs[m + i - 1]
      BY <3>4, <3>5
    <3> QED BY <3>3, <3>6
  <2>4. SeriesRuns(series, side) = sub
    BY DEF SeriesRuns, runs, kept
  <2> HIDE DEF sub
  <2>5. DOMAIN sub = 1 .. Pairs
    BY <2>3
  <2>6. \A i \in 1 .. Pairs : kept + i \in DOMAIN runs
    BY <2>1, <2>7
  <2> QED BY <2>3, <2>4, <2>5, <2>6 DEF runs
<1> QED BY <1>3, <1>4, <1>5 DEF N

LEMMA BehaviorSays ==
    ASSUME SeriesInv, series.stage = "running", RunsDone = 2 * Pairs * series.nth
    PROVE  /\ BehaviorMatches =>
                 \A i \in DOMAIN series.candidate : series.candidate[i].out.lines = "same"
           /\ ~BehaviorMatches =>
                 \/ \E i \in DOMAIN series.candidate : series.candidate[i].out.lines = "other"
                 \/ /\ series.deterministic
                    /\ \A i, j \in DOMAIN SeriesRuns(series, "baseline") :
                          SeriesRuns(series, "baseline")[i].out
                            = SeriesRuns(series, "baseline")[j].out
<1> DEFINE A == SeriesRuns(series, "baseline")
           B == SeriesRuns(series, "candidate")
           kept == series.kept
           exact == series.deterministic /\ \A i \in DOMAIN A : A[i].out = A[1].out
<1>1. BehaviorMatches <=>
         \A i \in 1 .. Pairs : /\ A[i].out.lines = B[i].out.lines
                               /\ exact => A[i].out.order = B[i].out.order
  BY DEF BehaviorMatches, Of, SameStdout, SeriesRuns
<1>2. /\ DOMAIN A = 1 .. Pairs /\ Len(series.candidate) = kept + Pairs /\ kept \in Nat
      /\ \A i \in 1 .. Pairs : /\ A[i] = series.baseline[kept + i] /\ B[i] = series.candidate[kept + i]
                               /\ kept + i \in DOMAIN series.baseline
                               /\ kept + i \in DOMAIN series.candidate
  BY LastRuns
<1>3. /\ \A i \in DOMAIN series.baseline : series.baseline[i].out.lines = "same"
      /\ \A i \in DOMAIN series.candidate : series.candidate[i].out.lines \in {"same", "other"}
      /\ \A i \in DOMAIN series.candidate : i <= kept => series.candidate[i].out.lines = "same"
      /\ DOMAIN series.candidate = 1 .. kept + Pairs /\ Pairs \in Nat
  BY <1>2, ListPlaces, SeriesAssumption DEF SeriesInv, IsSeries, KeepsTheJudged
<1> HIDE DEF A, B, kept
<1>4. ASSUME BehaviorMatches, NEW i \in DOMAIN series.candidate
      PROVE  series.candidate[i].out.lines = "same"
  <2>1. CASE i <= kept
    BY <1>3, <2>1
  <2>2. CASE ~(i <= kept)
    <3>1. i - kept \in 1 .. Pairs /\ kept + (i - kept) = i
      BY <1>2, <1>3, <2>2
    <3>2. A[i - kept].out.lines = "same" /\ A[i - kept].out.lines = B[i - kept].out.lines
      BY <1>1, <1>2, <1>3, <1>4, <3>1
    <3> QED BY <1>2, <3>1, <3>2
  <2> QED BY <2>1, <2>2
<1>5. ASSUME ~BehaviorMatches, \A i \in DOMAIN series.candidate : series.candidate[i].out.lines # "other"
      PROVE  series.deterministic /\ \A i, j \in DOMAIN A : A[i].out = A[j].out
  <2>1. ASSUME NEW i \in 1 .. Pairs PROVE A[i].out.lines = B[i].out.lines
    <3>1. series.candidate[kept + i].out.lines = "same"
      BY <1>2, <1>3, <1>5
    <3>2. series.baseline[kept + i].out.lines = "same"
      BY <1>2, <1>3
    <3> QED BY <1>2, <3>1, <3>2
  <2>2. exact
    BY <1>1, <1>5, <2>1
  <2> QED BY <2>2
<1> QED BY <1>4, <1>5 DEF A

(* A series that matches is kept and judged; one that does not is refused. *)
LEMMA JudgeKeeps == SeriesInv /\ JudgeSeries => SeriesInv'
<1> SUFFICES ASSUME SeriesInv, JudgeSeries PROVE IsSeries(series') /\ KeepsTheJudged(series')
  BY DEF SeriesInv
<1> DEFINE s == series
<1>1. IsSeries(s) /\ s.stage = "running" /\ RunsDone = 2 * Pairs * s.nth
  BY DEF SeriesInv, JudgeSeries
<1>2. /\ Len(s.baseline) = Pairs * s.nth /\ Len(s.candidate) = Pairs * s.nth
      /\ Len(s.baseline) + Len(s.candidate) = 2 * (Pairs * s.nth)
  <2>1. Pairs \in Int /\ s.nth \in Int
    BY <1>1, SeriesAssumption DEF IsSeries
  <2> DEFINE N == Pairs * s.nth
  <2>2. N \in Int /\ Len(s.baseline) = N /\ Len(s.candidate) = N
    BY <1>1, <2>1, LastRuns
  <2> HIDE DEF N
  <2>3. Len(s.baseline) + Len(s.candidate) = 2 * N
    BY <2>2
  <2> QED BY <2>2, <2>3 DEF N
<1>3. CASE BehaviorMatches
  <2>1. PICK reading :
          series' = [s EXCEPT !.stage = "judged", !.kept = Len(Times("baseline")),
                              !.reading = reading]
    BY <1>3 DEF JudgeSeries
  <2>2. Len(Times("baseline")) = Len(s.baseline)
    <3> DEFINE times == Times("baseline")
               T == {times[i] : i \in DOMAIN times}
               n == Len(s.baseline)
    <3>1. DOMAIN times = DOMAIN s.baseline /\ times \in [DOMAIN times -> T]
      BY DEF Times
    <3>2. DOMAIN s.baseline = 1 .. n /\ n \in Nat
      BY <1>1, ListPlaces DEF IsSeries
    <3> HIDE DEF times, T, n
    <3>3. Len(times) = n
      BY <3>1, <3>2, MadeList
    <3> QED BY <3>3 DEF times, n
  <2> DEFINE kept == Len(Times("baseline"))
  <2> HIDE DEF kept
  <2>3. /\ DOMAIN series' = DOMAIN s /\ series'.baseline = s.baseline
        /\ series'.candidate = s.candidate /\ series'.nth = s.nth
        /\ series'.stage = "judged" /\ series'.kept = kept
    BY <1>1, <2>1 DEF IsSeries, SeriesFields, kept
  <2>4. \A i \in DOMAIN s.candidate : s.candidate[i].out.lines = "same"
    BY <1>1, <1>3, BehaviorSays
  <2> HIDE DEF s
  <2>5. IsSeries(series')
    BY <1>1, <2>3 DEF IsSeries
  <2>6. KeepsTheJudged(series')
    <3>1. kept = Pairs * s.nth
      BY <1>2, <2>2 DEF kept
    <3> QED BY <1>2, <2>3, <2>4, <3>1, Zenon DEF KeepsTheJudged
  <2> QED BY <2>5, <2>6
<1>4. CASE ~BehaviorMatches
  <2>1. series' = [s EXCEPT !.stage = "mismatch"]
    BY <1>4 DEF JudgeSeries
  <2>2. /\ DOMAIN series' = DOMAIN s /\ series'.baseline = s.baseline
        /\ series'.candidate = s.candidate /\ series'.nth = s.nth
        /\ series'.stage = "mismatch" /\ series'.kept = s.kept
        /\ series'.deterministic = s.deterministic
    BY <1>1, <2>1 DEF IsSeries, SeriesFields
  <2>3. SeriesRuns(series', "baseline") = SeriesRuns(s, "baseline")
    BY <2>2 DEF SeriesRuns
  <2>4. \/ \E i \in DOMAIN s.candidate : s.candidate[i].out.lines = "other"
        \/ /\ s.deterministic
           /\ \A i, j \in DOMAIN SeriesRuns(s, "baseline") :
                 SeriesRuns(s, "baseline")[i].out = SeriesRuns(s, "baseline")[j].out
    BY <1>1, <1>4, BehaviorSays
  <2> HIDE DEF s
  <2>5. IsSeries(series')
    BY <1>1, <2>2 DEF IsSeries
  <2>6. KeepsTheJudged(series')
    BY <1>2, <2>2, <2>3, <2>4, Zenon DEF KeepsTheJudged
  <2> QED BY <2>5, <2>6
<1> QED BY <1>3, <1>4

LEMMA ExtendKeeps == SeriesInv /\ ExtendSeries => SeriesInv'
<1> SUFFICES ASSUME SeriesInv, ExtendSeries PROVE IsSeries(series') /\ KeepsTheJudged(series')
  BY DEF SeriesInv
<1> DEFINE s == series
           n == s.nth
           N == Pairs * n
           b == Len(s.baseline)
           c == Len(s.candidate)
<1>1. /\ IsSeries(s) /\ n \in Nat \ {0} /\ Pairs \in Nat
      /\ series' = [s EXCEPT !.stage = "running", !.nth = n + 1, !.reading = <<>>]
      /\ s.kept = N /\ b + c = 2 * N
      /\ \A i \in DOMAIN s.candidate : s.candidate[i].out.lines = "same"
  BY SeriesAssumption DEF SeriesInv, ExtendSeries, KeepsTheJudged, IsSeries
<1>2. b \in Nat /\ c \in Nat /\ Alternates(b, c)
  BY <1>1, ListPlaces DEF IsSeries
<1>3. N \in Nat /\ Pairs * ((n + 1) - 1) = N
  BY <1>1
<1>4. /\ DOMAIN series' = DOMAIN s /\ series'.baseline = s.baseline
      /\ series'.candidate = s.candidate /\ series'.nth = n + 1
      /\ series'.stage = "running" /\ series'.kept = s.kept
  BY <1>1 DEF IsSeries, SeriesFields
<1> HIDE DEF N
<1>5. c = N
  <2> HIDE DEF b, c
  <2> QED BY <1>1, <1>2, <1>3 DEF Alternates
<1> HIDE DEF s
<1>6. IsSeries(series')
  BY <1>1, <1>4 DEF IsSeries
<1>7. KeepsTheJudged(series')
  <2>1. series'.kept = Pairs * (series'.nth - 1) /\ series'.kept <= Len(series'.candidate)
    BY <1>1, <1>3, <1>4, <1>5
  <2> QED BY <1>1, <1>4, <2>1 DEF KeepsTheJudged
<1> QED BY <1>6, <1>7

(* The steps that leave the runs alone.                                    *)
LEMMA SeriesStays ==
    ASSUME SeriesInv, RunFails \/ ProbesDisagree \/ UNCHANGED series
    PROVE  SeriesInv'
<1> SUFFICES IsSeries(series') /\ KeepsTheJudged(series')
  BY DEF SeriesInv
<1> DEFINE s == series
<1>1. IsSeries(s) /\ KeepsTheJudged(s)
  BY DEF SeriesInv
<1>2. CASE UNCHANGED series
  BY <1>1, <1>2
<1>3. CASE RunFails
  <2>1. /\ DOMAIN series' = DOMAIN s /\ series'.baseline = s.baseline
        /\ series'.candidate = s.candidate /\ series'.nth = s.nth /\ series'.stage = "failed"
    BY <1>1, <1>3 DEF RunFails, IsSeries, SeriesFields
  <2> HIDE DEF s
  <2> QED BY <1>1, <2>1 DEF IsSeries, KeepsTheJudged
<1>4. CASE ProbesDisagree
  <2>1. /\ DOMAIN series' = DOMAIN s /\ series'.baseline = s.baseline
        /\ series'.candidate = s.candidate /\ series'.nth = s.nth /\ series'.stage = s.stage
        /\ series'.kept = s.kept
    BY <1>1, <1>4 DEF ProbesDisagree, IsSeries, SeriesFields
  <2>2. s.stage # "mismatch"
    <3> SUFFICES ASSUME s.stage = "mismatch" PROVE FALSE
      OBVIOUS
    <3>1. Pairs * s.nth \in Nat \ {0}
      BY <1>1, SeriesAssumption DEF IsSeries
    <3>2. RunsDone = 2 * (Pairs * s.nth) /\ RunsDone = 0
      BY <1>1, <1>4 DEF KeepsTheJudged, ProbesDisagree, RunsDone
    <3> QED BY <3>1, <3>2
  <2> HIDE DEF s
  <2>3. IsSeries(series')
    BY <1>1, <2>1 DEF IsSeries
  <2>4. KeepsTheJudged(series')
    BY <1>1, <2>1, <2>2 DEF KeepsTheJudged
  <2> QED BY <2>3, <2>4
<1> QED BY <1>2, <1>3, <1>4

LEMMA SeriesInvariant == SeriesSpec => []SeriesInv
<1>1. SeriesInit => SeriesInv
  <2> SUFFICES ASSUME SeriesInit PROVE IsSeries(series) /\ KeepsTheJudged(series)
    BY DEF SeriesInv
  <2>1. series = [stage |-> "running", nth |-> 1, deterministic |-> TRUE,
                  baseline |-> <<>>, candidate |-> <<>>, kept |-> 0, reading |-> <<>>]
    BY DEF SeriesInit
  <2>2. IsList(<<>>) /\ Len(<<>>) = 0 /\ \A i \in DOMAIN <<>> : FALSE
    BY DEF IsList
  <2>3. /\ DOMAIN series = SeriesFields /\ series.stage = "running" /\ series.nth = 1
        /\ series.baseline = <<>> /\ series.candidate = <<>> /\ series.kept = 0
    BY <2>1 DEF SeriesFields
  <2>4. Pairs * (1 - 1) = 0
    BY SeriesAssumption
  <2>5. IsSeries(series)
    BY <2>2, <2>3 DEF IsSeries, Alternates
  <2>6. KeepsTheJudged(series)
    BY <2>2, <2>3, <2>4 DEF KeepsTheJudged
  <2> QED BY <2>5, <2>6
<1>2. SeriesInv /\ [SeriesNext]_pairVars => SeriesInv'
  <2> SUFFICES ASSUME SeriesInv, [SeriesNext]_pairVars PROVE SeriesInv'
    OBVIOUS
  <2>1. CASE RunNext
    BY <2>1, RunKeeps
  <2>2. CASE JudgeSeries
    BY <2>2, JudgeKeeps
  <2>3. CASE ExtendSeries
    BY <2>3, ExtendKeeps
  <2>4. CASE RunFails \/ ProbesDisagree \/ MachineTurns \/ UNCHANGED pairVars
    BY <2>4, SeriesStays DEF MachineTurns, pairVars
  <2> QED BY <2>1, <2>2, <2>3, <2>4 DEF SeriesNext
<1> QED BY <1>1, <1>2, PTL DEF SeriesSpec

(* Invariant of every series: a candidate that printed other lines in any  *)
(* repetition, of the confirmation or of the series before it, is never    *)
(* judged, and one refused for the order of its lines was compared with a  *)
(* baseline that never printed another (sameStdout, behaviorMatches).      *)
THEOREM JudgedPrintedTheSame == SeriesSpec => []BehaviorIsTheBinaries
<1>1. SeriesInv => BehaviorIsTheBinaries
  BY DEF SeriesInv, KeepsTheJudged, BehaviorIsTheBinaries, Of, SeriesRuns
<1> QED BY <1>1, SeriesInvariant, PTL

(***************************************************************************)
(* The preflight of a campaign (JevPreflight)                              *)
(***************************************************************************)

(* Of three samples, those that satisfy a condition are counted one by one. *)
LEMMA CountOfThree ==
    ASSUME NEW S \in SUBSET (1 .. 3)
    PROVE  Cardinality(S) = (IF 1 \in S THEN 1 ELSE 0) + (IF 2 \in S THEN 1 ELSE 0)
                              + (IF 3 \in S THEN 1 ELSE 0)
<1> DEFINE A == S \cap {1}
           B == S \cap {1, 2}
<1>0. \A x : x \in S => x = 1 \/ x = 2 \/ x = 3
  OBVIOUS
<1>1. IsFiniteSet({}) /\ Cardinality({}) = 0
  BY FS_EmptySet
<1>2. IsFiniteSet(A) /\ Cardinality(A) = IF 1 \in S THEN 1 ELSE 0
  <2>1. CASE 1 \in S
    <3>1. A = {1}
      <4>1. \A x : x \in A <=> x \in {1}
        BY <2>1
      <4> QED
        BY <4>1
    <3> QED
      BY <2>1, <3>1, FS_Singleton
  <2>2. CASE 1 \notin S
    <3>1. A = {}
      <4>1. \A x : x \notin A
        BY <1>0, <2>2
      <4> QED
        BY <4>1
    <3> QED
      BY <1>1, <2>2, <3>1
  <2> QED
    BY <2>1, <2>2
<1>3. IsFiniteSet(B) /\ Cardinality(B) = Cardinality(A) + IF 2 \in S THEN 1 ELSE 0
  <2>1. CASE 2 \in S
    <3>1. B = A \cup {2} /\ 2 \notin A
      BY <1>0, <2>1
    <3> HIDE DEF A, B
    <3> QED
      BY <1>2, <2>1, <3>1, FS_AddElement
  <2>2. CASE 2 \notin S
    <3>1. B = A
      BY <1>0, <2>2
    <3> HIDE DEF A, B
    <3> QED
      BY <1>2, <2>2, <3>1
  <2> QED
    BY <2>1, <2>2
<1>4. Cardinality(S) = Cardinality(B) + IF 3 \in S THEN 1 ELSE 0
  <2>1. CASE 3 \in S
    <3>1. S = B \cup {3} /\ 3 \notin B
      BY <1>0, <2>1
    <3> HIDE DEF A, B
    <3> QED
      BY <1>2, <1>3, <2>1, <3>1, FS_AddElement
  <2>2. CASE 3 \notin S
    <3>1. S = B
      BY <1>0, <2>2
    <3> HIDE DEF A, B
    <3> QED
      BY <1>2, <1>3, <2>2, <3>1
  <2> QED
    BY <2>1, <2>2
<1> HIDE DEF A, B
<1> QED
  BY <1>2, <1>3, <1>4

(* One if a condition holds.                                               *)
Fulfilled(b) == IF b THEN 1 ELSE 0

LEMMA ThreeBelow ==
    ASSUME NEW f \in [1 .. 3 -> Int], NEW m \in Int
    PROVE  /\ Cardinality({j \in 1 .. 3 : f[j] < m})
                = Fulfilled(f[1] < m) + Fulfilled(f[2] < m) + Fulfilled(f[3] < m)
           /\ Cardinality({j \in 1 .. 3 : f[j] <= m})
                = Fulfilled(f[1] <= m) + Fulfilled(f[2] <= m) + Fulfilled(f[3] <= m)
           /\ Cardinality({j \in 1 .. 3 : f[j] > m})
                = Fulfilled(f[1] > m) + Fulfilled(f[2] > m) + Fulfilled(f[3] > m)
           /\ Cardinality({j \in 1 .. 3 : -f[j] > m})
                = Fulfilled(-f[1] > m) + Fulfilled(-f[2] > m) + Fulfilled(-f[3] > m)
<1>1. Cardinality({j \in 1 .. 3 : f[j] < m})
        = Fulfilled(f[1] < m) + Fulfilled(f[2] < m) + Fulfilled(f[3] < m)
  <2> DEFINE S == {j \in 1 .. 3 : f[j] < m}
  <2>1. /\ S \in SUBSET (1 .. 3)
        /\ 1 \in S <=> f[1] < m
        /\ 2 \in S <=> f[2] < m
        /\ 3 \in S <=> f[3] < m
    OBVIOUS
  <2> HIDE DEF S
  <2>2. Cardinality(S) = Fulfilled(f[1] < m) + Fulfilled(f[2] < m) + Fulfilled(f[3] < m)
    BY <2>1, CountOfThree DEF Fulfilled
  <2> QED
    BY <2>2 DEF S
<1>2. Cardinality({j \in 1 .. 3 : f[j] <= m})
        = Fulfilled(f[1] <= m) + Fulfilled(f[2] <= m) + Fulfilled(f[3] <= m)
  <2> DEFINE S == {j \in 1 .. 3 : f[j] <= m}
  <2>1. /\ S \in SUBSET (1 .. 3)
        /\ 1 \in S <=> f[1] <= m
        /\ 2 \in S <=> f[2] <= m
        /\ 3 \in S <=> f[3] <= m
    OBVIOUS
  <2> HIDE DEF S
  <2>2. Cardinality(S) = Fulfilled(f[1] <= m) + Fulfilled(f[2] <= m) + Fulfilled(f[3] <= m)
    BY <2>1, CountOfThree DEF Fulfilled
  <2> QED
    BY <2>2 DEF S
<1>3. Cardinality({j \in 1 .. 3 : f[j] > m})
        = Fulfilled(f[1] > m) + Fulfilled(f[2] > m) + Fulfilled(f[3] > m)
  <2> DEFINE S == {j \in 1 .. 3 : f[j] > m}
  <2>1. /\ S \in SUBSET (1 .. 3)
        /\ 1 \in S <=> f[1] > m
        /\ 2 \in S <=> f[2] > m
        /\ 3 \in S <=> f[3] > m
    OBVIOUS
  <2> HIDE DEF S
  <2>2. Cardinality(S) = Fulfilled(f[1] > m) + Fulfilled(f[2] > m) + Fulfilled(f[3] > m)
    BY <2>1, CountOfThree DEF Fulfilled
  <2> QED
    BY <2>2 DEF S
<1>4. Cardinality({j \in 1 .. 3 : -f[j] > m})
        = Fulfilled(-f[1] > m) + Fulfilled(-f[2] > m) + Fulfilled(-f[3] > m)
  <2> DEFINE S == {j \in 1 .. 3 : -f[j] > m}
  <2>1. /\ S \in SUBSET (1 .. 3)
        /\ 1 \in S <=> -f[1] > m
        /\ 2 \in S <=> -f[2] > m
        /\ 3 \in S <=> -f[3] > m
    OBVIOUS
  <2> HIDE DEF S
  <2>2. Cardinality(S) = Fulfilled(-f[1] > m) + Fulfilled(-f[2] > m) + Fulfilled(-f[3] > m)
    BY <2>1, CountOfThree DEF Fulfilled
  <2> QED
    BY <2>2 DEF S
<1> QED
  BY <1>1, <1>2, <1>3, <1>4

(* The median of three is one of them, with at most one below it and at    *)
(* most one above.                                                         *)
LEMMA MedianOfThree ==
    ASSUME NEW f \in [1 .. 3 -> Int]
    PROVE  /\ Median(f) \in {f[1], f[2], f[3]}
           /\ Fulfilled(f[1] < Median(f)) + Fulfilled(f[2] < Median(f))
                + Fulfilled(f[3] < Median(f)) <= 1
           /\ Fulfilled(f[1] <= Median(f)) + Fulfilled(f[2] <= Median(f))
                + Fulfilled(f[3] <= Median(f)) > 1
<1> DEFINE Middle(m) == /\ Cardinality({j \in 1 .. 3 : f[j] < m}) <= 1
                        /\ Cardinality({j \in 1 .. 3 : f[j] <= m}) > 1
           values == {f[j] : j \in 1 .. 3}
           median == CHOOSE m \in values : Middle(m)
<1>1. Cardinality(1 .. 3) = 3 /\ 3 \div 2 = 1
  BY CountOfThree
<1>2. Median(f) = median
  <2>1. DOMAIN f = 1 .. 3
    OBVIOUS
  <2> QED
    BY <1>1, <2>1 DEF Median
<1>3. values = {f[1], f[2], f[3]}
  OBVIOUS
<1>4. ASSUME NEW m \in Int
      PROVE  Middle(m) <=>
               /\ Fulfilled(f[1] < m) + Fulfilled(f[2] < m) + Fulfilled(f[3] < m) <= 1
               /\ Fulfilled(f[1] <= m) + Fulfilled(f[2] <= m) + Fulfilled(f[3] <= m) > 1
  BY ThreeBelow
<1> HIDE DEF Middle
<1>5. f[1] \in Int /\ f[2] \in Int /\ f[3] \in Int
  OBVIOUS
<1>6. \E m \in values : Middle(m)
  <2>1. Middle(f[1]) \/ Middle(f[2]) \/ Middle(f[3])
    BY <1>4, <1>5 DEF Fulfilled
  <2> QED
    BY <1>3, <2>1
<1>7. median \in values /\ Middle(median)
  BY <1>6
<1> HIDE DEF median
<1>8. median \in Int
  BY <1>3, <1>5, <1>7
<1> QED
  BY <1>2, <1>3, <1>4, <1>7, <1>8

(* It moved exactly if two of the three moved the same way.                *)
LEMMA MedianMoves ==
    ASSUME NEW f \in [1 .. 3 -> Int]
    PROVE  Moved(Median(f)) <=>
              \/ Cardinality({i \in 1 .. 3 : f[i] > Tolerance}) >= 2
              \/ Cardinality({i \in 1 .. 3 : -f[i] > Tolerance}) >= 2
<1> DEFINE m == Median(f)
<1>1. Tolerance \in Nat /\ f[1] \in Int /\ f[2] \in Int /\ f[3] \in Int
  BY PreflightAssumption
<1>2. /\ m \in {f[1], f[2], f[3]}
      /\ Fulfilled(f[1] < m) + Fulfilled(f[2] < m) + Fulfilled(f[3] < m) <= 1
      /\ Fulfilled(f[1] <= m) + Fulfilled(f[2] <= m) + Fulfilled(f[3] <= m) > 1
  BY MedianOfThree
<1>3. /\ Cardinality({i \in 1 .. 3 : f[i] > Tolerance})
           = Fulfilled(f[1] > Tolerance) + Fulfilled(f[2] > Tolerance)
               + Fulfilled(f[3] > Tolerance)
      /\ Cardinality({i \in 1 .. 3 : -f[i] > Tolerance})
           = Fulfilled(-f[1] > Tolerance) + Fulfilled(-f[2] > Tolerance)
               + Fulfilled(-f[3] > Tolerance)
  <2>1. Tolerance \in Int
    BY <1>1
  <2> QED
    BY <2>1, ThreeBelow
<1> HIDE DEF m
<1>4. Moved(m) <=>
        \/ Fulfilled(f[1] > Tolerance) + Fulfilled(f[2] > Tolerance)
             + Fulfilled(f[3] > Tolerance) >= 2
        \/ Fulfilled(-f[1] > Tolerance) + Fulfilled(-f[2] > Tolerance)
             + Fulfilled(-f[3] > Tolerance) >= 2
  BY <1>1, <1>2 DEF Fulfilled, Moved
<1> QED
  BY <1>3, <1>4 DEF m

(* The samples of a preflight are answers to canary questions.             *)
PreflightInv ==
    /\ DOMAIN preflight = {"phase", "samples"}
    /\ preflight.samples \in Seq(Samples)

LEMMA PreflightInvariant == PreflightSpec => []PreflightInv
<1>1. PreflightInit => PreflightInv
  BY DEF PreflightInit, PreflightInv
<1>2. PreflightInv /\ [PreflightNext]_preflight => PreflightInv'
  <2> SUFFICES ASSUME PreflightInv, [PreflightNext]_preflight PROVE PreflightInv'
    OBVIOUS
  <2> USE DEF PreflightInv
  <2>1. CASE AskCanary
    <3>1. PICK sample \in Samples :
            preflight' = [preflight EXCEPT !.samples = Append(@, sample)]
      BY <2>1 DEF AskCanary
    <3>2. Append(preflight.samples, sample) \in Seq(Samples)
      OBVIOUS
    <3> QED
      BY <3>1, <3>2
  <2>2. CASE CanaryFails
    BY <2>2 DEF CanaryFails
  <2>3. CASE DecideCanary
    BY <2>3 DEF DecideCanary
  <2>4. CASE UNCHANGED preflight
    BY <2>4
  <2> QED
    BY <2>1, <2>2, <2>3, <2>4 DEF PreflightNext
<1> QED
  BY <1>1, <1>2, PTL DEF PreflightSpec

(* When every question was answered, no answer's median moved exactly if   *)
(* none moved the same way in two of the three samples.                    *)
LEMMA ConfirmedDrift ==
    ASSUME NEW samples \in Seq(Samples), Len(samples) = 3,
           \A i \in DOMAIN samples : \A q \in CanaryQuestions : q \in DOMAIN samples[i]
    PROVE  CanaryDrift(MedianAnswers(samples)) # {}
             <=> \E q \in CanaryQuestions : MovedTwice(samples, q)
<1>1. DOMAIN samples = 1 .. 3
  OBVIOUS
<1>2. \A i \in 1 .. 3 : DOMAIN samples[i] = CanaryQuestions
                        /\ \A q \in CanaryQuestions : samples[i][q] \in Int
  <2> TAKE i \in 1 .. 3
  <2>1. samples[i] \in Samples
    BY <1>1
  <2>2. PICK qs \in SUBSET CanaryQuestions : samples[i] \in [qs -> Moves]
    BY <2>1 DEF Samples
  <2>3. qs = CanaryQuestions
    BY <1>1, <2>2
  <2> QED
    BY <2>2, <2>3, PreflightAssumption
<1>3. ASSUME NEW q \in CanaryQuestions
      PROVE  /\ q \in DOMAIN MedianAnswers(samples)
             /\ Moved(MedianAnswers(samples)[q]) <=> MovedTwice(samples, q)
  <2> DEFINE f == [i \in 1 .. 3 |-> samples[i][q]]
  <2>1. f \in [1 .. 3 -> Int]
    BY <1>2
  <2>2. {j \in DOMAIN samples : q \in DOMAIN samples[j]} = 1 .. 3
    BY <1>1, <1>2
  <2>3. q \in DOMAIN MedianAnswers(samples) /\ MedianAnswers(samples)[q] = Median(f)
    <3>1. q \in DOMAIN samples[1]
      BY <1>2
    <3>2. MedianAnswers(samples)[q]
            = Median([i \in {j \in DOMAIN samples : q \in DOMAIN samples[j]} |-> samples[i][q]])
      BY <3>1 DEF MedianAnswers
    <3>3. [i \in {j \in DOMAIN samples : q \in DOMAIN samples[j]} |-> samples[i][q]] = f
      BY <2>2
    <3> QED
      BY <3>1, <3>2, <3>3 DEF MedianAnswers
  <2>4. /\ {i \in 1 .. 3 : f[i] > Tolerance} = {i \in DOMAIN samples : samples[i][q] > Tolerance}
        /\ {i \in 1 .. 3 : -f[i] > Tolerance}
             = {i \in DOMAIN samples : -samples[i][q] > Tolerance}
    BY <1>1
  <2> HIDE DEF f
  <2>5. Moved(Median(f)) <=>
           \/ Cardinality({i \in 1 .. 3 : f[i] > Tolerance}) >= 2
           \/ Cardinality({i \in 1 .. 3 : -f[i] > Tolerance}) >= 2
    BY <2>1, MedianMoves
  <2> QED
    BY <2>3, <2>4, <2>5 DEF MovedTwice
<1> QED
  BY <1>3 DEF CanaryDrift

(* One sample cannot move twice.                                           *)
LEMMA OneSampleMovesOnce ==
    ASSUME NEW samples \in Seq(Samples), Len(samples) = 1, NEW q
    PROVE  ~MovedTwice(samples, q)
<1>1. ASSUME NEW S \in SUBSET DOMAIN samples PROVE ~(Cardinality(S) >= 2)
  <2>1. S \in SUBSET (1 .. 3) /\ 2 \notin S /\ 3 \notin S
    OBVIOUS
  <2> QED
    BY <2>1, CountOfThree
<1> DEFINE up == {i \in DOMAIN samples : samples[i][q] > Tolerance}
           down == {i \in DOMAIN samples : -samples[i][q] > Tolerance}
<1>2. up \in SUBSET DOMAIN samples /\ down \in SUBSET DOMAIN samples
  OBVIOUS
<1>3. MovedTwice(samples, q) <=> Cardinality(up) >= 2 \/ Cardinality(down) >= 2
  BY DEF MovedTwice
<1> HIDE DEF up, down
<1> QED
  BY <1>1, <1>2, <1>3

(***************************************************************************)
(* With every canary question answered, a campaign is refused exactly if   *)
(* two of the three samples moved the same way for one question, whatever  *)
(* the questions, the tolerance and the answers: an outlier alone never    *)
(* refuses it, and a model that moved is let through only by the override. *)
(***************************************************************************)
THEOREM OutlierDecidesNothing == PreflightSpec => OneOutlierDecidesNothing
<1> DEFINE samples == preflight.samples
           answered == \A i \in DOMAIN samples : \A q \in CanaryQuestions : q \in DOMAIN samples[i]
           moved == \E q \in CanaryQuestions : MovedTwice(samples, q)
           decided == preflight.phase = "asking" /\ samples # <<>> /\ Len(samples) \in {1, 3}
                        /\ answered
           Decides == /\ decided /\ preflight'.phase = "started" => AllowDrift \/ ~moved
                      /\ decided /\ preflight'.phase = "refused" => moved
<1>1. PreflightInv /\ [PreflightNext]_preflight => [Decides]_preflight
  <2> SUFFICES ASSUME PreflightInv, PreflightNext, decided,
                      preflight'.phase \in {"started", "refused"}
               PROVE  /\ preflight'.phase = "started" => AllowDrift \/ ~moved
                      /\ preflight'.phase = "refused" => moved
    OBVIOUS
  <2>1. DecideCanary
    BY DEF PreflightNext, AskCanary, CanaryFails, PreflightInv
  <2>2. preflight'.phase = "started" <=> Steady(samples)
    BY <2>1 DEF DecideCanary, PreflightInv
  <2>3. samples \in Seq(Samples)
    BY DEF PreflightInv
  <2>4. CASE Len(samples) = 1
    <3>1. CanaryDrift(samples[1]) = {}
      BY <2>1, <2>4 DEF DecideCanary
    <3>2. Steady(samples)
      BY <2>4, <3>1 DEF Steady
    <3>3. ~moved
      BY <2>3, <2>4, OneSampleMovesOnce
    <3> QED
      BY <2>2, <3>2, <3>3
  <2>5. CASE Len(samples) = 3
    <3>1. CanaryDrift(MedianAnswers(samples)) # {} <=> moved
      BY <2>3, <2>5, ConfirmedDrift
    <3>2. Steady(samples) <=> AllowDrift \/ CanaryDrift(MedianAnswers(samples)) = {}
      BY <2>5 DEF Steady, CanaryConfirmations
    <3> QED
      BY <2>2, <3>1, <3>2
  <2> QED
    BY <2>4, <2>5
<1> QED
  BY <1>1, PreflightInvariant, PTL DEF PreflightSpec, OneOutlierDecidesNothing

(***************************************************************************)
(* The questions asked of Jev (JevQuestions)                               *)
(***************************************************************************)

USE JevAssumption

Digests == [build : Builds, site : Sites]

(* What a store may hold: responses under the digest of a build and a site.*)
Stores == UNION {[D -> Responses] : D \in SUBSET Digests}

JevCalls == [site : Sites, attempt : Nat, sent : BOOLEAN]

Counts == [usage : Nat, hits : Nat, shared : Nat, misses : Nat]

Tallies == [baseline : Nat, collected : Nat, state : Counts]

Bills == [ asked : Nat, processes : Nat, charged : Nat, unheard : Nat,
           unsaved : Nat, lost : Nat ]

JevTypeOK ==
    /\ store \in [cache : Stores, record : Stores]
    /\ client = [phase |-> "down"]
       \/ client \in [phase : {"running"}, build : Builds, shares : BOOLEAN]
    /\ call = NoCall \/ (call \in JevCalls /\ client.phase = "running")
    /\ counts \in Tallies /\ saved \in Counts /\ bill \in Bills

(* The baseline and what this process collected, against what was saved.   *)
CollectorIsAhead ==
    IF client.phase = "running"
    THEN counts.baseline + counts.collected = saved.usage + bill.unsaved
    ELSE bill.unsaved = 0

Accounts == CollectorIsAhead /\ UsageIsWhatWasPaid

(* A stored answer is of the build its digest names, or names none.        *)
OfItsBuild(map) == \A d \in DOMAIN map : map[d].model \in {Unknown, d.build}

StoresAreOfTheirBuilds == OfItsBuild(store.cache) /\ OfItsBuild(store.record)

(* Reading a store finds a response under a digest of this program.        *)
LEMMA StoredAnswer ==
    ASSUME NEW map \in Stores, NEW d \in DOMAIN map
    PROVE  d \in Digests /\ map[d] \in Responses
BY DEF Stores

(* Filling a store keeps it a store, and every answer of its own build.    *)
LEMMA PutAnswer ==
    ASSUME NEW map \in Stores, OfItsBuild(map),
           NEW d \in Digests, NEW resp \in Responses,
           resp.model \in {Unknown, d.build}
    PROVE  Put(map, d, resp) \in Stores /\ OfItsBuild(Put(map, d, resp))
<1>1. PICK D \in SUBSET Digests : map \in [D -> Responses]
  BY DEF Stores
<1>2. Put(map, d, resp) \in [D \cup {d} -> Responses]
  BY <1>1 DEF Put
<1>3. Put(map, d, resp) \in Stores
  BY <1>2 DEF Stores
<1>4. OfItsBuild(Put(map, d, resp))
  BY DEF Put, OfItsBuild
<1> QED
  BY <1>3, <1>4

(* A replayed answer is the stored one, free of charge.                    *)
LEMMA ReplayedAnswer ==
    ASSUME NEW resp \in Responses
    PROVE  /\ WithNoUsage(resp) \in Responses
           /\ WithNoUsage(resp).usage = 0
           /\ WithNoUsage(resp).model = resp.model
BY DEF WithNoUsage, Responses

(* Counting an answer moves the collector by its usage and no baseline.    *)
LEMMA CountedAnswer ==
    ASSUME NEW m \in Tallies, NEW resp \in Responses,
           NEW from \in {"hits", "shared", "misses"}
    PROVE  /\ Counted(m, resp, from) \in Tallies
           /\ Counted(m, resp, from).baseline = m.baseline
           /\ Counted(m, resp, from).collected = m.collected + resp.usage
           /\ resp.usage \in Nat
<1> DEFINE usage == resp.usage
<1>1. usage \in Nat
  BY DEF Responses
<1> HIDE DEF usage
<1>2. PICK cost : cost = m.collected + usage
  OBVIOUS
<1>3. cost \in Nat /\ m.state[from] + 1 \in Nat /\ m.state \in Counts
  BY <1>1, <1>2 DEF Tallies, Counts
<1>4. PICK more \in Counts : more = [m.state EXCEPT ![from] = @ + 1]
  BY <1>3 DEF Counts
<1>5. Counted(m, resp, from) = [m EXCEPT !.collected = cost, !.state = more]
  BY <1>2, <1>4 DEF Counted, usage
<1>6. /\ Counted(m, resp, from) \in Tallies
      /\ Counted(m, resp, from).baseline = m.baseline
      /\ Counted(m, resp, from).collected = cost
  BY <1>3, <1>4, <1>5 DEF Tallies
<1> QED
  BY <1>1, <1>2, <1>6 DEF usage

(* What a save would write is the baseline and the collector's total.      *)
LEMMA RecordedUsage ==
    ASSUME NEW m \in Tallies
    PROVE  /\ RecordTokenUsage(m) \in Tallies
           /\ RecordTokenUsage(m).baseline = m.baseline
           /\ RecordTokenUsage(m).collected = m.collected
           /\ RecordTokenUsage(m).state \in Counts
           /\ RecordTokenUsage(m).state.usage = m.baseline + m.collected
<1>1. PICK sum \in Nat : sum = m.baseline + m.collected
  BY DEF Tallies
<1>2. PICK st : st = [m.state EXCEPT !.usage = sum]
  OBVIOUS
<1>3. m.state \in Counts
  BY DEF Tallies
<1>4. st \in Counts /\ st.usage = sum
  BY <1>1, <1>2, <1>3 DEF Counts
<1>5. RecordTokenUsage(m) = [m EXCEPT !.state = st]
  BY <1>1, <1>2 DEF RecordTokenUsage
<1>6. /\ RecordTokenUsage(m) \in Tallies /\ RecordTokenUsage(m).state = st
      /\ RecordTokenUsage(m).baseline = m.baseline
      /\ RecordTokenUsage(m).collected = m.collected
  BY <1>4, <1>5 DEF Tallies
<1> QED
  BY <1>1, <1>4, <1>6

(* The digest the process keys by names the build it pins.                 *)
LEMMA KeyType ==
    ASSUME JevTypeOK, call # NoCall
    PROVE  /\ Key \in Digests /\ Key.build = client.build
           /\ call \in JevCalls
           /\ client \in [phase : {"running"}, build : Builds, shares : BOOLEAN]
BY DEF JevTypeOK, Key, Digest, Digests, JevCalls

JevInv == StoresAreOfTheirBuilds /\ AnswerIsOfThisBuild /\ Accounts

LEMMA EmptyStore == Empty \in Stores /\ OfItsBuild(Empty)
<1>1. Empty \in [{} -> Responses]
  BY DEF Empty
<1>2. {} \in SUBSET Digests
  OBVIOUS
<1>3. Empty \in Stores
  BY <1>1, <1>2 DEF Stores
<1>4. OfItsBuild(Empty)
  BY DEF Empty, OfItsBuild
<1> QED
  BY <1>3, <1>4

LEMMA JevInitial == JevInit => JevTypeOK /\ JevInv
<1> SUFFICES ASSUME JevInit PROVE JevTypeOK /\ JevInv
  OBVIOUS
<1>1. counts \in Tallies /\ saved \in Counts /\ bill \in Bills
  BY DEF JevInit, NoCounts, Tallies, Counts, Bills
<1>2. Accounts
  BY DEF JevInit, NoCounts, Accounts, CollectorIsAhead, UsageIsWhatWasPaid
<1>3. JevTypeOK
  BY <1>1, EmptyStore DEF JevInit, JevTypeOK
<1> QED
  BY <1>2, <1>3, EmptyStore DEF JevInit, JevInv, StoresAreOfTheirBuilds, AnswerIsOfThisBuild

(* What the last classification rests on, when it has just come back.      *)
LEMMA AnsweredOfThisBuild ==
    ASSUME NEW site, NEW resp, SiteAnswered(site, resp),
           resp.model \in {Unknown, client.build}
    PROVE  AnswerIsOfThisBuild'
BY DEF SiteAnswered, AnswerIsOfThisBuild

LEMMA StartClientStep ==
    ASSUME JevTypeOK, JevInv, StartClient
    PROVE  JevTypeOK' /\ JevInv'
<1>1. PICK build \in Builds, shares \in BOOLEAN, fresh \in BOOLEAN :
        LET found == IF fresh THEN NoCounts ELSE saved IN
          /\ client' = [phase |-> "running", build |-> build, shares |-> shares]
          /\ store' = IF fresh THEN [store EXCEPT !.cache = Empty] ELSE store
          /\ counts' = [baseline |-> found.usage, collected |-> 0, state |-> found]
          /\ saved' = found
          /\ bill' = [asked |-> bill.asked, processes |-> bill.processes + 1,
                      charged |-> IF fresh THEN 0 ELSE bill.charged,
                      unheard |-> IF fresh THEN 0 ELSE bill.unheard,
                      unsaved |-> 0, lost |-> IF fresh THEN 0 ELSE bill.lost]
  BY DEF StartClient
<1>2. client' \in [phase : {"running"}, build : Builds, shares : BOOLEAN]
  BY <1>1
<1>3. store' \in [cache : Stores, record : Stores] /\ StoresAreOfTheirBuilds'
  <2>1. CASE fresh
    BY <1>1, <2>1, EmptyStore DEF JevTypeOK, JevInv, StoresAreOfTheirBuilds
  <2>2. CASE ~fresh
    BY <1>1, <2>2 DEF JevTypeOK, JevInv, StoresAreOfTheirBuilds
  <2> QED
    BY <2>1, <2>2
<1>4. UNCHANGED <<call, verdict>> /\ client.phase = "down"
  BY DEF StartClient
<1>5. /\ counts' \in Tallies /\ saved' \in Counts /\ bill' \in Bills
      /\ Accounts'
  <2>1. saved \in Counts /\ NoCounts \in Counts /\ bill \in Bills /\ NoCounts.usage = 0
    BY DEF JevTypeOK, Counts, NoCounts
  <2>2. PICK found \in Counts :
          /\ found = IF fresh THEN NoCounts ELSE saved
          /\ counts' = [baseline |-> found.usage, collected |-> 0, state |-> found]
          /\ saved' = found
    BY <1>1, <2>1
  <2>3. counts' \in Tallies /\ counts'.baseline = found.usage /\ counts'.collected = 0
    BY <2>2 DEF Tallies, Counts
  <2>4. /\ bill' \in Bills /\ bill'.unsaved = 0
        /\ bill'.charged = IF fresh THEN 0 ELSE bill.charged
        /\ bill'.unheard = IF fresh THEN 0 ELSE bill.unheard
        /\ bill'.lost = IF fresh THEN 0 ELSE bill.lost
    BY <1>1, <2>1 DEF Bills
  <2>5. client'.phase = "running" /\ found.usage \in Nat
    BY <1>2, <2>2 DEF Counts
  <2>6. CollectorIsAhead'
    BY <2>2, <2>3, <2>4, <2>5 DEF CollectorIsAhead
  <2>7. UsageIsWhatWasPaid'
    <3>1. CASE fresh
      BY <2>1, <2>2, <2>4, <3>1 DEF UsageIsWhatWasPaid
    <3>2. CASE ~fresh
      <4>1. bill.unsaved = 0 /\ UsageIsWhatWasPaid
        BY <1>4 DEF JevInv, Accounts, CollectorIsAhead
      <4> QED
        BY <2>2, <2>4, <3>2, <4>1 DEF UsageIsWhatWasPaid
    <3> QED
      BY <3>1, <3>2
  <2> QED
    BY <2>2, <2>3, <2>4, <2>6, <2>7 DEF Accounts
<1>6. JevTypeOK'
  BY <1>2, <1>3, <1>4, <1>5 DEF JevTypeOK, NoCall, JevCalls
<1> QED
  BY <1>3, <1>4, <1>5, <1>6 DEF JevInv, AnswerIsOfThisBuild

(* An answer replayed from either store: the cache may be filled with it.  *)
LEMMA ReplayStep ==
    ASSUME JevTypeOK, JevInv, AnswerFromCache \/ AnswerFromRecord
    PROVE  JevTypeOK' /\ JevInv'
<1>1. call # NoCall /\ UNCHANGED <<client, saved, bill>>
  BY DEF AnswerFromCache, AnswerFromRecord, Asking
<1>2. PICK map \in {store.cache, store.record}, from \in {"hits", "shared", "misses"} :
        /\ Key \in DOMAIN map
        /\ SiteAnswered(call.site, WithNoUsage(map[Key]))
        /\ counts' = Counted(counts, WithNoUsage(map[Key]), from)
  BY DEF AnswerFromCache, AnswerFromRecord
<1>3. map \in Stores /\ OfItsBuild(map)
  BY DEF JevTypeOK, JevInv, StoresAreOfTheirBuilds
<1> DEFINE resp == WithNoUsage(map[Key])
<1>4. /\ map[Key] \in Responses /\ map[Key].model \in {Unknown, client.build}
      /\ resp \in Responses /\ resp.usage = 0 /\ resp.model = map[Key].model
  BY <1>1, <1>2, <1>3, StoredAnswer, ReplayedAnswer, KeyType DEF OfItsBuild
<1>5. AnswerIsOfThisBuild' /\ call' = NoCall
  BY <1>2, <1>4, AnsweredOfThisBuild DEF SiteAnswered
<1>6. counts' \in Tallies /\ Accounts'
  <2> HIDE DEF resp
  <2>1. counts \in Tallies /\ counts' = Counted(counts, resp, from)
    BY <1>2 DEF JevTypeOK, resp
  <2>2. /\ counts' \in Tallies /\ counts'.baseline = counts.baseline
        /\ counts'.collected = counts.collected + resp.usage
    BY <1>4, <2>1, CountedAnswer
  <2>3. counts'.collected = counts.collected
    BY <1>4, <2>1, <2>2 DEF Tallies
  <2> QED
    BY <1>1, <2>2, <2>3 DEF JevInv, Accounts, CollectorIsAhead, UsageIsWhatWasPaid
<1>7. store' \in [cache : Stores, record : Stores] /\ StoresAreOfTheirBuilds'
  <2>1. CASE AnswerFromCache
    BY <2>1 DEF AnswerFromCache, JevTypeOK, JevInv, StoresAreOfTheirBuilds
  <2>2. CASE AnswerFromRecord
    <3>1. Key \in DOMAIN store.record
      BY <2>2 DEF AnswerFromRecord
    <3>2. /\ store.record \in Stores /\ OfItsBuild(store.record)
          /\ store.cache \in Stores /\ OfItsBuild(store.cache)
      BY DEF JevTypeOK, JevInv, StoresAreOfTheirBuilds
    <3> DEFINE filled == Put(store.cache, Key, store.record[Key])
    <3>3. filled \in Stores /\ OfItsBuild(filled)
      BY <1>1, <3>1, <3>2, StoredAnswer, KeyType, PutAnswer DEF OfItsBuild
    <3>4. store' = store \/ store' = [store EXCEPT !.cache = filled]
      BY <2>2 DEF AnswerFromRecord
    <3> HIDE DEF filled
    <3> QED
      BY <3>2, <3>3, <3>4 DEF JevTypeOK, StoresAreOfTheirBuilds
  <2> QED
    BY <2>1, <2>2
<1> QED
  BY <1>1, <1>5, <1>6, <1>7 DEF JevTypeOK, JevInv

(* An answer from Jev, kept in whatever stores could be written.           *)
LEMMA JevAnswersStep ==
    ASSUME JevTypeOK, JevInv, JevAnswers
    PROVE  JevTypeOK' /\ JevInv'
<1>1. call # NoCall /\ UNCHANGED <<client, saved>>
  BY DEF JevAnswers, Posting
<1>2. PICK resp \in Responses :
        /\ Accepted(resp)
        /\ SiteAnswered(call.site, resp)
        /\ counts' = Counted(counts, resp, "misses")
        /\ bill' = Paid(bill, resp.usage)
        /\ \E cache \in {store.cache, Put(store.cache, Key, resp)},
              record \in {store.record} \cup
                         (IF client.shares THEN {Put(store.record, Key, resp)} ELSE {}) :
              store' = [cache |-> cache, record |-> record]
  BY DEF JevAnswers
<1>3. resp.model \in {Unknown, client.build}
  BY <1>2 DEF Accepted
<1>4. AnswerIsOfThisBuild' /\ call' = NoCall
  BY <1>2, <1>3, AnsweredOfThisBuild DEF SiteAnswered
<1>5. bill' \in Bills /\ counts' \in Tallies /\ Accounts'
  <2>1. counts \in Tallies /\ bill \in Bills /\ saved \in Counts /\ client.phase = "running"
    BY <1>1 DEF JevTypeOK
  <2> DEFINE usage == resp.usage
  <2>2. /\ counts' \in Tallies /\ counts'.baseline = counts.baseline
        /\ counts'.collected = counts.collected + usage /\ usage \in Nat
    BY <1>2, <2>1, CountedAnswer
  <2>3. bill' = Paid(bill, usage)
    BY <1>2
  <2> HIDE DEF usage
  <2>4. PICK charged \in Nat, unsaved \in Nat :
          charged = bill.charged + usage /\ unsaved = bill.unsaved + usage
    BY <2>1, <2>2 DEF Bills
  <2>5. bill' = [bill EXCEPT !.charged = charged, !.unsaved = unsaved]
    BY <2>3, <2>4 DEF Paid
  <2>6. /\ bill' \in Bills /\ bill'.charged = charged /\ bill'.unsaved = unsaved
        /\ bill'.lost = bill.lost /\ bill'.unheard = bill.unheard
    BY <2>1, <2>5 DEF Bills
  <2>7. /\ counts.baseline \in Nat /\ counts.collected \in Nat /\ saved.usage \in Nat
        /\ bill.charged \in Nat /\ bill.unsaved \in Nat /\ bill.lost \in Nat
        /\ bill.unheard \in Nat
    BY <2>1 DEF Tallies, Counts, Bills
  <2>8. /\ counts.baseline + counts.collected = saved.usage + bill.unsaved
        /\ saved.usage + bill.unsaved + bill.lost + bill.unheard = bill.charged
    BY <2>1 DEF JevInv, Accounts, CollectorIsAhead, UsageIsWhatWasPaid
  <2>9. counts'.baseline + counts'.collected = saved'.usage + bill'.unsaved
    <3>1. counts.baseline + (counts.collected + usage) = saved.usage + unsaved
      BY <2>2, <2>4, <2>7, <2>8
    <3> QED
      BY <1>1, <2>2, <2>6, <3>1
  <2>10. saved'.usage + bill'.unsaved + bill'.lost + bill'.unheard = bill'.charged
    <3>1. saved.usage + unsaved + bill.lost + bill.unheard = charged
      BY <2>2, <2>4, <2>7, <2>8
    <3> QED
      BY <1>1, <2>6, <3>1
  <2> QED
    BY <1>1, <2>1, <2>2, <2>6, <2>9, <2>10
    DEF Accounts, CollectorIsAhead, UsageIsWhatWasPaid
<1>6. store' \in [cache : Stores, record : Stores] /\ StoresAreOfTheirBuilds'
  <2>1. /\ store.cache \in Stores /\ OfItsBuild(store.cache)
        /\ store.record \in Stores /\ OfItsBuild(store.record)
    BY DEF JevTypeOK, JevInv, StoresAreOfTheirBuilds
  <2>2. resp.model \in {Unknown, Key.build} /\ Key \in Digests
    BY <1>1, <1>3, KeyType
  <2> DEFINE cached == Put(store.cache, Key, resp)
             shared == Put(store.record, Key, resp)
  <2>3. /\ cached \in Stores /\ OfItsBuild(cached)
        /\ shared \in Stores /\ OfItsBuild(shared)
    BY <2>1, <2>2, PutAnswer
  <2>4. PICK cache \in {store.cache, cached}, record \in {store.record, shared} :
          store' = [cache |-> cache, record |-> record]
    BY <1>2
  <2> HIDE DEF cached, shared
  <2> QED
    BY <2>1, <2>3, <2>4 DEF StoresAreOfTheirBuilds
<1> QED
  BY <1>1, <1>4, <1>5, <1>6 DEF JevTypeOK, JevInv

(* Moving what was charged for no answer leaves the books even.            *)
LEMMA UnheardBill ==
    ASSUME JevTypeOK, JevInv, NEW cost \in Nat
    PROVE  LET b == Unheard(bill, cost) IN
           /\ b \in Bills /\ b.unsaved = bill.unsaved /\ b.lost = bill.lost
           /\ saved.usage + b.unsaved + b.lost + b.unheard = b.charged
<1>1. bill \in Bills /\ saved.usage \in Nat
  BY DEF JevTypeOK, Counts
<1>2. PICK charged \in Nat, unheard \in Nat :
        charged = bill.charged + cost /\ unheard = bill.unheard + cost
  BY <1>1 DEF Bills
<1>3. Unheard(bill, cost) = [bill EXCEPT !.charged = charged, !.unheard = unheard]
  BY <1>2 DEF Unheard
<1> DEFINE b == Unheard(bill, cost)
<1>4. /\ b \in Bills /\ b.unsaved = bill.unsaved /\ b.lost = bill.lost
      /\ b.charged = charged /\ b.unheard = unheard
  BY <1>1, <1>3 DEF Bills
<1> HIDE DEF b
<1>5. /\ saved.usage + bill.unsaved + bill.lost + bill.unheard = bill.charged
      /\ bill.unsaved \in Nat /\ bill.lost \in Nat /\ bill.unheard \in Nat
      /\ bill.charged \in Nat
  BY <1>1 DEF JevInv, Accounts, UsageIsWhatWasPaid, Bills
<1>6. saved.usage + b.unsaved + b.lost + b.unheard = b.charged
  BY <1>1, <1>2, <1>4, <1>5
<1> QED
  BY <1>4, <1>6 DEF b

(* A refused or lost answer: charged, and counted by nobody.               *)
LEMMA UnheardStep ==
    ASSUME JevTypeOK, JevInv, AnswerRefused \/ Throttled \/ JevFails
    PROVE  JevTypeOK' /\ JevInv'
<1>1. call # NoCall /\ UNCHANGED <<store, client, counts, saved>>
  BY DEF AnswerRefused, Throttled, JevFails, Posting
<1>2. PICK cost \in Nat : bill' = Unheard(bill, cost)
  BY DEF AnswerRefused, Throttled, JevFails, Responses
<1>3. /\ bill' \in Bills /\ bill'.unsaved = bill.unsaved
      /\ saved.usage + bill'.unsaved + bill'.lost + bill'.unheard = bill'.charged
  BY <1>2, UnheardBill
<1>4. Accounts'
  BY <1>1, <1>3 DEF JevInv, Accounts, CollectorIsAhead, UsageIsWhatWasPaid
<1>5. call' = NoCall \/ (call' \in JevCalls /\ client.phase = "running")
  <2>1. CASE Throttled
    <3>1. call \in [site : Sites, attempt : Nat, sent : BOOLEAN] /\ client.phase = "running"
      BY <1>1, KeyType DEF JevCalls
    <3>2. call.attempt + 1 \in Nat /\ call' = [call EXCEPT !.attempt = @ + 1]
      BY <2>1, <3>1 DEF Throttled
    <3> QED
      BY <3>1, <3>2 DEF JevCalls
  <2> QED
    BY <2>1 DEF AnswerRefused, JevFails, SiteFailed
<1>6. AnswerIsOfThisBuild'
  BY <1>1 DEF AnswerRefused, Throttled, JevFails, SiteFailed, AnswerIsOfThisBuild, JevInv
<1> QED
  BY <1>1, <1>3, <1>4, <1>5, <1>6 DEF JevTypeOK, JevInv, StoresAreOfTheirBuilds

(* A save writes all the process collected, or is refused.                 *)
LEMMA SavedCounts ==
    ASSUME JevTypeOK, JevInv, Between, NEW b \in Bills, SaveCounts(b),
           saved.usage + b.unsaved + b.lost + b.unheard = b.charged
    PROVE  /\ saved' \in Counts /\ bill' \in Bills /\ UsageIsWhatWasPaid'
           /\ \/ bill'.unsaved = 0 /\ saved'.usage = counts.baseline + counts.collected
              \/ saved' = saved /\ bill' = b
<1>1. saved \in Counts /\ counts \in Tallies /\ bill \in Bills
  BY DEF JevTypeOK
<1>2. CASE saved' = saved /\ bill' = b
  BY <1>1, <1>2 DEF UsageIsWhatWasPaid
<1>3. CASE saved' = RecordTokenUsage(counts).state /\ bill' = [bill EXCEPT !.unsaved = 0]
  <2>1. saved' \in Counts /\ saved'.usage = counts.baseline + counts.collected
    BY <1>1, <1>3, RecordedUsage
  <2>2. /\ bill' \in Bills /\ bill'.unsaved = 0 /\ bill'.lost = bill.lost
        /\ bill'.unheard = bill.unheard /\ bill'.charged = bill.charged
    BY <1>1, <1>3 DEF Bills
  <2>3. /\ counts.baseline + counts.collected = saved.usage + bill.unsaved
        /\ saved.usage + bill.unsaved + bill.lost + bill.unheard = bill.charged
    BY DEF Between, JevInv, Accounts, CollectorIsAhead, UsageIsWhatWasPaid
  <2>4. /\ saved.usage \in Nat /\ bill.unsaved \in Nat /\ bill.lost \in Nat
        /\ bill.unheard \in Nat /\ saved'.usage \in Nat
    BY <1>1, <2>1 DEF Counts, Bills
  <2>5. saved'.usage + bill'.unsaved + bill'.lost + bill'.unheard = bill'.charged
    BY <2>1, <2>2, <2>3, <2>4
  <2> QED
    BY <2>1, <2>2, <2>5 DEF UsageIsWhatWasPaid
<1> QED
  BY <1>2, <1>3 DEF SaveCounts

LEMMA SaveEventStep ==
    ASSUME JevTypeOK, JevInv, SaveEvent
    PROVE  JevTypeOK' /\ JevInv'
<1>1. /\ Between /\ SaveCounts(bill) /\ counts' = RecordTokenUsage(counts)
      /\ UNCHANGED <<store, client, call, verdict>>
  BY DEF SaveEvent
<1>2. saved.usage + bill.unsaved + bill.lost + bill.unheard = bill.charged /\ bill \in Bills
  BY DEF JevTypeOK, JevInv, Accounts, UsageIsWhatWasPaid
<1>3. /\ saved' \in Counts /\ bill' \in Bills /\ UsageIsWhatWasPaid'
      /\ \/ bill'.unsaved = 0 /\ saved'.usage = counts.baseline + counts.collected
         \/ saved' = saved /\ bill' = bill
  BY <1>1, <1>2, SavedCounts
<1>4. /\ counts' \in Tallies /\ counts'.baseline = counts.baseline
      /\ counts'.collected = counts.collected
  BY <1>1, RecordedUsage DEF JevTypeOK
<1>5. CollectorIsAhead'
  <2>1. saved'.usage \in Nat /\ client'.phase = "running"
    BY <1>1, <1>3 DEF Counts, Between
  <2>2. counts.baseline + counts.collected = saved.usage + bill.unsaved
    BY <1>1 DEF Between, JevInv, Accounts, CollectorIsAhead
  <2> QED
    BY <1>3, <1>4, <2>1, <2>2 DEF CollectorIsAhead
<1> QED
  BY <1>1, <1>3, <1>4, <1>5
  DEF JevTypeOK, JevInv, Accounts, StoresAreOfTheirBuilds, AnswerIsOfThisBuild

(* What dies unsaved is lost, and the books stay even.                     *)
LEMMA LosingBill ==
    ASSUME NEW b \in Bills, NEW usage \in Nat,
           usage + b.unsaved + b.lost + b.unheard = b.charged
    PROVE  /\ Losing(b) \in Bills /\ Losing(b).unsaved = 0
           /\ usage + Losing(b).unsaved + Losing(b).lost + Losing(b).unheard
                = Losing(b).charged
<1>1. PICK lost \in Nat : lost = b.lost + b.unsaved
  BY DEF Bills
<1>2. PICK c : c = [b EXCEPT !.lost = lost, !.unsaved = 0]
  OBVIOUS
<1>3. Losing(b) = c
  BY <1>1, <1>2 DEF Losing
<1>4. c \in Bills
  BY <1>2 DEF Bills
<1>5. c.unsaved = 0 /\ c.lost = lost /\ c.unheard = b.unheard /\ c.charged = b.charged
  BY <1>2 DEF Bills
<1>6. b.unsaved \in Nat /\ b.lost \in Nat /\ b.unheard \in Nat /\ b.charged \in Nat
  BY DEF Bills
<1>7. usage + 0 + lost + b.unheard = b.charged
  BY <1>1, <1>6
<1> QED
  BY <1>3, <1>4, <1>5, <1>7

(* A process that is gone leaves the stores, and nothing in memory.        *)
LEMMA GoneStep ==
    ASSUME JevTypeOK, JevInv, Gone
    PROVE  /\ counts' \in Tallies /\ client' = [phase |-> "down"] /\ call' = NoCall
           /\ store' \in [cache : Stores, record : Stores]
           /\ StoresAreOfTheirBuilds' /\ AnswerIsOfThisBuild'
<1>1. counts' \in Tallies
  BY DEF Gone, Tallies, Counts, NoCounts
<1>2. AnswerIsOfThisBuild'
  BY DEF Gone, AnswerIsOfThisBuild
<1> QED
  BY <1>1, <1>2 DEF Gone, JevTypeOK, JevInv, StoresAreOfTheirBuilds

LEMMA EndStep ==
    ASSUME JevTypeOK, JevInv, CloseClient \/ KillClient
    PROVE  JevTypeOK' /\ JevInv'
<1>1. saved \in Counts /\ saved.usage \in Nat /\ bill \in Bills
  BY DEF JevTypeOK, Counts
<1>2. Gone
  BY DEF CloseClient, KillClient
<1>3. saved.usage + bill.unsaved + bill.lost + bill.unheard = bill.charged
  BY DEF JevInv, Accounts, UsageIsWhatWasPaid
<1>4. saved' \in Counts /\ bill' \in Bills /\ UsageIsWhatWasPaid' /\ bill'.unsaved = 0
  <2>1. CASE CloseClient
    <3>1. /\ Losing(bill) \in Bills /\ Losing(bill).unsaved = 0
          /\ saved.usage + Losing(bill).unsaved + Losing(bill).lost + Losing(bill).unheard
               = Losing(bill).charged
      BY <1>1, <1>3, LosingBill
    <3>2. Between /\ SaveCounts(Losing(bill))
      BY <2>1 DEF CloseClient
    <3> QED
      BY <3>1, <3>2, SavedCounts
  <2>2. CASE KillClient
    <3>1. PICK cost \in Nat : bill' = Losing(Unheard(bill, cost)) /\ saved' = saved
      BY <2>2 DEF KillClient
    <3> DEFINE b == Unheard(bill, cost)
    <3>2. b \in Bills /\ saved.usage + b.unsaved + b.lost + b.unheard = b.charged
      BY UnheardBill
    <3>3. bill' = Losing(b)
      BY <3>1
    <3> HIDE DEF b
    <3>4. /\ bill' \in Bills /\ bill'.unsaved = 0
          /\ saved.usage + bill'.unsaved + bill'.lost + bill'.unheard = bill'.charged
      BY <1>1, <3>2, <3>3, LosingBill
    <3> QED
      BY <1>1, <3>1, <3>4 DEF UsageIsWhatWasPaid
  <2> QED
    BY <2>1, <2>2
<1>5. /\ counts' \in Tallies /\ client' = [phase |-> "down"] /\ call' = NoCall
      /\ store' \in [cache : Stores, record : Stores]
      /\ StoresAreOfTheirBuilds' /\ AnswerIsOfThisBuild'
  BY <1>2, GoneStep
<1>6. Accounts'
  BY <1>4, <1>5 DEF Accounts, CollectorIsAhead
<1> QED
  BY <1>4, <1>5, <1>6 DEF JevTypeOK, JevInv

(* The steps that touch neither a store nor the accounts.                  *)
LEMMA JevQuietStep ==
    ASSUME JevTypeOK, JevInv, Ask \/ Send
    PROVE  JevTypeOK' /\ JevInv'
<1>1. UNCHANGED <<store, client, counts, saved, verdict>>
  BY DEF Ask, Send
<1>2. /\ bill' \in Bills /\ bill'.unsaved = bill.unsaved /\ bill'.lost = bill.lost
      /\ bill'.unheard = bill.unheard /\ bill'.charged = bill.charged
  BY DEF Ask, Send, JevTypeOK, Bills
<1>3. Accounts'
  BY <1>1, <1>2 DEF JevInv, Accounts, CollectorIsAhead, UsageIsWhatWasPaid
<1>4. call' \in JevCalls /\ client.phase = "running"
  <2>1. CASE Ask
    BY <2>1 DEF Ask, Between, JevCalls
  <2>2. CASE Send
    <3>1. call \in [site : Sites, attempt : Nat, sent : BOOLEAN] /\ client.phase = "running"
      BY <2>2, KeyType DEF Send, Asking, JevCalls
    <3> QED
      BY <2>2, <3>1 DEF Send, JevCalls
  <2> QED
    BY <2>1, <2>2
<1> QED
  BY <1>1, <1>2, <1>3, <1>4
  DEF JevTypeOK, JevInv, StoresAreOfTheirBuilds, AnswerIsOfThisBuild

LEMMA JevInvariant == JevSpec => [](JevTypeOK /\ JevInv)
<1>1. JevTypeOK /\ JevInv /\ [JevNext]_jevVars => JevTypeOK' /\ JevInv'
  <2> SUFFICES ASSUME JevTypeOK, JevInv, [JevNext]_jevVars
               PROVE  JevTypeOK' /\ JevInv'
    OBVIOUS
  <2>1. CASE UNCHANGED jevVars
    BY <2>1 DEF jevVars, JevTypeOK, JevInv, StoresAreOfTheirBuilds, AnswerIsOfThisBuild,
                Accounts, CollectorIsAhead, UsageIsWhatWasPaid
  <2> QED
    BY <2>1, StartClientStep, SaveEventStep, EndStep, ReplayStep, JevAnswersStep,
       UnheardStep, JevQuietStep DEF JevNext
<1> QED
  BY <1>1, JevInitial, PTL DEF JevSpec

(***************************************************************************)
(* Whatever builds of Jev the processes of a campaign and of others pin,   *)
(* and whichever store answers, a classification rests on an answer of the *)
(* build this process pins: both stores hold under a digest only answers   *)
(* of the build the digest names (cachingEvaluator, checkBuildAndProvider).*)
(***************************************************************************)
THEOREM AnswersAreOfThisBuild == JevSpec => []AnswerIsOfThisBuild
BY JevInvariant, PTL DEF JevInv

(***************************************************************************)
(* The usage a campaign has on record is what Jev was paid for, whatever   *)
(* came from a store, over however many processes, saves, refused saves    *)
(* and kills: what is missing is what was paid for and never taken, what   *)
(* is not saved yet, and what died unsaved (withNoUsage, recordTokenUsage).*)
(***************************************************************************)
THEOREM ReportsWhatItPaid == JevSpec => []UsageIsWhatWasPaid
BY JevInvariant, PTL DEF JevInv, Accounts

=============================================================================
