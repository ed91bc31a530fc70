---------------------------- MODULE CauseTargets ----------------------------
(***************************************************************************)
(* What a campaign attacks, and in which order (campaign/causes.go,        *)
(* veto.go, writes.go, callers.go, history.go; jev/causes.go, fixkinds.go; *)
(* orchestrator.planTarget): Jev's answers about the hot functions and     *)
(* what code sees by itself become a ranking of targets, each cycle takes  *)
(* the first that is not closed, and the campaigns a later one is given    *)
(* as --history close targets for it.                                      *)
(*                                                                         *)
(* An evidence is what discovery, Jev and code say of the program at a     *)
(* revision:                                                               *)
(*   revision, memory: the commit; whether peak memory is the objective    *)
(*   hot, writes: locations, hottest first; those of unbuffered writes     *)
(*   at: the function at a location, if there is one: its declaration,     *)
(*     whether it fits the limit, Jev's distance z and yes to each cause,  *)
(*     its distances of the fix kinds, the causes whose mechanism code     *)
(*     sees is absent, and its callers that throw the result away          *)
(* Distances from the baseline are in quarters of a standard deviation.    *)
(* What --history carries for the duplicate check and for the optimizer    *)
(* to read is left out.                                                    *)
(***************************************************************************)
EXTENDS Integers, Sequences, SequencesExt, FiniteSetsExt

CONSTANTS
    Evidence,        \* what campaigns may start from, each by a name
    Untargeted,      \* a nil Target: the optimizer chooses
    MaxCauseSites,   \* hot functions classified in a cycle
    MaxCampaigns,    \* bound: campaigns of the repository
    MaxAttempts      \* bound: attempts of all of them together

VARIABLES
    campaigns,   \* every campaign of the repository, the last one running
    cycle        \* the running cycle: its analysis and its target

targetVars == <<campaigns, cycle>>

-----------------------------------------------------------------------------
(* --- Lists in an order ------------------------------------------------------- *)
(* The members of S, each behind those that are ahead of it.               *)
InOrder(S, ahead) ==
    [k \in 1 .. Cardinality(S) |->
        CHOOSE x \in S : Cardinality({y \in S : <<y, x>> \in ahead}) = k - 1]

Increasing(S) == InOrder(S, {p \in S \X S : p[1] < p[2]})

(* What is left of a list when only the members of P are kept.             *)
Only(list, P) ==
    LET at == Increasing({i \in DOMAIN list : list[i] \in P})
    IN  [k \in DOMAIN at |-> list[at[k]]]

FirstOf(n, list) == [k \in {j \in DOMAIN list : j <= n} |-> list[k]]

-----------------------------------------------------------------------------
(* --- Jev's causes ----------------------------------------------------------- *)
CauseOrder == <<"alloc", "unbuffered_io", "string_build", "fast_path",
                "superlinear", "prealloc", "redundant">>
IsAllocation(c) == c \in {"alloc", "prealloc", "string_build"}
Deferred(c) == c = "fast_path"

FlagThreshold == 2
MaxFlagged == 2
KindGate == 1

(* The kinds Jev chooses among; the pairs of fast_path and redundant are   *)
(* asked and never chosen.                                                 *)
KindsOf == [alloc        |-> {"al_conversion", "al_stack_scratch", "al_size_hint"},
            string_build |-> {"sb_builder", "sb_drop_fmt"}]
HasKinds(c) == c \in DOMAIN KindsOf

Precedes(z, c, d) ==
    LET asked(x) == SelectInSeq(CauseOrder, LAMBDA y : y = x)
    IN  z[c] > z[d] \/ (z[c] = z[d] /\ asked(c) < asked(d))

Rank(causes, z) == InOrder(causes, {p \in causes \X causes : Precedes(z, p[1], p[2])})

(* codeVetoes: nothing in the function can be what the cause is about.     *)
Vetoed(f, c) == c \in f.absent

(* Flag, as flagWithVetoes calls it: the causes that stand out, that Jev   *)
(* says yes to and that are not vetoed; at most MaxFlagged, by z, besides  *)
(* a deferred one.                                                         *)
Cleared(f) ==
    {c \in Range(CauseOrder) : f.z[c] >= FlagThreshold /\ c \in f.yes /\ ~Vetoed(f, c)}

Primary(f) == FirstOf(MaxFlagged, Rank({c \in Cleared(f) : ~Deferred(c)}, f.z))

(* ChooseKind: the kind ahead of every other by the gate.                  *)
ChooseKind(f, c) ==
    LET leads == {k \in KindsOf[c] :
                    /\ f.kinds[k] >= 0
                    /\ \A l \in KindsOf[c] \ {k} : f.kinds[k] - f.kinds[l] >= KindGate}
    IN  IF leads = {} THEN "generic" ELSE CHOOSE k \in leads : TRUE

(* chooseKinds: an answer that is missing leaves the generic remedy.       *)
FixKind(f, c) ==
    IF HasKinds(c) /\ KindsOf[c] \subseteq DOMAIN f.kinds THEN ChooseKind(f, c)
    ELSE "generic"

-----------------------------------------------------------------------------
(* --- The analysis ------------------------------------------------------------- *)
Classifiable(e, loc) == loc \in DOMAIN e.at /\ e.at[loc].fits

(* hotFunctions: each function once, by its hottest position.              *)
HotFunctions(e) ==
    LET hottest(k) ==
            /\ Classifiable(e, e.hot[k])
            /\ \A j \in 1 .. k - 1 :
                  Classifiable(e, e.hot[j]) =>
                      e.at[e.hot[j]].declaration # e.at[e.hot[k]].declaration
        at == FirstOf(MaxCauseSites, Increasing({k \in DOMAIN e.hot : hottest(k)}))
    IN  [n \in DOMAIN at |-> e.hot[at[n]]]

Target(loc, cause, kind) == [location |-> loc, cause |-> cause, kind |-> kind]
SiteTarget(e, loc, c) == Target(loc, c, FixKind(e.at[loc], c))

(* The flags of a rank: one that is not deferred, or the deferred ones.    *)
TierFlags(f, rank) ==
    IF rank = MaxFlagged THEN {c \in Cleared(f) : Deferred(c)}
    ELSE {Primary(f)[k] : k \in {rank + 1} \cap DOMAIN Primary(f)}

(* A place in a tier: the site's position i in the hot list and its cause. *)
(* A tier's causes clear FlagThreshold, so z / sqrt(i) may be compared by  *)
(* its square; places of equal weight keep their order.                    *)
CompareRanked(e, sites, a, b) ==
    LET z(p) == e.at[sites[p.i]].z[p.cause]
        wa == z(a) * z(a) * b.i
        wb == z(b) * z(b) * a.i
    IN  IF e.memory /\ IsAllocation(a.cause) # IsAllocation(b.cause)
        THEN IsAllocation(a.cause)
        ELSE wa > wb \/ (wa = wb /\ a.i < b.i)

RankTier(e, sites, failed, rank) ==
    LET tier == {p \in [i : DOMAIN sites, cause : Range(CauseOrder)] :
                    /\ sites[p.i] \notin failed
                    /\ p.cause \in TierFlags(e.at[sites[p.i]], rank)}
    IN  InOrder(tier, {p \in tier \X tier : CompareRanked(e, sites, p[1], p[2])})

(* Every rank's tier, and then the deferred causes (rank MaxFlagged).      *)
JevTargets(e, sites, failed) ==
    LET tier(rank) == RankTier(e, sites, failed, rank)
        tiers == tier(0) \o tier(1) \o tier(MaxFlagged)
    IN  [k \in DOMAIN tiers |-> SiteTarget(e, sites[tiers[k].i], tiers[k].cause)]

(* throwawayTargets: by the number of consuming callers, then by hotness.  *)
ThrowawayTargets(e, sites) ==
    LET consumers(i) == e.at[sites[i]].consumers
        more(i, j) == \/ consumers(i) > consumers(j)
                      \/ consumers(i) = consumers(j) /\ i < j
        hits == {i \in DOMAIN sites : consumers(i) > 0}
        ordered == InOrder(hits, {p \in hits \X hits : more(p[1], p[2])})
    IN  [k \in DOMAIN ordered |-> Target(sites[ordered[k]], "throwaway_result", "generic")]

(* unbufferedWriteTarget: no limit on the function's size.                 *)
WriteTargets(e) ==
    LET resolved == Only(e.writes, DOMAIN e.at)
    IN  [k \in DOMAIN resolved |-> Target(resolved[k], "unbuffered_writes", "generic")]

WritesCover(e, t) ==
    t.cause = "unbuffered_io" /\ \E w \in Range(WriteTargets(e)) : w.location = t.location

(* AnalyzeCauses: nothing without a function to classify, an error without *)
(* one classified.                                                         *)
Analysis(e, failed) ==
    LET sites == HotFunctions(e)
        ranked == ThrowawayTargets(e, sites) \o JevTargets(e, sites, failed)
    IN  IF Range(sites) \subseteq failed THEN <<>>
        ELSE WriteTargets(e) \o Only(ranked, {t \in Range(ranked) : ~WritesCover(e, t)})

(* What is known of a function, and an evidence.                           *)
IsFunction(f) == f.z \in [Range(CauseOrder) -> Int] /\ f.consumers \in Nat

IsEvidence(e) ==
    /\ e.hot \in Seq(Range(e.hot)) /\ e.writes \in Seq(Range(e.writes))
    /\ e.memory \in BOOLEAN
    /\ \A loc \in DOMAIN e.at : IsFunction(e.at[loc])

Locations == UNION {DOMAIN Evidence[name].at : name \in DOMAIN Evidence}

Causes == Range(CauseOrder) \cup {"throwaway_result", "unbuffered_writes"}
FixKinds == {"generic"} \cup UNION {KindsOf[c] : c \in DOMAIN KindsOf}

Targets == [location : Locations, cause : Causes, kind : FixKinds]

ASSUME CauseTargetsAssumption ==
    /\ \A name \in DOMAIN Evidence : IsEvidence(Evidence[name])
    /\ Untargeted \notin Targets
    /\ MaxCauseSites \in Nat /\ MaxCampaigns \in Nat /\ MaxAttempts \in Nat

-----------------------------------------------------------------------------
(* --- Campaigns, their cycles and their history --------------------------------- *)
TargetKey(t) == <<t.location, t.cause>>

(* How an attempt ends: accepted, compared with the baseline, failed (its  *)
(* tests, or a series before any comparison), or refused unmeasured.       *)
Outcomes == {"accepted", "compared", "failed", "unmeasured"}

(* Fault: only what was accepted counts as measured.                       *)
FaultIsMeasured(r) == r.outcome = "accepted"

(* isMeasured: accepted, or compared with the baseline at all.             *)
IsMeasured(r) == r.outcome \in {"accepted", "compared"}

MeasuredTargets(records) ==
    {TargetKey(r.target) : r \in {s \in Range(records) :
                                    s.target # Untargeted /\ IsMeasured(s)}}

(* loadHistory: another revision's campaign contributes nothing.           *)
LoadHistory(dirs, revision) ==
    UNION {MeasuredTargets(campaigns[d].records) :
              d \in {x \in dirs : Evidence[campaigns[x].from].revision = revision}}

Latest == campaigns[Len(campaigns)]
Found == Evidence[Latest.from]

Attempts == MapThenSumSet(LAMBDA d : Len(campaigns[d].records), DOMAIN campaigns)

NoCycle == [at |-> "none", failed |-> {}, target |-> Untargeted]

Campaign(name, dirs) ==
    [from |-> name, dirs |-> dirs, history |-> LoadHistory(dirs, Evidence[name].revision),
     classified |-> {}, records |-> <<>>]

TargetsInit == campaigns = <<>> /\ cycle = NoCycle

(* New with --history: LoadReport reads any campaign, however it ended.    *)
CreateCampaign ==
    /\ cycle.at = "none" /\ Len(campaigns) < MaxCampaigns
    /\ \E name \in DOMAIN Evidence, dirs \in SUBSET DOMAIN campaigns :
          campaigns' = Append(campaigns, Campaign(name, dirs))
    /\ UNCHANGED cycle

MaxUnmeasured == 2

AttemptsOn(c, key) ==
    {k \in DOMAIN c.records :
        c.records[k].target # Untargeted /\ TargetKey(c.records[k].target) = key}

(* triedTargets, over the records the cycle's ledger is made from: within  *)
(* a campaign a failed attempt closes its target too.                      *)
Tried(c, key) ==
    LET attempts == AttemptsOn(c, key)
        refused == {k \in attempts : c.records[k].outcome = "unmeasured"}
    IN  key \in c.history \/ attempts # refused \/ Cardinality(refused) >= MaxUnmeasured

PlannedTarget(ranking, c) ==
    LET first == SelectInSeq(ranking, LAMBDA t : ~Tried(c, TargetKey(t)))
    IN  IF first = 0 THEN Untargeted ELSE ranking[first]

(* The analyst and merge_analysis: a function that was classified once is  *)
(* answered from the cache, any other may fail again.  An analyst that     *)
(* failed leaves an analysis without targets.                              *)
PlanCycle ==
    /\ campaigns # <<>> /\ cycle.at = "none" /\ Attempts < MaxAttempts
    /\ LET sites == Range(HotFunctions(Found)) IN
       \E failed \in SUBSET (sites \ Latest.classified) :
          /\ cycle' = [at     |-> "attack",
                       failed |-> failed,
                       target |-> PlannedTarget(Analysis(Found, failed), Latest)]
          /\ campaigns' = [campaigns EXCEPT ![Len(campaigns)].classified = sites \ failed]

(* The verdict of the attempt, recorded with its target.                   *)
RecordAttempt ==
    /\ cycle.at = "attack"
    /\ \E outcome \in Outcomes :
          campaigns' = [campaigns EXCEPT ![Len(campaigns)].records =
                          Append(@, [target |-> cycle.target, outcome |-> outcome])]
    /\ cycle' = NoCycle

TargetsNext == CreateCampaign \/ PlanCycle \/ RecordAttempt

TargetsSpec == TargetsInit /\ [][TargetsNext]_targetVars

-----------------------------------------------------------------------------
(* --- What an attack promises ----------------------------------------------------- *)
(* Whether an attempt said something about the target already: one of this *)
(* campaign that was judged, or one measured at the same revision in a     *)
(* campaign of its history.                                                *)
Answered(key) ==
    \E d \in Latest.dirs \cup {Len(campaigns)} :
        /\ Evidence[campaigns[d].from].revision = Found.revision
        /\ \E r \in Range(campaigns[d].records) :
              /\ r.target # Untargeted /\ TargetKey(r.target) = key
              /\ r.outcome \in {"accepted", "compared"}
                   \/ (d = Len(campaigns) /\ r.outcome = "failed")

RefusedTwice(key) ==
    \E k, l \in DOMAIN Latest.records :
        k # l /\ \A x \in {k, l} :
            LET r == Latest.records[x]
            IN  /\ r.target # Untargeted /\ TargetKey(r.target) = key
                /\ r.outcome = "unmeasured"

Open(key) == ~Answered(key) /\ ~RefusedTwice(key)

StandsOut(f, c) == f.z[c] >= FlagThreshold /\ c \in f.yes /\ c \notin f.absent

Stronger(f, c) ==
    {d \in Range(CauseOrder) : StandsOut(f, d) /\ ~Deferred(d) /\ Precedes(f.z, d, c)}

Place(f, c) == IF Deferred(c) THEN MaxFlagged ELSE Cardinality(Stronger(f, c))

(* The causes of the classified functions that are owed an attempt.        *)
Owed ==
    LET e == Found
        sites == Range(HotFunctions(e)) \ cycle.failed
    IN  {key \in sites \X Range(CauseOrder) :
            /\ StandsOut(e.at[key[1]], key[2])
            /\ Deferred(key[2]) \/ Place(e.at[key[1]], key[2]) < MaxFlagged
            /\ key[2] = "unbuffered_io" => key[1] \notin Range(e.writes)
            /\ Open(key)}

(* u may not be left waiting for t.                                        *)
GoesBefore(u, t) ==
    LET e == Found
        f(key) == e.at[key[1]]
        hot(key) == SelectInSeq(HotFunctions(e), LAMBDA s : s = key[1])
        weight(key) == f(key).z[key[2]] * f(key).z[key[2]]
    IN  \/ Place(f(u), u[2]) < Place(f(t), t[2])
        \/ /\ Place(f(u), u[2]) = Place(f(t), t[2])
           /\ IF e.memory /\ IsAllocation(u[2]) # IsAllocation(t[2])
              THEN IsAllocation(u[2])
              ELSE weight(u) * hot(t) > weight(t) * hot(u)

(***************************************************************************)
(* Whatever campaigns came before, whatever Jev failed to answer and       *)
(* however earlier attempts ended, a cycle attacks a target nothing has    *)
(* answered yet, and leaves no better founded one waiting: a cause Jev     *)
(* says yes to that code does not rule out gets its turn, by the order the *)
(* evidence gives it, and the optimizer chooses for itself only when none  *)
(* is owed (Flag, flagWithVetoes, targets, loadHistory, triedTargets).     *)
(***************************************************************************)
AttacksWhatIsOwed ==
    cycle.at = "attack" /\ Range(HotFunctions(Found)) \ cycle.failed # {} =>
        IF cycle.target = Untargeted THEN Owed = {}
        ELSE LET t == TargetKey(cycle.target) IN
             /\ Open(t)
             /\ t[2] \in Range(CauseOrder) =>
                  t \in Owed /\ \A u \in Owed : ~GoesBefore(u, t)

=============================================================================
