---------------------------- MODULE JevQuestions ----------------------------
(***************************************************************************)
(* The questions a campaign asks of Jev (internal/jev/client.go and        *)
(* internal/campaign/causes.go, jevcache.go, jevanswers.go, store.go): one *)
(* request per hot function, answered from the campaign's cache, from the  *)
(* record all campaigns share, or by Jev.  A process pins one build of     *)
(* Jev; a later one may pin another.  What Jev is paid reaches the report  *)
(* by way of the process's collector and the saves of engine.go and adk.go.*)
(***************************************************************************)
EXTENDS Integers

CONSTANTS
    Sites,          \* hot functions, the states asked about
    Questions,      \* the ids of the questions asked about each
    Builds,         \* the builds of Jev a gotorque may pin
    Retries,        \* the retries of a throttled request
    MaxAsks,        \* bound: questions asked
    MaxProcesses    \* bound: processes started

ASSUME JevAssumption ==
    /\ Retries \in Nat /\ MaxAsks \in Nat /\ MaxProcesses \in Nat

VARIABLES
    store,      \* digest -> response: the cache of this campaign, the record
    client,     \* the process: its pinned build, and whether it has the record
    call,       \* the request under way, or NoCall
    counts,     \* the process: its collector, what it builds on, e.state
    saved,      \* the counts of e.state as the campaign's store has them
    bill,       \* history: what was asked, and what became of each charge
    verdict     \* what the last classification of a site came to

jevVars == <<store, client, call, counts, saved, bill, verdict>>

Unknown == ""
NoCall == [site |-> Unknown]
Empty == [d \in {} |-> 0]
NoCounts == [usage |-> 0, hits |-> 0, shared |-> 0, misses |-> 0]

(* What a post may return: a model or a provider may be missing, and so    *)
(* may answers.                                                            *)
Responses ==
    [model : Builds \cup {Unknown}, provider : {"TypeSafe", "other"},
     answered : SUBSET Questions, usage : {0, 1}]

JevInit ==
    /\ store = [cache |-> Empty, record |-> Empty]
    /\ client = [phase |-> "down"]
    /\ call = NoCall
    /\ counts = [baseline |-> 0, collected |-> 0, state |-> NoCounts]
    /\ saved = NoCounts
    /\ bill = [asked |-> 0, processes |-> 0, charged |-> 0, unheard |-> 0,
               unsaved |-> 0, lost |-> 0]
    /\ verdict = [site |-> Unknown]

-----------------------------------------------------------------------------
(* --- The process and its accounts ----------------------------------------- *)
(* Past the preflight a campaign begins or is resumed, with or without the *)
(* shared record; campaign_started takes the usage found as the baseline.  *)
StartClient ==
    /\ client.phase = "down" /\ bill.processes < MaxProcesses
    /\ \E build \in Builds, shares, fresh \in BOOLEAN :
          LET found == IF fresh THEN NoCounts ELSE saved IN
          /\ client' = [phase |-> "running", build |-> build, shares |-> shares]
          /\ store' = IF fresh THEN [store EXCEPT !.cache = Empty] ELSE store
          /\ counts' = [baseline |-> found.usage, collected |-> 0, state |-> found]
          /\ saved' = found
          /\ bill' = [asked |-> bill.asked, processes |-> bill.processes + 1,
                      charged |-> IF fresh THEN 0 ELSE bill.charged,
                      unheard |-> IF fresh THEN 0 ELSE bill.unheard,
                      unsaved |-> 0, lost |-> IF fresh THEN 0 ELSE bill.lost]
    /\ UNCHANGED <<call, verdict>>

(* Fault: the collector's total is added to the last sum, not the baseline.*)
FaultRecordTokenUsage(m) == [m EXCEPT !.state.usage = @ + m.collected]

(* The collector's total is of this process, on top of what it found.      *)
RecordTokenUsage(m) == [m EXCEPT !.state.usage = m.baseline + m.collected]

(* The store takes e.state as it is now, or the save is refused.           *)
SaveCounts(refused) ==
    \/ saved' = RecordTokenUsage(counts).state /\ bill' = [bill EXCEPT !.unsaved = 0]
    \/ saved' = saved /\ bill' = refused

Between == client.phase = "running" /\ call = NoCall

SaveEvent ==
    /\ Between /\ SaveCounts(bill)
    /\ counts' = RecordTokenUsage(counts)
    /\ UNCHANGED <<store, client, call, verdict>>

(* What no save has is gone with the process.                              *)
Gone ==
    /\ client' = [phase |-> "down"] /\ call' = NoCall
    /\ counts' = [baseline |-> 0, collected |-> 0, state |-> NoCounts]
    /\ verdict' = [site |-> Unknown]
    /\ UNCHANGED store

Losing(b) == [b EXCEPT !.lost = @ + b.unsaved, !.unsaved = 0]

(* The run ends: campaign_completed or campaign_stopped, saved or refused. *)
CloseClient ==
    /\ Between /\ Gone /\ SaveCounts(Losing(bill))

-----------------------------------------------------------------------------
(* --- One classification --------------------------------------------------- *)
(* Fault: the key leaves the build out.                                    *)
FaultDigest(build, site) == [build |-> Unknown, site |-> site]

(* cachingEvaluator puts the pinned build into the request before keying.  *)
Digest(build, site) == [build |-> build, site |-> site]

Put(map, digest, resp) ==
    [d \in DOMAIN map \cup {digest} |-> IF d = digest THEN resp ELSE map[d]]

(* A replayed answer was paid for when it was asked.                       *)
WithNoUsage(resp) == [resp EXCEPT !.usage = 0]

(* jev.Rank refuses an incomplete answer, whatever it cost; recordUsage    *)
(* counts an answer that carries usage.                                    *)
SiteAnswered(site, resp) ==
    /\ verdict' = [site |-> site, build |-> client.build, resp |-> resp,
                   problem |-> resp.answered # Questions]
    /\ call' = NoCall

Counted(m, resp, from) ==
    [m EXCEPT !.collected = @ + resp.usage, !.state[from] = @ + 1]

Ask ==
    /\ Between /\ bill.asked < MaxAsks
    /\ \E site \in Sites : call' = [site |-> site, attempt |-> 0, sent |-> FALSE]
    /\ bill' = [bill EXCEPT !.asked = @ + 1]
    /\ UNCHANGED <<store, client, counts, saved, verdict>>

Asking == call # NoCall /\ ~call.sent
Key == Digest(client.build, call.site)

AnswerFromCache ==
    /\ Asking /\ Key \in DOMAIN store.cache
    /\ LET resp == WithNoUsage(store.cache[Key]) IN
       /\ SiteAnswered(call.site, resp)
       /\ counts' = Counted(counts, resp, "hits")
    /\ UNCHANGED <<store, client, saved, bill>>

(* The record's answer fills the campaign's cache, if it can be written.   *)
AnswerFromRecord ==
    /\ Asking /\ Key \notin DOMAIN store.cache
    /\ client.shares /\ Key \in DOMAIN store.record
    /\ LET resp == WithNoUsage(store.record[Key]) IN
       /\ SiteAnswered(call.site, resp)
       /\ counts' = Counted(counts, resp, "shared")
    /\ store' \in {store, [store EXCEPT !.cache = Put(@, Key, store.record[Key])]}
    /\ UNCHANGED <<client, saved, bill>>

(* Neither holds the answer, or neither can be read.                       *)
Send ==
    /\ Asking
    /\ call' = [call EXCEPT !.sent = TRUE]
    /\ UNCHANGED <<store, client, counts, saved, bill, verdict>>

Posting == call # NoCall /\ call.sent

(* checkBuildAndProvider passes what names no build.                       *)
Accepted(resp) ==
    resp.model \in {Unknown, client.build} /\ resp.provider \in {Unknown, "TypeSafe"}

Paid(b, cost) == [b EXCEPT !.charged = @ + cost, !.unsaved = @ + cost]

JevAnswers ==
    /\ Posting
    /\ \E resp \in Responses :
          /\ Accepted(resp)
          /\ SiteAnswered(call.site, resp)
          /\ counts' = Counted(counts, resp, "misses")
          /\ bill' = Paid(bill, resp.usage)
          /\ \E cache \in {store.cache, Put(store.cache, Key, resp)},
                record \in {store.record} \cup
                           (IF client.shares THEN {Put(store.record, Key, resp)} ELSE {}) :
                store' = [cache |-> cache, record |-> record]
    /\ UNCHANGED <<client, saved>>

(* Jev is paid for an answer this process does not take.                   *)
Unheard(b, cost) == [b EXCEPT !.charged = @ + cost, !.unheard = @ + cost]

(* The error goes back to the analyst and into no store.                   *)
SiteFailed ==
    /\ verdict' = [site |-> call.site, problem |-> TRUE]
    /\ call' = NoCall

(* An HTTP 200 answer of another build or provider.                        *)
AnswerRefused ==
    /\ Posting
    /\ \E resp \in Responses : ~Accepted(resp) /\ bill' = Unheard(bill, resp.usage)
    /\ SiteFailed
    /\ UNCHANGED <<store, client, counts, saved>>

(* HTTP 429 and 5xx, a request that never came back and an answer cut off: *)
(* Jev may have charged for either of the last two.                        *)
Throttled ==
    /\ Posting /\ call.attempt < Retries
    /\ call' = [call EXCEPT !.attempt = @ + 1]
    /\ \E cost \in {0, 1} : bill' = Unheard(bill, cost)
    /\ UNCHANGED <<store, client, counts, saved, verdict>>

(* The ladder is spent, the caller left, another status, or no answer can  *)
(* be made of what came.                                                   *)
JevFails ==
    /\ Posting
    /\ SiteFailed
    /\ \E cost \in {0, 1} : bill' = Unheard(bill, cost)
    /\ UNCHANGED <<store, client, counts, saved>>

(* At any time, a request under way or not.                                *)
KillClient ==
    /\ client.phase = "running" /\ Gone
    /\ \E cost \in IF Posting THEN {0, 1} ELSE {0} :
          bill' = Losing(Unheard(bill, cost))
    /\ UNCHANGED saved

JevNext ==
    \/ StartClient \/ SaveEvent \/ CloseClient \/ KillClient
    \/ Ask \/ AnswerFromCache \/ AnswerFromRecord \/ Send
    \/ JevAnswers \/ AnswerRefused \/ Throttled \/ JevFails

JevSpec == JevInit /\ [][JevNext]_jevVars

-----------------------------------------------------------------------------
(***************************************************************************)
(* A classification never rests on an answer of a build other than the one *)
(* this process pins, in whatever campaign and under whatever gotorque it  *)
(* was given (Digest, checkBuildAndProvider).  An answer that names no     *)
(* build is of the build that was pinned when it was asked for.            *)
(***************************************************************************)
AnswerIsOfThisBuild ==
    verdict.site # Unknown /\ "resp" \in DOMAIN verdict =>
        verdict.resp.model \in {Unknown, verdict.build}

(***************************************************************************)
(* The usage a campaign has on record, over every process it was run by,   *)
(* is what Jev was paid for: nothing is counted twice, neither an answer   *)
(* replayed from a store (withNoUsage) nor what an earlier process or an   *)
(* earlier save recorded (recordTokenUsage); and what is missing is only   *)
(* what was paid for and never taken, what the running process has not     *)
(* saved, and what died with one before its next save.                     *)
(***************************************************************************)
UsageIsWhatWasPaid ==
    saved.usage + bill.unsaved + bill.lost + bill.unheard = bill.charged

(***************************************************************************)
(* store.go:120 and jevcache.go:47: a failed or partial response is never  *)
(* cached.                                                                 *)
(***************************************************************************)
PartialAnswerIsNeverCached ==
    \A d \in DOMAIN store.cache : store.cache[d].answered = Questions

=============================================================================
