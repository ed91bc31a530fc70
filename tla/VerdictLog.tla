----------------------------- MODULE VerdictLog -----------------------------
(***************************************************************************)
(* What a campaign promises its operator, whatever happens to the          *)
(* processes and the store underneath: one append-only log of verdicts.    *)
(* A verdict is only ever added while no bound is met by the verdicts      *)
(* already in the log, for a target the log leaves open, under the next    *)
(* attempt number; a campaign is only ever reported complete for a reason  *)
(* that the log itself supports.                                           *)
(***************************************************************************)
EXTENDS Ledger

CONSTANTS Rankings, FreeChoice

VARIABLES
    log,        \* the verdicts recorded so far
    concluded   \* why the campaign is complete, "none" while it is not

logVars == <<log, concluded>>

OpenTargets ==
    (Targets \ TriedTargets(log)) \cup (IF FreeChoice THEN {NoTarget} ELSE {})

(* An analysis that flagged something, all of which the log closes.        *)
SomeRankingExhausted ==
    \E ranking \in Rankings : ranking # <<>> /\ Untried(ranking, log) = {}

Supported(reason) ==
    \/ reason \in BoundReasons /\ reason = StopReason(TalliesOf(log))
    \/ reason = "ranking_exhausted" /\ ~FreeChoice /\ SomeRankingExhausted
    \/ reason = "nothing_flagged" /\ ~FreeChoice

Judge ==
    /\ concluded = "none"
    /\ StopReason(TalliesOf(log)) = "none"
    /\ \E decision \in Decisions, target \in OpenTargets, unmeasured \in BOOLEAN :
          log' = Append(log, [ attempt    |-> Len(log) + 1,
                               decision   |-> decision,
                               target     |-> target,
                               unmeasured |-> unmeasured ])
    /\ UNCHANGED concluded

Conclude ==
    /\ concluded = "none"
    /\ \E reason \in BoundReasons \cup {"ranking_exhausted", "nothing_flagged"} :
          Supported(reason) /\ concluded' = reason
    /\ UNCHANGED log

(* A run whose last report could not be written takes its completion back. *)
Reopen ==
    /\ concluded # "none"
    /\ concluded' = "none"
    /\ UNCHANGED log

Init == log = <<>> /\ concluded = "none"

Next == Judge \/ Conclude \/ Reopen

Spec == Init /\ [][Next]_logVars

=============================================================================
