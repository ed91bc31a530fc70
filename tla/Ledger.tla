------------------------------- MODULE Ledger -------------------------------
(***************************************************************************)
(* The pure half of a campaign's control: the ledger of judged candidates  *)
(* (internal/orchestrator/ledger.go), the counters the stop bounds read    *)
(* from it, the targets it closes (triedTargets, nextTarget), and the      *)
(* bounds themselves (termination.go).  There is no state here, so the     *)
(* campaign, its abstract promise and the proofs all share one reading of  *)
(* the code.                                                               *)
(*                                                                         *)
(* An entry is a PriorCandidate: the attempt number, the decision, the     *)
(* target code chose (NoTarget when the optimizer had free choice) and     *)
(* whether the candidate was rejected before it was measured.              *)
(***************************************************************************)
EXTENDS Integers, Sequences, FiniteSets

CONSTANTS
    Targets,                    \* the (location, cause) pairs an analysis can flag
    NoTarget,                   \* a nil Target: the optimizer chooses
    PriorTargets,               \* targets --history already measured
    MaxCandidates,              \* the campaign's candidate budget
    MaxConsecutiveFailures,     \* stop_after_failures
    MaxConsecutiveInconclusive  \* stop_after_inconclusive, 0 when not configured

ASSUME TargetsAssumption == NoTarget \notin Targets /\ PriorTargets \subseteq Targets

(* Config.validate refuses bounds below one; the inconclusive bound may be *)
(* zero, which folds unresolved verdicts into the failure streak.          *)
ASSUME BoundsAssumption ==
    /\ MaxCandidates \in Nat \ {0}
    /\ MaxConsecutiveFailures \in Nat \ {0}
    /\ MaxConsecutiveInconclusive \in Nat

Decisions == {"accepted", "rejected", "inconclusive"}

PriorCandidate == [ attempt    : Nat,
                    decision   : Decisions,
                    target     : Targets \cup {NoTarget},
                    unmeasured : BOOLEAN ]

SeparateBound == MaxConsecutiveInconclusive > 0

-----------------------------------------------------------------------------
(* Tallies.                                                                *)

Tallies == [tried : Nat, failures : Nat, inconclusive : Nat]

NoTallies == [tried |-> 0, failures |-> 0, inconclusive |-> 0]

After(t, decision) ==
    [ tried        |-> t.tried,
      failures     |-> CASE decision = "accepted" -> 0
                         [] decision = "rejected" -> t.failures + 1
                         [] OTHER -> IF SeparateBound THEN t.failures ELSE t.failures + 1,
      inconclusive |-> IF decision = "inconclusive" THEN t.inconclusive + 1 ELSE 0 ]

(* One more entry: the highest attempt, never a count, then the streaks.   *)
Counting(t, entry) ==
    After([t EXCEPT !.tried = IF entry.attempt > t.tried THEN entry.attempt ELSE t.tried],
          entry.decision)

(* TalliesOf(ledger) folds Counting over the ledger.  The fold is written  *)
(* as a function on all of Nat so that its defining equation does not      *)
(* depend on the ledger's length.                                          *)
TalliesUpTo(ledger) ==
    LET upTo[n \in Nat] ==
          IF n = 0 THEN NoTallies
          ELSE IF n > Len(ledger) THEN upTo[n-1]
          ELSE Counting(upTo[n-1], ledger[n])
    IN  upTo

TalliesOf(ledger) == TalliesUpTo(ledger)[Len(ledger)]

-----------------------------------------------------------------------------
(* Targets.                                                                *)

MaxUnmeasuredAttempts == 2

AttemptsOn(ledger, t) == {i \in DOMAIN ledger : ledger[i].target = t}

(* A target is closed by one attempt that said something about it, or by   *)
(* the second attempt that was refused before measurement.                 *)
TriedTargets(ledger) ==
    PriorTargets \cup
    {t \in Targets :
        LET attempts == AttemptsOn(ledger, t)
        IN  \/ \E i \in attempts : ~ledger[i].unmeasured
            \/ Cardinality({i \in attempts : ledger[i].unmeasured}) >= MaxUnmeasuredAttempts}

Untried(ranking, ledger) ==
    {i \in DOMAIN ranking : ranking[i] \notin TriedTargets(ledger)}

NextTarget(ranking, ledger) ==
    LET open == Untried(ranking, ledger)
    IN  IF open = {} THEN NoTarget
        ELSE ranking[CHOOSE i \in open : \A j \in open : i <= j]

-----------------------------------------------------------------------------
(* Bounds.                                                                 *)

BoundReasons == {"max_candidates", "consecutive_inconclusive", "consecutive_failures"}

ConsecutiveBound(t) ==
    IF SeparateBound /\ t.inconclusive >= MaxConsecutiveInconclusive
    THEN "consecutive_inconclusive"
    ELSE IF t.failures >= MaxConsecutiveFailures
    THEN "consecutive_failures"
    ELSE "none"

StopReason(t) ==
    IF t.tried >= MaxCandidates THEN "max_candidates" ELSE ConsecutiveBound(t)

=============================================================================
