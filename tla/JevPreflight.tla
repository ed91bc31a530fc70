---------------------------- MODULE JevPreflight ----------------------------
(***************************************************************************)
(* The preflight of a campaign (internal/jev/client.go, canary.go): the    *)
(* canary questions, asked twice more when an answer moved, and the        *)
(* decision whether a campaign may start.                                  *)
(***************************************************************************)
EXTENDS Integers, Sequences, FiniteSets

CONSTANTS
    CanaryQuestions,  \* the ids of the canary questions
    Moves,            \* how far an answer is from the recorded one
    Tolerance,        \* how far it may be
    AllowDrift        \* GOTORQUE_JEV_ALLOW_DRIFT

ASSUME PreflightAssumption ==
    Moves \subseteq Int /\ Tolerance \in Nat /\ AllowDrift \in BOOLEAN

VARIABLE preflight  \* its phase and the samples so far

PreflightInit == preflight = [phase |-> "asking", samples |-> <<>>]

(* A sample holds the questions it answered, at least one.                 *)
Samples == UNION {[qs -> Moves] : qs \in (SUBSET CanaryQuestions) \ {{}}}

Moved(move) == move > Tolerance \/ -move > Tolerance

CanaryDrift(sample) ==
    {q \in CanaryQuestions : q \in DOMAIN sample => Moved(sample[q])}

(* Fault: the largest sample decides.                                      *)
FaultMedian(moves) ==
    CHOOSE m \in {moves[i] : i \in DOMAIN moves} : \A i \in DOMAIN moves : moves[i] <= m

(* The middle one of the samples in ascending order, the upper of two.     *)
Median(moves) ==
    LET n == Cardinality(DOMAIN moves)
    IN  CHOOSE m \in {moves[i] : i \in DOMAIN moves} :
           /\ Cardinality({i \in DOMAIN moves : moves[i] < m}) <= n \div 2
           /\ Cardinality({i \in DOMAIN moves : moves[i] <= m}) > n \div 2

(* Only what the first sample answered has a median.                       *)
MedianAnswers(samples) ==
    [q \in DOMAIN samples[1] |->
        Median([i \in {j \in DOMAIN samples : q \in DOMAIN samples[j]} |-> samples[i][q]])]

CanaryConfirmations == 2

AskCanary ==
    /\ preflight.phase = "asking"
    /\ \/ preflight.samples = <<>>
       \/ /\ Len(preflight.samples) \in 1 .. CanaryConfirmations
          /\ CanaryDrift(preflight.samples[1]) # {}
    /\ \E sample \in Samples : preflight' = [preflight EXCEPT !.samples = Append(@, sample)]

(* No answer at all, an unreachable provider or another build.             *)
CanaryFails ==
    /\ preflight.phase = "asking"
    /\ preflight' = [preflight EXCEPT !.phase = "failed"]

Steady(samples) ==
    \/ Len(samples) = 1 /\ CanaryDrift(samples[1]) = {}
    \/ Len(samples) = 1 + CanaryConfirmations
       /\ (AllowDrift \/ CanaryDrift(MedianAnswers(samples)) = {})

DecideCanary ==
    /\ preflight.phase = "asking" /\ preflight.samples # <<>>
    /\ Len(preflight.samples) = 1 => CanaryDrift(preflight.samples[1]) = {}
    /\ Len(preflight.samples) \in {1, 1 + CanaryConfirmations}
    /\ preflight' = IF Steady(preflight.samples)
                 THEN [preflight EXCEPT !.phase = "started"]
                 ELSE [preflight EXCEPT !.phase = "refused"]

PreflightNext == AskCanary \/ CanaryFails \/ DecideCanary

PreflightSpec == PreflightInit /\ [][PreflightNext]_preflight

-----------------------------------------------------------------------------
(***************************************************************************)
(* When every canary question was answered, a campaign is refused exactly  *)
(* if two of three samples moved the same way for one question: a single   *)
(* outlier never refuses it, and a model that moved is never let through   *)
(* (Preflight, confirmCanary, medianAnswers).                              *)
(***************************************************************************)
MovedTwice(samples, q) ==
    \/ Cardinality({i \in DOMAIN samples : samples[i][q] > Tolerance}) >= 2
    \/ Cardinality({i \in DOMAIN samples : -samples[i][q] > Tolerance}) >= 2

OneOutlierDecidesNothing ==
    [][ LET samples == preflight.samples
            decided == /\ preflight.phase = "asking" /\ samples # <<>>
                       /\ Len(samples) \in {1, 3}
                       /\ \A i \in DOMAIN samples : \A q \in CanaryQuestions : q \in DOMAIN samples[i]
            moved == \E q \in CanaryQuestions : MovedTwice(samples, q)
        IN  /\ decided /\ preflight'.phase = "started" => AllowDrift \/ ~moved
            /\ decided /\ preflight'.phase = "refused" => moved
      ]_preflight

=============================================================================
