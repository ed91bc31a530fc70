----------------------------- MODULE OneAnswer ------------------------------
(***************************************************************************)
(* What the agent flow is promised of one model call.  It hears partial    *)
(* responses, if any, then one answer or one error, and nothing after.     *)
(* Two complete responses would be two output-bearing events of one node,  *)
(* which ends the campaign; and a call that says nothing at all would      *)
(* leave the node without an output.                                       *)
(***************************************************************************)
EXTENDS Naturals, Sequences

VARIABLES
    heard,      \* what reached the caller, a run of partials kept as one
    open        \* the call has not returned

callVars == <<heard, open>>

Endings == {"answer", "error"}

HearPartial ==
    /\ open
    /\ heard' = <<"partial">>
    /\ open' \in BOOLEAN            \* the caller may hang up on a partial

HearEnding ==
    /\ open
    /\ \E ending \in Endings : heard' = Append(heard, ending)
    /\ open' = FALSE

(* Once a partial is out, a call may end without another word.             *)
FallSilent ==
    /\ open
    /\ heard = <<"partial">>
    /\ open' = FALSE
    /\ UNCHANGED heard

Init == heard = <<>> /\ open = TRUE

Next == HearPartial \/ HearEnding \/ FallSilent

Spec == Init /\ [][Next]_callVars

=============================================================================
