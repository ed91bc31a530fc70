------------------------------- MODULE Ladder -------------------------------
(***************************************************************************)
(* The retry ladder of internal/agents/fence.go around one model call: up  *)
(* to Attempts passes over the inner model, with a backoff between them    *)
(* that the caller's cancellation cuts short.  An attempt ends the call    *)
(* when something of it reached the caller (an answer, a permanent error,  *)
(* a partial response) and is otherwise retried; a spent ladder delivers   *)
(* the failure of its last attempt.                                        *)
(*                                                                         *)
(* A response is what the ladder tells apart: a "partial"; a complete      *)
(* response that is "usable" (an answer part whose text is JSON),          *)
(* "garbled" (an answer part, not JSON) or "reasoned" (no answer part).    *)
(* An error is "refused" (an HTTP status that no retry can change) or      *)
(* "failed" (any other).  By itself this module runs the ladder over every *)
(* inner model; module Stream runs it over the streamed one.               *)
(***************************************************************************)
EXTENDS Naturals, Sequences

CONSTANT Attempts       \* fenceStrippingModel.attempts

ASSUME AttemptsAssumption == Attempts \in Nat \ {0}

VARIABLES
    ladder,     \* where GenerateContent is: between attempts, in one, returned
    attempt,    \* attempts started
    run,        \* generateRun: last and lastErr by the attempt they are of
    delivered,  \* what was yielded to the caller
    observed,   \* the CallInfo that closed each attempt
    caller,     \* the caller's context
    exhausted,  \* reasoningBudget.exhausted, set by the stream reader
    off         \* reasoningBudget.off, read by the transport

ladderVars == <<ladder, attempt, run, delivered, observed, caller, exhausted, off>>

Unanswered == {"garbled", "reasoned"}

Complete == Unanswered \cup {"usable"}

Items == Complete \cup {"partial", "failed", "refused"}

NoResponse == [of |-> 0, answers |-> FALSE]

Responses == [of : 0..Attempts, answers : BOOLEAN]

Runs == [last : Responses, lastErr : 0..Attempts, partial : BOOLEAN]

Unreported == [err |-> 0, retrying |-> FALSE, closed |-> FALSE]

Reports == [err : 0..Attempts, retrying : BOOLEAN, closed : BOOLEAN]

Messages == [kind : {"partial", "answer", "error"}, of : 0..Attempts]

LadderTypeOK ==
    /\ ladder \in {"waiting", "calling", "returned"}
    /\ attempt \in 0..Attempts
    /\ run \in Runs
    /\ delivered \in Seq(Messages)
    /\ observed \in [1..Attempts -> Reports]
    /\ caller \in {"present", "gone"}
    /\ exhausted \in BOOLEAN
    /\ off \in BOOLEAN

LadderInit ==
    /\ ladder = "waiting"
    /\ attempt = 0
    /\ run = [last |-> NoResponse, lastErr |-> 0, partial |-> FALSE]
    /\ delivered = <<>>
    /\ observed = [a \in 1..Attempts |-> Unreported]
    /\ caller = "present"
    /\ exhausted = FALSE
    /\ off = FALSE

Yield(kind, of) == delivered' = Append(delivered, [kind |-> kind, of |-> of])

(* A run of partials is kept as one.                                       *)
YieldPartial ==
    IF delivered = <<>> THEN Yield("partial", attempt) ELSE UNCHANGED delivered

FaultStartAttempt == run' = run

(* startAttempt: forget the attempt before, but not that a partial is out. *)
StartAttempt ==
    run' = [last |-> NoResponse, lastErr |-> 0, partial |-> run.partial]

RecordErr == [last |-> NoResponse, lastErr |-> attempt, partial |-> run.partial]

RecordUnusable(item) ==
    [ last    |-> [of |-> attempt, answers |-> item = "garbled"],
      lastErr |-> 0,
      partial |-> run.partial ]

FaultBeginAttempt ==
    /\ ladder = "waiting"
    /\ attempt <= Attempts
    /\ ladder' = "calling"
    /\ attempt' = attempt + 1
    /\ StartAttempt
    /\ UNCHANGED <<delivered, observed, caller, exhausted, off>>

(* The backoff is over (there is none before the first attempt), whether   *)
(* or not the caller is still there: a select takes either ready case.     *)
BeginAttempt ==
    /\ ladder = "waiting"
    /\ attempt < Attempts
    /\ ladder' = "calling"
    /\ attempt' = attempt + 1
    /\ StartAttempt
    /\ UNCHANGED <<delivered, observed, caller, exhausted, off>>

(* waitBackoff returns the context's error, which is of no attempt.        *)
CancelledInBackoff ==
    /\ ladder = "waiting"
    /\ attempt \in 1..(Attempts - 1)
    /\ caller = "gone"
    /\ ladder' = "returned"
    /\ Yield("error", 0)
    /\ UNCHANGED <<attempt, run, observed, caller, exhausted, off>>

Observe(retrying) ==
    observed' = [observed EXCEPT ![attempt] =
                    [err |-> run'.lastErr, retrying |-> retrying, closed |-> TRUE]]

(* The attempt finished the call.                                          *)
Done ==
    /\ ladder' = "returned"
    /\ Observe(FALSE)
    /\ UNCHANGED <<attempt, caller, exhausted, off>>

FaultRetry ==
    /\ ladder' = "waiting"
    /\ Observe(attempt < Attempts)
    /\ UNCHANGED <<attempt, delivered, caller, exhausted, off>>

(* The attempt produced nothing deliverable.  One cut off while it was     *)
(* only reasoning turns reasoning off for the attempts after it.           *)
Retry ==
    /\ ladder' = "waiting"
    /\ Observe(attempt < Attempts)
    /\ off' = (off \/ exhausted)
    /\ UNCHANGED <<attempt, delivered, caller, exhausted>>

PermanentError(item) ==
    /\ item = "refused"
    /\ run' = RecordErr
    /\ Yield("error", attempt)
    /\ Done

TransientError(item) ==
    /\ item = "failed"
    /\ run' = RecordErr
    /\ IF run.partial THEN Yield("error", attempt) /\ Done ELSE Retry

PartialResponse(item) ==
    /\ item = "partial"
    /\ run' = [run EXCEPT !.partial = TRUE]
    /\ YieldPartial
    /\ \/ Done                              \* the caller hung up
       \/ UNCHANGED <<ladder, attempt, observed, caller, exhausted, off>>

UnusableResponse(item) ==
    /\ item \in Unanswered
    /\ ~run.partial
    /\ run' = RecordUnusable(item)
    /\ Retry

FaultAnswer(item) ==
    /\ item \in Complete
    /\ run.partial \/ item = "usable"
    /\ Yield("answer", attempt)
    /\ UNCHANGED <<ladder, attempt, run, observed, caller, exhausted, off>>

Answer(item) ==
    /\ item \in Complete
    /\ run.partial \/ item = "usable"
    /\ UNCHANGED run
    /\ Yield("answer", attempt)
    /\ Done

(* One item of the inner sequence.                                         *)
Receive(item) ==
    /\ ladder = "calling"
    /\ \/ PermanentError(item)
       \/ TransientError(item)
       \/ PartialResponse(item)
       \/ UnusableResponse(item)
       \/ Answer(item)

FaultInnerEnds ==
    /\ ladder = "calling"
    /\ UNCHANGED run
    /\ Retry

(* The inner sequence is over: a failed attempt unless a partial is out.   *)
InnerEnds ==
    /\ ladder = "calling"
    /\ UNCHANGED run
    /\ IF run.partial THEN Done /\ UNCHANGED delivered ELSE Retry

(* yieldExhausted: a garbled answer is still delivered, a response without *)
(* an answer part becomes an error.                                        *)
LadderSpent ==
    /\ ladder = "waiting"
    /\ attempt = Attempts
    /\ ladder' = "returned"
    /\ IF run.last.answers THEN Yield("answer", run.last.of) ELSE Yield("error", run.lastErr)
    /\ UNCHANGED <<attempt, run, observed, caller, exhausted, off>>

CallerLeaves ==
    /\ caller = "present"
    /\ ladder # "returned"
    /\ caller' = "gone"
    /\ UNCHANGED <<ladder, attempt, run, delivered, observed, exhausted, off>>

(* The stream reader of any attempt saw a reasoning-only cutoff.           *)
ReasoningExhausted ==
    /\ attempt > 0
    /\ exhausted' = TRUE
    /\ UNCHANGED <<ladder, attempt, run, delivered, observed, caller, off>>

LadderNext ==
    \/ BeginAttempt
    \/ CancelledInBackoff
    \/ \E item \in Items : Receive(item)
    \/ InnerEnds
    \/ LadderSpent
    \/ CallerLeaves
    \/ ReasoningExhausted

LadderSpec == LadderInit /\ [][LadderNext]_ladderVars

(***************************************************************************)
(* Properties                                                              *)
(***************************************************************************)

Ending == INSTANCE OneAnswer WITH
              heard <- [i \in DOMAIN delivered |-> delivered[i].kind],
              open  <- ladder # "returned"

(* Whatever the inner model does, the caller hears at most one answer or   *)
(* error, last, and always one unless a partial is already out             *)
(* (streamAttempt: at most one complete response ever escapes a call).     *)
KeepsOneAnswer == Ending!Spec

(* Once a partial response has escaped, no further attempt is made: a      *)
(* replay would not be transparent (streamAttempt).                        *)
NoReplayAfterPartial == [][run.partial => attempt' = attempt]_ladderVars

(* The observer's line for an attempt names that attempt's failure or      *)
(* none, an attempt it calls final is the last one, and what the call      *)
(* finally delivers is of its last attempt (startAttempt, generateRun).    *)
ReportsOwnFailure ==
    /\ \A a \in 1..Attempts : observed[a].closed =>
          /\ observed[a].err \in {0, a}
          /\ ~observed[a].retrying => a = attempt
    /\ \A i \in DOMAIN delivered : delivered[i].of \in {0, attempt}
    /\ ladder = "returned" /\ observed[attempt].err = attempt /\ caller = "present" =>
          \E i \in DOMAIN delivered : delivered[i] = [kind |-> "error", of |-> attempt]

=============================================================================
