------------------------------- MODULE Stream -------------------------------
(***************************************************************************)
(* The ladder over the streamed model (internal/agents/stream.go): every   *)
(* attempt opens a stream with a context of its own, a pump goroutine that *)
(* reads the inner sequence and sends each item on an unbuffered channel,  *)
(* and drain, which selects on that channel, the idle timer and the        *)
(* context, and rebuilds one response.  The pump of an attempt can outlive *)
(* the attempt, so every attempt keeps its own record.                     *)
(*                                                                         *)
(* The inner sequence is ADK's Responses client over the stream reader of  *)
(* sse.go: deltas, "text" or "thought", and one aggregated item that ends  *)
(* it, "final" with an answer part or "reasoned" without; or nothing; or   *)
(* an error at any point, "refused" by an HTTP status, a "runaway" cut off *)
(* while it only reasoned, or "failed".                                    *)
(***************************************************************************)
EXTENDS Ladder

CONSTANT MaxDeltas      \* deltas of one inner sequence

ASSUME MaxDeltasAssumption == MaxDeltas \in Nat

VARIABLE call           \* the streamed call of each attempt

streamVars == <<ladderVars, call>>

Deltas == {"text", "thought"}

Finals == {"final", "reasoned"}

Errors == {"failed", "refused", "runaway"}

Visible == {"text", "final"}        \* items with a plain text part (answerText)

NoResult == [kind |-> "none", items |-> <<>>]

ResultKinds == Deltas \cup Finals \cup Errors \cup {"none", "joined", "empty", "stalled", "cause"}

Calls == [ context  : {"unopened", "live", "cancelled"},
           pump     : {"unopened", "asking", "reading", "sending", "leaving", "closed"},
           drain    : {"unopened", "running", "parked", "returned", "yielded"},
           sequence : Seq(Deltas \cup Finals \cup Errors),
           over     : BOOLEAN,          \* the sequence ended by itself; read by no action
           sent     : {"no", "reasoning", "plain"},
           pending  : 0..(MaxDeltas + 1), \* the item held back, 0 for nil
           text     : Seq(Nat),         \* the items accumulated
           result   : [kind : ResultKinds, items : Seq(Nat)] ]

Unopened == [ context |-> "unopened", pump |-> "unopened", drain |-> "unopened",
              sequence |-> <<>>, over |-> FALSE, sent |-> "no", pending |-> 0,
              text |-> <<>>, result |-> NoResult ]

StreamTypeOK == LadderTypeOK /\ call \in [1..Attempts -> Calls]

StreamInit == LadderInit /\ call = [a \in 1..Attempts |-> Unopened]

Become(a, c) == call' = [call EXCEPT ![a] = c]

(* Cancelling a context wakes a pump parked on its send.                   *)
Cancelled(c) ==
    [c EXCEPT !.context = "cancelled", !.pump = IF @ = "sending" THEN "leaving" ELSE @]

FaultReturned(c, kind, items) ==
    [c EXCEPT !.drain = "returned", !.result = [kind |-> kind, items |-> items]]

(* drain returns, and with it the deferred cancel of GenerateContent.      *)
Returned(c, kind, items) ==
    [Cancelled(c) EXCEPT !.drain = "returned", !.result = [kind |-> kind, items |-> items]]

(* complete: the accumulated deltas, or else the last item as it came.     *)
Completed(c) ==
    IF c.text # <<>> THEN Returned(c, "joined", c.text)
    ELSE IF c.pending = 0 THEN Returned(c, "empty", <<>>)
    ELSE Returned(c, c.sequence[c.pending], <<c.pending>>)

FaultHeld(c, i) ==
    [c EXCEPT !.pending = i,
              !.text = IF c.sequence[i] \in Visible THEN Append(@, i) ELSE @]

(* holdResponse: the held item proves to be a delta when another arrives.  *)
Held(c, i) ==
    [c EXCEPT !.pending = i,
              !.text = IF c.pending # 0 /\ c.sequence[c.pending] \in Visible
                       THEN Append(@, c.pending) ELSE @]

(* drain takes the item the pump offers, always the last one produced; the *)
(* pump goes back to the sequence, or leaves after an error.               *)
Received(c) ==
    LET i == Len(c.sequence)
    IN  IF c.sequence[i] \in Errors
        THEN [Returned(c, c.sequence[i], <<>>) EXCEPT !.pump = "leaving"]
        ELSE [Held(c, i) EXCEPT !.drain = "running", !.pump = "reading"]

OpenAttempt ==
    /\ BeginAttempt
    /\ Become(attempt + 1,
              [Unopened EXCEPT !.context = IF caller = "gone" THEN "cancelled" ELSE "live",
                               !.pump = "asking", !.drain = "running"])

(* The request leaves through reasoningOffTransport.                       *)
Ask(a) ==
    /\ call[a].pump = "asking"
    /\ call[a].context = "live"
    /\ Become(a, [call[a] EXCEPT !.pump = "reading",
                                 !.sent = IF off THEN "plain" ELSE "reasoning"])
    /\ UNCHANGED ladderVars

(* A request may fail before it is sent; after that the sequence yields    *)
(* until an aggregated item or an error.                                   *)
MayYield(c, item) ==
    /\ \/ c.pump = "asking" /\ item = "failed"
       \/ c.pump = "reading"
    /\ \A i \in DOMAIN c.sequence : c.sequence[i] \in Deltas
    /\ item \in Deltas => Len(c.sequence) < MaxDeltas

(* The inner sequence yields an item and the pump reaches its select: a    *)
(* parked drain takes it at once, a cancelled context drops it, otherwise  *)
(* the pump parks.  classify marks the budget before the error comes out.  *)
InnerYields(a, item) ==
    LET c == [call[a] EXCEPT !.sequence = Append(@, item)]
    IN  /\ MayYield(call[a], item)
        /\ Become(a, IF c.drain = "parked" THEN Received(c)
                     ELSE IF c.context = "cancelled" THEN [c EXCEPT !.pump = "leaving"]
                     ELSE [c EXCEPT !.pump = "sending"])
        /\ IF item = "runaway" THEN ReasoningExhausted ELSE UNCHANGED ladderVars

SequenceEnds(a) ==
    /\ call[a].pump = "reading"
    /\ \A i \in DOMAIN call[a].sequence :
          i = Len(call[a].sequence) => call[a].sequence[i] \in Finals
    /\ Become(a, [call[a] EXCEPT !.pump = "leaving", !.over = TRUE])
    /\ UNCHANGED ladderVars

(* The deferred close wakes a parked drain.                                *)
PumpCloses(a) ==
    LET c == [call[a] EXCEPT !.pump = "closed"]
    IN  /\ call[a].pump = "leaving"
        /\ Become(a, IF c.drain = "parked" THEN Completed(c) ELSE c)
        /\ UNCHANGED ladderVars

(* drain at its select takes any ready case, or parks.                     *)
DrainTakes(a) ==
    /\ call[a].drain = "running"
    /\ call[a].pump = "sending"
    /\ Become(a, Received(call[a]))
    /\ UNCHANGED ladderVars

DrainSeesClose(a) ==
    /\ call[a].drain = "running"
    /\ call[a].pump = "closed"
    /\ Become(a, Completed(call[a]))
    /\ UNCHANGED ladderVars

DrainSeesCancel(a) ==
    /\ call[a].drain = "running"
    /\ call[a].context = "cancelled"
    /\ Become(a, Returned(call[a], "cause", <<>>))
    /\ UNCHANGED ladderVars

DrainParks(a) ==
    /\ call[a].drain = "running"
    /\ call[a].pump \notin {"sending", "closed"}
    /\ call[a].context = "live"
    /\ Become(a, [call[a] EXCEPT !.drain = "parked"])
    /\ UNCHANGED ladderVars

IdleTimer(a) ==
    /\ call[a].drain \in {"running", "parked"}
    /\ Become(a, Returned(call[a], "stalled", <<>>))
    /\ UNCHANGED ladderVars

(* A context that is cancelled wakes a parked drain, which reports why.    *)
Interrupted(c) ==
    IF c.drain = "parked" THEN Returned(c, "cause", <<>>) ELSE Cancelled(c)

AttemptDeadline(a) ==
    /\ call[a].context = "live"
    /\ Become(a, Interrupted(call[a]))
    /\ UNCHANGED ladderVars

CallerCancels ==
    /\ CallerLeaves
    /\ call' = [a \in DOMAIN call |-> IF call[a].context = "live"
                                      THEN Interrupted(call[a]) ELSE call[a]]

(* The one item the ladder ranges over, by what was rebuilt.  Text need    *)
(* not be JSON.                                                            *)
ItemsOf(kind) ==
    CASE kind \in {"joined", "final"} -> {"usable", "garbled"}
      [] kind = "reasoned" -> {"reasoned"}
      [] kind \in Deltas -> {"partial"}
      [] kind = "refused" -> {"refused"}
      [] OTHER -> {"failed"}

Deliver ==
    /\ attempt > 0
    /\ call[attempt].drain = "returned"
    /\ \E item \in ItemsOf(call[attempt].result.kind) : Receive(item)
    /\ Become(attempt, [call[attempt] EXCEPT !.drain = "yielded"])

DeliveredAll ==
    /\ attempt > 0
    /\ call[attempt].drain = "yielded"
    /\ InnerEnds
    /\ UNCHANGED call

Drain(a) ==
    DrainTakes(a) \/ DrainSeesClose(a) \/ DrainSeesCancel(a) \/ DrainParks(a)

Climb ==
    \/ OpenAttempt
    \/ Deliver
    \/ DeliveredAll
    \/ (CancelledInBackoff \/ LadderSpent) /\ UNCHANGED call

StreamNext ==
    \/ Climb
    \/ CallerCancels
    \/ \E a \in 1..Attempts :
          \/ Ask(a)
          \/ \E item \in Deltas \cup Finals \cup Errors : InnerYields(a, item)
          \/ SequenceEnds(a)
          \/ PumpCloses(a)
          \/ Drain(a)
          \/ IdleTimer(a)
          \/ AttemptDeadline(a)

StreamSpec == StreamInit /\ [][StreamNext]_streamVars

(* The goroutines keep running, the idle timer fires, and a request whose  *)
(* context is cancelled fails.  Nothing is assumed of a live endpoint.     *)
StreamFairSpec ==
    /\ StreamSpec
    /\ WF_streamVars(Climb)
    /\ \A a \in 1..Attempts :
          /\ WF_streamVars(Drain(a))
          /\ WF_streamVars(IdleTimer(a))
          /\ WF_streamVars(PumpCloses(a))
          /\ WF_streamVars(call[a].context = "cancelled" /\ InnerYields(a, "failed"))
          /\ WF_streamVars(call[a].context = "cancelled" /\ SequenceEnds(a))

(***************************************************************************)
(* Properties                                                              *)
(***************************************************************************)

TextsOf(sequence) == {i \in DOMAIN sequence : sequence[i] = "text"}

(* Each of them once, first to last.                                       *)
InOrder(items, indices) ==
    /\ {items[k] : k \in DOMAIN items} = indices
    /\ \A k, l \in DOMAIN items : k < l => items[k] < items[l]

WholeStream(c) ==
    IF TextsOf(c.sequence) # {} THEN InOrder(c.result.items, TextsOf(c.sequence))
    ELSE c.result.items = <<Len(c.sequence)>>

(* A response rebuilt from a sequence that ended by itself is every text   *)
(* delta once and in order, without the aggregated item that repeats them; *)
(* with no text delta it is that item (drain, holdResponse, complete).     *)
AnswerIsTheWholeStream ==
    \A a \in 1..Attempts :
        call[a].over /\ call[a].result.kind \in Deltas \cup Finals \cup {"joined"} =>
            WholeStream(call[a])

(* After an attempt that ended on a reasoning-only cutoff, no request of   *)
(* the call goes out with reasoning on, although the cutoff is seen on one *)
(* goroutine, recorded on another and applied on a third (reasoningBudget).*)
RunawayIsNotRepeated ==
    \A a, b \in 1..Attempts :
        a < b /\ call[a].result.kind = "runaway" => call[b].sent # "reasoning"

(* The call returns and no pump goroutine outlives it for ever, whatever   *)
(* the endpoint does (pump, TestStreamedModelStopsWhenTheConsumerStops).   *)
NothingLingers ==
    <>[](ladder = "returned" /\ \A a \in 1..Attempts : call[a].pump \in {"unopened", "closed"})

(* drain's comment: an attempt that ran out of its budget is reported with *)
(* that cause.  So a sequence it cut never counts as an answer.            *)
CutStreamIsAnError ==
    \A a \in 1..Attempts :
        caller = "present" /\ call[a].result.kind \in Deltas \cup Finals \cup {"joined"} =>
            call[a].over

=============================================================================
