--------------------------- MODULE ModelCallProofs --------------------------
(***************************************************************************)
(* What TLAPS proves of one model call, for every number of attempts and   *)
(* every length of stream: the ladder's types, that each report is of its  *)
(* own attempt, that the call keeps the promise of OneAnswer, and that the *)
(* ladder over the streamed model is the ladder over some inner model, so  *)
(* that the first three hold of it too; and, of the streamed model, that   *)
(* an answer is the whole stream and that a runaway is not repeated.       *)
(***************************************************************************)
EXTENDS Stream, SequenceTheorems, TLAPS

USE AttemptsAssumption

(***************************************************************************)
(* Types                                                                   *)
(***************************************************************************)

LEMMA YieldType ==
    ASSUME LadderTypeOK,
           NEW kind \in {"partial", "answer", "error"}, NEW of \in 0..Attempts,
           Yield(kind, of)
    PROVE  delivered' \in Seq(Messages)
BY DEF Yield, LadderTypeOK, Messages

LEMMA DoneType ==
    ASSUME LadderTypeOK, Done, run' \in Runs,
           delivered' \in Seq(Messages)
    PROVE  LadderTypeOK'
BY DEF LadderTypeOK, Done, Observe, Reports, Runs

LEMMA RetryType ==
    ASSUME LadderTypeOK, Retry, run' \in Runs
    PROVE  LadderTypeOK'
<1>1. (attempt < Attempts) \in BOOLEAN
  OBVIOUS
<1>2. observed' \in [1..Attempts -> Reports]
  <2> DEFINE more == attempt < Attempts
  <2>1. more \in BOOLEAN
    OBVIOUS
  <2> HIDE DEF more
  <2>2. observed' = [observed EXCEPT ![attempt] =
                       [err |-> run'.lastErr, retrying |-> more, closed |-> TRUE]]
    BY DEF Retry, Observe, more
  <2> QED
    BY <2>1, <2>2 DEF LadderTypeOK, Reports, Runs
<1>3. off' \in BOOLEAN
  BY Zenon DEF LadderTypeOK, Retry
<1> QED
  BY <1>2, <1>3 DEF LadderTypeOK, Retry

LEMMA RunType ==
    ASSUME LadderTypeOK
    PROVE  /\ NoResponse \in Responses
           /\ RecordErr \in Runs
           /\ \A item \in Items : RecordUnusable(item) \in Runs
<1>1. NoResponse \in Responses
  BY DEF NoResponse, Responses
<1>2. RecordErr \in Runs
  BY <1>1 DEF LadderTypeOK, RecordErr, Runs
<1>3. ASSUME NEW item \in Items
      PROVE  RecordUnusable(item) \in Runs
  <2> DEFINE answers == item = "garbled"
             response == [of |-> attempt, answers |-> answers]
  <2>1. answers \in BOOLEAN
    OBVIOUS
  <2>2. response \in Responses
    <3> HIDE DEF answers
    <3> QED
      BY <2>1 DEF LadderTypeOK, Responses
  <2>3. RecordUnusable(item) = [last |-> response, lastErr |-> 0, partial |-> run.partial]
    BY DEF RecordUnusable
  <2> HIDE DEF response
  <2> QED
    BY <2>2, <2>3 DEF LadderTypeOK, Runs
<1> QED
  BY <1>1, <1>2, <1>3

LEMMA ReceiveType ==
    ASSUME LadderTypeOK, NEW item \in Items, Receive(item)
    PROVE  LadderTypeOK'
<1>1. CASE PermanentError(item)
  <2>1. run' \in Runs
    BY <1>1, RunType DEF PermanentError
  <2>2. delivered' \in Seq(Messages)
    BY <1>1, YieldType DEF PermanentError, LadderTypeOK
  <2> QED
    BY <1>1, <2>1, <2>2, DoneType DEF PermanentError
<1>2. CASE TransientError(item)
  <2>1. run' \in Runs
    BY <1>2, RunType DEF TransientError
  <2>2. CASE run.partial
    BY <1>2, <2>1, <2>2, YieldType, DoneType DEF TransientError, LadderTypeOK
  <2>3. CASE ~run.partial
    BY <1>2, <2>1, <2>3, RetryType DEF TransientError
  <2> QED
    BY <2>2, <2>3
<1>3. CASE PartialResponse(item)
  <2>1. run' \in Runs
    BY <1>3 DEF PartialResponse, LadderTypeOK, Runs
  <2>2. delivered' \in Seq(Messages)
    BY <1>3, YieldType DEF PartialResponse, YieldPartial, LadderTypeOK
  <2>3. CASE Done
    BY <2>1, <2>2, <2>3, DoneType
  <2>4. CASE UNCHANGED <<ladder, attempt, observed, caller, exhausted, off>>
    BY <2>1, <2>2, <2>4 DEF LadderTypeOK
  <2> QED
    BY <1>3, <2>3, <2>4 DEF PartialResponse
<1>4. CASE UnusableResponse(item)
  BY <1>4, RunType, RetryType DEF UnusableResponse
<1>5. CASE Answer(item)
  BY <1>5, YieldType, DoneType DEF Answer, LadderTypeOK
<1> QED
  BY <1>1, <1>2, <1>3, <1>4, <1>5 DEF Receive

LEMMA LadderTypeStep ==
    ASSUME LadderTypeOK, [LadderNext]_ladderVars
    PROVE  LadderTypeOK'
<1>1. CASE BeginAttempt
  <2>1. NoResponse \in Responses /\ 0 \in 0..Attempts
    BY DEF NoResponse, Responses
  <2>2. run' \in Runs
    BY <1>1, <2>1 DEF BeginAttempt, StartAttempt, LadderTypeOK, Runs
  <2>3. attempt' \in 0..Attempts
    BY <1>1 DEF BeginAttempt, LadderTypeOK
  <2> QED
    BY <1>1, <2>2, <2>3 DEF BeginAttempt, LadderTypeOK
<1>2. CASE CancelledInBackoff
  BY <1>2, YieldType DEF CancelledInBackoff, LadderTypeOK
<1>3. ASSUME NEW item \in Items, Receive(item)
      PROVE  LadderTypeOK'
  BY <1>3, ReceiveType
<1>4. CASE InnerEnds
  <2>1. CASE run.partial
    BY <1>4, <2>1, DoneType DEF InnerEnds, LadderTypeOK
  <2>2. CASE ~run.partial
    BY <1>4, <2>2, RetryType DEF InnerEnds, LadderTypeOK
  <2> QED
    BY <2>1, <2>2
<1>5. CASE LadderSpent
  <2>1. run.last.of \in 0..Attempts /\ run.lastErr \in 0..Attempts
    BY DEF LadderTypeOK, Responses, Runs
  <2>2. delivered' \in Seq(Messages)
    BY <1>5, <2>1, YieldType DEF LadderSpent
  <2> QED
    BY <1>5, <2>2 DEF LadderSpent, LadderTypeOK
<1>6. CASE CallerLeaves
  BY <1>6 DEF CallerLeaves, LadderTypeOK
<1>7. CASE ReasoningExhausted
  BY <1>7 DEF ReasoningExhausted, LadderTypeOK
<1>8. CASE UNCHANGED ladderVars
  BY <1>8 DEF ladderVars, LadderTypeOK
<1> QED
  BY <1>1, <1>2, <1>3, <1>4, <1>5, <1>6, <1>7, <1>8 DEF LadderNext

LEMMA LadderTypeInit == LadderInit => LadderTypeOK
<1>1. NoResponse \in Responses /\ Unreported \in Reports /\ 0 \in 0..Attempts
  BY DEF NoResponse, Responses, Unreported, Reports
<1>2. [last |-> NoResponse, lastErr |-> 0, partial |-> FALSE] \in Runs
  BY <1>1 DEF Runs
<1>3. [a \in 1..Attempts |-> Unreported] \in [1..Attempts -> Reports]
  BY <1>1
<1>4. <<>> \in Seq(Messages)
  OBVIOUS
<1> SUFFICES ASSUME LadderInit PROVE LadderTypeOK
  OBVIOUS
<1>5. run \in Runs /\ attempt \in 0..Attempts
  BY <1>1, <1>2 DEF LadderInit
<1>6. delivered \in Seq(Messages) /\ observed \in [1..Attempts -> Reports]
  BY <1>3, <1>4 DEF LadderInit
<1> QED
  BY <1>5, <1>6 DEF LadderInit, LadderTypeOK

(* Every reachable state of the ladder has its declared types.             *)
THEOREM LadderTypeCorrect == LadderSpec => []LadderTypeOK
BY LadderTypeInit, LadderTypeStep, PTL DEF LadderSpec

(***************************************************************************)
(* One answer                                                              *)
(***************************************************************************)

(* What the promise rests on: as long as the call has not returned, the    *)
(* caller has heard at most partials of the current attempt, and once it   *)
(* has heard one the ladder never waits for another attempt.               *)
HeardInv ==
    /\ ladder # "returned" =>
          delivered = IF run.partial THEN <<[kind |-> "partial", of |-> attempt]>> ELSE <<>>
    /\ run.partial => ladder # "waiting"

LEMMA HeardInit == LadderInit => HeardInv
BY DEF LadderInit, HeardInv

LEMMA PartialHeard ==
    ASSUME HeardInv, ladder = "calling", YieldPartial
    PROVE  delivered' = <<[kind |-> "partial", of |-> attempt]>>
<1> DEFINE message == [kind |-> "partial", of |-> attempt]
<1>1. delivered = IF run.partial THEN <<message>> ELSE <<>>
  BY DEF HeardInv
<1>2. IF delivered = <<>> THEN delivered' = Append(delivered, message) ELSE delivered' = delivered
  BY DEF YieldPartial, Yield
<1> HIDE DEF message
<1>3. <<message>> # <<>> /\ Append(<<>>, message) = <<message>>
  OBVIOUS
<1>4. delivered' = <<message>>
  BY <1>1, <1>2, <1>3
<1> QED
  BY <1>4 DEF message

LEMMA HeardStep ==
    ASSUME LadderTypeOK, HeardInv, [LadderNext]_ladderVars
    PROVE  HeardInv'
<1>1. CASE BeginAttempt
  BY <1>1 DEF BeginAttempt, StartAttempt, HeardInv
<1>2. CASE CancelledInBackoff
  BY <1>2 DEF CancelledInBackoff, HeardInv
<1>3. ASSUME NEW item \in Items, Receive(item)
      PROVE  HeardInv'
  <2>1. ladder = "calling"
    BY <1>3 DEF Receive
  <2>2. CASE PermanentError(item)
    BY <2>2 DEF PermanentError, Done, HeardInv
  <2>3. CASE TransientError(item)
    BY <2>1, <2>3 DEF TransientError, RecordErr, Done, Retry, HeardInv
  <2>4. CASE PartialResponse(item)
    <3>1. delivered' = <<[kind |-> "partial", of |-> attempt]>>
      BY <2>1, <2>4, PartialHeard DEF PartialResponse
    <3>2. run'.partial = TRUE
      BY <2>4 DEF PartialResponse, LadderTypeOK, Runs
    <3>3. attempt' = attempt /\ ladder' # "waiting"
      BY <2>1, <2>4 DEF PartialResponse, Done
    <3> QED
      BY <3>1, <3>2, <3>3 DEF HeardInv
  <2>5. CASE UnusableResponse(item)
    BY <2>1, <2>5 DEF UnusableResponse, RecordUnusable, Retry, HeardInv
  <2>6. CASE Answer(item)
    BY <2>6 DEF Answer, Done, HeardInv
  <2> QED
    BY <1>3, <2>2, <2>3, <2>4, <2>5, <2>6 DEF Receive
<1>4. CASE InnerEnds
  BY <1>4 DEF InnerEnds, Done, Retry, HeardInv
<1>5. CASE LadderSpent
  BY <1>5 DEF LadderSpent, HeardInv
<1>6. CASE CallerLeaves
  BY <1>6 DEF CallerLeaves, HeardInv
<1>7. CASE ReasoningExhausted
  BY <1>7 DEF ReasoningExhausted, HeardInv
<1>8. CASE UNCHANGED ladderVars
  BY <1>8 DEF ladderVars, HeardInv
<1> QED
  BY <1>1, <1>2, <1>3, <1>4, <1>5, <1>6, <1>7, <1>8 DEF LadderNext

(* What the caller hears of a delivered sequence.                          *)
Kinds(messages) == [i \in DOMAIN messages |-> messages[i].kind]

LEMMA AppendToOne ==
    ASSUME NEW first, NEW second
    PROVE  Append(<<first>>, second) = <<first, second>>
<1>1. <<first>> \in Seq({first, second})
  OBVIOUS
<1>2. /\ Append(<<first>>, second) \in Seq({first, second})
      /\ Len(Append(<<first>>, second)) = 2
      /\ Append(<<first>>, second)[1] = first
      /\ Append(<<first>>, second)[2] = second
  BY <1>1
<1>3. <<first, second>> \in Seq({first, second})
  OBVIOUS
<1>4. /\ Len(<<first, second>>) = 2
      /\ <<first, second>>[1] = first
      /\ <<first, second>>[2] = second
  OBVIOUS
<1> DEFINE long == Append(<<first>>, second)
           pair == <<first, second>>
<1>5. long \in Seq({first, second}) /\ pair \in Seq({first, second})
  BY <1>2, <1>3
<1>6. Len(long) = Len(pair) /\ \A i \in 1..Len(long) : long[i] = pair[i]
  BY <1>2, <1>4
<1> HIDE DEF long, pair
<1>7. long = pair
  BY <1>5, <1>6, SeqEqual
<1> QED
  BY <1>7 DEF long, pair

LEMMA KindsOfYield ==
    ASSUME NEW kind, NEW of, Yield(kind, of),
           delivered = <<>> \/ \E a : delivered = <<[kind |-> "partial", of |-> a]>>
    PROVE  Kinds(delivered') = Append(Kinds(delivered), kind)
<1> DEFINE message == [kind |-> kind, of |-> of]
<1>1. delivered' = Append(delivered, message)
  BY DEF Yield
<1>2. message.kind = kind
  OBVIOUS
<1> HIDE DEF message
<1>3. CASE delivered = <<>>
  <2>1. delivered' = <<message>>
    BY <1>1, <1>3
  <2>2. Kinds(delivered') = <<kind>> /\ Kinds(delivered) = <<>>
    BY <1>2, <1>3, <2>1 DEF Kinds
  <2> QED
    BY <2>2
<1>4. ASSUME NEW a, delivered = <<[kind |-> "partial", of |-> a]>>
      PROVE  Kinds(delivered') = Append(Kinds(delivered), kind)
  <2> DEFINE first == [kind |-> "partial", of |-> a]
  <2>0. first.kind = "partial"
    OBVIOUS
  <2> HIDE DEF first
  <2>1. delivered = <<first>>
    BY <1>4 DEF first
  <2>1a. delivered' = <<first, message>>
    BY <1>1, <2>1, AppendToOne
  <2>2. Kinds(delivered') = <<"partial", kind>> /\ Kinds(delivered) = <<"partial">>
    BY <1>2, <2>0, <2>1, <2>1a DEF Kinds
  <2> QED
    BY <2>2
<1> QED
  BY <1>3, <1>4

LEMMA AnswerStep ==
    ASSUME LadderTypeOK, HeardInv, [LadderNext]_ladderVars
    PROVE  [Ending!Next]_(Ending!callVars)
<1> DEFINE heard == Kinds(delivered)
           open  == ladder # "returned"
<1>0. ASSUME NEW kind \in {"answer", "error"}, NEW of, Yield(kind, of),
             ladder # "returned", ladder' = "returned"
      PROVE  Ending!HearEnding
  <2>1. Kinds(delivered') = Append(Kinds(delivered), kind)
    BY <1>0, KindsOfYield DEF HeardInv
  <2> QED
    BY <1>0, <2>1 DEF Ending!HearEnding, Ending!Endings, Kinds
<1>0a. ASSUME UNCHANGED delivered, (ladder' = "returned") = (ladder = "returned")
       PROVE  UNCHANGED Ending!callVars
  BY <1>0a DEF Ending!callVars
<1>0b. ASSUME UNCHANGED delivered, Done, run.partial, ladder = "calling"
       PROVE  Ending!FallSilent
  <2>1. delivered = <<[kind |-> "partial", of |-> attempt]>>
    BY <1>0b DEF HeardInv
  <2>2. Kinds(delivered) = <<"partial">>
    BY <2>1 DEF Kinds
  <2> QED
    BY <1>0b, <2>2 DEF Ending!FallSilent, Done, Kinds
<1>1. CASE BeginAttempt
  BY <1>1, <1>0a DEF BeginAttempt
<1>2. CASE CancelledInBackoff
  BY <1>2, <1>0 DEF CancelledInBackoff, Ending!Next
<1>3. ASSUME NEW item \in Items, Receive(item)
      PROVE  [Ending!Next]_(Ending!callVars)
  <2>1. ladder = "calling"
    BY <1>3 DEF Receive
  <2>2. CASE PermanentError(item)
    BY <2>1, <2>2, <1>0 DEF PermanentError, Done, Ending!Next
  <2>3. CASE TransientError(item)
    <3>1. CASE run.partial
      BY <2>1, <2>3, <3>1, <1>0 DEF TransientError, Done, Ending!Next
    <3>2. CASE ~run.partial
      BY <2>1, <2>3, <3>2, <1>0a DEF TransientError, Retry
    <3> QED
      BY <3>1, <3>2
  <2>4. CASE PartialResponse(item)
    <3>1. delivered' = <<[kind |-> "partial", of |-> attempt]>>
      BY <2>1, <2>4, PartialHeard DEF PartialResponse
    <3>2. Kinds(delivered') = <<"partial">>
      BY <3>1 DEF Kinds
    <3> QED
      BY <2>1, <3>2 DEF Ending!Next, Ending!HearPartial, Kinds
  <2>5. CASE UnusableResponse(item)
    BY <2>1, <2>5, <1>0a DEF UnusableResponse, Retry
  <2>6. CASE Answer(item)
    BY <2>1, <2>6, <1>0 DEF Answer, Done, Ending!Next
  <2> QED
    BY <1>3, <2>2, <2>3, <2>4, <2>5, <2>6 DEF Receive
<1>4. CASE InnerEnds
  <2>1. CASE run.partial
    BY <1>4, <2>1, <1>0b DEF InnerEnds, Ending!Next
  <2>2. CASE ~run.partial
    BY <1>4, <2>2, <1>0a DEF InnerEnds, Retry
  <2> QED
    BY <2>1, <2>2
<1>5. CASE LadderSpent
  BY <1>5, <1>0 DEF LadderSpent, Ending!Next
<1>6. CASE CallerLeaves
  BY <1>6, <1>0a DEF CallerLeaves
<1>7. CASE ReasoningExhausted
  BY <1>7, <1>0a DEF ReasoningExhausted
<1>8. CASE UNCHANGED ladderVars
  BY <1>8, <1>0a DEF ladderVars
<1> QED
  BY <1>1, <1>2, <1>3, <1>4, <1>5, <1>6, <1>7, <1>8 DEF LadderNext

LEMMA AnswerInit == LadderInit => Ending!Init
BY DEF LadderInit, Ending!Init

(* Whatever the inner model does, the caller hears partials, if any, then  *)
(* one answer or error, and nothing after.                                 *)
THEOREM LadderKeepsOneAnswer == LadderSpec => KeepsOneAnswer
<1>1. LadderSpec => [](LadderTypeOK /\ HeardInv)
  BY LadderTypeInit, LadderTypeStep, HeardInit, HeardStep, PTL DEF LadderSpec
<1> QED
  BY <1>1, AnswerInit, AnswerStep, PTL DEF LadderSpec, KeepsOneAnswer, Ending!Spec

(* No attempt follows one that let a partial response out.                 *)
THEOREM PartialIsNotReplayed == LadderSpec => NoReplayAfterPartial
<1>1. ASSUME HeardInv, [LadderNext]_ladderVars
      PROVE  [run.partial => attempt' = attempt]_ladderVars
  BY <1>1 DEF HeardInv, LadderNext, ladderVars, BeginAttempt, CancelledInBackoff, Receive,
              PermanentError, TransientError, PartialResponse, UnusableResponse, Answer,
              Done, Retry, InnerEnds, LadderSpent, CallerLeaves, ReasoningExhausted
<1>2. LadderSpec => [](LadderTypeOK /\ HeardInv)
  BY LadderTypeInit, LadderTypeStep, HeardInit, HeardStep, PTL DEF LadderSpec
<1> QED
  BY <1>1, <1>2, PTL DEF LadderSpec, NoReplayAfterPartial

(***************************************************************************)
(* Reports                                                                 *)
(***************************************************************************)

(* ReportsOwnFailure speaks of closed reports and of the end of the call;  *)
(* in between, run.last and run.lastErr must be of the current attempt, at *)
(* most one of the two, and neither while the attempt is still under way.  *)
ReportInv ==
    /\ \A a \in 1..Attempts :
          /\ observed[a].err # 0 => observed[a].closed /\ observed[a].err = a
          /\ observed[a].closed => a <= attempt /\ ~(ladder = "calling" /\ a = attempt)
          /\ observed[a].closed /\ ~observed[a].retrying =>
                a = attempt /\ (ladder = "waiting" => attempt = Attempts)
    /\ run.lastErr \in {0, attempt} /\ run.last.of \in {0, attempt}
    /\ run.lastErr # 0 => ~run.last.answers
    /\ ladder = "calling" => run.lastErr = 0 /\ attempt > 0
    /\ ladder = "waiting" /\ attempt > 0 => observed[attempt].err = run.lastErr
    /\ ladder = "returned" => attempt > 0
    /\ ladder = "returned" /\ observed[attempt].err = attempt /\ caller = "present" =>
          \E i \in DOMAIN delivered : delivered[i] = [kind |-> "error", of |-> attempt]
    /\ \A i \in DOMAIN delivered : delivered[i].of \in {0, attempt}

LEMMA ReportInit == LadderInit => ReportInv
BY DEF LadderInit, ReportInv, NoResponse, Unreported

LEMMA YieldAppends ==
    ASSUME LadderTypeOK, ReportInv, NEW kind, NEW of \in {0, attempt}, Yield(kind, of)
    PROVE  /\ \A i \in DOMAIN delivered' : delivered'[i].of \in {0, attempt}
           /\ \E i \in DOMAIN delivered' : delivered'[i] = [kind |-> kind, of |-> of]
<1> DEFINE message == [kind |-> kind, of |-> of]
<1>1. message.of \in {0, attempt}
  OBVIOUS
<1>2. delivered' = Append(delivered, message)
  BY DEF Yield
<1> HIDE DEF message
<1>3. delivered \in Seq(Messages)
  BY DEF LadderTypeOK
<1>4. DOMAIN delivered = 1..Len(delivered) /\ Len(delivered) \in Nat
  BY <1>3
<1>5. /\ DOMAIN delivered' = 1..(Len(delivered) + 1)
      /\ delivered'[Len(delivered) + 1] = message
      /\ \A i \in 1..Len(delivered) : delivered'[i] = delivered[i]
  BY <1>2, <1>3
<1>6. \A i \in DOMAIN delivered' : delivered'[i].of \in {0, attempt}
  BY <1>1, <1>4, <1>5 DEF ReportInv
<1>7. \E i \in DOMAIN delivered' : delivered'[i] = message
  BY <1>4, <1>5
<1> QED
  BY <1>6, <1>7 DEF message

LEMMA ReportDone ==
    ASSUME LadderTypeOK, ReportInv, ladder = "calling", Done,
           run'.lastErr \in {0, attempt}, run'.last.of \in {0, attempt},
           run'.lastErr # 0 => ~run'.last.answers,
           \A i \in DOMAIN delivered' : delivered'[i].of \in {0, attempt},
           run'.lastErr = attempt =>
               \E i \in DOMAIN delivered' : delivered'[i] = [kind |-> "error", of |-> attempt]
    PROVE  ReportInv'
BY DEF LadderTypeOK, ReportInv, Done, Observe, Reports

LEMMA ReportRetry ==
    ASSUME LadderTypeOK, ReportInv, ladder = "calling", Retry,
           run'.lastErr \in {0, attempt}, run'.last.of \in {0, attempt},
           run'.lastErr # 0 => ~run'.last.answers
    PROVE  ReportInv'
<1> DEFINE more == attempt < Attempts
<1>1. more = (attempt < Attempts)
  OBVIOUS
<1>2. observed' = [observed EXCEPT ![attempt] =
                     [err |-> run'.lastErr, retrying |-> more, closed |-> TRUE]]
  BY DEF Retry, Observe
<1> HIDE DEF more
<1>3. attempt \in 1..Attempts /\ attempt' = attempt /\ ladder' = "waiting" /\ delivered' = delivered
  BY DEF Retry, ReportInv, LadderTypeOK
<1>4. \A a \in 1..Attempts : a # attempt => observed'[a] = observed[a]
  BY <1>2, <1>3 DEF LadderTypeOK
<1>5. /\ observed'[attempt].err = run'.lastErr
      /\ observed'[attempt].retrying = more
      /\ observed'[attempt].closed = TRUE
  BY <1>2, <1>3 DEF LadderTypeOK
<1>5a. ~observed'[attempt].retrying => attempt = Attempts
  <2>1. CASE attempt < Attempts
    <3>1. observed'[attempt].retrying
      BY Zenon, <1>1, <1>5, <2>1
    <3> QED
      BY <3>1
  <2>2. CASE ~(attempt < Attempts)
    BY <1>3, <2>2
  <2> QED
    BY <2>1, <2>2
<1>6. \A a \in 1..Attempts :
          /\ observed'[a].err # 0 => observed'[a].closed /\ observed'[a].err = a
          /\ observed'[a].closed => a <= attempt
          /\ observed'[a].closed /\ ~observed'[a].retrying => a = attempt /\ attempt = Attempts
  <2> SUFFICES ASSUME NEW a \in 1..Attempts
               PROVE  /\ observed'[a].err # 0 => observed'[a].closed /\ observed'[a].err = a
                      /\ observed'[a].closed => a <= attempt
                      /\ observed'[a].closed /\ ~observed'[a].retrying =>
                            a = attempt /\ attempt = Attempts
    OBVIOUS
  <2>1. CASE a = attempt
    BY <1>3, <1>5, <1>5a, <2>1
  <2>2. CASE a # attempt
    BY <1>3, <1>4, <2>2 DEF ReportInv
  <2> QED
    BY <2>1, <2>2
<1> QED
  BY <1>3, <1>5, <1>6 DEF ReportInv

LEMMA ReportReceive ==
    ASSUME LadderTypeOK, ReportInv, NEW item \in Items, Receive(item)
    PROVE  ReportInv'
<1>1. ladder = "calling" /\ attempt \in {0, attempt} /\ attempt > 0 /\ run.lastErr = 0
  BY DEF Receive, ReportInv
<1>2. RecordErr.lastErr = attempt /\ RecordErr.last.of = 0 /\ ~RecordErr.last.answers
  BY DEF RecordErr, NoResponse
<1>3. RecordUnusable(item).lastErr = 0 /\ RecordUnusable(item).last.of = attempt
  BY DEF RecordUnusable
<1>4. CASE PermanentError(item)
  BY <1>1, <1>2, <1>4, YieldAppends, ReportDone DEF PermanentError
<1>5. CASE TransientError(item)
  <2>1. CASE run.partial
    BY <1>1, <1>2, <1>5, <2>1, YieldAppends, ReportDone DEF TransientError
  <2>2. CASE ~run.partial
    BY <1>1, <1>2, <1>5, <2>2, ReportRetry DEF TransientError
  <2> QED
    BY <2>1, <2>2
<1>6. CASE PartialResponse(item)
  <2>1. run'.lastErr = 0 /\ run'.last = run.last
    BY <1>1, <1>6 DEF PartialResponse, LadderTypeOK, Runs
  <2>2. \A i \in DOMAIN delivered' : delivered'[i].of \in {0, attempt}
    <3>1. CASE delivered = <<>>
      BY <1>1, <1>6, <3>1, YieldAppends DEF PartialResponse, YieldPartial
    <3>2. CASE delivered # <<>>
      BY <1>6, <3>2 DEF PartialResponse, YieldPartial, ReportInv
    <3> QED
      BY <3>1, <3>2
  <2>3. CASE Done
    BY <1>1, <2>1, <2>2, <2>3, ReportDone DEF ReportInv
  <2>4. CASE UNCHANGED <<ladder, attempt, observed, caller, exhausted, off>>
    BY <1>1, <2>1, <2>2, <2>4 DEF ReportInv
  <2> QED
    BY <1>6, <2>3, <2>4 DEF PartialResponse
<1>7. CASE UnusableResponse(item)
  BY <1>1, <1>3, <1>7, ReportRetry DEF UnusableResponse
<1>8. CASE Answer(item)
  <2>1. run' = run
    BY <1>8 DEF Answer
  <2> QED
    BY <1>1, <1>8, <2>1, YieldAppends, ReportDone DEF Answer, ReportInv
<1> QED
  BY <1>4, <1>5, <1>6, <1>7, <1>8 DEF Receive

LEMMA ReportStep ==
    ASSUME LadderTypeOK, HeardInv, ReportInv, [LadderNext]_ladderVars
    PROVE  ReportInv'
<1>1. CASE BeginAttempt
  <2>1. delivered = <<>> /\ delivered' = <<>>
    BY <1>1 DEF BeginAttempt, HeardInv
  <2>2. run'.lastErr = 0 /\ run'.last.of = 0 /\ ~run'.last.answers
    BY <1>1 DEF BeginAttempt, StartAttempt, NoResponse
  <2>3. attempt' = attempt + 1 /\ attempt \in Nat /\ attempt < Attempts /\ observed' = observed
        /\ ladder = "waiting" /\ ladder' = "calling"
    BY <1>1 DEF BeginAttempt, LadderTypeOK
  <2> QED
    BY <2>1, <2>2, <2>3 DEF ReportInv
<1>2. CASE CancelledInBackoff
  <2>1. \A i \in DOMAIN delivered' : delivered'[i].of \in {0, attempt}
    BY <1>2, YieldAppends DEF CancelledInBackoff
  <2> QED
    BY <1>2, <2>1 DEF CancelledInBackoff, ReportInv
<1>3. ASSUME NEW item \in Items, Receive(item)
      PROVE  ReportInv'
  BY <1>3, ReportReceive
<1>4. CASE InnerEnds
  <2>1. ladder = "calling" /\ run' = run /\ run.lastErr = 0 /\ attempt > 0
    BY <1>4 DEF InnerEnds, ReportInv
  <2>2. CASE run.partial
    BY <1>4, <2>1, <2>2, ReportDone DEF InnerEnds, ReportInv
  <2>3. CASE ~run.partial
    BY <1>4, <2>1, <2>3, ReportRetry DEF InnerEnds, ReportInv
  <2> QED
    BY <2>2, <2>3
<1>5. CASE LadderSpent
  <2>1. attempt > 0 /\ observed[attempt].err = run.lastErr
    BY <1>5 DEF LadderSpent, ReportInv
  <2>2. \A i \in DOMAIN delivered' : delivered'[i].of \in {0, attempt}
    <3>1. CASE run.last.answers
      BY <1>5, <3>1, YieldAppends DEF LadderSpent, ReportInv
    <3>2. CASE ~run.last.answers
      BY <1>5, <3>2, YieldAppends DEF LadderSpent, ReportInv
    <3> QED
      BY <3>1, <3>2
  <2>3. run.lastErr = attempt =>
            \E i \in DOMAIN delivered' : delivered'[i] = [kind |-> "error", of |-> attempt]
    BY <1>5, <2>1, YieldAppends DEF LadderSpent, ReportInv
  <2> QED
    BY <1>5, <2>1, <2>2, <2>3 DEF LadderSpent, ReportInv
<1>6. CASE CallerLeaves
  BY <1>6 DEF CallerLeaves, ReportInv
<1>7. CASE ReasoningExhausted
  BY <1>7 DEF ReasoningExhausted, ReportInv
<1>8. CASE UNCHANGED ladderVars
  BY <1>8 DEF ladderVars, ReportInv
<1> QED
  BY <1>1, <1>2, <1>3, <1>4, <1>5, <1>6, <1>7, <1>8 DEF LadderNext

(* Every report, and what the call finally delivers, is of the attempt it  *)
(* is attributed to.                                                       *)
THEOREM ReportsAreOwn == LadderSpec => []ReportsOwnFailure
<1>1. LadderSpec => [](LadderTypeOK /\ HeardInv /\ ReportInv)
  BY LadderTypeInit, LadderTypeStep, HeardInit, HeardStep, ReportInit, ReportStep, PTL
     DEF LadderSpec
<1>2. ReportInv => ReportsOwnFailure
  BY DEF ReportInv, ReportsOwnFailure
<1> QED
  BY <1>1, <1>2, PTL

(***************************************************************************)
(* The streamed model                                                      *)
(***************************************************************************)

LEMMA StreamStepIsLadderStep == [StreamNext]_streamVars => [LadderNext]_ladderVars
<1> SUFFICES ASSUME [StreamNext]_streamVars
             PROVE  LadderNext \/ UNCHANGED ladderVars
  OBVIOUS
<1>1. CASE Climb
  <2>1. \A kind : ItemsOf(kind) \subseteq Items
    BY DEF ItemsOf, Items, Complete, Unanswered
  <2> QED
    BY <1>1, <2>1 DEF Climb, OpenAttempt, Deliver, DeliveredAll, LadderNext
<1>2. CASE CallerCancels
  BY <1>2 DEF CallerCancels, LadderNext
<1>3. ASSUME NEW a \in 1..Attempts,
             \/ Ask(a)
             \/ \E item \in Deltas \cup Finals \cup Errors : InnerYields(a, item)
             \/ SequenceEnds(a)
             \/ PumpCloses(a)
             \/ Drain(a)
             \/ IdleTimer(a)
             \/ AttemptDeadline(a)
      PROVE  LadderNext \/ UNCHANGED ladderVars
  BY <1>3 DEF Ask, InnerYields, SequenceEnds, PumpCloses, Drain, DrainTakes, DrainSeesClose,
              DrainSeesCancel, DrainParks, IdleTimer, AttemptDeadline, LadderNext
<1>4. CASE UNCHANGED streamVars
  BY <1>4 DEF streamVars
<1> QED
  BY <1>1, <1>2, <1>3, <1>4 DEF StreamNext

(* The ladder over the streamed model is the ladder over an inner model:   *)
(* everything proved of the ladder holds of it.                            *)
THEOREM StreamImplementsLadder == StreamSpec => LadderSpec
BY StreamStepIsLadderStep, PTL DEF StreamSpec, StreamInit, LadderSpec

(* So the streamed call keeps the promise of one answer.                   *)
THEOREM StreamKeepsOneAnswer == StreamSpec => KeepsOneAnswer
BY StreamImplementsLadder, LadderKeepsOneAnswer

(* And its reports are its own.                                            *)
THEOREM StreamReportsAreOwn == StreamSpec => []ReportsOwnFailure
BY StreamImplementsLadder, ReportsAreOwn

(***************************************************************************)
(* What the streamed model rebuilds                                        *)
(***************************************************************************)

(* The kinds of result that count as an answer.                            *)
Answering == Deltas \cup Finals \cup {"joined"}

(* An inner sequence is deltas, and whatever ends it.                      *)
Shape(c) ==
    /\ \A i \in 1..(Len(c.sequence) - 1) : c.sequence[i] \in Deltas
    /\ Len(c.sequence) <= MaxDeltas + 1
    /\ Len(c.sequence) = MaxDeltas + 1 => c.sequence[Len(c.sequence)] \notin Deltas

(* Every item drain has taken is accumulated if it is a text delta, but    *)
(* the last one, which is held back.                                       *)
Kept(c) ==
    /\ c.pending <= Len(c.sequence)
    /\ InOrder(c.text, {i \in 1..(c.pending - 1) : c.sequence[i] = "text"})

(* The pump has nothing before the request is out, and a sequence that     *)
(* ended by itself ended on an aggregated item, or was empty.              *)
Paced(c) ==
    /\ c.pump \in {"unopened", "asking"} => c.sequence = <<>>
    /\ c.over => /\ c.pump \in {"leaving", "closed"}
                 /\ Len(c.sequence) > 0 => c.sequence[Len(c.sequence)] \in Finals

Undecided(c) == c.drain \in {"running", "parked"}

(* Until drain has a result it has taken everything the pump produced, but *)
(* for the one item the pump is parked on.  This is what an item dropped   *)
(* or taken twice would break; a pump that a cancelled context made leave  *)
(* may drop one, which is why it says nothing of that pump.                *)
Awaits(c) ==
    Undecided(c) =>
        /\ c.result = NoResult
        /\ c.pump \in {"asking", "reading"} \/ c.over => c.pending = Len(c.sequence)
        /\ c.pump = "sending" => c.pending + 1 = Len(c.sequence)

(* WholeStream of a result not yet in the record.                          *)
IsWhole(items, sequence) ==
    IF TextsOf(sequence) # {} THEN InOrder(items, TextsOf(sequence))
    ELSE items = <<Len(sequence)>>

RanAway(sequence) == \E i \in DOMAIN sequence : sequence[i] = "runaway"

(* drain rebuilds an answer only when the sequence is closed, so what it   *)
(* has rebuilt stays true: a closed sequence has no item to add.           *)
Answered(c) ==
    /\ c.result.kind \in Answering =>
          c.pump = "closed" /\ (c.over => IsWhole(c.result.items, c.sequence))
    /\ c.result.kind = "runaway" => RanAway(c.sequence)

(* What holds of each attempt's record by itself.                          *)
Coherent(c) == c \in Calls /\ Shape(c) /\ Kept(c) /\ Paced(c) /\ Awaits(c) /\ Answered(c)

(* Attempts are opened in order, and only after the one before is yielded. *)
Climbed ==
    /\ ladder = "calling" => attempt > 0
    /\ \A a \in 1..Attempts :
          /\ a > attempt => call[a] = Unopened
          /\ a < attempt \/ (a = attempt /\ ladder # "calling") => call[a].drain = "yielded"

RunsAway(c) == c.result.kind = "runaway"

(* A cutoff is marked as soon as it is produced, and reasoning is off from *)
(* the moment the ladder turns away from an attempt that ended on one.     *)
Budget ==
    /\ \A a \in 1..Attempts :
          /\ RanAway(call[a].sequence) => exhausted
          /\ RunsAway(call[a]) /\ (a < attempt \/ (a = attempt /\ ladder = "waiting")) => off
    /\ RunawayIsNotRepeated

(* The inductive invariant of the streamed call.                           *)
StreamInv == /\ \A a \in 1..Attempts : Coherent(call[a])
             /\ Climbed /\ Budget

(* What the operators on a record do to each of its fields.                *)
LEMMA LiteralType ==
    /\ NoResult \in [kind : ResultKinds, items : Seq(Nat)]
    /\ Unopened \in Calls
<1>1. NoResult \in [kind : ResultKinds, items : Seq(Nat)]
  BY DEF NoResult, ResultKinds
<1>2. 0 \in 0..(MaxDeltas + 1)
  BY MaxDeltasAssumption
<1>3. <<>> \in Seq(Nat) /\ <<>> \in Seq(Deltas \cup Finals \cup Errors)
  OBVIOUS
<1> QED
  BY <1>1, <1>2, <1>3 DEF Unopened, Calls

LEMMA CancelledFields ==
    ASSUME NEW c \in Calls
    PROVE  /\ Cancelled(c) \in Calls
           /\ Cancelled(c).pump = IF c.pump = "sending" THEN "leaving" ELSE c.pump
           /\ Cancelled(c).drain = c.drain /\ Cancelled(c).sequence = c.sequence
           /\ Cancelled(c).over = c.over /\ Cancelled(c).sent = c.sent
           /\ Cancelled(c).pending = c.pending /\ Cancelled(c).text = c.text
           /\ Cancelled(c).result = c.result
BY DEF Cancelled, Calls

LEMMA ReturnedFields ==
    ASSUME NEW c \in Calls, NEW kind \in ResultKinds, NEW items \in Seq(Nat)
    PROVE  /\ Returned(c, kind, items) \in Calls
           /\ Returned(c, kind, items).pump = IF c.pump = "sending" THEN "leaving" ELSE c.pump
           /\ Returned(c, kind, items).drain = "returned"
           /\ Returned(c, kind, items).sequence = c.sequence
           /\ Returned(c, kind, items).over = c.over
           /\ Returned(c, kind, items).sent = c.sent
           /\ Returned(c, kind, items).pending = c.pending
           /\ Returned(c, kind, items).text = c.text
           /\ Returned(c, kind, items).result = [kind |-> kind, items |-> items]
<1> DEFINE u == Cancelled(c)
           result == [kind |-> kind, items |-> items]
<1>1. Returned(c, kind, items) = [u EXCEPT !.drain = "returned", !.result = result]
  BY DEF Returned
<1>2. result \in [kind : ResultKinds, items : Seq(Nat)]
  OBVIOUS
<1>3. /\ u \in Calls
      /\ u.pump = IF c.pump = "sending" THEN "leaving" ELSE c.pump
      /\ u.sequence = c.sequence /\ u.over = c.over /\ u.sent = c.sent
      /\ u.pending = c.pending /\ u.text = c.text
  BY CancelledFields
<1> HIDE DEF u, result
<1> DEFINE r == Returned(c, kind, items)
<1>4. /\ r \in Calls /\ r.pump = u.pump /\ r.drain = "returned" /\ r.sequence = u.sequence
      /\ r.over = u.over /\ r.sent = u.sent /\ r.pending = u.pending /\ r.text = u.text
      /\ r.result = result
  BY <1>1, <1>2, <1>3 DEF Calls
<1> QED
  BY <1>3, <1>4 DEF result

(* And that each keeps the record's invariant.                             *)
LEMMA CancelledCoherent ==
    ASSUME NEW c, Coherent(c)
    PROVE  Coherent(Cancelled(c))
<1> DEFINE r == Cancelled(c)
<1>1. /\ r \in Calls /\ r.pump = IF c.pump = "sending" THEN "leaving" ELSE c.pump
      /\ r.drain = c.drain /\ r.sequence = c.sequence /\ r.over = c.over
      /\ r.pending = c.pending /\ r.text = c.text /\ r.result = c.result
  BY CancelledFields DEF Coherent
<1> HIDE DEF r
<1>2. Shape(r) /\ Kept(r)
  BY <1>1 DEF Coherent, Shape, Kept
<1>3. Paced(r) /\ Awaits(r)
  BY <1>1 DEF Coherent, Paced, Awaits, Undecided
<1>4. Answered(r)
  BY <1>1 DEF Coherent, Answered
<1> QED
  BY <1>1, <1>2, <1>3, <1>4 DEF Coherent, r

(* drain returns.                                                          *)
LEMMA ReturnedCoherent ==
    ASSUME NEW c \in Calls, Shape(c), Kept(c), Paced(c),
           NEW kind \in ResultKinds, NEW items \in Seq(Nat),
           kind \in Answering => c.pump = "closed" /\ (c.over => IsWhole(items, c.sequence)),
           kind = "runaway" => RanAway(c.sequence)
    PROVE  Coherent(Returned(c, kind, items))
<1> DEFINE r == Returned(c, kind, items)
           result == [kind |-> kind, items |-> items]
<1>1. /\ r \in Calls /\ r.pump = IF c.pump = "sending" THEN "leaving" ELSE c.pump
      /\ r.drain = "returned" /\ r.sequence = c.sequence /\ r.over = c.over
      /\ r.pending = c.pending /\ r.text = c.text /\ r.result = result
  BY ReturnedFields
<1>2. result.kind = kind /\ result.items = items
  OBVIOUS
<1> HIDE DEF r, result
<1>3. Shape(r) /\ Kept(r)
  BY <1>1 DEF Shape, Kept
<1>4. Paced(r) /\ Awaits(r)
  BY <1>1 DEF Paced, Awaits, Undecided
<1>5. Answered(r)
  BY <1>1, <1>2 DEF Answered
<1> QED
  BY <1>1, <1>3, <1>4, <1>5 DEF Coherent, r

(* InOrder, of nothing and of one item more.                               *)
LEMMA InOrderEmpty ==
    ASSUME NEW items \in Seq(Nat), InOrder(items, {})
    PROVE  items = <<>>
BY DEF InOrder

LEMMA InOrderAppend ==
    ASSUME NEW items \in Seq(Nat), NEW indices, InOrder(items, indices),
           NEW i \in Nat, \A j \in indices : j < i
    PROVE  InOrder(Append(items, i), indices \cup {i})
<1> DEFINE longer == Append(items, i)
           n == Len(items)
<1>1. /\ n \in Nat /\ DOMAIN items = 1..n /\ DOMAIN longer = 1..(n + 1)
      /\ longer[n + 1] = i /\ \A k \in 1..n : longer[k] = items[k]
      /\ \A k \in 1..n : items[k] \in Nat
  OBVIOUS
<1> HIDE DEF longer, n
<1>2. \A k \in 1..(n + 1) : k \in 1..n \/ k = n + 1
  BY <1>1
<1>3. {items[k] : k \in 1..n} = indices
  BY <1>1 DEF InOrder
<1>4. {longer[k] : k \in DOMAIN longer} = indices \cup {i}
  <2>1. ASSUME NEW k \in 1..(n + 1) PROVE longer[k] \in indices \cup {i}
    BY <1>1, <1>2, <1>3
  <2>2. ASSUME NEW j \in indices PROVE \E k \in 1..(n + 1) : longer[k] = j
    <3>1. PICK k \in 1..n : items[k] = j
      BY <1>3
    <3> QED
      BY <1>1, <3>1
  <2>3. n + 1 \in 1..(n + 1)
    BY <1>1
  <2> QED
    BY <1>1, <2>1, <2>2, <2>3
<1>5. ASSUME NEW k \in 1..(n + 1), NEW l \in 1..(n + 1), k < l
      PROVE  longer[k] < longer[l]
  <2>1. k \in 1..n
    BY <1>1, <1>5
  <2>2. CASE l \in 1..n
    BY <1>1, <1>5, <2>1, <2>2 DEF InOrder
  <2>3. CASE l = n + 1
    <3>1. items[k] \in indices
      BY <1>3, <2>1
    <3> QED
      BY <1>1, <2>1, <2>3, <3>1
  <2> QED
    BY <1>2, <2>2, <2>3
<1> QED
  BY <1>1, <1>4, <1>5 DEF InOrder, longer

(* The sequence is closed and drain rebuilds what it has.                  *)
LEMMA CompletedCoherent ==
    ASSUME NEW c, Coherent(c), Undecided(c), c.pump = "closed"
    PROVE  Coherent(Completed(c)) /\ Completed(c).drain = "returned"
           /\ Completed(c).sequence = c.sequence /\ Completed(c).sent = c.sent
<1> DEFINE n == Len(c.sequence)
<1>1. /\ c \in Calls /\ Shape(c) /\ Kept(c) /\ Paced(c)
      /\ c.over => c.pending = n /\ (n > 0 => c.sequence[n] \in Finals)
  BY DEF Coherent, Awaits, Paced
<1>2. /\ c.sequence \in Seq(Deltas \cup Finals \cup Errors) /\ n \in Nat
      /\ c.text \in Seq(Nat) /\ c.pending \in Nat
  BY <1>1 DEF Calls
<1>3. ASSUME c.over
      PROVE  TextsOf(c.sequence) = {i \in 1..(c.pending - 1) : c.sequence[i] = "text"}
  BY <1>1, <1>2, <1>3 DEF TextsOf, Finals
<1>4. ASSUME c.over PROVE InOrder(c.text, TextsOf(c.sequence))
  BY <1>1, <1>3, <1>4 DEF Kept
<1> HIDE DEF n
<1>5. CASE c.text # <<>>
  <2>1. c.over => IsWhole(c.text, c.sequence)
    BY <1>2, <1>4, <1>5, InOrderEmpty DEF IsWhole
  <2>2. Coherent(Returned(c, "joined", c.text))
    BY <1>1, <1>2, <2>1, ReturnedCoherent DEF ResultKinds
  <2>3. Completed(c) = Returned(c, "joined", c.text)
    BY <1>5 DEF Completed
  <2>3a. "joined" \in ResultKinds
    BY DEF ResultKinds
  <2>4. /\ Returned(c, "joined", c.text).drain = "returned"
        /\ Returned(c, "joined", c.text).sequence = c.sequence
        /\ Returned(c, "joined", c.text).sent = c.sent
    BY <1>1, <1>2, <2>3a, ReturnedFields
  <2> QED
    BY <2>2, <2>3, <2>4
<1>6. CASE c.text = <<>> /\ c.pending = 0
  <2>1. <<>> \in Seq(Nat) /\ "empty" \in ResultKinds
    BY DEF ResultKinds
  <2>2. Coherent(Returned(c, "empty", <<>>))
    BY <1>1, <2>1, ReturnedCoherent DEF Answering, Deltas, Finals
  <2>3. Completed(c) = Returned(c, "empty", <<>>)
    BY <1>6 DEF Completed
  <2>4. /\ Returned(c, "empty", <<>>).drain = "returned"
        /\ Returned(c, "empty", <<>>).sequence = c.sequence
        /\ Returned(c, "empty", <<>>).sent = c.sent
    BY <1>1, <2>1, ReturnedFields
  <2> QED
    BY <2>2, <2>3, <2>4
<1>7. CASE c.text = <<>> /\ c.pending # 0
  <2> DEFINE kind == c.sequence[c.pending]
             items == <<c.pending>>
  <2>1. c.pending \in 1..n /\ DOMAIN c.sequence = 1..n
    BY <1>1, <1>2, <1>7 DEF Kept, n
  <2>2. kind \in ResultKinds /\ items \in Seq(Nat)
    BY <1>2, <2>1 DEF ResultKinds
  <2>3. kind = "runaway" => RanAway(c.sequence)
    BY <2>1 DEF RanAway
  <2>4. ASSUME c.over PROVE IsWhole(items, c.sequence)
    <3>1. TextsOf(c.sequence) = {}
      <4>1. InOrder(<<>>, TextsOf(c.sequence))
        BY <1>4, <1>7, <2>4
      <4>2. {<<>>[k] : k \in DOMAIN <<>>} = {}
        OBVIOUS
      <4> QED
        BY <4>1, <4>2 DEF InOrder
    <3>2. c.pending = Len(c.sequence)
      BY <1>1, <2>4 DEF n
    <3> QED
      BY <3>1, <3>2 DEF IsWhole
  <2>5. Completed(c) = Returned(c, kind, items)
    BY <1>7 DEF Completed
  <2> HIDE DEF kind, items
  <2>6. Coherent(Returned(c, kind, items))
    BY <1>1, <2>2, <2>3, <2>4, ReturnedCoherent
  <2>7. /\ Returned(c, kind, items).drain = "returned"
        /\ Returned(c, kind, items).sequence = c.sequence
        /\ Returned(c, kind, items).sent = c.sent
    BY <1>1, <2>2, ReturnedFields
  <2> QED
    BY <2>5, <2>6, <2>7
<1> QED
  BY <1>5, <1>6, <1>7

(* An item in drain's hands: the last of the sequence, with all before it  *)
(* taken.                                                                  *)
Offered(c) ==
    /\ c \in Calls /\ Shape(c) /\ Kept(c) /\ ~c.over /\ c.result = NoResult
    /\ c.pending + 1 = Len(c.sequence)

(* The offered item is held back, and the one held before joins the text.  *)
LEMMA HeldCoherent ==
    ASSUME NEW c, Offered(c), c.sequence[Len(c.sequence)] \notin Errors
    PROVE  LET r == [Held(c, Len(c.sequence)) EXCEPT !.drain = "running", !.pump = "reading"]
           IN  Coherent(r) /\ r.sequence = c.sequence /\ r.sent = c.sent
<1> DEFINE n == Len(c.sequence)
           held == c.pending # 0 /\ c.sequence[c.pending] \in Visible
           text == IF held THEN Append(c.text, c.pending) ELSE c.text
           r == [Held(c, n) EXCEPT !.drain = "running", !.pump = "reading"]
<1>1. /\ c \in Calls /\ c.text \in Seq(Nat) /\ c.pending \in Nat /\ n = c.pending + 1
      /\ c.sequence \in Seq(Deltas \cup Finals \cup Errors) /\ n <= MaxDeltas + 1
      /\ ~c.over /\ c.result = NoResult
  BY DEF Offered, Calls, Shape
<1>2. text \in Seq(Nat)
  BY <1>1
<1>3. n \in 0..(MaxDeltas + 1)
  BY <1>1, MaxDeltasAssumption
<1>4. InOrder(text, {i \in 1..(n - 1) : c.sequence[i] = "text"})
  <2> DEFINE before == {i \in 1..(c.pending - 1) : c.sequence[i] = "text"}
             now == {i \in 1..(n - 1) : c.sequence[i] = "text"}
  <2>1. InOrder(c.text, before) /\ \A j \in before : j < c.pending
    BY <1>1 DEF Offered, Kept
  <2>2. c.pending # 0 => c.sequence[c.pending] \in Deltas
    BY <1>1 DEF Offered, Shape
  <2>3. held <=> c.pending # 0 /\ c.sequence[c.pending] = "text"
    BY <2>2 DEF Deltas, Visible
  <2>4. now = IF held THEN before \cup {c.pending} ELSE before
    <3>1. \A i \in 1..(n - 1) : i \in 1..(c.pending - 1) \/ i = c.pending
      BY <1>1
    <3>2. \A i \in 1..(c.pending - 1) : i \in 1..(n - 1)
      BY <1>1
    <3>3. c.pending # 0 => c.pending \in 1..(n - 1)
      BY <1>1
    <3>4. c.pending \in 1..(n - 1) => c.pending # 0
      BY <1>1
    <3> HIDE DEF held
    <3> QED
      BY <2>3, <3>1, <3>2, <3>3, <3>4
  <2> HIDE DEF before, held, now
  <2>5. InOrder(text, now)
    BY <1>1, <2>1, <2>4, InOrderAppend
  <2> QED
    BY <2>5 DEF now
<1>5. Held(c, n) = [c EXCEPT !.pending = n, !.text = text]
  BY DEF Held
<1> HIDE DEF text, n
<1>6. /\ r \in Calls /\ r.pump = "reading" /\ r.drain = "running" /\ r.sequence = c.sequence
      /\ r.over = c.over /\ r.pending = n /\ r.text = text /\ r.result = c.result
      /\ r.sent = c.sent
  BY <1>1, <1>2, <1>3, <1>5 DEF Calls
<1> HIDE DEF r
<1>7. Shape(r) /\ Kept(r)
  BY <1>1, <1>4, <1>6 DEF Offered, Shape, Kept, n
<1>8. Paced(r) /\ Awaits(r)
  BY <1>1, <1>6 DEF Paced, Awaits, n
<1>9. Answered(r)
  BY <1>1, <1>6 DEF Answered, NoResult, Answering, Deltas, Finals
<1> QED
  BY <1>6, <1>7, <1>8, <1>9 DEF Coherent, r, n

(* drain takes the offered item, an error or not.                          *)
LEMMA ReceivedCoherent ==
    ASSUME NEW c, Offered(c)
    PROVE  /\ Coherent(Received(c))
           /\ Received(c).sequence = c.sequence /\ Received(c).sent = c.sent
<1> DEFINE n == Len(c.sequence)
           kind == c.sequence[n]
<1>1. /\ c \in Calls /\ Shape(c) /\ Kept(c) /\ ~c.over
      /\ n \in Nat /\ n \in DOMAIN c.sequence /\ n >= 1
  BY DEF Offered, Calls
<1>2. CASE kind \in Errors
  <2> DEFINE r == Returned(c, kind, <<>>)
             d == [r EXCEPT !.pump = "leaving"]
  <2>1. kind \in ResultKinds /\ <<>> \in Seq(Nat)
    BY <1>2 DEF ResultKinds
  <2>2. kind \notin Answering /\ (kind = "runaway" => RanAway(c.sequence))
    BY <1>1, <1>2 DEF Errors, Answering, Deltas, Finals, RanAway
  <2>3. Received(c) = d
    BY <1>2 DEF Received
  <2> HIDE DEF kind
  <2>4. /\ r \in Calls /\ r.drain = "returned" /\ r.sequence = c.sequence
        /\ r.over = c.over /\ r.sent = c.sent /\ r.pending = c.pending /\ r.text = c.text
        /\ r.result = [kind |-> kind, items |-> <<>>]
    BY <1>1, <2>1, ReturnedFields
  <2>5. r.result.kind = kind
    BY <2>4
  <2> HIDE DEF r
  <2>6. /\ d \in Calls /\ d.pump = "leaving" /\ d.drain = "returned" /\ d.sequence = c.sequence
        /\ d.over = c.over /\ d.sent = c.sent /\ d.pending = c.pending /\ d.text = c.text
        /\ d.result = r.result
    BY <2>4 DEF Calls
  <2> HIDE DEF d
  <2>7. Shape(d) /\ Kept(d) /\ Paced(d) /\ Awaits(d)
    BY <1>1, <2>6 DEF Shape, Kept, Paced, Awaits, Undecided
  <2>8. Answered(d)
    BY <2>2, <2>5, <2>6 DEF Answered
  <2> QED
    BY <2>3, <2>6, <2>7, <2>8 DEF Coherent
<1>3. CASE kind \notin Errors
  BY <1>3, HeldCoherent DEF Received
<1> QED
  BY <1>2, <1>3

(* What a step of an attempt may change in its record, for the call's      *)
(* invariants.                                                             *)
Steps(c, d) ==
    /\ c # Unopened
    /\ Coherent(d)
    /\ ~Undecided(c) => d.drain = c.drain /\ d.result = c.result
    /\ RanAway(d.sequence) => RanAway(c.sequence) \/ exhausted'
    /\ d.sent # c.sent /\ off => d.sent # "reasoning"

(* Every step of an attempt is such a step: one lemma per action.          *)
LEMMA AskSteps ==
    ASSUME NEW c, Coherent(c), c.pump = "asking",
           NEW d, d = [c EXCEPT !.pump = "reading", !.sent = IF off THEN "plain" ELSE "reasoning"]
    PROVE  Steps(c, d)
<1> DEFINE sent == IF off THEN "plain" ELSE "reasoning"
<1>1. sent \in {"no", "reasoning", "plain"} /\ (off => sent # "reasoning")
  OBVIOUS
<1>2. d = [c EXCEPT !.pump = "reading", !.sent = sent]
  OBVIOUS
<1> HIDE DEF sent
<1>3. /\ d \in Calls /\ d.pump = "reading" /\ d.drain = c.drain /\ d.sequence = c.sequence
      /\ d.over = c.over /\ d.sent = sent /\ d.pending = c.pending /\ d.text = c.text
      /\ d.result = c.result
  BY <1>1, <1>2 DEF Coherent, Calls
<1>4. Shape(d) /\ Kept(d) /\ Paced(d) /\ Awaits(d) /\ Answered(d)
  BY <1>3 DEF Coherent, Shape, Kept, Paced, Awaits, Undecided, Answered
<1> QED
  BY <1>1, <1>3, <1>4 DEF Steps, Coherent, Unopened

(* The record with one more item.                                          *)
Longer(c, item) == [c EXCEPT !.sequence = Append(@, item)]

LEMMA LongerFields ==
    ASSUME NEW c \in Calls, NEW item \in Deltas \cup Finals \cup Errors
    PROVE  LET e == Longer(c, item)
           IN  /\ e \in Calls /\ e.context = c.context /\ e.pump = c.pump /\ e.drain = c.drain
               /\ e.sequence = Append(c.sequence, item) /\ e.over = c.over /\ e.sent = c.sent
               /\ e.pending = c.pending /\ e.text = c.text /\ e.result = c.result
<1> DEFINE longer == Append(c.sequence, item)
<1>1. longer \in Seq(Deltas \cup Finals \cup Errors)
  BY DEF Calls
<1>2. Longer(c, item) = [c EXCEPT !.sequence = longer]
  BY DEF Longer
<1> HIDE DEF longer
<1>3. LET e == Longer(c, item)
      IN  /\ e \in Calls /\ e.context = c.context /\ e.pump = c.pump /\ e.drain = c.drain
          /\ e.sequence = longer /\ e.over = c.over /\ e.sent = c.sent
          /\ e.pending = c.pending /\ e.text = c.text /\ e.result = c.result
  BY <1>1, <1>2 DEF Calls
<1> QED
  BY <1>3 DEF longer

LEMMA PumpFields ==
    ASSUME NEW c \in Calls, NEW pump \in {"leaving", "sending"}
    PROVE  LET d == [c EXCEPT !.pump = pump]
           IN  /\ d \in Calls /\ d.pump = pump /\ d.drain = c.drain
               /\ d.sequence = c.sequence /\ d.over = c.over /\ d.sent = c.sent
               /\ d.pending = c.pending /\ d.text = c.text /\ d.result = c.result
BY DEF Calls

(* What the attempt's record becomes when its sequence yields an item.     *)
AfterYield(c, item) ==
    LET e == Longer(c, item)
    IN  IF e.drain = "parked" THEN Received(e)
        ELSE IF e.context = "cancelled" THEN [e EXCEPT !.pump = "leaving"]
        ELSE [e EXCEPT !.pump = "sending"]

LEMMA YieldSteps ==
    ASSUME NEW c, Coherent(c), NEW item \in Deltas \cup Finals \cup Errors, MayYield(c, item),
           item = "runaway" => exhausted'
    PROVE  Steps(c, AfterYield(c, item))
<1> DEFINE n == Len(c.sequence)
           longer == Append(c.sequence, item)
           e == Longer(c, item)
           d == AfterYield(c, item)
<1>1. /\ c \in Calls /\ c.pump \in {"asking", "reading"} /\ ~c.over
      /\ c.sequence \in Seq(Deltas \cup Finals \cup Errors) /\ n \in Nat
      /\ c.pending \in Nat /\ c.pending <= n
  BY DEF Coherent, MayYield, Paced, Kept, Calls
<1>2. /\ longer \in Seq(Deltas \cup Finals \cup Errors) /\ Len(longer) = n + 1
      /\ longer[n + 1] = item /\ \A i \in 1..n : longer[i] = c.sequence[i]
      /\ DOMAIN longer = 1..(n + 1) /\ DOMAIN c.sequence = 1..n
  BY <1>1
<1>3. \A i \in 1..n : c.sequence[i] \in Deltas
  BY <1>2 DEF MayYield
<1>4. n <= MaxDeltas /\ (item \in Deltas => n < MaxDeltas)
  <2>1. n <= MaxDeltas + 1 /\ (n = MaxDeltas + 1 => c.sequence[n] \notin Deltas)
    BY DEF Coherent, Shape
  <2>2. item \in Deltas => n < MaxDeltas
    BY DEF MayYield
  <2>3. n = MaxDeltas + 1 => n \in 1..n
    BY <1>1, MaxDeltasAssumption
  <2> QED
    BY <1>1, <1>3, <2>1, <2>2, <2>3, MaxDeltasAssumption
<1>5. /\ e \in Calls /\ e.context = c.context /\ e.pump = c.pump /\ e.drain = c.drain
      /\ e.sequence = longer /\ e.over = c.over /\ e.sent = c.sent
      /\ e.pending = c.pending /\ e.text = c.text /\ e.result = c.result
  BY <1>1, LongerFields
<1>5a. d = IF e.drain = "parked" THEN Received(e)
           ELSE IF e.context = "cancelled" THEN [e EXCEPT !.pump = "leaving"]
           ELSE [e EXCEPT !.pump = "sending"]
  BY DEF AfterYield
<1> HIDE DEF longer, n, e, d
<1>6. Shape(e)
  <2>1. \A i \in 1..((n + 1) - 1) : i \in 1..n
    BY <1>1
  <2> QED
    BY <1>1, <1>2, <1>3, <1>4, <1>5, <2>1, MaxDeltasAssumption DEF Shape
<1>7. Kept(e)
  <2>1. {i \in 1..(c.pending - 1) : longer[i] = "text"}
          = {i \in 1..(c.pending - 1) : c.sequence[i] = "text"}
    <3>1. \A i \in 1..(c.pending - 1) : i \in 1..n
      BY <1>1
    <3> QED
      BY <1>2, <3>1
  <2>2. {i \in 1..(e.pending - 1) : e.sequence[i] = "text"}
          = {i \in 1..(c.pending - 1) : c.sequence[i] = "text"}
    BY <1>5, <2>1
  <2>3. InOrder(c.text, {i \in 1..(c.pending - 1) : c.sequence[i] = "text"})
    BY DEF Coherent, Kept
  <2>4. e.pending <= Len(e.sequence)
    BY <1>1, <1>2, <1>5
  <2>5. InOrder(e.text, {i \in 1..(e.pending - 1) : e.sequence[i] = "text"})
    BY <1>5, <2>2, <2>3
  <2> QED
    BY <2>4, <2>5 DEF Kept
<1>8. RanAway(longer) => RanAway(c.sequence) \/ item = "runaway"
  <2>1. \A i \in 1..(n + 1) : i \in 1..n \/ i = n + 1
    BY <1>1
  <2> QED
    BY <1>2, <2>1 DEF RanAway
<1>9. c # Unopened
  BY <1>1 DEF Unopened
<1>10. c.result.kind \notin Answering /\ (c.result.kind = "runaway" => RanAway(longer))
  <2>1. c.result.kind \notin Answering /\ (c.result.kind = "runaway" => RanAway(c.sequence))
    BY <1>1 DEF Coherent, Answered
  <2>2. RanAway(c.sequence) => RanAway(longer)
    <3>1. \A i \in 1..n : i \in 1..(n + 1)
      BY <1>1
    <3> QED
      BY <1>2, <3>1 DEF RanAway
  <2> QED
    BY <2>1, <2>2
<1>11. ASSUME c.drain = "parked" PROVE Steps(c, d)
  <2>1. Undecided(c) /\ c.pending = n /\ c.result = NoResult
    BY <1>1, <1>11 DEF Coherent, Awaits, Undecided, n
  <2>2. Offered(e)
    BY <1>1, <1>2, <1>5, <1>6, <1>7, <2>1 DEF Offered
  <2>3. d = Received(e)
    BY <1>5, <1>5a, <1>11
  <2>4. Coherent(d) /\ d.sequence = e.sequence /\ d.sent = e.sent
    BY <2>2, <2>3, ReceivedCoherent
  <2> QED
    <3>1. RanAway(d.sequence) => RanAway(c.sequence) \/ exhausted'
      BY <1>5, <1>8, <2>4
    <3>2. d.sent = c.sent
      BY <1>5, <2>4
    <3> QED
      BY <1>9, <2>1, <2>4, <3>1, <3>2 DEF Steps
<1>12. ASSUME c.drain # "parked", NEW pump \in {"leaving", "sending"}, d = [e EXCEPT !.pump = pump]
       PROVE  Steps(c, d)
  <2>1. /\ d \in Calls /\ d.pump = pump /\ d.drain = c.drain
        /\ d.sequence = longer /\ d.over = c.over /\ d.sent = c.sent
        /\ d.pending = c.pending /\ d.text = c.text /\ d.result = c.result
    BY <1>5, <1>12, PumpFields
  <2>2. Shape(d) /\ Kept(d)
    BY <1>5, <1>6, <1>7, <2>1 DEF Shape, Kept
  <2>3. Paced(d)
    BY <1>1, <1>12, <2>1 DEF Paced
  <2>4. Awaits(d)
    BY <1>1, <1>2, <2>1 DEF Coherent, Awaits, Undecided, n
  <2>5. Answered(d)
    BY <1>10, <2>1 DEF Answered
  <2> QED
    BY <1>8, <1>9, <2>1, <2>2, <2>3, <2>4, <2>5 DEF Steps, Coherent
<1>13. Steps(c, d)
  <2>1. CASE c.drain # "parked" /\ e.context = "cancelled"
    <3>1. d = [e EXCEPT !.pump = "leaving"]
      BY <1>5, <1>5a, <2>1
    <3> QED
      BY <1>12, <2>1, <3>1
  <2>2. CASE c.drain # "parked" /\ e.context # "cancelled"
    <3>1. d = [e EXCEPT !.pump = "sending"]
      BY <1>5, <1>5a, <2>2, Zenon
    <3> QED
      BY <1>12, <2>2, <3>1
  <2> QED
    BY <1>11, <2>1, <2>2
<1> QED
  BY <1>13 DEF d

LEMMA EndSteps ==
    ASSUME NEW c, Coherent(c), c.pump = "reading",
           Len(c.sequence) > 0 => c.sequence[Len(c.sequence)] \in Finals,
           NEW d, d = [c EXCEPT !.pump = "leaving", !.over = TRUE]
    PROVE  Steps(c, d)
<1>1. /\ d \in Calls /\ d.pump = "leaving" /\ d.drain = c.drain /\ d.sequence = c.sequence
      /\ d.over = TRUE /\ d.sent = c.sent /\ d.pending = c.pending /\ d.text = c.text
      /\ d.result = c.result
  BY DEF Coherent, Calls
<1>2. Shape(d) /\ Kept(d) /\ Paced(d) /\ Awaits(d) /\ Answered(d)
  BY <1>1 DEF Coherent, Shape, Kept, Paced, Awaits, Undecided, Answered
<1> QED
  BY <1>1, <1>2 DEF Steps, Coherent, Unopened

LEMMA CloseSteps ==
    ASSUME NEW c, Coherent(c), c.pump = "leaving",
           NEW e, e = [c EXCEPT !.pump = "closed"],
           NEW d, d = IF e.drain = "parked" THEN Completed(e) ELSE e
    PROVE  Steps(c, d)
<1>1. /\ e \in Calls /\ e.pump = "closed" /\ e.drain = c.drain /\ e.sequence = c.sequence
      /\ e.over = c.over /\ e.sent = c.sent /\ e.pending = c.pending /\ e.text = c.text
      /\ e.result = c.result
  BY DEF Coherent, Calls
<1>2. Shape(e) /\ Kept(e) /\ Paced(e) /\ Awaits(e) /\ Answered(e)
  BY <1>1 DEF Coherent, Shape, Kept, Paced, Awaits, Undecided, Answered
<1>3. Coherent(e) /\ c # Unopened
  BY <1>1, <1>2 DEF Coherent, Unopened
<1>4. CASE e.drain = "parked"
  BY <1>1, <1>3, <1>4, CompletedCoherent DEF Steps, Undecided
<1>5. CASE e.drain # "parked"
  BY <1>1, <1>3, <1>5 DEF Steps
<1> QED
  BY <1>4, <1>5

LEMMA QuitSteps ==
    ASSUME NEW c, Coherent(c), Undecided(c), NEW kind \in {"cause", "stalled"},
           NEW d, d = Returned(c, kind, <<>>)
    PROVE  Steps(c, d)
<1>1. kind \in ResultKinds /\ <<>> \in Seq(Nat) /\ kind \notin Answering \cup {"runaway"}
  BY DEF ResultKinds, Answering, Deltas, Finals
<1>2. c \in Calls /\ Shape(c) /\ Kept(c) /\ Paced(c)
  BY DEF Coherent
<1>3. Coherent(d)
  BY <1>1, <1>2, ReturnedCoherent
<1>4. d.sequence = c.sequence /\ d.sent = c.sent
  BY <1>1, <1>2, ReturnedFields
<1>5. c # Unopened
  BY DEF Undecided, Unopened
<1> QED
  BY <1>3, <1>4, <1>5 DEF Steps

LEMMA DrainSteps ==
    ASSUME NEW a \in 1..Attempts, NEW c, c = call[a], Coherent(c), Drain(a),
           call \in [1..Attempts -> Calls]
    PROVE  Steps(c, call'[a]) /\ \A b \in (1..Attempts) \ {a} : call'[b] = call[b]
<1>1. Undecided(c) /\ c # Unopened /\ c \in Calls
  BY DEF Drain, DrainTakes, DrainSeesClose, DrainSeesCancel, DrainParks, Undecided, Unopened,
         Coherent
<1>2. CASE DrainTakes(a)
  <2>1. call' = [call EXCEPT ![a] = Received(c)] /\ c.pump = "sending"
    BY <1>2 DEF DrainTakes, Become
  <2>2. Offered(c)
    BY <1>1, <2>1 DEF Offered, Coherent, Awaits, Paced
  <2> QED
    BY <1>1, <2>1, <2>2, ReceivedCoherent DEF Steps
<1>3. CASE DrainSeesClose(a)
  <2>1. call' = [call EXCEPT ![a] = Completed(c)] /\ c.pump = "closed"
    BY <1>3 DEF DrainSeesClose, Become
  <2> QED
    BY <1>1, <2>1, CompletedCoherent DEF Steps
<1>4. CASE DrainSeesCancel(a)
  <2>1. call' = [call EXCEPT ![a] = Returned(c, "cause", <<>>)]
    BY <1>4 DEF DrainSeesCancel, Become
  <2> QED
    BY <1>1, <2>1, QuitSteps
<1>5. CASE DrainParks(a)
  <2> DEFINE d == [c EXCEPT !.drain = "parked"]
  <2>1. call' = [call EXCEPT ![a] = d]
    BY <1>5 DEF DrainParks, Become
  <2>2. /\ d \in Calls /\ d.pump = c.pump /\ d.drain = "parked" /\ d.sequence = c.sequence
        /\ d.over = c.over /\ d.sent = c.sent /\ d.pending = c.pending /\ d.text = c.text
        /\ d.result = c.result
    BY <1>1 DEF Calls
  <2> HIDE DEF d
  <2>3. Shape(d) /\ Kept(d) /\ Paced(d) /\ Awaits(d) /\ Answered(d)
    BY <1>1, <2>2 DEF Coherent, Shape, Kept, Paced, Awaits, Undecided, Answered
  <2> QED
    BY <1>1, <2>1, <2>2, <2>3 DEF Steps, Coherent
<1> QED
  BY <1>2, <1>3, <1>4, <1>5 DEF Drain

LEMMA InterruptedSteps ==
    ASSUME NEW c, Coherent(c), c.context = "live"
    PROVE  Steps(c, Interrupted(c))
<1>1. c # Unopened /\ c \in Calls
  BY DEF Unopened, Coherent
<1>2. CASE c.drain = "parked"
  BY <1>2, QuitSteps DEF Interrupted, Undecided
<1>3. CASE c.drain # "parked"
  BY <1>1, <1>3, CancelledCoherent, CancelledFields DEF Interrupted, Steps
<1> QED
  BY <1>2, <1>3

LEMMA BecomeFields ==
    ASSUME call \in [1..Attempts -> Calls], NEW a \in 1..Attempts, NEW c \in Calls, Become(a, c)
    PROVE  /\ call' \in [1..Attempts -> Calls]
           /\ call'[a] = c
           /\ \A b \in (1..Attempts) \ {a} : call'[b] = call[b]
BY DEF Become

(* A step of an attempt, or of several, the ladder staying where it is.    *)
LEMMA Sideways ==
    ASSUME LadderTypeOK, StreamInv,
           UNCHANGED <<ladder, attempt, off>>, exhausted => exhausted',
           \A a \in 1..Attempts : call'[a] = call[a] \/ Steps(call[a], call'[a])
    PROVE  StreamInv'
<1>1. attempt \in Nat /\ ladder' = ladder /\ attempt' = attempt /\ off' = off
  BY DEF LadderTypeOK
<1>2. ASSUME NEW a \in 1..Attempts PROVE Coherent(call'[a])
  BY DEF StreamInv, Steps
<1>3. ASSUME NEW a \in 1..Attempts, a > attempt PROVE call[a] = Unopened /\ call'[a] = Unopened
  BY <1>3 DEF StreamInv, Climbed, Steps
<1>4. ASSUME NEW a \in 1..Attempts, a < attempt \/ (a = attempt /\ ladder # "calling")
      PROVE  call'[a].drain = "yielded" /\ call'[a].result = call[a].result
  <2>1. call[a].drain = "yielded"
    BY <1>4 DEF StreamInv, Climbed
  <2> QED
    BY <2>1 DEF Steps, Undecided
<1>5. Climbed'
  <2>1. ladder' = "calling" => attempt' > 0
    BY <1>1 DEF StreamInv, Climbed
  <2>2. ASSUME NEW a \in 1..Attempts
        PROVE  /\ a > attempt' => call'[a] = Unopened
               /\ a < attempt' \/ (a = attempt' /\ ladder' # "calling") =>
                     call'[a].drain = "yielded"
    BY <1>1, <1>3, <1>4
  <2> QED
    BY <2>1, <2>2 DEF Climbed
<1>6. ASSUME NEW a \in 1..Attempts PROVE RanAway(call'[a].sequence) => exhausted'
  BY DEF StreamInv, Budget, Steps
<1>7. ASSUME NEW a \in 1..Attempts, RunsAway(call'[a]),
             a < attempt \/ (a = attempt /\ ladder = "waiting")
      PROVE  off
  <2>1. RunsAway(call[a])
    BY <1>4, <1>7 DEF RunsAway
  <2> QED
    BY <1>7, <2>1 DEF StreamInv, Budget
<1>8. ASSUME NEW a \in 1..Attempts, NEW b \in 1..Attempts, a < b, call'[a].result.kind = "runaway"
      PROVE  call'[b].sent # "reasoning"
  <2>1. CASE b > attempt
    BY <1>3, <2>1 DEF Unopened
  <2>2. CASE b <= attempt
    <3>1. a < attempt
      BY <1>1, <1>8, <2>2
    <3>2. call[a].result.kind = "runaway" /\ off
      BY <1>4, <1>7, <1>8, <3>1 DEF RunsAway
    <3>3. call[b].sent # "reasoning"
      BY <1>8, <3>2 DEF StreamInv, Budget, RunawayIsNotRepeated
    <3> QED
      BY <3>2, <3>3 DEF Steps
  <2> QED
    BY <1>1, <2>1, <2>2
<1>9. Budget'
  <2>1. RunawayIsNotRepeated'
    BY <1>8 DEF RunawayIsNotRepeated
  <2> QED
    BY <1>1, <1>6, <1>7, <2>1 DEF Budget, RunsAway
<1> QED
  BY <1>2, <1>5, <1>9 DEF StreamInv

(* A step of one attempt.                                                  *)
LEMMA OneSteps ==
    ASSUME LadderTypeOK, call \in [1..Attempts -> Calls], StreamInv,
           UNCHANGED <<ladder, attempt, off>>, exhausted => exhausted',
           NEW a \in 1..Attempts, NEW d, Become(a, d), Steps(call[a], d)
    PROVE  call' \in [1..Attempts -> Calls] /\ StreamInv'
<1>1. d \in Calls
  BY DEF Steps, Coherent
<1>2. /\ call' \in [1..Attempts -> Calls] /\ call'[a] = d
      /\ \A b \in (1..Attempts) \ {a} : call'[b] = call[b]
  BY <1>1, BecomeFields
<1>3. \A b \in 1..Attempts : call'[b] = call[b] \/ Steps(call[b], call'[b])
  BY <1>2
<1> QED
  BY <1>2, <1>3, Sideways

LEMMA AttemptStep ==
    ASSUME LadderTypeOK, call \in [1..Attempts -> Calls], StreamInv, NEW a \in 1..Attempts,
           \/ Ask(a)
           \/ \E item \in Deltas \cup Finals \cup Errors : InnerYields(a, item)
           \/ SequenceEnds(a)
           \/ PumpCloses(a)
           \/ Drain(a)
           \/ IdleTimer(a)
           \/ AttemptDeadline(a)
    PROVE  call' \in [1..Attempts -> Calls] /\ StreamInv'
<1> DEFINE c == call[a]
<1>1. Coherent(c)
  BY DEF StreamInv
<1>2. ASSUME UNCHANGED ladderVars, NEW d, Become(a, d), Steps(c, d)
      PROVE  call' \in [1..Attempts -> Calls] /\ StreamInv'
  BY <1>2, OneSteps DEF ladderVars
<1>3. CASE Ask(a)
  BY <1>1, <1>2, <1>3, AskSteps DEF Ask
<1>4. ASSUME NEW item \in Deltas \cup Finals \cup Errors, InnerYields(a, item)
      PROVE  call' \in [1..Attempts -> Calls] /\ StreamInv'
  <2>1. MayYield(c, item) /\ Become(a, AfterYield(c, item))
    BY <1>4 DEF InnerYields, AfterYield, Longer
  <2>2. /\ UNCHANGED <<ladder, attempt, off>> /\ (exhausted => exhausted')
        /\ (item = "runaway" => exhausted')
    BY <1>4 DEF InnerYields, ReasoningExhausted, ladderVars
  <2>3. Steps(c, AfterYield(c, item))
    BY <1>1, <2>1, <2>2, YieldSteps
  <2> QED
    BY <2>1, <2>2, <2>3, OneSteps
<1>5. CASE SequenceEnds(a)
  <2>1. Len(c.sequence) > 0 => c.sequence[Len(c.sequence)] \in Finals
    <3>1. c.sequence \in Seq(Deltas \cup Finals \cup Errors)
      BY <1>1 DEF Coherent, Calls
    <3>2. Len(c.sequence) > 0 => Len(c.sequence) \in DOMAIN c.sequence
      BY <3>1
    <3> QED
      BY <1>5, <3>2 DEF SequenceEnds
  <2> QED
    BY <1>1, <1>2, <1>5, <2>1, EndSteps DEF SequenceEnds
<1>6. CASE PumpCloses(a)
  <2> DEFINE e == [c EXCEPT !.pump = "closed"]
             d == IF e.drain = "parked" THEN Completed(e) ELSE e
  <2>1. c.pump = "leaving" /\ Become(a, d) /\ UNCHANGED ladderVars
    BY <1>6 DEF PumpCloses
  <2>2. Steps(c, d)
    BY <1>1, <2>1, CloseSteps
  <2> QED
    BY <1>2, <2>1, <2>2
<1>7. CASE Drain(a)
  <2>1. /\ Steps(c, call'[a])
        /\ \A b \in (1..Attempts) \ {a} : call'[b] = call[b]
    BY <1>1, <1>7, DrainSteps
  <2>2. UNCHANGED ladderVars /\ \E d : Become(a, d)
    BY <1>7 DEF Drain, DrainTakes, DrainSeesClose, DrainSeesCancel, DrainParks
  <2>3. PICK d : Become(a, d)
    BY <2>2
  <2>4. call'[a] = d
    BY <2>3 DEF Become
  <2> QED
    BY <1>2, <2>1, <2>2, <2>3, <2>4
<1>8. CASE IdleTimer(a)
  BY <1>1, <1>2, <1>8, QuitSteps DEF IdleTimer, Undecided
<1>9. CASE AttemptDeadline(a)
  BY <1>1, <1>2, <1>9, InterruptedSteps DEF AttemptDeadline
<1> QED
  BY <1>3, <1>4, <1>5, <1>6, <1>7, <1>8, <1>9

LEMMA CallerStep ==
    ASSUME LadderTypeOK, call \in [1..Attempts -> Calls], StreamInv, CallerCancels
    PROVE  call' \in [1..Attempts -> Calls] /\ StreamInv'
<1>1. call' = [a \in 1..Attempts |-> IF call[a].context = "live"
                                     THEN Interrupted(call[a]) ELSE call[a]]
  BY DEF CallerCancels
<1>2. ASSUME NEW a \in 1..Attempts
      PROVE  call'[a] = call[a] \/ Steps(call[a], call'[a])
  <2>1. CASE call[a].context = "live"
    <3>1. call'[a] = Interrupted(call[a])
      BY <1>1, <2>1
    <3>2. Coherent(call[a])
      BY DEF StreamInv
    <3>3. Steps(call[a], Interrupted(call[a]))
      BY <2>1, <3>2, InterruptedSteps
    <3> QED
      BY <3>1, <3>3
  <2>2. CASE call[a].context # "live"
    BY <1>1, <2>2
  <2> QED
    BY <2>1, <2>2
<1>3. UNCHANGED <<ladder, attempt, off, exhausted>>
  BY DEF CallerCancels, CallerLeaves
<1>4. StreamInv'
  BY <1>2, <1>3, Sideways
<1>5. \A a \in 1..Attempts : call'[a] \in Calls
  BY <1>4 DEF StreamInv, Coherent
<1> QED
  BY <1>1, <1>4, <1>5

LEMMA OpenStep ==
    ASSUME LadderTypeOK, call \in [1..Attempts -> Calls], StreamInv, OpenAttempt
    PROVE  call' \in [1..Attempts -> Calls] /\ StreamInv'
<1> DEFINE context == IF caller = "gone" THEN "cancelled" ELSE "live"
           d == [Unopened EXCEPT !.context = context, !.pump = "asking", !.drain = "running"]
           new == attempt + 1
<1>1. /\ ladder = "waiting" /\ ladder' = "calling" /\ attempt' = new /\ off' = off
      /\ exhausted' = exhausted /\ new \in 1..Attempts /\ attempt \in Nat
  <2>1. BeginAttempt
    BY DEF OpenAttempt
  <2>2. attempt \in 0..Attempts
    BY DEF LadderTypeOK
  <2>3. /\ ladder = "waiting" /\ ladder' = "calling" /\ attempt' = attempt + 1 /\ off' = off
        /\ exhausted' = exhausted /\ attempt < Attempts
    BY <2>1 DEF BeginAttempt
  <2>4. attempt + 1 \in 1..Attempts /\ attempt \in Nat
    BY <2>2, <2>3, AttemptsAssumption
  <2> QED
    BY <2>3, <2>4
<1>2. context \in {"cancelled", "live"} /\ Become(new, d)
  BY DEF OpenAttempt
<1> HIDE DEF context
<1>3. /\ d \in Calls /\ d.pump = "asking" /\ d.drain = "running" /\ d.sequence = <<>>
      /\ d.over = FALSE /\ d.sent = "no" /\ d.pending = 0 /\ d.text = <<>> /\ d.result = NoResult
  BY <1>2, LiteralType DEF Unopened, Calls
<1> HIDE DEF d
<1>4. /\ call' \in [1..Attempts -> Calls] /\ call'[new] = d
      /\ \A b \in (1..Attempts) \ {new} : call'[b] = call[b]
  BY <1>1, <1>2, <1>3, BecomeFields
<1>5. Coherent(d)
  <2>1. Len(<<>>) = 0 /\ DOMAIN <<>> = {} /\ MaxDeltas + 1 \in Nat /\ MaxDeltas + 1 > 0
    BY MaxDeltasAssumption
  <2>2. Shape(d)
    BY <1>3, <2>1, MaxDeltasAssumption DEF Shape
  <2>3. InOrder(<<>>, {i \in 1..(0 - 1) : d.sequence[i] = "text"})
    BY DEF InOrder
  <2>4. Kept(d)
    BY <1>3, <2>1, <2>3 DEF Kept
  <2>5. Paced(d) /\ Awaits(d)
    BY <1>3, <2>1 DEF Paced, Awaits
  <2>6. Answered(d)
    BY <1>3 DEF Answered, NoResult, Answering, Deltas, Finals
  <2> QED
    BY <1>3, <2>2, <2>4, <2>5, <2>6 DEF Coherent
<1>6. \A a \in 1..Attempts : Coherent(call'[a])
  BY <1>4, <1>5 DEF StreamInv
<1>7. Climbed'
  <2>1. ASSUME NEW a \in 1..Attempts, a > new PROVE call'[a] = Unopened
    BY <1>1, <1>4, <2>1 DEF StreamInv, Climbed
  <2>2. ASSUME NEW a \in 1..Attempts, a < new PROVE call'[a].drain = "yielded"
    <3>1. a < attempt \/ a = attempt
      BY <1>1, <2>2
    <3>2. call[a].drain = "yielded"
      BY <1>1, <3>1 DEF StreamInv, Climbed
    <3> QED
      BY <1>1, <1>4, <2>2, <3>2
  <2>3. new > 0
    BY <1>1
  <2> QED
    BY <1>1, <2>1, <2>2, <2>3 DEF Climbed
<1>8. ~RunsAway(d) /\ ~RanAway(d.sequence)
  BY <1>3 DEF RunsAway, RanAway, NoResult
<1>9. ASSUME NEW a \in 1..Attempts PROVE RanAway(call'[a].sequence) => exhausted
  BY <1>4, <1>8 DEF StreamInv, Budget
<1>10. ASSUME NEW a \in 1..Attempts, RunsAway(call'[a])
       PROVE  call'[a] = call[a] /\ (a < new => off)
  <2>1. a # new /\ call'[a] = call[a]
    BY <1>4, <1>8, <1>10
  <2>2. a < new => a < attempt \/ a = attempt
    BY <1>1
  <2> QED
    BY <1>1, <1>10, <2>1, <2>2 DEF StreamInv, Budget
<1>11. RunawayIsNotRepeated'
  <2>1. ASSUME NEW a \in 1..Attempts, NEW b \in 1..Attempts, a < b,
               call'[a].result.kind = "runaway"
        PROVE  call'[b].sent # "reasoning"
    <3>1. call[a].result.kind = "runaway"
      BY <1>10, <2>1 DEF RunsAway
    <3>2. CASE b = new
      BY <1>3, <1>4, <3>2
    <3>3. CASE b # new
      BY <1>4, <2>1, <3>1, <3>3 DEF StreamInv, Budget, RunawayIsNotRepeated
    <3> QED
      BY <3>2, <3>3
  <2> QED
    BY <2>1 DEF RunawayIsNotRepeated
<1>12. Budget'
  <2>1. ASSUME NEW a \in 1..Attempts, RunsAway(call'[a]),
               a < attempt' \/ (a = attempt' /\ ladder' = "waiting")
        PROVE  off'
    BY <1>1, <1>10, <2>1
  <2> QED
    BY <1>1, <1>9, <1>11, <2>1 DEF Budget, RunsAway
<1> QED
  BY <1>4, <1>6, <1>7, <1>12 DEF StreamInv

(* What a step of the ladder that ends an attempt's turn does to the       *)
(* reasoning budget.                                                       *)
Settled ==
    /\ ladder = "calling" /\ attempt' = attempt /\ exhausted' = exhausted
    /\ off => off'
    /\ ladder' = "waiting" /\ exhausted => off'

LEMMA TurnSettles ==
    /\ \A item : Receive(item) => Settled
    /\ InnerEnds => Settled
<1>1. ASSUME ladder = "calling", Done PROVE Settled
  BY <1>1 DEF Done, Settled
<1>2. ASSUME ladder = "calling", Retry PROVE Settled
  BY <1>2, Zenon DEF Retry, Settled
<1>3. ASSUME NEW item, Receive(item) PROVE Settled
  <2>1. ladder = "calling"
    BY <1>3 DEF Receive
  <2>2. Done \/ Retry \/ UNCHANGED <<ladder, attempt, observed, caller, exhausted, off>>
    BY <1>3 DEF Receive, PermanentError, TransientError, PartialResponse, UnusableResponse, Answer
  <2>3. CASE UNCHANGED <<ladder, attempt, observed, caller, exhausted, off>>
    BY <2>1, <2>3 DEF Settled
  <2> QED
    BY <1>1, <1>2, <2>1, <2>2, <2>3
<1>4. ASSUME InnerEnds PROVE Settled
  BY <1>1, <1>2, <1>4 DEF InnerEnds
<1> QED
  BY <1>3, <1>4

(* The item of an attempt that has returned reaches the ladder, or the     *)
(* sequence after it is over.                                              *)
LEMMA SettledStep ==
    ASSUME LadderTypeOK, call \in [1..Attempts -> Calls], StreamInv, Settled, attempt > 0,
           call[attempt].drain \in {"returned", "yielded"},
           Become(attempt, [call[attempt] EXCEPT !.drain = "yielded"])
    PROVE  call' \in [1..Attempts -> Calls] /\ StreamInv'
<1> DEFINE c == call[attempt]
           d == [c EXCEPT !.drain = "yielded"]
<1>1. attempt \in 1..Attempts /\ Coherent(c) /\ c \in Calls
  BY DEF LadderTypeOK, StreamInv
<1>2. /\ d \in Calls /\ d.pump = c.pump /\ d.drain = "yielded" /\ d.sequence = c.sequence
      /\ d.over = c.over /\ d.sent = c.sent /\ d.pending = c.pending /\ d.text = c.text
      /\ d.result = c.result
  BY <1>1 DEF Calls
<1>3. Become(attempt, d)
  OBVIOUS
<1> HIDE DEF d
<1>4. Coherent(d)
  <2>1. Shape(d) /\ Kept(d) /\ Paced(d) /\ Awaits(d) /\ Answered(d)
    BY <1>1, <1>2 DEF Coherent, Shape, Kept, Paced, Awaits, Undecided, Answered
  <2> QED
    BY <1>2, <2>1 DEF Coherent
<1>5. /\ call' \in [1..Attempts -> Calls] /\ call'[attempt] = d
      /\ \A b \in (1..Attempts) \ {attempt} : call'[b] = call[b]
  BY <1>1, <1>2, <1>3, BecomeFields
<1>6. \A a \in 1..Attempts :
          /\ Coherent(call'[a])
          /\ call'[a].sequence = call[a].sequence
          /\ call'[a].result = call[a].result
          /\ call'[a].sent = call[a].sent
  BY <1>1, <1>2, <1>4, <1>5 DEF StreamInv
<1>7. Climbed'
  <2>1. ASSUME NEW a \in 1..Attempts, a > attempt PROVE call'[a] = Unopened
    BY <1>1, <1>5, <2>1 DEF StreamInv, Climbed
  <2>2. ASSUME NEW a \in 1..Attempts, a < attempt \/ a = attempt PROVE call'[a].drain = "yielded"
    BY <1>1, <1>2, <1>5, <2>2 DEF StreamInv, Climbed
  <2> QED
    BY <2>1, <2>2 DEF Settled, Climbed
<1>8. Budget'
  <2>1. ASSUME NEW a \in 1..Attempts PROVE RanAway(call'[a].sequence) => exhausted'
    BY <1>6 DEF StreamInv, Budget, Settled
  <2>2. ASSUME NEW a \in 1..Attempts, RunsAway(call'[a]),
               a < attempt \/ (a = attempt /\ ladder' = "waiting")
        PROVE  off'
    <3>1. RunsAway(call[a])
      BY <1>6, <2>2 DEF RunsAway
    <3>2. CASE a < attempt
      BY <3>1, <3>2 DEF StreamInv, Budget, Settled
    <3>3. CASE a = attempt /\ ladder' = "waiting"
      <4>1. RanAway(call[a].sequence)
        BY <3>1 DEF RunsAway, StreamInv, Coherent, Answered
      <4> QED
        BY <3>3, <4>1 DEF StreamInv, Budget, Settled
    <3> QED
      BY <2>2, <3>2, <3>3
  <2>3. RunawayIsNotRepeated'
    BY <1>6 DEF StreamInv, Budget, RunawayIsNotRepeated
  <2> QED
    BY <2>1, <2>2, <2>3 DEF Budget, RunsAway, Settled
<1> QED
  BY <1>5, <1>6, <1>7, <1>8 DEF StreamInv

LEMMA ClimbStep ==
    ASSUME LadderTypeOK, call \in [1..Attempts -> Calls], StreamInv, Climb
    PROVE  call' \in [1..Attempts -> Calls] /\ StreamInv'
<1>1. CASE OpenAttempt
  BY <1>1, OpenStep
<1>2. CASE Deliver
  BY <1>2, TurnSettles, SettledStep DEF Deliver
<1>3. CASE DeliveredAll
  <2>1. attempt \in 1..Attempts /\ call[attempt] \in Calls
    BY <1>3 DEF DeliveredAll, LadderTypeOK
  <2>2. [call[attempt] EXCEPT !.drain = "yielded"] = call[attempt]
    BY <1>3, <2>1 DEF DeliveredAll, Calls
  <2>3. Become(attempt, call[attempt])
    BY <1>3, <2>1 DEF DeliveredAll, Become
  <2> QED
    BY <1>3, <2>2, <2>3, TurnSettles, SettledStep DEF DeliveredAll
<1>4. CASE (CancelledInBackoff \/ LadderSpent) /\ UNCHANGED call
  <2>1. /\ ladder = "waiting" /\ ladder' = "returned" /\ call' = call
        /\ UNCHANGED <<attempt, exhausted, off>>
    BY <1>4 DEF CancelledInBackoff, LadderSpent
  <2>2. Climbed'
    BY <2>1 DEF StreamInv, Climbed
  <2>3. Budget'
    BY <2>1 DEF StreamInv, Budget, RunawayIsNotRepeated
  <2> QED
    BY <2>1, <2>2, <2>3 DEF StreamInv
<1> QED
  BY <1>1, <1>2, <1>3, <1>4 DEF Climb

LEMMA StreamInvInit == StreamInit => StreamTypeOK /\ StreamInv
<1> SUFFICES ASSUME StreamInit PROVE StreamTypeOK /\ StreamInv
  OBVIOUS
<1>1. LadderTypeOK
  BY LadderTypeInit DEF StreamInit
<1>2. /\ call = [a \in 1..Attempts |-> Unopened] /\ attempt = 0 /\ ladder = "waiting"
      /\ exhausted = FALSE
  BY DEF StreamInit, LadderInit
<1>3. call \in [1..Attempts -> Calls] /\ \A a \in 1..Attempts : call[a] = Unopened
  BY <1>2, LiteralType
<1> DEFINE c == Unopened
<1>4. /\ c.pump = "unopened" /\ c.drain = "unopened" /\ c.sequence = <<>> /\ c.over = FALSE
      /\ c.sent = "no" /\ c.pending = 0 /\ c.text = <<>> /\ c.result = NoResult
  BY DEF Unopened
<1>5. c \in Calls
  BY LiteralType
<1> HIDE DEF c
<1>6. Coherent(c)
  <2>1. Len(<<>>) = 0 /\ MaxDeltas + 1 \in Nat /\ MaxDeltas + 1 > 0
    BY MaxDeltasAssumption
  <2>2. Shape(c)
    BY <1>4, <2>1, MaxDeltasAssumption DEF Shape
  <2>3. InOrder(<<>>, {i \in 1..(0 - 1) : c.sequence[i] = "text"})
    BY DEF InOrder
  <2>4. Kept(c)
    BY <1>4, <2>1, <2>3 DEF Kept
  <2>5. Paced(c) /\ Awaits(c)
    BY <1>4, <2>1 DEF Paced, Awaits, Undecided
  <2>6. Answered(c)
    BY <1>4 DEF Answered, NoResult, Answering, Deltas, Finals
  <2> QED
    BY <1>5, <2>2, <2>4, <2>5, <2>6 DEF Coherent
<1>7. Climbed
  BY <1>2, <1>3 DEF Climbed
<1>8. ~RunsAway(c) /\ ~RanAway(c.sequence) /\ c.result.kind # "runaway"
  BY <1>4 DEF RunsAway, RanAway, NoResult
<1>9. Budget
  BY <1>3, <1>8 DEF Budget, RunawayIsNotRepeated, c
<1> QED
  BY <1>1, <1>3, <1>6, <1>7, <1>9 DEF StreamTypeOK, StreamInv, c

LEMMA StreamInvStep ==
    ASSUME StreamTypeOK, StreamInv, [StreamNext]_streamVars
    PROVE  StreamTypeOK' /\ StreamInv'
<1>1. LadderTypeOK /\ call \in [1..Attempts -> Calls]
  BY DEF StreamTypeOK
<1>2. LadderTypeOK'
  BY <1>1, StreamStepIsLadderStep, LadderTypeStep
<1>3. CASE Climb
  BY <1>1, <1>2, <1>3, ClimbStep DEF StreamTypeOK
<1>4. CASE CallerCancels
  BY <1>1, <1>2, <1>4, CallerStep DEF StreamTypeOK
<1>5. ASSUME NEW a \in 1..Attempts,
             \/ Ask(a)
             \/ \E item \in Deltas \cup Finals \cup Errors : InnerYields(a, item)
             \/ SequenceEnds(a)
             \/ PumpCloses(a)
             \/ Drain(a)
             \/ IdleTimer(a)
             \/ AttemptDeadline(a)
      PROVE  StreamTypeOK' /\ StreamInv'
  BY <1>1, <1>2, <1>5, AttemptStep DEF StreamTypeOK
<1>6. CASE UNCHANGED streamVars
  <2>1. call' = call /\ UNCHANGED <<ladder, attempt, exhausted, off>>
    BY <1>6 DEF streamVars, ladderVars
  <2> QED
    BY <1>1, <1>2, <2>1 DEF StreamTypeOK, StreamInv, Climbed, Budget, RunawayIsNotRepeated
<1> QED
  BY <1>3, <1>4, <1>5, <1>6 DEF StreamNext

(* Every reachable state of the streamed call has its declared types.      *)
THEOREM StreamTypeCorrect == StreamSpec => []StreamTypeOK
BY StreamInvInit, StreamInvStep, PTL DEF StreamSpec

(* However the pump, drain, the timers and the caller interleave, an       *)
(* answer rebuilt from a sequence that ended by itself is every text delta *)
(* once and in order, or its aggregated item.                              *)
THEOREM AnswerIsWhole == StreamSpec => []AnswerIsTheWholeStream
<1>1. StreamSpec => [](StreamTypeOK /\ StreamInv)
  BY StreamInvInit, StreamInvStep, PTL DEF StreamSpec
<1>2. StreamInv => AnswerIsTheWholeStream
  BY DEF StreamInv, Coherent, Answered, Answering, IsWhole, AnswerIsTheWholeStream, WholeStream
<1> QED
  BY <1>1, <1>2, PTL

(* No request after an attempt that ended on a reasoning-only cutoff goes  *)
(* out with reasoning on.                                                  *)
THEOREM RunawayStaysOff == StreamSpec => []RunawayIsNotRepeated
<1>1. StreamSpec => [](StreamTypeOK /\ StreamInv)
  BY StreamInvInit, StreamInvStep, PTL DEF StreamSpec
<1>2. StreamInv => RunawayIsNotRepeated
  BY DEF StreamInv, Budget
<1> QED
  BY <1>1, <1>2, PTL

=============================================================================
