----------------------------- MODULE CallProofs -----------------------------
(***************************************************************************)
(* Theorems about the fallback chain and about a whole call, for all       *)
(* options, chunks and bounds.                                             *)
(*                                                                         *)
(* First the chain alone.  IInv is its inductive invariant: the types, and *)
(* what each place of the chain goroutine may take for granted about the   *)
(* bodies, the leg budget, the events and the turn.  The five ways an      *)
(* attempt fails differ only in what they take from the turn, so they are  *)
(* brought to one form first.                                              *)
(*                                                                         *)
(* Then the call.  Its chain takes only steps of Chain, so what is proved  *)
(* of Chain holds here as well.  Told adds what the log tells at each      *)
(* place of the chain goroutine, above all that the text deltas of the     *)
(* attempt the turn belongs to, joined, are the turn's text; Relayed is    *)
(* what the pump keeps.  The sequence of events that DeltasOf runs over    *)
(* has any length, so its lemmas are by induction.                         *)
(***************************************************************************)
EXTENDS Call, Foundations

-----------------------------------------------------------------------------
(* The fallback chain.                                                     *)

(* The ways an attempt fails, by the place it fails at.                    *)
FailsWith(err, t, events, d) ==
  /\ Fail(err, t, events, d)
  /\ d = commitFailure(Classify(err), t.emitted)
  /\ \/ at = "trying" /\ err = "prepare" /\ t = EmptyTurn /\ events = <<>>
     \/ at = "settling" /\ t = turn /\ events = <<>>
     \/ at = "guarding" /\ err # "budget" /\ t = turn /\ events = <<>>
     \/ /\ at = "streaming" /\ (err = "budget" => cause = "budget")
        /\ t = Flushed /\ events = FlushEvents

AttemptFails ==
  \E err \in Failures, t \in Turn, events \in Seq(Emission), d \in Dispositions :
    FailsWith(err, t, events, d)

(* Next with the failures of an attempt brought together.                  *)
Step ==
  \/ Refuse \/ Start \/ NextModel \/ Exhausted
  \/ BackoffCancelled \/ BackoffElapsed
  \/ Prepare \/ Disarm \/ Accept \/ finishFailed
  \/ DoFails \/ Probe \/ StatusFails \/ Answered
  \/ \E c \in Chunk : Line(c)
  \/ StreamEnds
  \/ Cancel \/ Expire \/ BudgetSpent \/ TimerFires \/ TimerRuns
  \/ AttemptFails

-----------------------------------------------------------------------------
(* The inductive invariant.                                                *)

Quiet == {"start", "picking", "backoff", "trying", "sending", "failing", "over"}

Asked == {"sending", "answered", "settling"}

Reading == {"streaming", "guarding"}

(* At most the body of the current response is open, and only while it is  *)
(* looked at.                                                              *)
Bodies ==
  /\ open \subseteq {currentResponse}
  /\ at \in Quiet => open = {}

(* The timer lives from the request to the response; nothing of a response *)
(* has been seen until then.                                               *)
Budget ==
  /\ cause = "budget" => timer = "ran"
  /\ timer # "off" => at \in Asked
  /\ at \in Asked => ~turn.emitted
  /\ at \notin Reading \cup {"over"} => ~filter.token
  /\ BudgetOnlyBeforeResponse

(* While a leg can still be tried, a committed call has emitted nothing;   *)
(* what an attempt under way has emitted is its own and shows in emitted.  *)
NoAnswers(s) == \A i \in 1..Len(s) : s[i].kind \notin AnswerEvents

AnswersBy(s, n) ==
  \A i \in 1..Len(s) : s[i].kind \in AnswerEvents => s[i].by = n

Committed ==
  opts.commit =>
    /\ at \in Asked \cup {"start", "picking", "backoff", "trying"} =>
          NoAnswers(log)
    /\ at \in Reading =>
          AnswersBy(log, current) /\ (turn.emitted \/ NoAnswers(log))

(* What a turn holds comes from attempt n.                                 *)
TurnBy(n) ==
  /\ \A i \in 1..Len(turn.content) : turn.content[i].by = n
  /\ turn.items \subseteq {n}

(* Between attempts the turn is the last attempt's, then the current one's.*)
Turns ==
  /\ at \in {"start", "picking", "backoff", "trying", "failing"} =>
       /\ TurnBy(Len(attempts))
       /\ turn.ident # 0 => /\ Len(attempts) > 0
                            /\ turn.ident = lastAttempt.leg
  /\ at \in Asked \cup Reading => TurnBy(current) /\ turn.ident = leg
  /\ at # "over" => result = NoResult

(* The leg, and the last attempt on it: what the policy of Fallback would  *)
(* say when the chain is about to try, to wait, to pick or to give up.     *)
WillRetry ==
  /\ leg # 0 /\ Tried
  /\ lastAttempt.disposition = "retry" /\ lastAttempt.retry + 1 = retry

WillLeave ==
  \/ leg = 0
  \/ /\ Tried
     /\ \/ lastAttempt.disposition = "advance"
        \/ /\ lastAttempt.disposition = "retry"
           /\ lastAttempt.retry + 1 = MaxRetries \/ spent

Legs ==
  /\ at \notin {"start", "over"} => opts.valid
  /\ leg \notin remaining
  /\ leg = 0 => attempts = <<>>
  /\ at = "start" => leg = 0
  /\ Len(attempts) > 0 => lastAttempt.leg \notin remaining
  /\ at \in Asked \cup Reading \cup {"trying"} =>
       leg # 0 /\ (WillRetry \/ (~Tried /\ retry = 0))
  /\ at = "backoff" => WillRetry
  /\ at = "picking" => WillLeave
  /\ at = "failing" =>
       \/ ctx # "live"
       \/ leg # 0 /\ Tried /\ lastAttempt.disposition = "abort"
       \/ WillLeave /\ remaining = {}

IInv ==
  /\ TypeOK /\ Bodies /\ Budget
  /\ Committed /\ NoSplice
  /\ Turns /\ TurnOfLastAttempt
  /\ NoTruncatedCallRuns
  /\ Legs

-----------------------------------------------------------------------------
(* What the helpers return.                                                *)

LEMMA ClassifyType ==
  ASSUME NEW err \in Failures
  PROVE  Classify(err) \in Dispositions
BY DEF Classify, Dispositions

LEMMA CommitFailureType ==
  ASSUME NEW d \in Dispositions, NEW emitted \in BOOLEAN
  PROVE  commitFailure(d, emitted) \in Dispositions
BY DEF commitFailure, Dispositions

LEMMA HttpErrorType ==
  ASSUME NEW status \in Statuses, NEW read \in BOOLEAN
  PROVE  httpError(status, read) \in Statuses
BY DEF httpError, Statuses

LEMMA OptionTypes ==
  ASSUME TypeOK
  PROVE  /\ opts.legs \in Nat /\ opts.random \in BOOLEAN
         /\ opts.commit \in BOOLEAN /\ opts.capped \in BOOLEAN
         /\ opts.budget \in BOOLEAN /\ opts.timeout \in BOOLEAN
         /\ opts.minimum \in BOOLEAN /\ opts.valid \in BOOLEAN
BY OptionsAssumption DEF TypeOK

LEMMA EmptyTurnType == EmptyTurn \in Turn
BY DEF EmptyTurn, Turn, FinishReasons

LEMMA NewFilterType ==
  NewFilter \in [held : Seq(Texts), disabled : BOOLEAN, token : BOOLEAN,
                 finish : FinishReasons]
BY DEF NewFilter, FinishReasons

LEMMA CurrentType ==
  ASSUME TypeOK
  PROVE  current \in Nat \ {0}
BY DEF TypeOK, current

LEMMA FragmentsType ==
  ASSUME TypeOK, NEW texts \in Seq(Texts)
  PROVE  /\ Fragments(texts) \in Seq(Piece)
         /\ Len(Fragments(texts)) = Len(texts)
         /\ \A i \in 1..Len(texts) : Fragments(texts)[i].by = current
BY CurrentType DEF Fragments, Piece

LEMMA WithTextType ==
  ASSUME TypeOK, NEW texts \in Seq(Texts), NEW r \in BOOLEAN
  PROVE  /\ WithText(turn, texts, r) \in Turn
         /\ WithText(turn, texts, r).content = turn.content \o Fragments(texts)
         /\ WithText(turn, texts, r).items = turn.items
         /\ WithText(turn, texts, r).ident = turn.ident
         /\ WithText(turn, texts, r).tools = turn.tools
         /\ WithText(turn, texts, r).emitted = (turn.emitted \/ texts # <<>>)
<1> DEFINE a == turn.content \o Fragments(texts)
           b == turn.reasoning \/ r
           e == turn.emitted \/ texts # <<>>
<1>1. turn \in Turn /\ turn.reasoning \in BOOLEAN /\ turn.emitted \in BOOLEAN
  BY DEF TypeOK, Turn
<1>2. a \in Seq(Piece)  BY <1>1, FragmentsType DEF Turn
<1>3. b \in BOOLEAN /\ e \in BOOLEAN  BY <1>1
<1>4. WithText(turn, texts, r) =
        [turn EXCEPT !.content = a, !.reasoning = b, !.emitted = e]
  BY DEF WithText
<1> HIDE DEF a, b, e
<1>5. /\ WithText(turn, texts, r) \in Turn
      /\ WithText(turn, texts, r).content = a
      /\ WithText(turn, texts, r).items = turn.items
      /\ WithText(turn, texts, r).ident = turn.ident
      /\ WithText(turn, texts, r).tools = turn.tools
      /\ WithText(turn, texts, r).emitted = e
  BY <1>1, <1>2, <1>3, <1>4 DEF Turn
<1> QED BY <1>5 DEF a, e

LEMMA TextEventsType ==
  ASSUME TypeOK, NEW texts \in Seq(Texts), NEW r \in BOOLEAN
  PROVE  /\ TextEvents(texts, r) \in Seq(Emission)
         /\ \A i \in 1..Len(TextEvents(texts, r)) :
              TextEvents(texts, r)[i].by = current
         /\ texts = <<>> => \A i \in 1..Len(TextEvents(texts, r)) :
              TextEvents(texts, r)[i].kind \notin AnswerEvents
<1>1. TextDelta(texts) \in Emission /\ Event("reasoning_delta") \in Emission
  BY FragmentsType, CurrentType DEF TextDelta, Event, Emission
<1>2. TextDelta(texts).by = current /\ Event("reasoning_delta").by = current
  BY DEF TextDelta, Event
<1>3. Event("reasoning_delta").kind \notin AnswerEvents
  BY DEF Event, AnswerEvents
<1> HIDE DEF Emission
<1> QED BY <1>1, <1>2, <1>3 DEF TextEvents

LEMMA FlushType ==
  ASSUME TypeOK
  PROVE  /\ Flushed \in Turn
         /\ Flushed.content = turn.content \o Fragments(filter.held)
         /\ Flushed.items = turn.items /\ Flushed.ident = turn.ident
         /\ Flushed.tools = turn.tools
         /\ Flushed.emitted = (turn.emitted \/ filter.held # <<>>)
         /\ FlushEvents \in Seq(Emission)
<1>1. filter.held \in Seq(Texts) /\ filter.finish \in FinishReasons
  BY DEF TypeOK
<1>2. FlushEvents \in Seq(Emission)
  BY <1>1, TextEventsType DEF FlushEvents
<1> DEFINE W == WithText(turn, filter.held, FALSE)
<1>3. /\ W \in Turn /\ W.content = turn.content \o Fragments(filter.held)
      /\ W.items = turn.items /\ W.ident = turn.ident /\ W.tools = turn.tools
      /\ W.emitted = (turn.emitted \/ filter.held # <<>>)
  BY <1>1, WithTextType
<1>4. Flushed = [W EXCEPT !.finish = filter.finish]  BY DEF Flushed
<1> HIDE DEF W
<1> QED BY <1>1, <1>2, <1>3, <1>4 DEF Turn

LEMMA GuardType ==
  ASSUME NEW short \in BOOLEAN
  PROVE  guardResponse(short) \in Failures \ {"budget"}
BY DEF guardResponse, Failures

(* Every step of Next is one of Step: each failing action is a FailsWith.  *)
LEMMA FailureSteps ==
  ASSUME TypeOK, Next
  PROVE  Step
<1>0. turn \in Turn /\ EmptyTurn \in Turn /\ Flushed \in Turn
      /\ FlushEvents \in Seq(Emission) /\ <<>> \in Seq(Emission)
  BY FlushType, EmptyTurnType DEF TypeOK
<1>1. ASSUME NEW err \in Failures, NEW t \in Turn, NEW events \in Seq(Emission),
             FailAttempt(err, t, events),
             \/ at = "trying" /\ err = "prepare" /\ t = EmptyTurn /\ events = <<>>
             \/ at = "settling" /\ t = turn /\ events = <<>>
             \/ at = "guarding" /\ err # "budget" /\ t = turn /\ events = <<>>
             \/ /\ at = "streaming" /\ (err = "budget" => cause = "budget")
                /\ t = Flushed /\ events = FlushEvents
      PROVE  AttemptFails
  <2>1. t.emitted \in BOOLEAN  BY DEF Turn
  <2>2. commitFailure(Classify(err), t.emitted) \in Dispositions
    BY <2>1, ClassifyType, CommitFailureType
  <2>3. FailsWith(err, t, events, commitFailure(Classify(err), t.emitted))
    BY <1>1 DEF FailsWith, FailAttempt
  <2> QED BY <2>2, <2>3 DEF AttemptFails
<1>2. CASE PrepareFails
  <2>1. at = "trying" /\ FailAttempt("prepare", EmptyTurn, <<>>)
    BY <1>2 DEF PrepareFails, resetLeg
  <2>2. "prepare" \in Failures  BY DEF Failures
  <2>3. AttemptFails  BY <2>1, <2>2, <1>0, <1>1
  <2> QED BY <2>3 DEF Step
<1>3. CASE Settle
  <2>1. at = "settling" /\ FailAttempt(budgetCause(reply), turn, <<>>)
    BY <1>3 DEF Settle
  <2>2. budgetCause(reply) \in Failures
    BY DEF budgetCause, TypeOK, Failures
  <2>3. AttemptFails  BY <2>1, <2>2, <1>0, <1>1
  <2> QED BY <2>3 DEF Step
<1>4. CASE StreamBreaks
  <2>1. PICK err \in {"midstream", "netTimeout"} :
          at = "streaming" /\ FailAttempt(err, Flushed, FlushEvents)
    BY <1>4 DEF StreamBreaks
  <2>2. err \in Failures /\ err # "budget"  BY DEF Failures
  <2>3. AttemptFails  BY <2>1, <2>2, <1>0, <1>1
  <2> QED BY <2>3 DEF Step
<1>5. CASE StreamCancelled
  <2>1. at = "streaming" /\ FailAttempt(cause, Flushed, FlushEvents)
    BY <1>5 DEF StreamCancelled
  <2>2. cause \in Failures  BY DEF Failures, TypeOK
  <2>3. AttemptFails  BY <2>1, <2>2, <1>0, <1>1
  <2> QED BY <2>3 DEF Step
<1>6. CASE Reject
  <2>1. PICK short \in BOOLEAN :
          at = "guarding" /\ FailAttempt(guardResponse(short), turn, <<>>)
    BY <1>6 DEF Reject
  <2>2. guardResponse(short) \in Failures /\ guardResponse(short) # "budget"
    BY GuardType
  <2>3. AttemptFails  BY <2>1, <2>2, <1>0, <1>1
  <2> QED BY <2>3 DEF Step
<1> QED
  BY <1>2, <1>3, <1>4, <1>5, <1>6 DEF Next, OwnStep, Provider, Clock, Step

-----------------------------------------------------------------------------
(* Types.                                                                  *)

LEMMA AppendEvents ==
  ASSUME NEW S, NEW s \in Seq(S), NEW t \in Seq(S), NEW e \in S
  PROVE  s \o Append(t, e) \in Seq(S)
OBVIOUS

LEMMA EventType ==
  ASSUME TypeOK,
         NEW kind \in {"start", "text_delta", "reasoning_delta",
                       "tool_call_start", "tool_call_delta", "tool_call_end",
                       "leg_failed", "done", "error"}
  PROVE  /\ Event(kind) \in Emission /\ CallEvent(kind) \in Emission
         /\ Event(kind).by = current /\ Event(kind).kind = kind
         /\ CallEvent(kind).kind = kind
BY CurrentType DEF Event, CallEvent, Emission

(* finish() keeps the types.                                               *)
LEMMA FinishType ==
  ASSUME TypeOK, NEW t \in Turn, NEW history \in Seq(Emission),
         NEW stop \in {"stop", "length", "tool_use", "error", "aborted"},
         attempts' \in Seq(Attempt), finish(stop, t, history)
  PROVE  result' \in Message \cup {NoResult} /\ log' \in Seq(Emission)
<1>1. CallEvent("done") \in Emission /\ CallEvent("error") \in Emission
  BY EventType
<1>2. CASE result = NoResult
  <2>1. result' \in Message
    BY <1>2 DEF finish, Message
  <2>2. log' \in Seq(Emission)
    BY <1>1, <1>2 DEF finish
  <2> QED BY <2>1, <2>2
<1>3. CASE result # NoResult
  BY <1>3 DEF finish, TypeOK
<1> QED BY <1>2, <1>3

LEMMA FollowType ==
  ASSUME TypeOK, NEW d \in Dispositions, Follow(d)
  PROVE  /\ at' \in {"failing", "backoff", "picking"}
         /\ retry' \in 0..(MaxRetries - 1)
         /\ retry' = retry \/ retry' = retry + 1
BY MaxRetriesAssumption DEF Follow, TypeOK, Dispositions

(* A failed attempt keeps the types.                                       *)
LEMMA FailType ==
  ASSUME TypeOK, AttemptFails
  PROVE  TypeOK'
<1>1. PICK err \in Failures, t \in Turn, events \in Seq(Emission),
           d \in Dispositions : FailsWith(err, t, events, d)
  BY DEF AttemptFails
<1>2. t.ident <= opts'.legs /\ t.tools <= chunks'
  <2>1. turn.ident <= opts.legs /\ turn.tools <= chunks  BY DEF TypeOK
  <2>2. 0 <= opts.legs /\ 0 <= chunks
    BY OptionTypes, MaxChunkAssumption DEF TypeOK
  <2>3. EmptyTurn.ident = 0 /\ EmptyTurn.tools = 0  BY DEF EmptyTurn
  <2>4. Flushed.ident = turn.ident /\ Flushed.tools = turn.tools  BY FlushType
  <2>5. t = EmptyTurn \/ t = turn \/ t = Flushed  BY <1>1 DEF FailsWith
  <2>6. opts' = opts /\ chunks' = chunks  BY <1>1 DEF FailsWith, Fail, call
  <2> QED BY <2>1, <2>2, <2>3, <2>4, <2>5, <2>6
<1> DEFINE failed == [leg |-> leg, retry |-> retry, err |-> err,
                      emitted |-> t.emitted, token |-> filter.token,
                      disposition |-> d]
<1>3. failed \in Attempt
  BY MaxRetriesAssumption, OptionTypes DEF Attempt, TypeOK, Turn
<1>4. attempts' = Append(attempts, failed)  BY <1>1 DEF FailsWith, Fail
<1>5. attempts' \in Seq(Attempt)
  <2> HIDE DEF failed
  <2> QED BY <1>3, <1>4 DEF TypeOK
<1>6. log' \in Seq(Emission)
  <2>1. log' = log \o Append(events, Event("leg_failed"))
    BY <1>1 DEF FailsWith, Fail
  <2> QED BY <2>1, EventType, AppendEvents DEF TypeOK
<1>7. at' \in Places /\ retry' \in 0..(MaxRetries - 1)
  BY <1>1, FollowType DEF FailsWith, Fail, Places
<1>8. filter' \in [held : Seq(Texts), disabled : BOOLEAN, token : BOOLEAN,
                   finish : FinishReasons]
  BY <1>1, NewFilterType DEF FailsWith, Fail
<1>9. open' \subseteq {"first", "second"} /\ probed' \in BOOLEAN
  BY <1>1 DEF FailsWith, Fail, closeBody, TypeOK
<1>10. /\ turn' = t /\ cause' = "none" /\ timer' = "off" /\ reply' = "none"
       /\ UNCHANGED <<opts, chunks, ctx, remaining, leg, spent, result>>
  BY <1>1 DEF FailsWith, Fail, call
<1> QED
  BY <1>2, <1>5, <1>6, <1>7, <1>8, <1>9, <1>10 DEF TypeOK, Failures

(* What a line of the stream does to the turn.                             *)
LEMMA LineEffect ==
  ASSUME TypeOK, NEW c \in Chunk, Line(c)
  PROVE  /\ Through(c) \in Seq(Texts) /\ HeldAfter(c) \in Seq(Texts)
         /\ Slots(c) \in Nat /\ Slots(c) <= turn.tools + 1
         /\ turn' \in Turn
         /\ turn'.content = turn.content \o Fragments(Through(c))
         /\ turn'.items \subseteq turn.items \cup {current}
         /\ turn'.ident = turn.ident /\ turn'.tools = Slots(c)
         /\ turn'.emitted = (turn.emitted \/ Through(c) # <<>> \/ c.tool # "none")
<1>1. c.text \in Texts \cup {"none"}  BY ChunkAssumption
<1>2. filter.held \in Seq(Texts)  BY DEF TypeOK
<1>3. Through(c) \in Seq(Texts) /\ HeldAfter(c) \in Seq(Texts)
  <2>1. "partial" \in Texts  BY DEF Texts
  <2>2. c.text # "none" => c.text \in Texts  BY <1>1
  <2> QED BY <1>2, <2>1, <2>2 DEF Through, HeldAfter
<1>4. Slots(c) \in Nat /\ Slots(c) <= turn.tools + 1
  BY DEF Slots, TypeOK, Turn
<1> DEFINE W == WithText(turn, Through(c), c.reasoning # "none")
           items == IF c.items THEN turn.items \cup {current} ELSE turn.items
           emitted == W.emitted \/ c.tool # "none"
<1>5. /\ W \in Turn /\ W.content = turn.content \o Fragments(Through(c))
      /\ W.items = turn.items /\ W.ident = turn.ident
      /\ W.emitted = (turn.emitted \/ Through(c) # <<>>)
  BY <1>3, WithTextType
<1>6. turn' = [W EXCEPT !.tools = Slots(c), !.items = items,
                        !.emitted = emitted]
  BY <1>5 DEF Line
<1>7. items \in SUBSET Nat /\ items \subseteq turn.items \cup {current}
  BY CurrentType DEF TypeOK, Turn
<1>8. emitted \in BOOLEAN  BY <1>5 DEF Turn
<1>9. /\ turn' \in Turn /\ turn'.content = W.content /\ turn'.items = items
      /\ turn'.ident = W.ident /\ turn'.tools = Slots(c)
      /\ turn'.emitted = emitted
  <2> HIDE DEF W, items, emitted
  <2> QED BY <1>4, <1>5, <1>6, <1>7, <1>8 DEF Turn
<1>10. emitted = (turn.emitted \/ Through(c) # <<>> \/ c.tool # "none")
  BY <1>5
<1> HIDE DEF W, items, emitted
<1> QED BY <1>3, <1>4, <1>5, <1>7, <1>9, <1>10

(* A line of the stream keeps the types.                                   *)
LEMMA LineType ==
  ASSUME TypeOK, NEW c \in Chunk, Line(c)
  PROVE  TypeOK'
<1>1. c.finish \in FinishReasons  BY ChunkAssumption
<1>2. /\ filter.disabled \in BOOLEAN /\ filter.token \in BOOLEAN
      /\ filter.finish \in FinishReasons
  BY DEF TypeOK
<1>3. filter' \in [held : Seq(Texts), disabled : BOOLEAN, token : BOOLEAN,
                   finish : FinishReasons]
  <2> DEFINE f == IF c.finish = "none" THEN filter.finish ELSE c.finish
             k == \/ filter.token \/ Through(c) # <<>>
                  \/ c.reasoning # "none" \/ Slots(c) > 0
             p == Passes(c)
  <2>1. filter' = [held |-> HeldAfter(c), disabled |-> p, token |-> k,
                   finish |-> f]
    BY DEF Line
  <2>2. f \in FinishReasons  BY <1>1, <1>2
  <2>3. k \in BOOLEAN /\ p \in BOOLEAN  BY <1>2 DEF Passes
  <2>4. HeldAfter(c) \in Seq(Texts)  BY LineEffect
  <2> HIDE DEF f, k, p
  <2> QED BY <2>1, <2>2, <2>3, <2>4
<1>4. log' \in Seq(Emission)
  <2>1. ToolEvents(c) \in Seq(Emission)
    BY EventType DEF ToolEvents
  <2>2. TextEvents(Through(c), c.reasoning # "none") \in Seq(Emission)
    BY LineEffect, TextEventsType
  <2>3. log' = log \o ToolEvents(c)
                  \o TextEvents(Through(c), c.reasoning # "none")
    BY DEF Line
  <2> QED BY <2>1, <2>2, <2>3 DEF TypeOK
<1>5. chunks' \in 0..MaxChunk /\ chunks' = chunks + 1
  BY MaxChunkAssumption DEF Line, TypeOK
<1>6. turn' \in Turn /\ turn'.ident <= opts'.legs /\ turn'.tools <= chunks'
  <2>1. /\ turn' \in Turn /\ turn'.ident = turn.ident
        /\ turn'.tools = Slots(c) /\ Slots(c) <= turn.tools + 1
        /\ Slots(c) \in Nat
    BY LineEffect
  <2>2. /\ turn.ident <= opts.legs /\ turn.tools <= chunks
        /\ turn.tools \in Nat /\ chunks \in Nat
    BY MaxChunkAssumption DEF TypeOK, Turn
  <2>3. opts' = opts  BY DEF Line
  <2> QED BY <1>5, <2>1, <2>2, <2>3
<1> QED
  BY <1>3, <1>4, <1>5, <1>6
     DEF Line, TypeOK, budget, response

LEMMA TypeStep ==
  ASSUME TypeOK, [Next]_vars
  PROVE  TypeOK'
<1> USE DEF call, budget, response
<1>0. CASE UNCHANGED vars  BY <1>0 DEF vars, TypeOK
<1>1. CASE Refuse
  <2>1. result' \in Message \cup {NoResult} /\ log' \in Seq(Emission)
    BY <1>1, FinishType DEF Refuse, TypeOK
  <2> QED BY <1>1, <2>1 DEF Refuse, TypeOK, Places
<1>2. CASE Start
  <2>1. CallEvent("start") \in Emission  BY EventType
  <2>2. log' \in Seq(Emission)  BY <1>2, <2>1 DEF Start
  <2> QED BY <1>2, <2>2 DEF Start, TypeOK, Places
<1>3. CASE NextModel
  <2>1. PICK m \in remaining : leg' = m /\ remaining' = remaining \ {m}
    BY <1>3 DEF NextModel
  <2>2. leg' \in 0..opts.legs /\ remaining' \subseteq 1..opts.legs
    <3>1. remaining \subseteq 1..opts.legs  BY DEF TypeOK
    <3> QED BY <2>1, <3>1, OptionTypes
  <2>3. 0 \in 0..(MaxRetries - 1)  BY MaxRetriesAssumption
  <2> QED BY <1>3, <2>2, <2>3 DEF NextModel, TypeOK, Places
<1>4. CASE Exhausted  BY <1>4 DEF Exhausted, TypeOK, Places
<1>5. CASE BackoffCancelled  BY <1>5 DEF BackoffCancelled, TypeOK, Places
<1>6. CASE BackoffElapsed  BY <1>6 DEF BackoffElapsed, TypeOK, Places
<1>7. CASE Prepare
  <2>1. turn' = [EmptyTurn EXCEPT !.ident = leg]
    BY <1>7 DEF Prepare, resetLeg
  <2>2. EmptyTurn \in Turn /\ EmptyTurn.tools = 0
    BY EmptyTurnType DEF EmptyTurn
  <2>3. leg \in Nat /\ leg <= opts.legs /\ chunks \in Nat
    BY OptionTypes, MaxChunkAssumption DEF TypeOK
  <2>4. turn' \in Turn /\ turn'.ident = leg /\ turn'.tools = 0
    BY <2>1, <2>2, <2>3 DEF Turn
  <2>5. timer' \in {"off", "armed"}
    BY <1>7 DEF Prepare, armLegBudget
  <2>6. cause' \in {"none", "canceled", "expired"}
    BY <1>7 DEF Prepare, TypeOK
  <2> QED BY <1>7, <2>3, <2>4, <2>5, <2>6 DEF Prepare, TypeOK, Places
<1>8. CASE Disarm
  BY <1>8, NewFilterType DEF Disarm, Stopped, TypeOK, Places, Failures
<1>9. CASE Accept
  <2> DEFINE last == [leg |-> leg, retry |-> retry, err |-> "none",
                      emitted |-> turn.emitted, token |-> filter.token,
                      disposition |-> "none"]
             ends == [i \in 1..turn.tools |-> Event("tool_call_end")]
  <2>1. last \in Attempt
    BY MaxRetriesAssumption, OptionTypes DEF Attempt, TypeOK, Turn, Failures
  <2>2. attempts' = Append(attempts, last)  BY <1>9 DEF Accept
  <2>3. attempts' \in Seq(Attempt)
    <3> HIDE DEF last
    <3> QED BY <2>1, <2>2 DEF TypeOK
  <2>4. ends \in Seq(Emission)
    <3>1. Event("tool_call_end") \in Emission  BY EventType
    <3>2. turn.tools \in Nat  BY DEF TypeOK, Turn
    <3> QED BY <3>1, <3>2
  <2>5. stopReasonFor(turn.finish, turn.tools)
          \in {"stop", "length", "tool_use", "error", "aborted"}
    BY DEF stopReasonFor
  <2>6. finish(stopReasonFor(turn.finish, turn.tools), turn, log \o ends)
    BY <1>9 DEF Accept
  <2>7. log \o ends \in Seq(Emission)
    <3> HIDE DEF ends
    <3> QED BY <2>4 DEF TypeOK
  <2>8. result' \in Message \cup {NoResult} /\ log' \in Seq(Emission)
    <3> HIDE DEF ends
    <3> QED BY <2>3, <2>5, <2>6, <2>7, FinishType DEF TypeOK
  <2>9. /\ at' = "over" /\ cause' = "none" /\ timer' = "off"
        /\ open' \subseteq {"first", "second"} /\ probed' \in BOOLEAN
        /\ UNCHANGED <<opts, chunks, ctx, remaining, leg, retry, spent, reply,
                       turn, filter>>
    BY <1>9 DEF Accept, closeBody, TypeOK
  <2> QED BY <2>3, <2>8, <2>9 DEF TypeOK, Places
<1>10. CASE finishFailed
  <2>1. result' \in Message \cup {NoResult} /\ log' \in Seq(Emission)
    BY <1>10, FinishType DEF finishFailed, terminalReason, TypeOK
  <2> QED BY <1>10, <2>1 DEF finishFailed, TypeOK, Places
<1>11. CASE DoFails
  BY <1>11 DEF DoFails, TypeOK, Places, Failures
<1>12. CASE Probe  BY <1>12 DEF Probe, TypeOK
<1>13. CASE StatusFails
  BY <1>13, HttpErrorType
     DEF StatusFails, Respond, currentResponse, TypeOK, Places, Failures
<1>14. CASE Answered
  BY <1>14 DEF Answered, Respond, currentResponse, TypeOK, Places
<1>15. CASE \E c \in Chunk : Line(c)  BY <1>15, LineType
<1>16. CASE StreamEnds
  <2>1. turn' \in Turn /\ turn'.ident = turn.ident /\ turn'.tools = turn.tools
    BY <1>16, FlushType DEF StreamEnds
  <2>2. log' \in Seq(Emission)
    BY <1>16, FlushType DEF StreamEnds, TypeOK
  <2>3. filter' \in [held : Seq(Texts), disabled : BOOLEAN, token : BOOLEAN,
                     finish : FinishReasons]
    <3>1. filter \in [held : Seq(Texts), disabled : BOOLEAN, token : BOOLEAN,
                      finish : FinishReasons]
      BY DEF TypeOK
    <3>2. filter' = [filter EXCEPT !.held = <<>>]  BY <1>16 DEF StreamEnds
    <3>3. ASSUME NEW f \in [held : Seq(Texts), disabled : BOOLEAN,
                            token : BOOLEAN, finish : FinishReasons],
                 NEW e \in Seq(Texts)
          PROVE  [f EXCEPT !.held = e]
                   \in [held : Seq(Texts), disabled : BOOLEAN, token : BOOLEAN,
                       finish : FinishReasons]
      OBVIOUS
    <3>4. <<>> \in Seq(Texts)  OBVIOUS
    <3> QED BY <3>1, <3>2, <3>3, <3>4
  <2> QED BY <1>16, <2>1, <2>2, <2>3 DEF StreamEnds, TypeOK, Places
<1>17. CASE Cancel  BY <1>17 DEF Cancel, ContextDone, TypeOK
<1>18. CASE Expire  BY <1>18 DEF Expire, ContextDone, TypeOK
<1>19. CASE BudgetSpent  BY <1>19 DEF BudgetSpent, TypeOK
<1>20. CASE TimerFires  BY <1>20 DEF TimerFires, TypeOK
<1>21. CASE TimerRuns  BY <1>21 DEF TimerRuns, TypeOK
<1>22. CASE AttemptFails  BY <1>22, FailType
<1> QED
  BY FailureSteps, <1>0, <1>1, <1>2, <1>3, <1>4, <1>5, <1>6, <1>7, <1>8, <1>9,
     <1>10, <1>11, <1>12, <1>13, <1>14, <1>15, <1>16, <1>17, <1>18, <1>19,
     <1>20, <1>21, <1>22 DEF Step

LEMMA TypeInit ==
  ASSUME Init
  PROVE  TypeOK
<1>1. EmptyTurn.ident = 0 /\ EmptyTurn.tools = 0  BY DEF EmptyTurn
<1>2. opts \in Options /\ opts.legs \in Nat  BY OptionsAssumption DEF Init
<1>3. 0 \in 0..opts.legs /\ 0 \in 0..(MaxRetries - 1) /\ 0 \in 0..MaxChunk
  BY <1>2, MaxRetriesAssumption, MaxChunkAssumption
<1>4. turn \in Turn /\ turn.ident <= opts.legs /\ turn.tools <= chunks
  BY <1>1, <1>2, EmptyTurnType DEF Init
<1>5. filter \in [held : Seq(Texts), disabled : BOOLEAN, token : BOOLEAN,
                  finish : FinishReasons]
  BY NewFilterType DEF Init
<1>6. attempts \in Seq(Attempt) /\ log \in Seq(Emission)  BY DEF Init
<1> QED
  BY <1>2, <1>3, <1>4, <1>5, <1>6 DEF Init, TypeOK, Places, Failures

-----------------------------------------------------------------------------
(* What a failed attempt changes.                                          *)

LEMMA FailEffect ==
  ASSUME TypeOK,
         NEW err \in Failures, NEW t \in Turn, NEW events \in Seq(Emission),
         NEW d \in Dispositions, FailsWith(err, t, events, d)
  PROVE  /\ Len(attempts') = Len(attempts) + 1
         /\ attempts'[Len(attempts) + 1].leg = leg
         /\ attempts'[Len(attempts) + 1].retry = retry
         /\ attempts'[Len(attempts) + 1].err = err
         /\ attempts'[Len(attempts) + 1].emitted = t.emitted
         /\ attempts'[Len(attempts) + 1].token = filter.token
         /\ attempts'[Len(attempts) + 1].disposition = d
         /\ \A i \in 1..Len(attempts) : attempts'[i] = attempts[i]
         /\ log' = log \o Append(events, Event("leg_failed"))
         /\ turn' = t
         /\ Follow(d) /\ at' \in {"failing", "backoff", "picking"}
         /\ cause' = "none" /\ timer' = "off"
         /\ filter' = NewFilter
         /\ UNCHANGED <<opts, ctx, remaining, leg, spent, result, chunks>>
<1> DEFINE failed == [leg |-> leg, retry |-> retry, err |-> err,
                      emitted |-> t.emitted, token |-> filter.token,
                      disposition |-> d]
<1>1. failed \in Attempt
  BY MaxRetriesAssumption, OptionTypes DEF Attempt, TypeOK, Turn
<1>2. attempts' = Append(attempts, failed)  BY DEF FailsWith, Fail
<1>3. /\ Len(attempts') = Len(attempts) + 1
      /\ attempts'[Len(attempts) + 1] = failed
      /\ \A i \in 1..Len(attempts) : attempts'[i] = attempts[i]
  <2> HIDE DEF failed
  <2> QED BY <1>1, <1>2, AppendFacts DEF TypeOK
<1>5. /\ failed.leg = leg /\ failed.retry = retry /\ failed.err = err
      /\ failed.emitted = t.emitted /\ failed.token = filter.token
      /\ failed.disposition = d
  OBVIOUS
<1>4. Follow(d)  BY DEF FailsWith, Fail
<1> HIDE DEF failed
<1> QED BY <1>3, <1>4, <1>5, FollowType DEF FailsWith, Fail, call

-----------------------------------------------------------------------------
(* Response bodies.                                                        *)

LEMMA BodiesStep ==
  ASSUME TypeOK, Bodies, [Next]_vars
  PROVE  Bodies'
<1> USE DEF Bodies, Quiet, currentResponse, call, budget, response
<1>0. CASE UNCHANGED vars  BY <1>0 DEF vars
<1>1. CASE Refuse  BY <1>1 DEF Refuse
<1>2. CASE Start  BY <1>2 DEF Start
<1>3. CASE NextModel  BY <1>3 DEF NextModel
<1>4. CASE Exhausted  BY <1>4 DEF Exhausted
<1>5. CASE BackoffCancelled  BY <1>5 DEF BackoffCancelled
<1>6. CASE BackoffElapsed  BY <1>6 DEF BackoffElapsed
<1>7. CASE Prepare  BY <1>7 DEF Prepare
<1>8. CASE Disarm  BY <1>8 DEF Disarm
<1>9. CASE Accept  BY <1>9 DEF Accept, closeBody
<1>10. CASE finishFailed  BY <1>10 DEF finishFailed
<1>11. CASE DoFails  BY <1>11 DEF DoFails, TypeOK
<1>12. CASE Probe  BY <1>12 DEF Probe
<1>13. CASE StatusFails  BY <1>13 DEF StatusFails, Respond
<1>14. CASE Answered  BY <1>14 DEF Answered, Respond
<1>15. CASE \E c \in Chunk : Line(c)  BY <1>15 DEF Line
<1>16. CASE StreamEnds  BY <1>16 DEF StreamEnds
<1>17. CASE Cancel  BY <1>17 DEF Cancel, ContextDone
<1>18. CASE Expire  BY <1>18 DEF Expire, ContextDone
<1>19. CASE BudgetSpent  BY <1>19 DEF BudgetSpent
<1>20. CASE TimerFires  BY <1>20 DEF TimerFires
<1>21. CASE TimerRuns  BY <1>21 DEF TimerRuns
<1>22. CASE AttemptFails
  BY <1>22 DEF AttemptFails, FailsWith, Fail, closeBody
<1> QED
  BY FailureSteps, <1>0, <1>1, <1>2, <1>3, <1>4, <1>5, <1>6, <1>7, <1>8, <1>9,
     <1>10, <1>11, <1>12, <1>13, <1>14, <1>15, <1>16, <1>17, <1>18, <1>19,
     <1>20, <1>21, <1>22 DEF Step

-----------------------------------------------------------------------------
(* The leg budget.                                                         *)

LEMMA BudgetStep ==
  ASSUME TypeOK, Budget, [Next]_vars
  PROVE  Budget'
<1> USE DEF Budget, Asked, Reading, BudgetOnlyBeforeResponse, call, budget
<1>0. CASE UNCHANGED vars  BY <1>0 DEF vars
<1>1. CASE Refuse  BY <1>1 DEF Refuse
<1>2. CASE Start  BY <1>2 DEF Start
<1>3. CASE NextModel  BY <1>3 DEF NextModel
<1>4. CASE Exhausted  BY <1>4 DEF Exhausted
<1>5. CASE BackoffCancelled  BY <1>5 DEF BackoffCancelled
<1>6. CASE BackoffElapsed  BY <1>6 DEF BackoffElapsed
<1>7. CASE Prepare
  <2>1. turn'.emitted = FALSE
    BY <1>7 DEF Prepare, resetLeg, EmptyTurn
  <2>2. cause' # "budget"  BY <1>7 DEF Prepare, TypeOK
  <2> QED BY <1>7, <2>1, <2>2 DEF Prepare
<1>8. CASE Disarm  BY <1>8 DEF Disarm, TypeOK, Stopped
<1>9. CASE Accept
  <2> DEFINE last == [leg |-> leg, retry |-> retry, err |-> "none",
                      emitted |-> turn.emitted, token |-> filter.token,
                      disposition |-> "none"]
  <2>1. last \in Attempt
    BY MaxRetriesAssumption, OptionTypes DEF Attempt, TypeOK, Turn, Failures
  <2>2. attempts' = Append(attempts, last)  BY <1>9 DEF Accept
  <2>3. last.err = "none"  OBVIOUS
  <2>4. BudgetOnlyBeforeResponse'
    <3> HIDE DEF last
    <3> QED BY <2>1, <2>2, <2>3, AppendFacts DEF TypeOK
  <2> QED BY <1>9, <2>4 DEF Accept
<1>10. CASE finishFailed  BY <1>10 DEF finishFailed
<1>11. CASE DoFails  BY <1>11 DEF DoFails
<1>12. CASE Probe  BY <1>12 DEF Probe
<1>13. CASE StatusFails  BY <1>13 DEF StatusFails, Respond
<1>14. CASE Answered  BY <1>14 DEF Answered, Respond
<1>15. CASE \E c \in Chunk : Line(c)  BY <1>15 DEF Line
<1>16. CASE StreamEnds  BY <1>16 DEF StreamEnds
<1>17. CASE Cancel  BY <1>17 DEF Cancel, ContextDone
<1>18. CASE Expire  BY <1>18 DEF Expire, ContextDone
<1>19. CASE BudgetSpent  BY <1>19 DEF BudgetSpent
<1>20. CASE TimerFires  BY <1>20 DEF TimerFires
<1>21. CASE TimerRuns  BY <1>21 DEF TimerRuns
<1>22. CASE AttemptFails
  <2>1. PICK err \in Failures, t \in Turn, events \in Seq(Emission),
             d \in Dispositions : FailsWith(err, t, events, d)
    BY <1>22 DEF AttemptFails
  <2>2. err = "budget" => at = "settling" /\ t = turn
    BY <2>1 DEF FailsWith
  <2>3. err = "budget" => ~t.emitted /\ ~filter.token
    BY <2>2
  <2>4. /\ Len(attempts') = Len(attempts) + 1
        /\ attempts'[Len(attempts) + 1].err = err
        /\ attempts'[Len(attempts) + 1].emitted = t.emitted
        /\ attempts'[Len(attempts) + 1].token = filter.token
        /\ \A i \in 1..Len(attempts) : attempts'[i] = attempts[i]
    BY <2>1, FailEffect
  <2>5. /\ at' \in {"failing", "backoff", "picking"}
        /\ cause' = "none" /\ timer' = "off" /\ filter' = NewFilter
    BY <2>1, FailEffect
  <2>6. filter'.token = FALSE  BY <2>5 DEF NewFilter
  <2>7. Len(attempts) \in Nat  BY DEF TypeOK
  <2>8. BudgetOnlyBeforeResponse'  BY <2>3, <2>4, <2>7
  <2> QED BY <2>5, <2>6, <2>8
<1> QED
  BY FailureSteps, <1>0, <1>1, <1>2, <1>3, <1>4, <1>5, <1>6, <1>7, <1>8, <1>9,
     <1>10, <1>11, <1>12, <1>13, <1>14, <1>15, <1>16, <1>17, <1>18, <1>19,
     <1>20, <1>21, <1>22 DEF Step

-----------------------------------------------------------------------------
(* The turn.                                                               *)

LEMMA ConcatBy ==
  ASSUME NEW s \in Seq(Piece), NEW t \in Seq(Piece), NEW n,
         \A i \in 1..Len(s) : s[i].by = n, \A i \in 1..Len(t) : t[i].by = n
  PROVE  \A i \in 1..Len(s \o t) : (s \o t)[i].by = n
OBVIOUS

(* A turn of the attempt under way stays one when it is extended.          *)
LEMMA ExtendTurn ==
  ASSUME TypeOK, TurnBy(current), NEW texts \in Seq(Texts), NEW t,
         t.content = turn.content \o Fragments(texts),
         t.items \subseteq turn.items \cup {current}
  PROVE  /\ \A i \in 1..Len(t.content) : t.content[i].by = current
         /\ t.items \subseteq {current}
<1>1. turn.content \in Seq(Piece)  BY DEF TypeOK, Turn
<1>2. \A i \in 1..Len(turn.content) : turn.content[i].by = current
  BY DEF TurnBy
<1>3. /\ Fragments(texts) \in Seq(Piece)
      /\ \A i \in 1..Len(Fragments(texts)) : Fragments(texts)[i].by = current
  BY FragmentsType
<1>4. \A i \in 1..Len(t.content) : t.content[i].by = current
  BY <1>1, <1>2, <1>3, ConcatBy
<1> QED BY <1>4 DEF TurnBy

(* A message that is latched holds what the last attempt left.             *)
LEMMA FinishTurn ==
  ASSUME TypeOK, result = NoResult,
         NEW stop \in {"stop", "length", "tool_use", "error", "aborted"},
         NEW history, finish(stop, turn, history),
         attempts' \in Seq(Attempt),
         \A i \in 1..Len(turn.content) : turn.content[i].by = Len(attempts'),
         turn.items \subseteq {Len(attempts')},
         turn.ident # 0 => /\ Len(attempts') > 0
                          /\ turn.ident = attempts'[Len(attempts')].leg
  PROVE  TurnOfLastAttempt'
<1>1. result' = [stop |-> stop, turn |-> turn, tried |-> Len(attempts')]
  BY DEF finish
<1>2. result'.turn = turn /\ result'.tried = Len(attempts')  BY <1>1
<1> QED BY <1>2 DEF TurnOfLastAttempt

LEMMA TurnsStep ==
  ASSUME TypeOK, Turns, TurnOfLastAttempt, [Next]_vars
  PROVE  Turns' /\ TurnOfLastAttempt'
<1> USE DEF call, budget, response
<1>a. ASSUME UNCHANGED <<attempts, result>>
      PROVE  TurnOfLastAttempt'
  BY <1>a DEF TurnOfLastAttempt
<1>b. ASSUME UNCHANGED <<turn, attempts, result, leg>>,
             \/ at' = at
             \/ at \in Asked /\ at' \in Asked \cup Reading
             \/ /\ at \in {"start", "picking", "backoff", "trying"}
                /\ at' \in {"picking", "trying", "failing"}
      PROVE  Turns' /\ TurnOfLastAttempt'
  BY <1>a, <1>b DEF Turns, TurnBy, Asked, Reading, current, lastAttempt
<1>0. CASE UNCHANGED vars  BY <1>0, <1>b DEF vars
<1>1. CASE Refuse
  <2>1. /\ TurnBy(Len(attempts)) /\ result = NoResult
        /\ turn.ident # 0 => Len(attempts) > 0 /\ turn.ident = lastAttempt.leg
    BY <1>1 DEF Refuse, Turns
  <2>2. attempts' = attempts /\ at' = "over" /\ finish("error", turn, log)
    BY <1>1 DEF Refuse
  <2>3. attempts' \in Seq(Attempt)  BY <2>2 DEF TypeOK
  <2>4. TurnOfLastAttempt'
    BY <2>1, <2>2, <2>3, FinishTurn DEF TurnBy, lastAttempt
  <2> QED BY <2>2, <2>4 DEF Turns, Asked, Reading
<1>2. CASE Start  BY <1>2, <1>b DEF Start
<1>3. CASE NextModel
  BY <1>3, <1>a DEF NextModel, Turns, TurnBy, Asked, Reading, lastAttempt
<1>4. CASE Exhausted  BY <1>4, <1>b DEF Exhausted
<1>5. CASE BackoffCancelled  BY <1>5, <1>b DEF BackoffCancelled
<1>6. CASE BackoffElapsed  BY <1>6, <1>b DEF BackoffElapsed
<1>7. CASE Prepare
  <2>1. turn' = [EmptyTurn EXCEPT !.ident = leg]
    BY <1>7 DEF Prepare, resetLeg
  <2>2. turn'.content = <<>> /\ turn'.items = {} /\ turn'.ident = leg
    BY <2>1 DEF EmptyTurn
  <2> QED
    BY <1>7, <1>a, <2>2 DEF Prepare, Turns, TurnBy, Asked, Reading
<1>8. CASE Disarm  BY <1>8, <1>b DEF Disarm, Asked, Reading
<1>9. CASE Accept
  <2> DEFINE last == [leg |-> leg, retry |-> retry, err |-> "none",
                      emitted |-> turn.emitted, token |-> filter.token,
                      disposition |-> "none"]
  <2>1. last \in Attempt
    BY MaxRetriesAssumption, OptionTypes DEF Attempt, TypeOK, Turn, Failures
  <2>2. attempts' = Append(attempts, last)  BY <1>9 DEF Accept
  <2>3. last.leg = leg  OBVIOUS
  <2>4. /\ attempts' \in Seq(Attempt) /\ Len(attempts') = current
        /\ attempts'[Len(attempts')].leg = leg /\ Len(attempts') > 0
    <3> HIDE DEF last
    <3> QED BY <2>1, <2>2, <2>3, AppendFacts DEF TypeOK, current
  <2>5. TurnBy(current) /\ turn.ident = leg /\ result = NoResult
    BY <1>9 DEF Accept, Turns, Reading
  <2>6. stopReasonFor(turn.finish, turn.tools)
          \in {"stop", "length", "tool_use", "error", "aborted"}
    BY DEF stopReasonFor
  <2>7. PICK history :
          finish(stopReasonFor(turn.finish, turn.tools), turn, history)
    BY <1>9 DEF Accept
  <2>8. TurnOfLastAttempt'
    BY <2>4, <2>5, <2>6, <2>7, FinishTurn DEF TurnBy
  <2>9. at' = "over"  BY <1>9 DEF Accept
  <2> QED BY <2>8, <2>9 DEF Turns, Asked, Reading
<1>10. CASE finishFailed
  <2>1. /\ TurnBy(Len(attempts)) /\ result = NoResult
        /\ turn.ident # 0 => Len(attempts) > 0 /\ turn.ident = lastAttempt.leg
    BY <1>10 DEF finishFailed, Turns
  <2>2. /\ attempts' = attempts /\ at' = "over"
        /\ finish(terminalReason, turn, log)
    BY <1>10 DEF finishFailed
  <2>3. attempts' \in Seq(Attempt)  BY <2>2 DEF TypeOK
  <2>4. terminalReason \in {"error", "aborted"}  BY DEF terminalReason
  <2>5. TurnOfLastAttempt'
    BY <2>1, <2>2, <2>3, <2>4, FinishTurn DEF TurnBy, lastAttempt
  <2> QED BY <2>2, <2>5 DEF Turns, Asked, Reading
<1>11. CASE DoFails  BY <1>11, <1>b DEF DoFails, Asked
<1>12. CASE Probe  BY <1>12, <1>b DEF Probe
<1>13. CASE StatusFails  BY <1>13, <1>b DEF StatusFails, Respond, Asked
<1>14. CASE Answered  BY <1>14, <1>b DEF Answered, Respond, Asked
<1>15. CASE \E c \in Chunk : Line(c)
  <2>1. PICK c \in Chunk : Line(c)  BY <1>15
  <2>2. /\ Through(c) \in Seq(Texts) /\ turn'.ident = turn.ident
        /\ turn'.content = turn.content \o Fragments(Through(c))
        /\ turn'.items \subseteq turn.items \cup {current}
    BY <2>1, LineEffect
  <2>3. at = "streaming" /\ UNCHANGED <<at, leg, attempts, result>>
    BY <2>1 DEF Line
  <2>4. TurnBy(current) /\ turn.ident = leg /\ result = NoResult
    BY <2>3 DEF Turns, Reading
  <2>5. /\ \A i \in 1..Len(turn'.content) : turn'.content[i].by = current
        /\ turn'.items \subseteq {current}
    BY <2>2, <2>4, ExtendTurn
  <2> QED
    BY <1>a, <2>2, <2>3, <2>4, <2>5
       DEF Turns, TurnBy, Asked, Reading, current
<1>16. CASE StreamEnds
  <2>1. /\ turn' = Flushed /\ at = "streaming" /\ at' = "guarding"
        /\ UNCHANGED <<leg, attempts, result>>
    BY <1>16 DEF StreamEnds
  <2>2. TurnBy(current) /\ turn.ident = leg /\ result = NoResult
    BY <2>1 DEF Turns, Reading
  <2>3. /\ turn'.content = turn.content \o Fragments(filter.held)
        /\ turn'.items \subseteq turn.items \cup {current}
        /\ turn'.ident = turn.ident /\ filter.held \in Seq(Texts)
    BY <2>1, FlushType DEF TypeOK
  <2>4. /\ \A i \in 1..Len(turn'.content) : turn'.content[i].by = current
        /\ turn'.items \subseteq {current}
    BY <2>2, <2>3, ExtendTurn
  <2> QED
    BY <1>a, <2>1, <2>2, <2>3, <2>4
       DEF Turns, TurnBy, Asked, Reading, current
<1>17. CASE Cancel  BY <1>17, <1>b DEF Cancel, ContextDone
<1>18. CASE Expire  BY <1>18, <1>b DEF Expire, ContextDone
<1>19. CASE BudgetSpent  BY <1>19, <1>b DEF BudgetSpent
<1>20. CASE TimerFires  BY <1>20, <1>b DEF TimerFires
<1>21. CASE TimerRuns  BY <1>21, <1>b DEF TimerRuns
<1>22. CASE AttemptFails
  <2>1. PICK err \in Failures, t \in Turn, events \in Seq(Emission),
             d \in Dispositions : FailsWith(err, t, events, d)
    BY <1>22 DEF AttemptFails
  <2>2. /\ Len(attempts') = current
        /\ attempts'[Len(attempts')].leg = leg
        /\ turn' = t /\ at' \in {"failing", "backoff", "picking"}
        /\ UNCHANGED <<leg, result>>
    BY <2>1, FailEffect DEF current
  <2>3. /\ \A i \in 1..Len(t.content) : t.content[i].by = current
        /\ t.items \subseteq {current}
        /\ t.ident # 0 => t.ident = leg
        /\ result = NoResult
    <3>1. CASE at = "trying" /\ t = EmptyTurn
      BY <3>1 DEF EmptyTurn, Turns
    <3>2. CASE at \in {"settling", "guarding"} /\ t = turn
      BY <3>2 DEF Turns, TurnBy, Asked, Reading
    <3>3. CASE at = "streaming" /\ t = Flushed
      <4>1. TurnBy(current) /\ turn.ident = leg /\ result = NoResult
        BY <3>3 DEF Turns, Reading
      <4>2. /\ t.content = turn.content \o Fragments(filter.held)
            /\ t.items \subseteq turn.items \cup {current}
            /\ t.ident = turn.ident /\ filter.held \in Seq(Texts)
        BY <3>3, FlushType DEF TypeOK
      <4>3. /\ \A i \in 1..Len(t.content) : t.content[i].by = current
            /\ t.items \subseteq {current}
        BY <4>1, <4>2, ExtendTurn
      <4> QED BY <4>1, <4>2, <4>3
    <3> QED BY <2>1, <3>1, <3>2, <3>3 DEF FailsWith
  <2>4. Len(attempts') > 0  BY <2>2, CurrentType
  <2>5. result' = NoResult  BY <2>2, <2>3
  <2>6. TurnOfLastAttempt'  BY <2>5 DEF TurnOfLastAttempt
  <2> QED
    BY <2>2, <2>3, <2>4, <2>5, <2>6
       DEF Turns, TurnBy, Asked, Reading, lastAttempt
<1> QED
  BY FailureSteps, <1>0, <1>1, <1>2, <1>3, <1>4, <1>5, <1>6, <1>7, <1>8, <1>9,
     <1>10, <1>11, <1>12, <1>13, <1>14, <1>15, <1>16, <1>17, <1>18, <1>19,
     <1>20, <1>21, <1>22 DEF Step

LEMMA TurnsInit ==
  ASSUME Init
  PROVE  Turns /\ TurnOfLastAttempt
BY DEF Init, EmptyTurn, Turns, TurnBy, Asked, Reading, TurnOfLastAttempt

-----------------------------------------------------------------------------
(* What a consumer of Stream receives.                                     *)

LEMMA ConcatAnswers ==
  ASSUME NEW s \in Seq(Emission), NEW t \in Seq(Emission), NEW n
  PROVE  /\ NoAnswers(s) /\ NoAnswers(t) => NoAnswers(s \o t)
         /\ AnswersBy(s, n) /\ AnswersBy(t, n) => AnswersBy(s \o t, n)
         /\ NoAnswers(s) => AnswersBy(s, n)
BY DEF NoAnswers, AnswersBy

LEMMA AppendAnswers ==
  ASSUME NEW s \in Seq(Emission), NEW e \in Emission, NEW n,
         e.kind \notin AnswerEvents
  PROVE  /\ Append(s, e) \in Seq(Emission)
         /\ NoAnswers(s) => NoAnswers(Append(s, e))
         /\ AnswersBy(s, n) => AnswersBy(Append(s, e), n)
BY DEF NoAnswers, AnswersBy

(* Held-back text that a stream releases shows in emitted.                 *)
LEMMA FlushAnswers ==
  ASSUME TypeOK
  PROVE  /\ AnswersBy(FlushEvents, current)
         /\ Flushed.emitted \/ (~turn.emitted /\ NoAnswers(FlushEvents))
<1>1. filter.held \in Seq(Texts)  BY DEF TypeOK
<1>2. AnswersBy(FlushEvents, current)
  BY <1>1, TextEventsType DEF FlushEvents, AnswersBy
<1>3. filter.held = <<>> => NoAnswers(FlushEvents)
  BY <1>1, TextEventsType DEF FlushEvents, NoAnswers
<1> QED BY <1>2, <1>3, FlushType

(* So does whatever a line emits.                                          *)
LEMMA LineAnswers ==
  ASSUME TypeOK, NEW c \in Chunk, Line(c)
  PROVE  /\ AnswersBy(ToolEvents(c), current)
         /\ AnswersBy(TextEvents(Through(c), c.reasoning # "none"), current)
         /\ \/ turn'.emitted
            \/ /\ ~turn.emitted /\ NoAnswers(ToolEvents(c))
               /\ NoAnswers(TextEvents(Through(c), c.reasoning # "none"))
<1>1. Through(c) \in Seq(Texts)  BY LineEffect
<1>2. AnswersBy(ToolEvents(c), current)
  BY EventType DEF ToolEvents, AnswersBy
<1>3. AnswersBy(TextEvents(Through(c), c.reasoning # "none"), current)
  BY <1>1, TextEventsType DEF AnswersBy
<1>4. c.tool = "none" => NoAnswers(ToolEvents(c))
  <2> SUFFICES ASSUME c.tool = "none"  PROVE NoAnswers(ToolEvents(c))
    OBVIOUS
  <2>1. Slots(c) = turn.tools /\ turn.tools \in Nat  BY DEF Slots, TypeOK, Turn
  <2>2. ToolEvents(c) = <<>>  BY <2>1 DEF ToolEvents
  <2> QED BY <2>2 DEF NoAnswers
<1>5. Through(c) = <<>> =>
        NoAnswers(TextEvents(Through(c), c.reasoning # "none"))
  BY <1>1, TextEventsType DEF NoAnswers
<1>6. turn'.emitted = (turn.emitted \/ Through(c) # <<>> \/ c.tool # "none")
  BY LineEffect
<1> QED BY <1>2, <1>3, <1>4, <1>5, <1>6

LEMMA CommittedStep ==
  ASSUME TypeOK, Committed, NoSplice, [Next]_vars, opts' = opts, opts.commit
  PROVE  Committed' /\ NoSplice'
<1> USE DEF call, budget, response
<1>a. ASSUME UNCHANGED <<log, turn, attempts>>,
             \/ at' = at
             \/ /\ at \in Asked \cup {"start", "picking", "backoff", "trying"}
                /\ at' \in Places
      PROVE  Committed' /\ NoSplice'
  <2>1. NoSplice'  BY <1>a DEF NoSplice
  <2>2. AnswersBy(log, current)' = AnswersBy(log, current)
    BY <1>a DEF AnswersBy, current
  <2>3. NoAnswers(log)' = NoAnswers(log)  BY <1>a DEF NoAnswers
  <2>4. NoAnswers(log) => AnswersBy(log, current)
    BY DEF NoAnswers, AnswersBy
  <2> QED
    BY <1>a, <2>1, <2>2, <2>3, <2>4 DEF Committed, Asked, Reading
<1>b. ASSUME NEW n, AnswersBy(log', n)
      PROVE  NoSplice'
  BY <1>b DEF AnswersBy, NoSplice
<1>c. ASSUME NEW stop, NEW t, finish(stop, t, log)
      PROVE  NoSplice'
  <2>1. CASE log' = log  BY <2>1 DEF NoSplice
  <2>2. ASSUME NEW e \in Emission, e.kind \notin AnswerEvents,
               log' = Append(log, e)
        PROVE  NoSplice'
    BY <2>2 DEF NoSplice, TypeOK
  <2>3. /\ CallEvent("error") \in Emission /\ CallEvent("done") \in Emission
        /\ CallEvent("error").kind \notin AnswerEvents
        /\ CallEvent("done").kind \notin AnswerEvents
    BY EventType DEF AnswerEvents
  <2> QED BY <1>c, <2>1, <2>2, <2>3 DEF finish
<1>0. CASE UNCHANGED vars  BY <1>0, <1>a DEF vars
<1>1. CASE Refuse  BY <1>1, <1>c DEF Refuse, Committed, Asked, Reading
<1>2. CASE Start
  <2>1. CallEvent("start").kind \notin AnswerEvents
    BY EventType DEF AnswerEvents
  <2>2. log' = <<CallEvent("start")>> /\ at' = "picking"
    BY <1>2 DEF Start
  <2>3. NoAnswers(log')  BY <2>1, <2>2 DEF NoAnswers
  <2> QED
    BY <2>2, <2>3, <1>b
       DEF Committed, NoAnswers, AnswersBy, Asked, Reading
<1>3. CASE NextModel  BY <1>3, <1>a DEF NextModel, Places
<1>4. CASE Exhausted  BY <1>4, <1>a DEF Exhausted, Places
<1>5. CASE BackoffCancelled  BY <1>5, <1>a DEF BackoffCancelled, Places
<1>6. CASE BackoffElapsed  BY <1>6, <1>a DEF BackoffElapsed, Places
<1>7. CASE Prepare
  <2>1. log' = log /\ at = "trying" /\ at' = "sending"
    BY <1>7 DEF Prepare
  <2> QED
    BY <2>1 DEF Committed, NoSplice, NoAnswers, Asked, Reading
<1>8. CASE Disarm  BY <1>8, <1>a DEF Disarm, Places, Asked
<1>9. CASE Accept
  <2> DEFINE ends == [i \in 1..turn.tools |-> Event("tool_call_end")]
             history == log \o ends
  <2>1. Event("tool_call_end") \in Emission
        /\ Event("tool_call_end").by = current
    BY EventType
  <2>2. ends \in Seq(Emission) /\ AnswersBy(ends, current)
    <3>1. turn.tools \in Nat  BY DEF TypeOK, Turn
    <3> QED BY <2>1, <3>1 DEF AnswersBy
  <2>3. AnswersBy(log, current)  BY <1>9 DEF Accept, Committed, Reading
  <2>4. history \in Seq(Emission) /\ AnswersBy(history, current)
    <3> HIDE DEF ends
    <3> QED BY <2>2, <2>3, ConcatAnswers DEF TypeOK
  <2>5. PICK stop : finish(stop, turn, history)  BY <1>9 DEF Accept
  <2>6. /\ CallEvent("error") \in Emission /\ CallEvent("done") \in Emission
        /\ CallEvent("error").kind \notin AnswerEvents
        /\ CallEvent("done").kind \notin AnswerEvents
    BY EventType DEF AnswerEvents
  <2>7. AnswersBy(log', current)
    <3> HIDE DEF history
    <3>1. \/ log' = history \/ log' = Append(history, CallEvent("error"))
          \/ log' = Append(history, CallEvent("done"))
      BY <2>5 DEF finish
    <3> QED BY <2>4, <2>6, <3>1, AppendAnswers
  <2>8. at' = "over"  BY <1>9 DEF Accept
  <2> QED BY <2>7, <2>8, <1>b DEF Committed, Asked, Reading
<1>10. CASE finishFailed
  BY <1>10, <1>c DEF finishFailed, Committed, Asked, Reading
<1>11. CASE DoFails  BY <1>11, <1>a DEF DoFails, Asked, Places
<1>12. CASE Probe  BY <1>12, <1>a DEF Probe
<1>13. CASE StatusFails
  BY <1>13, <1>a DEF StatusFails, Respond, Asked, Places
<1>14. CASE Answered  BY <1>14, <1>a DEF Answered, Respond, Asked, Places
<1>15. CASE \E c \in Chunk : Line(c)
  <2>1. PICK c \in Chunk : Line(c)  BY <1>15
  <2> DEFINE texts == TextEvents(Through(c), c.reasoning # "none")
  <2>2. at = "streaming" /\ at' = at /\ attempts' = attempts
        /\ log' = log \o ToolEvents(c) \o texts
    BY <2>1 DEF Line
  <2>3. ToolEvents(c) \in Seq(Emission)  BY EventType DEF ToolEvents
  <2>4. texts \in Seq(Emission)  BY <2>1, LineEffect, TextEventsType
  <2>5. AnswersBy(log, current) /\ (turn.emitted \/ NoAnswers(log))
    BY <2>2 DEF Committed, Reading
  <2>6. /\ AnswersBy(ToolEvents(c), current) /\ AnswersBy(texts, current)
        /\ \/ turn'.emitted
           \/ ~turn.emitted /\ NoAnswers(ToolEvents(c)) /\ NoAnswers(texts)
    BY <2>1, LineAnswers
  <2>7. AnswersBy(log', current) /\ (turn'.emitted \/ NoAnswers(log'))
    <3> HIDE DEF texts
    <3>1. log \in Seq(Emission) /\ log \o ToolEvents(c) \in Seq(Emission)
      BY <2>3 DEF TypeOK
    <3>2. AnswersBy(log \o ToolEvents(c), current)
      BY <2>3, <2>5, <2>6, <3>1, ConcatAnswers
    <3>3. AnswersBy(log', current)
      BY <2>2, <2>4, <2>6, <3>1, <3>2, ConcatAnswers
    <3>4. ASSUME ~turn'.emitted  PROVE NoAnswers(log')
      <4>1. NoAnswers(log) /\ NoAnswers(ToolEvents(c)) /\ NoAnswers(texts)
        BY <2>5, <2>6, <3>4
      <4>2. NoAnswers(log \o ToolEvents(c))
        BY <2>3, <3>1, <4>1, ConcatAnswers
      <4> QED BY <2>2, <2>4, <3>1, <4>1, <4>2, ConcatAnswers
    <3> QED BY <3>3, <3>4
  <2>8. current' = current  BY <2>2 DEF current
  <2>9. NoSplice'  BY <2>7, <1>b
  <2> QED
    BY <2>2, <2>7, <2>8, <2>9
       DEF Committed, AnswersBy, NoAnswers, Asked, Reading
<1>16. CASE StreamEnds
  <2>1. /\ at = "streaming" /\ at' = "guarding" /\ attempts' = attempts
        /\ log' = log \o FlushEvents /\ turn' = Flushed
    BY <1>16 DEF StreamEnds
  <2>2. AnswersBy(log, current) /\ (turn.emitted \/ NoAnswers(log))
    BY <2>1 DEF Committed, Reading
  <2>3. FlushEvents \in Seq(Emission) /\ log \in Seq(Emission)
    BY FlushType DEF TypeOK
  <2>4. AnswersBy(log', current) /\ (turn'.emitted \/ NoAnswers(log'))
    BY <2>1, <2>2, <2>3, FlushAnswers, ConcatAnswers
  <2>5. current' = current  BY <2>1 DEF current
  <2>6. NoSplice'  BY <2>4, <1>b
  <2> QED
    BY <2>1, <2>4, <2>5, <2>6
       DEF Committed, AnswersBy, NoAnswers, Asked, Reading
<1>17. CASE Cancel  BY <1>17, <1>a DEF Cancel, ContextDone
<1>18. CASE Expire  BY <1>18, <1>a DEF Expire, ContextDone
<1>19. CASE BudgetSpent  BY <1>19, <1>a DEF BudgetSpent
<1>20. CASE TimerFires  BY <1>20, <1>a DEF TimerFires
<1>21. CASE TimerRuns  BY <1>21, <1>a DEF TimerRuns
<1>22. CASE AttemptFails
  <2>1. PICK err \in Failures, t \in Turn, events \in Seq(Emission),
             d \in Dispositions : FailsWith(err, t, events, d)
    BY <1>22 DEF AttemptFails
  <2>2. /\ log' = log \o Append(events, Event("leg_failed"))
        /\ turn' = t /\ Follow(d)
        /\ at' \in {"failing", "backoff", "picking"}
    BY <2>1, FailEffect
  <2>3. /\ Event("leg_failed") \in Emission
        /\ Event("leg_failed").kind \notin AnswerEvents
    BY EventType DEF AnswerEvents
  <2>4. log \in Seq(Emission)  BY DEF TypeOK
  <2>5. /\ AnswersBy(log, current) /\ AnswersBy(events, current)
        /\ t.emitted \/ (NoAnswers(log) /\ NoAnswers(events))
    <3>1. NoAnswers(<<>>) /\ AnswersBy(<<>>, current)
      BY DEF NoAnswers, AnswersBy
    <3>2. NoAnswers(log) => AnswersBy(log, current)
      BY DEF NoAnswers, AnswersBy
    <3>3. CASE at \in {"trying", "settling"} /\ events = <<>>
      BY <3>1, <3>2, <3>3 DEF Committed, Asked
    <3>4. CASE at = "guarding" /\ events = <<>> /\ t = turn
      BY <3>1, <3>4 DEF Committed, Reading
    <3>5. CASE at = "streaming" /\ events = FlushEvents /\ t = Flushed
      BY <3>5, FlushAnswers DEF Committed, Reading
    <3> QED BY <2>1, <3>3, <3>4, <3>5 DEF FailsWith
  <2>6. Append(events, Event("leg_failed")) \in Seq(Emission)
    BY <2>3
  <2>7. AnswersBy(log', current)
    BY <2>2, <2>3, <2>4, <2>5, <2>6, AppendAnswers, ConcatAnswers
  <2>8. t.emitted \/ NoAnswers(log')
    BY <2>2, <2>3, <2>4, <2>5, <2>6, AppendAnswers, ConcatAnswers
  <2>9. t.emitted => at' = "failing"
    BY <2>1, <2>2 DEF FailsWith, commitFailure, Follow
  <2>10. NoSplice'  BY <2>7, <1>b
  <2> QED
    BY <2>2, <2>8, <2>9, <2>10 DEF Committed, NoAnswers, Asked, Reading
<1> QED
  BY FailureSteps, <1>0, <1>1, <1>2, <1>3, <1>4, <1>5, <1>6, <1>7, <1>8, <1>9,
     <1>10, <1>11, <1>12, <1>13, <1>14, <1>15, <1>16, <1>17, <1>18, <1>19,
     <1>20, <1>21, <1>22 DEF Step

(* The options of a call are fixed.                                        *)
LEMMA OptionsFixed ==
  ASSUME TypeOK, [Next]_vars
  PROVE  opts' = opts
BY FailureSteps
   DEF Step, vars, call, Refuse, Start, NextModel, Exhausted,
       BackoffCancelled, BackoffElapsed, Prepare, Disarm, Accept, finishFailed,
       DoFails, Probe, StatusFails, Answered, Line, StreamEnds, Cancel, Expire,
       ContextDone, BudgetSpent, TimerFires, TimerRuns, AttemptFails,
       FailsWith, Fail

-----------------------------------------------------------------------------
(* Truncated calls.                                                        *)

LEMMA CallsStep ==
  ASSUME TypeOK, Turns, NoTruncatedCallRuns, [Next]_vars
  PROVE  NoTruncatedCallRuns'
<1>1. opts' = opts  BY OptionsFixed
<1>2. CASE result' = result  BY <1>1, <1>2 DEF NoTruncatedCallRuns
<1>3. ASSUME NEW stop \in {"error", "aborted"}, NEW t, NEW history,
             finish(stop, t, history), result' # result
      PROVE  NoTruncatedCallRuns'
  <2>1. result'.stop = stop  BY <1>3 DEF finish
  <2> QED BY <2>1 DEF NoTruncatedCallRuns
<1>4. CASE Accept
  <2>1. result = NoResult  BY <1>4 DEF Accept, Turns
  <2>2. PICK history :
          finish(stopReasonFor(turn.finish, turn.tools), turn, history)
    BY <1>4 DEF Accept
  <2>3. /\ result'.stop = stopReasonFor(turn.finish, turn.tools)
        /\ result'.turn = turn
    BY <2>1, <2>2 DEF finish
  <2>4. PICK short \in BOOLEAN : guardResponse(short) = "none"
    BY <1>4 DEF Accept
  <2>5. turn.tools > 0 /\ turn.finish = "length" => opts.capped
    BY <2>4 DEF guardResponse, TypeOK, Turn
  <2>6. turn.tools \in Nat  BY DEF TypeOK, Turn
  <2> QED
    BY <1>1, <2>3, <2>5, <2>6 DEF NoTruncatedCallRuns, stopReasonFor
<1>5. CASE Refuse  BY <1>2, <1>3, <1>5 DEF Refuse
<1>6. CASE finishFailed
  <2>1. terminalReason \in {"error", "aborted"}  BY DEF terminalReason
  <2> QED BY <1>2, <1>3, <1>6, <2>1 DEF finishFailed
<1>7. CASE [Next]_vars /\ ~Accept /\ ~Refuse /\ ~finishFailed
  <2>1. result' = result
    BY <1>7, FailureSteps
       DEF Step, vars, Start, NextModel, Exhausted, BackoffCancelled,
           BackoffElapsed, Prepare, Disarm, DoFails, Probe, StatusFails,
           Answered, Line, StreamEnds, Cancel, Expire, ContextDone,
           BudgetSpent, TimerFires, TimerRuns, AttemptFails, FailsWith, Fail
  <2> QED BY <2>1, <1>2
<1> QED BY <1>4, <1>5, <1>6, <1>7

-----------------------------------------------------------------------------
(* The policy.                                                             *)

LEMMA LegsStep ==
  ASSUME TypeOK, Legs, [Next]_vars
  PROVE  Legs'
<1> USE DEF Legs, WillRetry, WillLeave, Tried, lastAttempt, Asked, Reading,
            call, budget, response
<1>0. CASE UNCHANGED vars  BY <1>0 DEF vars
<1>1. CASE Refuse  BY <1>1 DEF Refuse
<1>2. CASE Start  BY <1>2 DEF Start
<1>3. CASE NextModel
  <2>1. PICK m \in remaining : leg' = m /\ remaining' = remaining \ {m}
    BY <1>3 DEF NextModel
  <2>2. m # 0  BY <2>1, OptionTypes DEF TypeOK
  <2> QED BY <1>3, <2>1, <2>2 DEF NextModel
<1>4. CASE Exhausted  BY <1>4 DEF Exhausted, HasMore
<1>5. CASE BackoffCancelled  BY <1>5 DEF BackoffCancelled
<1>6. CASE BackoffElapsed  BY <1>6 DEF BackoffElapsed
<1>7. CASE Prepare  BY <1>7 DEF Prepare
<1>8. CASE Disarm  BY <1>8 DEF Disarm
<1>9. CASE Accept
  <2> DEFINE last == [leg |-> leg, retry |-> retry, err |-> "none",
                      emitted |-> turn.emitted, token |-> filter.token,
                      disposition |-> "none"]
  <2>1. last \in Attempt
    BY MaxRetriesAssumption, OptionTypes DEF Attempt, TypeOK, Turn, Failures
  <2>2. attempts' = Append(attempts, last)  BY <1>9 DEF Accept
  <2>3. last.leg = leg  OBVIOUS
  <2>4. attempts'[Len(attempts')].leg = leg
    <3> HIDE DEF last
    <3> QED BY <2>1, <2>2, <2>3, AppendFacts DEF TypeOK
  <2> QED BY <1>9, <2>4 DEF Accept
<1>10. CASE finishFailed  BY <1>10 DEF finishFailed
<1>11. CASE DoFails  BY <1>11 DEF DoFails
<1>12. CASE Probe  BY <1>12 DEF Probe
<1>13. CASE StatusFails  BY <1>13 DEF StatusFails, Respond
<1>14. CASE Answered  BY <1>14 DEF Answered, Respond
<1>15. CASE \E c \in Chunk : Line(c)  BY <1>15 DEF Line
<1>16. CASE StreamEnds  BY <1>16 DEF StreamEnds
<1>17. CASE Cancel  BY <1>17 DEF Cancel, ContextDone
<1>18. CASE Expire  BY <1>18 DEF Expire, ContextDone
<1>19. CASE BudgetSpent  BY <1>19 DEF BudgetSpent, InLeg
<1>20. CASE TimerFires  BY <1>20 DEF TimerFires
<1>21. CASE TimerRuns  BY <1>21 DEF TimerRuns
<1>22. CASE AttemptFails
  <2>1. PICK err \in Failures, t \in Turn, events \in Seq(Emission),
             d \in Dispositions : FailsWith(err, t, events, d)
    BY <1>22 DEF AttemptFails
  <2>2. at \in Asked \cup Reading \cup {"trying"}
    BY <2>1 DEF FailsWith
  <2>3. /\ Len(attempts') = Len(attempts) + 1
        /\ attempts'[Len(attempts')].leg = leg
        /\ attempts'[Len(attempts')].retry = retry
        /\ attempts'[Len(attempts')].disposition = d
        /\ Follow(d)
        /\ UNCHANGED <<opts, ctx, remaining, leg, spent>>
    BY <2>1, FailEffect
  <2>4. Len(attempts') > 0 /\ leg # 0 /\ opts.valid
    BY <2>2, <2>3, CurrentType DEF current
  <2>5. retry \in 0..(MaxRetries - 1) /\ MaxRetries \in Nat
    BY MaxRetriesAssumption DEF TypeOK
  <2>6. CASE d = "abort"
    BY <2>3, <2>4, <2>6 DEF Follow
  <2>7. CASE d = "retry" /\ retry + 1 < MaxRetries
    BY <2>3, <2>4, <2>7 DEF Follow
  <2>8. CASE d = "retry" /\ ~(retry + 1 < MaxRetries)
    <3>1. retry + 1 = MaxRetries  BY <2>5, <2>8
    <3>2. at' = "picking"  BY <2>3, <2>8 DEF Follow
    <3> QED BY <2>3, <2>4, <2>8, <3>1, <3>2
  <2>9. CASE d = "advance"
    BY <2>3, <2>4, <2>9 DEF Follow
  <2> QED BY <2>6, <2>7, <2>8, <2>9 DEF Dispositions
<1> QED
  BY FailureSteps, <1>0, <1>1, <1>2, <1>3, <1>4, <1>5, <1>6, <1>7, <1>8, <1>9,
     <1>10, <1>11, <1>12, <1>13, <1>14, <1>15, <1>16, <1>17, <1>18, <1>19,
     <1>20, <1>21, <1>22 DEF Step

LEMMA LegsInit ==
  ASSUME Init
  PROVE  Legs
<1>1. opts.legs \in Nat  BY OptionsAssumption DEF Init
<1> QED
  BY <1>1 DEF Init, Legs, Asked, Reading

(* A terminal message is told from none, and its kind says how a call ends. *)
LEMMA FinishOutcome ==
  ASSUME TypeOK, result = NoResult, NEW t \in Turn, NEW history,
         NEW stop \in {"stop", "length", "tool_use", "error", "aborted"},
         finish(stop, t, history), attempts' \in Seq(Attempt)
  PROVE  /\ Outcome = "open"
         /\ Outcome' = IF stop \in {"error", "aborted"} THEN "failure" ELSE "answer"
<1>1. result' = [stop |-> stop, turn |-> t, tried |-> Len(attempts')]
  BY DEF finish
<1>2. result' \in Message  BY <1>1 DEF Message
<1>3. result' # NoResult  BY <1>2, NoResultAssumption
<1>4. result'.stop = stop  BY <1>1
<1> QED BY <1>3, <1>4 DEF Outcome

LEMMA PolicyStep ==
  ASSUME TypeOK, Turns, Legs, [Next]_vars
  PROVE  [Policy!Next]_(Policy!policy)
<1> USE DEF call, budget, response
<1>a. ASSUME UNCHANGED <<opts, remaining, leg, attempts, result>>
      PROVE  UNCHANGED Policy!policy
  BY <1>a DEF Policy!policy, Untried, Tries, Verdict, Outcome, Tried, lastAttempt
<1>b. ASSUME WillLeave
      PROVE  Policy!MayLeave
  BY <1>b DEF WillLeave, Policy!MayLeave, Tries, Verdict, Tried
<1>0. CASE UNCHANGED vars  BY <1>0, <1>a DEF vars
<1>1. CASE Refuse
  <2>1. /\ at = "start" /\ ~opts.valid /\ attempts' = attempts
        /\ finish("error", turn, log)
        /\ UNCHANGED <<opts, remaining, leg>>
    BY <1>1 DEF Refuse
  <2>2. result = NoResult /\ leg = 0  BY <2>1 DEF Turns, Legs
  <2>3. Outcome = "open" /\ Outcome' = "failure"
    BY <2>1, <2>2, FinishOutcome DEF TypeOK
  <2>4. Untried = {}  BY <2>1 DEF Untried
  <2>5. Policy!MayLeave  BY <2>2, <1>b DEF WillLeave
  <2>6. UNCHANGED <<Untried, opts.random, Tries, Verdict>>
    BY <2>1 DEF Untried, Tries, Verdict, Tried, lastAttempt
  <2>7. Policy!Fail  BY <2>3, <2>4, <2>5, <2>6 DEF Policy!Fail
  <2> QED BY <2>7 DEF Policy!Next
<1>2. CASE Start  BY <1>2, <1>a DEF Start
<1>3. CASE NextModel
  <2>1. /\ at = "picking" /\ retry' = 0
        /\ UNCHANGED <<opts, attempts, result>>
    BY <1>3 DEF NextModel
  <2>2. PICK m \in remaining :
          /\ opts.random \/ \A n \in remaining : m <= n
          /\ leg' = m /\ remaining' = remaining \ {m}
    BY <1>3 DEF NextModel
  <2>3. opts.valid /\ WillLeave /\ result = NoResult
    BY <2>1 DEF Legs, Turns
  <2>4. m # 0  BY <2>2, OptionTypes DEF TypeOK
  <2>5. ~Tried'  BY <2>1, <2>2 DEF Legs, Tried, lastAttempt
  <2>6. Untried = remaining /\ Untried' = remaining \ {m}
    BY <2>1, <2>2, <2>3 DEF Untried
  <2>7. Tries' = 0 /\ Verdict' = "none"
    BY <2>2, <2>4, <2>5 DEF Tries, Verdict
  <2>8. Outcome = "open" /\ Outcome' = Outcome /\ opts'.random = opts.random
    BY <2>1, <2>3 DEF Outcome
  <2>9. Policy!Pick
    BY <2>2, <2>3, <2>6, <2>7, <2>8, <1>b DEF Policy!Pick
  <2> QED BY <2>9 DEF Policy!Next
<1>4. CASE Exhausted  BY <1>4, <1>a DEF Exhausted
<1>5. CASE BackoffCancelled  BY <1>5, <1>a DEF BackoffCancelled
<1>6. CASE BackoffElapsed  BY <1>6, <1>a DEF BackoffElapsed
<1>7. CASE Prepare  BY <1>7, <1>a DEF Prepare
<1>8. CASE Disarm  BY <1>8, <1>a DEF Disarm
<1>c. ASSUME at \in Asked \cup Reading \cup {"trying"}
      PROVE  leg # 0 /\ Policy!MayAttempt /\ Tries = retry
  <2>1. leg # 0 /\ (WillRetry \/ (~Tried /\ retry = 0))  BY <1>c DEF Legs
  <2>2. retry < MaxRetries  BY MaxRetriesAssumption DEF TypeOK
  <2>3. CASE WillRetry
    <3>1. Tries = retry /\ Verdict = "retry"
      BY <2>3 DEF WillRetry, Tries, Verdict
    <3> QED BY <2>1, <2>2, <3>1 DEF Policy!MayAttempt
  <2>4. CASE ~Tried /\ retry = 0
    BY <2>1, <2>4 DEF Tries, Verdict, Policy!MayAttempt
  <2> QED BY <2>1, <2>3, <2>4
<1>9. CASE Accept
  <2> DEFINE last == [leg |-> leg, retry |-> retry, err |-> "none",
                      emitted |-> turn.emitted, token |-> filter.token,
                      disposition |-> "none"]
  <2>1. last \in Attempt
    BY MaxRetriesAssumption, OptionTypes DEF Attempt, TypeOK, Turn, Failures
  <2>2. attempts' = Append(attempts, last)  BY <1>9 DEF Accept
  <2>3. last.leg = leg /\ last.retry = retry /\ last.disposition = "none"
    OBVIOUS
  <2>4. /\ attempts' \in Seq(Attempt) /\ Len(attempts') > 0
        /\ attempts'[Len(attempts')].leg = leg
        /\ attempts'[Len(attempts')].retry = retry
        /\ attempts'[Len(attempts')].disposition = "none"
    <3> HIDE DEF last
    <3> QED BY <2>1, <2>2, <2>3, AppendFacts DEF TypeOK
  <2>5. at = "guarding" /\ UNCHANGED <<opts, remaining, leg>>
    BY <1>9 DEF Accept
  <2>6. leg # 0 /\ Policy!MayAttempt /\ Tries = retry
    BY <2>5, <1>c DEF Reading
  <2>7. result = NoResult  BY <2>5 DEF Turns
  <2>8. stopReasonFor(turn.finish, turn.tools) \in {"stop", "length", "tool_use"}
    BY DEF stopReasonFor
  <2>9. PICK history :
          finish(stopReasonFor(turn.finish, turn.tools), turn, history)
    BY <1>9 DEF Accept
  <2>10. Outcome = "open" /\ Outcome' = "answer"
    BY <2>4, <2>7, <2>8, <2>9, FinishOutcome DEF TypeOK
  <2>11. Tries' = Tries + 1 /\ Verdict' = "accepted"
    BY <2>4, <2>5, <2>6 DEF Tries, Verdict, Tried, lastAttempt
  <2>12. Untried' = Untried /\ opts'.random = opts.random
    BY <2>5 DEF Untried
  <2>13. Policy!Attempt
    BY <2>6, <2>10, <2>11, <2>12 DEF Policy!Attempt
  <2> QED BY <2>13 DEF Policy!Next
<1>10. CASE finishFailed
  <2>1. /\ at = "failing" /\ attempts' = attempts
        /\ finish(terminalReason, turn, log)
        /\ UNCHANGED <<opts, remaining, leg>>
    BY <1>10 DEF finishFailed
  <2>2. result = NoResult /\ opts.valid  BY <2>1 DEF Turns, Legs
  <2>3. terminalReason \in {"error", "aborted"}  BY DEF terminalReason
  <2>4. Outcome = "open" /\ Outcome' = "failure"
    BY <2>1, <2>2, <2>3, FinishOutcome DEF TypeOK
  <2>5. UNCHANGED <<Untried, opts.random, Tries, Verdict>>
    BY <2>1 DEF Untried, Tries, Verdict, Tried, lastAttempt
  <2>6. \/ ctx # "live" \/ Verdict = "abort"
        \/ Policy!MayLeave /\ Untried = {}
    <3>1. \/ ctx # "live"
          \/ leg # 0 /\ Tried /\ lastAttempt.disposition = "abort"
          \/ WillLeave /\ remaining = {}
      BY <2>1 DEF Legs
    <3> QED BY <2>2, <3>1, <1>b DEF Verdict, Untried
  <2>7. Policy!Fail  BY <2>4, <2>5, <2>6 DEF Policy!Fail
  <2> QED BY <2>7 DEF Policy!Next
<1>11. CASE DoFails  BY <1>11, <1>a DEF DoFails
<1>12. CASE Probe  BY <1>12, <1>a DEF Probe
<1>13. CASE StatusFails  BY <1>13, <1>a DEF StatusFails
<1>14. CASE Answered  BY <1>14, <1>a DEF Answered
<1>15. CASE \E c \in Chunk : Line(c)  BY <1>15, <1>a DEF Line
<1>16. CASE StreamEnds  BY <1>16, <1>a DEF StreamEnds
<1>17. CASE Cancel  BY <1>17, <1>a DEF Cancel, ContextDone
<1>18. CASE Expire  BY <1>18, <1>a DEF Expire, ContextDone
<1>19. CASE BudgetSpent  BY <1>19, <1>a DEF BudgetSpent
<1>20. CASE TimerFires  BY <1>20, <1>a DEF TimerFires
<1>21. CASE TimerRuns  BY <1>21, <1>a DEF TimerRuns
<1>22. CASE AttemptFails
  <2>1. PICK err \in Failures, t \in Turn, events \in Seq(Emission),
             d \in Dispositions : FailsWith(err, t, events, d)
    BY <1>22 DEF AttemptFails
  <2>2. at \in Asked \cup Reading \cup {"trying"}
    BY <2>1 DEF FailsWith, Asked, Reading
  <2>3. /\ Len(attempts') = Len(attempts) + 1
        /\ attempts'[Len(attempts')].leg = leg
        /\ attempts'[Len(attempts')].retry = retry
        /\ attempts'[Len(attempts')].disposition = d
        /\ UNCHANGED <<opts, remaining, leg, result>>
    BY <2>1, FailEffect
  <2>4. Len(attempts') > 0  BY <2>3, CurrentType DEF current
  <2>5. leg # 0 /\ Policy!MayAttempt /\ Tries = retry  BY <2>2, <1>c
  <2>6. Outcome = "open" /\ Outcome' = "open"
    BY <2>2, <2>3 DEF Turns, Outcome, Asked, Reading
  <2>7. Tries' = Tries + 1 /\ Verdict' = d
    BY <2>3, <2>4, <2>5
       DEF Tries, Verdict, Tried, lastAttempt, Dispositions
  <2>8. Untried' = Untried /\ opts'.random = opts.random
    BY <2>3 DEF Untried
  <2>9. Policy!Attempt
    BY <2>5, <2>6, <2>7, <2>8 DEF Policy!Attempt, Dispositions
  <2> QED BY <2>9 DEF Policy!Next
<1> QED
  BY FailureSteps, <1>0, <1>1, <1>2, <1>3, <1>4, <1>5, <1>6, <1>7, <1>8, <1>9,
     <1>10, <1>11, <1>12, <1>13, <1>14, <1>15, <1>16, <1>17, <1>18, <1>19,
     <1>20, <1>21, <1>22 DEF Step

LEMMA PolicyInit ==
  ASSUME Init
  PROVE  Policy!Init
<1>1. opts.legs \in Nat /\ opts.random \in BOOLEAN
  BY OptionsAssumption DEF Init
<1>2. Untried \subseteq Nat  BY <1>1 DEF Init, Untried
<1>3. Tries = 0 /\ Verdict = "advance" /\ Outcome = "open"
  BY DEF Init, Tries, Verdict, Outcome, Tried
<1> QED BY <1>1, <1>2, <1>3 DEF Policy!Init

-----------------------------------------------------------------------------
(* The invariant and what follows from it.                                 *)

LEMMA InvariantInit ==
  ASSUME Init
  PROVE  IInv
<1>1. TypeOK  BY TypeInit
<1>2. Bodies  BY DEF Init, Bodies
<1>3. Budget
  BY DEF Init, Budget, Asked, BudgetOnlyBeforeResponse, NewFilter
<1>4. Committed /\ NoSplice
  BY DEF Init, Committed, NoAnswers, AnswersBy, NoSplice, Asked, Reading
<1>5. Turns /\ TurnOfLastAttempt  BY TurnsInit
<1>6. NoTruncatedCallRuns  BY DEF Init, NoTruncatedCallRuns
<1>7. Legs  BY LegsInit
<1> QED BY <1>1, <1>2, <1>3, <1>4, <1>5, <1>6, <1>7 DEF IInv

LEMMA InvariantStep ==
  ASSUME IInv, [Next]_vars
  PROVE  IInv'
<1>0. /\ TypeOK /\ Bodies /\ Budget /\ Committed /\ NoSplice
      /\ Turns /\ TurnOfLastAttempt /\ NoTruncatedCallRuns /\ Legs
  BY DEF IInv
<1>1. TypeOK'  BY <1>0, TypeStep
<1>2. Bodies'  BY <1>0, BodiesStep
<1>3. Budget'  BY <1>0, BudgetStep
<1>4. Committed' /\ NoSplice'
  <2>1. opts' = opts  BY <1>0, OptionsFixed
  <2>2. CASE opts.commit  BY <1>0, <2>1, <2>2, CommittedStep
  <2>3. CASE ~opts.commit  BY <2>1, <2>3 DEF Committed, NoSplice
  <2> QED BY <2>2, <2>3
<1>5. Turns' /\ TurnOfLastAttempt'  BY <1>0, TurnsStep
<1>6. NoTruncatedCallRuns'  BY <1>0, CallsStep
<1>7. Legs'  BY <1>0, LegsStep
<1> QED BY <1>1, <1>2, <1>3, <1>4, <1>5, <1>6, <1>7 DEF IInv

(* Every reachable state of a call satisfies the inductive invariant, for  *)
(* all options, chunks and bounds.                                         *)
THEOREM Invariance == Spec => []IInv
<1>1. Init => IInv  BY InvariantInit
<1>2. IInv /\ [Next]_vars => IInv'  BY InvariantStep
<1> QED BY <1>1, <1>2, PTL DEF Spec

(* The chain keeps its types: nothing reaches a turn, an event, an attempt *)
(* or the terminal message but what chain.go puts there.                   *)
THEOREM TypeCorrect == Spec => []TypeOK
<1>1. IInv => TypeOK  BY DEF IInv
<1> QED BY <1>1, Invariance, PTL

(* The response whose body the deferred call of attemptLeg closes is the   *)
(* one received last, whether or not it is the second of its attempt: so   *)
(* every body is closed, and by the attempt that received it.              *)
THEOREM EveryBodyClosed == Spec => []BodiesClosed
<1>1. IInv => BodiesClosed
  <2> SUFFICES ASSUME Bodies  PROVE BodiesClosed  BY DEF IInv
  <2>1. open = {} \/ open = {currentResponse}  BY DEF Bodies
  <2>2. Cardinality({}) = 0 /\ Cardinality({currentResponse}) = 1
    BY FS_EmptySet, FS_Singleton
  <2>3. Cardinality(open) <= 1  BY <2>1, <2>2
  <2> QED BY <2>3 DEF Bodies, BodiesClosed, Quiet
<1> QED BY <1>1, Invariance, PTL

(* The leg budget ends no attempt that received anything: disarm() stops   *)
(* its timer before the first line is read, or notices that it has fired.  *)
THEOREM BudgetEndsWaitOnly == Spec => []BudgetOnlyBeforeResponse
<1>1. IInv => BudgetOnlyBeforeResponse  BY DEF IInv, Budget
<1> QED BY <1>1, Invariance, PTL

(* Nobody who reads a Stream gets pieces of two answers: an attempt that   *)
(* put out anything is the last, whatever it fails with, and what a        *)
(* failing stream releases at its end counts.                              *)
THEOREM NothingSpliced == Spec => []NoSplice
<1>1. IInv => NoSplice  BY DEF IInv
<1> QED BY <1>1, Invariance, PTL

(* Text, reasoning items and identity of the terminal message come from    *)
(* the last attempt, however many failed before it and wherever they did.  *)
THEOREM TurnIsLastAttempts == Spec => []TurnOfLastAttempt
<1>1. IInv => TurnOfLastAttempt  BY DEF IInv
<1> QED BY <1>1, Invariance, PTL

(* Calls cut off by the output cap are either rejected with their attempt  *)
(* or come back to a caller who declared the cap, never as tool use.       *)
THEOREM TruncatedNeverRuns == Spec => []NoTruncatedCallRuns
<1>1. IInv => NoTruncatedCallRuns  BY DEF IInv
<1> QED BY <1>1, Invariance, PTL

(* The chain implements the policy of Fallback: every model is taken once, *)
(* retried and left as its last disposition says, and a call fails only    *)
(* after an abort, with no model left, or interrupted.                     *)
THEOREM FollowsPolicy == Spec => IsFallback
<1>1. Init => Policy!Init  BY PolicyInit
<1>2. IInv /\ [Next]_vars => [Policy!Next]_(Policy!policy)
  BY PolicyStep DEF IInv
<1> QED
  BY <1>1, <1>2, Invariance, PTL DEF Spec, IsFallback, Policy!Spec

-----------------------------------------------------------------------------
(* The call: its inductive invariant.                                      *)

TellsText(e) == e.kind = "text_delta"

(* The attempt whose text the turn holds: the one under way or the last.   *)
Owner == IF at \in Asked \cup Reading THEN current ELSE Len(attempts)

(* The log begins with the only start event, unless the call was refused.  *)
Opened ==
  /\ opts.valid /\ at # "start" => Len(log) > 0
  /\ at = "start" => Len(log) = 0
  /\ \A i \in 1..Len(log) : log[i].kind = "start" <=> (opts.valid /\ i = 1)

(* The chain is over exactly when a message is latched, and the terminal   *)
(* event is the last of the log; the message holds the turn as it is.      *)
Latched ==
  /\ result # NoResult <=> at = "over"
  /\ at = "over" => /\ result.turn = turn /\ result.tried = Len(attempts)
                    /\ Len(log) > 0
  /\ \A i \in 1..Len(log) : IsTerminal(log[i]) <=> at = "over" /\ i = Len(log)

(* The text deltas of the owner, joined, are the text of the turn.  No     *)
(* later attempt has sent any, and in Stream no other one.                 *)
Spelled ==
  /\ \A i \in 1..Len(log) : TellsText(log[i]) => log[i].by <= Owner
  /\ DeltasOf(log, Owner) = turn.content
  /\ opts.commit =>
       \A i \in 1..Len(log) : TellsText(log[i]) => log[i].by = Owner

Told == Opened /\ Latched /\ Spelled

(* The caller has received a prefix of the log, and all of a sealed one    *)
(* once the events have ended, unless it abandoned them.                   *)
Relayed ==
  /\ received \in Seq(Emission) /\ Len(received) <= Len(log)
  /\ \A i \in 1..Len(received) : received[i] = log[i]
  /\ ended /\ closing # "abandoned" =>
       result # NoResult /\ Len(received) = Len(log)

CallInv == IInv /\ Told /\ Relayed

-----------------------------------------------------------------------------
(* Joining text deltas.                                                    *)

Join(events, n, i, before) ==
  IF events[i].kind = "text_delta" /\ events[i].by = n
    THEN before \o events[i].delta ELSE before

Joins(f, events, n) ==
  /\ f \in [0..Len(events) -> Seq(Piece)]
  /\ f[0] = <<>>
  /\ \A i \in 1..Len(events) : f[i] = Join(events, n, i, f[i - 1])

LEMMA JoinType ==
  ASSUME NEW events \in Seq(Emission), NEW n, NEW i \in 1..Len(events),
         NEW before \in Seq(Piece)
  PROVE  Join(events, n, i, before) \in Seq(Piece)
<1>1. events[i] \in Emission  OBVIOUS
<1>2. events[i].delta \in Seq(Piece)  BY <1>1 DEF Emission
<1> QED BY <1>2 DEF Join

(* DeltasOf is defined by recursion over the events.                       *)
LEMMA DeltasJoin ==
  ASSUME NEW events \in Seq(Emission), NEW n
  PROVE  \E f : Joins(f, events, n) /\ DeltasOf(events, n) = f[Len(events)]
<1> DEFINE len == Len(events)
<1> DEFINE step ==
      [i \in 1..len |-> [p \in Seq(Piece) |-> Join(events, n, i, p)]]
<1> DEFINE body(f) ==
      [i \in 0..len |->
         IF i = 0 THEN <<>>
         ELSE IF events[i].kind = "text_delta" /\ events[i].by = n
                THEN f[i - 1] \o events[i].delta
                ELSE f[i - 1]]
<1> DEFINE F == CHOOSE f : f = body(f)
<1>1. len \in Nat  OBVIOUS
<1>2. step \in [1..len -> [Seq(Piece) -> Seq(Piece)]]
  <2>1. \A i \in 1..len, p \in Seq(Piece) :
          Join(events, n, i, p) \in Seq(Piece)
    BY JoinType
  <2> QED BY <2>1
<1>3. PICK g : Unfolds(g, len, Seq(Piece), <<>>, step)
  <2> DEFINE texts == Seq(Piece)
  <2> DEFINE none == <<>>
  <2>1. none \in texts /\ step \in [1..len -> [texts -> texts]]  BY <1>2
  <2> HIDE DEF step, len, texts, none
  <2>2. \E g : Unfolds(g, len, texts, none, step)
    BY <1>1, <2>1, Recursion
  <2> QED BY <2>2 DEF texts, none
<1>4. ASSUME NEW i \in 1..len  PROVE g[i] = Join(events, n, i, g[i - 1])
  <2>1. i - 1 \in 0..len  BY <1>1
  <2>2. g[i - 1] \in Seq(Piece)  BY <1>3, <2>1 DEF Unfolds
  <2>3. step[i][g[i - 1]] = Join(events, n, i, g[i - 1])  BY <2>2
  <2> QED BY <1>3, <2>3 DEF Unfolds
<1>5. g = body(g)
  <2>1. ASSUME NEW i \in 0..len  PROVE g[i] = body(g)[i]
    <3>1. CASE i = 0  BY <1>3, <3>1 DEF Unfolds
    <3>2. CASE i # 0
      <4>1. i \in 1..len  BY <1>1, <3>2
      <4> QED BY <1>4, <3>2, <4>1 DEF Join
    <3> QED BY <3>1, <3>2
  <2>2. g = [i \in 0..len |-> g[i]] /\ body(g) = [i \in 0..len |-> body(g)[i]]
    BY <1>3 DEF Unfolds
  <2> QED BY <2>1, <2>2
<1>6. F = body(F)
  <2> HIDE DEF body
  <2> QED BY <1>5
<1>7. DeltasOf(events, n) = F[len]  BY DEF DeltasOf
<1>8. ASSUME NEW f, f = body(f)
      PROVE  /\ DOMAIN f = 0..len /\ f = [i \in 0..len |-> f[i]] /\ f[0] = <<>>
             /\ \A i \in 1..len : f[i] = Join(events, n, i, f[i - 1])
  <2>1. DOMAIN body(f) = 0..len /\ body(f) = [i \in 0..len |-> body(f)[i]]
    OBVIOUS
  <2>2. body(f)[0] = <<>>  BY <1>1
  <2>3. ASSUME NEW i \in 1..len
        PROVE  body(f)[i] = Join(events, n, i, f[i - 1])
    <3>1. i \in 0..len /\ i # 0  BY <1>1
    <3> QED BY <3>1 DEF Join
  <2> HIDE DEF body
  <2> QED BY <1>8, <2>1, <2>2, <2>3
<1> DEFINE typed == {i \in Nat : i <= len => F[i] \in Seq(Piece)}
<1>9. typed = Nat
  <2>1. F[0] = <<>> /\ <<>> \in Seq(Piece)
    <3> HIDE DEF F
    <3> QED BY <1>6, <1>8
  <2>4. 0 \in typed
    <3> HIDE DEF F, body, step, len
    <3> QED BY <2>1
  <2>2. ASSUME NEW i \in typed  PROVE i + 1 \in typed
    <3> SUFFICES ASSUME i + 1 <= len  PROVE F[i + 1] \in Seq(Piece)
      OBVIOUS
    <3>1. i + 1 \in 1..len /\ (i + 1) - 1 = i  BY <1>1
    <3>2. F[i] \in Seq(Piece)  BY <1>1, <3>1
    <3>3. F[i + 1] = Join(events, n, i + 1, F[i])  BY <1>6, <1>8, <3>1
    <3> HIDE DEF F, len
    <3> QED BY <3>1, <3>2, <3>3, JoinType DEF len
  <2>3. typed \in SUBSET Nat  OBVIOUS
  <2> HIDE DEF typed
  <2> QED BY <2>2, <2>3, <2>4, Induction
<1>10. ASSUME NEW i \in 0..len  PROVE F[i] \in Seq(Piece)
  <2> HIDE DEF F
  <2>1. i \in typed /\ i <= len  BY <1>1, <1>9
  <2> QED BY <2>1
<1>11. F = [i \in 0..len |-> F[i]] /\ F[0] = <<>>
       /\ \A i \in 1..len : F[i] = Join(events, n, i, F[i - 1])
  BY <1>6, <1>8
<1> HIDE DEF F
<1>12. F \in [0..len -> Seq(Piece)]  BY <1>10, <1>11
<1> QED BY <1>7, <1>11, <1>12 DEF Joins

(* Over a common prefix of two sequences they join to the same text.       *)
LEMMA CommonPrefix ==
  ASSUME NEW s \in Seq(Emission), NEW t \in Seq(Emission), NEW n, NEW f, NEW g,
         Joins(f, s, n), Joins(g, t, n),
         NEW m \in Nat, m <= Len(s), m <= Len(t),
         \A i \in 1..m : s[i] = t[i]
  PROVE  f[m] = g[m]
<1> DEFINE agree == {i \in Nat : i <= m => f[i] = g[i]}
<1>1. Len(s) \in Nat /\ Len(t) \in Nat  OBVIOUS
<1>2. 0 \in agree  BY DEF Joins
<1>3. ASSUME NEW i \in agree  PROVE i + 1 \in agree
  <2>0. i \in Nat  OBVIOUS
  <2>1. CASE i + 1 <= m
    <3>1. /\ i + 1 \in 1..m /\ i + 1 \in 1..Len(s) /\ i + 1 \in 1..Len(t)
          /\ (i + 1) - 1 = i /\ f[i] = g[i]
      BY <1>1, <2>0, <2>1
    <3>2. /\ f[i + 1] = Join(s, n, i + 1, f[i])
          /\ g[i + 1] = Join(t, n, i + 1, g[i])
      BY <3>1 DEF Joins
    <3>3. s[i + 1] = t[i + 1]  BY <3>1
    <3>4. f[i + 1] = g[i + 1]  BY <3>1, <3>2, <3>3 DEF Join
    <3> QED BY <2>0, <3>4
  <2>2. CASE ~ (i + 1 <= m)  BY <2>0, <2>2
  <2> QED BY <2>1, <2>2
<1>4. agree = Nat
  <2>1. agree \in SUBSET Nat  OBVIOUS
  <2> HIDE DEF agree
  <2> QED BY <1>2, <1>3, <2>1, Induction
<1> QED BY <1>4

LEMMA DeltasType ==
  ASSUME NEW events \in Seq(Emission), NEW n
  PROVE  DeltasOf(events, n) \in Seq(Piece)
<1>1. PICK f : Joins(f, events, n) /\ DeltasOf(events, n) = f[Len(events)]
  BY DeltasJoin
<1>2. Len(events) \in 0..Len(events)  OBVIOUS
<1> QED BY <1>1, <1>2 DEF Joins

LEMMA DeltasEmpty ==
  ASSUME NEW n
  PROVE  DeltasOf(<<>>, n) = <<>>
<1>1. <<>> \in Seq(Emission) /\ Len(<<>>) = 0  OBVIOUS
<1>2. PICK f : Joins(f, <<>>, n) /\ DeltasOf(<<>>, n) = f[Len(<<>>)]
  BY <1>1, DeltasJoin
<1> QED BY <1>1, <1>2 DEF Joins

(* One more event adds its text if it is a text delta of the attempt.      *)
LEMMA DeltasAppend ==
  ASSUME NEW s \in Seq(Emission), NEW e \in Emission, NEW n
  PROVE  DeltasOf(Append(s, e), n) =
           IF e.kind = "text_delta" /\ e.by = n
             THEN DeltasOf(s, n) \o e.delta ELSE DeltasOf(s, n)
<1> DEFINE t == Append(s, e)
<1>1. /\ t \in Seq(Emission) /\ Len(s) \in Nat /\ Len(t) = Len(s) + 1
      /\ t[Len(t)] = e /\ \A i \in 1..Len(s) : t[i] = s[i]
  OBVIOUS
<1> HIDE DEF t
<1>2. PICK f : Joins(f, s, n) /\ DeltasOf(s, n) = f[Len(s)]
  BY DeltasJoin
<1>3. PICK g : Joins(g, t, n) /\ DeltasOf(t, n) = g[Len(t)]
  BY <1>1, DeltasJoin
<1>4. f[Len(s)] = g[Len(s)]
  <2>1. /\ Len(s) <= Len(s) /\ Len(s) <= Len(t)
        /\ \A i \in 1..Len(s) : s[i] = t[i]
    BY <1>1
  <2> QED BY <1>1, <1>2, <1>3, <2>1, CommonPrefix
<1>5. g[Len(t)] = Join(t, n, Len(t), g[Len(s)])
  <2>1. Len(t) \in 1..Len(t) /\ Len(t) - 1 = Len(s)  BY <1>1
  <2> QED BY <1>3, <2>1 DEF Joins
<1> QED BY <1>1, <1>2, <1>3, <1>4, <1>5 DEF Join, t

(* Events that are no text deltas of the attempt add nothing.              *)
LEMMA DeltasSkip ==
  ASSUME NEW s \in Seq(Emission), NEW t \in Seq(Emission), NEW n,
         \A i \in 1..Len(t) : ~ (TellsText(t[i]) /\ t[i].by = n)
  PROVE  DeltasOf(s \o t, n) = DeltasOf(s, n)
<1> DEFINE u == s \o t
<1>1. /\ u \in Seq(Emission) /\ Len(s) \in Nat /\ Len(t) \in Nat
      /\ Len(u) = Len(s) + Len(t)
      /\ \A i \in 1..Len(s) : u[i] = s[i]
      /\ \A i \in 1..Len(t) : u[Len(s) + i] = t[i]
  OBVIOUS
<1> HIDE DEF u
<1>2. PICK f : Joins(f, s, n) /\ DeltasOf(s, n) = f[Len(s)]
  BY DeltasJoin
<1>3. PICK g : Joins(g, u, n) /\ DeltasOf(u, n) = g[Len(u)]
  BY <1>1, DeltasJoin
<1>4. f[Len(s)] = g[Len(s)]
  <2>1. /\ Len(s) <= Len(s) /\ Len(s) <= Len(u)
        /\ \A i \in 1..Len(s) : s[i] = u[i]
    BY <1>1
  <2> QED BY <1>1, <1>2, <1>3, <2>1, CommonPrefix
<1> DEFINE same == {i \in Nat : i <= Len(t) => g[Len(s) + i] = f[Len(s)]}
<1>5. 0 \in same  BY <1>1, <1>4
<1>6. ASSUME NEW i \in same  PROVE i + 1 \in same
  <2>0. i \in Nat  OBVIOUS
  <2>1. CASE i + 1 <= Len(t)
    <3>1. /\ i + 1 \in 1..Len(t) /\ Len(s) + (i + 1) \in 1..Len(u)
          /\ (Len(s) + (i + 1)) - 1 = Len(s) + i
          /\ g[Len(s) + i] = f[Len(s)]
      BY <1>1, <2>0, <2>1
    <3>2. u[Len(s) + (i + 1)] = t[i + 1]  BY <1>1, <3>1
    <3>3. ~ (t[i + 1].kind = "text_delta" /\ t[i + 1].by = n)
      BY <3>1 DEF TellsText
    <3>4. g[Len(s) + (i + 1)] = Join(u, n, Len(s) + (i + 1), g[Len(s) + i])
      BY <1>3, <3>1 DEF Joins
    <3>5. g[Len(s) + (i + 1)] = f[Len(s)]
      BY <3>1, <3>2, <3>3, <3>4 DEF Join
    <3> QED BY <2>0, <3>5
  <2>2. CASE ~ (i + 1 <= Len(t))  BY <1>1, <2>0, <2>2
  <2> QED BY <2>1, <2>2
<1>7. same = Nat
  <2>1. same \in SUBSET Nat  OBVIOUS
  <2> HIDE DEF same
  <2> QED BY <1>5, <1>6, <2>1, Induction
<1>8. g[Len(u)] = f[Len(s)]
  <2>1. Len(t) \in same  BY <1>1, <1>7
  <2> QED BY <1>1, <2>1
<1> QED BY <1>2, <1>3, <1>8 DEF u

LEMMA DeltasNone ==
  ASSUME NEW t \in Seq(Emission), NEW n,
         \A i \in 1..Len(t) : ~ (TellsText(t[i]) /\ t[i].by = n)
  PROVE  DeltasOf(t, n) = <<>>
<1>1. <<>> \o t = t /\ <<>> \in Seq(Emission)  OBVIOUS
<1>2. DeltasOf(<<>> \o t, n) = DeltasOf(<<>>, n)  BY <1>1, DeltasSkip
<1> QED BY <1>1, <1>2, DeltasEmpty

-----------------------------------------------------------------------------
(* What more events make of the invariant.                                 *)

(* Neither the beginning nor the end of the story.                         *)
Inside(events) ==
  \A i \in 1..Len(events) :
    events[i].kind # "start" /\ ~IsTerminal(events[i])

LEMMA MoreEvents ==
  ASSUME NEW s \in Seq(Emission), NEW t \in Seq(Emission)
  PROVE  /\ s \o t \in Seq(Emission)
         /\ Len(s) \in Nat /\ Len(t) \in Nat /\ Len(s \o t) = Len(s) + Len(t)
         /\ \A i \in 1..Len(s) : (s \o t)[i] = s[i]
         /\ \A i \in 1..Len(s \o t) :
              \/ i \in 1..Len(s)
              \/ i > Len(s) /\ i - Len(s) \in 1..Len(t)
                 /\ (s \o t)[i] = t[i - Len(s)]
OBVIOUS

LEMMA OpenedMore ==
  ASSUME TypeOK, Opened, at # "start", at' # "start",
         opts' = opts, opts.valid,
         NEW more \in Seq(Emission), log' = log \o more, Inside(more)
  PROVE  Opened'
<1>0. log \in Seq(Emission)  BY DEF TypeOK
<1>1. /\ Len(log) \in Nat /\ Len(log) > 0 /\ Len(log') = Len(log) + Len(more)
      /\ Len(more) \in Nat
      /\ \A i \in 1..Len(log) : log'[i] = log[i]
      /\ \A i \in 1..Len(log') :
           \/ i \in 1..Len(log)
           \/ i > Len(log) /\ i - Len(log) \in 1..Len(more)
              /\ log'[i] = more[i - Len(log)]
  BY <1>0, MoreEvents DEF Opened
<1>2. ASSUME NEW i \in 1..Len(log')
      PROVE  log'[i].kind = "start" <=> (opts.valid /\ i = 1)
  <2>1. CASE i \in 1..Len(log)  BY <1>1, <2>1 DEF Opened
  <2>2. CASE i > Len(log) /\ i - Len(log) \in 1..Len(more)
             /\ log'[i] = more[i - Len(log)]
    <3>1. log'[i].kind # "start"  BY <2>2 DEF Inside
    <3>2. i # 1  BY <1>1, <2>2
    <3> QED BY <3>1, <3>2
  <2> QED BY <1>1, <2>1, <2>2
<1> QED BY <1>1, <1>2 DEF Opened

LEMMA LatchedMore ==
  ASSUME TypeOK, Latched, at # "over", at' # "over", result' = result,
         NEW more \in Seq(Emission), log' = log \o more, Inside(more)
  PROVE  Latched'
<1>0. log \in Seq(Emission)  BY DEF TypeOK
<1>1. /\ \A i \in 1..Len(log) : log'[i] = log[i]
      /\ \A i \in 1..Len(log') :
           \/ i \in 1..Len(log)
           \/ i > Len(log) /\ i - Len(log) \in 1..Len(more)
              /\ log'[i] = more[i - Len(log)]
  BY <1>0, MoreEvents
<1>2. ASSUME NEW i \in 1..Len(log')  PROVE ~IsTerminal(log'[i])
  <2>1. CASE i \in 1..Len(log)  BY <1>1, <2>1 DEF Latched
  <2>2. CASE i > Len(log) /\ i - Len(log) \in 1..Len(more)
             /\ log'[i] = more[i - Len(log)]
    BY <2>2 DEF Inside
  <2> QED BY <1>1, <2>1, <2>2
<1> QED BY <1>2 DEF Latched, IsTerminal

LEMMA OwnerType ==
  ASSUME TypeOK
  PROVE  Owner \in Nat /\ Len(attempts) \in Nat
BY DEF TypeOK, Owner, current

(* What has to be shown of the next state.                                 *)
LEMMA SpelledPrimed ==
  ASSUME \A i \in 1..Len(log') : TellsText(log'[i]) => log'[i].by <= Owner',
         DeltasOf(log', Owner') = turn'.content,
         opts'.commit =>
           \A i \in 1..Len(log') : TellsText(log'[i]) => log'[i].by = Owner'
  PROVE  Spelled'
BY DEF Spelled, TellsText, DeltasOf

(* The owner goes on.                                                      *)
LEMMA SpelledMore ==
  ASSUME TypeOK, Spelled, Owner' = Owner, opts' = opts,
         NEW more \in Seq(Emission), log' = log \o more,
         \A i \in 1..Len(more) : TellsText(more[i]) => more[i].by = Owner,
         DeltasOf(log', Owner) = turn'.content
  PROVE  Spelled'
<1>0. log \in Seq(Emission) /\ Owner \in Nat  BY OwnerType DEF TypeOK
<1>1. /\ \A i \in 1..Len(log) : log'[i] = log[i]
      /\ \A i \in 1..Len(log') :
           \/ i \in 1..Len(log)
           \/ i > Len(log) /\ i - Len(log) \in 1..Len(more)
              /\ log'[i] = more[i - Len(log)]
  BY <1>0, MoreEvents
<1>2. ASSUME NEW i \in 1..Len(log'), TellsText(log'[i])
      PROVE  log'[i].by <= Owner /\ (opts.commit => log'[i].by = Owner)
  <2>1. CASE i \in 1..Len(log)
    <3>1. log'[i] = log[i] /\ TellsText(log[i])  BY <1>1, <1>2, <2>1
    <3> QED BY <2>1, <3>1 DEF Spelled
  <2>2. CASE i > Len(log) /\ i - Len(log) \in 1..Len(more)
             /\ log'[i] = more[i - Len(log)]
    <3>1. log'[i].by = Owner  BY <1>2, <2>2
    <3> QED BY <1>0, <3>1
  <2> QED BY <1>1, <2>1, <2>2
<1> QED BY <1>2, SpelledPrimed

(* A new attempt begins with no text, and in Stream only if none was sent. *)
LEMMA SpelledFresh ==
  ASSUME TypeOK, Spelled, opts.commit => NoAnswers(log),
         Owner' = Owner + 1, opts' = opts,
         NEW more \in Seq(Emission), log' = log \o more,
         \A i \in 1..Len(more) : ~TellsText(more[i]),
         turn'.content = <<>>
  PROVE  Spelled'
<1>0. log \in Seq(Emission) /\ Owner \in Nat  BY OwnerType DEF TypeOK
<1>1. /\ log' \in Seq(Emission)
      /\ \A i \in 1..Len(log) : log'[i] = log[i]
      /\ \A i \in 1..Len(log') :
           \/ i \in 1..Len(log)
           \/ i > Len(log) /\ i - Len(log) \in 1..Len(more)
              /\ log'[i] = more[i - Len(log)]
  BY <1>0, MoreEvents
<1>2. ASSUME NEW i \in 1..Len(log'), TellsText(log'[i])
      PROVE  log'[i].by <= Owner /\ log'[i].by \in Nat /\ ~opts.commit
  <2>1. i \in 1..Len(log) /\ log'[i] = log[i] /\ TellsText(log[i])
    BY <1>1, <1>2
  <2>2. log[i] \in Emission /\ log[i].by <= Owner  BY <1>0, <2>1 DEF Spelled
  <2>3. log[i].kind \in AnswerEvents  BY <2>1 DEF TellsText, AnswerEvents
  <2>4. ~NoAnswers(log)  BY <2>1, <2>3 DEF NoAnswers
  <2> QED BY <2>1, <2>2, <2>4 DEF Emission
<1>3. DeltasOf(log', Owner + 1) = <<>>
  <2>1. \A i \in 1..Len(log') :
          ~ (TellsText(log'[i]) /\ log'[i].by = Owner + 1)
    BY <1>0, <1>2
  <2> QED BY <1>1, <2>1, DeltasNone
<1>4. \A i \in 1..Len(log') : TellsText(log'[i]) => log'[i].by <= Owner + 1
  BY <1>0, <1>2
<1> QED BY <1>2, <1>3, <1>4, SpelledPrimed

(* finish() after other events of the owner.                               *)
LEMMA ToldFinish ==
  ASSUME TypeOK, Told, at # "over", at' = "over", opts' = opts, turn' = turn,
         attempts' \in Seq(Attempt), Len(attempts') = Owner,
         opts.valid <=> at # "start",
         NEW more \in Seq(Emission), Inside(more),
         \A i \in 1..Len(more) : ~TellsText(more[i]),
         NEW stop \in {"stop", "length", "tool_use", "error", "aborted"},
         finish(stop, turn, log \o more)
  PROVE  Told'
<1> DEFINE kind == IF stop \in {"error", "aborted"} THEN "error" ELSE "done"
<1> DEFINE last == CallEvent(kind)
<1>0. log \in Seq(Emission) /\ Owner \in Nat  BY OwnerType DEF TypeOK
<1>1. result = NoResult  BY DEF Told, Latched
<1>2. /\ kind \in {"done", "error"} /\ last \in Emission /\ last.kind = kind
      /\ log' = Append(log \o more, last)
      /\ result' = [stop |-> stop, turn |-> turn, tried |-> Len(attempts')]
  BY <1>1 DEF finish, CallEvent, Emission
<1>3. /\ result' # NoResult
      /\ result'.turn = turn /\ result'.tried = Len(attempts')
  <2>1. turn \in Turn /\ Len(attempts') \in Nat  BY DEF TypeOK
  <2>2. result' \in Message  BY <1>2, <2>1 DEF Message
  <2> QED BY <1>2, <2>2, NoResultAssumption
<1> HIDE DEF last, kind
<1> DEFINE before == log \o more
<1>4. /\ before \in Seq(Emission) /\ Len(before) \in Nat /\ Len(log) \in Nat
      /\ Len(before) = Len(log) + Len(more) /\ Len(more) \in Nat
      /\ \A i \in 1..Len(log) : before[i] = log[i]
      /\ \A i \in 1..Len(before) :
           \/ i \in 1..Len(log)
           \/ i > Len(log) /\ i - Len(log) \in 1..Len(more)
              /\ before[i] = more[i - Len(log)]
  BY <1>0, MoreEvents
<1> HIDE DEF before
<1>5. log' = Append(before, last)  BY <1>2 DEF before
<1>6. /\ Len(log') = Len(before) + 1 /\ log'[Len(log')] = last
      /\ \A i \in 1..Len(log') :
           i # Len(log') => i \in 1..Len(before) /\ log'[i] = before[i]
      /\ \A i \in 1..Len(before) : log'[i] = before[i]
  BY <1>2, <1>4, <1>5
<1>7. \A i \in 1..Len(before) :
        /\ ~IsTerminal(before[i])
        /\ before[i].kind = "start" <=> (opts.valid /\ i = 1)
        /\ TellsText(before[i]) =>
             before[i].by <= Owner /\ (opts.commit => before[i].by = Owner)
  <2> SUFFICES ASSUME NEW i \in 1..Len(before)
               PROVE  /\ ~IsTerminal(before[i])
                      /\ before[i].kind = "start" <=> (opts.valid /\ i = 1)
                      /\ TellsText(before[i]) =>
                           /\ before[i].by <= Owner
                           /\ opts.commit => before[i].by = Owner
    OBVIOUS
  <2>1. CASE i \in 1..Len(log)
    <3>1. before[i] = log[i]  BY <1>4, <2>1
    <3>2. ~IsTerminal(log[i])  BY <2>1 DEF Told, Latched
    <3>3. log[i].kind = "start" <=> (opts.valid /\ i = 1)
      BY <2>1 DEF Told, Opened
    <3>4. TellsText(log[i]) =>
             log[i].by <= Owner /\ (opts.commit => log[i].by = Owner)
      BY <2>1 DEF Told, Spelled
    <3> QED BY <3>1, <3>2, <3>3, <3>4
  <2>2. CASE i > Len(log) /\ i - Len(log) \in 1..Len(more)
             /\ before[i] = more[i - Len(log)]
    <3>1. before[i].kind # "start" /\ ~IsTerminal(before[i])
          /\ ~TellsText(before[i])
      BY <2>2 DEF Inside
    <3>2. opts.valid => i # 1
      <4>1. opts.valid => Len(log) > 0  BY DEF Told, Opened
      <4> QED BY <1>4, <2>2, <4>1
    <3> QED BY <3>1, <3>2
  <2> QED BY <1>4, <2>1, <2>2
<1>8. IsTerminal(last) /\ last.kind # "start" /\ ~TellsText(last)
  BY <1>2 DEF IsTerminal, TellsText
<1>9. Len(log') > 0 /\ Len(log') \in Nat  BY <1>4, <1>6
<1>10. Opened'
  <2>1. Len(log') = 1 => ~opts.valid
    <3> SUFFICES ASSUME opts.valid  PROVE Len(log') # 1
      OBVIOUS
    <3>1. Len(log) > 0  BY DEF Told, Opened
    <3> QED BY <1>4, <1>6, <3>1
  <2>2. \A i \in 1..Len(log') :
          log'[i].kind = "start" <=> (opts.valid /\ i = 1)
    BY <1>6, <1>7, <1>8, <2>1
  <2> QED BY <1>9, <2>2 DEF Opened
<1>11. Latched'
  <2>1. \A i \in 1..Len(log') : IsTerminal(log'[i]) <=> i = Len(log')
    <3> SUFFICES ASSUME NEW i \in 1..Len(log')
                 PROVE  IsTerminal(log'[i]) <=> i = Len(log')
      OBVIOUS
    <3>1. CASE i = Len(log')  BY <1>6, <1>8, <3>1
    <3>2. CASE i # Len(log')  BY <1>6, <1>7, <3>2
    <3> QED BY <3>1, <3>2
  <2> QED BY <1>3, <1>9, <2>1 DEF Latched, IsTerminal
<1>12. Spelled'
  <2>1. Owner' = Owner  BY DEF Owner, Asked, Reading
  <2>2. \A i \in 1..Len(log') : TellsText(log'[i]) =>
          log'[i].by <= Owner /\ (opts.commit => log'[i].by = Owner)
    BY <1>6, <1>7, <1>8
  <2>3. DeltasOf(before, Owner) = DeltasOf(log, Owner)
    BY <1>0, DeltasSkip DEF before
  <2>4. DeltasOf(log', Owner) = DeltasOf(before, Owner)
    BY <1>2, <1>4, <1>5, <1>8, DeltasAppend DEF TellsText
  <2>5. DeltasOf(log, Owner) = turn.content  BY DEF Told, Spelled
  <2> QED BY <2>1, <2>2, <2>3, <2>4, <2>5, SpelledPrimed
<1> QED BY <1>10, <1>11, <1>12 DEF Told

-----------------------------------------------------------------------------
(* What the chain's steps make of the invariant.                           *)

LEMMA ConcatInside ==
  ASSUME NEW s \in Seq(Emission), NEW t \in Seq(Emission), Inside(s), Inside(t)
  PROVE  Inside(s \o t)
BY MoreEvents DEF Inside

(* chainState.text() spells the text it adds to the turn.                  *)
LEMMA TextEventsTell ==
  ASSUME TypeOK, NEW texts \in Seq(Texts), NEW r \in BOOLEAN,
         NEW s \in Seq(Emission)
  PROVE  /\ Inside(TextEvents(texts, r))
         /\ DeltasOf(s \o TextEvents(texts, r), current) =
              DeltasOf(s, current) \o Fragments(texts)
<1> DEFINE d == TextDelta(texts)
<1> DEFINE e == Event("reasoning_delta")
<1> DEFINE first == IF texts # <<>> THEN <<d>> ELSE <<>>
<1> DEFINE rest == IF r THEN <<e>> ELSE <<>>
<1>1. /\ d \in Emission /\ d.kind = "text_delta" /\ d.by = current
      /\ d.delta = Fragments(texts)
  BY FragmentsType, CurrentType DEF TextDelta, Emission
<1>2. e \in Emission /\ e.kind = "reasoning_delta"  BY EventType
<1>3. TextEvents(texts, r) = first \o rest  BY DEF TextEvents
<1> HIDE DEF d, e
<1>4. first \in Seq(Emission) /\ rest \in Seq(Emission)  BY <1>1, <1>2
<1>5. Inside(first)
  <2>1. d.kind # "start" /\ ~IsTerminal(d)  BY <1>1 DEF IsTerminal
  <2> QED BY <2>1 DEF Inside
<1>6. /\ Inside(rest)
      /\ \A i \in 1..Len(rest) :
           ~ (TellsText(rest[i]) /\ rest[i].by = current)
  <2>1. e.kind # "start" /\ ~IsTerminal(e) /\ ~TellsText(e)
    BY <1>2 DEF IsTerminal, TellsText
  <2> QED BY <2>1 DEF Inside
<1>7. DeltasOf(s \o first, current) = DeltasOf(s, current) \o Fragments(texts)
  <2>0. DeltasOf(s, current) \in Seq(Piece)  BY DeltasType
  <2>1. CASE texts = <<>>
    <3>1. s \o first = s  BY <2>1
    <3>2. Fragments(texts) = <<>>  BY <2>1 DEF Fragments
    <3> DEFINE sofar == DeltasOf(s, current)
    <3>3. sofar \o Fragments(texts) = sofar
      <4> HIDE DEF sofar
      <4> QED BY <2>0, <3>2 DEF sofar
    <3> HIDE DEF first, sofar
    <3> QED BY <3>1, <3>3 DEF sofar
  <2>2. CASE texts # <<>>
    <3>1. s \o first = Append(s, d)  BY <1>1, <2>2
    <3> QED BY <1>1, <3>1, DeltasAppend
  <2> QED BY <2>1, <2>2
<1> HIDE DEF first, rest
<1>8. /\ s \o (first \o rest) = (s \o first) \o rest
      /\ s \o first \in Seq(Emission)
  BY <1>4
<1>9. DeltasOf((s \o first) \o rest, current) = DeltasOf(s \o first, current)
  BY <1>4, <1>6, <1>8, DeltasSkip
<1>10. Inside(first \o rest)  BY <1>4, <1>5, <1>6, ConcatInside
<1> QED BY <1>3, <1>7, <1>8, <1>9, <1>10

(* A step that emits nothing and keeps the turn with its owner.            *)
LEMMA ToldQuiet ==
  ASSUME TypeOK, Told, UNCHANGED <<opts, turn, log, result>>,
         Owner' = Owner, Len(attempts') = Len(attempts),
         at' = "start" <=> at = "start", at' = "over" <=> at = "over"
  PROVE  Told'
<1>1. Opened'  BY DEF Told, Opened
<1>2. Latched'  BY DEF Told, Latched, IsTerminal
<1>3. Spelled'
  <2> QED BY SpelledPrimed DEF Told, Spelled
<1> QED BY <1>1, <1>2, <1>3 DEF Told

(* A line of the stream.                                                   *)
LEMMA ToldLine ==
  ASSUME TypeOK, Legs, Told, NEW c \in Chunk, Line(c)
  PROVE  Told'
<1> DEFINE texts == Through(c)
<1> DEFINE r == c.reasoning # "none"
<1> DEFINE tools == ToolEvents(c)
<1> DEFINE spoken == TextEvents(texts, r)
<1>0. log \in Seq(Emission) /\ texts \in Seq(Texts) /\ r \in BOOLEAN
  BY LineEffect DEF TypeOK
<1>1. /\ at = "streaming" /\ at' = at
      /\ UNCHANGED <<opts, result, attempts>>
      /\ log' = (log \o tools) \o spoken
  BY DEF Line
<1>2. opts.valid  BY <1>1 DEF Legs
<1>3. /\ tools \in Seq(Emission) /\ Inside(tools)
      /\ \A i \in 1..Len(tools) : ~TellsText(tools[i])
  <2>1. /\ Event("tool_call_start") \in Emission
        /\ Event("tool_call_delta") \in Emission
        /\ Event("tool_call_start").kind = "tool_call_start"
        /\ Event("tool_call_delta").kind = "tool_call_delta"
    BY EventType
  <2> QED BY <2>1 DEF ToolEvents, Inside, IsTerminal, TellsText
<1>4. /\ spoken \in Seq(Emission) /\ Inside(spoken)
      /\ \A i \in 1..Len(spoken) : spoken[i].by = current
  BY <1>0, TextEventsType, TextEventsTell
<1>5. turn'.content = turn.content \o Fragments(texts)  BY LineEffect
<1> HIDE DEF texts, r, tools, spoken
<1> DEFINE more == tools \o spoken
<1>6. /\ more \in Seq(Emission) /\ log' = log \o more
      /\ log \o tools \in Seq(Emission)
  BY <1>0, <1>1, <1>3, <1>4
<1>7. Inside(more)  BY <1>3, <1>4, ConcatInside
<1>8. Owner = current /\ Owner' = current
  BY <1>1 DEF Owner, Asked, Reading, current
<1>9. \A i \in 1..Len(more) : TellsText(more[i]) => more[i].by = Owner
  BY <1>3, <1>4, <1>8, MoreEvents
<1>10. DeltasOf(log', Owner) = turn'.content
  <2>1. DeltasOf((log \o tools) \o spoken, current) =
          DeltasOf(log \o tools, current) \o Fragments(texts)
    BY <1>0, <1>6, TextEventsTell DEF spoken
  <2>2. DeltasOf(log \o tools, current) = DeltasOf(log, current)
    BY <1>0, <1>3, DeltasSkip
  <2>3. DeltasOf(log, current) = turn.content  BY <1>8 DEF Told, Spelled
  <2> QED BY <1>1, <1>5, <1>8, <2>1, <2>2, <2>3
<1> HIDE DEF more
<1>11. Opened'  BY <1>1, <1>2, <1>6, <1>7, OpenedMore DEF Told
<1>12. Latched'  BY <1>1, <1>6, <1>7, LatchedMore DEF Told
<1>13. Spelled'
  <2>1. Owner' = Owner /\ opts' = opts /\ Spelled  BY <1>1, <1>8 DEF Told
  <2> QED BY <1>6, <1>9, <1>10, <2>1, SpelledMore
<1> QED BY <1>11, <1>12, <1>13 DEF Told

(* The end of a stream, intact or not, releases what the filter held.      *)
LEMMA FlushTell ==
  ASSUME TypeOK, NEW s \in Seq(Emission)
  PROVE  /\ FlushEvents \in Seq(Emission) /\ Inside(FlushEvents)
         /\ \A i \in 1..Len(FlushEvents) : FlushEvents[i].by = current
         /\ DeltasOf(s, current) = turn.content =>
              DeltasOf(s \o FlushEvents, current) = Flushed.content
<1>1. filter.held \in Seq(Texts)  BY DEF TypeOK
<1>2. FALSE \in BOOLEAN  OBVIOUS
<1>3. /\ Inside(FlushEvents)
      /\ DeltasOf(s \o FlushEvents, current) =
           DeltasOf(s, current) \o Fragments(filter.held)
  BY <1>1, <1>2, TextEventsTell DEF FlushEvents
<1>4. \A i \in 1..Len(FlushEvents) : FlushEvents[i].by = current
  BY <1>1, <1>2, TextEventsType DEF FlushEvents
<1>5. /\ FlushEvents \in Seq(Emission)
      /\ Flushed.content = turn.content \o Fragments(filter.held)
  BY FlushType
<1> QED BY <1>3, <1>4, <1>5

LEMMA ToldStreamEnds ==
  ASSUME TypeOK, Legs, Told, StreamEnds
  PROVE  Told'
<1>0. log \in Seq(Emission)  BY DEF TypeOK
<1>1. /\ at = "streaming" /\ at' = "guarding" /\ turn' = Flushed
      /\ UNCHANGED <<opts, result, attempts>> /\ log' = log \o FlushEvents
  BY DEF StreamEnds, call
<1>2. opts.valid  BY <1>1 DEF Legs
<1>3. Owner = current /\ Owner' = Owner
  BY <1>1 DEF Owner, Asked, Reading, current
<1>4. DeltasOf(log, current) = turn.content  BY <1>3 DEF Told, Spelled
<1>5. /\ FlushEvents \in Seq(Emission) /\ Inside(FlushEvents)
      /\ \A i \in 1..Len(FlushEvents) : FlushEvents[i].by = Owner
      /\ DeltasOf(log', Owner) = turn'.content
  BY <1>0, <1>1, <1>3, <1>4, FlushTell
<1>6. Opened'  BY <1>1, <1>2, <1>5, OpenedMore DEF Told
<1>7. Latched'  BY <1>1, <1>5, LatchedMore DEF Told
<1>8. Spelled'
  <2>1. opts' = opts /\ Spelled  BY <1>1 DEF Told
  <2> QED BY <1>1, <1>3, <1>5, <2>1, SpelledMore
<1> QED BY <1>6, <1>7, <1>8 DEF Told

(* An attempt fails: before it has a turn, with a turn that stays as it    *)
(* is, or with a stream that is flushed.                                   *)
LEMMA ToldFails ==
  ASSUME TypeOK, Legs, Committed, Told, AttemptFails
  PROVE  Told'
<1>0. log \in Seq(Emission) /\ Len(attempts) \in Nat /\ Owner \in Nat
  BY OwnerType DEF TypeOK
<1>1. PICK err \in Failures, t \in Turn, events \in Seq(Emission),
           d \in Dispositions : FailsWith(err, t, events, d)
  BY DEF AttemptFails
<1> DEFINE failed == Event("leg_failed")
<1> DEFINE more == Append(events, failed)
<1>2. /\ Len(attempts') = Len(attempts) + 1 /\ turn' = t
      /\ log' = log \o more /\ UNCHANGED <<opts, result>>
      /\ at' \in {"failing", "backoff", "picking"}
  BY <1>1, FailEffect
<1>3. at \in {"trying", "settling", "guarding", "streaming"}
  BY <1>1 DEF FailsWith
<1>4. opts.valid  BY <1>3 DEF Legs
<1>5. failed \in Emission /\ failed.kind = "leg_failed"  BY EventType
<1> HIDE DEF failed
<1>6. Inside(events) /\ \A i \in 1..Len(events) : events[i].by = current
  <2>1. CASE events = <<>>  BY <2>1 DEF Inside
  <2>2. CASE events = FlushEvents  BY <1>0, <2>2, FlushTell
  <2> QED BY <1>1, <2>1, <2>2 DEF FailsWith
<1>7. more = events \o <<failed>> /\ <<failed>> \in Seq(Emission)
      /\ more \in Seq(Emission)
  BY <1>5
<1>8. /\ Inside(<<failed>>)
      /\ \A i \in 1..Len(<<failed>>) : ~TellsText(<<failed>>[i])
  <2>1. failed.kind # "start" /\ ~IsTerminal(failed) /\ ~TellsText(failed)
    BY <1>5 DEF IsTerminal, TellsText
  <2> QED BY <2>1 DEF Inside
<1>9. Inside(more)  BY <1>6, <1>7, <1>8, ConcatInside
<1>10. \A i \in 1..Len(more) : TellsText(more[i]) => more[i].by = current
  <2> DEFINE end == <<failed>>
  <2>1. more = events \o end /\ end \in Seq(Emission)
        /\ \A i \in 1..Len(end) : ~TellsText(end[i])
    BY <1>7, <1>8
  <2> HIDE DEF more, end
  <2> QED BY <1>6, <2>1, MoreEvents
<1>11. Owner' = Len(attempts) + 1
  BY <1>2 DEF Owner, Asked, Reading
<1> HIDE DEF more
<1>12. Opened'  BY <1>2, <1>3, <1>4, <1>7, <1>9, OpenedMore DEF Told
<1>13. Latched'  BY <1>2, <1>3, <1>7, <1>9, LatchedMore DEF Told
<1>14. Spelled'
  <2>0. opts' = opts /\ Spelled  BY <1>2 DEF Told
  <2>1. CASE at = "trying"
    <3>1. Owner = Len(attempts)  BY <2>1 DEF Owner, Asked, Reading
    <3>2. events = <<>> /\ t = EmptyTurn  BY <1>1, <2>1 DEF FailsWith
    <3>3. turn'.content = <<>>  BY <1>2, <3>2 DEF EmptyTurn
    <3>4. \A i \in 1..Len(more) : ~TellsText(more[i])
      <4>1. more = <<failed>>  BY <1>5, <3>2 DEF more
      <4> QED BY <1>8, <4>1
    <3>5. opts.commit => NoAnswers(log)  BY <2>1 DEF Committed
    <3> QED BY <1>2, <1>7, <1>11, <2>0, <3>1, <3>3, <3>4, <3>5, SpelledFresh
  <2>2. CASE at # "trying"
    <3>1. Owner = current /\ Owner' = Owner
      BY <1>3, <1>11, <2>2 DEF Owner, Asked, Reading, current
    <3>2. DeltasOf(log, current) = turn.content  BY <3>1 DEF Told, Spelled
    <3>3. DeltasOf(log \o events, current) = t.content
      <4>1. CASE events = <<>> /\ t = turn
        <5>1. log \o <<>> = log  BY <1>0
        <5> QED BY <3>2, <4>1, <5>1
      <4>2. CASE events = FlushEvents /\ t = Flushed
        BY <1>0, <3>2, <4>2, FlushTell
      <4> QED BY <1>1, <2>2, <4>1, <4>2 DEF FailsWith
    <3>4. /\ log' = (log \o events) \o <<failed>>
          /\ log \o events \in Seq(Emission)
      BY <1>0, <1>2, <1>7
    <3>5. DeltasOf(log', current) = DeltasOf(log \o events, current)
      <4> DEFINE end == <<failed>>
      <4> DEFINE before == log \o events
      <4>1. /\ before \in Seq(Emission) /\ end \in Seq(Emission)
            /\ log' = before \o end
            /\ \A i \in 1..Len(end) : ~TellsText(end[i])
        BY <1>7, <1>8, <3>4
      <4>2. log' = before \o end /\ before = log \o events  BY <4>1
      <4> HIDE DEF end, before
      <4>3. DeltasOf(before \o end, current) = DeltasOf(before, current)
        BY <4>1, DeltasSkip
      <4> QED BY <4>2, <4>3
    <3>6. DeltasOf(log', Owner) = turn'.content
      BY <1>2, <3>1, <3>3, <3>5
    <3> QED BY <1>2, <1>7, <1>10, <2>0, <3>1, <3>6, SpelledMore
  <2> QED BY <2>1, <2>2
<1> QED BY <1>12, <1>13, <1>14 DEF Told

LEMMA ToldStart ==
  ASSUME TypeOK, Told, Start
  PROVE  Told'
<1> DEFINE first == CallEvent("start")
<1>1. /\ at = "start" /\ at' = "picking" /\ opts.valid
      /\ UNCHANGED <<opts, result, attempts, turn>> /\ log' = <<first>>
  BY DEF Start, call
<1>2. first \in Emission /\ first.kind = "start"  BY EventType
<1> HIDE DEF first
<1>3. Len(log') = 1 /\ log'[1] = first  BY <1>1
<1>4. ~IsTerminal(first) /\ ~TellsText(first)
  BY <1>2 DEF IsTerminal, TellsText
<1>5. Opened'  BY <1>1, <1>2, <1>3 DEF Opened
<1>6. Latched'  BY <1>1, <1>3, <1>4 DEF Told, Latched, IsTerminal
<1>7. Spelled'
  <2>1. Owner' = Owner  BY <1>1 DEF Owner, Asked, Reading
  <2>2. log = <<>>
    <3>1. log \in Seq(Emission) /\ Len(log) = 0
      BY <1>1 DEF Told, Opened, TypeOK
    <3> QED BY <3>1
  <2>3. turn.content = <<>>  BY <2>2, DeltasEmpty DEF Told, Spelled
  <2>4. DeltasOf(log', Owner) = <<>>
    <3>1. /\ log' \in Seq(Emission)
          /\ \A i \in 1..Len(log') :
               ~ (TellsText(log'[i]) /\ log'[i].by = Owner)
      BY <1>1, <1>2, <1>3, <1>4
    <3> QED BY <3>1, DeltasNone
  <2>5. \A i \in 1..Len(log') : ~TellsText(log'[i])  BY <1>3, <1>4
  <2> QED BY <1>1, <2>1, <2>3, <2>4, <2>5, SpelledPrimed
<1> QED BY <1>5, <1>6, <1>7 DEF Told

LEMMA ToldPrepare ==
  ASSUME TypeOK, Committed, Told, Prepare
  PROVE  Told'
<1>0. log \in Seq(Emission)  BY DEF TypeOK
<1>1. /\ at = "trying" /\ at' = "sending"
      /\ UNCHANGED <<opts, result, attempts, log>>
      /\ turn' = [EmptyTurn EXCEPT !.ident = leg]
  BY DEF Prepare, call, resetLeg
<1>2. turn'.content = <<>>  BY <1>1 DEF EmptyTurn
<1>3. Owner' = Owner + 1  BY <1>1 DEF Owner, Asked, Reading, current
<1>4. opts.commit => NoAnswers(log)  BY <1>1 DEF Committed
<1>5. Opened'  BY <1>1 DEF Told, Opened
<1>6. Latched'  BY <1>1 DEF Told, Latched, IsTerminal
<1>7. Spelled'
  <2> DEFINE more == <<>>
  <2>1. /\ more \in Seq(Emission) /\ log' = log \o more /\ opts' = opts
        /\ Spelled /\ \A i \in 1..Len(more) : ~TellsText(more[i])
    BY <1>0, <1>1 DEF Told
  <2> HIDE DEF more
  <2> QED BY <1>2, <1>3, <1>4, <2>1, SpelledFresh
<1> QED BY <1>5, <1>6, <1>7 DEF Told

(* The three ways the chain ends.                                          *)
LEMMA ToldOver ==
  ASSUME TypeOK, Legs, Told, Refuse \/ Accept \/ finishFailed
  PROVE  Told'
<1>0. log \in Seq(Emission) /\ attempts \in Seq(Attempt) /\ turn \in Turn
  BY DEF TypeOK
<1>1. CASE Refuse \/ finishFailed
  <2>1. PICK stop \in {"error", "aborted"} : finish(stop, turn, log)
    BY <1>1 DEF Refuse, finishFailed, terminalReason
  <2>2. /\ at # "over" /\ at' = "over" /\ UNCHANGED <<opts, turn, attempts>>
        /\ opts.valid <=> at # "start"
        /\ at \in {"start", "failing"}
    BY <1>1 DEF Refuse, finishFailed, call, Legs
  <2>3. Owner = Len(attempts)  BY <2>2 DEF Owner, Asked, Reading
  <2> DEFINE more == <<>>
  <2>4. /\ more \in Seq(Emission) /\ log = log \o more /\ Inside(more)
        /\ \A i \in 1..Len(more) : ~TellsText(more[i])
    BY <1>0 DEF Inside
  <2> HIDE DEF more
  <2>5. finish(stop, turn, log \o more)  BY <2>1, <2>4
  <2>6. stop \in {"stop", "length", "tool_use", "error", "aborted"}  BY <2>1
  <2>7. attempts' \in Seq(Attempt) /\ Len(attempts') = Owner
    BY <1>0, <2>2, <2>3
  <2> QED BY <2>2, <2>4, <2>5, <2>6, <2>7, ToldFinish
<1>2. CASE Accept
  <2> DEFINE accepted ==
        [leg |-> leg, retry |-> retry, err |-> "none",
         emitted |-> turn.emitted, token |-> filter.token,
         disposition |-> "none"]
  <2> DEFINE end == Event("tool_call_end")
  <2> DEFINE more == [i \in 1..turn.tools |-> end]
  <2> DEFINE stop == stopReasonFor(turn.finish, turn.tools)
  <2>1. /\ at = "guarding" /\ at' = "over" /\ UNCHANGED <<opts, turn>>
        /\ attempts' = Append(attempts, accepted)
        /\ finish(stop, turn, log \o more)
    BY <1>2 DEF Accept, call
  <2>2. stop \in {"stop", "length", "tool_use", "error", "aborted"}
    BY DEF stopReasonFor
  <2>3. end \in Emission /\ end.kind = "tool_call_end"  BY EventType
  <2>4. turn.tools \in Nat  BY <1>0 DEF Turn
  <2>5. accepted \in Attempt
    BY MaxRetriesAssumption, OptionTypes DEF Attempt, TypeOK, Turn, Failures
  <2> HIDE DEF end, stop, accepted
  <2>6. more \in Seq(Emission) /\ Len(more) = turn.tools
        /\ \A i \in 1..Len(more) : more[i] = end
    BY <2>3, <2>4
  <2> HIDE DEF more
  <2>7. Inside(more) /\ \A i \in 1..Len(more) : ~TellsText(more[i])
    BY <2>3, <2>6 DEF Inside, IsTerminal, TellsText
  <2>8. attempts' \in Seq(Attempt) /\ Len(attempts') = Owner
    BY <1>0, <2>1, <2>5 DEF Owner, Asked, Reading, current
  <2>9. opts.valid /\ at # "start" /\ at # "over"  BY <2>1 DEF Legs
  <2> QED BY <2>1, <2>2, <2>6, <2>7, <2>8, <2>9, ToldFinish
<1> QED BY <1>1, <1>2

LEMMA ToldInit ==
  ASSUME Init
  PROVE  Told
<1>1. log = <<>> /\ at = "start" /\ attempts = <<>> /\ turn = EmptyTurn
      /\ result = NoResult
  BY DEF Init
<1>2. Opened /\ Latched  BY <1>1 DEF Opened, Latched
<1>3. DeltasOf(log, Owner) = turn.content
  BY <1>1, DeltasEmpty DEF EmptyTurn
<1>4. Spelled  BY <1>1, <1>3 DEF Spelled
<1> QED BY <1>2, <1>4 DEF Told

LEMMA ToldStep ==
  ASSUME IInv, Told, [Next]_vars
  PROVE  Told'
<1>0. TypeOK /\ Legs /\ Committed  BY DEF IInv
<1>1. CASE UNCHANGED vars
  <2>1. Owner' = Owner  BY <1>1 DEF vars, Owner, Asked, Reading, current
  <2> QED BY <1>0, <1>1, <2>1, ToldQuiet DEF vars
<1>2. CASE Next
  <2>0. Step  BY <1>0, <1>2, FailureSteps
  <2>1. CASE Refuse \/ Accept \/ finishFailed  BY <1>0, <2>1, ToldOver
  <2>2. CASE Start  BY <1>0, <2>2, ToldStart
  <2>3. CASE Prepare  BY <1>0, <2>3, ToldPrepare
  <2>4. CASE \E c \in Chunk : Line(c)  BY <1>0, <2>4, ToldLine
  <2>5. CASE StreamEnds  BY <1>0, <2>5, ToldStreamEnds
  <2>6. CASE AttemptFails  BY <1>0, <2>6, ToldFails
  <2>7. CASE NextModel \/ Exhausted \/ BackoffCancelled \/ BackoffElapsed
    <3>1. /\ UNCHANGED <<opts, turn, log, result, attempts>>
          /\ at \notin Asked \cup Reading \cup {"start", "over"}
          /\ at' \notin Asked \cup Reading \cup {"start", "over"}
      BY <2>7 DEF NextModel, Exhausted, BackoffCancelled, BackoffElapsed,
                  call, Asked, Reading
    <3>2. Owner' = Owner  BY <3>1 DEF Owner, Asked, Reading
    <3> QED BY <1>0, <3>1, <3>2, ToldQuiet
  <2>8. CASE Disarm \/ DoFails \/ Probe \/ StatusFails \/ Answered
    <3>1. /\ UNCHANGED <<opts, turn, log, result, attempts>>
          /\ at \in Asked \cup Reading /\ at' \in Asked \cup Reading
      BY <2>8 DEF Disarm, DoFails, Probe, StatusFails, Answered, Respond,
                  call, Asked, Reading
    <3>2. Owner' = Owner  BY <3>1 DEF Owner, Asked, Reading, current
    <3>3. at \notin {"start", "over"} /\ at' \notin {"start", "over"}
      BY <3>1 DEF Asked, Reading
    <3> QED BY <1>0, <3>1, <3>2, <3>3, ToldQuiet
  <2>9. CASE Cancel \/ Expire \/ BudgetSpent \/ TimerFires \/ TimerRuns
    <3>1. UNCHANGED <<opts, turn, log, result, attempts, at>>
      BY <2>9 DEF Cancel, Expire, ContextDone, BudgetSpent, TimerFires,
                  TimerRuns, call
    <3>2. Owner' = Owner  BY <3>1 DEF Owner, Asked, Reading, current
    <3> QED BY <1>0, <3>1, <3>2, ToldQuiet
  <2> QED
    BY <2>0, <2>1, <2>2, <2>3, <2>4, <2>5, <2>6, <2>7, <2>8, <2>9 DEF Step
<1> QED BY <1>1, <1>2

-----------------------------------------------------------------------------
(* What reaches the caller.                                                *)

(* The log only grows, and not once a message is latched.                  *)
LEMMA LogGrows ==
  ASSUME TypeOK, Turns, Told, [Next]_vars
  PROVE  /\ log \in Seq(Emission) /\ Len(log) <= Len(log')
         /\ \A i \in 1..Len(log) : log'[i] = log[i]
         /\ result # NoResult => UNCHANGED <<log, result>>
<1>0. log \in Seq(Emission) /\ turn \in Turn  BY DEF TypeOK
<1>1. ASSUME NEW more \in Seq(Emission), log' = log \o more
      PROVE  Len(log) <= Len(log') /\ \A i \in 1..Len(log) : log'[i] = log[i]
  BY <1>0, <1>1, MoreEvents
<1>2. ASSUME log' = log
      PROVE  Len(log) <= Len(log') /\ \A i \in 1..Len(log) : log'[i] = log[i]
  BY <1>0, <1>2
<1>3. at # "over" => result = NoResult  BY DEF Told, Latched
<1>4. CASE UNCHANGED vars  BY <1>0, <1>2, <1>4 DEF vars
<1>5. CASE Next
  <2>0. Step  BY <1>5, FailureSteps
  <2>1. CASE Refuse \/ Accept \/ finishFailed
    <3>1. PICK more \in Seq(Emission) :
            at # "over" /\ \E stop : finish(stop, turn, log \o more)
      <4>1. CASE Refuse \/ finishFailed
        <5>1. log = log \o <<>> /\ <<>> \in Seq(Emission)  BY <1>0
        <5>2. PICK stop : at # "over" /\ finish(stop, turn, log)
          BY <4>1 DEF Refuse, finishFailed
        <5>3. finish(stop, turn, log \o <<>>)  BY <5>1, <5>2
        <5> QED BY <5>1, <5>2, <5>3
      <4>2. CASE Accept
        <5> DEFINE end == Event("tool_call_end")
        <5> DEFINE ends == [i \in 1..turn.tools |-> end]
        <5>1. end \in Emission /\ turn.tools \in Nat
          BY <1>0, EventType DEF Turn
        <5>2. ends \in Seq(Emission)
          <6> HIDE DEF end
          <6> QED BY <5>1
        <5>3. at # "over" /\ \E stop : finish(stop, turn, log \o ends)
          BY <4>2 DEF Accept
        <5> HIDE DEF ends
        <5> QED BY <5>2, <5>3
      <4> QED BY <2>1, <4>1, <4>2
    <3>2. result = NoResult  BY <1>3, <3>1
    <3>3. PICK last \in Emission : log' = Append(log \o more, last)
      <4>1. CallEvent("error") \in Emission /\ CallEvent("done") \in Emission
        BY EventType
      <4>2. PICK stop : finish(stop, turn, log \o more)  BY <3>1
      <4> QED BY <3>2, <4>1, <4>2 DEF finish
    <3>4. /\ log' = log \o Append(more, last)
          /\ Append(more, last) \in Seq(Emission)
      BY <1>0, <3>3
    <3> QED BY <1>0, <1>1, <3>2, <3>4
  <2>2. CASE Start
    <3>1. at = "start" /\ log' = <<CallEvent("start")>>  BY <2>2 DEF Start
    <3>2. Len(log) = 0  BY <3>1 DEF Told, Opened
    <3> QED BY <1>0, <1>3, <3>1, <3>2
  <2>3. CASE \E c \in Chunk : Line(c)
    <3>1. PICK c \in Chunk : Line(c)  BY <2>3
    <3> DEFINE tools == ToolEvents(c)
    <3> DEFINE spoken == TextEvents(Through(c), c.reasoning # "none")
    <3>2. at = "streaming" /\ log' = log \o tools \o spoken
      BY <3>1 DEF Line
    <3>3. spoken \in Seq(Emission)
      <4>1. Through(c) \in Seq(Texts) /\ (c.reasoning # "none") \in BOOLEAN
        BY <3>1, LineEffect
      <4> QED BY <4>1, TextEventsType
    <3>4. tools \in Seq(Emission)  BY EventType DEF ToolEvents
    <3> HIDE DEF tools, spoken
    <3>5. log' = log \o (tools \o spoken) /\ tools \o spoken \in Seq(Emission)
      BY <1>0, <3>2, <3>3, <3>4
    <3> QED BY <1>0, <1>1, <1>3, <3>2, <3>5
  <2>4. CASE StreamEnds
    <3>1. at # "over" /\ log' = log \o FlushEvents  BY <2>4 DEF StreamEnds
    <3> QED BY <1>0, <1>1, <1>3, <3>1, FlushType
  <2>5. CASE AttemptFails
    <3>1. PICK err \in Failures, t \in Turn, events \in Seq(Emission),
               d \in Dispositions : FailsWith(err, t, events, d)
      BY <2>5 DEF AttemptFails
    <3>2. at # "over" /\ log' = log \o Append(events, Event("leg_failed"))
      BY <3>1 DEF FailsWith, Fail
    <3>3. Append(events, Event("leg_failed")) \in Seq(Emission)  BY EventType
    <3> QED BY <1>0, <1>1, <1>3, <3>2, <3>3
  <2>6. CASE \/ NextModel \/ Exhausted \/ BackoffCancelled \/ BackoffElapsed
             \/ Prepare \/ Disarm \/ DoFails \/ Probe
             \/ StatusFails \/ Answered
             \/ Cancel \/ Expire \/ BudgetSpent \/ TimerFires \/ TimerRuns
    <3>1. UNCHANGED <<log, result>>
      BY <2>6 DEF NextModel, Exhausted, BackoffCancelled, BackoffElapsed,
                  Prepare, Disarm, DoFails, Probe, StatusFails, Answered,
                  Cancel, Expire, ContextDone, BudgetSpent, TimerFires,
                  TimerRuns
    <3> QED BY <1>0, <1>2, <3>1
  <2> QED
    BY <2>0, <2>1, <2>2, <2>3, <2>4, <2>5, <2>6 DEF Step
<1> QED BY <1>4, <1>5

(* Every step of a call is one of the chain or leaves the chain alone.     *)
LEMMA CallSteps ==
  ASSUME [CallNext]_callVars
  PROVE  /\ [Next]_vars
         /\ \/ Forward \/ PumpEnds
            \/ /\ UNCHANGED <<received, ended>>
               /\ closing' # "abandoned" => closing # "abandoned"
<1>1. CASE UNCHANGED callVars  BY <1>1 DEF callVars, stream
<1>2. CASE ChainStep  BY <1>2 DEF ChainStep, stream
<1>3. CASE Forward  BY <1>3 DEF Forward
<1>4. CASE PumpEnds  BY <1>4 DEF PumpEnds
<1>5. CASE StopReading  BY <1>5 DEF StopReading
<1>6. CASE Close  BY <1>6 DEF Close, Next
<1>7. CASE Return  BY <1>7 DEF Return
<1> QED
  BY <1>1, <1>2, <1>3, <1>4, <1>5, <1>6, <1>7 DEF CallNext

LEMMA RelayedStep ==
  ASSUME IInv, IInv', Told, Relayed, [CallNext]_callVars
  PROVE  Relayed'
<1>0. TypeOK /\ Turns  BY DEF IInv
<1>1. log' \in Seq(Emission)  BY DEF IInv, TypeOK
<1>2. [Next]_vars  BY CallSteps
<1>3. /\ log \in Seq(Emission) /\ Len(log) <= Len(log')
      /\ \A i \in 1..Len(log) : log'[i] = log[i]
      /\ result # NoResult => UNCHANGED <<log, result>>
  BY <1>0, <1>2, LogGrows
<1>4. Len(log) \in Nat /\ Len(log') \in Nat  BY <1>1, <1>3
<1>5. received \in Seq(Emission) /\ Len(received) \in Nat
  BY DEF Relayed
<1>6. CASE /\ UNCHANGED <<received, ended>>
           /\ closing' # "abandoned" => closing # "abandoned"
  <2>1. received' \in Seq(Emission) /\ Len(received') <= Len(log')
    BY <1>3, <1>4, <1>5, <1>6 DEF Relayed
  <2>2. ASSUME NEW i \in 1..Len(received')  PROVE received'[i] = log'[i]
    <3>1. i \in 1..Len(received) /\ i \in 1..Len(log)
      BY <1>4, <1>5, <1>6 DEF Relayed
    <3> QED BY <1>3, <1>6, <3>1 DEF Relayed
  <2>3. ended' /\ closing' # "abandoned" =>
          result' # NoResult /\ Len(received') = Len(log')
    BY <1>3, <1>6 DEF Relayed
  <2> QED BY <2>1, <2>2, <2>3 DEF Relayed
<1>7. CASE Forward
  <2>1. /\ ~ended /\ Len(received) < Len(log)
        /\ received' = Append(received, log[Len(received) + 1])
        /\ ended' = ended /\ log' = log
    BY <1>7 DEF Forward, Chan!Receive, vars
  <2> DEFINE next == log[Len(received) + 1]
  <2>2. next \in Emission  BY <1>3, <1>4, <1>5, <2>1
  <2> HIDE DEF next
  <2>3. /\ received' \in Seq(Emission) /\ Len(received') = Len(received) + 1
        /\ received'[Len(received) + 1] = next
        /\ \A i \in 1..Len(received) : received'[i] = received[i]
    BY <1>5, <2>1, <2>2 DEF next
  <2>4. ASSUME NEW i \in 1..Len(received')  PROVE received'[i] = log'[i]
    <3>1. CASE i = Len(received) + 1  BY <2>1, <2>3, <3>1 DEF next
    <3>2. CASE i # Len(received) + 1
      <4>1. i \in 1..Len(received)  BY <1>5, <2>3, <3>2
      <4> QED BY <2>1, <2>3, <4>1 DEF Relayed
    <3> QED BY <3>1, <3>2
  <2> QED BY <1>4, <1>5, <2>1, <2>3, <2>4 DEF Relayed
<1>8. CASE PumpEnds
  <2>1. /\ \/ closing = "abandoned"
           \/ result # NoResult /\ Len(received) = Len(log)
        /\ UNCHANGED <<received, log, result, closing>>
    BY <1>8 DEF PumpEnds, Chan!End, vars
  <2> QED BY <2>1 DEF Relayed
<1> QED BY CallSteps, <1>6, <1>7, <1>8

LEMMA RelayedInit ==
  ASSUME CallInit
  PROVE  Relayed
<1>1. received = <<>> /\ ended = FALSE /\ log = <<>>  BY DEF CallInit, Init
<1>2. <<>> \in Seq(Emission) /\ Len(<<>>) = 0  OBVIOUS
<1> QED BY <1>1, <1>2 DEF Relayed

-----------------------------------------------------------------------------
(* The invariant and what follows from it.                                 *)

(* A caller, reading, closing or gone, never makes the chain do what a     *)
(* chain alone would not: every theorem about the chain holds of a call.   *)
THEOREM CallRunsChain == CallSpec => Spec
<1>1. CallInit => Init  BY DEF CallInit
<1>2. [CallNext]_callVars => [Next]_vars  BY CallSteps
<1> QED BY <1>1, <1>2, PTL DEF CallSpec, Spec

(* At every moment of a call the log spells the turn of its owner, and the *)
(* caller has a prefix of it.                                              *)
THEOREM CallInvariance == CallSpec => []CallInv
<1>1. CallInit => CallInv
  BY InvariantInit, ToldInit, RelayedInit DEF CallInit, CallInv
<1>2. CallInv /\ [CallNext]_callVars => CallInv'
  <2> SUFFICES ASSUME CallInv, [CallNext]_callVars  PROVE CallInv'
    OBVIOUS
  <2>1. IInv /\ Told /\ Relayed  BY DEF CallInv
  <2>2. [Next]_vars  BY CallSteps
  <2>3. IInv'  BY <2>1, <2>2, InvariantStep
  <2>4. Told'  BY <2>1, <2>2, ToldStep
  <2>5. Relayed'  BY <2>1, <2>3, RelayedStep
  <2> QED BY <2>3, <2>4, <2>5 DEF CallInv
<1> QED BY <1>1, <1>2, PTL DEF CallSpec

(* Whoever ranges over the events to their end and joins the text deltas   *)
(* of the last attempt has the text of the terminal message, with its      *)
(* start event first and its terminal event last; in Stream there are no   *)
(* other text deltas.                                                      *)
THEOREM ForwardingIsFaithful == CallSpec => []ForwardedIsAnswer
<1>1. CallInv => ForwardedIsAnswer
  <2> SUFFICES ASSUME IInv, Told, Relayed, ended, closing # "abandoned"
               PROVE  ForwardedIsAnswer
    BY DEF CallInv, ForwardedIsAnswer
  <2>1. result # NoResult /\ at = "over"  BY DEF Relayed, Told, Latched
  <2>2. received = log
    <3>1. log \in Seq(Emission) /\ received \in Seq(Emission)
          /\ Len(received) = Len(log)
      BY DEF IInv, TypeOK, Relayed
    <3>2. \A i \in 1..Len(log) : received[i] = log[i]  BY <3>1 DEF Relayed
    <3> QED BY <3>1, <3>2
  <2>3. Owner = result.tried /\ result.turn = turn
    BY <2>1 DEF Owner, Asked, Reading, Told, Latched
  <2>4. \A i \in 1..Len(received) :
          IsTerminal(received[i]) <=> i = Len(received)
    BY <2>1, <2>2 DEF Told, Latched
  <2>5. \A i \in 1..Len(received) :
          received[i].kind = "start" <=> (opts.valid /\ i = 1)
    BY <2>2 DEF Told, Opened
  <2>6. DeltasOf(received, result.tried) = result.turn.content
    BY <2>2, <2>3 DEF Told, Spelled
  <2>7. opts.commit => \A i \in 1..Len(received) :
          received[i].kind = "text_delta" => received[i].by = result.tried
    BY <2>2, <2>3 DEF Told, Spelled, TellsText
  <2> QED BY <2>4, <2>5, <2>6, <2>7 DEF ForwardedIsAnswer
<1> QED BY <1>1, CallInvariance, PTL

=============================================================================
