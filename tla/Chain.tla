------------------------------- MODULE Chain -------------------------------
(***************************************************************************)
(* The fallback chain of one call: runChain, runLeg and attemptLeg of      *)
(* chain.go, with the classification of errors.go, the HTTP attempt and    *)
(* its leg budget of transport.go and the stream reader of streaming.go.   *)
(*                                                                         *)
(* Three parties act: the chain goroutine; the caller's context, which is  *)
(* cancelled or expires at any moment; and the timer goroutine that        *)
(* time.AfterFunc starts when the leg budget is spent.  The provider is    *)
(* the nondeterminism of what a request answers.  A step of the chain      *)
(* goroutine runs from one place where another party can interfere (a      *)
(* request, a read, a look at a context or at the timer) to the next.      *)
(*                                                                         *)
(* Text is a sequence of fragments tagged with the attempt they came from; *)
(* token counts, wording and timestamps are left out.                      *)
(***************************************************************************)
EXTENDS Naturals, Sequences, FiniteSets, Errors

CONSTANTS
  Options,       \* the calls to consider, see OptionsAssumption
  MaxRetries,    \* Options.MaxRetries: attempts against one leg
  Chunk,         \* the stream chunks a provider may send
  NoResult,      \* no terminal message yet
  MaxChunk       \* bound: chunks received over the whole call

ASSUME MaxRetriesAssumption == MaxRetries \in Nat \ {0}
ASSUME MaxChunkAssumption == MaxChunk \in Nat

(* legs: how many models the selector holds; random: it hands them out in  *)
(* any order; commit: Stream rather than Ask; capped: max_tokens declared; *)
(* budget, timeout, minimum: WithLegBudget, WithTimeout, MinOutputTokens   *)
(* in force; valid: the request and the model string pass validation.      *)
ASSUME OptionsAssumption ==
  Options \subseteq [legs : Nat, random : BOOLEAN, commit : BOOLEAN,
                     capped : BOOLEAN, budget : BOOLEAN, timeout : BOOLEAN,
                     minimum : BOOLEAN, valid : BOOLEAN]

(* A chunk has thinking text in a field of its own or between think tags;  *)
(* items: it carries opaque reasoning items.                               *)
Texts == {"blank", "words", "partial"}

FinishReasons == {"none", "stop", "length", "tool_calls"}

ASSUME ChunkAssumption ==
  Chunk \subseteq [text : Texts \cup {"none"},
                   reasoning : {"none", "own", "tagged"}, items : BOOLEAN,
                   tool : {"none", "start", "args"}, finish : FinishReasons]

(* What can be wrong with an attempt.                                      *)
Failures ==
  Statuses \cup {"none", "prepare", "conn", "netTimeout", "canceled", "expired",
                 "budget", "midstream", "empty", "truncated", "short",
                 "truncatedTools"}

(* Pieces of text, an accumulated turn, an attempt, an event, a message.   *)
Piece == [text : Texts, by : Nat]

Turn == [ident : Nat, content : Seq(Piece), reasoning : BOOLEAN,
         items : SUBSET Nat, tools : Nat, finish : FinishReasons,
         emitted : BOOLEAN]

Attempt == [leg : Nat, retry : Nat, err : Failures, emitted : BOOLEAN,
            token : BOOLEAN, disposition : Dispositions \cup {"none"}]

Emission ==
  [kind : {"start", "text_delta", "reasoning_delta", "tool_call_start",
           "tool_call_delta", "tool_call_end", "leg_failed", "done", "error"},
   by : Nat, delta : Seq(Piece)]

Message == [stop : {"stop", "length", "tool_use", "error", "aborted"},
            turn : Turn, tried : Nat]

ASSUME NoResultAssumption == NoResult \notin Message

VARIABLES
  opts,          \* this call's options
  ctx,           \* the call's context: live, canceled or expired
  at,            \* where the chain goroutine is
  remaining,     \* what the selector has not handed out
  leg, retry,    \* runLeg's model and loop counter
  spent,         \* legDeadline has passed
  cause,         \* cause of the attempt's own context, or none
  timer,         \* the leg budget's timer
  probed,        \* stream_options was dropped and the request sent again
  open,          \* the attempt's response bodies that are not closed
  reply,         \* what the attempt has to settle
  turn,          \* chainState and its messageAccumulator
  filter,        \* locals of consumeLegStream
  attempts,      \* acc.attempts
  log,           \* history: every event emitted
  result,        \* the message finish() latched
  chunks         \* chunks received so far (for MaxChunk)

call == <<opts, chunks>>
budget == <<spent, cause, timer>>
response == <<probed, open>>
vars == <<opts, ctx, at, remaining, leg, retry, spent, cause, timer, probed,
          open, reply, turn, filter, attempts, log, result, chunks>>

-----------------------------------------------------------------------------
(* As in EventStream, "Broken" definitions carry a plausible bug.          *)
BrokenCommitFailure(disposition, emitted) ==   \* Stream treated like Ask
  disposition

(* A committed leg's failure ends the call.                                *)
commitFailure(disposition, emitted) ==
  IF opts.commit /\ emitted THEN "abort" ELSE disposition

(* Close() and the caller's cancel abort; everything else is an error.     *)
terminalReason == IF ctx = "canceled" THEN "aborted" ELSE "error"

-----------------------------------------------------------------------------
(* The accumulated turn.  Of the reasoning items only the attempts they    *)
(* came from are kept.                                                     *)

EmptyTurn ==
  [ident |-> 0, content |-> <<>>, reasoning |-> FALSE, items |-> {},
   tools |-> 0, finish |-> "none", emitted |-> FALSE]

BrokenResetLeg == turn        \* the last attempt's turn is appended to

(* resetLeg() and `emitted = false`, before every attempt.                 *)
resetLeg == EmptyTurn

NewFilter == [held |-> <<>>, disabled |-> FALSE, token |-> FALSE,
              finish |-> "none"]

current == Len(attempts) + 1      \* the attempt under way

Fragments(texts) == [i \in 1..Len(texts) |-> [text |-> texts[i], by |-> current]]

(* Events of the attempt under way; only a text_delta carries answer text. *)
Event(kind) == [kind |-> kind, by |-> current, delta |-> <<>>]

TextDelta(texts) ==
  [kind |-> "text_delta", by |-> current, delta |-> Fragments(texts)]

CallEvent(kind) == [kind |-> kind, by |-> 0, delta |-> <<>>]

(* chainState.text(): answer text, then thinking text.                     *)
WithText(t, texts, reasoning) ==
  [t EXCEPT !.content = @ \o Fragments(texts),
            !.reasoning = @ \/ reasoning,
            !.emitted = @ \/ texts # <<>>]

TextEvents(texts, reasoning) ==
  (IF texts # <<>> THEN <<TextDelta(texts)>> ELSE <<>>)
    \o (IF reasoning THEN <<Event("reasoning_delta")>> ELSE <<>>)

(* thinkTagFilter.Feed(): what comes out of the filter now.  A fragment    *)
(* that could be the beginning of a tag is held back until the next one,   *)
(* which makes it text, more of a beginning, or a tag.                     *)
Passes(c) == c.reasoning = "own" \/ filter.disabled

Through(c) ==
  CASE c.text = "none" -> <<>>
    [] c.text # "none" /\ Passes(c) -> <<c.text>>
    [] c.text = "partial" /\ ~Passes(c) -> <<>>
    [] OTHER -> IF c.reasoning = "tagged" THEN <<c.text>>
                                          ELSE filter.held \o <<c.text>>

HeldAfter(c) ==
  CASE Passes(c) \/ (c.text = "none" /\ c.reasoning = "none") -> filter.held
    [] c.text = "partial" /\ ~Passes(c) -> <<"partial">>
    [] OTHER -> <<>>

(* toolCallAccumulator.merge() seen through toolFragment(): a fragment     *)
(* opens a slot or continues the last one.                                 *)
Slots(c) ==
  CASE c.tool = "none" -> turn.tools
    [] c.tool = "start" -> turn.tools + 1
    [] OTHER -> IF turn.tools = 0 THEN 1 ELSE turn.tools

ToolEvents(c) ==
  (IF Slots(c) > turn.tools THEN <<Event("tool_call_start")>> ELSE <<>>)
    \o (IF c.tool = "args" THEN <<Event("tool_call_delta")>> ELSE <<>>)

(* thinkTagFilter.Flush(), at the end of every stream, failed or not.      *)
Flushed == [WithText(turn, filter.held, FALSE) EXCEPT !.finish = filter.finish]

BrokenFlushEvents == <<>>     \* held-back text reaches the turn only

FlushEvents == TextEvents(filter.held, FALSE)

Blank(content) == \A i \in 1..Len(content) : content[i].text = "blank"

BrokenGuardResponse(short) == \* truncated calls are never looked at
  IF Blank(turn.content) /\ turn.tools = 0
    THEN IF turn.reasoning /\ turn.finish # "length" THEN "none" ELSE "empty"
    ELSE "none"

(* guardResponse(): what an intact answer is rejected for.                 *)
guardResponse(short) ==
  IF turn.tools = 0
    THEN CASE Blank(turn.content) /\ ~turn.reasoning -> "empty"
           [] Blank(turn.content) /\ turn.reasoning /\ turn.finish = "length" ->
                "truncated"
           [] OTHER -> IF short /\ opts.minimum THEN "short" ELSE "none"
    ELSE IF turn.finish = "length" /\ ~opts.capped THEN "truncatedTools"
                                                   ELSE "none"

stopReasonFor(finish, tools) ==
  CASE finish = "length" -> "length"
    [] finish # "length" /\ (finish = "tool_calls" \/ tools > 0) -> "tool_use"
    [] OTHER -> "stop"

-----------------------------------------------------------------------------
Init ==
  /\ opts \in Options
  /\ ctx = "live"
  /\ at = "start"
  /\ remaining = 1..opts.legs
  /\ leg = 0 /\ retry = 0
  /\ spent = FALSE /\ cause = "none" /\ timer = "off"
  /\ probed = FALSE /\ open = {} /\ reply = "none"
  /\ turn = EmptyTurn
  /\ filter = NewFilter
  /\ attempts = <<>>
  /\ log = <<>>
  /\ result = NoResult
  /\ chunks = 0

(* EventStream.finish(): the first message is latched, the rest ignored.   *)
finish(stop, t, history) ==
  IF result = NoResult
    THEN /\ result' = [stop |-> stop, turn |-> t, tried |-> Len(attempts')]
         /\ log' = Append(history,
                     CallEvent(IF stop \in {"error", "aborted"} THEN "error"
                                                                ELSE "done"))
    ELSE result' = result /\ log' = history

(* runChain(): an invalid request or model string ends the call before     *)
(* anything is announced.                                                  *)
Refuse ==
  /\ at = "start" /\ ~opts.valid
  /\ at' = "over"
  /\ attempts' = attempts
  /\ finish("error", turn, log)
  /\ UNCHANGED <<call, ctx, remaining, leg, retry, budget, response, reply,
                 turn, filter>>

Start ==
  /\ at = "start" /\ opts.valid
  /\ at' = "picking"
  /\ log' = <<CallEvent("start")>>
  /\ UNCHANGED <<call, ctx, remaining, leg, retry, budget, response, reply,
                 turn, filter, attempts, result>>

(* NextModel() has something to hand out.                                  *)
HasMore == remaining # {}

(* NextModel() of SequentialSelector and RandomSelector, and the deadline  *)
(* runLeg sets for the leg.                                                *)
NextModel ==
  /\ at = "picking" /\ HasMore
  /\ \E m \in remaining :
       /\ opts.random \/ \A n \in remaining : m <= n
       /\ leg' = m
       /\ remaining' = remaining \ {m}
  /\ retry' = 0
  /\ spent' = FALSE
  /\ at' = "trying"
  /\ UNCHANGED <<call, ctx, cause, timer, response, reply, turn, filter,
                 attempts, log, result>>

Exhausted ==
  /\ at = "picking" /\ ~HasMore
  /\ at' = "failing"
  /\ UNCHANGED <<call, ctx, remaining, leg, retry, budget, response, reply,
                 turn, filter, attempts, log, result>>

(* waitBeforeRetry(): a select of the context and the backoff timer.       *)
BackoffCancelled ==
  /\ at = "backoff" /\ ctx # "live"
  /\ at' = "failing"
  /\ UNCHANGED <<call, ctx, remaining, leg, retry, budget, response, reply,
                 turn, filter, attempts, log, result>>

BackoffElapsed ==
  /\ at = "backoff"
  /\ at' = IF spent THEN "picking" ELSE "trying"
  /\ UNCHANGED <<call, ctx, remaining, leg, retry, budget, response, reply,
                 turn, filter, attempts, log, result>>

-----------------------------------------------------------------------------
(* How an attempt ends: runLeg records it and follows its disposition.     *)

BrokenFollowForever(disposition) ==         \* no limit on the retries
  CASE disposition = "abort" -> at' = "failing" /\ retry' = retry
    [] disposition = "retry" -> at' = "backoff" /\ retry' = retry + 1
    [] OTHER -> at' = "picking" /\ retry' = retry

BrokenFollowNoAbort(disposition) ==         \* an abort merely advances
  IF disposition = "retry" /\ retry + 1 < MaxRetries
    THEN at' = "backoff" /\ retry' = retry + 1
    ELSE at' = "picking" /\ retry' = retry

Follow(disposition) ==
  CASE disposition = "abort" -> at' = "failing" /\ retry' = retry
    [] disposition = "retry" /\ retry + 1 < MaxRetries ->
         at' = "backoff" /\ retry' = retry + 1
    [] OTHER -> at' = "picking" /\ retry' = retry

(* The response of the last request of the attempt.                        *)
currentResponse == IF probed THEN "second" ELSE "first"

BrokenCloseBody ==            \* bound when the defer statement is reached
  /\ open' = open \ {"first"}
  /\ probed' = FALSE

(* The attempt's deferred call: it closes the body of the response that is *)
(* current when the attempt returns, if there is one.                      *)
closeBody ==
  /\ open' = open \ {currentResponse}
  /\ probed' = FALSE

Fail(err, t, events, disposition) ==
  LET failed == [leg |-> leg, retry |-> retry, err |-> err,
                 emitted |-> t.emitted, token |-> filter.token,
                 disposition |-> disposition]
  IN  /\ attempts' = Append(attempts, failed)
      /\ log' = log \o Append(events, Event("leg_failed"))
      /\ turn' = t
      /\ Follow(disposition)
      /\ cause' = "none" /\ timer' = "off" /\ reply' = "none"
      /\ filter' = NewFilter
      /\ closeBody
      /\ UNCHANGED <<call, ctx, remaining, leg, spent, result>>

FailAttempt(err, t, events) ==
  Fail(err, t, events, commitFailure(Classify(err), t.emitted))

BrokenArmLegBudget == "off"

(* armLegBudget(): a timer for what is left of the leg's allowance.        *)
armLegBudget == IF opts.budget THEN "armed" ELSE "off"

(* newCallExecution() fails: no provider, credentials or payload.          *)
PrepareFails ==
  /\ at = "trying"
  /\ FailAttempt("prepare", resetLeg, <<>>)

(* It succeeds: the attempt gets an identity and a context of its own.     *)
Prepare ==
  /\ at = "trying"
  /\ turn' = [resetLeg EXCEPT !.ident = leg]
  /\ cause' = IF ctx = "live" THEN "none" ELSE ctx
  /\ timer' = armLegBudget
  /\ at' = "sending"
  /\ UNCHANGED <<call, ctx, remaining, leg, retry, spent, response, reply,
                 filter, attempts, log, result>>

(* client.Do(), or the read of the body retryWithoutStreamUsage() keeps,   *)
(* fails: the connection, a timeout of the HTTP client, or the context.    *)
DoFails ==
  /\ at = "sending"
  /\ reply' \in {"conn", "netTimeout"}
                  \cup (CASE cause = "none" -> {}
                          [] cause = "budget" -> {"canceled"}
                          [] OTHER -> {cause})
  /\ open' \in {{}} \cup (IF probed THEN {} ELSE {{"first"}})
  /\ at' = "settling"
  /\ UNCHANGED <<call, ctx, remaining, leg, retry, budget, probed, turn,
                 filter, attempts, log, result>>

(* retryWithoutStreamUsage(): the first 400 of an attempt is read, closed  *)
(* and asked again.                                                        *)
Probe ==
  /\ at = "sending" /\ ~probed
  /\ probed' = TRUE
  /\ UNCHANGED <<call, ctx, at, remaining, leg, retry, budget, open, reply,
                 turn, filter, attempts, log, result>>

(* A response arrives with a body that stays open.                         *)
Respond(next) ==
  /\ open' = open \cup {currentResponse}
  /\ at' = next

StatusFails ==
  /\ at = "sending"
  /\ \E status \in Statuses, read \in BOOLEAN :
       /\ status \in {"reject400", "local400"} => probed
       /\ reply' = httpError(status, read)
  /\ Respond("settling")
  /\ UNCHANGED <<call, ctx, remaining, leg, retry, budget, probed, turn,
                 filter, attempts, log, result>>

Answered ==
  /\ at = "sending"
  /\ Respond("answered")
  /\ UNCHANGED <<call, ctx, remaining, leg, retry, budget, probed, reply,
                 turn, filter, attempts, log, result>>

BrokenStopped == timer        \* the timer is left running

(* timer.Stop() before the timer fired.                                    *)
Stopped == "off"

(* disarm() after a good response: too late if the timer has fired, even   *)
(* when its goroutine has not run yet.                                     *)
Disarm ==
  /\ at = "answered"
  /\ IF timer \in {"fired", "ran"}
       THEN /\ reply' = "canceled" /\ at' = "settling"
            /\ UNCHANGED <<timer, filter>>
       ELSE /\ timer' = Stopped /\ at' = "streaming"
            /\ filter' = NewFilter
            /\ UNCHANGED reply
  /\ UNCHANGED <<call, ctx, remaining, leg, retry, spent, cause, response,
                 turn, attempts, log, result>>

budgetCause(err) == IF cause = "budget" THEN "budget" ELSE err

Settle ==
  /\ at = "settling"
  /\ FailAttempt(budgetCause(reply), turn, <<>>)

-----------------------------------------------------------------------------
(* consumeLegStream(): one line of the stream.                             *)
Line(c) ==
  /\ at = "streaming" /\ cause = "none"
  /\ chunks < MaxChunk
  /\ chunks' = chunks + 1
  /\ turn' = [WithText(turn, Through(c), c.reasoning # "none") EXCEPT
                !.tools = Slots(c),
                !.items = IF c.items THEN @ \cup {current} ELSE @,
                !.emitted = @ \/ c.tool # "none"]
  /\ filter' = [held |-> HeldAfter(c),
                disabled |-> Passes(c),
                token |-> \/ filter.token \/ Through(c) # <<>>
                          \/ c.reasoning # "none" \/ Slots(c) > 0,
                finish |-> IF c.finish = "none" THEN filter.finish
                                                ELSE c.finish]
  /\ log' = log \o ToolEvents(c) \o TextEvents(Through(c), c.reasoning # "none")
  /\ UNCHANGED <<opts, ctx, at, remaining, leg, retry, budget, response, reply,
                 attempts, result>>

(* A read error, the HTTP client's timeout among them, a malformed chunk   *)
(* or an error reported in band.                                           *)
StreamBreaks ==
  /\ at = "streaming"
  /\ \E err \in {"midstream", "netTimeout"} :
       FailAttempt(err, Flushed, FlushEvents)

BrokenStreamIgnoresCancel ==  \* only the deadline is looked at
  /\ at = "streaming" /\ cause = "expired"
  /\ FailAttempt(cause, Flushed, FlushEvents)

(* The context is done, seen between two lines or after the last one.      *)
StreamCancelled ==
  /\ at = "streaming" /\ cause # "none"
  /\ FailAttempt(cause, Flushed, FlushEvents)

StreamEnds ==
  /\ at = "streaming" /\ cause = "none"
  /\ turn' = Flushed
  /\ filter' = [filter EXCEPT !.held = <<>>]
  /\ log' = log \o FlushEvents
  /\ at' = "guarding"
  /\ UNCHANGED <<call, ctx, remaining, leg, retry, budget, response, reply,
                 attempts, result>>

Reject ==
  /\ at = "guarding"
  /\ \E short \in BOOLEAN :
       /\ guardResponse(short) # "none"
       /\ FailAttempt(guardResponse(short), turn, <<>>)

(* The leg is accepted: its calls are announced, the attempt recorded and  *)
(* the turn latched.                                                       *)
Accept ==
  /\ at = "guarding"
  /\ \E short \in BOOLEAN : guardResponse(short) = "none"
  /\ attempts' = Append(attempts,
       [leg |-> leg, retry |-> retry, err |-> "none",
        emitted |-> turn.emitted, token |-> filter.token,
        disposition |-> "none"])
  /\ finish(stopReasonFor(turn.finish, turn.tools), turn,
            log \o [i \in 1..turn.tools |-> Event("tool_call_end")])
  /\ at' = "over"
  /\ cause' = "none" /\ timer' = "off"
  /\ closeBody
  /\ UNCHANGED <<call, ctx, remaining, leg, retry, spent, reply, turn, filter>>

(* The loop of runChain() is over without an answer.                       *)
finishFailed ==
  /\ at = "failing"
  /\ attempts' = attempts
  /\ finish(terminalReason, turn, log)
  /\ at' = "over"
  /\ UNCHANGED <<call, ctx, remaining, leg, retry, budget, response, reply,
                 turn, filter>>

-----------------------------------------------------------------------------
(* The caller and the clock.                                               *)

ContextDone(how) ==
  /\ ctx = "live" /\ at # "over"
  /\ ctx' = how
  /\ cause' = IF cause = "none" THEN how ELSE cause
  /\ UNCHANGED <<call, at, remaining, leg, retry, spent, timer, response, reply,
                 turn, filter, attempts, log, result>>

Cancel == ContextDone("canceled")

Expire == opts.timeout /\ ContextDone("expired")

InLeg == {"backoff", "trying", "sending", "settling", "answered"}

BudgetSpent ==
  /\ opts.budget /\ ~spent
  /\ at \in InLeg
  /\ spent' = TRUE
  /\ UNCHANGED <<call, ctx, at, remaining, leg, retry, cause, timer, response,
                 reply, turn, filter, attempts, log, result>>

(* time.AfterFunc: from the moment the timer fires Stop() says so; the     *)
(* goroutine that cancels the attempt runs when it is scheduled.           *)
TimerFires ==
  /\ timer = "armed" /\ spent
  /\ timer' = "fired"
  /\ UNCHANGED <<call, ctx, at, remaining, leg, retry, spent, cause, response,
                 reply, turn, filter, attempts, log, result>>

TimerRuns ==
  /\ timer = "fired"
  /\ timer' = "ran"
  /\ cause' = IF cause = "none" THEN "budget" ELSE cause
  /\ UNCHANGED <<call, ctx, at, remaining, leg, retry, spent, response, reply,
                 turn, filter, attempts, log, result>>

-----------------------------------------------------------------------------
(* What the chain goroutine does by itself, and what needs the provider.   *)
OwnStep ==
  \/ Refuse \/ Start \/ NextModel \/ Exhausted
  \/ BackoffCancelled \/ BackoffElapsed
  \/ PrepareFails \/ Prepare \/ Disarm \/ Settle
  \/ StreamCancelled \/ Reject \/ Accept \/ finishFailed

Provider ==
  \/ DoFails \/ Probe \/ StatusFails \/ Answered
  \/ \E c \in Chunk : Line(c)
  \/ StreamBreaks \/ StreamEnds

Clock == Expire \/ BudgetSpent \/ TimerFires \/ TimerRuns

Next == OwnStep \/ Provider \/ Cancel \/ Clock

Spec == Init /\ [][Next]_vars

(* The chain goroutine is always scheduled again; client.Do() and a read   *)
(* of the body return once the attempt's context is done; the clock runs.  *)
(* The provider owes nothing: it may never answer.                         *)
ReportsDone == cause # "none" /\ DoFails

Fairness ==
  /\ WF_vars(OwnStep) /\ WF_vars(ReportsDone)
  /\ WF_vars(Expire) /\ WF_vars(BudgetSpent)
  /\ WF_vars(TimerFires) /\ WF_vars(TimerRuns)

-----------------------------------------------------------------------------
(* Properties.                                                             *)

Places == {"start", "picking", "backoff", "trying", "sending", "answered",
           "settling", "streaming", "guarding", "failing", "over"}

(* The values the call's state takes.                                      *)
TypeOK ==
  /\ opts \in Options
  /\ ctx \in {"live", "canceled", "expired"}
  /\ at \in Places
  /\ remaining \subseteq 1..opts.legs
  /\ leg \in 0..opts.legs /\ retry \in 0..(MaxRetries - 1)
  /\ spent \in BOOLEAN /\ cause \in {"none", "budget", "canceled", "expired"}
  /\ timer \in {"off", "armed", "fired", "ran"}
  /\ probed \in BOOLEAN /\ open \subseteq {"first", "second"}
  /\ reply \in Failures
  /\ turn \in Turn /\ turn.ident <= opts.legs /\ turn.tools <= chunks
  /\ filter \in [held : Seq(Texts), disabled : BOOLEAN, token : BOOLEAN,
                 finish : FinishReasons]
  /\ attempts \in Seq(Attempt)
  /\ log \in Seq(Emission)
  /\ result \in Message \cup {NoResult}
  /\ chunks \in 0..MaxChunk

AnswerEvents ==
  {"text_delta", "tool_call_start", "tool_call_delta", "tool_call_end"}

(* A consumer of Stream never receives pieces of two answers: all text and *)
(* tool-call events of a call come from one attempt, whatever fails and is *)
(* retried, held-back text released by a failing stream included.          *)
NoSplice ==
  opts.commit =>
    \A i, j \in 1..Len(log) :
      (log[i].kind \in AnswerEvents /\ log[j].kind \in AnswerEvents) =>
         log[i].by = log[j].by

(* The terminal message holds text and reasoning items of the last attempt *)
(* only, and names the leg of that attempt or none: nothing bleeds from    *)
(* one leg to the next.                                                    *)
TurnOfLastAttempt ==
  result # NoResult =>
    /\ \A i \in 1..Len(result.turn.content) :
          result.turn.content[i].by = result.tried
    /\ result.turn.items \subseteq {result.tried}
    /\ result.turn.ident # 0 =>
          /\ result.tried > 0
          /\ result.turn.ident = attempts[result.tried].leg

(* What the policy of Fallback sees of the chain.                          *)
Tried == Len(attempts) > 0 /\ attempts[Len(attempts)].leg = leg

lastAttempt == attempts[Len(attempts)]

Untried == IF opts.valid THEN remaining ELSE {}

Tries == IF Tried THEN lastAttempt.retry + 1 ELSE 0

Verdict ==
  CASE leg = 0 -> "advance"
    [] leg # 0 /\ ~Tried -> "none"
    [] OTHER -> IF lastAttempt.disposition = "none" THEN "accepted"
                                               ELSE lastAttempt.disposition

Outcome ==
  CASE result = NoResult -> "open"
    [] result # NoResult /\ result.stop \in {"error", "aborted"} -> "failure"
    [] OTHER -> "answer"

Policy == INSTANCE Fallback WITH
  untried <- Untried, shuffled <- opts.random, tries <- Tries,
  verdict <- Verdict, rushed <- spent, interrupted <- ctx # "live",
  outcome <- Outcome

(* The chain follows the policy of Fallback: a leg's recorded dispositions,*)
(* its retries and what is left of the legs decide what comes next, and a  *)
(* call fails only after an abort, with every leg tried, or interrupted;   *)
(* only a spent leg budget cuts retries short.                             *)
IsFallback == Policy!Spec

(* Calls cut off by the output cap never look runnable: they come back as  *)
(* tool use only if the provider finished them, and at all only to a       *)
(* caller who declared the cap.                                            *)
NoTruncatedCallRuns ==
  (result # NoResult /\ result.stop \notin {"error", "aborted"}
     /\ result.turn.tools > 0) =>
    IF result.turn.finish = "length"
      THEN opts.capped /\ result.stop = "length"
      ELSE result.stop = "tool_use"

(* The leg budget bounds only the wait for a response: an attempt that     *)
(* received anything of one is never ended by it.                          *)
BudgetOnlyBeforeResponse ==
  \A i \in 1..Len(attempts) :
    attempts[i].err = "budget" => ~attempts[i].token /\ ~attempts[i].emitted

(* Every response body the chain receives is closed: at most one is open,  *)
(* and none outside the attempt that received it, also when a 400 was      *)
(* answered by a second request or its body could not be read.             *)
BodiesClosed ==
  /\ Cardinality(open) <= 1
  /\ at \in {"start", "picking", "backoff", "trying", "sending", "failing",
             "over"} => open = {}

-----------------------------------------------------------------------------
(* What the code's texts say and the code does not do.                     *)

(* "A cancelled or expired call is the caller's decision" (errors.go): an  *)
(* attempt fails as cancelled only if the call was cancelled.  The leg     *)
(* budget's timer breaks it: disarm() finds it fired, its goroutine has    *)
(* not cancelled the attempt yet, and the made-up context.Canceled aborts  *)
(* a chain that should advance.                                            *)
CancelledByCaller ==
  \A i \in 1..Len(attempts) : attempts[i].err = "canceled" => ctx = "canceled"

(* "Connection, DNS, TLS and EOF failures ... describe this leg only"      *)
(* (errors.go): a connection that times out advances.  The timeout errors  *)
(* of net and net/http are context.DeadlineExceeded to errors.Is, so       *)
(* Classify takes one for the call's own deadline.                         *)
ConnectionFailureAdvances ==
  \A i \in 1..Len(attempts) :
    attempts[i].err \in {"conn", "netTimeout"} =>
      attempts[i].disposition = "advance"

=============================================================================
