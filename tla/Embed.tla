------------------------------- MODULE Embed -------------------------------
(***************************************************************************)
(* Embed(): the fallback loop of embed.go around withRetry() of retry.go.  *)
(* It is a second implementation of the chain's policy, without a stream,  *)
(* a leg budget or an event, and it reports its failure as a Go error.     *)
(*                                                                         *)
(* A vector is the number of the input it embeds; an answer is a sequence  *)
(* of indexed vectors, in any order the provider likes.                    *)
(***************************************************************************)
EXTENDS Naturals, Sequences, FiniteSets, Errors

CONSTANTS
  Legs,          \* how many models the selector hands out; 1 is the first
  Inputs,        \* how many strings are embedded
  MaxRetries,    \* Options.MaxRetries
  NoResult       \* Embed() has not returned

ASSUME LegsAssumption == Legs \in Nat
ASSUME InputsAssumption == Inputs \in Nat \ {0}
ASSUME MaxRetriesAssumption == MaxRetries \in Nat \ {0}

(* What can be wrong with an attempt, a failed leg, what Embed() returns.  *)
Failures ==
  Statuses \cup {"prepare", "conn", "netTimeout", "canceled", "expired",
                 "badAnswer"}

LegError == [leg : Nat, retry : Nat, err : Failures, disposition : Dispositions]

EmbedResult == [kind : {"vectors", "error"}, numbered : BOOLEAN,
                vectors : Seq(1..Inputs)]

ASSUME NoResultAssumption == NoResult \notin EmbedResult

VARIABLES
  ctx,           \* the call's context: live, canceled or expired
  at,            \* where Embed() is
  leg, retry,    \* the selector's last model and withRetry()'s counter
  lastErr,       \* lastErr of withRetry()
  legErrors,     \* what Embed() collected: a leg's error and disposition
  hooked,        \* history: the attempts the hook was called for
  result         \* what Embed() returned

vars == <<ctx, at, leg, retry, lastErr, legErrors, hooked, result>>

-----------------------------------------------------------------------------
Failure(err) == [leg |-> leg, retry |-> retry, err |-> err,
                 disposition |-> Classify(err)]

Init ==
  /\ ctx = "live"
  /\ at = "picking"
  /\ leg = 0 /\ retry = 0
  /\ lastErr = "none"
  /\ legErrors = <<>>
  /\ hooked = <<>>
  /\ result = NoResult

Pick ==
  /\ at = "picking" /\ leg < Legs
  /\ leg' = leg + 1
  /\ retry' = 0
  /\ lastErr' = "none"
  /\ at' = "trying"
  /\ UNCHANGED <<ctx, legErrors, hooked, result>>

Return(value) ==
  /\ result' = value
  /\ at' = "over"

Failed == [kind |-> "error", numbered |-> FALSE, vectors |-> <<>>]

(* No model left: the errors of all legs are joined into one.              *)
Exhausted ==
  /\ at = "picking" /\ leg = Legs
  /\ Return(Failed)
  /\ UNCHANGED <<ctx, leg, retry, lastErr, legErrors, hooked>>

BrokenLegFails(failure) ==     \* an abort is not looked at
  /\ legErrors' = Append(legErrors, failure)
  /\ at' = "picking" /\ UNCHANGED result

(* withRetry() returned an error: Embed() records it and looks at its      *)
(* disposition.                                                            *)
LegFails(failure) ==
  /\ legErrors' = Append(legErrors, failure)
  /\ IF failure.disposition = "abort"
       THEN Return(Failed)
       ELSE at' = "picking" /\ UNCHANGED result

BrokenAttemptFails(err) ==     \* every failure is retried
  IF retry + 1 < MaxRetries
    THEN /\ at' = "backoff" /\ retry' = retry + 1
         /\ lastErr' = err
         /\ UNCHANGED <<leg, legErrors, result>>
    ELSE /\ LegFails(Failure(err))
         /\ UNCHANGED <<leg, retry, lastErr>>

BrokenAttemptFailsLate(err) == \* one retry too many
  IF Classify(err) = "retry" /\ retry + 1 <= MaxRetries
    THEN /\ at' = "backoff" /\ retry' = retry + 1
         /\ lastErr' = err
         /\ UNCHANGED <<leg, legErrors, result>>
    ELSE /\ LegFails(Failure(err))
         /\ UNCHANGED <<leg, retry, lastErr>>

(* fn() returned an error: withRetry() waits for another try if it is one  *)
(* worth retrying and one is left.                                         *)
AttemptFails(err) ==
  IF Classify(err) = "retry" /\ retry + 1 < MaxRetries
    THEN /\ at' = "backoff" /\ retry' = retry + 1
         /\ lastErr' = err
         /\ UNCHANGED <<leg, legErrors, result>>
    ELSE /\ LegFails(Failure(err))
         /\ UNCHANGED <<leg, retry, lastErr>>

(* The backoff's select: a context that is done ends the leg with the      *)
(* error that was to be retried, and so with its disposition.              *)
BackoffCancelled ==
  /\ at = "backoff" /\ ctx # "live"
  /\ LegFails([Failure(lastErr) EXCEPT !.retry = retry - 1])
  /\ UNCHANGED <<ctx, leg, retry, lastErr, hooked>>

BackoffElapsed ==
  /\ at = "backoff"
  /\ at' = "trying"
  /\ UNCHANGED <<ctx, leg, retry, lastErr, legErrors, hooked, result>>

(* embedOnce() fails before it has a request: no provider, credentials,    *)
(* pair or payload.  The hook is not called.                               *)
PrepareFails ==
  /\ at = "trying"
  /\ AttemptFails("prepare")
  /\ UNCHANGED <<ctx, hooked>>

Send ==
  /\ at = "trying"
  /\ at' = "sending"
  /\ UNCHANGED <<ctx, leg, retry, lastErr, legErrors, hooked, result>>

HookedFailure(err) ==
  /\ hooked' = Append(hooked, Failure(err))
  /\ AttemptFails(err)
  /\ UNCHANGED ctx

BrokenDoFails ==               \* the request is not bound to the context
  /\ at = "sending" /\ ctx = "live"
  /\ \E err \in {"conn", "netTimeout"} : HookedFailure(err)

(* client.Do(), or reading the answer, fails.                              *)
DoFails ==
  /\ at = "sending"
  /\ \E err \in {"conn", "netTimeout"} \cup (IF ctx = "live" THEN {} ELSE {ctx}) :
       HookedFailure(err)

StatusFails ==
  /\ at = "sending"
  /\ \E status \in Statuses, readable \in BOOLEAN :
       HookedFailure(httpError(status, readable))

(* The body is no embedding response, or has the wrong number of vectors.  *)
BadAnswer ==
  /\ at = "sending"
  /\ HookedFailure("badAnswer")

Order == {p \in [1..Inputs -> 1..Inputs] :
            \A i, j \in 1..Inputs : p[i] = p[j] => i = j}

(* A response: the vectors in some order, each with the index of its input *)
(* or, if the provider leaves the field out, in order and all with 0.      *)
Data(order, numbered) ==
  [i \in 1..Inputs |->
     IF numbered THEN [index |-> order[i] - 1, vector |-> order[i]]
                 ELSE [index |-> 0, vector |-> i]]

BrokenArrangements(data) == {data}       \* as it came

(* sort.Slice by index; it does not determine the order of equal indexes.  *)
Arrangements(data) ==
  {s \in {[i \in 1..Inputs |-> data[p[i]]] : p \in Order} :
     \A i, j \in 1..Inputs : i < j => s[i].index <= s[j].index}

Answered ==
  /\ at = "sending"
  /\ \E order \in Order, numbered \in BOOLEAN :
       \E data \in Arrangements(Data(order, numbered)) :
         Return([kind |-> "vectors", numbered |-> numbered,
                 vectors |-> [i \in 1..Inputs |-> data[i].vector]])
  /\ hooked' = Append(hooked, [leg |-> leg, retry |-> retry, err |-> "none",
                               disposition |-> "none"])
  /\ UNCHANGED <<ctx, leg, retry, lastErr, legErrors>>

ContextDone ==
  /\ ctx = "live" /\ at # "over"
  /\ ctx' \in {"canceled", "expired"}
  /\ UNCHANGED <<at, leg, retry, lastErr, legErrors, hooked, result>>

Own == Pick \/ Exhausted \/ BackoffCancelled \/ BackoffElapsed
         \/ PrepareFails \/ Send

Provider == DoFails \/ StatusFails \/ BadAnswer \/ Answered

Next == Own \/ Provider \/ ContextDone

Spec == Init /\ [][Next]_vars

(* Embed() runs on in its caller's goroutine, the backoff timer fires, and *)
(* client.Do() returns once its context is done.                           *)
FairSpec == Spec /\ WF_vars(Own) /\ WF_vars(ctx # "live" /\ DoFails)

-----------------------------------------------------------------------------
(* Properties.                                                             *)

(* The values Embed() works with.                                          *)
TypeOK ==
  /\ ctx \in {"live", "canceled", "expired"}
  /\ at \in {"picking", "trying", "sending", "backoff", "over"}
  /\ leg \in 0..Legs /\ retry \in 0..(MaxRetries - 1)
  /\ lastErr \in Failures \cup {"none"}
  /\ legErrors \in Seq(LegError)
  /\ result \in EmbedResult \cup {NoResult}
  /\ (at = "over") <=> (result # NoResult)

(* One error per failed leg, in the order of the models, none of them lost *)
(* or reported twice, and the call fails only after the last model or with *)
(* an abort.                                                               *)
FailureNamesEveryLeg ==
  /\ \A i \in 1..Len(legErrors) : legErrors[i].leg = i
  /\ \A i \in 1..(Len(legErrors) - 1) : legErrors[i].disposition # "abort"
  /\ (result # NoResult /\ result.kind = "error") =>
        \/ Len(legErrors) = Legs
        \/ legErrors[Len(legErrors)].disposition = "abort"
  /\ (result # NoResult /\ result.kind = "vectors") =>
        Len(legErrors) = leg - 1

(* What the policy of Fallback sees of Embed().                            *)
Recorded == Len(legErrors) = leg /\ leg > 0

Answer == result # NoResult /\ result.kind = "vectors"

Tries ==
  IF Answer THEN retry + 1
  ELSE IF Recorded THEN legErrors[leg].retry + 1 ELSE retry

Verdict ==
  CASE Answer -> "accepted"
    [] ~Answer /\ Recorded -> legErrors[leg].disposition
    [] ~Answer /\ leg = 0 -> "advance"
    [] OTHER -> IF retry > 0 THEN Classify(lastErr) ELSE "none"

Outcome ==
  CASE result = NoResult -> "open"
    [] Answer -> "answer"
    [] OTHER -> "failure"

Policy == INSTANCE Fallback WITH
  untried <- (leg + 1)..Legs, shuffled <- FALSE, tries <- Tries,
  verdict <- Verdict, rushed <- ctx # "live", interrupted <- FALSE,
  outcome <- Outcome

(* Embed() follows the same policy as the chain: what its two loops do next*)
(* is what the last failure calls for, a leg is left after a retryable one *)
(* only with its retries used up or the context done, and the call fails   *)
(* only after an abort or with every leg tried.                            *)
IsFallback == Policy!Spec

(* Vectors come back in the order of the inputs whenever the provider says *)
(* which is which, in whatever order it sends them.                        *)
VectorsAligned ==
  (result # NoResult /\ result.kind = "vectors" /\ result.numbered) =>
    result.vectors = [i \in 1..Inputs |-> i]

(* Once the context is done Embed() returns, whatever the provider does.   *)
DoneReturns == (ctx # "live") ~> (at = "over")

(* "caller cancelled ... abort" (README.md): a call cancelled while it     *)
(* waits to retry ends there.  withRetry() returns the error it was about  *)
(* to retry, Embed() reads that error's disposition, and the next model is *)
(* asked.                                                                  *)
BackoffCancelEnds ==
  [][(at = "backoff" /\ ctx = "canceled" /\ at' # "trying") => at' = "over"]_vars

=============================================================================
