---------------------------- MODULE EmbedProofs ----------------------------
(***************************************************************************)
(* For any number of models, inputs and retries: Embed() reports one error *)
(* per failed model, follows the policy of Fallback, and returns indexed   *)
(* vectors in the order of the inputs.                                     *)
(***************************************************************************)
EXTENDS Embed, Foundations

Under == {"trying", "sending", "backoff"}     \* a model is being tried

(* Every model behind the current one has left its error, and only the     *)
(* last error can be an abort.                                             *)
Collected ==
  /\ \A i \in 1..Len(legErrors) : legErrors[i].leg = i
  /\ at = "picking" => Len(legErrors) = leg
  /\ at \in Under => leg > 0 /\ Len(legErrors) = leg - 1
  /\ at # "over" =>
       \A i \in 1..Len(legErrors) : legErrors[i].disposition # "abort"
  /\ FailureNamesEveryLeg

(* A model is left after a retryable failure only with its tries used up   *)
(* or the context done, and tried again only after one.                    *)
Retries ==
  /\ at = "picking" /\ leg > 0 /\ legErrors[leg].disposition = "retry" =>
       legErrors[leg].retry + 1 = MaxRetries \/ ctx # "live"
  /\ at \in Under /\ retry > 0 => Classify(lastErr) = "retry"
  /\ at = "backoff" => retry > 0

IInv == TypeOK /\ Collected /\ Retries

-----------------------------------------------------------------------------
LEMMA ClassifyType ==
  ASSUME NEW err \in Failures
  PROVE  Classify(err) \in Dispositions
BY DEF Classify, Dispositions

(* The two things that can happen to the error of an attempt: another try, *)
(* or the end of the model.                                                *)
TriesAgain ==
  \E err \in Failures :
    /\ at \in {"trying", "sending"} /\ at' = "backoff"
    /\ Classify(err) = "retry" /\ retry + 1 < MaxRetries
    /\ retry' = retry + 1 /\ lastErr' = err
    /\ UNCHANGED <<ctx, leg, legErrors, result>>

GivesUp ==
  \E err \in Failures :
    /\ \/ at \in {"trying", "sending"}
          /\ (Classify(err) = "retry" => retry + 1 = MaxRetries)
          /\ LegFails(Failure(err))
       \/ at = "backoff" /\ ctx # "live" /\ err = lastErr
          /\ LegFails([Failure(err) EXCEPT !.retry = retry - 1])
    /\ UNCHANGED <<ctx, leg, retry, lastErr>>

Step ==
  \/ Pick \/ Exhausted \/ BackoffElapsed \/ Send \/ Answered \/ ContextDone
  \/ TriesAgain \/ GivesUp

LEMMA FailureSteps ==
  ASSUME IInv, Next
  PROVE  Step
<1>0. retry \in 0..(MaxRetries - 1) /\ MaxRetries \in Nat \ {0}
  BY MaxRetriesAssumption DEF IInv, TypeOK
<1>1. ASSUME NEW err \in Failures, at \in {"trying", "sending"},
             AttemptFails(err), ctx' = ctx
      PROVE  TriesAgain \/ GivesUp
  <2>1. CASE Classify(err) = "retry" /\ retry + 1 < MaxRetries
    BY <1>1, <2>1 DEF AttemptFails, TriesAgain
  <2>2. CASE ~(Classify(err) = "retry" /\ retry + 1 < MaxRetries)
    <3>1. Classify(err) = "retry" => retry + 1 = MaxRetries
      BY <1>0, <2>2
    <3> QED BY <1>1, <2>2, <3>1 DEF AttemptFails, GivesUp
  <2> QED BY <2>1, <2>2
<1>2. ASSUME NEW err \in Failures, at = "sending", HookedFailure(err)
      PROVE  TriesAgain \/ GivesUp
  BY <1>1, <1>2 DEF HookedFailure
<1>3. CASE PrepareFails
  <2>1. "prepare" \in Failures  BY DEF Failures
  <2> QED BY <1>1, <1>3, <2>1 DEF PrepareFails, Step
<1>4. CASE DoFails
  <2>1. PICK err \in {"conn", "netTimeout"}
                       \cup (IF ctx = "live" THEN {} ELSE {ctx}) :
          at = "sending" /\ HookedFailure(err)
    BY <1>4 DEF DoFails
  <2>2. err \in Failures  BY <2>1 DEF Failures, IInv, TypeOK
  <2> QED BY <1>2, <2>1, <2>2 DEF Step
<1>5. CASE StatusFails
  <2>1. PICK status \in Statuses, readable \in BOOLEAN :
          at = "sending" /\ HookedFailure(httpError(status, readable))
    BY <1>5 DEF StatusFails
  <2>2. httpError(status, readable) \in Failures
    BY DEF httpError, Failures, Statuses
  <2> QED BY <1>2, <2>1, <2>2 DEF Step
<1>6. CASE BadAnswer
  <2>1. "badAnswer" \in Failures  BY DEF Failures
  <2> QED BY <1>2, <1>6, <2>1 DEF BadAnswer, Step
<1>7. CASE BackoffCancelled
  <2>1. Classify(lastErr) = "retry"
    BY <1>7 DEF BackoffCancelled, IInv, Retries, Under
  <2>2. lastErr # "none"
    BY <2>1 DEF Classify, Rejected
  <2>3. lastErr \in Failures  BY <2>2 DEF IInv, TypeOK
  <2> QED BY <1>7, <2>3 DEF BackoffCancelled, GivesUp, Step
<1> QED
  BY <1>3, <1>4, <1>5, <1>6, <1>7 DEF Next, Own, Provider, Step

(* A model's error is recorded.                                            *)
LEMMA GiveUpEffect ==
  ASSUME IInv, GivesUp
  PROVE  \E failure \in LegError :
           /\ at \in Under
           /\ legErrors' = Append(legErrors, failure)
           /\ failure.leg = leg
           /\ failure.retry = IF at = "backoff" THEN retry - 1 ELSE retry
           /\ failure.disposition = "retry" =>
                failure.retry + 1 = MaxRetries \/ ctx # "live"
           /\ at = "backoff" => failure.disposition = "retry"
           /\ IF failure.disposition = "abort"
                THEN result' = Failed /\ at' = "over"
                ELSE result' = result /\ at' = "picking"
           /\ UNCHANGED <<ctx, leg, retry, lastErr>>
<1>0. /\ retry \in 0..(MaxRetries - 1) /\ MaxRetries \in Nat \ {0}
      /\ leg \in Nat
  BY MaxRetriesAssumption, LegsAssumption DEF IInv, TypeOK
<1>1. PICK err \in Failures :
        /\ \/ at \in {"trying", "sending"}
              /\ (Classify(err) = "retry" => retry + 1 = MaxRetries)
              /\ LegFails(Failure(err))
           \/ at = "backoff" /\ ctx # "live" /\ err = lastErr
              /\ LegFails([Failure(err) EXCEPT !.retry = retry - 1])
        /\ UNCHANGED <<ctx, leg, retry, lastErr>>
  BY DEF GivesUp
<1>2. Classify(err) \in Dispositions  BY ClassifyType
<1>3. CASE at \in {"trying", "sending"}
  <2> DEFINE failure == Failure(err)
  <2>1. LegFails(failure)  BY <1>1, <1>3
  <2>2. /\ failure \in LegError /\ failure.leg = leg /\ failure.retry = retry
        /\ failure.disposition = Classify(err)
    BY <1>0, <1>2 DEF Failure, LegError
  <2>3. Classify(err) = "retry" => retry + 1 = MaxRetries  BY <1>1, <1>3
  <2> HIDE DEF failure
  <2> QED BY <1>1, <1>3, <2>1, <2>2, <2>3 DEF LegFails, Return, Under
<1>4. CASE at = "backoff"
  <2> DEFINE failure == [Failure(err) EXCEPT !.retry = retry - 1]
  <2>1. LegFails(failure) /\ ctx # "live" /\ err = lastErr  BY <1>1, <1>4
  <2>2. retry > 0 /\ Classify(lastErr) = "retry"
    BY <1>4 DEF IInv, Retries, Under
  <2>3. retry - 1 \in Nat  BY <1>0, <2>2
  <2>4. /\ failure \in LegError /\ failure.leg = leg
        /\ failure.retry = retry - 1 /\ failure.disposition = Classify(err)
    BY <1>0, <1>2, <2>3 DEF Failure, LegError
  <2> HIDE DEF failure
  <2> QED BY <1>1, <1>4, <2>1, <2>2, <2>4 DEF LegFails, Return, Under
<1> QED BY <1>1, <1>3, <1>4

LEMMA FailedType == Failed \in EmbedResult /\ Failed.kind = "error"
BY DEF Failed, EmbedResult

(* What is returned when the provider answers.                             *)
LEMMA AnsweredResult ==
  ASSUME Answered
  PROVE  result' \in EmbedResult /\ result'.kind = "vectors"
<1>1. PICK order \in Order, numbered \in BOOLEAN :
        \E data \in Arrangements(Data(order, numbered)) :
          Return([kind |-> "vectors", numbered |-> numbered,
                  vectors |-> [i \in 1..Inputs |-> data[i].vector]])
  BY DEF Answered
<1>2. PICK data \in Arrangements(Data(order, numbered)) :
        result' = [kind |-> "vectors", numbered |-> numbered,
                   vectors |-> [i \in 1..Inputs |-> data[i].vector]]
  BY <1>1 DEF Return
<1>3. \A i \in 1..Inputs : Data(order, numbered)[i].vector \in 1..Inputs
  BY DEF Data, Order
<1>4. PICK p \in Order : data = [i \in 1..Inputs |-> Data(order, numbered)[p[i]]]
  BY <1>2 DEF Arrangements
<1>5. \A i \in 1..Inputs : data[i].vector \in 1..Inputs
  BY <1>3, <1>4 DEF Order
<1> DEFINE vs == [i \in 1..Inputs |-> data[i].vector]
<1>6. vs \in Seq(1..Inputs)
  BY <1>5, InputsAssumption
<1> HIDE DEF vs
<1> QED BY <1>2, <1>6 DEF EmbedResult, vs

-----------------------------------------------------------------------------
LEMMA InitIInv == Init => IInv
<1> SUFFICES ASSUME Init  PROVE IInv
  OBVIOUS
<1>1. 0 \in 0..Legs /\ 0 \in 0..(MaxRetries - 1)
  BY LegsAssumption, MaxRetriesAssumption
<1>2. TypeOK  BY <1>1 DEF Init, TypeOK
<1>3. Collected /\ Retries
  BY DEF Init, Collected, Retries, FailureNamesEveryLeg, Under
<1> QED BY <1>2, <1>3 DEF IInv

LEMMA TypeStep ==
  ASSUME IInv, [Next]_vars
  PROVE  TypeOK'
<1> USE DEF TypeOK
<1>0. TypeOK  BY DEF IInv
<1>1. CASE Pick
  BY <1>0, <1>1, LegsAssumption, MaxRetriesAssumption DEF Pick
<1>2. CASE Exhausted
  BY <1>0, <1>2, FailedType, NoResultAssumption DEF Exhausted, Return
<1>3. CASE BackoffElapsed  BY <1>0, <1>3 DEF BackoffElapsed
<1>4. CASE Send  BY <1>0, <1>4 DEF Send
<1>5. CASE Answered
  <2>1. result' \in EmbedResult /\ result' # NoResult
    BY <1>5, AnsweredResult, NoResultAssumption
  <2>2. at' = "over" /\ UNCHANGED <<ctx, leg, retry, lastErr, legErrors>>
    BY <1>5 DEF Answered, Return
  <2> QED BY <1>0, <2>1, <2>2
<1>6. CASE ContextDone  BY <1>0, <1>6 DEF ContextDone
<1>7. CASE TriesAgain
  BY <1>0, <1>7, MaxRetriesAssumption DEF TriesAgain
<1>8. CASE GivesUp
  <2>1. PICK failure \in LegError :
          /\ at \in Under
          /\ legErrors' = Append(legErrors, failure)
          /\ IF failure.disposition = "abort"
               THEN result' = Failed /\ at' = "over"
               ELSE result' = result /\ at' = "picking"
          /\ UNCHANGED <<ctx, leg, retry, lastErr>>
    BY <1>8, GiveUpEffect
  <2>2. legErrors' \in Seq(LegError)  BY <1>0, <2>1
  <2> QED
    BY <1>0, <2>1, <2>2, FailedType, NoResultAssumption DEF Under
<1>9. CASE UNCHANGED vars  BY <1>0, <1>9 DEF vars
<1> QED
  BY FailureSteps, <1>1, <1>2, <1>3, <1>4, <1>5, <1>6, <1>7, <1>8, <1>9
     DEF Step

LEMMA CollectedStep ==
  ASSUME IInv, [Next]_vars
  PROVE  Collected'
<1> USE DEF Collected, FailureNamesEveryLeg, Under
<1>0. TypeOK /\ Collected  BY DEF IInv
<1>a. leg \in Nat /\ Legs \in Nat /\ leg <= Legs /\ Len(legErrors) \in Nat
  BY <1>0, LegsAssumption DEF TypeOK
<1>1. CASE Pick  BY <1>0, <1>1, <1>a DEF Pick, TypeOK
<1>2. CASE Exhausted
  BY <1>0, <1>2, <1>a, FailedType DEF Exhausted, Return
<1>3. CASE BackoffElapsed  BY <1>0, <1>3 DEF BackoffElapsed
<1>4. CASE Send  BY <1>0, <1>4 DEF Send
<1>5. CASE Answered
  <2>1. /\ at = "sending" /\ at' = "over" /\ UNCHANGED <<leg, legErrors>>
        /\ result'.kind = "vectors"
    BY <1>5, AnsweredResult DEF Answered, Return
  <2> QED BY <1>0, <1>a, <2>1
<1>6. CASE ContextDone  BY <1>0, <1>6 DEF ContextDone
<1>7. CASE TriesAgain  BY <1>0, <1>7 DEF TriesAgain, TypeOK
<1>8. CASE GivesUp
  <2>1. PICK failure \in LegError :
          /\ at \in Under
          /\ legErrors' = Append(legErrors, failure)
          /\ failure.leg = leg
          /\ IF failure.disposition = "abort"
               THEN result' = Failed /\ at' = "over"
               ELSE result' = result /\ at' = "picking"
          /\ UNCHANGED <<ctx, leg, retry, lastErr>>
    BY <1>8, GiveUpEffect
  <2>2. legErrors \in Seq(LegError)  BY <1>0 DEF TypeOK
  <2>3. /\ Len(legErrors') = Len(legErrors) + 1
        /\ legErrors'[Len(legErrors) + 1] = failure
        /\ \A i \in 1..Len(legErrors) : legErrors'[i] = legErrors[i]
    BY <2>1, <2>2, AppendFacts
  <2>4. leg > 0 /\ Len(legErrors) = leg - 1  BY <1>0, <2>1
  <2>5. \A i \in 1..Len(legErrors') : legErrors'[i].leg = i
    BY <1>0, <1>a, <2>1, <2>3, <2>4
  <2>6. \A i \in 1..(Len(legErrors') - 1) : legErrors'[i].disposition # "abort"
    BY <1>0, <1>a, <2>1, <2>3, <2>4
  <2>7. result = NoResult  BY <1>0, <2>1 DEF TypeOK
  <2>8. CASE failure.disposition = "abort"
    BY <1>a, <2>1, <2>3, <2>4, <2>5, <2>6, <2>8, FailedType
  <2>9. CASE failure.disposition # "abort"
    <3>1. \A i \in 1..Len(legErrors') : legErrors'[i].disposition # "abort"
      BY <1>a, <2>3, <2>6, <2>9
    <3> QED BY <1>a, <2>1, <2>3, <2>4, <2>5, <2>6, <2>7, <2>9, <3>1
  <2> QED BY <2>8, <2>9
<1>9. CASE UNCHANGED vars  BY <1>0, <1>9 DEF vars
<1> QED
  BY FailureSteps, <1>1, <1>2, <1>3, <1>4, <1>5, <1>6, <1>7, <1>8, <1>9
     DEF Step

LEMMA RetriesStep ==
  ASSUME IInv, [Next]_vars
  PROVE  Retries'
<1> USE DEF Retries, Under
<1>0. TypeOK /\ Collected /\ Retries  BY DEF IInv
<1>1. CASE Pick  BY <1>0, <1>1 DEF Pick
<1>2. CASE Exhausted  BY <1>0, <1>2 DEF Exhausted, Return
<1>3. CASE BackoffElapsed  BY <1>0, <1>3 DEF BackoffElapsed, Classify, Rejected
<1>4. CASE Send  BY <1>0, <1>4 DEF Send, Classify, Rejected
<1>5. CASE Answered  BY <1>0, <1>5 DEF Answered, Return
<1>6. CASE ContextDone  BY <1>0, <1>6 DEF ContextDone, Classify, Rejected
<1>7. CASE TriesAgain
  <2>1. PICK err \in Failures :
          /\ at' = "backoff" /\ Classify(err) = "retry"
          /\ retry' = retry + 1 /\ lastErr' = err
    BY <1>7 DEF TriesAgain
  <2>2. Classify(lastErr)' = "retry"  BY <2>1 DEF Classify, Rejected
  <2>3. retry' > 0  BY <1>0, <2>1 DEF TypeOK
  <2> QED BY <2>1, <2>2, <2>3
<1>8. CASE GivesUp
  <2>1. PICK failure \in LegError :
          /\ at \in Under
          /\ legErrors' = Append(legErrors, failure)
          /\ failure.disposition = "retry" =>
               failure.retry + 1 = MaxRetries \/ ctx # "live"
          /\ at' \in {"over", "picking"}
          /\ UNCHANGED <<ctx, leg, retry, lastErr>>
    BY <1>8, GiveUpEffect
  <2>2. legErrors \in Seq(LegError) /\ Len(legErrors) = leg - 1 /\ leg > 0
        /\ leg \in Nat
    BY <1>0, <2>1, LegsAssumption DEF TypeOK, Collected
  <2>3. legErrors'[leg] = failure
    BY <2>1, <2>2, AppendFacts
  <2> QED BY <2>1, <2>3
<1>9. CASE UNCHANGED vars  BY <1>0, <1>9 DEF vars, Classify, Rejected
<1> QED
  BY FailureSteps, <1>1, <1>2, <1>3, <1>4, <1>5, <1>6, <1>7, <1>8, <1>9
     DEF Step

(* Every reachable state of Embed() satisfies the inductive invariant.     *)
THEOREM Invariance == Spec => []IInv
<1>1. IInv /\ [Next]_vars => IInv'
  BY TypeStep, CollectedStep, RetriesStep DEF IInv
<1> QED BY InitIInv, <1>1, PTL DEF Spec

-----------------------------------------------------------------------------
(* The policy.                                                             *)

(* While a model is being tried, the policy sees the tries made so far and *)
(* the failure of the last of them.                                        *)
LEMMA WhileTrying ==
  ASSUME IInv, at \in Under
  PROVE  /\ Outcome = "open" /\ Tries = retry /\ retry < MaxRetries
         /\ Verdict = IF retry > 0 THEN "retry" ELSE "none"
         /\ Policy!MayAttempt
<1>1. /\ result = NoResult /\ ~Recorded /\ leg # 0 /\ retry < MaxRetries
      /\ retry \in Nat
  BY MaxRetriesAssumption, LegsAssumption
     DEF IInv, TypeOK, Collected, Recorded, Under
<1>2. ~Answer  BY <1>1 DEF Answer
<1>3. Outcome = "open"  BY <1>1, <1>2 DEF Outcome
<1>4. Tries = retry  BY <1>1, <1>2 DEF Tries
<1>5. Verdict = IF retry > 0 THEN Classify(lastErr) ELSE "none"
  BY <1>1, <1>2 DEF Verdict
<1>6. retry > 0 => Classify(lastErr) = "retry"
  BY DEF IInv, Retries
<1> QED BY <1>1, <1>3, <1>4, <1>5, <1>6 DEF Policy!MayAttempt

(* Between two models it sees the last one's error, or none.               *)
LEMMA WhilePicking ==
  ASSUME IInv, at = "picking"
  PROVE  /\ Outcome = "open" /\ Policy!MayLeave
         /\ leg \in Nat /\ Legs \in Nat /\ leg <= Legs
<1>1. /\ result = NoResult /\ Len(legErrors) = leg
      /\ leg \in Nat /\ Legs \in Nat /\ leg <= Legs
  BY LegsAssumption DEF IInv, TypeOK, Collected
<1>2. ~Answer /\ Outcome = "open"  BY <1>1 DEF Answer, Outcome
<1>3. CASE leg = 0
  <2>1. Verdict = "advance"  BY <1>2, <1>3 DEF Verdict, Recorded
  <2> QED BY <1>1, <1>2, <2>1 DEF Policy!MayLeave
<1>4. CASE leg > 0
  <2>1. Recorded  BY <1>1, <1>4 DEF Recorded
  <2>2. /\ Verdict = legErrors[leg].disposition
        /\ Tries = legErrors[leg].retry + 1
    BY <1>2, <1>4, <2>1 DEF Verdict, Tries
  <2>3. legErrors[leg] \in LegError /\ leg \in 1..Len(legErrors)
    BY <1>1, <1>4 DEF IInv, TypeOK
  <2>4. legErrors[leg].disposition \in {"retry", "advance"}
    BY <2>3 DEF IInv, Collected, LegError, Dispositions
  <2>5. legErrors[leg].disposition = "retry" =>
          legErrors[leg].retry + 1 = MaxRetries \/ ctx # "live"
    BY <1>4 DEF IInv, Retries
  <2> QED BY <1>1, <1>2, <2>2, <2>4, <2>5 DEF Policy!MayLeave
<1> QED BY <1>1, <1>3, <1>4

LEMMA PolicyStep ==
  ASSUME IInv, IInv', [Next]_vars
  PROVE  [Policy!Next]_(Policy!policy)
<1>0. TypeOK /\ Collected /\ Retries  BY DEF IInv
<1>a. ASSUME UNCHANGED <<leg, retry, lastErr, legErrors, result>>
      PROVE  UNCHANGED Policy!policy
  BY <1>a DEF Policy!policy, Tries, Verdict, Outcome, Answer, Recorded,
              Classify, Rejected
<1>1. CASE Pick
  <2>1. /\ at = "picking" /\ at' = "trying" /\ leg < Legs /\ leg' = leg + 1
        /\ retry' = 0
    BY <1>1 DEF Pick
  <2>2. /\ Outcome = "open" /\ Policy!MayLeave /\ leg \in Nat /\ Legs \in Nat
    BY <2>1, WhilePicking
  <2>3. /\ result' = NoResult /\ ~Recorded' /\ ~Answer'
    BY <1>0, <1>1, <2>1, <2>2 DEF Pick, TypeOK, Collected, Recorded, Answer
  <2>4. Outcome' = "open" /\ Tries' = 0 /\ Verdict' = "none"
    BY <2>1, <2>2, <2>3 DEF Outcome, Tries, Verdict
  <2>5. /\ leg + 1 \in (leg + 1)..Legs
        /\ \A n \in (leg + 1)..Legs : leg + 1 <= n
        /\ (leg' + 1)..Legs = ((leg + 1)..Legs) \ {leg + 1}
    BY <2>1, <2>2
  <2>6. Policy!Pick  BY <2>2, <2>4, <2>5 DEF Policy!Pick
  <2> QED BY <2>6 DEF Policy!Next
<1>2. CASE Exhausted
  <2>1. /\ at = "picking" /\ leg = Legs /\ result' = Failed
        /\ UNCHANGED <<leg, retry, lastErr, legErrors>>
    BY <1>2 DEF Exhausted, Return
  <2>2. /\ Outcome = "open" /\ Policy!MayLeave /\ leg \in Nat
        /\ result = NoResult
    BY <1>0, <2>1, WhilePicking DEF TypeOK
  <2>3. ~Answer /\ ~Answer' /\ Outcome' = "failure"
    BY <2>1, <2>2, FailedType, NoResultAssumption DEF Answer, Outcome
  <2>4. Tries' = Tries /\ Verdict' = Verdict
    BY <2>1, <2>3 DEF Tries, Verdict, Recorded, Classify, Rejected
  <2>5. (leg + 1)..Legs = {}  BY <2>1, <2>2
  <2>6. Policy!Fail  BY <2>1, <2>2, <2>3, <2>4, <2>5 DEF Policy!Fail
  <2> QED BY <2>6 DEF Policy!Next
<1>3. CASE BackoffElapsed  BY <1>3, <1>a DEF BackoffElapsed
<1>4. CASE Send  BY <1>4, <1>a DEF Send
<1>5. CASE Answered
  <2>1. /\ at = "sending" /\ UNCHANGED <<leg, retry, lastErr, legErrors>>
        /\ result' \in EmbedResult /\ result'.kind = "vectors"
    BY <1>5, AnsweredResult DEF Answered
  <2>2. Outcome = "open" /\ Tries = retry /\ Policy!MayAttempt
    BY <2>1, WhileTrying DEF Under
  <2>3. Answer'  BY <2>1, NoResultAssumption DEF Answer
  <2>4. Outcome' = "answer" /\ Tries' = retry + 1 /\ Verdict' = "accepted"
    BY <2>1, <2>3 DEF Outcome, Tries, Verdict, Answer
  <2>5. Policy!Attempt
    BY <2>1, <2>2, <2>4 DEF Policy!Attempt
  <2> QED BY <2>5 DEF Policy!Next
<1>6. CASE ContextDone  BY <1>6, <1>a DEF ContextDone
<1>7. CASE TriesAgain
  <2>1. PICK err \in Failures :
          /\ at \in {"trying", "sending"} /\ at' = "backoff"
          /\ retry' = retry + 1 /\ UNCHANGED <<leg, legErrors, result>>
    BY <1>7 DEF TriesAgain
  <2>2. Outcome = "open" /\ Tries = retry /\ Policy!MayAttempt
    BY <2>1, WhileTrying DEF Under
  <2>3. result' = NoResult /\ leg # 0 /\ ~Recorded' /\ retry \in Nat
    BY <1>0, <2>1, LegsAssumption DEF TypeOK, Collected, Recorded, Under
  <2>4. ~Answer'  BY <2>3 DEF Answer
  <2>5. Classify(lastErr)' = "retry" /\ retry' > 0
    BY <2>1 DEF IInv, Retries, Under
  <2>6. Outcome' = "open" /\ Tries' = retry + 1 /\ Verdict' = "retry"
    BY <2>1, <2>3, <2>4, <2>5 DEF Outcome, Tries, Verdict
  <2>7. Policy!Attempt
    BY <2>1, <2>2, <2>6 DEF Policy!Attempt
  <2> QED BY <2>7 DEF Policy!Next
<1>8. CASE GivesUp
  <2>1. PICK failure \in LegError :
          /\ at \in Under
          /\ legErrors' = Append(legErrors, failure)
          /\ failure.retry = IF at = "backoff" THEN retry - 1 ELSE retry
          /\ at = "backoff" => failure.disposition = "retry"
          /\ IF failure.disposition = "abort"
               THEN result' = Failed /\ at' = "over"
               ELSE result' = result /\ at' = "picking"
          /\ UNCHANGED <<ctx, leg, retry, lastErr>>
    BY <1>8, GiveUpEffect
  <2>2. /\ Outcome = "open" /\ Tries = retry /\ Policy!MayAttempt
        /\ Verdict = IF retry > 0 THEN "retry" ELSE "none"
    BY <2>1, WhileTrying
  <2>3. /\ legErrors \in Seq(LegError) /\ Len(legErrors) = leg - 1 /\ leg > 0
        /\ leg \in Nat /\ result = NoResult /\ retry \in Nat
    BY <1>0, <2>1, LegsAssumption DEF TypeOK, Collected, Under
  <2>4. legErrors'[leg] = failure /\ Len(legErrors') = leg
    BY <2>1, <2>3, AppendFacts
  <2>5. ~Answer' /\ Recorded'
    BY <2>1, <2>3, <2>4, FailedType DEF Answer, Recorded
  <2>6. Tries' = failure.retry + 1 /\ Verdict' = failure.disposition
    BY <2>1, <2>4, <2>5 DEF Tries, Verdict
  <2>7. Outcome' = IF failure.disposition = "abort" THEN "failure" ELSE "open"
    BY <2>1, <2>3, <2>5, NoResultAssumption, FailedType DEF Outcome
  <2>8. CASE at = "backoff"
    <3>1. retry > 0  BY <1>0, <2>8 DEF Retries
    <3>2. Tries' = Tries  BY <2>1, <2>2, <2>3, <2>6, <2>8
    <3>3. Verdict' = Verdict  BY <2>1, <2>2, <2>6, <2>8, <3>1
    <3>4. Outcome' = Outcome  BY <2>1, <2>2, <2>7, <2>8
    <3> QED BY <2>1, <3>2, <3>3, <3>4 DEF Policy!policy
  <2>9. CASE at # "backoff"
    <3>1. Tries' = Tries + 1  BY <2>1, <2>2, <2>6, <2>9
    <3>2. failure.disposition \in {"retry", "advance", "abort"}
      BY DEF LegError, Dispositions
    <3>3. Policy!Attempt
      BY <2>1, <2>2, <2>6, <2>7, <3>1, <3>2 DEF Policy!Attempt
    <3> QED BY <3>3 DEF Policy!Next
  <2> QED BY <2>8, <2>9
<1>9. CASE UNCHANGED vars  BY <1>9, <1>a DEF vars
<1> QED
  BY FailureSteps, <1>1, <1>2, <1>3, <1>4, <1>5, <1>6, <1>7, <1>8, <1>9
     DEF Step

LEMMA PolicyInit == Init => Policy!Init
<1> SUFFICES ASSUME Init  PROVE Policy!Init
  OBVIOUS
<1>1. (leg + 1)..Legs \subseteq Nat  BY LegsAssumption DEF Init
<1>2. ~Answer /\ ~Recorded  BY DEF Init, Answer, Recorded
<1>3. Tries = 0 /\ Verdict = "advance" /\ Outcome = "open"
  BY <1>2 DEF Init, Tries, Verdict, Outcome
<1> QED BY <1>1, <1>3 DEF Policy!Init

-----------------------------------------------------------------------------
(* Sorting.                                                                *)

(* A set of naturals that is not empty has a least member.                 *)
(* Numbers 1 to n in ascending order stand at their own places: the first  *)
(* too small one would have a smaller one at its own place before it, and  *)
(* the last too large one a larger one behind it.                          *)
LEMMA AscendingIsIdentity ==
  ASSUME NEW n \in Nat, NEW f \in [1..n -> 1..n],
         \A i, j \in 1..n : i < j => f[i] < f[j]
  PROVE  \A i \in 1..n : f[i] = i
<1>1. ASSUME NEW i \in 1..n, f[i] < i  PROVE FALSE
  <2> DEFINE small == {k \in 1..n : f[k] < k}
  <2>1. small # {} /\ small \in SUBSET Nat  BY <1>1
  <2>2. \A k \in 1..n : k \in small <=> f[k] < k  OBVIOUS
  <2>3. \A k \in small : k \in 1..n  OBVIOUS
  <2> HIDE DEF small
  <2>4. PICK k \in small : \A m \in small : ~ (m < k)
    BY <2>1, LeastMember
  <2>5. k \in 1..n /\ f[k] < k  BY <2>2, <2>3
  <2>6. f[k] \in 1..n  BY <2>5
  <2>7. f[f[k]] < f[k]  BY <2>5, <2>6
  <2>8. f[k] \in small  BY <2>2, <2>6, <2>7
  <2> QED BY <2>4, <2>5, <2>8
<1>2. ASSUME NEW i \in 1..n, f[i] > i  PROVE FALSE
  <2> DEFINE big == {k \in 0..n : \E j \in 1..n : j = n - k /\ f[j] > j}
  <2>1. \A j \in 1..n : n - j \in 0..n /\ j = n - (n - j)  OBVIOUS
  <2>2. \A j \in 1..n : f[j] > j => n - j \in big
    <3> SUFFICES ASSUME NEW j \in 1..n, f[j] > j  PROVE n - j \in big
      OBVIOUS
    <3>1. PICK k \in 0..n : k = n - j  BY <2>1
    <3>2. j = n - k  BY <2>1, <3>1
    <3>3. k \in big  BY <3>2
    <3> QED BY <3>1, <3>3
  <2>3. n - i \in big  BY <1>2, <2>2
  <2>4. \A k \in big : k \in 0..n /\ \E j \in 1..n : j = n - k /\ f[j] > j
    OBVIOUS
  <2> HIDE DEF big
  <2>5. big # {} /\ big \in SUBSET Nat  BY <2>3, <2>4
  <2>6. PICK k \in big : \A m \in big : ~ (m < k)
    BY <2>5, LeastMember
  <2>7. PICK j \in 1..n : j = n - k /\ f[j] > j
    BY <2>4
  <2>8. f[j] \in 1..n  OBVIOUS
  <2>9. f[f[j]] > f[j]
    <3>1. j < f[j]  BY <2>7, <2>8
    <3>2. f[j] < f[f[j]]  BY <2>8, <3>1
    <3>3. f[f[j]] \in 1..n  BY <2>8
    <3> QED BY <2>8, <3>2, <3>3
  <2>10. n - f[j] \in big  BY <2>2, <2>8, <2>9
  <2>11. k \in 0..n  BY <2>4
  <2>12. n - f[j] < k  BY <2>7, <2>8, <2>11
  <2> QED BY <2>6, <2>10, <2>12
<1>3. \A i \in 1..n : f[i] \in 1..n  OBVIOUS
<1> QED BY <1>1, <1>2, <1>3

LEMMA AnsweredInOrder ==
  ASSUME Answered
  PROVE  VectorsAligned'
<1>1. PICK order \in Order, numbered \in BOOLEAN :
        \E data \in Arrangements(Data(order, numbered)) :
          Return([kind |-> "vectors", numbered |-> numbered,
                  vectors |-> [i \in 1..Inputs |-> data[i].vector]])
  BY DEF Answered
<1>2. PICK data \in Arrangements(Data(order, numbered)) :
        result' = [kind |-> "vectors", numbered |-> numbered,
                   vectors |-> [i \in 1..Inputs |-> data[i].vector]]
  BY <1>1 DEF Return
<1>3. CASE ~numbered  BY <1>2, <1>3 DEF VectorsAligned
<1>4. CASE numbered
  <2>1. PICK p \in Order :
          data = [i \in 1..Inputs |-> Data(order, numbered)[p[i]]]
    BY <1>2 DEF Arrangements
  <2> DEFINE f == [i \in 1..Inputs |-> order[p[i]]]
  <2>2. f \in [1..Inputs -> 1..Inputs]  BY DEF Order
  <2>3. \A i \in 1..Inputs : data[i].vector = f[i] /\ data[i].index = f[i] - 1
    BY <1>4, <2>1 DEF Data, Order
  <2>4. \A i, j \in 1..Inputs : i < j => data[i].index <= data[j].index
    BY <1>2 DEF Arrangements
  <2>5. \A i, j \in 1..Inputs : f[i] = f[j] => i = j  BY DEF Order
  <2> HIDE DEF f
  <2>6. \A i, j \in 1..Inputs : i < j => f[i] < f[j]
    <3> SUFFICES ASSUME NEW i \in 1..Inputs, NEW j \in 1..Inputs, i < j
                 PROVE  f[i] < f[j]
      OBVIOUS
    <3>1. f[i] \in Nat /\ f[j] \in Nat  BY <2>2
    <3>2. f[i] - 1 <= f[j] - 1  BY <2>3, <2>4
    <3>3. f[i] # f[j]  BY <2>5, InputsAssumption
    <3> QED BY <3>1, <3>2, <3>3
  <2>7. \A i \in 1..Inputs : f[i] = i
    BY <2>2, <2>6, InputsAssumption, AscendingIsIdentity
  <2>8. result'.vectors = [i \in 1..Inputs |-> i]
    BY <1>2, <2>3, <2>7
  <2> QED BY <2>8 DEF VectorsAligned
<1> QED BY <1>3, <1>4

LEMMA AlignedStep ==
  ASSUME IInv, VectorsAligned, [Next]_vars
  PROVE  VectorsAligned'
<1>1. CASE result' = result  BY <1>1 DEF VectorsAligned
<1>2. CASE result' = Failed  BY <1>2, FailedType DEF VectorsAligned
<1>3. CASE Answered  BY <1>3, AnsweredInOrder
<1>4. CASE GivesUp  BY <1>1, <1>2, <1>4, GiveUpEffect
<1>5. CASE Exhausted  BY <1>2, <1>5 DEF Exhausted, Return
<1>6. CASE Pick \/ BackoffElapsed \/ Send \/ ContextDone \/ TriesAgain
  BY <1>1, <1>6 DEF Pick, BackoffElapsed, Send, ContextDone, TriesAgain
<1>7. CASE UNCHANGED vars  BY <1>1, <1>7 DEF vars
<1> QED
  BY FailureSteps, <1>3, <1>4, <1>5, <1>6, <1>7 DEF Step

-----------------------------------------------------------------------------
(* Embed() keeps its types: the hook, the errors and the vectors it        *)
(* returns are what embed.go makes of them, and it returns once.           *)
THEOREM TypeCorrect == Spec => []TypeOK
<1>1. IInv => TypeOK  BY DEF IInv
<1> QED BY Invariance, <1>1, PTL

(* The joined error of a failed Embed() has one entry per failed model, in *)
(* order, and none is passed over for an abort of an earlier one.          *)
THEOREM ErrorsNameLegs == Spec => []FailureNamesEveryLeg
<1>1. IInv => FailureNamesEveryLeg  BY DEF IInv, Collected
<1> QED BY Invariance, <1>1, PTL

(* The loop of Embed() around withRetry() implements the policy that the   *)
(* chain implements too.                                                   *)
THEOREM FollowsPolicy == Spec => IsFallback
<1>1. IInv /\ IInv' /\ [Next]_vars => [Policy!Next]_(Policy!policy)
  BY PolicyStep
<1> QED
  BY Invariance, PolicyInit, <1>1, PTL DEF Spec, IsFallback, Policy!Spec

(* Vectors come back in the order of the inputs, in whatever order the     *)
(* provider sends them, as long as it says which is which.                 *)
THEOREM VectorsInOrder == Spec => []VectorsAligned
<1>1. Init => VectorsAligned  BY DEF Init, VectorsAligned
<1>2. IInv /\ VectorsAligned /\ [Next]_vars => VectorsAligned'
  BY AlignedStep
<1> QED BY Invariance, <1>1, <1>2, PTL DEF Spec

=============================================================================
