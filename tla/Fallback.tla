------------------------------ MODULE Fallback ------------------------------
(***************************************************************************)
(* The policy a call promises its caller (README, "Retry and fallback"),   *)
(* as seen from outside: models are taken one after another, a failure     *)
(* worth retrying is retried on its own model and a limited number of      *)
(* times, a failure of one model moves on to the next, a failure of the    *)
(* request itself ends the call, and the call fails only then, or when no  *)
(* model is left, or when the caller or its deadline ended it.             *)
(*                                                                         *)
(* The chain behind Ask and Stream (chain.go) and the loop of Embed        *)
(* (embed.go with retry.go) are two programs for this one policy.          *)
(***************************************************************************)
EXTENDS Naturals

CONSTANT MaxRetries    \* attempts against one model

VARIABLES
  untried,             \* the models not handed out yet
  shuffled,            \* they are handed out in any order
  tries,               \* attempts made against the current model
  verdict,             \* what the last of them calls for, "none" before it
  rushed,              \* something else cuts the model's retries short
  interrupted,         \* the caller or its deadline ended the call
  outcome              \* open, answer or failure

policy == <<untried, shuffled, tries, verdict, outcome>>

(* The current model, if any, is done with.                                *)
MayLeave ==
  \/ verdict = "advance"
  \/ verdict = "retry" /\ (tries = MaxRetries \/ rushed)

MayAttempt ==
  \/ verdict = "none"
  \/ verdict = "retry" /\ tries < MaxRetries

Init ==
  /\ untried \subseteq Nat
  /\ shuffled \in BOOLEAN
  /\ tries = 0
  /\ verdict = "advance"
  /\ outcome = "open"

Pick ==
  /\ outcome = "open" /\ MayLeave
  /\ \E m \in untried :
       /\ shuffled \/ \A n \in untried : m <= n
       /\ untried' = untried \ {m}
  /\ tries' = 0
  /\ verdict' = "none"
  /\ UNCHANGED <<shuffled, outcome>>

(* An abort may end the call at once or with the next step.                *)
Attempt ==
  /\ outcome = "open" /\ MayAttempt
  /\ tries' = tries + 1
  /\ \/ verdict' = "accepted" /\ outcome' = "answer"
     \/ verdict' \in {"retry", "advance"} /\ outcome' = "open"
     \/ verdict' = "abort" /\ outcome' \in {"open", "failure"}
  /\ UNCHANGED <<untried, shuffled>>

Fail ==
  /\ outcome = "open"
  /\ \/ verdict = "abort"
     \/ MayLeave /\ untried = {}
     \/ interrupted
  /\ outcome' = "failure"
  /\ UNCHANGED <<untried, shuffled, tries, verdict>>

Next == Pick \/ Attempt \/ Fail

Spec == Init /\ [][Next]_policy

=============================================================================
