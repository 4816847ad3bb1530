------------------------------- MODULE Errors -------------------------------
(***************************************************************************)
(* What went wrong with an attempt and what the client does about it       *)
(* (errors.go).  The kinds of failure are what Classify() and its readers  *)
(* tell apart:                                                             *)
(*   canceled, expired    the call's context is done                       *)
(*   netTimeout           a timeout of the HTTP client or of the dialer,   *)
(*                        which is context.DeadlineExceeded to errors.Is   *)
(*   conn                 any other failure of the connection              *)
(*   Statuses             an answer that is not a success: 400 and 422     *)
(*                        whose body blames the leg or does not, a         *)
(*                        retryable 5xx, one marked x-should-retry: false, *)
(*                        and everything else                              *)
(* and every other name, which describes one leg only.                     *)
(***************************************************************************)

Dispositions == {"retry", "advance", "abort"}

Statuses ==
  {"reject400", "local400", "reject422", "local422", "overloaded",
   "noRetry", "denied"}

Rejected(status) == status \in {"reject400", "reject422"}

(* A body that cannot be read, or is not JSON, blames nothing on the leg.  *)
httpError(status, readable) ==
  CASE ~readable /\ status = "local400" -> "reject400"
    [] ~readable /\ status = "local422" -> "reject422"
    [] OTHER -> status

Classify(err) ==
  CASE err \in {"canceled", "expired", "netTimeout"} -> "abort"
    [] Rejected(err) -> "abort"
    [] err = "overloaded" -> "retry"
    [] OTHER -> "advance"

=============================================================================
