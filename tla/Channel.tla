------------------------------ MODULE Channel ------------------------------
(***************************************************************************)
(* What an event stream promises the goroutine that ranges over Events():  *)
(* a lossless, ordered channel of unbounded capacity.  What is sent is     *)
(* received in the order it was sent and at most once; the channel ends    *)
(* when it was sealed and everything was received, or once the consumer    *)
(* has abandoned it, never otherwise.                                      *)
(*                                                                         *)
(* EventStream implements this with a locked queue, a one-slot             *)
(* notification and a pump goroutine.                                      *)
(***************************************************************************)
EXTENDS Naturals, Sequences

CONSTANT Item          \* what may be sent

VARIABLES
  sent,                \* everything sent so far, in order
  received,            \* everything received so far, in order
  sealed,              \* no more sends
  abandoned,           \* the consumer gave up
  ended                \* the receiver sees the channel closed

chan == <<sent, received, sealed, abandoned, ended>>

Init ==
  /\ sent = <<>>
  /\ received = <<>>
  /\ sealed = FALSE
  /\ abandoned = FALSE
  /\ ended = FALSE

Send(e) ==
  /\ ~sealed
  /\ sent' = Append(sent, e)
  /\ UNCHANGED <<received, sealed, abandoned, ended>>

Seal ==
  /\ ~sealed
  /\ sealed' = TRUE
  /\ UNCHANGED <<sent, received, abandoned, ended>>

Receive ==
  /\ ~ended
  /\ Len(received) < Len(sent)
  /\ received' = Append(received, sent[Len(received) + 1])
  /\ UNCHANGED <<sent, sealed, abandoned, ended>>

Abandon ==
  /\ ~abandoned
  /\ abandoned' = TRUE
  /\ UNCHANGED <<sent, received, sealed, ended>>

End ==
  /\ ~ended
  /\ abandoned \/ (sealed /\ Len(received) = Len(sent))
  /\ ended' = TRUE
  /\ UNCHANGED <<sent, received, sealed, abandoned>>

Next ==
  \/ \E e \in Item : Send(e)
  \/ Seal
  \/ Receive
  \/ Abandon
  \/ End

Spec == Init /\ [][Next]_chan

=============================================================================
