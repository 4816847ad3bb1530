--------------------------- MODULE MC_EventStream ---------------------------
(* A small instance of EventStream: two update payloads, one message that   *)
(* ends a stream with a done event and one that ends it with an error event.*)
EXTENDS EventStream

CONSTANTS u1, u2, answer, failure

MC_Update == {u1, u2}
MC_Message == {answer, failure}
MC_Failure == {failure}
=============================================================================
