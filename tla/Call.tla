-------------------------------- MODULE Call --------------------------------
(***************************************************************************)
(* A whole call: the chain goroutine of Chain, the event stream it writes  *)
(* to, and the caller at its other end, who either Asks or Streams.  The   *)
(* stream is the channel of Channel.tla, which EventStream is shown to     *)
(* implement: what the chain has logged is what was sent, and latching the *)
(* terminal message seals it.                                              *)
(*                                                                         *)
(* Ask() drains the stream and takes the result.  A caller of Stream() may *)
(* stop reading, Close() and take the result whenever it likes.            *)
(***************************************************************************)
EXTENDS Chain

VARIABLES
  received,      \* the events the caller has taken
  ended,         \* the pump goroutine has gone and Events() is closed
  caller,        \* ranging over Events(), not reading any more, or returned
  closing        \* how far Close() has come: open, cancelled or abandoned

stream == <<received, ended, caller, closing>>
callVars == <<vars, stream>>

(* Sending and sealing are steps of the chain, so Item is not used here.    *)
Chan == INSTANCE Channel WITH
  Item <- {},
  sent <- log, sealed <- (result # NoResult),
  abandoned <- (closing = "abandoned")

CallInit ==
  /\ Init
  /\ received = <<>>
  /\ ended = FALSE
  /\ caller = "ranging"
  /\ closing = "open"

-----------------------------------------------------------------------------
(* The chain pushes and finishes without waiting for anybody.              *)
ChainStep == Next /\ UNCHANGED stream

(* The pump hands an event to a caller that is reading.                    *)
Forward ==
  /\ caller = "ranging"
  /\ UNCHANGED <<vars, caller, closing>>
  /\ Chan!Receive

PumpEnds ==
  /\ UNCHANGED <<vars, caller, closing>>
  /\ Chan!End

StopReading ==
  /\ opts.commit
  /\ caller = "ranging"
  /\ caller' = "stopped"
  /\ UNCHANGED <<vars, received, ended, closing>>

BrokenClose ==                 \* gives the events up and lets the chain run
  /\ opts.commit
  /\ UNCHANGED <<vars, received, ended, caller>>
  /\ \/ closing = "open" /\ closing' = "cancelled"
     \/ closing = "cancelled" /\ closing' = "abandoned" /\ Chan!Abandon

(* Close(): cancel the call's context, unless it is done or gone, then     *)
(* close abandon.                                                          *)
Close ==
  /\ opts.commit
  /\ UNCHANGED <<received, ended, caller>>
  /\ \/ /\ closing = "open" /\ closing' = "cancelled"
        /\ IF ctx = "live" /\ at # "over" THEN Cancel ELSE UNCHANGED vars
     \/ /\ closing = "cancelled" /\ closing' = "abandoned"
        /\ UNCHANGED vars
        /\ Chan!Abandon

(* Result(), after the loop over Events() or instead of it.                *)
Return ==
  /\ result # NoResult
  /\ \/ caller = "ranging" /\ ended
     \/ caller = "stopped"
  /\ caller' = "returned"
  /\ UNCHANGED <<vars, received, ended, closing>>

CallNext ==
  \/ ChainStep
  \/ Forward \/ PumpEnds
  \/ StopReading \/ Close \/ Return

CallSpec == CallInit /\ [][CallNext]_callVars

(* The chain's fairness, the pump is scheduled, a Close() that has begun   *)
(* goes on, and so does a caller in Ask(), or one that ranges until it     *)
(* stops.  Nothing makes a caller of Stream() read, close or return.       *)
CallFairness ==
  /\ Fairness
  /\ WF_callVars(PumpEnds)
  /\ WF_callVars(closing = "cancelled" /\ Close)
  /\ WF_callVars(~opts.commit /\ (Forward \/ Return))

FairCall == CallSpec /\ CallFairness

-----------------------------------------------------------------------------
(* Properties.                                                             *)

IsTerminal(e) == e.kind \in {"done", "error"}

(* The text deltas of an attempt, joined.                                  *)
DeltasOf(events, attempt) ==
  LET Joined[i \in 0..Len(events)] ==
        IF i = 0 THEN <<>>
        ELSE IF events[i].kind = "text_delta" /\ events[i].by = attempt
               THEN Joined[i - 1] \o events[i].delta
               ELSE Joined[i - 1]
  IN  Joined[Len(events)]

(* A caller that ranges to the end of an open stream has the whole story:  *)
(* it began with a start event unless the request was refused, it ended    *)
(* with the only terminal event, and the text deltas of the last attempt,  *)
(* joined, are the answer in the terminal message.  In Stream no other     *)
(* attempt sent any, so forwarding every delta forwards that answer, also  *)
(* when the leg failed in the middle of it.                                *)
ForwardedIsAnswer ==
  (ended /\ closing # "abandoned") =>
    /\ \A i \in 1..Len(received) :
          IsTerminal(received[i]) <=> i = Len(received)
    /\ \A i \in 1..Len(received) :
          received[i].kind = "start" <=> (opts.valid /\ i = 1)
    /\ DeltasOf(received, result.tried) = result.turn.content
    /\ opts.commit =>
         \A i \in 1..Len(received) :
           received[i].kind = "text_delta" => received[i].by = result.tried

(* A call that has a deadline, or whose context is done, ends in a message *)
(* whatever the provider does and whether or not anybody reads, and Ask()  *)
(* returns it.                                                             *)
CallEnds ==
  (opts.timeout \/ ctx # "live") ~>
    (result # NoResult /\ (opts.commit \/ caller = "returned"))

(* Close() ends everything the call has running, chain and pump, with the  *)
(* caller reading or not, before, during or after the answer.              *)
CloseFrees == (closing # "open") ~> (ended /\ result # NoResult)

(* With a leg budget no silent provider pins the chain to its leg.         *)
BudgetUnpins ==
  (opts.budget /\ at = "sending") ~> (at # "sending")

=============================================================================
