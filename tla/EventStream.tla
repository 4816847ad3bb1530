---------------------------- MODULE EventStream ----------------------------
(***************************************************************************)
(* The event stream of one call (smolllm/eventstream.go).  Four goroutines *)
(* meet in it:                                                             *)
(*                                                                         *)
(*   producer  the chain goroutine: push() for every update, finish() for  *)
(*             the terminal message;                                       *)
(*   pump      moves queued events onto the unbuffered events channel;     *)
(*   reader    ranges over Events(), and may stop reading at any time;     *)
(*   closer    calls Close().                                              *)
(*                                                                         *)
(* Any of them, or another, may call Result().  A section under mu is one  *)
(* action; everything else is interleaved: push() releases mu before it    *)
(* wakes the pump, finish() runs in six steps, Close() in two.             *)
(***************************************************************************)
EXTENDS Naturals, Sequences

CONSTANTS
  Update,        \* payloads of the events that do not end a stream
  Message,       \* terminal messages
  Failure,       \* those whose StopReason is error or aborted
  NoMessage,     \* the nil *AssistantMessage
  MaxPush        \* bound: events pushed before finish

ASSUME MessageAssumption ==
  /\ Failure \subseteq Message
  /\ NoMessage \notin Message

ASSUME MaxPushAssumption == MaxPush \in Nat

VARIABLES
  queue,         \* events waiting for the pump, guarded by mu
  inputClosed,   \* closeInput() ran, guarded by mu
  notify,        \* the token in the one-slot notify channel
  producer,      \* where the chain goroutine is in push() or finish()
  finishOnce,    \* finish() has been entered
  result,        \* the latched terminal message
  done,          \* the done channel is closed
  pump,          \* where the pump goroutine is
  held,          \* its local `event`: <<>> or <<e>>
  closing,       \* how far Close() has come
  reader,        \* what the consumer of Events() does
  pushed,        \* history: every event accepted by push()
  delivered,     \* history: every event the reader received
  returned       \* history: every value Result() has returned

vars == <<queue, inputClosed, notify, producer, finishOnce, result, done,
          pump, held, closing, reader, pushed, delivered, returned>>

-----------------------------------------------------------------------------
(* Events: an update, or the terminal event finish() builds.               *)

UpdateEvent(u) == [kind |-> "update", body |-> u]

TerminalEvent(m) ==
  [kind |-> IF m \in Failure THEN "error" ELSE "done", body |-> m]

IsTerminal(e) == e.kind \in {"done", "error"}

Event == [kind : {"update"}, body : Update]
           \cup [kind : {"done", "error"}, body : Message]

abandon == closing = "abandoned"     \* the abandon channel is closed

-----------------------------------------------------------------------------
Init ==
  /\ queue = <<>>
  /\ inputClosed = FALSE
  /\ notify = FALSE
  /\ producer = "running"
  /\ finishOnce = FALSE
  /\ result = NoMessage
  /\ done = FALSE
  /\ pump = "checking"
  /\ held = <<>>
  /\ closing = "open"
  /\ reader = "ranging"
  /\ pushed = <<>>
  /\ delivered = <<>>
  /\ returned = {}

(* "Broken" definitions are the one below them with a plausible bug in it;  *)
(* each shows that some property would notice.                             *)
BrokenEnqueueLate(e) ==        \* does not look at inputClosed
  /\ queue' = Append(queue, e)
  /\ pushed' = Append(pushed, e)
  /\ UNCHANGED inputClosed

(* push(): the locked append.  A push after closeInput() changes nothing.  *)
enqueue(e) ==
  /\ ~inputClosed
  /\ queue' = Append(queue, e)
  /\ pushed' = Append(pushed, e)
  /\ UNCHANGED inputClosed

(* The goroutine moves from one of its steps to another.                   *)
Producer(from, to) == producer = from /\ producer' = to

BrokenPushSilently(u) ==       \* never wakes the pump
  /\ Producer("running", "running")
  /\ Len(pushed) < MaxPush
  /\ enqueue(UpdateEvent(u))
  /\ UNCHANGED <<notify, finishOnce, result, done, pump, held, closing,
                 reader, delivered, returned>>

Push(u) ==
  /\ Producer("running", "waking")
  /\ Len(pushed) < MaxPush
  /\ enqueue(UpdateEvent(u))
  /\ UNCHANGED <<notify, finishOnce, result, done, pump, held, closing,
                 reader, delivered, returned>>

BrokenWakeBlocking ==          \* a plain send, without select
  /\ \/ Producer("waking", "running")
     \/ Producer("terminalWaking", "sealing")
     \/ Producer("sealWaking", "closingDone")
  /\ ~notify /\ notify' = TRUE
  /\ UNCHANGED <<queue, inputClosed, finishOnce, result, done, pump, held,
                 closing, reader, pushed, delivered, returned>>

(* wake(): a non-blocking send, so a token already there is enough.        *)
Wake ==
  /\ \/ Producer("waking", "running")
     \/ Producer("terminalWaking", "sealing")
     \/ Producer("sealWaking", "closingDone")
  /\ notify' = TRUE
  /\ UNCHANGED <<queue, inputClosed, finishOnce, result, done, pump, held,
                 closing, reader, pushed, delivered, returned>>

BrokenLatchAgain(m) ==         \* no finishOnce
  /\ Producer("running", "latched")
  /\ finishOnce' = TRUE
  /\ result' = m
  /\ UNCHANGED <<queue, inputClosed, notify, done, pump, held, closing,
                 reader, pushed, delivered, returned>>

(* finish(): only the first call has any effect.                           *)
Latch(m) ==
  /\ Producer("running", "latched")
  /\ ~finishOnce
  /\ finishOnce' = TRUE
  /\ result' = m
  /\ UNCHANGED <<queue, inputClosed, notify, done, pump, held, closing,
                 reader, pushed, delivered, returned>>

PushTerminal ==
  /\ Producer("latched", "terminalWaking")
  /\ enqueue(TerminalEvent(result))
  /\ UNCHANGED <<notify, finishOnce, result, done, pump, held, closing,
                 reader, delivered, returned>>

BrokenCloseInputSilently ==    \* closeInput() without its wake()
  /\ Producer("sealing", "closingDone")
  /\ inputClosed' = TRUE
  /\ UNCHANGED <<queue, notify, finishOnce, result, done, pump, held,
                 closing, reader, pushed, delivered, returned>>

CloseInput ==
  /\ Producer("sealing", "sealWaking")
  /\ inputClosed' = TRUE
  /\ UNCHANGED <<queue, notify, finishOnce, result, done, pump, held,
                 closing, reader, pushed, delivered, returned>>

CloseDone ==
  /\ Producer("closingDone", "running")
  /\ done' = TRUE
  /\ UNCHANGED <<queue, inputClosed, notify, finishOnce, result, pump, held,
                 closing, reader, pushed, delivered, returned>>

-----------------------------------------------------------------------------
BrokenPumpTakeNewest ==        \* the wrong end of the queue
  /\ pump = "checking"
  /\ queue # <<>>
  /\ held' = <<queue[Len(queue)]>>
  /\ queue' = SubSeq(queue, 1, Len(queue) - 1)
  /\ pump' = "offering"
  /\ UNCHANGED <<inputClosed, notify, producer, finishOnce, result, done,
                 closing, reader, pushed, delivered, returned>>

(* pump(): one locked look at the queue ...                                *)
PumpTake ==
  /\ pump = "checking"
  /\ queue # <<>>
  /\ held' = <<Head(queue)>>
  /\ queue' = Tail(queue)
  /\ pump' = "offering"
  /\ UNCHANGED <<inputClosed, notify, producer, finishOnce, result, done,
                 closing, reader, pushed, delivered, returned>>

BrokenPumpIdleExits ==         \* an empty queue is taken for the end
  /\ pump = "checking"
  /\ queue = <<>>
  /\ pump' = "exited"
  /\ UNCHANGED <<queue, inputClosed, notify, producer, finishOnce, result,
                 done, held, closing, reader, pushed, delivered, returned>>

PumpIdle ==
  /\ pump = "checking"
  /\ queue = <<>>
  /\ pump' = IF inputClosed THEN "exited" ELSE "waiting"
  /\ UNCHANGED <<queue, inputClosed, notify, producer, finishOnce, result,
                 done, held, closing, reader, pushed, delivered, returned>>

(* ... and then one of two selects.                                        *)
PumpNotified ==
  /\ pump = "waiting"
  /\ notify
  /\ notify' = FALSE
  /\ pump' = "checking"
  /\ UNCHANGED <<queue, inputClosed, producer, finishOnce, result, done,
                 held, closing, reader, pushed, delivered, returned>>

BrokenPumpAbandoned ==         \* a bare send instead of the second select
  /\ pump = "waiting"
  /\ abandon
  /\ pump' = "exited"
  /\ UNCHANGED <<queue, inputClosed, notify, producer, finishOnce, result,
                 done, held, closing, reader, pushed, delivered, returned>>

PumpAbandoned ==
  /\ pump \in {"waiting", "offering"}
  /\ abandon
  /\ pump' = "exited"
  /\ UNCHANGED <<queue, inputClosed, notify, producer, finishOnce, result,
                 done, held, closing, reader, pushed, delivered, returned>>

BrokenDeliverAgain ==          \* offers the event it has just delivered
  /\ pump = "offering"
  /\ reader = "ranging"
  /\ delivered' = Append(delivered, Head(held))
  /\ pump' = "checking"
  /\ UNCHANGED <<queue, inputClosed, notify, producer, finishOnce, result,
                 done, held, closing, reader, pushed, returned>>

(* The events channel has no buffer: handing over needs a reader.          *)
Deliver ==
  /\ pump = "offering"
  /\ reader = "ranging"
  /\ delivered' = Append(delivered, Head(held))
  /\ held' = <<>>
  /\ pump' = "checking"
  /\ UNCHANGED <<queue, inputClosed, notify, producer, finishOnce, result,
                 done, closing, reader, pushed, returned>>

-----------------------------------------------------------------------------
(* The caller's side.                                                      *)

ReaderStops ==
  /\ reader = "ranging"
  /\ reader' = "stopped"
  /\ UNCHANGED <<queue, inputClosed, notify, producer, finishOnce, result,
                 done, pump, held, closing, pushed, delivered, returned>>

(* pump() closes the events channel as it returns, ending a range over it. *)
ReaderEnds ==
  /\ reader = "ranging"
  /\ pump = "exited"
  /\ reader' = "over"
  /\ UNCHANGED <<queue, inputClosed, notify, producer, finishOnce, result,
                 done, pump, held, closing, pushed, delivered, returned>>

BrokenResultEarly ==           \* does not wait for done
  /\ returned' = returned \cup {result}
  /\ UNCHANGED <<queue, inputClosed, notify, producer, finishOnce, result,
                 done, pump, held, closing, reader, pushed, delivered>>

Result ==
  /\ done
  /\ returned' = returned \cup {result}
  /\ UNCHANGED <<queue, inputClosed, notify, producer, finishOnce, result,
                 done, pump, held, closing, reader, pushed, delivered>>

(* Close(): the first call cancels the call's context, then closes abandon. *)
Close ==
  /\ \/ closing = "open" /\ closing' = "cancelled"
     \/ closing = "cancelled" /\ closing' = "abandoned"
  /\ UNCHANGED <<queue, inputClosed, notify, producer, finishOnce, result,
                 done, pump, held, reader, pushed, delivered, returned>>

-----------------------------------------------------------------------------
Finish == \E m \in Message : Latch(m)
FinishStep == PushTerminal \/ CloseInput \/ CloseDone \/ Wake
PumpStep == PumpTake \/ PumpIdle \/ PumpNotified \/ PumpAbandoned

Next ==
  \/ \E u \in Update : Push(u)
  \/ Finish
  \/ FinishStep
  \/ PumpStep
  \/ Deliver
  \/ ReaderStops
  \/ ReaderEnds
  \/ Result
  \/ Close

Spec == Init /\ [][Next]_vars

(* The goroutine that runs the chain is never stopped by the scheduler, and *)
(* the chain does end its stream.                                          *)
ProducerFairness == WF_vars(Finish) /\ WF_vars(FinishStep)

(* The same for the pump, a reader that has not stopped reading, and a     *)
(* Close() that has begun.                                                 *)
ConsumerFairness ==
  /\ WF_vars(PumpStep)
  /\ WF_vars(Deliver)
  /\ WF_vars(ReaderEnds)
  /\ WF_vars(closing = "cancelled" /\ Close)

FairSpec == Spec /\ ProducerFairness

-----------------------------------------------------------------------------
(* Properties.                                                             *)

Producers == {"running", "waking", "latched", "terminalWaking", "sealing",
              "sealWaking", "closingDone"}

(* The values the fields of EventStream and the goroutines' locals take.   *)
TypeOK ==
  /\ queue \in Seq(Event) /\ pushed \in Seq(Event) /\ delivered \in Seq(Event)
  /\ held \in Seq(Event)
  /\ Len(held) <= 1
  /\ pump = "offering" => Len(held) = 1
  /\ pump \in {"checking", "waiting"} => Len(held) = 0
  /\ inputClosed \in BOOLEAN /\ notify \in BOOLEAN
  /\ finishOnce \in BOOLEAN /\ done \in BOOLEAN
  /\ producer \in Producers
  /\ result \in Message \cup {NoMessage}
  /\ pump \in {"checking", "waiting", "offering", "exited"}
  /\ closing \in {"open", "cancelled", "abandoned"}
  /\ reader \in {"ranging", "stopped", "over"}
  /\ returned \subseteq Message \cup {NoMessage}

(* pump() loses, repeats and reorders nothing: at every moment, whatever   *)
(* the four goroutines are doing, what was pushed is what was delivered,   *)
(* then the event pump() holds, then the queue.                            *)
InOrder ==
  /\ Len(pushed) = Len(delivered) + Len(held) + Len(queue)
  /\ \A i \in 1..Len(delivered) : delivered[i] = pushed[i]
  /\ \A i \in 1..Len(held) : held[i] = pushed[Len(delivered) + i]
  /\ \A i \in 1..Len(queue) :
        queue[i] = pushed[Len(delivered) + Len(held) + i]

(* A stream carries at most one terminal event and nothing after it; once  *)
(* input is closed the last event is the terminal one, and its message is  *)
(* the one Result() returns.                                               *)
TerminalLast ==
  /\ \A i \in 1..Len(pushed) : IsTerminal(pushed[i]) => i = Len(pushed)
  /\ inputClosed =>
       /\ Len(pushed) > 0
       /\ pushed[Len(pushed)] = TerminalEvent(result)

(* The pump never sleeps through an event: when it waits for notify while  *)
(* there is something for it to do, the token is already there or the      *)
(* producer is on its way to wake().                                       *)
NoLostWakeup ==
  (pump = "waiting" /\ (queue # <<>> \/ inputClosed)) =>
    notify \/ producer \in {"waking", "terminalWaking", "sealWaking"}

(* Events() closes under a consumer only once the terminal event has been  *)
(* delivered, or once the stream is closed (the doc of Events).            *)
ClosesAfterTerminal ==
  (pump = "exited" /\ ~abandon) =>
    /\ Len(delivered) = Len(pushed) /\ Len(delivered) > 0
    /\ IsTerminal(delivered[Len(delivered)])

(* Result() never returns nil and always returns the same message, the one *)
(* the terminal event carries, however many callers wait and whenever.     *)
ResultSettled ==
  /\ done => result \in Message
  /\ returned \subseteq {result}
  /\ (returned # {}) => TerminalEvent(result) = pushed[Len(pushed)]

(* Close() before, during or after the end of the call never takes the     *)
(* latched message back, and nothing is queued once done is closed.        *)
LatchedForGood ==
  [][done => /\ done' /\ result' = result /\ pushed' = pushed]_vars

(* Seen through its history the stream is a lossless ordered channel that  *)
(* ends when it must and only then.                                        *)
Chan == INSTANCE Channel WITH
  Item <- Event, sent <- pushed, received <- delivered,
  sealed <- inputClosed, abandoned <- abandon, ended <- (pump = "exited")

IsChannel == Chan!Spec

(* push() and finish() never wait for a consumer: with nobody reading,     *)
(* nobody calling Close() and the pump itself never scheduled, the chain   *)
(* gets out of them, and Result() does not block.                          *)
ProducerNeverStalls ==
  /\ (producer # "running") ~> (producer = "running")
  /\ <>done

(* A consumer that keeps ranging reaches the end of the stream.            *)
RangeTerminates ==
  ConsumerFairness =>
    ((finishOnce /\ reader = "ranging") ~> (reader # "ranging"))

(* Close() releases the pump goroutine even when nobody reads any more.    *)
CloseReleasesPump ==
  ConsumerFairness => ((closing # "open") ~> (pump = "exited"))

=============================================================================
