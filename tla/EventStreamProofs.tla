------------------------- MODULE EventStreamProofs -------------------------
(***************************************************************************)
(* Theorems about EventStream for every set of updates and messages and    *)
(* every MaxPush.  One inductive invariant, IInv, carries the safety       *)
(* properties and the refinement of Channel.                               *)
(***************************************************************************)
EXTENDS EventStream, TLAPS

-----------------------------------------------------------------------------
(* The inductive invariant.                                                *)

Finishing ==
  {"latched", "terminalWaking", "sealing", "sealWaking", "closingDone"}

(* How far finish() has come decides what is latched, closed and done.     *)
FinishPhase ==
  /\ finishOnce => result \in Message
  /\ producer \in Finishing => finishOnce
  /\ producer = "waking" => ~finishOnce
  /\ done => inputClosed /\ producer = "running"
  /\ inputClosed => (done \/ producer \in {"sealWaking", "closingDone"})
  /\ producer \in {"sealWaking", "closingDone"} => inputClosed
  /\ (finishOnce /\ producer = "running") => done
  /\ (done \/ inputClosed) => finishOnce

(* The terminal event is in the queue from finish()'s push on.             *)
terminalPushed == inputClosed \/ producer \in {"terminalWaking", "sealing"}

TerminalPlace ==
  /\ terminalPushed => /\ Len(pushed) > 0
                       /\ pushed[Len(pushed)] = TerminalEvent(result)
  /\ \A i \in 1..Len(pushed) :
        IsTerminal(pushed[i]) => terminalPushed /\ i = Len(pushed)

(* The pump goes away drained, unless it was told to abandon.              *)
ExitsDrained ==
  (pump = "exited" /\ ~abandon) =>
    inputClosed /\ Len(queue) = 0 /\ Len(held) = 0

ReturnedAfterDone == returned \subseteq {result} /\ (returned # {} => done)

IInv ==
  /\ TypeOK
  /\ FinishPhase
  /\ InOrder
  /\ TerminalPlace
  /\ NoLostWakeup
  /\ ExitsDrained
  /\ ReturnedAfterDone


-----------------------------------------------------------------------------
(* The events the producer queues are events.                              *)
LEMMA EventTypes ==
  /\ \A u \in Update : UpdateEvent(u) \in Event
  /\ \A m \in Message : TerminalEvent(m) \in Event
  /\ \A u \in Update : ~IsTerminal(UpdateEvent(u))
  /\ \A m \in Message : IsTerminal(TerminalEvent(m))
BY DEF Event, UpdateEvent, TerminalEvent, IsTerminal

LEMMA InitIInv == Init => IInv
<1> SUFFICES ASSUME Init PROVE IInv
  OBVIOUS
<1>1. TypeOK
  <2>1. /\ queue \in Seq(Event) /\ pushed \in Seq(Event)
        /\ delivered \in Seq(Event)
    BY DEF Init
  <2>2. held \in Seq(Event) /\ Len(held) = 0
    BY DEF Init
  <2>3. /\ result \in Message \cup {NoMessage}
        /\ returned \subseteq Message \cup {NoMessage}
    BY DEF Init
  <2>4. /\ inputClosed \in BOOLEAN /\ notify \in BOOLEAN
        /\ finishOnce \in BOOLEAN /\ done \in BOOLEAN
        /\ producer \in Producers /\ pump = "checking"
        /\ closing = "open" /\ reader = "ranging"
    BY DEF Init, Producers
  <2>5. QED
    BY <2>1, <2>2, <2>3, <2>4 DEF TypeOK
<1>2. FinishPhase
  BY DEF Init, FinishPhase, Finishing
<1>3. InOrder
  BY DEF Init, InOrder
<1>4. TerminalPlace
  BY DEF Init, TerminalPlace, terminalPushed
<1>5. NoLostWakeup /\ ExitsDrained /\ ReturnedAfterDone
  BY DEF Init, NoLostWakeup, ExitsDrained, ReturnedAfterDone, abandon
<1>6. QED
  BY <1>1, <1>2, <1>3, <1>4, <1>5 DEF IInv

(* Every step keeps the types.                                             *)
LEMMA TypeStep == IInv /\ [Next]_vars => TypeOK'
<1> SUFFICES ASSUME IInv, [Next]_vars PROVE TypeOK'
  OBVIOUS
<1> USE DEF IInv
<1>1. ASSUME NEW u \in Update, Push(u) PROVE TypeOK'
  BY <1>1, EventTypes DEF Push, enqueue, Producer, TypeOK, Producers
<1>2. ASSUME NEW m \in Message, Latch(m) PROVE TypeOK'
  BY <1>2 DEF Latch, Producer, TypeOK, Producers
<1>3. CASE Wake
  BY <1>3 DEF Wake, Producer, TypeOK, Producers
<1>4. CASE PushTerminal
  BY <1>4, EventTypes DEF PushTerminal, enqueue, Producer, FinishPhase, Finishing, TypeOK, Producers
<1>5. CASE CloseInput
  BY <1>5 DEF CloseInput, Producer, TypeOK, Producers
<1>6. CASE CloseDone
  BY <1>6 DEF CloseDone, Producer, TypeOK, Producers
<1>7. CASE PumpTake
  BY <1>7 DEF PumpTake, TypeOK, Producers
<1>8. CASE PumpIdle
  BY <1>8 DEF PumpIdle, TypeOK, Producers
<1>9. CASE PumpNotified
  BY <1>9 DEF PumpNotified, TypeOK, Producers
<1>10. CASE PumpAbandoned
  BY <1>10 DEF PumpAbandoned, TypeOK, Producers
<1>11. CASE Deliver
  <2>1. Len(held) = 1 /\ held \in Seq(Event) /\ delivered \in Seq(Event)
    BY <1>11 DEF Deliver, TypeOK
  <2>2. delivered' \in Seq(Event)
    <3>1. Head(held) \in Event
      BY <2>1
    <3>2. delivered' = Append(delivered, Head(held))
      BY <1>11 DEF Deliver
    <3>3. QED
      BY <2>1, <3>1, <3>2
  <2>3. held' \in Seq(Event) /\ Len(held') = 0 /\ pump' = "checking"
    BY <1>11 DEF Deliver
  <2>4. /\ queue' \in Seq(Event) /\ pushed' \in Seq(Event)
        /\ inputClosed' \in BOOLEAN /\ notify' \in BOOLEAN
        /\ finishOnce' \in BOOLEAN /\ done' \in BOOLEAN
        /\ producer' \in Producers
        /\ result' \in Message \cup {NoMessage}
        /\ closing' \in {"open", "cancelled", "abandoned"}
        /\ reader' \in {"ranging", "stopped", "over"}
        /\ returned' \subseteq Message \cup {NoMessage}
    BY <1>11 DEF Deliver, TypeOK
  <2>5. QED
    BY <2>2, <2>3, <2>4 DEF TypeOK
<1>12. CASE ReaderStops
  BY <1>12 DEF ReaderStops, TypeOK, Producers
<1>13. CASE ReaderEnds
  BY <1>13 DEF ReaderEnds, TypeOK, Producers
<1>14. CASE Result
  BY <1>14 DEF Result, TypeOK, Producers
<1>15. CASE Close
  BY <1>15 DEF Close, TypeOK, Producers
<1>16. CASE UNCHANGED vars
  BY <1>16 DEF vars, TypeOK
<1>17. QED
  BY <1>1, <1>2, <1>3, <1>4, <1>5, <1>6, <1>7, <1>8, <1>9, <1>10, <1>11, <1>12, <1>13, <1>14, <1>15, <1>16
     DEF Next, Finish, FinishStep, PumpStep


(* finish() runs its steps once and in their order.                       *)
LEMMA PhaseStep == IInv /\ [Next]_vars => FinishPhase'
<1> SUFFICES ASSUME IInv, [Next]_vars PROVE FinishPhase'
  OBVIOUS
<1>1. ASSUME NEW u \in Update, Push(u) PROVE FinishPhase'
  BY <1>1 DEF Push, enqueue, Producer, IInv, TypeOK, FinishPhase, Finishing
<1>2. ASSUME NEW m \in Message, Latch(m) PROVE FinishPhase'
  BY <1>2 DEF Latch, Producer, IInv, TypeOK, FinishPhase, Finishing
<1>3. CASE Wake
  BY <1>3 DEF Wake, Producer, IInv, TypeOK, FinishPhase, Finishing
<1>4. CASE CloseInput
  BY <1>4 DEF CloseInput, Producer, IInv, TypeOK, FinishPhase, Finishing
<1>5. CASE CloseDone
  BY <1>5 DEF CloseDone, Producer, IInv, TypeOK, FinishPhase, Finishing
<1>6. CASE PushTerminal
  BY <1>6 DEF PushTerminal, enqueue, Producer, IInv, TypeOK, FinishPhase, Finishing
<1>7. CASE UNCHANGED <<finishOnce, result, producer, done, inputClosed>>
  BY <1>7 DEF IInv, FinishPhase
<1>8. QED
  BY <1>1, <1>2, <1>3, <1>4, <1>5, <1>6, <1>7
     DEF Next, Finish, FinishStep, PumpStep, PumpTake, PumpIdle, PumpNotified, PumpAbandoned, Deliver, ReaderStops, ReaderEnds, Result, Close, vars

(* Whoever gives the pump something to do is on its way to wake().         *)
LEMMA WakeupStep == IInv /\ [Next]_vars => NoLostWakeup'
<1> SUFFICES ASSUME IInv, [Next]_vars PROVE NoLostWakeup'
  OBVIOUS
<1>1. ASSUME NEW u \in Update, Push(u) PROVE NoLostWakeup'
  BY <1>1 DEF Push, enqueue, Producer, IInv, NoLostWakeup, TypeOK
<1>2. ASSUME NEW m \in Message, Latch(m) PROVE NoLostWakeup'
  BY <1>2 DEF Latch, Producer, IInv, NoLostWakeup, TypeOK
<1>3. CASE Wake
  BY <1>3 DEF Wake, Producer, IInv, NoLostWakeup, TypeOK
<1>4. CASE CloseInput
  BY <1>4 DEF CloseInput, Producer, IInv, NoLostWakeup, TypeOK
<1>5. CASE CloseDone
  BY <1>5 DEF CloseDone, Producer, IInv, NoLostWakeup, TypeOK
<1>6. CASE PushTerminal
  BY <1>6 DEF PushTerminal, enqueue, Producer, IInv, NoLostWakeup, TypeOK
<1>7. CASE PumpTake
  BY <1>7 DEF PumpTake, IInv, NoLostWakeup, TypeOK
<1>8. CASE PumpIdle
  BY <1>8 DEF PumpIdle, IInv, NoLostWakeup, TypeOK
<1>9. CASE PumpNotified
  BY <1>9 DEF PumpNotified, IInv, NoLostWakeup, TypeOK
<1>10. CASE PumpAbandoned
  BY <1>10 DEF PumpAbandoned, IInv, NoLostWakeup, TypeOK
<1>11. CASE Deliver
  BY <1>11 DEF Deliver, IInv, NoLostWakeup, TypeOK
<1>12. CASE UNCHANGED <<pump, queue, inputClosed, notify, producer>>
  BY <1>12 DEF IInv, NoLostWakeup
<1>13. QED
  BY <1>1, <1>2, <1>3, <1>4, <1>5, <1>6, <1>7, <1>8, <1>9, <1>10, <1>11, <1>12
     DEF Next, Finish, FinishStep, PumpStep, ReaderStops, ReaderEnds, Result, Close, vars

(* The pump exits drained: the queue cannot grow once input is closed.     *)
LEMMA DrainStep == IInv /\ [Next]_vars => ExitsDrained'
<1> SUFFICES ASSUME IInv, [Next]_vars PROVE ExitsDrained'
  OBVIOUS
<1>1. ASSUME NEW u \in Update, Push(u) PROVE ExitsDrained'
  BY <1>1 DEF Push, enqueue, Producer, IInv, ExitsDrained, TypeOK, abandon
<1>2. CASE PushTerminal
  BY <1>2 DEF PushTerminal, enqueue, Producer, abandon, IInv, ExitsDrained, TypeOK
<1>3. CASE CloseInput
  BY <1>3 DEF CloseInput, abandon, IInv, ExitsDrained, TypeOK
<1>4. CASE PumpTake
  BY <1>4 DEF PumpTake, abandon, IInv, ExitsDrained, TypeOK
<1>5. CASE PumpIdle
  BY <1>5 DEF PumpIdle, abandon, IInv, ExitsDrained, TypeOK
<1>6. CASE PumpNotified
  BY <1>6 DEF PumpNotified, abandon, IInv, ExitsDrained, TypeOK
<1>7. CASE PumpAbandoned
  BY <1>7 DEF PumpAbandoned, abandon, IInv, ExitsDrained, TypeOK
<1>8. CASE Deliver
  BY <1>8 DEF Deliver, abandon, IInv, ExitsDrained, TypeOK
<1>9. CASE Close
  BY <1>9 DEF Close, abandon, IInv, ExitsDrained, TypeOK
<1>10. CASE UNCHANGED <<pump, closing, inputClosed, queue, held>>
  BY <1>10 DEF IInv, ExitsDrained, abandon
<1>11. QED
  BY <1>1, <1>2, <1>3, <1>4, <1>5, <1>6, <1>7, <1>8, <1>9, <1>10
     DEF Next, Finish, FinishStep, PumpStep, Latch, Producer, Wake, CloseDone, ReaderStops, ReaderEnds, Result, vars

(* Result() returns after the latch, and the latch does not move.          *)
LEMMA ReturnedStep == IInv /\ [Next]_vars => ReturnedAfterDone'
<1> SUFFICES ASSUME IInv, [Next]_vars PROVE ReturnedAfterDone'
  OBVIOUS
<1>1. ASSUME NEW m \in Message, Latch(m) PROVE ReturnedAfterDone'
  BY <1>1 DEF Latch, Producer, IInv, ReturnedAfterDone, FinishPhase
<1>2. CASE CloseDone
  BY <1>2 DEF CloseDone, IInv, ReturnedAfterDone, FinishPhase
<1>3. CASE Result
  BY <1>3 DEF Result, IInv, ReturnedAfterDone, FinishPhase
<1>4. CASE UNCHANGED <<returned, result, done>>
  BY <1>4 DEF IInv, ReturnedAfterDone
<1>5. QED
  BY <1>1, <1>2, <1>3, <1>4
     DEF Next, Finish, FinishStep, PumpStep, Push, enqueue, Producer, Wake, PushTerminal, CloseInput, PumpTake, PumpIdle, PumpNotified, PumpAbandoned, Deliver, ReaderStops, ReaderEnds, Close, vars


(* What append does to a sequence, position by position.                   *)
LEMMA AppendAt ==
  ASSUME NEW S, NEW s \in Seq(S), NEW e \in S
  PROVE  /\ Append(s, e) \in Seq(S)
         /\ Len(Append(s, e)) = Len(s) + 1
         /\ \A i \in 1..Len(s) : Append(s, e)[i] = s[i]
         /\ Append(s, e)[Len(s) + 1] = e
OBVIOUS

(* Taking the head of a sequence: its tail is what follows.                *)
LEMMA TailAt ==
  ASSUME NEW S, NEW s \in Seq(S), s # <<>>
  PROVE  /\ Tail(s) \in Seq(S)
         /\ Len(s) \in Nat /\ Len(s) > 0
         /\ Len(Tail(s)) = Len(s) - 1
         /\ \A i \in 1..(Len(s) - 1) : Tail(s)[i] = s[i + 1]
         /\ Head(s) = s[1] /\ Head(s) \in S
OBVIOUS

(* An append under mu extends what was pushed and the queue alike.         *)
LEMMA EnqueueOrder ==
  ASSUME IInv, NEW e \in Event, enqueue(e), UNCHANGED <<held, delivered>>
  PROVE  InOrder'
<1>1. /\ queue \in Seq(Event) /\ pushed \in Seq(Event) /\ InOrder
      /\ delivered \in Seq(Event) /\ held \in Seq(Event)
  BY DEF IInv, TypeOK
<1>2. /\ queue' = Append(queue, e) /\ pushed' = Append(pushed, e)
      /\ held' = held /\ delivered' = delivered
  BY DEF enqueue
<1>3. /\ Len(pushed') = Len(pushed) + 1 /\ Len(queue') = Len(queue) + 1
      /\ pushed'[Len(pushed) + 1] = e /\ queue'[Len(queue) + 1] = e
      /\ \A i \in 1..Len(pushed) : pushed'[i] = pushed[i]
      /\ \A i \in 1..Len(queue) : queue'[i] = queue[i]
  BY <1>1, <1>2, AppendAt
<1>4. /\ Len(pushed) \in Nat /\ Len(queue) \in Nat
      /\ Len(held) \in Nat /\ Len(delivered) \in Nat
  BY <1>1
<1>5. Len(pushed') = Len(delivered') + Len(held') + Len(queue')
  BY <1>1, <1>2, <1>3, <1>4 DEF InOrder
<1>6. \A i \in 1..Len(delivered') : delivered'[i] = pushed'[i]
  BY <1>1, <1>2, <1>3, <1>4 DEF InOrder
<1>7. ASSUME NEW i \in 1..Len(held')
      PROVE  held'[i] = pushed'[Len(delivered') + i]
  <2>1. i \in 1..Len(held) /\ Len(delivered) + i \in 1..Len(pushed)
    BY <1>1, <1>2, <1>4 DEF InOrder
  <2>2. held[i] = pushed[Len(delivered) + i]
    BY <1>1, <2>1 DEF InOrder
  <2>3. pushed'[Len(delivered) + i] = pushed[Len(delivered) + i]
    BY <1>3, <2>1
  <2>4. QED
    BY <1>2, <2>2, <2>3
<1>8. ASSUME NEW i \in 1..Len(queue')
      PROVE  queue'[i] = pushed'[Len(delivered') + Len(held') + i]
  <2>1. CASE i = Len(queue) + 1
    <3>1. Len(delivered) + Len(held) + i = Len(pushed) + 1
      BY <1>1, <1>4, <2>1 DEF InOrder
    <3>2. QED
      BY <1>2, <1>3, <2>1, <3>1
  <2>2. CASE i \in 1..Len(queue)
    <3>1. Len(delivered) + Len(held) + i \in 1..Len(pushed)
      BY <1>1, <1>4, <2>2 DEF InOrder
    <3>2. queue[i] = pushed[Len(delivered) + Len(held) + i]
      BY <1>1, <2>2 DEF InOrder
    <3>3. QED
      BY <1>2, <1>3, <2>2, <3>1, <3>2
  <2>3. QED
    BY <1>3, <1>4, <2>1, <2>2
<1>9. QED
  BY <1>5, <1>6, <1>7, <1>8 DEF InOrder

(* No step loses, repeats or reorders an event.                            *)
LEMMA OrderStep == IInv /\ [Next]_vars => InOrder'
<1> SUFFICES ASSUME IInv, [Next]_vars PROVE InOrder'
  OBVIOUS
<1>1. ASSUME NEW u \in Update, Push(u) PROVE InOrder'
  BY <1>1, EventTypes, EnqueueOrder DEF Push
<1>2. CASE PushTerminal
  <2>1. TerminalEvent(result) \in Event
    BY <1>2, EventTypes DEF PushTerminal, Producer, IInv, FinishPhase, Finishing
  <2>2. QED
    BY <1>2, <2>1, EnqueueOrder DEF PushTerminal
<1>3. CASE PumpTake
  <2>1. /\ queue \in Seq(Event) /\ queue # <<>> /\ InOrder
        /\ delivered \in Seq(Event) /\ Len(held) = 0
    BY <1>3 DEF PumpTake, IInv, TypeOK
  <2>2. /\ held' = <<Head(queue)>> /\ queue' = Tail(queue)
        /\ pushed' = pushed /\ delivered' = delivered
    BY <1>3 DEF PumpTake
  <2>3. /\ Len(queue) \in Nat /\ Len(queue) > 0 /\ Head(queue) = queue[1]
        /\ Len(Tail(queue)) = Len(queue) - 1
        /\ \A i \in 1..(Len(queue) - 1) : Tail(queue)[i] = queue[i + 1]
    BY <2>1, TailAt
  <2>4. Len(held') = 1 /\ held'[1] = queue[1]
    BY <2>2, <2>3
  <2>5. Len(delivered) \in Nat /\ Len(queue') = Len(queue) - 1
    BY <2>1, <2>2, <2>3
  <2>6. Len(pushed') = Len(delivered') + Len(held') + Len(queue')
    <3>1. Len(pushed) = Len(delivered) + Len(queue)
      BY <2>1, <2>3, <2>5 DEF InOrder
    <3>2. Len(pushed') = Len(pushed) /\ Len(delivered') = Len(delivered)
      BY <2>2
    <3>3. /\ Len(held') = 1 /\ Len(queue) \in Nat
          /\ Len(queue') = Len(queue) - 1
      BY <2>3, <2>4, <2>5
    <3>4. QED
      BY <2>5, <3>1, <3>2, <3>3
  <2>7. \A i \in 1..Len(delivered') : delivered'[i] = pushed'[i]
    BY <2>1, <2>2 DEF InOrder
  <2>8. ASSUME NEW i \in 1..Len(held')
        PROVE  held'[i] = pushed'[Len(delivered') + i]
    <3>1. i = 1
      BY <2>4
    <3>2. queue[1] = pushed[Len(delivered) + Len(held) + 1]
      BY <2>1, <2>3 DEF InOrder
    <3>3. QED
      BY <2>1, <2>2, <2>4, <2>5, <3>1, <3>2
  <2>9. ASSUME NEW i \in 1..Len(queue')
        PROVE  queue'[i] = pushed'[Len(delivered') + Len(held') + i]
    <3>1. i + 1 \in 1..Len(queue) /\ i \in 1..(Len(queue) - 1)
      BY <2>3, <2>5
    <3>2. queue'[i] = queue[i + 1]
      BY <2>2, <2>3, <3>1
    <3>3. queue[i + 1] = pushed[Len(delivered) + Len(held) + (i + 1)]
      BY <2>1, <3>1 DEF InOrder
    <3>4. Len(delivered) + Len(held) + (i + 1) = Len(delivered) + 1 + i
      BY <2>1, <2>5, <3>1
    <3>5. QED
      BY <2>2, <2>4, <3>2, <3>3, <3>4
  <2>10. QED
    BY <2>6, <2>7, <2>8, <2>9, Zenon DEF InOrder
<1>4. CASE Deliver
  <2>1. /\ queue \in Seq(Event) /\ pushed \in Seq(Event) /\ InOrder
        /\ delivered \in Seq(Event) /\ held \in Seq(Event) /\ Len(held) = 1
    BY <1>4 DEF Deliver, IInv, TypeOK
  <2>2. /\ delivered' = Append(delivered, Head(held)) /\ held' = <<>>
        /\ pushed' = pushed /\ queue' = queue
    BY <1>4 DEF Deliver
  <2>3. Head(held) \in Event /\ Head(held) = held[1] /\ Len(held') = 0
    <3>1. held # <<>>
      <4>1. Len(<<>>) = 0 /\ 0 # 1
        OBVIOUS
      <4>2. QED
        BY <2>1, <4>1, Zenon
    <3>2. Head(held) \in Event /\ Head(held) = held[1]
      BY <2>1, <3>1, TailAt
    <3>3. QED
      BY <2>2, <3>2
  <2>4. /\ Len(delivered) \in Nat /\ Len(delivered') = Len(delivered) + 1
        /\ delivered'[Len(delivered) + 1] = held[1]
        /\ \A i \in 1..Len(delivered) : delivered'[i] = delivered[i]
    BY <2>1, <2>2, <2>3, AppendAt
  <2>5. QED
    BY <2>1, <2>2, <2>3, <2>4 DEF InOrder
<1>5. CASE UNCHANGED <<pushed, queue, held, delivered>>
  BY <1>5 DEF IInv, InOrder
<1>6. QED
  BY <1>1, <1>2, <1>3, <1>4, <1>5
     DEF Next, Finish, FinishStep, PumpStep, Latch, Wake, CloseInput,
         CloseDone, PumpIdle, PumpNotified, PumpAbandoned, ReaderStops,
         ReaderEnds, Result, Close, vars

(* The terminal event goes in last, and nothing is accepted after it.      *)
LEMMA TerminalStep == IInv /\ [Next]_vars => TerminalPlace'
<1> SUFFICES ASSUME IInv, [Next]_vars PROVE TerminalPlace'
  OBVIOUS
<1>0. /\ pushed \in Seq(Event) /\ Len(pushed) \in Nat
      /\ TerminalPlace /\ FinishPhase
  BY DEF IInv, TypeOK
<1>1. ASSUME NEW u \in Update, Push(u) PROVE TerminalPlace'
  <2>1. /\ ~terminalPushed /\ ~terminalPushed'
        /\ pushed' = Append(pushed, UpdateEvent(u))
    BY <1>1 DEF Push, Producer, enqueue, terminalPushed
  <2>2. UpdateEvent(u) \in Event /\ ~IsTerminal(UpdateEvent(u))
    BY EventTypes
  <2>3. /\ Len(pushed') = Len(pushed) + 1
        /\ pushed'[Len(pushed) + 1] = UpdateEvent(u)
        /\ \A i \in 1..Len(pushed) : pushed'[i] = pushed[i]
    BY <1>0, <2>1, <2>2, AppendAt
  <2>4. \A i \in 1..Len(pushed') : ~IsTerminal(pushed'[i])
    BY <1>0, <2>1, <2>2, <2>3 DEF TerminalPlace
  <2>5. QED
    BY <2>1, <2>4 DEF TerminalPlace, IsTerminal
<1>2. CASE PushTerminal
  <2>1. /\ ~terminalPushed /\ terminalPushed' /\ result' = result
        /\ pushed' = Append(pushed, TerminalEvent(result))
        /\ result \in Message
    BY <1>0, <1>2 DEF PushTerminal, Producer, enqueue, terminalPushed,
                      FinishPhase, Finishing
  <2>2. TerminalEvent(result) \in Event
    BY <2>1, EventTypes
  <2>3. /\ Len(pushed') = Len(pushed) + 1
        /\ pushed'[Len(pushed) + 1] = TerminalEvent(result)
        /\ \A i \in 1..Len(pushed) : pushed'[i] = pushed[i]
    BY <1>0, <2>1, <2>2, AppendAt
  <2>4. \A i \in 1..Len(pushed) : ~IsTerminal(pushed'[i])
    BY <1>0, <2>1, <2>3 DEF TerminalPlace
  <2>5. \A i \in 1..Len(pushed') : IsTerminal(pushed'[i]) => i = Len(pushed')
    BY <1>0, <2>3, <2>4
  <2>6. TerminalEvent(result') = TerminalEvent(result)
    BY <2>1
  <2>7. QED
    BY <1>0, <2>1, <2>3, <2>5, <2>6 DEF TerminalPlace, IsTerminal
<1>3. ASSUME NEW m \in Message, Latch(m) PROVE TerminalPlace'
  <2>1. ~terminalPushed /\ ~terminalPushed' /\ pushed' = pushed
    BY <1>0, <1>3 DEF Latch, Producer, terminalPushed, FinishPhase
  <2>2. QED
    BY <1>0, <2>1 DEF TerminalPlace, IsTerminal
<1>4. CASE Wake \/ CloseInput \/ CloseDone
  <2>1. /\ terminalPushed' = terminalPushed
        /\ pushed' = pushed /\ result' = result
    BY <1>0, <1>4 DEF Wake, CloseInput, CloseDone, Producer, terminalPushed,
                      FinishPhase, Finishing
  <2>2. QED
    BY <1>0, <2>1 DEF TerminalPlace, IsTerminal, TerminalEvent
<1>5. CASE UNCHANGED <<pushed, result, producer, inputClosed>>
  BY <1>0, <1>5 DEF TerminalPlace, IsTerminal, TerminalEvent, terminalPushed
<1>6. QED
  BY <1>1, <1>2, <1>3, <1>4, <1>5
     DEF Next, Finish, FinishStep, PumpStep, PumpTake, Deliver, PumpIdle,
         PumpNotified, PumpAbandoned, ReaderStops, ReaderEnds, Result, Close,
         vars


-----------------------------------------------------------------------------
(* The invariant is inductive.                                             *)
LEMMA IInvStep == IInv /\ [Next]_vars => IInv'
BY TypeStep, PhaseStep, OrderStep, TerminalStep, WakeupStep, DrainStep,
   ReturnedStep DEF IInv

LEMMA Inductive == Spec => []IInv
BY InitIInv, IInvStep, PTL DEF Spec

(* Every field and local keeps its type.                                   *)
THEOREM TypeCorrect == Spec => []TypeOK
<1>1. IInv => TypeOK
  BY DEF IInv
<1>2. QED
  BY <1>1, Inductive, PTL

(* The pump loses, repeats and reorders no event, for any number of events *)
(* and whatever the order in which the goroutines run.                     *)
THEOREM EventsInOrder == Spec => []InOrder
<1>1. IInv => InOrder
  BY DEF IInv
<1>2. QED
  BY <1>1, Inductive, PTL

(* One terminal event at most, last, and it carries what Result() returns. *)
THEOREM TerminalIsLast == Spec => []TerminalLast
<1>1. IInv => TerminalLast
  BY DEF IInv, TerminalPlace, terminalPushed, TerminalLast, TypeOK
<1>2. QED
  BY <1>1, Inductive, PTL

(* The pump never sleeps through an event or through closeInput().         *)
THEOREM WakeupNeverLost == Spec => []NoLostWakeup
<1>1. IInv => NoLostWakeup
  BY DEF IInv
<1>2. QED
  BY <1>1, Inductive, PTL

(* Unless Close() was called, Events() closes only behind the terminal     *)
(* event.                                                                  *)
THEOREM ClosesBehindTerminal == Spec => []ClosesAfterTerminal
<1>1. ASSUME IInv, pump = "exited", ~abandon
      PROVE  /\ Len(delivered) = Len(pushed) /\ Len(delivered) > 0
             /\ IsTerminal(delivered[Len(delivered)])
  <2>1. /\ inputClosed /\ Len(queue) = 0 /\ Len(held) = 0
        /\ finishOnce /\ result \in Message
    BY <1>1 DEF IInv, ExitsDrained, FinishPhase
  <2>2. Len(delivered) \in Nat
    BY <1>1 DEF IInv, TypeOK
  <2>3. Len(pushed) = Len(delivered) + Len(held) + Len(queue)
    BY <1>1 DEF IInv, InOrder
  <2>4. Len(delivered) = Len(pushed)
    BY <2>1, <2>2, <2>3
  <2>5. Len(pushed) > 0 /\ pushed[Len(pushed)] = TerminalEvent(result)
    BY <1>1, <2>1 DEF IInv, TerminalPlace, terminalPushed
  <2>6. delivered[Len(delivered)] = pushed[Len(pushed)]
    BY <1>1, <2>2, <2>4, <2>5 DEF IInv, InOrder
  <2>7. QED
    BY <2>1, <2>4, <2>5, <2>6, EventTypes
<1>2. IInv => ClosesAfterTerminal
  BY <1>1 DEF ClosesAfterTerminal
<1>3. QED
  BY <1>2, Inductive, PTL

(* Result() never returns nil, and always the message the stream ended in. *)
THEOREM ResultIsSettled == Spec => []ResultSettled
<1>1. IInv => ResultSettled
  BY DEF IInv, ReturnedAfterDone, FinishPhase, TerminalPlace, terminalPushed,
         ResultSettled
<1>2. QED
  BY <1>1, Inductive, PTL

(* Once done is closed neither the message nor the events change.          *)
THEOREM LatchIsForGood == Spec => LatchedForGood
<1>1. ASSUME IInv, [Next]_vars, done
      PROVE  done' /\ result' = result /\ pushed' = pushed
  <2>1. producer = "running" /\ inputClosed /\ finishOnce
    BY <1>1 DEF IInv, FinishPhase
  <2>2. QED
    BY <1>1, <2>1 DEF Next, Push, enqueue, Finish, Latch, FinishStep, Wake,
       PushTerminal, CloseInput, CloseDone, Producer, PumpStep, PumpTake,
       PumpIdle, PumpNotified, PumpAbandoned, Deliver, ReaderStops,
       ReaderEnds, Result, Close, vars
<1>2. IInv /\ [Next]_vars =>
        [done => done' /\ result' = result /\ pushed' = pushed]_vars
  BY <1>1
<1>3. QED
  BY <1>2, Inductive, PTL DEF Spec, LatchedForGood


-----------------------------------------------------------------------------
(* Refinement: every step is a step of Channel or leaves it alone.         *)

LEMMA ChannelInit == Init => Chan!Init
BY DEF Init, Chan!Init, abandon

(* Handing over the held event is receiving the next one sent.             *)
LEMMA DeliverReceives == IInv /\ Deliver => Chan!Receive
<1> SUFFICES ASSUME IInv, Deliver PROVE Chan!Receive
  OBVIOUS
<1>1. /\ Len(held) = 1 /\ held \in Seq(Event)
      /\ delivered \in Seq(Event) /\ queue \in Seq(Event) /\ InOrder
  BY DEF IInv, TypeOK, Deliver
<1>2. /\ Len(delivered) \in Nat /\ Len(queue) \in Nat
      /\ Len(pushed) = Len(delivered) + 1 + Len(queue)
  BY <1>1 DEF InOrder
<1>3. Head(held) = held[1]
  BY <1>1
<1>4. held[1] = pushed[Len(delivered) + 1]
  BY <1>1 DEF InOrder
<1>5. delivered' = Append(delivered, pushed[Len(delivered) + 1])
  BY <1>3, <1>4 DEF Deliver
<1>6. Len(delivered) < Len(pushed)
  BY <1>2
<1>7. /\ pump = "offering" /\ pump' = "checking" /\ pushed' = pushed
      /\ inputClosed' = inputClosed /\ abandon' = abandon
  BY DEF Deliver, abandon
<1>8. QED
  BY <1>5, <1>6, <1>7 DEF Chan!Receive

(* The pump's exits are the two ways a channel may end.                    *)
LEMMA ExitEnds ==
  IInv /\ (PumpIdle \/ PumpAbandoned) => Chan!End \/ UNCHANGED Chan!chan
<1>1. ASSUME IInv, PumpIdle PROVE Chan!End \/ UNCHANGED Chan!chan
  <2>1. CASE inputClosed
    <3>1. Len(held) = 0 /\ Len(queue) = 0 /\ Len(delivered) \in Nat
      BY <1>1 DEF IInv, TypeOK, PumpIdle
    <3>2. Len(pushed) = Len(delivered) + Len(held) + Len(queue)
      BY <1>1 DEF IInv, InOrder
    <3>3. Len(delivered) = Len(pushed)
      BY <3>1, <3>2
    <3>4. QED
      BY <1>1, <2>1, <3>3 DEF PumpIdle, Chan!End, abandon
  <2>2. CASE ~inputClosed
    BY <1>1, <2>2 DEF PumpIdle, Chan!chan, abandon
  <2>3. QED
    BY <2>1, <2>2
<1>2. ASSUME IInv, PumpAbandoned PROVE Chan!End
  BY <1>2 DEF PumpAbandoned, Chan!End, abandon
<1>3. QED
  BY <1>1, <1>2

LEMMA ChannelStep == IInv /\ [Next]_vars => [Chan!Next]_(Chan!chan)
<1> SUFFICES ASSUME IInv, [Next]_vars PROVE Chan!Next \/ UNCHANGED Chan!chan
  OBVIOUS
<1>1. ASSUME NEW u \in Update, Push(u) PROVE Chan!Next
  <2>1. UpdateEvent(u) \in Event
    BY EventTypes
  <2>2. Chan!Send(UpdateEvent(u))
    BY <1>1 DEF Push, enqueue, Chan!Send, abandon
  <2>3. QED
    BY <2>1, <2>2 DEF Chan!Next
<1>2. CASE PushTerminal
  <2>1. TerminalEvent(result) \in Event
    BY <1>2, EventTypes DEF PushTerminal, Producer, IInv, FinishPhase, Finishing
  <2>2. Chan!Send(TerminalEvent(result))
    BY <1>2 DEF PushTerminal, enqueue, Chan!Send, abandon
  <2>3. QED
    BY <2>1, <2>2 DEF Chan!Next
<1>3. CASE CloseInput
  <2>1. ~inputClosed
    BY <1>3 DEF CloseInput, Producer, IInv, FinishPhase
  <2>2. QED
    BY <1>3, <2>1 DEF CloseInput, Chan!Next, Chan!Seal, abandon
<1>4. CASE Deliver
  BY <1>4, DeliverReceives DEF Chan!Next
<1>5. CASE PumpIdle \/ PumpAbandoned
  BY <1>5, ExitEnds DEF Chan!Next
<1>6. CASE Close
  <2>1. CASE closing = "open"
    BY <1>6, <2>1 DEF Close, Chan!chan, abandon
  <2>2. CASE closing = "cancelled"
    BY <1>6, <2>2 DEF Close, Chan!Next, Chan!Abandon, abandon
  <2>3. QED
    BY <1>6, <2>1, <2>2 DEF Close
<1>7. CASE PumpTake \/ PumpNotified
  BY <1>7 DEF PumpTake, PumpNotified, Chan!chan, abandon
<1>8. CASE Finish \/ Wake \/ CloseDone \/ ReaderStops \/ ReaderEnds \/ Result
  BY <1>8 DEF Finish, Latch, Wake, CloseDone, ReaderStops, ReaderEnds, Result,
              Chan!chan, abandon
<1>9. CASE UNCHANGED vars
  BY <1>9 DEF vars, Chan!chan, abandon
<1>10. QED
  BY <1>1, <1>2, <1>3, <1>4, <1>5, <1>6, <1>7, <1>8, <1>9
     DEF Next, FinishStep, PumpStep

(* The mutex, the notify slot and the pump implement a lossless ordered    *)
(* channel that ends only when it is sealed and drained or abandoned.      *)
THEOREM Refinement == Spec => IsChannel
BY Inductive, ChannelInit, ChannelStep, PTL DEF Spec, IsChannel, Chan!Spec

=============================================================================
