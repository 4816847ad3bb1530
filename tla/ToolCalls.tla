----------------------------- MODULE ToolCalls -----------------------------
(***************************************************************************)
(* Reassembly of streamed tool calls (toolcall.go): fragments are slotted  *)
(* by the provider's index, by a fresh id, or as a continuation, and every *)
(* fragment also becomes events for the consumer (chain.go toolFragment).  *)
(*                                                                         *)
(* The provider is modelled by what it wants to say: it has calls 1, 2 ... *)
(* to make and cuts each into fragments, in one of three styles:           *)
(*   indexed    fragments of several calls interleave; each carries its    *)
(*              call's index, or nothing when it continues the call of the *)
(*              fragment before it;                                        *)
(*   bare       no index; a call's fragments are contiguous and only its   *)
(*              first one carries the id;                                  *)
(*   repeating  no index; contiguous; every fragment carries the id.       *)
(* Names and types travel like ids and are left out with them.             *)
(*                                                                         *)
(* Every event carries a snapshot of the turn, which its consumer may keep *)
(* for good.  The unknown keys of a call ("extra") are a Go map that is    *)
(* written in place, so they live in a heap and calls refer to them; the   *)
(* consumer modelled keeps at most one snapshot, any one.                  *)
(***************************************************************************)
EXTENDS Naturals, Sequences, FiniteSets, Maps, Ascending

CONSTANTS
  Style,         \* how the provider may stream its calls
  MaxCalls,      \* bound: calls in a turn
  Position,      \* the index an indexed provider gives each call
  MaxFragments,  \* bound: fragments in a turn
  NoIndex        \* a fragment, or an accumulator, without an index

Call == 1..MaxCalls

NoId == 0

ASSUME StyleAssumption == Style \subseteq {"indexed", "bare", "repeating"}
ASSUME PositionAssumption ==
  /\ Position \in [Call -> Nat]
  /\ \A j, k \in Call : Position[j] = Position[k] => j = k
ASSUME NoIndexAssumption == NoIndex \notin Nat
ASSUME MaxFragmentsAssumption == MaxFragments \in Nat

VARIABLES
  slots,         \* the calls in progress, by index
  heap,          \* the maps of extra keys that have been made
  kept,          \* a snapshot the consumer holds on to, as it saw it
  lastSlot,      \* the slot of the last fragment
  events,        \* history: what the consumer received
  ended,         \* the stream ended and the turn was accepted
  style,         \* this provider's style
  begun,         \* the calls it has begun, in order
  last,          \* the call of its last fragment
  told,          \* what it has said of each call
  sent           \* fragments sent so far, for MaxFragments

provider == <<style, begun, last, told, sent>>
vars == <<slots, heap, kept, lastSlot, events, ended, provider>>

Nil == 0                 \* the map that was never made

EmptySlot == [id |-> NoId, extra |-> Nil, arguments |-> <<>>]

(* A call with the contents of its map in place of the reference.          *)
Contents(h, call) ==
  [call EXCEPT !.extra = IF @ = Nil THEN <<>> ELSE h[@]]

Unsaid == Contents(<<>>, EmptySlot)      \* a call the provider has not begun

Has(seq, x) == \E i \in 1..Len(seq) : seq[i] = x

-----------------------------------------------------------------------------
(* The accumulator.                                                        *)

(* One more than the highest slot in use.                                  *)
NextSlot ==
  IF slots = <<>>
    THEN 0
    ELSE 1 + CHOOSE s \in DOMAIN slots : \A t \in DOMAIN slots : t <= s

BrokenSlotFor(d) ==            \* a fresh id does not open a call
  CASE d.index # NoIndex -> d.index
    [] d.index = NoIndex /\ lastSlot = NoIndex -> NextSlot
    [] OTHER -> lastSlot

slotFor(d) ==
  CASE d.index # NoIndex -> d.index
    [] d.index = NoIndex /\ (d.id # NoId \/ lastSlot = NoIndex) -> NextSlot
    [] OTHER -> lastSlot

(* The last value that is not empty wins.                                  *)
Merged(slot, extra, d) ==
  [id |-> IF d.id # NoId THEN d.id ELSE slot.id,
   extra |-> extra,
   arguments |-> slot.arguments \o d.arguments]

(* Extra keys are written into the slot's map, made for the first of them. *)
MapOf(slot, d) ==
  IF slot.extra = Nil /\ d.extra # <<>> THEN Len(heap) + 1 ELSE slot.extra

Written(slot, d) ==
  CASE d.extra = <<>> -> heap
    [] d.extra # <<>> /\ slot.extra = Nil -> Append(heap, d.extra)
    [] OTHER -> [heap EXCEPT ![slot.extra] = d.extra @@ @]

Event(kind, index, arguments) ==
  [kind |-> kind, index |-> index, arguments |-> arguments]

BrokenToolFragment(index, opened, arguments) ==   \* the opening one's text
  IF opened THEN <<Event("start", index, <<>>)>>
            ELSE IF arguments # <<>> THEN <<Event("delta", index, arguments)>>
                                     ELSE <<>>

(* A fragment that opens a slot announces it; one that carries text passes *)
(* it on; one may do both.                                                 *)
toolFragment(index, opened, arguments) ==
  (IF opened THEN <<Event("start", index, <<>>)>> ELSE <<>>)
    \o (IF arguments # <<>> THEN <<Event("delta", index, arguments)>> ELSE <<>>)

(* The indexes in use, in increasing order.                                *)
sortedIndexes == InOrder(DOMAIN slots)

result == [i \in 1..Len(sortedIndexes) |->
             Contents(heap, slots[sortedIndexes[i]])]

BrokenSnapshot(now, maps) ==   \* the maps themselves, not clones
  [calls |-> [i \in 1..Cardinality(DOMAIN now) |-> now[InOrder(DOMAIN now)[i]]],
   maps |-> <<>>]

(* snapshot(): resolve() copies every call and clones its map.             *)
snapshot(now, maps) ==
  LET order == InOrder(DOMAIN now)
      clone(i) == IF now[order[i]].extra = Nil THEN Nil ELSE Len(maps) + i
  IN  [calls |-> [i \in 1..Len(order) |-> [now[order[i]] EXCEPT !.extra = clone(i)]],
       maps |-> [i \in 1..Len(order) |-> Contents(maps, now[order[i]]).extra]]

(* An event carries a snapshot, and the consumer may hold on to it.        *)
Keep(maps) ==
  LET snap == snapshot(slots', maps)
  IN  /\ kept = <<>>
      /\ heap' = maps \o snap.maps
      /\ kept' = <<[calls |-> snap.calls,
                    seen |-> [i \in 1..Len(snap.calls) |->
                                Contents(heap', snap.calls[i])]]>>

merge(d) ==
  LET index == slotFor(d)
      opened == index \notin DOMAIN slots
      slot == IF opened THEN EmptySlot ELSE slots[index]
      observed == toolFragment(index, opened, d.arguments)
  IN  /\ slots' = (index :> Merged(slot, MapOf(slot, d), d)) @@ slots
      /\ lastSlot' = index
      /\ events' = events \o observed
      /\ \/ heap' = Written(slot, d) /\ kept' = kept
         \/ observed # <<>> /\ Keep(Written(slot, d))

-----------------------------------------------------------------------------
Init ==
  /\ slots = <<>>
  /\ heap = <<>> /\ kept = <<>>
  /\ lastSlot = NoIndex
  /\ events = <<>>
  /\ ended = FALSE
  /\ style \in Style
  /\ begun = <<>>
  /\ last = NoId
  /\ told = [k \in Call |-> Unsaid]
  /\ sent = 0

(* What a fragment of call k may carry in this style.                      *)
Indexes(k) ==
  CASE style = "indexed" /\ last = k -> {Position[k], NoIndex}
    [] style = "indexed" /\ last # k -> {Position[k]}
    [] OTHER -> {NoIndex}

Ids(k) ==
  CASE ~Has(begun, k) /\ begun # <<>> -> {k}
    [] ~Has(begun, k) /\ begun = <<>> -> {k, NoId}
    [] Has(begun, k) /\ style = "repeating" -> {told[k].id}
    [] OTHER -> {NoId}

Contiguous(k) == style = "indexed" \/ last = k \/ ~Has(begun, k)

(* One fragment arrives and feed() merges it: any text, also none, with or *)
(* without an extra key.                                                   *)
Fragment(k) ==
  /\ ~ended /\ sent < MaxFragments /\ Contiguous(k)
  /\ \E index \in Indexes(k), id \in Ids(k),
        text \in {<<>>, <<sent + 1>>}, signed \in BOOLEAN :
       LET d == [index |-> index, id |-> id,
                 extra |-> IF signed THEN "signature" :> sent + 1 ELSE <<>>,
                 arguments |-> text]
       IN  /\ merge(d)
           /\ told' = [told EXCEPT ![k] =
                [id |-> IF id = NoId THEN @.id ELSE k,
                 extra |-> IF signed THEN d.extra ELSE @.extra,
                 arguments |-> @.arguments \o text]]
  /\ begun' = IF Has(begun, k) THEN begun ELSE Append(begun, k)
  /\ last' = k
  /\ sent' = sent + 1
  /\ UNCHANGED <<ended, style>>

(* The accepted leg announces every assembled call.                        *)
Announce ==
  /\ ~ended
  /\ ended' = TRUE
  /\ events' = events \o
       [i \in 1..Len(sortedIndexes) |->
          Event("end", sortedIndexes[i], result[i].arguments)]
  /\ UNCHANGED <<slots, heap, kept, lastSlot, provider>>

Next ==
  \/ \E k \in Call : Fragment(k)
  \/ Announce

Spec == Init /\ [][Next]_vars

-----------------------------------------------------------------------------
(* Properties.                                                             *)

(* Where a call belongs in the turn: indexed calls by their index, the     *)
(* others as they were begun.                                              *)
Begun == {k \in Call : Has(begun, k)}

Rank(k) ==
  IF style = "indexed"
    THEN Cardinality({j \in Begun : Position[j] <= Position[k]})
    ELSE CHOOSE i \in 1..Len(begun) : begun[i] = k

(* At every moment the turn holds exactly the calls the provider has begun,*)
(* each with its own id, the newest value of its extra key and the text of *)
(* all its fragments in order, however they were interleaved.              *)
CallsReassembled ==
  /\ Len(result) = Cardinality(Begun)
  /\ \A k \in Begun : result[Rank(k)] = told[k]

(* A snapshot never changes after it was handed out, however the turn goes *)
(* on: "later accumulation never changes the bytes it can see"             *)
(* (message.go, snapshot()).                                               *)
SnapshotsFrozen ==
  \A k \in 1..Len(kept) : \A i \in 1..Len(kept[k].calls) :
    Contents(heap, kept[k].calls[i]) = kept[k].seen[i]

(* A consumer that only follows the events ends up with the same calls as  *)
(* one that reads the message: a call is opened once and before anything   *)
(* else of it, its deltas add up to its arguments, and the closing events  *)
(* carry them in the order of the turn.                                    *)
EventsOf(kind) == {i \in 1..Len(events) : events[i].kind = kind}

Received(index) ==
  LET deltas == InOrder({i \in EventsOf("delta") : events[i].index = index})
  IN  [i \in 1..Len(deltas) |-> events[deltas[i]].arguments[1]]

EventsRebuildCalls ==
  LET starts == EventsOf("start")
      ends == InOrder(EventsOf("end"))
  IN  /\ \A s \in DOMAIN slots : Received(s) = slots[s].arguments
      /\ {events[i].index : i \in starts} = DOMAIN slots
      /\ \A i, j \in starts : events[i].index = events[j].index => i = j
      /\ \A i \in 1..Len(events) :
            \E j \in starts : j <= i /\ events[j].index = events[i].index
      /\ ended => [i \in 1..Len(ends) |-> events[ends[i]].arguments]
                    = [i \in 1..Len(result) |-> result[i].arguments]

(* "Providers that omit `index` start a new call whenever they send a      *)
(* fresh `id`; everything else continues the call already in progress"     *)
(* (toolcall.go): two calls of a turn never have the same id.  slotFor()   *)
(* takes any id for a fresh one, so a provider that repeats the id on each *)
(* fragment has its call cut into as many calls as fragments.              *)
OnlyFreshIdOpens ==
  \A s, t \in DOMAIN slots :
    (slots[s].id # NoId /\ slots[s].id = slots[t].id) => s = t

=============================================================================
