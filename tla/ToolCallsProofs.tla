-------------------------- MODULE ToolCallsProofs --------------------------
(***************************************************************************)
(* For any number of calls and fragments, any indexes and any moment at    *)
(* which the consumer keeps a snapshot: the calls come together whole and  *)
(* in order, the events tell the same as the message, and no snapshot ever *)
(* changes.                                                                *)
(***************************************************************************)
EXTENDS ToolCalls, Foundations

-----------------------------------------------------------------------------
(* The types.                                                              *)

Words == Seq(Nat)
Extras == [{} -> Nat] \cup [{"signature"} -> Nat]
Slot == [id : Nat, extra : Nat, arguments : Words]
Whole == [id : Nat, extra : Extras, arguments : Words]
Snapshot == [calls : Seq(Slot), seen : Seq(Whole)]
Notice == [kind : {"start", "delta", "end"}, index : Nat, arguments : Words]
Piece == [index : Nat \cup {NoIndex}, id : Nat, extra : Extras, arguments : Words]

TypeOK ==
  /\ DOMAIN slots \in SUBSET Nat /\ IsFiniteSet(DOMAIN slots)
  /\ slots \in [DOMAIN slots -> Slot]
  /\ heap \in Seq(Extras)
  /\ kept \in Seq(Snapshot)
  /\ lastSlot \in DOMAIN slots \cup {NoIndex}
  /\ events \in Seq(Notice)
  /\ ended \in BOOLEAN /\ style \in Style
  /\ begun \in Seq(Call) /\ last \in Call \cup {NoId} /\ sent \in Nat
  /\ told \in [Call -> Whole]

(* Every map has one owner: no two slots write to the same one, and none   *)
(* to one that a snapshot shows.                                           *)
MapsOwned ==
  /\ \A s \in DOMAIN slots : slots[s].extra <= Len(heap)
  /\ \A s, t \in DOMAIN slots :
       slots[s].extra # Nil /\ slots[s].extra = slots[t].extra => s = t
  /\ \A k \in 1..Len(kept) : \A i \in 1..Len(kept[k].calls) :
       /\ kept[k].calls[i].extra <= Len(heap)
       /\ kept[k].calls[i].extra # Nil =>
            \A s \in DOMAIN slots : slots[s].extra # kept[k].calls[i].extra
  /\ SnapshotsFrozen

LEMMA EmptyExtras == <<>> \in Extras
BY DEF Extras

LEMMA ContentsType ==
  ASSUME NEW h \in Seq(Extras), NEW call \in Slot, call.extra <= Len(h)
  PROVE  /\ Contents(h, call) \in Whole
         /\ Contents(h, call).id = call.id
         /\ Contents(h, call).extra =
              IF call.extra = Nil THEN <<>> ELSE h[call.extra]
         /\ Contents(h, call).arguments = call.arguments
<1> DEFINE extra == IF call.extra = Nil THEN <<>> ELSE h[call.extra]
<1>1. extra \in Extras
  <2>1. call.extra # Nil => call.extra \in 1..Len(h)  BY DEF Slot, Nil
  <2> QED BY <2>1, EmptyExtras
<1>2. Contents(h, call) = [call EXCEPT !.extra = extra]
  BY DEF Contents
<1> HIDE DEF extra
<1>3. /\ Contents(h, call) \in Whole
      /\ Contents(h, call).id = call.id
      /\ Contents(h, call).extra = extra
      /\ Contents(h, call).arguments = call.arguments
  BY <1>1, <1>2 DEF Slot, Whole
<1> QED BY <1>3 DEF extra

(* The next slot is above all that are in use.                             *)
LEMMA NextSlotIsFree ==
  ASSUME TypeOK
  PROVE  /\ NextSlot \in Nat
         /\ \A s \in DOMAIN slots : s < NextSlot
         /\ DOMAIN slots = {} => NextSlot = 0
<1> USE DEF TypeOK
<1>1. CASE DOMAIN slots = {}
  <2>1. slots = <<>>  BY <1>1
  <2> QED BY <1>1, <2>1 DEF NextSlot
<1>2. CASE DOMAIN slots # {}
  <2> DEFINE S == DOMAIN slots
  <2> DEFINE n == Cardinality(S)
  <2> DEFINE top == InOrder(S)[n]
  <2>1. n \in Nat /\ n # 0  BY <1>2, FS_CardinalityType, FS_EmptySet
  <2>2. top \in S /\ Cardinality(Below(S, top)) = n - 1
    <3>1. n \in 1..n  BY <2>1
    <3> QED BY <3>1, Enumeration
  <2>3. \A t \in S : t <= top
    <3> SUFFICES ASSUME NEW t \in S, top < t  PROVE FALSE
      BY <2>2
    <3>1. Cardinality(Below(S, top)) < Cardinality(Below(S, t))
      BY <2>2, BelowGrows
    <3>2. Cardinality(Below(S, t)) + 1 \in 1..n  BY Place
    <3> HIDE DEF S, n, top
    <3>3. Cardinality(Below(S, t)) \in Nat  BY BelowFinite DEF S
    <3> QED BY <2>1, <2>2, <3>1, <3>2, <3>3
  <2>4. slots # <<>>  BY <1>2
  <2>5. NextSlot = 1 + CHOOSE s \in S : \A t \in S : t <= s
    BY <2>4 DEF NextSlot
  <2> HIDE DEF top
  <2>6. \E s \in S : \A t \in S : t <= s  BY <2>2, <2>3
  <2> QED BY <1>2, <2>5, <2>6
<1> QED BY <1>1, <1>2

LEMMA SlotForType ==
  ASSUME TypeOK, NEW d \in Piece
  PROVE  slotFor(d) \in Nat
<1>1. NextSlot \in Nat  BY NextSlotIsFree
<1>2. CASE d.index # NoIndex
  BY <1>2 DEF slotFor, Piece
<1>3. CASE d.index = NoIndex /\ (d.id # NoId \/ lastSlot = NoIndex)
  BY <1>1, <1>3 DEF slotFor
<1>4. CASE d.index = NoIndex /\ ~ (d.id # NoId \/ lastSlot = NoIndex)
  BY <1>4 DEF slotFor, TypeOK
<1> QED BY <1>2, <1>3, <1>4

-----------------------------------------------------------------------------
(* What feeding a piece does.                                              *)

Opens(d) == slotFor(d) \notin DOMAIN slots

Before(d) == IF Opens(d) THEN EmptySlot ELSE slots[slotFor(d)]

MapFor(d) == MapOf(Before(d), d)

LEMMA BeforeType ==
  ASSUME TypeOK, MapsOwned, NEW d \in Piece
  PROVE  Before(d) \in Slot /\ Before(d).extra <= Len(heap)
<1>1. EmptySlot \in Slot /\ EmptySlot.extra = 0
  BY DEF EmptySlot, Slot, Nil, NoId, Words
<1>2. Len(heap) \in Nat  BY DEF TypeOK
<1> QED BY <1>1, <1>2 DEF Before, Opens, TypeOK, MapsOwned

(* Its extra keys go to the map of its slot, or to a new one.              *)
LEMMA WrittenMaps ==
  ASSUME TypeOK, MapsOwned, NEW d \in Piece
  PROVE  LET after == Written(Before(d), d)
         IN  /\ after \in Seq(Extras)
             /\ Len(heap) <= Len(after)
             /\ MapFor(d) \in 0..Len(after)
             /\ \/ MapFor(d) = Before(d).extra
                \/ MapFor(d) = Len(heap) + 1
             /\ \A a \in 1..Len(heap) : a # Before(d).extra => after[a] = heap[a]
             /\ (IF MapFor(d) = Nil THEN <<>> ELSE after[MapFor(d)])
                  = IF d.extra = <<>> THEN Contents(heap, Before(d)).extra
                                      ELSE d.extra
<1> DEFINE slot == Before(d)
<1> DEFINE extra == d.extra
<1>1. /\ slot.extra \in 0..Len(heap) /\ heap \in Seq(Extras)
      /\ Contents(heap, slot).extra = IF slot.extra = 0 THEN <<>> ELSE heap[slot.extra]
  <2>1. slot \in Slot /\ slot.extra <= Len(heap)  BY BeforeType
  <2>2. slot.extra \in Nat  BY <2>1 DEF Slot
  <2> HIDE DEF slot
  <2> QED BY <2>1, <2>2, ContentsType DEF TypeOK, Nil
<1>2. extra \in Extras  BY DEF Piece
<1> HIDE DEF slot, extra
<1>3. CASE extra = <<>>
  <2>1. Written(slot, d) = heap /\ MapOf(slot, d) = slot.extra
    BY <1>3 DEF Written, MapOf, extra
  <2> QED BY <1>1, <1>3, <2>1 DEF MapFor, slot, extra, Nil
<1>4. CASE extra # <<>> /\ slot.extra = 0
  <2>1. Written(slot, d) = Append(heap, extra) /\ MapOf(slot, d) = Len(heap) + 1
    BY <1>4 DEF Written, MapOf, extra, Nil
  <2> QED BY <1>1, <1>2, <1>4, <2>1 DEF MapFor, slot, extra, Nil
<1>5. CASE extra # <<>> /\ slot.extra # 0
  <2> DEFINE old == heap[slot.extra]
  <2>1. slot.extra \in 1..Len(heap) /\ old \in Extras  BY <1>1, <1>5
  <2>2. extra @@ old = extra
    <3>1. DOMAIN extra = {"signature"} /\ DOMAIN old \subseteq {"signature"}
      BY <1>2, <1>5, <2>1 DEF Extras
    <3>2. extra = [x \in DOMAIN extra |-> extra[x]]  BY <1>2 DEF Extras
    <3> HIDE DEF old
    <3> QED BY <3>1, <3>2 DEF @@
  <2>3. Written(slot, d) = [heap EXCEPT ![slot.extra] = extra]
    BY <1>5, <2>2 DEF Written, extra, Nil
  <2>4. MapOf(slot, d) = slot.extra  BY <1>5 DEF MapOf, Nil
  <2>5. [heap EXCEPT ![slot.extra] = extra] \in Seq(Extras)
    BY <1>1, <1>2, <2>1
  <2> QED BY <1>1, <1>2, <1>5, <2>1, <2>3, <2>4, <2>5 DEF MapFor, slot, extra, Nil
<1> QED BY <1>3, <1>4, <1>5

(* A snapshot has maps of its own, made behind all others.                 *)
LEMMA SnapshotFacts ==
  ASSUME NEW now, DOMAIN now \in SUBSET Nat, IsFiniteSet(DOMAIN now),
         now \in [DOMAIN now -> Slot],
         NEW maps \in Seq(Extras), \A s \in DOMAIN now : now[s].extra <= Len(maps)
  PROVE  LET snap == snapshot(now, maps)
         IN  /\ snap.calls \in Seq(Slot) /\ snap.maps \in Seq(Extras)
             /\ Len(snap.maps) = Len(snap.calls)
             /\ \A i \in 1..Len(snap.calls) :
                  snap.calls[i].extra = Nil \/ snap.calls[i].extra = Len(maps) + i
<1> DEFINE order == InOrder(DOMAIN now)
<1> DEFINE n == Cardinality(DOMAIN now)
<1> DEFINE clone(i) == IF now[order[i]].extra = Nil THEN Nil ELSE Len(maps) + i
<1> DEFINE calls == [i \in 1..n |-> [now[order[i]] EXCEPT !.extra = clone(i)]]
<1> DEFINE clones == [i \in 1..n |-> Contents(maps, now[order[i]]).extra]
<1>1. n \in Nat /\ order \in [1..n -> DOMAIN now] /\ Len(order) = n
  BY Enumeration
<1>2. Len(maps) \in Nat  OBVIOUS
<1>3. ASSUME NEW i \in 1..n
      PROVE  /\ calls[i] \in Slot
             /\ calls[i].extra = Nil \/ calls[i].extra = Len(maps) + i
  <2> DEFINE c == clone(i)
  <2> DEFINE call == now[order[i]]
  <2>1. c \in Nat /\ (c = Nil \/ c = Len(maps) + i)  BY <1>1, <1>2 DEF Nil
  <2>2. call \in Slot  BY <1>1
  <2>3. calls[i] = [call EXCEPT !.extra = c]  OBVIOUS
  <2> HIDE DEF c, call, calls
  <2> QED BY <2>1, <2>2, <2>3 DEF Slot
<1>4. ASSUME NEW i \in 1..n  PROVE clones[i] \in Extras
  <2>1. now[order[i]] \in Slot /\ now[order[i]].extra <= Len(maps)  BY <1>1
  <2>2. Contents(maps, now[order[i]]) \in Whole  BY <2>1, ContentsType
  <2> QED BY <2>2 DEF Whole
<1>5. snapshot(now, maps) = [calls |-> calls, maps |-> clones]
  BY <1>1 DEF snapshot
<1>6. calls \in [1..n -> Slot] /\ clones \in [1..n -> Extras]
  BY <1>3, <1>4
<1> HIDE DEF calls, clones, n, order
<1>7. /\ calls \in Seq(Slot) /\ Len(calls) = n
      /\ clones \in Seq(Extras) /\ Len(clones) = n
  BY <1>1, <1>6, FunctionIsSeq
<1> QED BY <1>3, <1>5, <1>7

(* What a step that feeds a piece leaves behind, snapshot or not.          *)
LEMMA MergeSlots ==
  ASSUME TypeOK, MapsOwned, NEW d \in Piece, merge(d)
  PROVE  /\ DOMAIN slots' = DOMAIN slots \cup {slotFor(d)}
         /\ slots'[slotFor(d)] = Merged(Before(d), MapFor(d), d)
         /\ \A s \in DOMAIN slots : s # slotFor(d) => slots'[s] = slots[s]
         /\ DOMAIN slots' \in SUBSET Nat /\ IsFiniteSet(DOMAIN slots')
         /\ slots' \in [DOMAIN slots' -> Slot]
         /\ \A s \in DOMAIN slots' : slots'[s].extra <= Len(Written(Before(d), d))
         /\ lastSlot' = slotFor(d)
<1> DEFINE index == slotFor(d)
<1> DEFINE merged == Merged(Before(d), MapFor(d), d)
<1> DEFINE after == Written(Before(d), d)
<1>0. index \in Nat  BY SlotForType
<1>1. slots' = (index :> merged) @@ slots /\ lastSlot' = index
  BY DEF merge, Before, Opens, MapFor
<1>2. merged \in Slot /\ merged.extra = MapFor(d)
  <2>1. Before(d) \in Slot  BY BeforeType
  <2>2. MapFor(d) \in Nat
    <3>1. MapFor(d) \in 0..Len(after)  BY WrittenMaps
    <3> QED BY <3>1
  <2> QED BY <2>1, <2>2 DEF Merged, Slot, Piece, Words, NoId
<1>3. MapFor(d) <= Len(after) /\ Len(heap) <= Len(after)
  BY WrittenMaps
<1>4. Len(heap) \in Nat /\ Len(after) \in Nat
  <2>1. after \in Seq(Extras)  BY WrittenMaps
  <2> HIDE DEF after
  <2> QED BY <2>1 DEF TypeOK
<1> HIDE DEF index, merged, after
<1>5. /\ DOMAIN slots' = DOMAIN slots \cup {index}
      /\ slots'[index] = merged
      /\ \A s \in DOMAIN slots : s # index => slots'[s] = slots[s]
  BY <1>1 DEF :>, @@
<1>6. slots' \in [DOMAIN slots' -> Slot]
  <2>1. \A s \in DOMAIN slots' : slots'[s] \in Slot  BY <1>2, <1>5 DEF TypeOK
  <2>2. slots' = [s \in DOMAIN slots' |-> slots'[s]]  BY <1>1 DEF :>, @@
  <2> QED BY <2>1, <2>2
<1>7. IsFiniteSet(DOMAIN slots')
  <2>1. IsFiniteSet(DOMAIN slots)  BY DEF TypeOK
  <2> QED BY <1>5, <2>1, FS_AddElement
<1>8. \A s \in DOMAIN slots' : slots'[s].extra <= Len(after)
  <2> SUFFICES ASSUME NEW s \in DOMAIN slots'  PROVE slots'[s].extra <= Len(after)
    OBVIOUS
  <2>1. CASE s = index  BY <1>2, <1>3, <1>5, <2>1
  <2>2. CASE s # index
    <3>1. s \in DOMAIN slots /\ slots'[s] = slots[s]  BY <1>5, <2>2
    <3>2. slots[s].extra \in Nat /\ slots[s].extra <= Len(heap)
      BY <3>1 DEF TypeOK, MapsOwned, Slot
    <3> QED BY <1>3, <1>4, <3>1, <3>2
  <2> QED BY <2>1, <2>2
<1>9. DOMAIN slots' \in SUBSET Nat  BY <1>0, <1>5 DEF TypeOK
<1> QED
  BY <1>1, <1>5, <1>6, <1>7, <1>8, <1>9 DEF index, merged, after

(* The maps fed to are in the new heap as written, with or without clones  *)
(* for a snapshot behind them.                                             *)
LEMMA MergeHeap ==
  ASSUME TypeOK, MapsOwned, NEW d \in Piece, merge(d)
  PROVE  LET after == Written(Before(d), d)
         IN  /\ heap' \in Seq(Extras)
             /\ Len(after) <= Len(heap')
             /\ \A a \in 1..Len(after) : heap'[a] = after[a]
             /\ kept' \in Seq(Snapshot)
             /\ \/ kept' = kept
                \/ \A k \in 1..Len(kept') : \A i \in 1..Len(kept'[k].calls) :
                     /\ kept'[k].calls[i].extra <= Len(heap')
                     /\ \/ kept'[k].calls[i].extra = Nil
                        \/ kept'[k].calls[i].extra > Len(after)
                     /\ Contents(heap', kept'[k].calls[i]) = kept'[k].seen[i]
<1> DEFINE after == Written(Before(d), d)
<1>1. after \in Seq(Extras)  BY WrittenMaps
<1>2. \/ heap' = after /\ kept' = kept
      \/ Keep(after)
  BY DEF merge, Before, Opens
<1> HIDE DEF after
<1>3. CASE heap' = after /\ kept' = kept
  BY <1>1, <1>3 DEF TypeOK, after
<1>4. CASE Keep(after)
  <2> DEFINE snap == snapshot(slots', after)
  <2> DEFINE calls == snap.calls
  <2> DEFINE clones == snap.maps
  <2> DEFINE seen == [i \in 1..Len(calls) |-> Contents(heap', calls[i])]
  <2>1. heap' = after \o clones /\ kept' = <<[calls |-> calls, seen |-> seen]>>
    BY <1>4 DEF Keep
  <2>2. /\ calls \in Seq(Slot) /\ clones \in Seq(Extras)
        /\ Len(clones) = Len(calls)
        /\ \A i \in 1..Len(calls) :
             calls[i].extra = Nil \/ calls[i].extra = Len(after) + i
    BY <1>1, MergeSlots, SnapshotFacts DEF after
  <2> HIDE DEF snap, calls, clones
  <2>3. /\ heap' \in Seq(Extras) /\ Len(heap') = Len(after) + Len(calls)
        /\ \A a \in 1..Len(after) : heap'[a] = after[a]
    <3>1. /\ after \o clones \in Seq(Extras)
          /\ Len(after \o clones) = Len(after) + Len(clones)
          /\ \A a \in 1..Len(after) : (after \o clones)[a] = after[a]
      BY <1>1, <2>2, ConcatFacts
    <3> HIDE DEF seen
    <3> QED BY <2>1, <2>2, <3>1
  <2>4. \A i \in 1..Len(calls) :
          /\ calls[i] \in Slot
          /\ calls[i].extra <= Len(heap')
          /\ calls[i].extra = Nil \/ calls[i].extra > Len(after)
    BY <1>1, <2>2, <2>3 DEF Nil
  <2>5. seen \in Seq(Whole)
    <3>1. \A i \in 1..Len(calls) : Contents(heap', calls[i]) \in Whole
      BY <2>3, <2>4, ContentsType
    <3> QED BY <2>2, <3>1
  <2>6. kept' \in Seq(Snapshot) /\ Len(kept') = 1
    <3>1. [calls |-> calls, seen |-> seen] \in Snapshot
      BY <2>2, <2>5 DEF Snapshot
    <3> QED BY <2>1, <3>1
  <2>7. kept'[1].calls = calls /\ kept'[1].seen = seen
    BY <2>1
  <2>8. \A i \in 1..Len(calls) : seen[i] = Contents(heap', calls[i])
    OBVIOUS
  <2> HIDE DEF seen
  <2>9. \A k \in 1..Len(kept') : k = 1  BY <2>6
  <2>10. Len(after) <= Len(heap')  BY <1>1, <2>2, <2>3
  <2> QED BY <2>3, <2>4, <2>6, <2>7, <2>8, <2>9, <2>10 DEF after
<1> QED BY <1>2, <1>3, <1>4

-----------------------------------------------------------------------------
(* The provider's side of a fragment.                                      *)
Sends(k, d) ==
  /\ d.index \in Indexes(k) /\ d.id \in Ids(k)
  /\ d.arguments = <<>> \/ \E word \in Nat : d.arguments = <<word>>
  /\ merge(d)
  /\ told' = [told EXCEPT ![k] =
       [id |-> IF d.id = NoId THEN told[k].id ELSE k,
        extra |-> IF d.extra = <<>> THEN told[k].extra ELSE d.extra,
        arguments |-> told[k].arguments \o d.arguments]]
  /\ begun' = IF Has(begun, k) THEN begun ELSE Append(begun, k)
  /\ ~ended /\ Contiguous(k)
  /\ last' = k /\ sent' = sent + 1 /\ UNCHANGED <<ended, style>>

LEMMA IndexesType ==
  ASSUME TypeOK, NEW k \in Call
  PROVE  Indexes(k) \subseteq Nat \cup {NoIndex}
<1>1. Position[k] \in Nat  BY PositionAssumption
<1>2. CASE style = "indexed" /\ last = k
  BY <1>1, <1>2 DEF Indexes
<1>3. CASE style = "indexed" /\ last # k
  BY <1>1, <1>3 DEF Indexes
<1>4. CASE style # "indexed"
  BY <1>4 DEF Indexes
<1> QED BY <1>2, <1>3, <1>4

LEMMA IdsType ==
  ASSUME TypeOK, NEW k \in Call
  PROVE  Ids(k) \subseteq Nat
<1>1. k \in Nat /\ NoId \in Nat /\ told[k].id \in Nat
  BY DEF Call, NoId, TypeOK, Whole
<1>2. CASE ~ Has(begun, k) /\ begun # <<>>
  BY <1>1, <1>2 DEF Ids
<1>3. CASE ~ Has(begun, k) /\ begun = <<>>
  BY <1>1, <1>3 DEF Ids
<1>4. CASE Has(begun, k) /\ style = "repeating"
  BY <1>1, <1>4 DEF Ids
<1>5. CASE Has(begun, k) /\ style # "repeating"
  BY <1>1, <1>5 DEF Ids
<1> QED BY <1>2, <1>3, <1>4, <1>5

LEMMA FragmentSends ==
  ASSUME TypeOK, NEW k \in Call, Fragment(k)
  PROVE  \E d \in Piece : Sends(k, d)
<1>1. PICK index \in Indexes(k), id \in Ids(k),
           text \in {<<>>, <<sent + 1>>}, signed \in BOOLEAN :
        LET d == [index |-> index, id |-> id,
                  extra |-> IF signed THEN "signature" :> sent + 1 ELSE <<>>,
                  arguments |-> text]
        IN  /\ merge(d)
            /\ told' = [told EXCEPT ![k] =
                 [id |-> IF id = NoId THEN @.id ELSE k,
                  extra |-> IF signed THEN d.extra ELSE @.extra,
                  arguments |-> @.arguments \o text]]
  BY DEF Fragment
<1> DEFINE extra == IF signed THEN "signature" :> sent + 1 ELSE <<>>
<1> DEFINE d == [index |-> index, id |-> id, extra |-> extra, arguments |-> text]
<1>2. extra \in Extras
  <2>1. "signature" :> sent + 1 \in [{"signature"} -> Nat]  BY DEF :>, TypeOK
  <2> QED BY <2>1, EmptyExtras DEF Extras
<1>3. signed <=> extra # <<>>
  <2>1. DOMAIN ("signature" :> sent + 1) = {"signature"}  BY DEF :>
  <2>2. "signature" :> sent + 1 # <<>>  BY <2>1
  <2> QED BY <2>2
<1>4. text \in Words /\ (text = <<>> \/ \E word \in Nat : text = <<word>>)
  <2>1. sent + 1 \in Nat  BY DEF TypeOK
  <2>2. <<>> \in Seq(Nat) /\ <<sent + 1>> \in Seq(Nat)  BY <2>1
  <2> QED BY <2>1, <2>2 DEF Words
<1>5. told' = [told EXCEPT ![k] =
                [id |-> IF id = NoId THEN told[k].id ELSE k,
                 extra |-> IF extra = <<>> THEN told[k].extra ELSE extra,
                 arguments |-> told[k].arguments \o text]]
  <2>1. told' = [told EXCEPT ![k] =
                  [id |-> IF id = NoId THEN told[k].id ELSE k,
                   extra |-> IF signed THEN extra ELSE told[k].extra,
                   arguments |-> told[k].arguments \o text]]
    BY <1>1
  <2> HIDE DEF extra
  <2>2. (IF signed THEN extra ELSE told[k].extra)
           = (IF extra = <<>> THEN told[k].extra ELSE extra)
    BY <1>3
  <2> QED BY <2>1, <2>2
<1>6. d \in Piece
  BY <1>2, <1>4, IndexesType, IdsType DEF Piece
<1>7. merge(d)  BY <1>1
<1>8. /\ d.index = index /\ d.id = id /\ d.extra = extra
      /\ d.arguments = text
  OBVIOUS
<1> HIDE DEF d, extra
<1>9. Sends(k, d)
  BY <1>1, <1>4, <1>5, <1>7, <1>8 DEF Sends, Fragment
<1> QED BY <1>6, <1>9

-----------------------------------------------------------------------------
(* Types and maps are kept.                                                *)
LEMMA NoticeType ==
  ASSUME NEW index \in Nat, NEW opened \in BOOLEAN, NEW text \in Words
  PROVE  toolFragment(index, opened, text) \in Seq(Notice)
<1>1. /\ Event("start", index, <<>>) \in Notice
      /\ Event("delta", index, text) \in Notice
  BY DEF Event, Notice, Words
<1> QED BY <1>1 DEF toolFragment

LEMMA SendsTypes ==
  ASSUME TypeOK, MapsOwned, NEW k \in Call, NEW d \in Piece, Sends(k, d)
  PROVE  TypeOK'
<1>1. merge(d)  BY DEF Sends
<1>2. /\ DOMAIN slots' \in SUBSET Nat /\ IsFiniteSet(DOMAIN slots')
      /\ slots' \in [DOMAIN slots' -> Slot]
      /\ lastSlot' \in DOMAIN slots'
  BY <1>1, MergeSlots
<1>3. heap' \in Seq(Extras) /\ kept' \in Seq(Snapshot)
  BY <1>1, MergeHeap
<1>4. events' \in Seq(Notice)
  <2>1. toolFragment(slotFor(d), Opens(d), d.arguments) \in Seq(Notice)
    <3>1. Opens(d) \in BOOLEAN  BY DEF Opens
    <3>2. d.arguments \in Words  BY DEF Piece
    <3> QED BY <3>1, <3>2, SlotForType, NoticeType
  <2>2. events' = events \o toolFragment(slotFor(d), Opens(d), d.arguments)
    BY <1>1 DEF merge, Opens
  <2> QED BY <2>1, <2>2, ConcatFacts DEF TypeOK
<1>5. begun' \in Seq(Call) /\ last' \in Call /\ sent' \in Nat
  BY DEF Sends, TypeOK
<1>6. told' \in [Call -> Whole]
  <2> DEFINE new == [id |-> IF d.id = NoId THEN told[k].id ELSE k,
                     extra |-> IF d.extra = <<>> THEN told[k].extra ELSE d.extra,
                     arguments |-> told[k].arguments \o d.arguments]
  <2>1. told[k] \in Whole  BY DEF TypeOK
  <2>2. k \in Nat  BY DEF Call
  <2>3. new \in Whole  BY <2>1, <2>2 DEF Whole, Piece, Words
  <2>4. told' = [told EXCEPT ![k] = new]  BY DEF Sends
  <2> HIDE DEF new
  <2> QED BY <2>3, <2>4 DEF TypeOK
<1>7. ended' \in BOOLEAN /\ style' \in Style  BY DEF Sends, TypeOK
<1> QED BY <1>2, <1>3, <1>4, <1>5, <1>6, <1>7 DEF TypeOK

LEMMA SendsMaps ==
  ASSUME TypeOK, MapsOwned, NEW k \in Call, NEW d \in Piece, Sends(k, d)
  PROVE  MapsOwned'
<1> DEFINE index == slotFor(d)
<1> DEFINE m == MapFor(d)
<1> DEFINE old == Before(d).extra
<1> DEFINE after == Written(Before(d), d)
<1>1. merge(d)  BY DEF Sends
<1>2. /\ DOMAIN slots' = DOMAIN slots \cup {index}
      /\ slots'[index].extra = m
      /\ \A s \in DOMAIN slots : s # index => slots'[s] = slots[s]
      /\ \A s \in DOMAIN slots' : slots'[s].extra <= Len(after)
      /\ slots' \in [DOMAIN slots' -> Slot]
  <2>1. /\ DOMAIN slots' = DOMAIN slots \cup {slotFor(d)}
        /\ slots'[slotFor(d)] = Merged(Before(d), MapFor(d), d)
        /\ \A s \in DOMAIN slots : s # slotFor(d) => slots'[s] = slots[s]
        /\ \A s \in DOMAIN slots' : slots'[s].extra <= Len(Written(Before(d), d))
        /\ slots' \in [DOMAIN slots' -> Slot]
    BY <1>1, MergeSlots
  <2>2. Merged(Before(d), MapFor(d), d).extra = MapFor(d)  BY DEF Merged
  <2> QED BY <2>1, <2>2
<1>3. /\ after \in Seq(Extras) /\ Len(heap) <= Len(after)
      /\ m \in 0..Len(after)
      /\ m = old \/ m = Len(heap) + 1
      /\ \A a \in 1..Len(heap) : a # old => after[a] = heap[a]
  BY WrittenMaps
<1>4. /\ heap' \in Seq(Extras) /\ Len(after) <= Len(heap')
      /\ \A a \in 1..Len(after) : heap'[a] = after[a]
      /\ kept' \in Seq(Snapshot)
      /\ \/ kept' = kept
         \/ \A j \in 1..Len(kept') : \A i \in 1..Len(kept'[j].calls) :
              /\ kept'[j].calls[i].extra <= Len(heap')
              /\ \/ kept'[j].calls[i].extra = Nil
                 \/ kept'[j].calls[i].extra > Len(after)
              /\ Contents(heap', kept'[j].calls[i]) = kept'[j].seen[i]
  BY <1>1, MergeHeap
<1>5. /\ old = Nil \/ (index \in DOMAIN slots /\ slots[index].extra = old)
      /\ Len(heap) \in Nat
  BY DEF Before, Opens, EmptySlot, TypeOK
<1>6. \A s \in DOMAIN slots : slots[s].extra \in Nat /\ slots[s].extra <= Len(heap)
  BY DEF TypeOK, MapsOwned, Slot
<1> HIDE DEF index, m, old, after
<1>7. Len(after) \in Nat /\ Len(heap') \in Nat  BY <1>3, <1>4
<1>8. \A s \in DOMAIN slots' : slots'[s].extra \in Nat  BY <1>2 DEF Slot
<1>9. \A s \in DOMAIN slots' : slots'[s].extra <= Len(heap')
  BY <1>2, <1>4, <1>7, <1>8
<1>10. ASSUME NEW s \in DOMAIN slots, s # index, slots[s].extra # Nil
       PROVE  slots[s].extra # m
  <2>1. slots[s].extra # old  BY <1>5, <1>10 DEF MapsOwned
  <2> QED BY <1>3, <1>5, <1>6, <2>1
<1>11. \A s, t \in DOMAIN slots' :
         slots'[s].extra # Nil /\ slots'[s].extra = slots'[t].extra => s = t
  <2> SUFFICES ASSUME NEW s \in DOMAIN slots', NEW t \in DOMAIN slots',
                      slots'[s].extra # Nil, slots'[s].extra = slots'[t].extra,
                      s # t
               PROVE  FALSE
    OBVIOUS
  <2>1. CASE s = index
    <3>1. t \in DOMAIN slots /\ t # index  BY <1>2, <2>1
    <3>2. slots'[t] = slots[t]  BY <1>2, <3>1
    <3> QED BY <1>2, <1>10, <2>1, <3>1, <3>2
  <2>2. CASE t = index
    <3>1. s \in DOMAIN slots /\ s # index  BY <1>2, <2>2
    <3>2. slots'[s] = slots[s]  BY <1>2, <3>1
    <3> QED BY <1>2, <1>10, <2>2, <3>1, <3>2
  <2>3. CASE s # index /\ t # index
    <3>1. /\ s \in DOMAIN slots /\ t \in DOMAIN slots
          /\ slots'[s] = slots[s] /\ slots'[t] = slots[t]
      BY <1>2, <2>3
    <3> QED BY <3>1 DEF MapsOwned
  <2> QED BY <2>1, <2>2, <2>3
<1>12. CASE kept' = kept
  <2>1. ASSUME NEW j \in 1..Len(kept), NEW i \in 1..Len(kept[j].calls)
        PROVE  /\ kept[j].calls[i].extra <= Len(heap')
               /\ kept[j].calls[i].extra # Nil =>
                    \A s \in DOMAIN slots' : slots'[s].extra # kept[j].calls[i].extra
               /\ Contents(heap', kept[j].calls[i]) = kept[j].seen[i]
    <3> DEFINE call == kept[j].calls[i]
    <3>1. call \in Slot
      <4>1. kept[j] \in Snapshot  BY DEF TypeOK
      <4> QED BY <4>1 DEF Snapshot
    <3>2. /\ call.extra <= Len(heap)
          /\ call.extra # Nil => \A s \in DOMAIN slots : slots[s].extra # call.extra
          /\ Contents(heap, call) = kept[j].seen[i]
      BY DEF MapsOwned, SnapshotsFrozen
    <3> HIDE DEF call
    <3>3. call.extra \in Nat  BY <3>1 DEF Slot
    <3>4. call.extra <= Len(heap')  BY <1>3, <1>4, <1>5, <1>7, <3>2, <3>3
    <3>5. ASSUME call.extra # Nil
          PROVE  /\ \A s \in DOMAIN slots' : slots'[s].extra # call.extra
                 /\ heap'[call.extra] = heap[call.extra]
      <4>1. call.extra # old  BY <1>5, <3>2, <3>5
      <4>2. call.extra # m  BY <1>3, <1>5, <3>2, <3>3, <4>1
      <4>3. call.extra \in 1..Len(heap) /\ call.extra \in 1..Len(after)
        BY <1>3, <1>5, <1>7, <3>2, <3>3, <3>5 DEF Nil
      <4>4. heap'[call.extra] = heap[call.extra]
        BY <1>3, <1>4, <4>1, <4>3
      <4>5. \A s \in DOMAIN slots' : slots'[s].extra # call.extra
        BY <1>2, <3>2, <3>5, <4>2
      <4> QED BY <4>4, <4>5
    <3>6. Contents(heap', call) = Contents(heap, call)
      BY <3>5 DEF Contents
    <3> QED BY <3>2, <3>4, <3>5, <3>6 DEF call
  <2> QED BY <1>9, <1>11, <1>12, <2>1 DEF MapsOwned, SnapshotsFrozen
<1>13. CASE kept' # kept
  <2>1. ASSUME NEW j \in 1..Len(kept'), NEW i \in 1..Len(kept'[j].calls)
        PROVE  /\ kept'[j].calls[i].extra <= Len(heap')
               /\ kept'[j].calls[i].extra # Nil =>
                    \A s \in DOMAIN slots' : slots'[s].extra # kept'[j].calls[i].extra
               /\ Contents(heap', kept'[j].calls[i]) = kept'[j].seen[i]
    <3> DEFINE call == kept'[j].calls[i]
    <3>1. call \in Slot
      <4>1. kept'[j] \in Snapshot  BY <1>4
      <4> QED BY <4>1 DEF Snapshot
    <3>2. call.extra \in Nat  BY <3>1 DEF Slot
    <3>3. /\ call.extra <= Len(heap')
          /\ call.extra = Nil \/ call.extra > Len(after)
          /\ Contents(heap', call) = kept'[j].seen[i]
      BY <1>4, <1>13
    <3> HIDE DEF call
    <3>4. call.extra # Nil => \A s \in DOMAIN slots' : slots'[s].extra # call.extra
      BY <1>2, <1>7, <1>8, <3>2, <3>3
    <3> QED BY <3>3, <3>4 DEF call
  <2> QED BY <1>9, <1>11, <2>1 DEF MapsOwned, SnapshotsFrozen
<1> QED BY <1>12, <1>13

-----------------------------------------------------------------------------
(* The calls the provider speaks of and the slots they are in.             *)

(* The call of each slot: an indexed provider says which, a bare one fills *)
(* the slots in the order in which it begins its calls.                    *)
SlotsOfCalls ==
  /\ \A i, j \in 1..Len(begun) : begun[i] = begun[j] => i = j
  /\ \A k \in Call : ~ Has(begun, k) => told[k] = Unsaid
  /\ style = "indexed" =>
       /\ DOMAIN slots = {Position[k] : k \in Begun}
       /\ \A k \in Begun : Contents(heap, slots[Position[k]]) = told[k]
       /\ last # NoId => last \in Begun /\ lastSlot = Position[last]
  /\ style = "bare" =>
       /\ DOMAIN slots = 0..(Len(begun) - 1)
       /\ \A i \in 1..Len(begun) : Contents(heap, slots[i - 1]) = told[begun[i]]
       /\ IF begun = <<>> THEN lastSlot = NoIndex /\ last = NoId
                          ELSE lastSlot = Len(begun) - 1 /\ last = begun[Len(begun)]

LEMMA MergeContents ==
  ASSUME TypeOK, MapsOwned, NEW d \in Piece, merge(d)
  PROVE  /\ Contents(heap', slots'[slotFor(d)]) =
              [id |-> IF d.id # NoId THEN d.id ELSE Contents(heap, Before(d)).id,
               extra |-> IF d.extra = <<>> THEN Contents(heap, Before(d)).extra
                                           ELSE d.extra,
               arguments |-> Contents(heap, Before(d)).arguments \o d.arguments]
         /\ \A s \in DOMAIN slots : s # slotFor(d) =>
              Contents(heap', slots'[s]) = Contents(heap, slots[s])
<1> DEFINE index == slotFor(d)
<1> DEFINE m == MapFor(d)
<1> DEFINE slot == Before(d)
<1> DEFINE after == Written(slot, d)
<1>1. /\ slots'[index] = Merged(slot, m, d)
      /\ \A s \in DOMAIN slots : s # index => slots'[s] = slots[s]
  BY MergeSlots
<1>2. /\ after \in Seq(Extras) /\ Len(heap) <= Len(after)
      /\ m \in 0..Len(after)
      /\ \A a \in 1..Len(heap) : a # slot.extra => after[a] = heap[a]
      /\ (IF m = Nil THEN <<>> ELSE after[m])
           = IF d.extra = <<>> THEN Contents(heap, slot).extra ELSE d.extra
  BY WrittenMaps
<1>3. /\ heap' \in Seq(Extras) /\ Len(after) <= Len(heap')
      /\ \A a \in 1..Len(after) : heap'[a] = after[a]
  BY MergeHeap
<1>4. slot \in Slot /\ slot.extra <= Len(heap)  BY BeforeType
<1>5. slot.extra = Nil \/ (index \in DOMAIN slots /\ slots[index].extra = slot.extra)
  BY DEF Before, Opens, EmptySlot
<1>6. Contents(heap, slot).id = slot.id /\ Contents(heap, slot).arguments = slot.arguments
  BY <1>4, ContentsType DEF TypeOK
<1> HIDE DEF index, m, slot, after
<1>7. m # Nil => heap'[m] = after[m]  BY <1>2, <1>3 DEF Nil
<1>8. Contents(heap', slots'[index]) =
        [id |-> IF d.id # NoId THEN d.id ELSE slot.id,
         extra |-> IF m = Nil THEN <<>> ELSE heap'[m],
         arguments |-> slot.arguments \o d.arguments]
  <2> DEFINE id == IF d.id # NoId THEN d.id ELSE slot.id
  <2> DEFINE text == slot.arguments \o d.arguments
  <2> DEFINE extra == IF m = Nil THEN <<>> ELSE heap'[m]
  <2>1. slots'[index] = [id |-> id, extra |-> m, arguments |-> text]
    BY <1>1 DEF Merged
  <2>2. Contents(heap', [id |-> id, extra |-> m, arguments |-> text])
          = [[id |-> id, extra |-> m, arguments |-> text] EXCEPT !.extra = extra]
    BY DEF Contents
  <2> HIDE DEF id, text, extra
  <2>3. Contents(heap', slots'[index])
          = [id |-> id, extra |-> extra, arguments |-> text]
    BY <2>1, <2>2
  <2> QED BY <2>3 DEF id, text, extra
<1>9. ASSUME NEW s \in DOMAIN slots, s # index
      PROVE  Contents(heap', slots'[s]) = Contents(heap, slots[s])
  <2> DEFINE call == slots[s]
  <2>1. slots'[s] = call  BY <1>1, <1>9
  <2>2. call \in Slot /\ call.extra <= Len(heap)  BY DEF TypeOK, MapsOwned
  <2>3. call.extra # Nil => call.extra # slot.extra
    BY <1>5, <1>9 DEF MapsOwned
  <2> HIDE DEF call
  <2>4. Len(heap) \in Nat /\ Len(after) \in Nat  BY <1>2 DEF TypeOK
  <2>5. call.extra # Nil => call.extra \in 1..Len(heap) /\ call.extra \in 1..Len(after)
    BY <1>2, <2>2, <2>4 DEF Slot, Nil
  <2>6. call.extra # Nil => heap'[call.extra] = heap[call.extra]
    BY <1>2, <1>3, <2>3, <2>5
  <2>7. Contents(heap', call) = Contents(heap, call)
    BY <2>6 DEF Contents
  <2> QED BY <2>1, <2>7 DEF call
<1> QED
  BY <1>2, <1>6, <1>7, <1>8, <1>9 DEF index, slot

LEMMA StyleOf ==
  ASSUME TypeOK, "repeating" \notin Style
  PROVE  style = "indexed" \/ style = "bare"
BY StyleAssumption DEF TypeOK

LEMMA BegunAfter ==
  ASSUME TypeOK, NEW k \in Call, NEW d \in Piece, Sends(k, d)
  PROVE  /\ Begun' = Begun \cup {k}
         /\ begun' \in Seq(Call)
         /\ \A j : Has(begun', j) <=> Has(begun, j) \/ j = k
<1>1. CASE Has(begun, k)
  BY <1>1 DEF Sends, Begun, Has, TypeOK
<1>2. CASE ~ Has(begun, k)
  <2>1. begun' = Append(begun, k)  BY <1>2 DEF Sends
  <2>2. \A j : Has(begun', j) <=> Has(begun, j) \/ j = k
    BY <2>1 DEF Has, TypeOK
  <2>3. Begun' = Begun \cup {k}  BY <2>2 DEF Begun
  <2> QED BY <2>1, <2>2, <2>3 DEF TypeOK
<1> QED BY <1>1, <1>2

(* A piece of a call goes to the slot of that call, or to a new one if it  *)
(* is the first of it.                                                     *)
LEMMA RightSlot ==
  ASSUME TypeOK, SlotsOfCalls, "repeating" \notin Style,
         NEW k \in Call, NEW d \in Piece, Sends(k, d)
  PROVE  /\ style = "indexed" => slotFor(d) = Position[k]
         /\ style = "bare" =>
              IF Has(begun, k)
                THEN /\ begun # <<>> /\ k = begun[Len(begun)]
                     /\ slotFor(d) = Len(begun) - 1
                ELSE slotFor(d) = Len(begun)
         /\ d.id \in {k, NoId}
         /\ Opens(d) <=> ~ Has(begun, k)
         /\ Contents(heap, Before(d)) = told[k]
<1>0. k # NoId /\ NoIndex \notin Nat
  BY NoIndexAssumption DEF Call, NoId
<1>1. d.id \in {k, NoId}
  <2>1. d.id \in Ids(k) /\ style # "repeating"  BY StyleOf DEF Sends
  <2>2. CASE ~ Has(begun, k) /\ begun # <<>>  BY <2>1, <2>2 DEF Ids
  <2>3. CASE ~ Has(begun, k) /\ begun = <<>>  BY <2>1, <2>3 DEF Ids
  <2>4. CASE Has(begun, k)  BY <2>1, <2>4 DEF Ids
  <2> QED BY <2>2, <2>3, <2>4
<1>2. Contents(heap, EmptySlot) = Unsaid
  BY DEF Unsaid, Contents, EmptySlot
<1>3. CASE style = "indexed"
  <2>1. Position[k] \in Nat  BY PositionAssumption
  <2>2. slotFor(d) = Position[k]
    <3>1. CASE last = k
      <4>1. d.index \in {Position[k], NoIndex}
        BY <1>3, <3>1 DEF Sends, Indexes
      <4>2. d.index # NoIndex => slotFor(d) = Position[k]
        BY <4>1 DEF slotFor
      <4>3. lastSlot = Position[k] /\ Has(begun, k)
        BY <1>0, <1>3, <3>1 DEF SlotsOfCalls, Begun
      <4>4. d.id = NoId
        <5>1. style # "repeating"  BY <1>3
        <5> QED BY <4>3, <5>1 DEF Sends, Ids
      <4>5. d.index = NoIndex => slotFor(d) = lastSlot
        BY <1>0, <2>1, <4>3, <4>4 DEF slotFor
      <4> QED BY <4>2, <4>3, <4>5
    <3>2. CASE last # k
      <4>1. d.index = Position[k]  BY <1>3, <3>2 DEF Sends, Indexes
      <4> QED BY <1>0, <2>1, <4>1 DEF slotFor
    <3> QED BY <3>1, <3>2
  <2>3. Opens(d) <=> ~ Has(begun, k)
    <3>1. DOMAIN slots = {Position[j] : j \in Begun}
      BY <1>3 DEF SlotsOfCalls
    <3>2. Position[k] \in DOMAIN slots <=> k \in Begun
      BY <3>1, PositionAssumption DEF Begun
    <3> QED BY <2>2, <3>2 DEF Opens, Begun
  <2>4. Contents(heap, Before(d)) = told[k]
    <3>1. CASE Has(begun, k)
      BY <1>3, <2>2, <2>3, <3>1 DEF SlotsOfCalls, Before, Begun
    <3>2. CASE ~ Has(begun, k)
      BY <1>2, <2>3, <3>2 DEF SlotsOfCalls, Before
    <3> QED BY <3>1, <3>2
  <2> QED BY <1>1, <1>3, <2>2, <2>3, <2>4
<1>4. CASE style = "bare"
  <2> DEFINE n == Len(begun)
  <2>0. n \in Nat /\ begun \in Seq(Call)  BY DEF TypeOK
  <2>1. /\ DOMAIN slots = 0..(n - 1)
        /\ \A i \in 1..n : Contents(heap, slots[i - 1]) = told[begun[i]]
        /\ begun = <<>> => lastSlot = NoIndex
        /\ begun # <<>> => lastSlot = n - 1 /\ last = begun[n]
    BY <1>4 DEF SlotsOfCalls
  <2>2. d.index = NoIndex
    <3>1. Indexes(k) = {NoIndex}  BY <1>4 DEF Indexes
    <3> QED BY <3>1 DEF Sends
  <2>3. CASE Has(begun, k)
    <3>1. last = k  BY <1>4, <2>3 DEF Sends, Contiguous
    <3>2. begun # <<>> /\ n \in 1..n  BY <2>0, <2>3 DEF Has
    <3>3. lastSlot = n - 1 /\ k = begun[n] /\ lastSlot # NoIndex
      BY <1>0, <2>0, <2>1, <3>1, <3>2
    <3>4. d.id = NoId
      <4>1. style # "repeating"  BY <1>4
      <4> QED BY <2>3, <4>1 DEF Sends, Ids
    <3>5. slotFor(d) = n - 1  BY <2>2, <3>3, <3>4 DEF slotFor
    <3>6. ~ Opens(d)  BY <2>0, <2>1, <3>2, <3>5 DEF Opens
    <3>7. Contents(heap, Before(d)) = told[k]
      BY <2>1, <3>2, <3>3, <3>5, <3>6 DEF Before
    <3> QED BY <1>1, <1>4, <2>3, <3>2, <3>3, <3>5, <3>6, <3>7
  <2>4. CASE ~ Has(begun, k)
    <3>1. d.id # NoId \/ lastSlot = NoIndex
      <4>1. CASE begun # <<>>
        BY <1>0, <2>4, <4>1 DEF Sends, Ids
      <4>2. CASE begun = <<>>  BY <2>1, <4>2
      <4> QED BY <4>1, <4>2
    <3>2. slotFor(d) = NextSlot  BY <2>2, <3>1 DEF slotFor
    <3>3. NextSlot = n
      <4>1. CASE n = 0
        <5>1. DOMAIN slots = {}  BY <2>0, <2>1, <4>1
        <5>2. NextSlot = 0  BY <5>1, NextSlotIsFree
        <5> QED BY <4>1, <5>2
      <4>2. CASE n # 0
        <5>1. slots # <<>>  BY <2>0, <2>1, <4>2
        <5> DEFINE top == CHOOSE s \in 0..(n - 1) : \A t \in 0..(n - 1) : t <= s
        <5>2. NextSlot = 1 + top
          BY <2>1, <5>1 DEF NextSlot
        <5>3. /\ n - 1 \in 0..(n - 1)
              /\ \A s \in 0..(n - 1) : (\A t \in 0..(n - 1) : t <= s) <=> s = n - 1
          BY <2>0, <4>2
        <5>4. top = n - 1  BY <5>3
        <5> HIDE DEF top
        <5> QED BY <2>0, <5>2, <5>4
      <4> QED BY <4>1, <4>2
    <3>4. Opens(d)  BY <2>0, <2>1, <3>2, <3>3 DEF Opens
    <3>5. Contents(heap, Before(d)) = told[k]
      BY <1>2, <2>4, <3>4 DEF SlotsOfCalls, Before
    <3> QED BY <1>1, <1>4, <2>4, <3>2, <3>3, <3>4, <3>5
  <2> QED BY <2>3, <2>4
<1> QED BY <1>3, <1>4, StyleOf

LEMMA SendsSlots ==
  ASSUME TypeOK, MapsOwned, SlotsOfCalls, "repeating" \notin Style,
         NEW k \in Call, NEW d \in Piece, Sends(k, d)
  PROVE  SlotsOfCalls'
<1> DEFINE index == slotFor(d)
<1> DEFINE new == [id |-> IF d.id = NoId THEN told[k].id ELSE k,
                   extra |-> IF d.extra = <<>> THEN told[k].extra ELSE d.extra,
                   arguments |-> told[k].arguments \o d.arguments]
<1>0. /\ merge(d) /\ told' = [told EXCEPT ![k] = new]
      /\ begun' = IF Has(begun, k) THEN begun ELSE Append(begun, k)
      /\ last' = k /\ style' = style
      /\ told \in [Call -> Whole] /\ begun \in Seq(Call)
  BY DEF Sends, TypeOK
<1>1. /\ style = "indexed" => index = Position[k]
      /\ style = "bare" =>
           IF Has(begun, k)
             THEN /\ begun # <<>> /\ k = begun[Len(begun)]
                  /\ index = Len(begun) - 1
             ELSE index = Len(begun)
      /\ d.id \in {k, NoId}
      /\ Contents(heap, Before(d)) = told[k]
  BY RightSlot
<1>2. Contents(heap', slots'[index]) = told'[k]
  <2>1. Contents(heap', slots'[index]) = new
    <3>1. (IF d.id # NoId THEN d.id ELSE told[k].id)
            = IF d.id = NoId THEN told[k].id ELSE k
      BY <1>1
    <3>2. Contents(heap', slots'[index]) =
            [id |-> IF d.id # NoId THEN d.id ELSE told[k].id,
             extra |-> IF d.extra = <<>> THEN told[k].extra ELSE d.extra,
             arguments |-> told[k].arguments \o d.arguments]
      BY <1>0, <1>1, MergeContents
    <3> QED BY <3>1, <3>2
  <2> HIDE DEF new
  <2> QED BY <1>0, <2>1
<1>3. \A s \in DOMAIN slots : s # index =>
        Contents(heap', slots'[s]) = Contents(heap, slots[s])
  BY <1>0, MergeContents
<1>4. DOMAIN slots' = DOMAIN slots \cup {index} /\ lastSlot' = index
  BY <1>0, MergeSlots
<1>5. /\ Begun' = Begun \cup {k}
      /\ \A j : Has(begun', j) <=> Has(begun, j) \/ j = k
  BY BegunAfter
<1> HIDE DEF index, new
<1>6. \A j \in Call : j # k => told'[j] = told[j]
  BY <1>0
<1>7. \A i, j \in 1..Len(begun') : begun'[i] = begun'[j] => i = j
  <2>1. CASE Has(begun, k)  BY <1>0, <2>1 DEF SlotsOfCalls
  <2>2. CASE ~ Has(begun, k)
    <3>1. begun' = Append(begun, k)  BY <1>0, <2>2
    <3>2. \A i \in 1..Len(begun) : begun[i] # k  BY <2>2 DEF Has
    <3> QED BY <1>0, <3>1, <3>2 DEF SlotsOfCalls
  <2> QED BY <2>1, <2>2
<1>8. \A j \in Call : ~ Has(begun', j) => told'[j] = Unsaid
  BY <1>5, <1>6 DEF SlotsOfCalls
<1>9. ASSUME style = "indexed"
      PROVE  /\ DOMAIN slots' = {Position[j] : j \in Begun'}
             /\ \A j \in Begun' : Contents(heap', slots'[Position[j]]) = told'[j]
             /\ last' # NoId => last' \in Begun' /\ lastSlot' = Position[last']
  <2>1. /\ DOMAIN slots = {Position[j] : j \in Begun}
        /\ \A j \in Begun : Contents(heap, slots[Position[j]]) = told[j]
    BY <1>9 DEF SlotsOfCalls
  <2>2. index = Position[k]  BY <1>1, <1>9
  <2>3. ASSUME NEW j \in Begun'
        PROVE  Contents(heap', slots'[Position[j]]) = told'[j]
    <3>1. CASE j = k  BY <1>2, <2>2, <3>1
    <3>2. CASE j # k
      <4>1. j \in Begun /\ j \in Call  BY <1>5, <3>2 DEF Begun
      <4>2. Position[j] # index  BY <2>2, <3>2, <4>1, PositionAssumption
      <4>3. Position[j] \in DOMAIN slots  BY <2>1, <4>1
      <4> QED BY <1>3, <1>6, <2>1, <3>2, <4>1, <4>2, <4>3
    <3> QED BY <3>1, <3>2
  <2>4. DOMAIN slots' = {Position[j] : j \in Begun'}
    BY <1>4, <1>5, <2>1, <2>2
  <2> QED BY <1>0, <1>4, <1>5, <2>2, <2>3, <2>4
<1>10. ASSUME style = "bare"
       PROVE  /\ DOMAIN slots' = 0..(Len(begun') - 1)
              /\ \A i \in 1..Len(begun') :
                   Contents(heap', slots'[i - 1]) = told'[begun'[i]]
              /\ IF begun' = <<>>
                   THEN lastSlot' = NoIndex /\ last' = NoId
                   ELSE lastSlot' = Len(begun') - 1 /\ last' = begun'[Len(begun')]
  <2>0. Len(begun) \in Nat  BY <1>0
  <2>1. /\ DOMAIN slots = 0..(Len(begun) - 1)
        /\ \A i \in 1..Len(begun) : Contents(heap, slots[i - 1]) = told[begun[i]]
    BY <1>10 DEF SlotsOfCalls
  <2>2. CASE Has(begun, k)
    <3>1. /\ begun # <<>> /\ k = begun[Len(begun)] /\ index = Len(begun) - 1
          /\ begun' = begun
      BY <1>0, <1>1, <1>10, <2>2
    <3>2. Len(begun) # 0  BY <1>0, <3>1
    <3>3. DOMAIN slots' = 0..(Len(begun) - 1)
      BY <1>4, <2>0, <2>1, <3>1, <3>2
    <3>4. ASSUME NEW i \in 1..Len(begun)
          PROVE  Contents(heap', slots'[i - 1]) = told'[begun[i]]
      <4>1. CASE i = Len(begun)  BY <1>2, <3>1, <4>1
      <4>2. CASE i # Len(begun)
        <5>1. begun[i] # k /\ begun[i] \in Call
          BY <1>0, <2>0, <3>1, <3>2, <4>2 DEF SlotsOfCalls
        <5>2. i - 1 \in DOMAIN slots /\ i - 1 # index
          BY <2>0, <2>1, <3>1, <4>2
        <5> QED BY <1>3, <1>6, <2>1, <5>1, <5>2
      <4> QED BY <4>1, <4>2
    <3> QED BY <1>0, <1>4, <3>1, <3>3, <3>4
  <2>3. CASE ~ Has(begun, k)
    <3>1. index = Len(begun) /\ begun' = Append(begun, k)
      BY <1>0, <1>1, <1>10, <2>3
    <3>2. /\ Len(begun') = Len(begun) + 1 /\ begun'[Len(begun) + 1] = k
          /\ \A i \in 1..Len(begun) : begun'[i] = begun[i]
          /\ begun' # <<>>
      BY <1>0, <3>1
    <3>3. DOMAIN slots' = 0..(Len(begun') - 1)
      BY <1>4, <2>0, <2>1, <3>1, <3>2
    <3>4. ASSUME NEW i \in 1..Len(begun')
          PROVE  Contents(heap', slots'[i - 1]) = told'[begun'[i]]
      <4>1. CASE i = Len(begun) + 1
        <5>1. i - 1 = index /\ begun'[i] = k  BY <2>0, <3>1, <3>2, <4>1
        <5> QED BY <1>2, <5>1
      <4>2. CASE i # Len(begun) + 1
        <5>1. i \in 1..Len(begun)  BY <2>0, <3>2, <4>2
        <5>2. begun'[i] = begun[i] /\ begun[i] # k /\ begun[i] \in Call
          BY <1>0, <2>3, <3>2, <5>1 DEF Has
        <5>3. i - 1 \in DOMAIN slots /\ i - 1 # index
          BY <2>0, <2>1, <3>1, <5>1
        <5> QED BY <1>3, <1>6, <2>1, <5>1, <5>2, <5>3
      <4> QED BY <4>1, <4>2
    <3> QED BY <1>0, <1>4, <2>0, <3>1, <3>2, <3>3, <3>4
  <2> QED BY <2>2, <2>3
<1> QED BY <1>0, <1>7, <1>8, <1>9, <1>10 DEF SlotsOfCalls

-----------------------------------------------------------------------------
(* What a consumer of the events rebuilds, of any sequence of them.        *)
Starts(es) == {i \in 1..Len(es) : es[i].kind = "start"}

Deltas(es, index) ==
  {i \in 1..Len(es) : es[i].kind = "delta" /\ es[i].index = index}

TextOf(es, index) ==
  LET deltas == InOrder(Deltas(es, index))
  IN  [i \in 1..Len(deltas) |-> es[deltas[i]].arguments[1]]

(* The events are of these slots and spell these arguments.                *)
Spells(es, arguments) ==
  /\ \A s \in DOMAIN arguments : TextOf(es, s) = arguments[s]
  /\ {es[i].index : i \in Starts(es)} = DOMAIN arguments
  /\ \A i, j \in Starts(es) : es[i].index = es[j].index => i = j
  /\ \A i \in 1..Len(es) :
        \E j \in Starts(es) : j <= i /\ es[j].index = es[i].index

LEMMA DeltasFinite ==
  ASSUME NEW es \in Seq(Notice), NEW index
  PROVE  Deltas(es, index) \in SUBSET Nat /\ IsFiniteSet(Deltas(es, index))
<1>1. Deltas(es, index) \in SUBSET (1..Len(es))  BY DEF Deltas
<1>2. IsFiniteSet(1..Len(es))  BY FS_Interval
<1> QED BY <1>1, <1>2, FS_Subset

(* Events that are not deltas of a slot add nothing to its text.           *)
LEMMA OtherEvents ==
  ASSUME NEW es \in Seq(Notice), NEW e \in Notice, NEW index,
         ~ (e.kind = "delta" /\ e.index = index)
  PROVE  TextOf(Append(es, e), index) = TextOf(es, index)
<1>1. Deltas(Append(es, e), index) = Deltas(es, index)
  BY AppendFacts DEF Deltas
<1> DEFINE deltas == InOrder(Deltas(es, index))
<1>2. /\ Len(deltas) \in Nat
      /\ \A i \in 1..Len(deltas) : deltas[i] \in 1..Len(es)
  <2>1. /\ Len(deltas) = Cardinality(Deltas(es, index))
        /\ deltas \in [1..Cardinality(Deltas(es, index)) -> Deltas(es, index)]
        /\ Cardinality(Deltas(es, index)) \in Nat
    BY DeltasFinite, Enumeration
  <2>2. Deltas(es, index) \subseteq 1..Len(es)  BY DEF Deltas
  <2> HIDE DEF deltas
  <2> QED BY <2>1, <2>2
<1> HIDE DEF deltas
<1>3. \A i \in 1..Len(deltas) : Append(es, e)[deltas[i]] = es[deltas[i]]
  BY <1>2, AppendFacts
<1> QED BY <1>1, <1>3 DEF TextOf, deltas

(* A delta of the slot adds its word.                                      *)
LEMMA OneMoreDelta ==
  ASSUME NEW es \in Seq(Notice), NEW index \in Nat, NEW word \in Nat,
         TextOf(es, index) \in Words
  PROVE  TextOf(Append(es, Event("delta", index, <<word>>)), index)
           = Append(TextOf(es, index), word)
<1> DEFINE e == Event("delta", index, <<word>>)
<1> DEFINE new == Append(es, e)
<1> DEFINE S == Deltas(es, index)
<1> DEFINE n == Cardinality(S)
<1> DEFINE text == TextOf(es, index)
<1> DEFINE longer == TextOf(new, index)
<1>0. e \in Notice /\ e.kind = "delta" /\ e.index = index /\ e.arguments[1] = word
  BY DEF Event, Notice, Words
<1>1. /\ new \in Seq(Notice) /\ Len(new) = Len(es) + 1
      /\ new[Len(es) + 1] = e
      /\ \A i \in 1..Len(es) : new[i] = es[i]
  BY <1>0, AppendFacts
<1>2. Deltas(new, index) = S \cup {Len(es) + 1}
  <2> HIDE DEF e, new
  <2> QED BY <1>0, <1>1 DEF Deltas
<1>3. /\ S \in SUBSET Nat /\ IsFiniteSet(S) /\ n \in Nat
      /\ InOrder(S) \in [1..n -> S] /\ Len(InOrder(S)) = n
  BY DeltasFinite, Enumeration
<1>4. S \subseteq 1..Len(es)  BY DEF Deltas
<1> DEFINE T == S \cup {Len(es) + 1}
<1>5. /\ IsFiniteSet(T) /\ Cardinality(T) = n + 1
      /\ InOrder(T)[n + 1] = Len(es) + 1
      /\ \A i \in 1..n : InOrder(T)[i] = InOrder(S)[i]
  <2>1. \A s \in S : s < Len(es) + 1  BY <1>4
  <2>2. Len(es) + 1 \in Nat  OBVIOUS
  <2> HIDE DEF S
  <2> QED BY <1>3, <2>1, <2>2, JoinsAtEnd
<1>6. T \in SUBSET Nat  BY <1>3
<1>7. Len(InOrder(T)) = n + 1  BY <1>5, <1>6, Enumeration
<1>8. text = [i \in 1..n |-> es[InOrder(S)[i]].arguments[1]]
  BY <1>3 DEF TextOf
<1>9. longer = [i \in 1..(n + 1) |-> new[InOrder(T)[i]].arguments[1]]
  BY <1>2, <1>7 DEF TextOf
<1> HIDE DEF e, new, S, n, text, longer, T
<1>10. text \in Seq(Nat) /\ Len(text) = n
  BY <1>3, <1>8 DEF text, Words
<1>11. \A i \in 1..n : longer[i] = text[i]
  <2>1. \A i \in 1..n : InOrder(S)[i] \in 1..Len(es)  BY <1>3, <1>4
  <2> QED BY <1>1, <1>3, <1>5, <1>8, <1>9, <2>1
<1>12. longer[n + 1] = word
  BY <1>0, <1>1, <1>3, <1>5, <1>9
<1>13. longer = Append(text, word)
  <2>1. /\ Append(text, word) \in Seq(Nat) /\ Len(Append(text, word)) = n + 1
        /\ \A i \in 1..(n + 1) : longer[i] = Append(text, word)[i]
    BY <1>3, <1>10, <1>11, <1>12, AppendFacts
  <2>2. longer = [i \in 1..(n + 1) |-> longer[i]]  BY <1>9
  <2>3. Append(text, word) = [i \in 1..(n + 1) |-> Append(text, word)[i]]
    BY <2>1, SeqIsFunction
  <2> QED BY <2>1, <2>2, <2>3
<1> QED BY <1>13 DEF longer, text, new, e

LEMMA SpellsStart ==
  ASSUME NEW es \in Seq(Notice), NEW arguments, Spells(es, arguments),
         NEW index \in Nat, index \notin DOMAIN arguments,
         NEW next, DOMAIN next = DOMAIN arguments \cup {index},
         next[index] = <<>>,
         \A s \in DOMAIN arguments : next[s] = arguments[s]
  PROVE  Spells(Append(es, Event("start", index, <<>>)), next)
<1> DEFINE e == Event("start", index, <<>>)
<1> DEFINE new == Append(es, e)
<1>0. e \in Notice /\ e.kind = "start" /\ e.index = index
  BY DEF Event, Notice, Words
<1>1. /\ new \in Seq(Notice) /\ Len(new) = Len(es) + 1 /\ Len(es) \in Nat
      /\ new[Len(es) + 1] = e
      /\ \A i \in 1..Len(es) : new[i] = es[i]
  BY <1>0, AppendFacts
<1> HIDE DEF e
<1>2. \A s : TextOf(new, s) = TextOf(es, s)
  BY <1>0, OtherEvents
<1> HIDE DEF new
<1>3. \A i \in 1..Len(es) : es[i].index # index
  BY DEF Spells
<1>4. TextOf(es, index) = <<>>
  <2>1. Deltas(es, index) = {}  BY <1>3 DEF Deltas
  <2>2. Len(InOrder({})) = 0
    BY Enumeration, FS_EmptySet
  <2> QED BY <2>1, <2>2 DEF TextOf
<1>5. Starts(new) = Starts(es) \cup {Len(es) + 1}
  BY <1>0, <1>1 DEF Starts
<1>6. \A i \in Starts(es) : i \in 1..Len(es)  BY DEF Starts
<1>7. \A s \in DOMAIN next : TextOf(new, s) = next[s]
  BY <1>2, <1>4 DEF Spells
<1>8. {new[i].index : i \in Starts(new)} = DOMAIN next
  <2>1. {new[i].index : i \in Starts(new)}
          = {new[i].index : i \in Starts(es)} \cup {index}
    BY <1>0, <1>1, <1>5
  <2>2. {new[i].index : i \in Starts(es)} = {es[i].index : i \in Starts(es)}
    BY <1>1, <1>6
  <2> QED BY <2>1, <2>2 DEF Spells
<1>9. \A i, j \in Starts(new) : new[i].index = new[j].index => i = j
  BY <1>0, <1>1, <1>3, <1>5, <1>6 DEF Spells
<1>10. ASSUME NEW i \in 1..Len(new)
       PROVE  \E j \in Starts(new) : j <= i /\ new[j].index = new[i].index
  <2>1. CASE i = Len(es) + 1  BY <1>1, <1>5, <2>1
  <2>2. CASE i # Len(es) + 1
    <3>1. i \in 1..Len(es)  BY <1>1, <2>2
    <3>2. PICK j \in Starts(es) : j <= i /\ es[j].index = es[i].index
      BY <3>1 DEF Spells
    <3> QED BY <1>1, <1>5, <1>6, <3>1, <3>2
  <2> QED BY <2>1, <2>2
<1>11. Spells(new, next)
  BY <1>7, <1>8, <1>9, <1>10 DEF Spells
<1> QED BY <1>11 DEF new, e

LEMMA SpellsDelta ==
  ASSUME NEW es \in Seq(Notice), NEW arguments, Spells(es, arguments),
         NEW index \in Nat, index \in DOMAIN arguments,
         arguments[index] \in Words, NEW word \in Nat,
         NEW next, DOMAIN next = DOMAIN arguments,
         next[index] = Append(arguments[index], word),
         \A s \in DOMAIN arguments : s # index => next[s] = arguments[s]
  PROVE  Spells(Append(es, Event("delta", index, <<word>>)), next)
<1> DEFINE e == Event("delta", index, <<word>>)
<1> DEFINE new == Append(es, e)
<1>0. e \in Notice /\ e.kind = "delta" /\ e.index = index
  BY DEF Event, Notice, Words
<1>1. /\ new \in Seq(Notice) /\ Len(new) = Len(es) + 1 /\ Len(es) \in Nat
      /\ new[Len(es) + 1] = e
      /\ \A i \in 1..Len(es) : new[i] = es[i]
  BY <1>0, AppendFacts
<1>2. TextOf(new, index) = next[index]
  <2>1. TextOf(es, index) = arguments[index]  BY DEF Spells
  <2> QED BY <2>1, OneMoreDelta
<1> HIDE DEF e
<1>3. \A s : s # index => TextOf(new, s) = TextOf(es, s)
  BY <1>0, OtherEvents
<1> HIDE DEF new
<1>4. Starts(new) = Starts(es)
  BY <1>0, <1>1 DEF Starts
<1>5. \A i \in Starts(es) : i \in 1..Len(es)  BY DEF Starts
<1>6. \A s \in DOMAIN next : TextOf(new, s) = next[s]
  BY <1>2, <1>3 DEF Spells
<1>7. {new[i].index : i \in Starts(new)} = DOMAIN next
  <2>1. {new[i].index : i \in Starts(new)} = {es[i].index : i \in Starts(es)}
    BY <1>1, <1>4, <1>5
  <2> QED BY <2>1 DEF Spells
<1>8. \A i, j \in Starts(new) : new[i].index = new[j].index => i = j
  BY <1>1, <1>4, <1>5 DEF Spells
<1>9. ASSUME NEW i \in 1..Len(new)
      PROVE  \E j \in Starts(new) : j <= i /\ new[j].index = new[i].index
  <2>1. CASE i = Len(es) + 1
    <3>1. PICK j \in Starts(es) : es[j].index = index
      BY DEF Spells
    <3> QED BY <1>0, <1>1, <1>4, <1>5, <2>1, <3>1
  <2>2. CASE i # Len(es) + 1
    <3>1. i \in 1..Len(es)  BY <1>1, <2>2
    <3>2. PICK j \in Starts(es) : j <= i /\ es[j].index = es[i].index
      BY <3>1 DEF Spells
    <3> QED BY <1>1, <1>4, <1>5, <3>1, <3>2
  <2> QED BY <2>1, <2>2
<1>10. Spells(new, next)
  BY <1>6, <1>7, <1>8, <1>9 DEF Spells
<1> QED BY <1>10 DEF new, e

-----------------------------------------------------------------------------
(* The events and the slots tell the same.                                 *)
Arguments == [s \in DOMAIN slots |-> slots[s].arguments]

Ends == InOrder(EventsOf("end"))

EventsMatch ==
  /\ Spells(events, Arguments)
  /\ IF ended
       THEN [i \in 1..Len(Ends) |-> events[Ends[i]].arguments]
              = [i \in 1..Len(result) |-> result[i].arguments]
       ELSE \A i \in 1..Len(events) : events[i].kind # "end"

LEMMA MatchRebuilds ==
  ASSUME EventsMatch
  PROVE  EventsRebuildCalls
<1>1. EventsOf("start") = Starts(events)  BY DEF EventsOf, Starts
<1>2. ASSUME NEW s  PROVE Received(s) = TextOf(events, s)
  <2>1. {i \in EventsOf("delta") : events[i].index = s} = Deltas(events, s)
    BY DEF EventsOf, Deltas
  <2> QED BY <2>1 DEF Received, TextOf
<1>3. \A s \in DOMAIN slots : Received(s) = slots[s].arguments
  BY <1>2 DEF EventsMatch, Spells, Arguments
<1>4. {events[i].index : i \in EventsOf("start")} = DOMAIN slots
  BY <1>1 DEF EventsMatch, Spells, Arguments
<1> QED BY <1>1, <1>3, <1>4 DEF EventsMatch, Spells, EventsRebuildCalls, Ends

LEMMA SendsEvents ==
  ASSUME TypeOK, MapsOwned, EventsMatch,
         NEW k \in Call, NEW d \in Piece, Sends(k, d)
  PROVE  EventsMatch'
<1> DEFINE index == slotFor(d)
<1> DEFINE opening == Opens(d)
<1> DEFINE begunText == Before(d).arguments
<1> DEFINE start == Event("start", index, <<>>)
<1> DEFINE es == IF opening THEN Append(events, start) ELSE events
<1> DEFINE middle == [s \in DOMAIN slots \cup {index} |->
                        IF s = index THEN begunText ELSE slots[s].arguments]
<1>1. /\ merge(d) /\ ~ ended /\ ended' = ended
      /\ d.arguments = <<>> \/ \E word \in Nat : d.arguments = <<word>>
  BY DEF Sends
<1>2. index \in Nat  BY SlotForType
<1>3. start \in Notice /\ events \in Seq(Notice)
  BY <1>2 DEF Event, Notice, Words, TypeOK
<1>4. begunText \in Words  BY BeforeType DEF Slot
<1>5. /\ DOMAIN slots' = DOMAIN slots \cup {index}
      /\ slots'[index].arguments = begunText \o d.arguments
      /\ \A s \in DOMAIN slots : s # index => slots'[s].arguments = slots[s].arguments
  <2>1. /\ DOMAIN slots' = DOMAIN slots \cup {slotFor(d)}
        /\ slots'[slotFor(d)] = Merged(Before(d), MapFor(d), d)
        /\ \A s \in DOMAIN slots : s # slotFor(d) => slots'[s] = slots[s]
    BY <1>1, MergeSlots
  <2>2. Merged(Before(d), MapFor(d), d).arguments = Before(d).arguments \o d.arguments
    BY DEF Merged
  <2> QED BY <2>1, <2>2
<1>6. /\ opening => index \notin DOMAIN slots /\ begunText = <<>>
      /\ ~ opening => index \in DOMAIN slots /\ begunText = slots[index].arguments
  BY DEF Before, Opens, EmptySlot
<1>7. events' = IF d.arguments # <<>>
                  THEN Append(es, Event("delta", index, d.arguments)) ELSE es
  <2>1. events' = events \o toolFragment(index, opening, d.arguments)
    BY <1>1 DEF merge, Opens
  <2>2. ASSUME NEW a, NEW b
        PROVE  /\ events \o (<<a>> \o <<b>>) = Append(Append(events, a), b)
               /\ events \o (<<a>> \o <<>>) = Append(events, a)
               /\ events \o (<<>> \o <<b>>) = Append(events, b)
               /\ events \o (<<>> \o <<>>) = events
    BY <1>3
  <2> QED BY <2>1, <2>2 DEF toolFragment
<1>8. ASSUME NEW word \in Nat
      PROVE  Event("delta", index, <<word>>) \in Notice
  BY <1>2 DEF Event, Notice, Words
<1>9. start.kind = "start" /\ \A text : Event("delta", index, text).kind = "delta"
  BY DEF Event
<1>10. Spells(events, Arguments)  BY DEF EventsMatch
<1>11. DOMAIN Arguments = DOMAIN slots
       /\ \A s \in DOMAIN slots : Arguments[s] = slots[s].arguments
  BY DEF Arguments
<1>12. Spells(es, middle)
  <2>1. CASE opening
    <3>1. /\ DOMAIN middle = DOMAIN Arguments \cup {index}
          /\ middle[index] = <<>>
          /\ \A s \in DOMAIN Arguments : middle[s] = Arguments[s]
          /\ index \notin DOMAIN Arguments
      BY <1>6, <1>11, <2>1
    <3>2. es = Append(events, start)  BY <2>1
    <3> HIDE DEF middle, index, es
    <3> QED BY <1>2, <1>3, <1>10, <3>1, <3>2, SpellsStart DEF index
  <2>2. CASE ~ opening
    <3>1. middle = Arguments  BY <1>6, <2>2 DEF Arguments
    <3> QED BY <1>10, <2>2, <3>1
  <2> QED BY <2>1, <2>2
<1>13. es \in Seq(Notice) /\ \A i \in 1..Len(es) : es[i].kind # "end"
  <2>1. \A i \in 1..Len(events) : events[i].kind # "end"
    BY <1>1 DEF EventsMatch
  <2> HIDE DEF start
  <2>2. Append(events, start) \in Seq(Notice)
        /\ \A i \in 1..Len(Append(events, start)) : Append(events, start)[i].kind # "end"
    BY <1>3, <1>9, <2>1, AppendFacts
  <2> QED BY <1>3, <2>1, <2>2
<1>14. /\ DOMAIN middle = DOMAIN slots' /\ middle[index] = begunText
       /\ \A s \in DOMAIN slots' : s # index => middle[s] = slots'[s].arguments
  BY <1>5
<1>15. DOMAIN Arguments' = DOMAIN slots'
       /\ \A s \in DOMAIN slots' : Arguments'[s] = slots'[s].arguments
  BY DEF Arguments
<1>16. middle = [s \in DOMAIN middle |-> middle[s]]  OBVIOUS
<1> HIDE DEF es, middle, index, begunText
<1>17. index \in DOMAIN slots'  BY <1>5
<1>18. CASE d.arguments = <<>>
  <2>1. begunText \o <<>> = begunText  BY <1>4 DEF Words
  <2>2. Arguments' = middle
    <3>1. \A s \in DOMAIN slots' : middle[s] = slots'[s].arguments
      BY <1>5, <1>14, <1>18, <2>1
    <3> QED BY <1>14, <1>16, <3>1 DEF Arguments
  <2>3. events' = es  BY <1>7, <1>18
  <2> QED BY <1>1, <1>12, <1>13, <2>2, <2>3 DEF EventsMatch
<1>19. CASE d.arguments # <<>>
  <2>1. PICK word \in Nat : d.arguments = <<word>>  BY <1>1, <1>19
  <2>2. begunText \o <<word>> = Append(begunText, word)  BY <1>4 DEF Words
  <2>3. events' = Append(es, Event("delta", index, <<word>>))
    BY <1>7, <1>19, <2>1
  <2>4. Spells(events', Arguments')
    <3>1. DOMAIN Arguments' = DOMAIN middle
      BY <1>14, <1>15
    <3>2. Arguments'[index] = Append(middle[index], word)
      BY <1>5, <1>14, <1>15, <1>17, <2>1, <2>2
    <3>3. \A s \in DOMAIN middle : s # index => Arguments'[s] = middle[s]
      BY <1>14, <1>15
    <3>4. index \in DOMAIN middle /\ middle[index] \in Words
      BY <1>4, <1>14, <1>17
    <3>5. index \in Nat  BY <1>2 DEF index
    <3> QED BY <1>12, <1>13, <2>3, <3>1, <3>2, <3>3, <3>4, <3>5, SpellsDelta
  <2>5. \A i \in 1..Len(events') : events'[i].kind # "end"
    <3>1. Event("delta", index, <<word>>) \in Notice
          /\ Event("delta", index, <<word>>).kind = "delta"
      BY <1>8, <1>9 DEF index
    <3> DEFINE e == Event("delta", index, <<word>>)
    <3> HIDE DEF e
    <3> QED BY <1>13, <2>3, <3>1, AppendFacts DEF e
  <2> QED BY <1>1, <2>4, <2>5 DEF EventsMatch
<1> QED BY <1>18, <1>19

LEMMA ResultFacts ==
  ASSUME TypeOK, MapsOwned
  PROVE  /\ Len(sortedIndexes) = Cardinality(DOMAIN slots)
         /\ Cardinality(DOMAIN slots) \in Nat
         /\ Len(result) = Len(sortedIndexes)
         /\ \A i \in 1..Len(sortedIndexes) :
              /\ sortedIndexes[i] \in DOMAIN slots
              /\ result[i] = Contents(heap, slots[sortedIndexes[i]])
              /\ result[i] \in Whole
<1>1. /\ sortedIndexes \in [1..Cardinality(DOMAIN slots) -> DOMAIN slots]
      /\ Len(sortedIndexes) = Cardinality(DOMAIN slots)
      /\ Cardinality(DOMAIN slots) \in Nat
  BY Enumeration DEF TypeOK, sortedIndexes
<1>2. \A s \in DOMAIN slots : Contents(heap, slots[s]) \in Whole
  BY ContentsType DEF TypeOK, MapsOwned
<1> QED BY <1>1, <1>2 DEF result

LEMMA AnnounceStep ==
  ASSUME TypeOK, MapsOwned, EventsMatch, Announce
  PROVE  TypeOK' /\ EventsMatch'
<1> DEFINE n == Len(sortedIndexes)
<1> DEFINE closing(i) == Event("end", sortedIndexes[i], result[i].arguments)
<1> DEFINE ends == [i \in 1..n |-> closing(i)]
<1> DEFINE m == Len(events)
<1>1. /\ ~ ended /\ ended' = TRUE /\ events' = events \o ends
      /\ UNCHANGED <<slots, heap, kept, lastSlot, style, begun, last, told, sent>>
  BY DEF Announce, provider
<1>2. n \in Nat /\ m \in Nat /\ events \in Seq(Notice)
  BY ResultFacts DEF TypeOK
<1>3. ASSUME NEW i \in 1..n
      PROVE  /\ ends[i] \in Notice /\ ends[i].kind = "end"
             /\ ends[i].index \in DOMAIN slots
             /\ ends[i].arguments = result[i].arguments
  <2>1. sortedIndexes[i] \in DOMAIN slots /\ result[i] \in Whole
    BY ResultFacts
  <2>2. sortedIndexes[i] \in Nat  BY <2>1 DEF TypeOK
  <2> QED BY <2>1, <2>2 DEF Event, Notice, Whole
<1>4. ends \in Seq(Notice) /\ Len(ends) = n
  BY <1>2, <1>3, FunctionIsSeq
<1> HIDE DEF ends
<1>5. /\ events' \in Seq(Notice) /\ Len(events') = m + n
      /\ \A i \in 1..m : events'[i] = events[i]
      /\ \A i \in 1..n : events'[m + i] = ends[i]
  <2>1. /\ events \o ends \in Seq(Notice)
        /\ Len(events \o ends) = Len(events) + Len(ends)
        /\ \A i \in 1..Len(events) : (events \o ends)[i] = events[i]
        /\ \A i \in 1..Len(ends) : (events \o ends)[Len(events) + i] = ends[i]
    BY <1>2, <1>4, ConcatFacts
  <2> HIDE DEF n
  <2> QED BY <1>1, <1>4, <2>1
<1> HIDE DEF n, m
<1>6. TypeOK'
  BY <1>1, <1>5 DEF TypeOK
<1>7. ASSUME NEW i \in 1..(m + n), i \notin 1..m
      PROVE  /\ i - m \in 1..n /\ events'[i] = ends[i - m]
             /\ events'[i].kind = "end" /\ events'[i].index \in DOMAIN slots
  <2>1. i - m \in 1..n /\ i = m + (i - m)  BY <1>2, <1>7
  <2> QED BY <1>3, <1>5, <2>1
<1>8. Starts(events') = Starts(events)
  BY <1>2, <1>5, <1>7 DEF Starts, m
<1>9. ASSUME NEW s  PROVE TextOf(events', s) = TextOf(events, s)
  <2> DEFINE D == Deltas(events, s)
  <2>1. Deltas(events', s) = D
    BY <1>2, <1>5, <1>7 DEF Deltas, m
  <2>2. /\ InOrder(D) \in [1..Cardinality(D) -> D]
        /\ Len(InOrder(D)) = Cardinality(D)
    BY <1>2, DeltasFinite, Enumeration
  <2>3. D \subseteq 1..m  BY DEF Deltas, m
  <2> HIDE DEF D
  <2>4. \A i \in 1..Len(InOrder(D)) :
          events'[InOrder(D)[i]] = events[InOrder(D)[i]]
    BY <1>5, <2>2, <2>3
  <2> QED BY <2>1, <2>4 DEF TextOf, D
<1>10. Arguments' = Arguments  BY <1>1 DEF Arguments
<1>11. Spells(events', Arguments)
  <2>1. Spells(events, Arguments) /\ DOMAIN Arguments = DOMAIN slots
    BY DEF EventsMatch, Arguments
  <2>2. \A i \in Starts(events) : i \in 1..m  BY DEF Starts, m
  <2>3. {events'[i].index : i \in Starts(events')} = DOMAIN Arguments
    <3>1. {events'[i].index : i \in Starts(events')}
            = {events[i].index : i \in Starts(events)}
      BY <1>5, <1>8, <2>2
    <3> QED BY <2>1, <3>1 DEF Spells
  <2>4. \A i, j \in Starts(events') : events'[i].index = events'[j].index => i = j
    BY <1>5, <1>8, <2>1, <2>2 DEF Spells
  <2>5. ASSUME NEW i \in 1..Len(events')
        PROVE  \E j \in Starts(events') : j <= i /\ events'[j].index = events'[i].index
    <3>1. CASE i \in 1..m
      <4>1. PICK j \in Starts(events) : j <= i /\ events[j].index = events[i].index
        BY <2>1, <3>1 DEF Spells, m
      <4> QED BY <1>5, <1>8, <2>2, <3>1, <4>1
    <3>2. CASE i \notin 1..m
      <4>1. events'[i].index \in DOMAIN slots  BY <1>5, <1>7, <3>2
      <4>2. PICK j \in Starts(events) : events[j].index = events'[i].index
        BY <2>1, <4>1 DEF Spells
      <4> QED BY <1>2, <1>5, <1>8, <2>2, <3>2, <4>2
    <3> QED BY <3>1, <3>2
  <2>6. \A s \in DOMAIN Arguments : TextOf(events', s) = Arguments[s]
    BY <1>9, <2>1 DEF Spells
  <2> QED BY <2>3, <2>4, <2>5, <2>6 DEF Spells
<1>12. EventsOf("end")' = (m + 1)..(m + n)
  <2>1. \A i \in 1..m : events'[i].kind # "end"
    BY <1>1, <1>5 DEF EventsMatch, m
  <2>2. {i \in 1..Len(events') : events'[i].kind = "end"} = (m + 1)..(m + n)
    BY <1>2, <1>5, <1>7, <2>1
  <2> QED BY <2>2 DEF EventsOf
<1>13. result' = result
  BY <1>1 DEF result, sortedIndexes
<1>14. [i \in 1..Len(Ends') |-> events'[Ends'[i]].arguments]
         = [i \in 1..Len(result) |-> result[i].arguments]
  <2> DEFINE S == (m + 1)..(m + n)
  <2>1. /\ IsFiniteSet(S) /\ Cardinality(S) = n
        /\ \A i \in 1..n : InOrder(S)[i] = m + i
    BY <1>2, IntervalInOrder
  <2>2. Len(InOrder(S)) = n
    <3>1. S \in SUBSET Nat  BY <1>2
    <3> HIDE DEF S
    <3> QED BY <2>1, <3>1, Enumeration
  <2>3. Ends' = InOrder(S)  BY <1>12 DEF Ends
  <2> HIDE DEF S
  <2>4. Len(result) = n  BY ResultFacts DEF n
  <2>5. \A i \in 1..n : events'[Ends'[i]].arguments = result[i].arguments
    BY <1>3, <1>5, <2>1, <2>3
  <2> QED BY <2>2, <2>3, <2>4, <2>5
<1> QED
  BY <1>1, <1>6, <1>10, <1>11, <1>13, <1>14 DEF EventsMatch

-----------------------------------------------------------------------------
(* A turn holds the calls begun.                                           *)
LEMMA SameSize ==
  ASSUME NEW S, NEW T, IsFiniteSet(S), NEW f \in [S -> T],
         \A x, y \in S : f[x] = f[y] => x = y,
         \A y \in T : \E x \in S : f[x] = y
  PROVE  IsFiniteSet(T) /\ Cardinality(T) = Cardinality(S)
<1>1. f \in Bijection(S, T)
  BY DEF Bijection, Injection, Surjection, IsInjective
<1>2. ExistsBijection(S, T)  BY <1>1 DEF ExistsBijection
<1> QED BY <1>2, FS_Bijection

LEMMA BegunSize ==
  ASSUME TypeOK, SlotsOfCalls
  PROVE  IsFiniteSet(Begun) /\ Cardinality(Begun) = Len(begun)
<1>1. Len(begun) \in Nat /\ begun \in [1..Len(begun) -> Begun]
  <2>1. \A i \in 1..Len(begun) : begun[i] \in Begun
    BY DEF Begun, Has, TypeOK
  <2> QED BY <2>1, SeqIsFunction DEF TypeOK
<1>2. \A k \in Begun : \E i \in 1..Len(begun) : begun[i] = k
  BY DEF Begun, Has
<1>3. IsFiniteSet(1..Len(begun)) /\ Cardinality(1..Len(begun)) = Len(begun)
  BY <1>1, FS_Interval
<1>4. \A i, j \in 1..Len(begun) : begun[i] = begun[j] => i = j
  BY DEF SlotsOfCalls
<1> QED BY <1>1, <1>2, <1>3, <1>4, SameSize

LEMMA TurnHoldsCalls ==
  ASSUME TypeOK, MapsOwned, SlotsOfCalls, "repeating" \notin Style
  PROVE  CallsReassembled
<1> DEFINE D == DOMAIN slots
<1>0. /\ D \in SUBSET Nat /\ IsFiniteSet(D)
      /\ Len(result) = Cardinality(D) /\ Cardinality(D) \in Nat
      /\ \A i \in 1..Cardinality(D) :
           result[i] = Contents(heap, slots[InOrder(D)[i]])
  BY ResultFacts DEF TypeOK, sortedIndexes
<1>1. IsFiniteSet(Begun) /\ Cardinality(Begun) = Len(begun)
  BY BegunSize
<1>2. CASE style = "indexed"
  <2>1. /\ D = {Position[k] : k \in Begun}
        /\ \A k \in Begun : Contents(heap, slots[Position[k]]) = told[k]
    BY <1>2 DEF SlotsOfCalls
  <2>2. /\ \A k \in Begun : k \in Call /\ Position[k] \in Nat
        /\ \A j, k \in Begun : Position[j] = Position[k] => j = k
    BY PositionAssumption DEF Begun
  <2>3. Cardinality(D) = Cardinality(Begun)
    <3> DEFINE f == [k \in Begun |-> Position[k]]
    <3>1. f \in [Begun -> D]  BY <2>1
    <3>2. \A x, y \in Begun : f[x] = f[y] => x = y  BY <2>2
    <3>3. \A y \in D : \E x \in Begun : f[x] = y  BY <2>1
    <3> HIDE DEF f, D
    <3> QED BY <1>1, <3>1, <3>2, <3>3, SameSize
  <2>4. ASSUME NEW k \in Begun  PROVE result[Rank(k)] = told[k]
    <3> DEFINE s == Position[k]
    <3> DEFINE upto == {j \in Begun : Position[j] <= Position[k]}
    <3>1. s \in D  BY <2>1
    <3>2. Cardinality(upto) = Cardinality(Below(D, s) \cup {s})
      <4> DEFINE f == [j \in upto |-> Position[j]]
      <4>1. \A j \in upto : Position[j] \in Below(D, s) \cup {s}
        BY <2>1, <2>2 DEF Below
      <4>2. \A y \in Below(D, s) \cup {s} : \E j \in upto : Position[j] = y
        BY <2>1, <2>2 DEF Below
      <4>3. IsFiniteSet(upto)
        <5>1. upto \in SUBSET Begun  OBVIOUS
        <5> HIDE DEF upto
        <5> QED BY <1>1, <5>1, FS_Subset
      <4>4. f \in [upto -> Below(D, s) \cup {s}]  BY <4>1
      <4>5. \A x, y \in upto : f[x] = f[y] => x = y  BY <2>2
      <4>6. \A y \in Below(D, s) \cup {s} : \E x \in upto : f[x] = y
        BY <4>2
      <4> HIDE DEF f, upto, s, D
      <4> QED BY <4>3, <4>4, <4>5, <4>6, SameSize
    <3>3. Cardinality(Below(D, s) \cup {s}) = Cardinality(Below(D, s)) + 1
      <4>1. s \notin Below(D, s)
        <5>1. s \in Nat  BY <2>2
        <5> HIDE DEF s, D
        <5> QED BY <5>1 DEF Below
      <4>2. IsFiniteSet(Below(D, s))  BY <1>0, BelowFinite
      <4> HIDE DEF s, D
      <4> QED BY <4>1, <4>2, FS_AddElement
    <3>4. Rank(k) = Cardinality(Below(D, s)) + 1
      <4>1. Rank(k) = Cardinality(upto)  BY <1>2 DEF Rank
      <4> HIDE DEF upto, s, D
      <4> QED BY <3>2, <3>3, <4>1
    <3> HIDE DEF s, D, upto
    <3>5. Rank(k) \in 1..Cardinality(D) /\ InOrder(D)[Rank(k)] = s
      BY <1>0, <3>1, <3>4, Place
    <3>6. result[Rank(k)] = Contents(heap, slots[s])  BY <1>0, <3>5
    <3> QED BY <2>1, <3>6 DEF s
  <2> QED BY <1>0, <2>3, <2>4 DEF CallsReassembled
<1>3. CASE style = "bare"
  <2> DEFINE n == Len(begun)
  <2>0. n \in Nat  BY DEF TypeOK
  <2>1. /\ D = 0..(n - 1)
        /\ \A i \in 1..n : Contents(heap, slots[i - 1]) = told[begun[i]]
    BY <1>3 DEF SlotsOfCalls
  <2>2. Cardinality(D) = n
    <3>1. Cardinality(0..(n - 1)) = n
      <4>1. n - 1 \in Int /\ 0 \in Int  BY <2>0
      <4> HIDE DEF n
      <4>2. Cardinality(0..(n - 1)) = IF 0 > n - 1 THEN 0 ELSE (n - 1) - 0 + 1
        BY <4>1, FS_Interval
      <4> QED BY <2>0, <4>2
    <3> QED BY <2>1, <3>1
  <2>3. ASSUME NEW i \in 1..n  PROVE InOrder(D)[i] = i - 1
    <3>1. Below(D, i - 1) = 0..(i - 2)  BY <2>0, <2>1 DEF Below
    <3>2. Cardinality(Below(D, i - 1)) = i - 1
      <4>1. Cardinality(0..(i - 2)) = i - 1  BY <2>0, FS_Interval
      <4> QED BY <3>1, <4>1
    <3>3. i - 1 \in D  BY <2>0, <2>1
    <3>4. Cardinality(Below(D, i - 1)) + 1 = i  BY <2>0, <3>2
    <3> HIDE DEF D, n
    <3>5. InOrder(D)[Cardinality(Below(D, i - 1)) + 1] = i - 1
      BY <1>0, <3>3, Place
    <3> QED BY <3>4, <3>5
  <2>4. ASSUME NEW k \in Begun  PROVE result[Rank(k)] = told[k]
    <3>1. \E i \in 1..n : begun[i] = k  BY DEF Begun, Has
    <3>2. Rank(k) \in 1..n /\ begun[Rank(k)] = k
      <4>1. Rank(k) = CHOOSE i \in 1..n : begun[i] = k  BY <1>3 DEF Rank
      <4> QED BY <3>1, <4>1
    <3>3. result[Rank(k)] = Contents(heap, slots[Rank(k) - 1])
      BY <1>0, <2>2, <2>3, <3>2
    <3> QED BY <2>1, <3>2, <3>3
  <2> QED BY <1>0, <1>1, <2>2, <2>4 DEF CallsReassembled
<1> QED BY <1>2, <1>3, StyleOf

-----------------------------------------------------------------------------
(* The invariants.                                                         *)
IInv == TypeOK /\ MapsOwned /\ EventsMatch

LEMMA InitIInv ==
  ASSUME Init
  PROVE  IInv /\ SlotsOfCalls
<1>1. /\ slots = <<>> /\ heap = <<>> /\ kept = <<>> /\ lastSlot = NoIndex
      /\ events = <<>> /\ ended = FALSE /\ style \in Style /\ begun = <<>>
      /\ last = NoId /\ told = [k \in Call |-> Unsaid] /\ sent = 0
  BY DEF Init
<1>2. DOMAIN slots = {} /\ slots \in [{} -> Slot]  BY <1>1
<1>3. Unsaid \in Whole
  <2>1. EmptySlot \in Slot /\ EmptySlot.extra = 0
    BY DEF EmptySlot, Slot, Nil, NoId, Words
  <2> DEFINE none == <<>>
  <2>2. none \in Seq(Extras) /\ EmptySlot.extra <= Len(none)  BY <2>1
  <2>3. Unsaid = Contents(none, EmptySlot)  BY DEF Unsaid
  <2> HIDE DEF none
  <2> QED BY <2>1, <2>2, <2>3, ContentsType
<1>4. TypeOK
  <2>1. DOMAIN slots \in SUBSET Nat /\ IsFiniteSet(DOMAIN slots)
    BY <1>2, FS_EmptySet
  <2>2. told \in [Call -> Whole]  BY <1>1, <1>3
  <2>3. /\ heap \in Seq(Extras) /\ kept \in Seq(Snapshot)
        /\ events \in Seq(Notice) /\ begun \in Seq(Call)
    BY <1>1
  <2> QED BY <1>1, <1>2, <2>1, <2>2, <2>3 DEF TypeOK
<1>5. MapsOwned
  BY <1>1, <1>2 DEF MapsOwned, SnapshotsFrozen
<1>6. EventsMatch
  <2>1. Starts(events) = {}  BY <1>1 DEF Starts
  <2>2. DOMAIN Arguments = {}  BY <1>2 DEF Arguments
  <2>3. Spells(events, Arguments)  BY <1>1, <2>1, <2>2 DEF Spells
  <2> QED BY <1>1, <2>3 DEF EventsMatch
<1>7. SlotsOfCalls
  <2>1. Begun = {}  BY <1>1 DEF Begun, Has
  <2> QED BY <1>1, <1>2, <2>1 DEF SlotsOfCalls
<1> QED BY <1>4, <1>5, <1>6, <1>7 DEF IInv

LEMMA StepIInv ==
  ASSUME IInv, [Next]_vars
  PROVE  IInv'
<1> USE DEF IInv
<1>1. CASE \E k \in Call : Fragment(k)
  <2>1. PICK k \in Call : Fragment(k)  BY <1>1
  <2>2. PICK d \in Piece : Sends(k, d)  BY <2>1, FragmentSends
  <2> QED BY <2>2, SendsTypes, SendsMaps, SendsEvents
<1>2. CASE Announce
  <2>1. MapsOwned'
    BY <1>2 DEF Announce, MapsOwned, SnapshotsFrozen, Contents
  <2> QED BY <1>2, <2>1, AnnounceStep
<1>3. CASE UNCHANGED vars
  <2>1. TypeOK'  BY <1>3 DEF vars, provider, TypeOK
  <2>2. MapsOwned'
    BY <1>3 DEF vars, provider, MapsOwned, SnapshotsFrozen, Contents
  <2>3. Arguments' = Arguments /\ Ends' = Ends /\ result' = result
    BY <1>3 DEF vars, provider, Arguments, Ends, EventsOf, result, sortedIndexes
  <2>4. EventsMatch'  BY <1>3, <2>3 DEF vars, provider, EventsMatch
  <2> QED BY <2>1, <2>2, <2>4
<1> QED BY <1>1, <1>2, <1>3 DEF Next

LEMMA StepSlots ==
  ASSUME IInv, SlotsOfCalls, "repeating" \notin Style, [Next]_vars
  PROVE  SlotsOfCalls'
<1>1. CASE \E k \in Call : Fragment(k)
  <2>1. PICK k \in Call : Fragment(k)  BY <1>1
  <2>2. PICK d \in Piece : Sends(k, d)  BY <2>1, FragmentSends DEF IInv
  <2> QED BY <2>2, SendsSlots DEF IInv
<1>2. CASE Announce
  BY <1>2 DEF Announce, provider, SlotsOfCalls, Has, Begun, Contents
<1>3. CASE UNCHANGED vars
  BY <1>3 DEF vars, provider, SlotsOfCalls, Has, Begun, Contents
<1> QED BY <1>1, <1>2, <1>3 DEF Next

THEOREM Invariance == Spec => []IInv
<1>1. Init => IInv  BY InitIInv
<1>2. IInv /\ [Next]_vars => IInv'  BY StepIInv
<1> QED BY <1>1, <1>2, PTL DEF Spec

(* No snapshot that a consumer of the stream has kept ever changes, since  *)
(* the maps it shows are its own: whatever the provider sends, in any      *)
(* style.                                                                  *)
THEOREM SnapshotsStayFrozen == Spec => []SnapshotsFrozen
<1>1. IInv => SnapshotsFrozen  BY DEF IInv, MapsOwned
<1> QED BY <1>1, Invariance, PTL

(* The events alone give the calls of the turn: opened once and first,     *)
(* spelled by their deltas, closed in order; also for a provider whose     *)
(* repeated ids cut its calls into pieces.                                 *)
THEOREM EventsTellCalls == Spec => []EventsRebuildCalls
<1>1. IInv => EventsRebuildCalls  BY MatchRebuilds DEF IInv
<1> QED BY <1>1, Invariance, PTL

(* However the fragments of its calls interleave, a provider that gives    *)
(* indexes, or gives none and an id only to the first fragment of a call,  *)
(* has its calls reassembled, each whole and in its place.  The one style  *)
(* left out is the one OnlyFreshIdOpens fails for.                         *)
THEOREM CallsComeTogether ==
  ASSUME "repeating" \notin Style
  PROVE  Spec => []CallsReassembled
<1>1. Init => IInv /\ SlotsOfCalls  BY InitIInv
<1>2. IInv /\ SlotsOfCalls /\ [Next]_vars => (IInv /\ SlotsOfCalls)'
  BY StepIInv, StepSlots
<1>3. IInv /\ SlotsOfCalls => CallsReassembled
  BY TurnHoldsCalls DEF IInv
<1> QED BY <1>1, <1>2, <1>3, PTL DEF Spec

=============================================================================
