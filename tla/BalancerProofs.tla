--------------------------- MODULE BalancerProofs ---------------------------
(***************************************************************************)
(* For any number of callers, keys, URLs and lists: the mutex keeps what a *)
(* call has read valid until it has counted its choice, so the rotation is *)
(* even.                                                                   *)
(***************************************************************************)
EXTENDS Balancer, WellFoundedInduction, TLAPS

(* A caller between Lock() and Unlock() holds the mutex, and nobody else.  *)
Holding ==
  \A c \in Caller : c \in mu <=> at[c] \in {"scanning", "choosing"}

(* A caller inside choosePair() has lists that make pairs.                 *)
Asked ==
  \A c \in Caller :
    at[c] # "outside" => request[c] \in Request /\ Buildable(request[c])

IInv == TypeOK /\ Holding /\ Asked /\ ScanStaysFresh /\ EvenRotation

-----------------------------------------------------------------------------
(* Lists that parse make at least one pair, and pairs of keys and URLs.    *)
LEMMA PairsMade ==
  ASSUME NEW r \in Request, Buildable(r)
  PROVE  buildPairs(r) # {} /\ buildPairs(r) \subseteq Pair
<1>1. r.keys \in Seq(Key \cup {Blank}) /\ r.urls \in Seq(URL \cup {Blank})
  BY RequestAssumption
<1>2. /\ Len(r.keys) \in Nat \ {0} /\ Len(r.urls) \in Nat \ {0}
  BY <1>1 DEF Buildable, Parses
<1>3. \A i \in 1..Len(r.keys) : r.keys[i] \in Key
  BY <1>1 DEF Buildable, Parses
<1>4. \A i \in 1..Len(r.urls) : r.urls[i] \in URL
  BY <1>1 DEF Buildable, Parses
<1>5. 1 \in 1..Len(r.keys) /\ 1 \in 1..Len(r.urls)
  BY <1>2
<1>6. CASE Len(r.urls) = 1
  <2>1. buildPairs(r) =
          {[key |-> r.keys[i], url |-> r.urls[1]] : i \in 1..Len(r.keys)}
    BY <1>6 DEF buildPairs
  <2>2. [key |-> r.keys[1], url |-> r.urls[1]] \in buildPairs(r)
    BY <1>5, <2>1
  <2>3. \A i \in 1..Len(r.keys) :
          [key |-> r.keys[i], url |-> r.urls[1]] \in Pair
    BY <1>3, <1>4, <1>5 DEF Pair
  <2> QED
    BY <2>1, <2>2, <2>3
<1>7. CASE Len(r.urls) # 1 /\ Len(r.keys) = 1
  <2>1. buildPairs(r) =
          {[key |-> r.keys[1], url |-> r.urls[i]] : i \in 1..Len(r.urls)}
    BY <1>7 DEF buildPairs
  <2>2. [key |-> r.keys[1], url |-> r.urls[1]] \in buildPairs(r)
    BY <1>5, <2>1
  <2>3. \A i \in 1..Len(r.urls) :
          [key |-> r.keys[1], url |-> r.urls[i]] \in Pair
    BY <1>3, <1>4, <1>5 DEF Pair
  <2> QED
    BY <2>1, <2>2, <2>3
<1>8. CASE Len(r.urls) # 1 /\ Len(r.keys) # 1
  <2>1. Len(r.keys) = Len(r.urls)
    BY <1>8 DEF Buildable
  <2>2. buildPairs(r) =
          {[key |-> r.keys[i], url |-> r.urls[i]] : i \in 1..Len(r.keys)}
    BY <1>8 DEF buildPairs
  <2>3. [key |-> r.keys[1], url |-> r.urls[1]] \in buildPairs(r)
    BY <1>5, <2>2
  <2>4. \A i \in 1..Len(r.keys) :
          [key |-> r.keys[i], url |-> r.urls[i]] \in Pair
    BY <1>3, <1>4, <2>1 DEF Pair
  <2> QED
    BY <2>2, <2>3, <2>4
<1> QED
  BY <1>6, <1>7, <1>8

(* Among pairs there is always one that no other is used less than.        *)
LEMMA SomeLeastUsed ==
  ASSUME NEW pairs \in SUBSET Pair, pairs # {}, usage \in [Pair -> Nat]
  PROVE  LeastUsed(pairs) # {}
<1> DEFINE counts == {usage[p] : p \in pairs}
<1>1. counts # {} /\ counts \subseteq Nat
  OBVIOUS
<1> HIDE DEF counts
<1>2. PICK n \in counts : \A m \in counts : ~ (<<m, n>> \in OpToRel(<, Nat))
  BY <1>1, NatLessThanWellFounded, WFMin
<1>3. \A m \in counts : ~ (m < n)
  BY <1>1, <1>2 DEF OpToRel
<1>4. PICK p \in pairs : usage[p] = n
  BY DEF counts
<1>5. \A q \in pairs : usage[q] \in counts
  BY DEF counts
<1>6. \A q \in pairs : usage[p] \in Nat /\ usage[q] \in Nat
  OBVIOUS
<1>7. \A q \in pairs : usage[p] <= usage[q]
  BY <1>3, <1>4, <1>5, <1>6
<1> QED
  BY <1>4, <1>7 DEF LeastUsed

-----------------------------------------------------------------------------
LEMMA InitIInv == Init => IInv
<1> SUFFICES ASSUME Init PROVE IInv
  OBVIOUS
<1>1. TypeOK
  BY DEF Init, TypeOK
<1>2. Holding /\ Asked /\ ScanStaysFresh
  BY DEF Init, Holding, Asked, ScanStaysFresh
<1>3. EvenRotation
  <2> SUFFICES ASSUME NEW r \in Request, Buildable(r),
                      NEW p \in buildPairs(r), NEW q \in buildPairs(r)
               PROVE  usage[p] <= usage[q] + 1
    BY DEF EvenRotation, Even
  <2>1. p \in Pair /\ q \in Pair
    BY PairsMade
  <2> QED
    BY <2>1 DEF Init
<1> QED
  BY <1>1, <1>2, <1>3 DEF IInv

(* What the mutex is for: a caller that may scan or choose is alone.       *)
LEMMA Alone ==
  ASSUME IInv, NEW c \in Caller, NEW d \in Caller,
         at[c] \in {"scanning", "choosing"}, at[d] \in {"scanning", "choosing"}
  PROVE  c = d
BY DEF IInv, Holding, TypeOK

LEMMA TypeStep == IInv /\ [Next]_vars => TypeOK'
<1> SUFFICES ASSUME IInv, [Next]_vars PROVE TypeOK'
  OBVIOUS
<1> USE DEF IInv, TypeOK
<1>1. ASSUME NEW c \in Caller, NEW r \in Request, Enter(c, r) PROVE TypeOK'
  BY <1>1 DEF Enter
<1>2. ASSUME NEW c \in Caller, NEW r \in Request, Refused(c, r) PROVE TypeOK'
  BY <1>2 DEF Refused
<1>3. ASSUME NEW c \in Caller, Lock(c) PROVE TypeOK'
  BY <1>3 DEF Lock
<1>4. ASSUME NEW c \in Caller, Scan(c) PROVE TypeOK'
  <2>1. request[c] \in Request /\ Buildable(request[c])
    BY <1>4 DEF Asked, Scan
  <2>2. LeastUsed(buildPairs(request[c])) \subseteq Pair
    BY <2>1, PairsMade DEF LeastUsed
  <2> QED
    BY <1>4, <2>2 DEF Scan
<1>5. ASSUME NEW c \in Caller, Choose(c) PROVE TypeOK'
  <2>1. PICK chosen \in least[c] : usage' = [usage EXCEPT ![chosen] = @ + 1]
    BY <1>5 DEF Choose
  <2>2. usage' \in [Pair -> Nat]
    BY <2>1
  <2> QED
    BY <1>5, <2>2 DEF Choose
<1>6. CASE UNCHANGED vars
  BY <1>6 DEF vars
<1> QED
  BY <1>1, <1>2, <1>3, <1>4, <1>5, <1>6 DEF Next

LEMMA HoldingStep == IInv /\ [Next]_vars => Holding'
<1> SUFFICES ASSUME IInv, [Next]_vars PROVE Holding'
  OBVIOUS
<1> USE DEF IInv, TypeOK, Holding
<1>1. ASSUME NEW c \in Caller, NEW r \in Request, Enter(c, r) PROVE Holding'
  BY <1>1 DEF Enter
<1>2. ASSUME NEW c \in Caller, NEW r \in Request, Refused(c, r) PROVE Holding'
  BY <1>2 DEF Refused
<1>3. ASSUME NEW c \in Caller, Lock(c) PROVE Holding'
  BY <1>3 DEF Lock
<1>4. ASSUME NEW c \in Caller, Scan(c) PROVE Holding'
  BY <1>4 DEF Scan
<1>5. ASSUME NEW c \in Caller, Choose(c) PROVE Holding'
  BY <1>5 DEF Choose
<1>6. CASE UNCHANGED vars
  BY <1>6 DEF vars
<1> QED
  BY <1>1, <1>2, <1>3, <1>4, <1>5, <1>6 DEF Next

LEMMA AskedStep == IInv /\ [Next]_vars => Asked'
<1> SUFFICES ASSUME IInv, [Next]_vars PROVE Asked'
  OBVIOUS
<1> USE DEF IInv, TypeOK, Asked
<1>1. ASSUME NEW c \in Caller, NEW r \in Request, Enter(c, r) PROVE Asked'
  BY <1>1 DEF Enter
<1>2. ASSUME NEW c \in Caller, NEW r \in Request, Refused(c, r) PROVE Asked'
  BY <1>2 DEF Refused
<1>3. ASSUME NEW c \in Caller, Lock(c) PROVE Asked'
  BY <1>3 DEF Lock
<1>4. ASSUME NEW c \in Caller, Scan(c) PROVE Asked'
  BY <1>4 DEF Scan
<1>5. ASSUME NEW c \in Caller, Choose(c) PROVE Asked'
  BY <1>5 DEF Choose
<1>6. CASE UNCHANGED vars
  BY <1>6 DEF vars
<1> QED
  BY <1>1, <1>2, <1>3, <1>4, <1>5, <1>6 DEF Next

(* The scan of a caller that is choosing stays valid: only the holder of   *)
(* the mutex could change the counts, and that is the caller itself.       *)
LEMMA FreshStep == IInv /\ [Next]_vars => ScanStaysFresh'
<1> DEFINE offered(d) == buildPairs(request'[d])
           NewLeast(d) == {p \in offered(d) :
                             \A q \in offered(d) : usage'[p] <= usage'[q]}
<1> SUFFICES ASSUME IInv, [Next]_vars,
                    NEW d \in Caller, at'[d] = "choosing"
             PROVE  /\ least'[d] # {}
                    /\ least'[d] = NewLeast(d)
  <2>1. \A d \in Caller : LeastUsed(buildPairs(request[d]))' = NewLeast(d)
    BY DEF LeastUsed, buildPairs
  <2> HIDE DEF NewLeast
  <2> QED
    BY <2>1 DEF ScanStaysFresh
<1> USE DEF IInv, TypeOK, ScanStaysFresh
<1>1. ASSUME NEW c \in Caller, NEW r \in Request, Enter(c, r)
      PROVE  at[d] = "choosing" /\ request'[d] = request[d]
               /\ least'[d] = least[d] /\ usage' = usage
  BY <1>1 DEF Enter
<1>2. ASSUME NEW c \in Caller, NEW r \in Request, Refused(c, r)
      PROVE  at[d] = "choosing" /\ request'[d] = request[d]
               /\ least'[d] = least[d] /\ usage' = usage
  BY <1>2 DEF Refused
<1>3. ASSUME NEW c \in Caller, Lock(c)
      PROVE  at[d] = "choosing" /\ request'[d] = request[d]
               /\ least'[d] = least[d] /\ usage' = usage
  BY <1>3 DEF Lock
<1>4. ASSUME NEW c \in Caller, Scan(c), c # d
      PROVE  at[d] = "choosing" /\ request'[d] = request[d]
               /\ least'[d] = least[d] /\ usage' = usage
  BY <1>4 DEF Scan
<1>5. CASE Scan(d)
  <2>1. request[d] \in Request /\ Buildable(request[d])
    BY <1>5 DEF Asked, Scan
  <2>2. LeastUsed(buildPairs(request[d])) # {}
    BY <2>1, PairsMade, SomeLeastUsed
  <2>3. /\ least'[d] = LeastUsed(buildPairs(request[d]))
        /\ usage' = usage /\ request' = request
    BY <1>5 DEF Scan
  <2> QED
    BY <2>2, <2>3 DEF LeastUsed
<1>6. ASSUME NEW c \in Caller, Choose(c) PROVE FALSE
  <2>1. at[c] = "choosing" /\ at' = [at EXCEPT ![c] = "outside"]
    BY <1>6 DEF Choose
  <2>2. c # d /\ at[d] = "choosing"
    BY <2>1
  <2> QED
    BY <2>1, <2>2, Alone
<1>7. ASSUME UNCHANGED vars
      PROVE  at[d] = "choosing" /\ request'[d] = request[d]
               /\ least'[d] = least[d] /\ usage' = usage
  BY <1>7 DEF vars
<1>8. ASSUME at[d] = "choosing", request'[d] = request[d],
             least'[d] = least[d], usage' = usage
      PROVE  /\ least'[d] # {}
             /\ least'[d] = NewLeast(d)
  BY <1>8 DEF LeastUsed
<1> QED
  BY <1>1, <1>2, <1>3, <1>4, <1>5, <1>6, <1>7, <1>8 DEF Next

(* Counting one of the least used keeps every list even: a list either is  *)
(* the one the choice was made from or has no pair in common with it.      *)
LEMMA EvenStep == IInv /\ [Next]_vars => EvenRotation'
<1> SUFFICES ASSUME IInv, [Next]_vars, Separate,
                    NEW r \in Request, Buildable(r),
                    NEW p \in buildPairs(r), NEW q \in buildPairs(r)
             PROVE  usage'[p] <= usage'[q] + 1
  BY DEF EvenRotation, Even, Separate
<1>1. p \in Pair /\ q \in Pair /\ usage \in [Pair -> Nat]
  BY PairsMade DEF IInv, TypeOK
<1>2. usage[p] <= usage[q] + 1
  BY DEF IInv, EvenRotation, Even
<1>3. CASE usage' = usage
  BY <1>2, <1>3
<1>4. ASSUME NEW c \in Caller, Choose(c) PROVE usage'[p] <= usage'[q] + 1
  <2>1. PICK chosen \in least[c] :
          at[c] = "choosing" /\ usage' = [usage EXCEPT ![chosen] = @ + 1]
    BY <1>4 DEF Choose
  <2>2. request[c] \in Request /\ Buildable(request[c])
    BY <2>1 DEF IInv, Asked
  <2>3. chosen \in LeastUsed(buildPairs(request[c]))
    BY <2>1 DEF IInv, ScanStaysFresh
  <2>4. /\ chosen \in buildPairs(request[c])
        /\ \A x \in buildPairs(request[c]) : usage[chosen] <= usage[x]
    BY <2>3 DEF LeastUsed
  <2>5. chosen \in Pair
    BY <2>2, <2>4, PairsMade
  <2>6. \/ buildPairs(r) = buildPairs(request[c])
        \/ buildPairs(r) \cap buildPairs(request[c]) = {}
    BY <2>2 DEF Separate
  <2>7. CASE p = chosen
    <3>1. usage[p] <= usage[q]
      BY <2>4, <2>6, <2>7
    <3> QED
      BY <1>1, <2>1, <2>7, <3>1
  <2>8. CASE p # chosen
    BY <1>1, <1>2, <2>1, <2>5, <2>8
  <2> QED
    BY <2>7, <2>8
<1>5. ASSUME NEW c \in Caller, NEW s \in Request, Enter(c, s) \/ Refused(c, s)
      PROVE usage' = usage
  BY <1>5 DEF Enter, Refused
<1>6. ASSUME NEW c \in Caller, Lock(c) \/ Scan(c) PROVE usage' = usage
  BY <1>6 DEF Lock, Scan
<1>7. CASE UNCHANGED vars
  BY <1>3, <1>7 DEF vars
<1> QED
  BY <1>3, <1>4, <1>5, <1>6, <1>7 DEF Next

LEMMA Inductive == Spec => []IInv
<1>1. IInv /\ [Next]_vars => IInv'
  BY TypeStep, HoldingStep, AskedStep, FreshStep, EvenStep DEF IInv
<1> QED
  BY InitIInv, <1>1, PTL DEF Spec

-----------------------------------------------------------------------------
(* The balancer's fields always have their types, and the mutex at most    *)
(* one holder.                                                             *)
THEOREM TypeCorrect == Spec => []TypeOK
<1>1. IInv => TypeOK
  BY DEF IInv
<1> QED
  BY Inductive, <1>1, PTL

(* What a call found least used is least used when it counts its choice,   *)
(* however many calls are under way.                                       *)
THEOREM ScanIsFresh == Spec => []ScanStaysFresh
<1>1. IInv => ScanStaysFresh
  BY DEF IInv
<1> QED
  BY Inductive, <1>1, PTL

(* If lists share all pairs or none, two pairs of a list never differ by   *)
(* more than one use.                                                      *)
THEOREM RotationIsEven == Spec => []EvenRotation
<1>1. IInv => EvenRotation
  BY DEF IInv
<1> QED
  BY Inductive, <1>1, PTL

-----------------------------------------------------------------------------
(* A pair is made of entries of its lists, at the same place if both lists *)
(* have several.                                                           *)
LEMMA PairOrigin ==
  ASSUME NEW r \in Request, Buildable(r), NEW p \in buildPairs(r)
  PROVE  BelongsTo(p, r)
<1>1. r.keys \in Seq(Key \cup {Blank}) /\ r.urls \in Seq(URL \cup {Blank})
  BY RequestAssumption
<1>2. 1 \in 1..Len(r.keys) /\ 1 \in 1..Len(r.urls)
  BY <1>1 DEF Buildable, Parses
<1>3. CASE Len(r.urls) = 1
  <2>1. PICK i \in 1..Len(r.keys) : p = [key |-> r.keys[i], url |-> r.urls[1]]
    BY <1>3 DEF buildPairs
  <2> QED BY <1>2, <1>3, <2>1 DEF BelongsTo
<1>4. CASE Len(r.urls) # 1 /\ Len(r.keys) = 1
  <2>1. PICK i \in 1..Len(r.urls) : p = [key |-> r.keys[1], url |-> r.urls[i]]
    BY <1>4 DEF buildPairs
  <2> QED BY <1>2, <1>4, <2>1 DEF BelongsTo
<1>5. CASE Len(r.urls) # 1 /\ Len(r.keys) # 1
  <2>1. PICK i \in 1..Len(r.keys) : p = [key |-> r.keys[i], url |-> r.urls[i]]
    BY <1>5 DEF buildPairs
  <2>2. i \in 1..Len(r.urls)  BY <1>5, <2>1 DEF Buildable
  <2> QED BY <2>1, <2>2 DEF BelongsTo
<1> QED BY <1>3, <1>4, <1>5

Paired ==
  /\ served \in Seq([pair : Pair, request : Request])
  /\ PairsBelongTogether

LEMMA PairedStep == IInv /\ Paired /\ [Next]_vars => Paired'
<1> SUFFICES ASSUME IInv, Paired, [Next]_vars  PROVE Paired'
  OBVIOUS
<1>1. CASE served' = served
  BY <1>1 DEF Paired, PairsBelongTogether, BelongsTo
<1>2. ASSUME NEW c \in Caller, Choose(c)  PROVE Paired'
  <2>1. PICK chosen \in least[c] :
          /\ at[c] = "choosing"
          /\ served' = Append(served, [pair |-> chosen, request |-> request[c]])
    BY <1>2 DEF Choose
  <2> DEFINE entry == [pair |-> chosen, request |-> request[c]]
  <2>2. request[c] \in Request /\ Buildable(request[c])
    BY <2>1 DEF IInv, Asked
  <2>3. chosen \in buildPairs(request[c])
    BY <2>1 DEF IInv, ScanStaysFresh, LeastUsed
  <2>4. chosen \in Pair /\ BelongsTo(chosen, request[c])
    BY <2>2, <2>3, PairsMade, PairOrigin
  <2>5. entry \in [pair : Pair, request : Request]
    BY <2>2, <2>4
  <2>6. BelongsTo(entry.pair, entry.request)  BY <2>4
  <2>7. served \in Seq([pair : Pair, request : Request])  BY DEF Paired
  <2>8. served' = Append(served, entry)  BY <2>1
  <2> HIDE DEF entry
  <2>9. \A i \in 1..Len(served') :
          BelongsTo(served'[i].pair, served'[i].request)
    BY <2>5, <2>6, <2>7, <2>8 DEF Paired, PairsBelongTogether
  <2>10. served' \in Seq([pair : Pair, request : Request])
    BY <2>5, <2>7, <2>8
  <2> QED BY <2>9, <2>10 DEF Paired, PairsBelongTogether, BelongsTo
<1>3. ASSUME NEW c \in Caller, NEW r \in Request, Enter(c, r) \/ Refused(c, r)
      PROVE  served' = served
  BY <1>3 DEF Enter, Refused
<1>4. ASSUME NEW c \in Caller, Lock(c) \/ Scan(c)  PROVE served' = served
  BY <1>4 DEF Lock, Scan
<1>5. CASE UNCHANGED vars  BY <1>1, <1>5 DEF vars
<1> QED BY <1>1, <1>2, <1>3, <1>4, <1>5 DEF Next

(* Every call gets a key and a URL of its own lists, standing at the same  *)
(* place when both lists have several entries.                             *)
THEOREM PairsAreTheCallers == Spec => []PairsBelongTogether
<1>1. Init => Paired
  BY DEF Init, Paired, PairsBelongTogether
<1>2. Paired => PairsBelongTogether
  BY DEF Paired
<1> QED
  BY Inductive, PairedStep, <1>1, <1>2, PTL DEF Spec

=============================================================================
