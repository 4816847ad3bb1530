---------------------------- MODULE Foundations ----------------------------
(***************************************************************************)
(* What the proofs of several components need: induction over the naturals *)
(* and definition by recursion, stated of sets and functions instead of    *)
(* operators; sequences; and finite sets of numbers in order.              *)
(***************************************************************************)
EXTENDS Naturals, Sequences, FiniteSetTheorems, WellFoundedInduction,
        Ascending, TLAPS

LEMMA LeastMember ==
  ASSUME NEW numbers \in SUBSET Nat, numbers # {}
  PROVE  \E k \in numbers : \A m \in numbers : ~ (m < k)
<1>1. PICK k \in numbers : \A m \in numbers : ~ (<<m, k>> \in OpToRel(<, Nat))
  BY NatLessThanWellFounded, WFMin
<1>2. \A m \in numbers : ~ (m < k)
  BY <1>1 DEF OpToRel
<1> QED BY <1>2

(* A set that holds 0 and the successor of each member holds every number. *)
LEMMA Induction ==
  ASSUME NEW holds \in SUBSET Nat, 0 \in holds,
         \A n \in holds : n + 1 \in holds
  PROVE  holds = Nat
<1> SUFFICES ASSUME Nat \ holds # {}  PROVE FALSE
  OBVIOUS
<1>1. PICK k \in Nat \ holds : \A m \in Nat \ holds : ~ (m < k)
  BY LeastMember
<1>2. k - 1 \in Nat /\ k - 1 < k /\ k = (k - 1) + 1  OBVIOUS
<1>3. k - 1 \in holds  BY <1>1, <1>2
<1> QED BY <1>2, <1>3

(* A function on 0..n can be defined by its first value and by how each    *)
(* value follows from the one before it.                                   *)
Unfolds(f, n, X, first, step) ==
  /\ f \in [0..n -> X]
  /\ f[0] = first
  /\ \A i \in 1..n : f[i] = step[i][f[i - 1]]

LEMMA Recursion ==
  ASSUME NEW n \in Nat, NEW X, NEW first \in X,
         NEW step \in [1..n -> [X -> X]]
  PROVE  \E f : Unfolds(f, n, X, first, step)
<1> DEFINE Upto(m, f) ==
      f \in [0..m -> X] /\ f[0] = first
        /\ \A i \in 1..m : f[i] = step[i][f[i - 1]]
<1> DEFINE defined == {m \in Nat : m <= n => \E f : Upto(m, f)}
<1>1. 0 \in defined
  <2>1. Upto(0, [i \in 0..0 |-> first])  OBVIOUS
  <2> QED BY <2>1
<1>2. ASSUME NEW m \in defined  PROVE m + 1 \in defined
  <2>0. m \in Nat  OBVIOUS
  <2> SUFFICES ASSUME m + 1 <= n  PROVE \E g : Upto(m + 1, g)
    <3> HIDE DEF Upto
    <3> QED BY <2>0
  <2>1. PICK f : Upto(m, f)  OBVIOUS
  <2> DEFINE next == step[m + 1][f[m]]
  <2> DEFINE g == [i \in 0..(m + 1) |-> IF i = m + 1 THEN next ELSE f[i]]
  <2>2. m \in Nat  OBVIOUS
  <2>3. f[m] \in X /\ m + 1 \in 1..n  BY <2>1, <2>2
  <2>4. next \in X  BY <2>3
  <2>5. g \in [0..(m + 1) -> X]
    <3>1. \A i \in 0..(m + 1) : i # m + 1 => i \in 0..m  BY <2>2
    <3> HIDE DEF next
    <3> QED BY <2>1, <2>4, <3>1
  <2>6. g[0] = first  BY <2>1, <2>2
  <2>7. ASSUME NEW i \in 1..(m + 1)  PROVE g[i] = step[i][g[i - 1]]
    <3>1. i - 1 \in 0..m /\ g[i - 1] = f[i - 1]  BY <2>2
    <3>2. CASE i = m + 1
      <4>1. g[i] = next /\ i - 1 = m  BY <2>2, <3>2
      <4> HIDE DEF g
      <4> QED BY <3>1, <3>2, <4>1
    <3>3. CASE i # m + 1
      <4>1. i \in 1..m /\ g[i] = f[i]  BY <2>2, <3>3
      <4>2. f[i] = step[i][f[i - 1]]  BY <2>1, <4>1
      <4> HIDE DEF g
      <4> QED BY <3>1, <4>1, <4>2
    <3> QED BY <3>2, <3>3
  <2> HIDE DEF g
  <2> QED BY <2>5, <2>6, <2>7
<1>3. n \in defined
  <2>1. defined \in SUBSET Nat  OBVIOUS
  <2> HIDE DEF defined
  <2> QED BY <1>1, <1>2, <2>1, Induction
<1> QED BY <1>3 DEF Unfolds

(* A function can be defined by its values where it ends and, elsewhere,   *)
(* by how its value follows from the one of something smaller.             *)
Descends(f, S, ends, base, next, step) ==
  \A s \in S : f[s] = IF s \in ends THEN base[s] ELSE step[s][f[next[s]]]

LEMMA RecursionBySize ==
  ASSUME NEW S, NEW X, NEW size \in [S -> Nat], NEW ends \in SUBSET S,
         NEW base \in [S -> X], NEW next \in [S -> S],
         NEW step \in [S -> [X -> X]],
         \A s \in S \ ends : size[next[s]] < size[s]
  PROVE  \E f \in [S -> X] : Descends(f, S, ends, base, next, step)
<1> DEFINE Value(f, s) == IF s \in ends THEN base[s] ELSE step[s][f[next[s]]]
           Upto(n) == {f \in [S -> X] :
                         \A s \in S : size[s] <= n => f[s] = Value(f, s)}
           Again(f) == [s \in S |-> Value(f, s)]
           defined == {n \in Nat : Upto(n) # {}}
           unique == {n \in Nat : \A f, g \in Upto(n) : \A s \in S :
                        size[s] <= n => f[s] = g[s]}
<1>0. /\ \A s \in S : size[s] \in Nat /\ next[s] \in S
      /\ \A s \in S \ ends : size[next[s]] < size[s]
  OBVIOUS
<1>1. ASSUME NEW f \in [S -> X]
      PROVE  /\ \A s \in S : Value(f, s) \in X
             /\ Again(f) \in [S -> X]
             /\ \A s \in S : Again(f)[s] = Value(f, s)
  OBVIOUS
<1>2. \A f, g : \A s \in S :
        s \in ends \/ f[next[s]] = g[next[s]] => Value(f, s) = Value(g, s)
  OBVIOUS
<1>3. \A f : \A n \in Nat :
        f \in Upto(n) <=> /\ f \in [S -> X]
                          /\ \A s \in S : size[s] <= n => f[s] = Value(f, s)
  OBVIOUS
<1> HIDE DEF Value, Upto, Again
<1>4. defined = Nat
  <2>1. 0 \in defined
    <3>1. Again(base) \in [S -> X]  BY <1>1
    <3>2. ASSUME NEW s \in S, size[s] <= 0
          PROVE  Again(base)[s] = Value(Again(base), s)
      <4>1. s \in ends  BY <1>0, <3>2
      <4> QED BY <1>1, <1>2, <4>1
    <3>3. Again(base) \in Upto(0)  BY <1>3, <3>1, <3>2
    <3> QED BY <3>3
  <2>2. ASSUME NEW n \in defined  PROVE n + 1 \in defined
    <3>1. n \in Nat /\ Upto(n) # {}  OBVIOUS
    <3>2. PICK f : f \in Upto(n)  BY <3>1
    <3>3. f \in [S -> X] /\ \A s \in S : size[s] <= n => f[s] = Value(f, s)
      BY <1>3, <3>1, <3>2
    <3>4. ASSUME NEW s \in S, size[s] <= n + 1
          PROVE  Again(f)[s] = Value(Again(f), s)
      <4>1. s \in ends \/ f[next[s]] = Again(f)[next[s]]
        <5>1. s \notin ends => size[next[s]] <= n  BY <1>0, <3>1, <3>4
        <5> QED BY <1>0, <1>1, <3>3, <5>1
      <4>2. Value(f, s) = Value(Again(f), s)  BY <1>2, <4>1
      <4> QED BY <1>1, <3>3, <4>2
    <3>5. Again(f) \in [S -> X]  BY <1>1, <3>3
    <3>6. n + 1 \in Nat  BY <3>1
    <3>7. Again(f) \in Upto(n + 1)  BY <1>3, <3>4, <3>5, <3>6
    <3> QED BY <3>6, <3>7
  <2>3. defined \in SUBSET Nat  OBVIOUS
  <2> HIDE DEF defined
  <2> QED BY <2>1, <2>2, <2>3, Induction
<1>5. \A m, n \in Nat : m <= n => Upto(n) \subseteq Upto(m)
  <2> TAKE m, n \in Nat
  <2> HAVE m <= n
  <2>1. \A s \in S : size[s] <= m => size[s] <= n  BY <1>0
  <2> QED BY <1>3, <2>1
<1>6. unique = Nat
  <2>1. ASSUME NEW n \in Nat, NEW f \in Upto(n), NEW g \in Upto(n),
               NEW s \in S, size[s] <= n,
               s \in ends \/ f[next[s]] = g[next[s]]
        PROVE  f[s] = g[s]
    <3>1. f[s] = Value(f, s) /\ g[s] = Value(g, s)  BY <1>3, <2>1
    <3> QED BY <1>2, <2>1, <3>1
  <2>2. 0 \in unique
    <3>1. \A s \in S : size[s] <= 0 => s \in ends  BY <1>0
    <3> QED BY <2>1, <3>1
  <2>3. ASSUME NEW n \in unique  PROVE n + 1 \in unique
    <3>1. n \in Nat /\ n + 1 \in Nat  OBVIOUS
    <3>2. ASSUME NEW f \in Upto(n + 1), NEW g \in Upto(n + 1),
                 NEW s \in S, size[s] <= n + 1
          PROVE  f[s] = g[s]
      <4>1. f \in Upto(n) /\ g \in Upto(n)  BY <1>5, <3>1
      <4>2. s \in ends \/ f[next[s]] = g[next[s]]
        <5>1. s \notin ends => size[next[s]] <= n  BY <1>0, <3>1, <3>2
        <5> QED BY <1>0, <4>1, <5>1
      <4> QED BY <2>1, <3>1, <3>2, <4>2
    <3> QED BY <3>1, <3>2
  <2>4. unique \in SUBSET Nat  OBVIOUS
  <2> HIDE DEF unique
  <2> QED BY <2>2, <2>3, <2>4, Induction
<1> DEFINE F(n) == CHOOSE f : f \in Upto(n)
           all == [s \in S |-> F(size[s])[s]]
<1>7. \A n \in Nat : F(n) \in Upto(n)
  <2> TAKE n \in Nat
  <2>1. \E f : f \in Upto(n)  BY <1>4
  <2> QED BY <2>1
<1> HIDE DEF F, defined
<1>8. \A n \in Nat : F(n) \in [S -> X]  BY <1>3, <1>7
<1>9. all \in [S -> X]
  <2>1. \A s \in S : F(size[s])[s] \in X  BY <1>0, <1>8
  <2> QED BY <2>1
<1>10. \A s \in S : all[s] = F(size[s])[s]  OBVIOUS
<1> HIDE DEF all
<1>11. ASSUME NEW s \in S  PROVE all[s] = Value(all, s)
  <2>1. F(size[s])[s] = Value(F(size[s]), s)  BY <1>0, <1>3, <1>7
  <2>2. s \in ends \/ F(size[s])[next[s]] = all[next[s]]
    <3> SUFFICES ASSUME s \notin ends
                 PROVE  F(size[s])[next[s]] = all[next[s]]
      OBVIOUS
    <3> DEFINE t == next[s]
    <3>1. t \in S /\ size[t] \in Nat /\ size[s] \in Nat /\ size[t] <= size[s]
      BY <1>0
    <3>2. F(size[s]) \in Upto(size[t]) /\ F(size[t]) \in Upto(size[t])
      BY <1>5, <1>7, <3>1
    <3>3. size[t] \in unique  BY <1>6, <3>1
    <3> HIDE DEF t
    <3>4. F(size[s])[t] = F(size[t])[t]  BY <3>1, <3>2, <3>3
    <3> QED BY <1>10, <3>1, <3>4 DEF t
  <2>3. Value(F(size[s]), s) = Value(all, s)  BY <1>2, <2>2
  <2> QED BY <1>10, <2>1, <2>3
<1> QED BY <1>9, <1>11 DEF Value, Descends

-----------------------------------------------------------------------------
(* Sequences.                                                              *)

LEMMA FunctionIsSeq ==
  ASSUME NEW S, NEW n \in Nat, NEW f \in [1..n -> S]
  PROVE  f \in Seq(S) /\ Len(f) = n
OBVIOUS

LEMMA SeqIsFunction ==
  ASSUME NEW S, NEW s \in Seq(S)
  PROVE  s = [i \in 1..Len(s) |-> s[i]]
OBVIOUS

LEMMA AppendFacts ==
  ASSUME NEW S, NEW s \in Seq(S), NEW e \in S
  PROVE  /\ Append(s, e) \in Seq(S)
         /\ Len(Append(s, e)) = Len(s) + 1
         /\ Append(s, e)[Len(s) + 1] = e
         /\ \A i \in 1..Len(s) : Append(s, e)[i] = s[i]
OBVIOUS

LEMMA ConcatFacts ==
  ASSUME NEW S, NEW s \in Seq(S), NEW t \in Seq(S)
  PROVE  /\ s \o t \in Seq(S)
         /\ Len(s \o t) = Len(s) + Len(t)
         /\ \A i \in 1..Len(s) : (s \o t)[i] = s[i]
         /\ \A i \in 1..Len(t) : (s \o t)[Len(s) + i] = t[i]
OBVIOUS

LEMMA SubSeqFacts ==
  ASSUME NEW S, NEW s \in Seq(S), NEW a \in 1..(Len(s) + 1),
         NEW b \in Nat, b <= Len(s), a <= b + 1
  PROVE  /\ SubSeq(s, a, b) \in Seq(S)
         /\ Len(SubSeq(s, a, b)) = b - a + 1
         /\ \A i \in 1..(b - a + 1) : SubSeq(s, a, b)[i] = s[a + i - 1]
OBVIOUS

-----------------------------------------------------------------------------
(* Finite sets of numbers and their order.                                 *)

Below(S, s) == {t \in S : t < s}

LEMMA BelowFinite ==
  ASSUME NEW S, IsFiniteSet(S), NEW s
  PROVE  IsFiniteSet(Below(S, s)) /\ Cardinality(Below(S, s)) \in Nat
<1>1. Below(S, s) \in SUBSET S  BY DEF Below
<1>2. IsFiniteSet(Below(S, s))  BY <1>1, FS_Subset
<1> QED BY <1>2, FS_CardinalityType

(* A greater member has more members below it.                             *)
LEMMA BelowGrows ==
  ASSUME NEW S \in SUBSET Nat, IsFiniteSet(S), NEW s \in S, NEW t \in S, s < t
  PROVE  Cardinality(Below(S, s)) < Cardinality(Below(S, t))
<1>1. s \notin Below(S, s) /\ s \in Nat  BY DEF Below
<1>2. Below(S, s) \cup {s} \in SUBSET Below(S, t)
  <2>1. \A x \in S : x \in Nat /\ (x < s => x < t)  OBVIOUS
  <2> QED BY <2>1 DEF Below
<1>3. IsFiniteSet(Below(S, s)) /\ IsFiniteSet(Below(S, t))
  BY BelowFinite
<1>4. Cardinality(Below(S, s) \cup {s}) = Cardinality(Below(S, s)) + 1
  BY <1>1, <1>3, FS_AddElement
<1>5. Cardinality(Below(S, s) \cup {s}) <= Cardinality(Below(S, t))
  BY <1>2, <1>3, FS_Subset
<1>6. Cardinality(Below(S, s)) \in Nat /\ Cardinality(Below(S, t)) \in Nat
  BY BelowFinite
<1> QED BY <1>4, <1>5, <1>6

(* Every place is taken: there is a member with any number of members      *)
(* below it that is less than the size of the set.                         *)
LEMMA EveryPlaceTaken ==
  ASSUME NEW S \in SUBSET Nat, IsFiniteSet(S), NEW i \in 1..Cardinality(S)
  PROVE  \E s \in S : Cardinality(Below(S, s)) = i - 1
<1> DEFINE AllTaken(T) ==
      \A j \in 1..Cardinality(T) : \E s \in T : Cardinality(Below(T, s)) = j - 1
<1> DEFINE sizes ==
      {n \in Nat : \A T \in SUBSET Nat :
                     IsFiniteSet(T) /\ Cardinality(T) = n => AllTaken(T)}
<1>1. 0 \in sizes
  OBVIOUS
<1>2. ASSUME NEW n \in sizes  PROVE n + 1 \in sizes
  <2> SUFFICES ASSUME NEW T \in SUBSET Nat, IsFiniteSet(T),
                      Cardinality(T) = n + 1, NEW j \in 1..(n + 1)
               PROVE  \E s \in T : Cardinality(Below(T, s)) = j - 1
    OBVIOUS
  <2>0. n \in Nat  OBVIOUS
  <2>1. T # {}  BY <2>0, FS_EmptySet
  <2>2. PICK least \in T : \A t \in T : ~ (t < least)  BY <2>1, LeastMember
  <2> DEFINE rest == T \ {least}
  <2>3. IsFiniteSet(rest) /\ Cardinality(rest) = n
    BY <2>0, FS_RemoveElement
  <2>4. AllTaken(rest)
    <3> HIDE DEF rest
    <3>1. rest \in SUBSET Nat  BY DEF rest
    <3> QED BY <2>3, <3>1
  <2>5. CASE j = 1
    <3>1. Below(T, least) = {}  BY <2>2 DEF Below
    <3> QED BY <2>2, <2>5, <3>1, FS_EmptySet
  <2>6. CASE j # 1
    <3>1. j - 1 \in 1..Cardinality(rest)  BY <2>0, <2>3, <2>6
    <3>2. PICK s \in rest : Cardinality(Below(rest, s)) = (j - 1) - 1
      BY <2>4, <3>1
    <3>3. Below(T, s) = Below(rest, s) \cup {least}
      <4>1. least < s  BY <2>2
      <4> QED BY <4>1 DEF Below
    <3>4. least \notin Below(rest, s)  BY DEF Below
    <3>5. IsFiniteSet(Below(rest, s))  BY <2>3, BelowFinite
    <3>6. Cardinality(Below(T, s)) = Cardinality(Below(rest, s)) + 1
      BY <3>3, <3>4, <3>5, FS_AddElement
    <3> QED BY <2>0, <3>2, <3>6
  <2> QED BY <2>5, <2>6
<1>3. Cardinality(S) \in sizes
  <2>1. sizes \in SUBSET Nat  OBVIOUS
  <2> HIDE DEF sizes
  <2> QED BY <1>1, <1>2, <2>1, Induction, FS_CardinalityType
<1> QED BY <1>3

(* InOrder() lists all members of a set, each once and ascending: i - 1 of *)
(* them are below the one at place i.                                      *)
LEMMA Enumeration ==
  ASSUME NEW S \in SUBSET Nat, IsFiniteSet(S)
  PROVE  /\ Cardinality(S) \in Nat
         /\ InOrder(S) \in [1..Cardinality(S) -> S]
         /\ Len(InOrder(S)) = Cardinality(S)
         /\ \A i \in 1..Cardinality(S) :
               Cardinality(Below(S, InOrder(S)[i])) = i - 1
<1>1. Cardinality(S) \in Nat  BY FS_CardinalityType
<1>2. ASSUME NEW i \in 1..Cardinality(S)
      PROVE  /\ InOrder(S)[i] \in S
             /\ Cardinality(Below(S, InOrder(S)[i])) = i - 1
  <2>1. \E s \in S : Cardinality({t \in S : t < s}) = i - 1
    BY EveryPlaceTaken DEF Below
  <2>2. InOrder(S)[i] = CHOOSE s \in S : Cardinality({t \in S : t < s}) = i - 1
    BY DEF InOrder
  <2> QED BY <2>1, <2>2 DEF Below
<1>3. InOrder(S) \in [1..Cardinality(S) -> S]
  <2> DEFINE found(i) == CHOOSE s \in S : Cardinality({t \in S : t < s}) = i - 1
  <2>1. InOrder(S) = [i \in 1..Cardinality(S) |-> found(i)]
    BY Zenon DEF InOrder
  <2> HIDE DEF found
  <2>2. \A i \in 1..Cardinality(S) : found(i) \in S
    <3> TAKE i \in 1..Cardinality(S)
    <3>1. InOrder(S)[i] = found(i)  BY <2>1
    <3> QED BY <1>2, <3>1
  <2> QED BY <2>1, <2>2
<1> QED BY <1>1, <1>2, <1>3

(* Where a member stands in that list.                                     *)
LEMMA Place ==
  ASSUME NEW S \in SUBSET Nat, IsFiniteSet(S), NEW s \in S
  PROVE  /\ Cardinality(Below(S, s)) + 1 \in 1..Cardinality(S)
         /\ InOrder(S)[Cardinality(Below(S, s)) + 1] = s
<1> DEFINE i == Cardinality(Below(S, s)) + 1
<1>1. Cardinality(Below(S, s)) < Cardinality(S)
  <2>1. Below(S, s) \in SUBSET (S \ {s})  BY DEF Below
  <2>2. IsFiniteSet(S \ {s}) /\ Cardinality(S \ {s}) = Cardinality(S) - 1
    BY FS_RemoveElement
  <2>3. Cardinality(Below(S, s)) <= Cardinality(S \ {s})
    BY <2>1, <2>2, FS_Subset
  <2> QED BY <2>2, <2>3, BelowFinite, FS_CardinalityType
<1>2. i \in 1..Cardinality(S)  BY <1>1, BelowFinite, FS_CardinalityType
<1>3. InOrder(S)[i] \in S /\ Cardinality(Below(S, InOrder(S)[i])) = i - 1
  BY <1>2, Enumeration
<1>4. Cardinality(Below(S, InOrder(S)[i])) = Cardinality(Below(S, s))
  BY <1>3, BelowFinite
<1> DEFINE found == InOrder(S)[i]
<1>5. found \in S /\ Cardinality(Below(S, found)) = Cardinality(Below(S, s))
  BY <1>3, <1>4
<1>6. Cardinality(Below(S, s)) \in Nat  BY BelowFinite
<1> HIDE DEF found
<1>7. ~ (found < s)  BY <1>5, <1>6, BelowGrows
<1>8. ~ (s < found)  BY <1>5, <1>6, BelowGrows
<1>9. found \in Nat /\ s \in Nat  BY <1>5
<1>10. found = s  BY <1>7, <1>8, <1>9
<1> QED BY <1>2, <1>10 DEF found

(* The highest member is the last, and the list of a set that a higher     *)
(* number joins is longer by that number.                                  *)
LEMMA JoinsAtEnd ==
  ASSUME NEW S \in SUBSET Nat, IsFiniteSet(S), NEW m \in Nat,
         \A s \in S : s < m
  PROVE  /\ IsFiniteSet(S \cup {m})
         /\ Cardinality(S \cup {m}) = Cardinality(S) + 1
         /\ InOrder(S \cup {m})[Cardinality(S) + 1] = m
         /\ \A i \in 1..Cardinality(S) : InOrder(S \cup {m})[i] = InOrder(S)[i]
<1> DEFINE T == S \cup {m}
<1>1. T \in SUBSET Nat /\ IsFiniteSet(T) /\ Cardinality(T) = Cardinality(S) + 1
  <2>1. m \notin S  OBVIOUS
  <2> QED BY <2>1, FS_AddElement
<1>2. InOrder(T)[Cardinality(S) + 1] = m
  <2>1. Below(T, m) = S
    <3>1. ~ (m < m)  OBVIOUS
    <3> QED BY <3>1 DEF Below
  <2>2. m \in T  OBVIOUS
  <2> HIDE DEF T
  <2> QED BY <1>1, <2>1, <2>2, Place
<1>3. ASSUME NEW i \in 1..Cardinality(S)  PROVE InOrder(T)[i] = InOrder(S)[i]
  <2> DEFINE s == InOrder(S)[i]
  <2>1. s \in S /\ Cardinality(Below(S, s)) = i - 1  BY Enumeration
  <2>2. Below(T, s) = Below(S, s)
    <3> HIDE DEF s
    <3> QED BY <2>1 DEF Below
  <2>3. s \in T  BY <2>1
  <2>4. Cardinality(Below(T, s)) + 1 = i  BY <2>1, <2>2
  <2> HIDE DEF T, s
  <2>5. InOrder(T)[i] = s  BY <1>1, <2>3, <2>4, Place
  <2> QED BY <2>5 DEF s
<1> QED BY <1>1, <1>2, <1>3

LEMMA DisjointUnion ==
  ASSUME NEW S, IsFiniteSet(S), NEW T, IsFiniteSet(T),
         \A s \in S : s \notin T
  PROVE  /\ IsFiniteSet(S \cup T)
         /\ Cardinality(S \cup T) = Cardinality(S) + Cardinality(T)
<1>1. S \cap T = {}  OBVIOUS
<1>2. Cardinality(S \cap T) = 0  BY <1>1, FS_EmptySet
<1>3. Cardinality(S) \in Nat /\ Cardinality(T) \in Nat  BY FS_CardinalityType
<1>4. /\ IsFiniteSet(S \cup T)
      /\ Cardinality(S \cup T)
           = Cardinality(S) + Cardinality(T) - Cardinality(S \cap T)
  BY FS_Union
<1> QED BY <1>2, <1>3, <1>4

(* The list of two sets, one above the other, is their lists joined.       *)
LEMMA ListsJoin ==
  ASSUME NEW S \in SUBSET Nat, IsFiniteSet(S),
         NEW T \in SUBSET Nat, IsFiniteSet(T),
         \A s \in S, t \in T : s < t
  PROVE  /\ IsFiniteSet(S \cup T)
         /\ Cardinality(S \cup T) = Cardinality(S) + Cardinality(T)
         /\ \A i \in 1..Cardinality(S) : InOrder(S \cup T)[i] = InOrder(S)[i]
         /\ \A i \in 1..Cardinality(T) :
              InOrder(S \cup T)[Cardinality(S) + i] = InOrder(T)[i]
<1> DEFINE U == S \cup T
<1>0. \A s \in S : s \in Nat /\ s \notin T  OBVIOUS
<1>1. U \in SUBSET Nat /\ IsFiniteSet(U)
      /\ Cardinality(U) = Cardinality(S) + Cardinality(T)
  BY <1>0, DisjointUnion
<1>2. Cardinality(S) \in Nat /\ Cardinality(T) \in Nat  BY FS_CardinalityType
<1>3. ASSUME NEW i \in 1..Cardinality(S)  PROVE InOrder(U)[i] = InOrder(S)[i]
  <2> DEFINE s == InOrder(S)[i]
  <2>1. s \in S /\ Cardinality(Below(S, s)) = i - 1  BY Enumeration
  <2> HIDE DEF s
  <2>2. Below(U, s) = Below(S, s)
    <3>1. \A t \in T : ~ (t < s)  BY <2>1
    <3> QED BY <3>1 DEF Below
  <2>3. s \in U /\ Cardinality(Below(U, s)) + 1 = i  BY <2>1, <2>2
  <2> HIDE DEF U
  <2>4. InOrder(U)[i] = s  BY <1>1, <2>3, Place
  <2> QED BY <2>4 DEF s
<1>4. ASSUME NEW i \in 1..Cardinality(T)
      PROVE  InOrder(U)[Cardinality(S) + i] = InOrder(T)[i]
  <2> DEFINE t == InOrder(T)[i]
  <2>1. t \in T /\ Cardinality(Below(T, t)) = i - 1  BY Enumeration
  <2> HIDE DEF t
  <2>2. Below(U, t) = S \cup Below(T, t)
    <3>1. \A s \in S : s < t  BY <2>1
    <3> QED BY <3>1 DEF Below
  <2>3. IsFiniteSet(Below(T, t)) /\ \A s \in S : s \notin Below(T, t)
    BY <1>0, BelowFinite DEF Below
  <2>4. Cardinality(Below(U, t)) = Cardinality(S) + (i - 1)
    BY <2>1, <2>2, <2>3, DisjointUnion
  <2>5. t \in U /\ Cardinality(Below(U, t)) + 1 = Cardinality(S) + i
    BY <1>2, <2>1, <2>4
  <2> HIDE DEF U
  <2>6. InOrder(U)[Cardinality(S) + i] = t  BY <1>1, <2>5, Place
  <2> QED BY <2>6 DEF t
<1> QED BY <1>1, <1>3, <1>4

LEMMA IntervalInOrder ==
  ASSUME NEW a \in Nat, NEW n \in Nat
  PROVE  /\ IsFiniteSet((a + 1)..(a + n)) /\ Cardinality((a + 1)..(a + n)) = n
         /\ \A i \in 1..n : InOrder((a + 1)..(a + n))[i] = a + i
<1> DEFINE S == (a + 1)..(a + n)
<1>1. IsFiniteSet(S) /\ Cardinality(S) = n /\ S \in SUBSET Nat
  BY FS_Interval
<1>2. ASSUME NEW i \in 1..n  PROVE InOrder(S)[i] = a + i
  <2>1. Below(S, a + i) = (a + 1)..(a + (i - 1))  BY DEF Below
  <2>2. Cardinality(Below(S, a + i)) + 1 = i
    <3>1. Cardinality((a + 1)..(a + (i - 1))) = i - 1
      BY FS_Interval
    <3> HIDE DEF S
    <3> QED BY <2>1, <3>1
  <2>3. a + i \in S  OBVIOUS
  <2> HIDE DEF S
  <2> QED BY <1>1, <2>2, <2>3, Place
<1> QED BY <1>1, <1>2

=============================================================================
