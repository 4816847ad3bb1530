--------------------------- MODULE SettingsProofs ---------------------------
(***************************************************************************)
(* Theorems about options, for all recipes, providers, environments and    *)
(* bounds.                                                                 *)
(*                                                                         *)
(* Rep says when an Options in a heap of maps stands for a list of         *)
(* options: each field and each entry of each map is what the last option  *)
(* of that kind and name made it.  It is kept by applying one option more  *)
(* and by every heap that leaves the maps alone, which is all that New(),  *)
(* calls and the caller's writes do.  What a leg sends, prepareLLMCall, is *)
(* then worked out from the list.                                          *)
(***************************************************************************)
EXTENDS Settings, Foundations

-----------------------------------------------------------------------------
(* The inductive invariant.  Maps are of many types, so of the heap only   *)
(* its being a sequence is said.                                           *)
IsSeq(h) == \E S : h \in Seq(S)

(* Where a map may be that is not the caller's own.                        *)
Address(h) == {Nil} \cup 2..Len(h)

Holds(h, map, contents) == map \in Address(h) /\ At(h, map) = contents

Good(h, option) ==
  /\ DOMAIN option = {"recipe", "map", "meant"}
  /\ option.recipe \in Recipe
  /\ Holds(h, option.map, option.meant)
  /\ option.recipe.kind \in ExtraBody =>
       reservedExtraBodyKeys \cap DOMAIN option.meant = {}

AllGood(h, options) ==
  IsSeq(options) /\ \A i \in 1..Len(options) : Good(h, options[i])

Names(options, kind) ==
  {options[i].recipe.name :
     i \in {j \in 1..Len(options) : options[j].recipe.kind = kind}}

Fields == {"model", "pool", "effort", "seed", "legEfforts", "providers",
           "default", "extra", "providerExtra"}

RepValues(o, options) ==
  /\ o.effort = LastOf(options, "effort", None).recipe.value
  /\ o.seed = LastOf(options, "seed", None).recipe.value

RepConfig(h, config, option) ==
  /\ config.base = option.recipe.base /\ config.key = option.recipe.key
  /\ Holds(h, config.headers, option.meant)

(* A map of entries, one for each name the options give.                   *)
RepNames(h, map, options, kind) ==
  map \in Address(h) /\ DOMAIN At(h, map) = Names(options, kind)

RepEfforts(h, map, options) ==
  /\ RepNames(h, map, options, "legEffort")
  /\ \A name \in Names(options, "legEffort") :
       At(h, map)[name] = LastOf(options, "legEffort", name).recipe.value

RepProviders(h, map, options) ==
  /\ RepNames(h, map, options, "provider")
  /\ \A name \in Names(options, "provider") :
       RepConfig(h, At(h, map)[name], LastOf(options, "provider", name))

RepProviderExtra(h, map, options) ==
  /\ RepNames(h, map, options, "providerExtra")
  /\ \A name \in Names(options, "providerExtra") :
       Holds(h, At(h, map)[name], LastOf(options, "providerExtra", name).meant)

Rep(h, o, options) ==
  /\ o = [field \in Fields |-> o[field]]
  /\ RepValues(o, options)
  /\ RepEfforts(h, o.legEfforts, options)
  /\ RepProviders(h, o.providers, options)
  /\ RepProviderExtra(h, o.providerExtra, options)
  /\ RepConfig(h, o.default, LastOf(options, "default", None))
  /\ Holds(h, o.extra, LastOf(options, "extra", None).meant)

(* The options of a client and of a call, without variables.               *)
PassedOf(options, n, passed) ==
  SubSeq(options, 1, n) \o [i \in 1..Len(passed) |-> options[passed[i]]]

Right(h, options, n, call) ==
  /\ call.passed \in Seq(1..Len(options))
  /\ Rep(h, call.opts, PassedOf(options, n, call.passed))

Inv ==
  /\ IsSeq(heap) /\ Len(heap) > 0
  /\ AllGood(heap, built)
  /\ base \in 0..Len(built)
  /\ client # None => Rep(heap, client, SubSeq(built, 1, base))
  /\ client = None => calls = <<>>
  /\ IsSeq(calls)
  /\ \A i \in 1..Len(calls) : Right(heap, built, base, calls[i])

-----------------------------------------------------------------------------
(* Sequences of anything.                                                  *)

LEMMA EmptySeq == IsSeq(<<>>)
<1>1. <<>> \in Seq({})  OBVIOUS
<1> QED BY <1>1 DEF IsSeq

LEMMA SeqLen ==
  ASSUME NEW s, IsSeq(s)
  PROVE  Len(s) \in Nat /\ DOMAIN s = 1..Len(s)
BY DEF IsSeq

LEMMA SeqAppend ==
  ASSUME NEW s, IsSeq(s), NEW e
  PROVE  /\ IsSeq(Append(s, e)) /\ Len(Append(s, e)) = Len(s) + 1
         /\ Append(s, e)[Len(s) + 1] = e
         /\ \A i \in 1..Len(s) : Append(s, e)[i] = s[i]
<1>1. PICK S : s \in Seq(S)  BY DEF IsSeq
<1> DEFINE T == S \cup {e}
<1>2. s \in Seq(T) /\ e \in T  BY <1>1
<1> HIDE DEF T
<1>3. Append(s, e) \in Seq(T)  BY <1>2
<1> QED BY <1>2, <1>3 DEF IsSeq

LEMMA SeqConcat ==
  ASSUME NEW s, IsSeq(s), NEW t, IsSeq(t)
  PROVE  /\ IsSeq(s \o t) /\ Len(s \o t) = Len(s) + Len(t)
         /\ \A i \in 1..Len(s) : (s \o t)[i] = s[i]
         /\ \A i \in 1..Len(t) : (s \o t)[Len(s) + i] = t[i]
         /\ \A i \in 1..Len(s \o t) :
              \/ i \in 1..Len(s) /\ (s \o t)[i] = s[i]
              \/ i - Len(s) \in 1..Len(t) /\ (s \o t)[i] = t[i - Len(s)]
<1>1. PICK S : s \in Seq(S)  BY DEF IsSeq
<1>2. PICK T : t \in Seq(T)  BY DEF IsSeq
<1> DEFINE U == S \cup T
<1>3. s \in Seq(U) /\ t \in Seq(U)  BY <1>1, <1>2
<1> HIDE DEF U
<1>4. s \o t \in Seq(U)  BY <1>3
<1> QED BY <1>3, <1>4 DEF IsSeq

(* A sequence is what its elements are.                                    *)
LEMMA SeqEqual ==
  ASSUME NEW s, IsSeq(s), NEW t, IsSeq(t), Len(s) = Len(t),
         \A i \in 1..Len(s) : s[i] = t[i]
  PROVE  s = t
<1>1. PICK S : s \in Seq(S)  BY DEF IsSeq
<1>2. PICK T : t \in Seq(T)  BY DEF IsSeq
<1> DEFINE U == S \cup T
<1>3. s \in Seq(U) /\ t \in Seq(U)  BY <1>1, <1>2
<1> HIDE DEF U
<1> QED BY <1>3

LEMMA SeqPrefix ==
  ASSUME NEW s, IsSeq(s), NEW n \in 0..Len(s)
  PROVE  /\ IsSeq(SubSeq(s, 1, n)) /\ Len(SubSeq(s, 1, n)) = n
         /\ \A i \in 1..n : SubSeq(s, 1, n)[i] = s[i]
<1>1. PICK S : s \in Seq(S)  BY DEF IsSeq
<1>2. SubSeq(s, 1, n) \in Seq(S) /\ Len(SubSeq(s, 1, n)) = n
      /\ \A i \in 1..n : SubSeq(s, 1, n)[i] = s[i]
  BY <1>1
<1> QED BY <1>2 DEF IsSeq

LEMMA SeqMade ==
  ASSUME NEW n \in Nat, NEW f, f = [i \in 1..n |-> f[i]]
  PROVE  IsSeq(f) /\ Len(f) = n
<1> DEFINE S == {f[i] : i \in 1..n}
<1>1. f \in [1..n -> S]  OBVIOUS
<1> HIDE DEF S
<1>2. f \in Seq(S) /\ Len(f) = n  BY <1>1
<1> QED BY <1>2 DEF IsSeq

-----------------------------------------------------------------------------
(* The last option of a kind and name.                                     *)

Matching(options, kind, name) ==
  {i \in 1..Len(options) : Matches(options[i], kind, name)}

LEMMA Topmost ==
  ASSUME NEW n \in Nat, NEW S \in SUBSET (1..n), S # {}
  PROVE  \E i \in S : \A j \in S : j <= i
<1> DEFINE above == {k \in Nat : \A i \in S : i <= k}
<1>1. above \in SUBSET Nat /\ above # {}
  <2>1. n \in above  OBVIOUS
  <2> QED BY <2>1
<1> HIDE DEF above
<1>2. PICK k \in above : \A m \in above : ~ (m < k)  BY <1>1, LeastMember
<1> USE DEF above
<1>3. k \in Nat /\ \A i \in S : i <= k  BY <1>2
<1>4. CASE k \in S  BY <1>3, <1>4
<1>5. CASE k \notin S
  <2>1. PICK i \in S : TRUE  OBVIOUS
  <2>2. i \in 1..n /\ i <= k /\ i # k  BY <1>3, <1>5, <2>1
  <2>3. k - 1 \in Nat /\ k - 1 < k  BY <1>3, <2>2
  <2>4. \A j \in S : j <= k - 1  BY <1>3, <1>5
  <2>5. k - 1 \in above  BY <2>3, <2>4
  <2> QED BY <1>2, <2>3, <2>5
<1> QED BY <1>4, <1>5

LEMMA LastOfFacts ==
  ASSUME NEW options, IsSeq(options), NEW kind, NEW name
  PROVE  /\ Matching(options, kind, name) = {} =>
              LastOf(options, kind, name) = Absent
         /\ Matching(options, kind, name) # {} =>
              \E i \in Matching(options, kind, name) :
                /\ \A j \in Matching(options, kind, name) : j <= i
                /\ LastOf(options, kind, name) = options[i]
<1> DEFINE S == Matching(options, kind, name)
<1>1. Len(options) \in Nat  BY SeqLen
<1>2. S \in SUBSET (1..Len(options))  BY DEF Matching
<1>3. LastOf(options, kind, name) =
        IF S = {} THEN Absent
        ELSE options[CHOOSE i \in S : \A j \in S : j <= i]
  BY DEF LastOf, Matching
<1> HIDE DEF S
<1>4. S # {} => \E i \in S : \A j \in S : j <= i  BY <1>1, <1>2, Topmost
<1>5. S # {} => LET i == CHOOSE i \in S : \A j \in S : j <= i
                IN  i \in S /\ \A j \in S : j <= i
  BY <1>4
<1> QED BY <1>3, <1>5 DEF S

LEMMA LastOfEmpty ==
  ASSUME NEW kind, NEW name
  PROVE  LastOf(<<>>, kind, name) = Absent /\ Names(<<>>, kind) = {}
<1>1. IsSeq(<<>>) /\ Len(<<>>) = 0  BY EmptySeq
<1>2. Matching(<<>>, kind, name) = {}  BY <1>1 DEF Matching
<1> QED BY <1>1, <1>2, LastOfFacts DEF Names

(* One option more: it is the last of its kind and name.                   *)
LEMMA LastOfAppend ==
  ASSUME NEW options, IsSeq(options), NEW option, NEW kind, NEW name
  PROVE  LastOf(Append(options, option), kind, name) =
           IF Matches(option, kind, name) THEN option
           ELSE LastOf(options, kind, name)
<1> DEFINE more == Append(options, option)
<1> DEFINE n == Len(options)
<1>1. /\ IsSeq(more) /\ n \in Nat /\ Len(more) = n + 1 /\ more[n + 1] = option
      /\ \A i \in 1..n : more[i] = options[i]
  BY SeqAppend, SeqLen
<1> HIDE DEF more
<1> DEFINE S == Matching(options, kind, name)
<1> DEFINE T == Matching(more, kind, name)
<1>2. CASE Matches(option, kind, name)
  <2>1. n + 1 \in T /\ \A i \in T : i <= n + 1
    BY <1>1, <1>2 DEF Matching
  <2>2. PICK i \in T :
          (\A j \in T : j <= i) /\ LastOf(more, kind, name) = more[i]
    BY <1>1, <2>1, LastOfFacts
  <2>3. i = n + 1
    <3>1. i \in Nat  BY <1>1, <2>2 DEF Matching
    <3> HIDE DEF T
    <3> QED BY <1>1, <2>1, <2>2, <3>1
  <2> QED BY <1>1, <1>2, <2>2, <2>3 DEF more
<1>3. CASE ~Matches(option, kind, name)
  <2>1. T = S
    <3>1. \A i \in 1..(n + 1) : i = n + 1 \/ i \in 1..n  BY <1>1
    <3>2. \A i \in 1..n : i \in 1..(n + 1)  BY <1>1
    <3> QED BY <1>1, <1>3, <3>1, <3>2 DEF Matching
  <2>2. CASE S = {}
    <3>1. LastOf(more, kind, name) = Absent
      BY <1>1, <2>1, <2>2, LastOfFacts
    <3>2. LastOf(options, kind, name) = Absent  BY <2>2, LastOfFacts
    <3> QED BY <1>3, <3>1, <3>2 DEF more
  <2>3. CASE S # {}
    <3>1. PICK i \in S :
            (\A j \in S : j <= i) /\ LastOf(options, kind, name) = options[i]
      BY <2>3, LastOfFacts
    <3>2. PICK k \in S :
            (\A j \in S : j <= k) /\ LastOf(more, kind, name) = more[k]
      BY <1>1, <2>1, <2>3, LastOfFacts
    <3>3. i \in 1..n /\ k \in 1..n  BY <3>1, <3>2 DEF Matching
    <3>4. i = k
      <4> HIDE DEF S
      <4> QED BY <1>1, <3>1, <3>2, <3>3
    <3> QED BY <1>1, <1>3, <3>1, <3>2, <3>3, <3>4 DEF more
  <2> QED BY <2>2, <2>3
<1> QED BY <1>2, <1>3

LEMMA NamesAppend ==
  ASSUME NEW options, IsSeq(options), NEW option, NEW kind
  PROVE  Names(Append(options, option), kind) =
           IF option.recipe.kind = kind
             THEN {option.recipe.name} \cup Names(options, kind)
             ELSE Names(options, kind)
<1> DEFINE more == Append(options, option)
<1> DEFINE n == Len(options)
<1>1. /\ n \in Nat /\ Len(more) = n + 1 /\ more[n + 1] = option
      /\ \A i \in 1..n : more[i] = options[i]
  BY SeqAppend, SeqLen
<1> HIDE DEF more
<1>2. 1..Len(more) = (1..n) \cup {n + 1}  BY <1>1
<1>3. ASSUME NEW name
      PROVE  name \in Names(more, kind) <=>
               \/ name \in Names(options, kind)
               \/ option.recipe.kind = kind /\ name = option.recipe.name
  BY <1>1, <1>2 DEF Names
<1> QED BY <1>3 DEF more

-----------------------------------------------------------------------------
(* Heaps.                                                                  *)

(* A later heap: maps were added, and only the caller's own has changed.   *)
Later(h, g) ==
  /\ IsSeq(h) /\ IsSeq(g) /\ Len(h) > 0 /\ Len(h) <= Len(g)
  /\ \A map \in 2..Len(h) : g[map] = h[map]

LEMMA LaterSame ==
  ASSUME NEW h, IsSeq(h), Len(h) > 0
  PROVE  Later(h, h)
BY SeqLen DEF Later

LEMMA LaterTwice ==
  ASSUME NEW h, NEW g, NEW f, Later(h, g), Later(g, f)
  PROVE  Later(h, f)
BY SeqLen DEF Later

LEMMA LaterAppend ==
  ASSUME NEW h, IsSeq(h), Len(h) > 0, NEW e
  PROVE  /\ Later(h, Append(h, e)) /\ Append(h, e)[Len(h) + 1] = e
         /\ Len(h) + 1 \in Address(Append(h, e)) \ {Nil}
<1>1. /\ Len(h) \in Nat
      /\ IsSeq(Append(h, e)) /\ Len(Append(h, e)) = Len(h) + 1
      /\ Append(h, e)[Len(h) + 1] = e
      /\ \A i \in 1..Len(h) : Append(h, e)[i] = h[i]
  BY SeqLen, SeqAppend
<1> QED BY <1>1 DEF Later, Address, Nil

LEMMA AddressLater ==
  ASSUME NEW h, NEW g, Later(h, g), NEW map \in Address(h)
  PROVE  map \in Address(g) /\ At(g, map) = At(h, map)
<1>1. Len(h) \in Nat /\ Len(g) \in Nat  BY SeqLen DEF Later
<1> QED BY <1>1 DEF Later, Address, At, Nil

LEMMA HoldsLater ==
  ASSUME NEW h, NEW g, Later(h, g), NEW map, NEW contents,
         Holds(h, map, contents)
  PROVE  Holds(g, map, contents)
BY AddressLater DEF Holds

LEMMA GoodLater ==
  ASSUME NEW h, NEW g, Later(h, g), NEW options, AllGood(h, options)
  PROVE  AllGood(g, options)
BY HoldsLater DEF AllGood, Good

LEMMA RepLater ==
  ASSUME NEW h, NEW g, Later(h, g), NEW o, NEW options, Rep(h, o, options)
  PROVE  Rep(g, o, options)
<1>1. RepEfforts(g, o.legEfforts, options)
  BY AddressLater DEF Rep, RepEfforts, RepNames
<1>2. RepProviders(g, o.providers, options)
  <2>1. /\ o.providers \in Address(g)
        /\ At(g, o.providers) = At(h, o.providers)
    BY AddressLater DEF Rep, RepProviders, RepNames
  <2>2. ASSUME NEW name \in Names(options, "provider")
        PROVE  RepConfig(g, At(g, o.providers)[name],
                         LastOf(options, "provider", name))
    <3>1. RepConfig(h, At(h, o.providers)[name],
                    LastOf(options, "provider", name))
      BY DEF Rep, RepProviders
    <3> QED BY <2>1, <3>1, HoldsLater DEF RepConfig
  <2> QED BY <2>1, <2>2 DEF Rep, RepProviders, RepNames
<1>3. RepProviderExtra(g, o.providerExtra, options)
  <2>1. /\ o.providerExtra \in Address(g)
        /\ At(g, o.providerExtra) = At(h, o.providerExtra)
    BY AddressLater DEF Rep, RepProviderExtra, RepNames
  <2>2. ASSUME NEW name \in Names(options, "providerExtra")
        PROVE  Holds(g, At(g, o.providerExtra)[name],
                     LastOf(options, "providerExtra", name).meant)
    <3>1. Holds(h, At(h, o.providerExtra)[name],
                LastOf(options, "providerExtra", name).meant)
      BY DEF Rep, RepProviderExtra
    <3> QED BY <2>1, <3>1, HoldsLater
  <2> QED BY <2>1, <2>2 DEF Rep, RepProviderExtra, RepNames
<1>4. RepConfig(g, o.default, LastOf(options, "default", None))
  BY HoldsLater DEF Rep, RepConfig
<1>5. Holds(g, o.extra, LastOf(options, "extra", None).meant)
  BY HoldsLater DEF Rep
<1> QED BY <1>1, <1>2, <1>3, <1>4, <1>5 DEF Rep

(* A copy of a map with one entry set.                                     *)
Extends(new, old, key, value) == new = (key :> value) @@ old

(* Copy on write.                                                          *)
LEMMA PutFacts ==
  ASSUME NEW s, IsSeq(s.heap), Len(s.heap) > 0,
         s.opts = [f \in Fields |-> s.opts[f]], NEW field \in Fields,
         NEW key, NEW value, NEW t, t = Put(s, field, key, value)
  PROVE  /\ t = [heap |-> t.heap, opts |-> t.opts]
         /\ Later(s.heap, t.heap)
         /\ t.opts = [f \in Fields |-> t.opts[f]]
         /\ \A f \in Fields : f # field => t.opts[f] = s.opts[f]
         /\ t.opts[field] \in Address(t.heap)
         /\ Extends(At(t.heap, t.opts[field]), At(s.heap, s.opts[field]),
                    key, value)
<1> DEFINE h == s.heap
<1> DEFINE o == s.opts
<1> DEFINE new == (key :> value) @@ At(h, o[field])
<1> DEFINE place == Len(h) + 1
<1>1. /\ t = [heap |-> Append(h, new), opts |-> [o EXCEPT ![field] = place]]
  BY DEF Put
<1> HIDE DEF new
<1>2. /\ Later(h, Append(h, new)) /\ Append(h, new)[place] = new
      /\ place \in Address(Append(h, new)) \ {Nil}
  BY LaterAppend
<1>3. t.heap = Append(h, new) /\ t.opts = [o EXCEPT ![field] = place]
  BY <1>1
<1> HIDE DEF place
<1>4. /\ t.opts = [f \in Fields |-> t.opts[f]] /\ t.opts[field] = place
      /\ \A f \in Fields : f # field => t.opts[f] = o[f]
  BY <1>3
<1>5. At(t.heap, place) = new  BY <1>2, <1>3 DEF At
<1> QED BY <1>1, <1>2, <1>3, <1>4, <1>5 DEF new, Extends

LEMMA ExtendsKey ==
  ASSUME NEW new, NEW old, NEW key, NEW value, Extends(new, old, key, value)
  PROVE  DOMAIN new = {key} \cup DOMAIN old /\ new[key] = value
BY DEF Extends, @@, :>

LEMMA ExtendsOther ==
  ASSUME NEW new, NEW old, NEW key, NEW value, Extends(new, old, key, value),
         NEW k \in DOMAIN old, k # key
  PROVE  new[k] = old[k]
BY DEF Extends, @@, :>

-----------------------------------------------------------------------------
(* Applying one option.                                                    *)

(* What the list says of other kinds stays.                                *)
LEMMA OtherKinds ==
  ASSUME NEW options, IsSeq(options), NEW option, NEW kind,
         option.recipe.kind # kind
  PROVE  /\ Names(Append(options, option), kind) = Names(options, kind)
         /\ \A name : LastOf(Append(options, option), kind, name) =
                        LastOf(options, kind, name)
<1>1. Names(Append(options, option), kind) = Names(options, kind)
  BY NamesAppend
<1>2. ASSUME NEW name
      PROVE  LastOf(Append(options, option), kind, name) =
               LastOf(options, kind, name)
  BY LastOfAppend DEF Matches
<1> QED BY <1>1, <1>2

LEMMA OtherLast ==
  ASSUME NEW options, IsSeq(options), NEW option, NEW kind, NEW name,
         option.recipe.kind # kind
  PROVE  LastOf(Append(options, option), kind, name) =
           LastOf(options, kind, name)
BY LastOfAppend DEF Matches

LEMMA KeepValues ==
  ASSUME NEW options, IsSeq(options), NEW option, NEW o, RepValues(o, options),
         option.recipe.kind \notin {"effort", "seed"}
  PROVE  RepValues(o, Append(options, option))
<1>1. option.recipe.kind # "effort" /\ option.recipe.kind # "seed"  OBVIOUS
<1>2. LastOf(Append(options, option), "effort", None) =
        LastOf(options, "effort", None)
  BY <1>1, OtherLast
<1>3. LastOf(Append(options, option), "seed", None) =
        LastOf(options, "seed", None)
  BY <1>1, OtherLast
<1> QED BY <1>2, <1>3 DEF RepValues

LEMMA KeepEfforts ==
  ASSUME NEW h, NEW map, NEW options, IsSeq(options), NEW option,
         RepEfforts(h, map, options), option.recipe.kind # "legEffort"
  PROVE  RepEfforts(h, map, Append(options, option))
BY OtherKinds DEF RepEfforts, RepNames

LEMMA KeepProviders ==
  ASSUME NEW h, NEW map, NEW options, IsSeq(options), NEW option,
         RepProviders(h, map, options), option.recipe.kind # "provider"
  PROVE  RepProviders(h, map, Append(options, option))
BY OtherKinds DEF RepProviders, RepNames

LEMMA KeepProviderExtra ==
  ASSUME NEW h, NEW map, NEW options, IsSeq(options), NEW option,
         RepProviderExtra(h, map, options),
         option.recipe.kind # "providerExtra"
  PROVE  RepProviderExtra(h, map, Append(options, option))
BY OtherKinds DEF RepProviderExtra, RepNames

LEMMA KeepDefault ==
  ASSUME NEW h, NEW config, NEW options, IsSeq(options), NEW option,
         RepConfig(h, config, LastOf(options, "default", None)),
         option.recipe.kind # "default"
  PROVE  RepConfig(h, config, LastOf(Append(options, option), "default", None))
BY OtherKinds

LEMMA KeepExtra ==
  ASSUME NEW h, NEW map, NEW options, IsSeq(options), NEW option,
         Holds(h, map, LastOf(options, "extra", None).meant),
         option.recipe.kind # "extra"
  PROVE  Holds(h, map, LastOf(Append(options, option), "extra", None).meant)
BY OtherKinds

(* An entry is put in a copy of a map.                                     *)
Lists(map, options, kind) == DOMAIN map = Names(options, kind)

LEMMA PutName ==
  ASSUME NEW options, IsSeq(options), NEW option, NEW kind, NEW key,
         Matches(option, kind, key), NEW old, Lists(old, options, kind),
         NEW new, NEW value, Extends(new, old, key, value)
  PROVE  /\ Lists(new, Append(options, option), kind) /\ new[key] = value
         /\ LastOf(Append(options, option), kind, key) = option
<1>0. option.recipe.kind = kind /\ option.recipe.name = key  BY DEF Matches
<1>1. Names(Append(options, option), kind) = {key} \cup Names(options, kind)
  BY <1>0, NamesAppend
<1>2. DOMAIN new = {key} \cup DOMAIN old /\ new[key] = value  BY ExtendsKey
<1>3. LastOf(Append(options, option), kind, key) = option  BY LastOfAppend
<1> QED BY <1>1, <1>2, <1>3 DEF Lists

LEMMA PutOther ==
  ASSUME NEW options, IsSeq(options), NEW option, NEW kind, NEW key,
         Matches(option, kind, key), NEW old, Lists(old, options, kind),
         NEW new, NEW value, Extends(new, old, key, value),
         NEW name \in Names(Append(options, option), kind), name # key
  PROVE  /\ name \in Names(options, kind) /\ new[name] = old[name]
         /\ LastOf(Append(options, option), kind, name) =
              LastOf(options, kind, name)
<1>0. option.recipe.kind = kind /\ option.recipe.name = key  BY DEF Matches
<1>1. name \in Names(options, kind)  BY <1>0, NamesAppend
<1>2. new[name] = old[name]  BY <1>1, ExtendsOther DEF Lists
<1>3. LastOf(Append(options, option), kind, name) = LastOf(options, kind, name)
  BY <1>0, LastOfAppend DEF Matches
<1> QED BY <1>1, <1>2, <1>3

(* Applying an option leaves an Options that stands for one option more.   *)
Makes(h, t, options, option) ==
  /\ t = [heap |-> t.heap, opts |-> t.opts]
  /\ Later(h, t.heap)
  /\ Rep(t.heap, t.opts, Append(options, option))

LEMMA ApplyEffort ==
  ASSUME NEW s, IsSeq(s.heap), Len(s.heap) > 0,
         NEW options, IsSeq(options), Rep(s.heap, s.opts, options),
         NEW option, Good(s.heap, option), option.recipe.kind = "legEffort",
         NEW t, t = WithLegReasoningEffort(s, option)
  PROVE  Makes(s.heap, t, options, option)
<1> DEFINE more == Append(options, option)
<1> DEFINE name == option.recipe.name
<1> DEFINE value == option.recipe.value
<1> DEFINE old == At(s.heap, s.opts.legEfforts)
<1> DEFINE new == At(t.heap, t.opts.legEfforts)
<1>1. /\ t = [heap |-> t.heap, opts |-> t.opts] /\ Later(s.heap, t.heap)
      /\ t.opts = [f \in Fields |-> t.opts[f]]
      /\ \A f \in Fields : f # "legEfforts" => t.opts[f] = s.opts[f]
      /\ t.opts.legEfforts \in Address(t.heap)
      /\ Extends(new, old, name, value)
  <2>1. t = Put(s, "legEfforts", name, value)  BY DEF WithLegReasoningEffort
  <2>2. "legEfforts" \in Fields  BY DEF Fields
  <2>3. s.opts = [f \in Fields |-> s.opts[f]]  BY DEF Rep
  <2> HIDE DEF name, value
  <2> QED BY <2>1, <2>2, <2>3, PutFacts
<1>2. Rep(t.heap, s.opts, options)  BY <1>1, RepLater
<1>3. /\ DOMAIN new = Names(more, "legEffort") /\ new[name] = value
      /\ LastOf(more, "legEffort", name) = option
      /\ \A n \in Names(more, "legEffort") : n # name =>
           /\ n \in Names(options, "legEffort") /\ new[n] = old[n]
           /\ LastOf(more, "legEffort", n) = LastOf(options, "legEffort", n)
  <2>0. Matches(option, "legEffort", name)  BY DEF Matches
  <2>1. Lists(old, options, "legEffort")
    BY DEF Rep, RepEfforts, RepNames, Lists
  <2>2. Extends(new, old, name, value)  BY <1>1
  <2> HIDE DEF name, old, new, value
  <2>3. /\ Lists(new, more, "legEffort") /\ new[name] = value
        /\ LastOf(more, "legEffort", name) = option
    BY <2>0, <2>1, <2>2, PutName
  <2>4. ASSUME NEW n \in Names(more, "legEffort"), n # name
        PROVE  /\ n \in Names(options, "legEffort") /\ new[n] = old[n]
               /\ LastOf(more, "legEffort", n) =
                    LastOf(options, "legEffort", n)
    BY <2>0, <2>1, <2>2, <2>4, PutOther
  <2> QED BY <2>3, <2>4 DEF Lists
<1>4. RepEfforts(t.heap, t.opts.legEfforts, more)
  <2>1. \A n \in Names(options, "legEffort") :
          old[n] = LastOf(options, "legEffort", n).recipe.value
    BY DEF Rep, RepEfforts
  <2> QED BY <1>1, <1>3, <2>1 DEF RepEfforts, RepNames
<1>5. /\ t.opts.effort = s.opts.effort /\ t.opts.seed = s.opts.seed
      /\ t.opts.providers = s.opts.providers
      /\ t.opts.providerExtra = s.opts.providerExtra
      /\ t.opts.default = s.opts.default /\ t.opts.extra = s.opts.extra
  BY <1>1 DEF Fields
<1>6. RepValues(t.opts, more)
  <2>1. RepValues(t.opts, options)  BY <1>2, <1>5 DEF Rep, RepValues
  <2>2. option.recipe.kind \notin {"effort", "seed"}  OBVIOUS
  <2> QED BY <2>1, <2>2, KeepValues
<1>7. RepProviders(t.heap, t.opts.providers, more)
  <2>1. RepProviders(t.heap, t.opts.providers, options)
    BY <1>2, <1>5 DEF Rep
  <2> QED BY <2>1, KeepProviders
<1>8. RepProviderExtra(t.heap, t.opts.providerExtra, more)
  <2>1. RepProviderExtra(t.heap, t.opts.providerExtra, options)
    BY <1>2, <1>5 DEF Rep
  <2> QED BY <2>1, KeepProviderExtra
<1>9. RepConfig(t.heap, t.opts.default, LastOf(more, "default", None))
  <2>1. RepConfig(t.heap, t.opts.default, LastOf(options, "default", None))
    BY <1>2, <1>5 DEF Rep
  <2> QED BY <2>1, KeepDefault
<1>10. Holds(t.heap, t.opts.extra, LastOf(more, "extra", None).meant)
  <2>1. Holds(t.heap, t.opts.extra, LastOf(options, "extra", None).meant)
    BY <1>2, <1>5 DEF Rep
  <2> QED BY <2>1, KeepExtra
<1> QED BY <1>1, <1>4, <1>6, <1>7, <1>8, <1>9, <1>10 DEF Makes, Rep

LEMMA ApplyProvider ==
  ASSUME NEW s, IsSeq(s.heap), Len(s.heap) > 0,
         NEW options, IsSeq(options), Rep(s.heap, s.opts, options),
         NEW option, Good(s.heap, option), option.recipe.kind = "provider",
         NEW t, t = WithProvider(s, option)
  PROVE  Makes(s.heap, t, options, option)
<1> DEFINE more == Append(options, option)
<1> DEFINE name == option.recipe.name
<1> DEFINE value == Config(option)
<1> DEFINE old == At(s.heap, s.opts.providers)
<1> DEFINE new == At(t.heap, t.opts.providers)
<1>1. /\ t = [heap |-> t.heap, opts |-> t.opts] /\ Later(s.heap, t.heap)
      /\ t.opts = [f \in Fields |-> t.opts[f]]
      /\ \A f \in Fields : f # "providers" => t.opts[f] = s.opts[f]
      /\ t.opts.providers \in Address(t.heap)
      /\ Extends(new, old, name, value)
  <2>1. t = Put(s, "providers", name, value)  BY DEF WithProvider
  <2>2. "providers" \in Fields  BY DEF Fields
  <2>3. s.opts = [f \in Fields |-> s.opts[f]]  BY DEF Rep
  <2> HIDE DEF name, value
  <2> QED BY <2>1, <2>2, <2>3, PutFacts
<1>2. Rep(t.heap, s.opts, options)  BY <1>1, RepLater
<1>3. /\ DOMAIN new = Names(more, "provider") /\ new[name] = value
      /\ LastOf(more, "provider", name) = option
      /\ \A n \in Names(more, "provider") : n # name =>
           /\ n \in Names(options, "provider") /\ new[n] = old[n]
           /\ LastOf(more, "provider", n) = LastOf(options, "provider", n)
  <2>0. Matches(option, "provider", name)  BY DEF Matches
  <2>1. Lists(old, options, "provider")
    BY DEF Rep, RepProviders, RepNames, Lists
  <2>2. Extends(new, old, name, value)  BY <1>1
  <2> HIDE DEF name, old, new, value
  <2>3. /\ Lists(new, more, "provider") /\ new[name] = value
        /\ LastOf(more, "provider", name) = option
    BY <2>0, <2>1, <2>2, PutName
  <2>4. ASSUME NEW n \in Names(more, "provider"), n # name
        PROVE  /\ n \in Names(options, "provider") /\ new[n] = old[n]
               /\ LastOf(more, "provider", n) = LastOf(options, "provider", n)
    BY <2>0, <2>1, <2>2, <2>4, PutOther
  <2> QED BY <2>3, <2>4 DEF Lists
<1>4. RepProviders(t.heap, t.opts.providers, more)
  <2>1. RepConfig(t.heap, value, option)
    <3>1. Holds(t.heap, option.map, option.meant)
      BY <1>1, HoldsLater DEF Good
    <3> QED BY <3>1 DEF RepConfig, Config
  <2>2. ASSUME NEW n \in Names(more, "provider")
        PROVE  RepConfig(t.heap, new[n], LastOf(more, "provider", n))
    <3> HIDE DEF value, new, old, more
    <3>1. CASE n = name  BY <1>3, <2>1, <3>1
    <3>2. CASE n # name
      <4>1. RepConfig(s.heap, old[n], LastOf(options, "provider", n))
        BY <1>3, <3>2 DEF Rep, RepProviders, old
      <4>2. RepConfig(t.heap, old[n], LastOf(options, "provider", n))
        BY <1>1, <4>1, HoldsLater DEF RepConfig
      <4> QED BY <1>3, <3>2, <4>2
    <3> QED BY <3>1, <3>2
  <2> QED BY <1>1, <1>3, <2>2 DEF RepProviders, RepNames
<1>5. /\ t.opts.effort = s.opts.effort /\ t.opts.seed = s.opts.seed
      /\ t.opts.legEfforts = s.opts.legEfforts
      /\ t.opts.providerExtra = s.opts.providerExtra
      /\ t.opts.default = s.opts.default /\ t.opts.extra = s.opts.extra
  BY <1>1 DEF Fields
<1>6. RepValues(t.opts, more)
  <2>1. RepValues(t.opts, options)  BY <1>2, <1>5 DEF Rep, RepValues
  <2>2. option.recipe.kind \notin {"effort", "seed"}  OBVIOUS
  <2> QED BY <2>1, <2>2, KeepValues
<1>7. RepEfforts(t.heap, t.opts.legEfforts, more)
  <2>1. RepEfforts(t.heap, t.opts.legEfforts, options)
    BY <1>2, <1>5 DEF Rep
  <2> QED BY <2>1, KeepEfforts
<1>8. RepProviderExtra(t.heap, t.opts.providerExtra, more)
  <2>1. RepProviderExtra(t.heap, t.opts.providerExtra, options)
    BY <1>2, <1>5 DEF Rep
  <2> QED BY <2>1, KeepProviderExtra
<1>9. RepConfig(t.heap, t.opts.default, LastOf(more, "default", None))
  <2>1. RepConfig(t.heap, t.opts.default, LastOf(options, "default", None))
    BY <1>2, <1>5 DEF Rep
  <2> QED BY <2>1, KeepDefault
<1>10. Holds(t.heap, t.opts.extra, LastOf(more, "extra", None).meant)
  <2>1. Holds(t.heap, t.opts.extra, LastOf(options, "extra", None).meant)
    BY <1>2, <1>5 DEF Rep
  <2> QED BY <2>1, KeepExtra
<1> QED BY <1>1, <1>4, <1>6, <1>7, <1>8, <1>9, <1>10 DEF Makes, Rep

LEMMA ApplyProviderExtra ==
  ASSUME NEW s, IsSeq(s.heap), Len(s.heap) > 0,
         NEW options, IsSeq(options), Rep(s.heap, s.opts, options),
         NEW option, Good(s.heap, option),
         option.recipe.kind = "providerExtra",
         NEW t, t = WithProviderExtraBody(s, option)
  PROVE  Makes(s.heap, t, options, option)
<1> DEFINE more == Append(options, option)
<1> DEFINE name == option.recipe.name
<1> DEFINE value == option.map
<1> DEFINE old == At(s.heap, s.opts.providerExtra)
<1> DEFINE new == At(t.heap, t.opts.providerExtra)
<1>1. /\ t = [heap |-> t.heap, opts |-> t.opts] /\ Later(s.heap, t.heap)
      /\ t.opts = [f \in Fields |-> t.opts[f]]
      /\ \A f \in Fields : f # "providerExtra" => t.opts[f] = s.opts[f]
      /\ t.opts.providerExtra \in Address(t.heap)
      /\ Extends(new, old, name, value)
  <2>1. t = Put(s, "providerExtra", name, value)  BY DEF WithProviderExtraBody
  <2>2. "providerExtra" \in Fields  BY DEF Fields
  <2>3. s.opts = [f \in Fields |-> s.opts[f]]  BY DEF Rep
  <2> HIDE DEF name, value
  <2> QED BY <2>1, <2>2, <2>3, PutFacts
<1>2. Rep(t.heap, s.opts, options)  BY <1>1, RepLater
<1>3. /\ DOMAIN new = Names(more, "providerExtra") /\ new[name] = value
      /\ LastOf(more, "providerExtra", name) = option
      /\ \A n \in Names(more, "providerExtra") : n # name =>
           /\ n \in Names(options, "providerExtra") /\ new[n] = old[n]
           /\ LastOf(more, "providerExtra", n) =
                LastOf(options, "providerExtra", n)
  <2>0. Matches(option, "providerExtra", name)  BY DEF Matches
  <2>1. Lists(old, options, "providerExtra")
    BY DEF Rep, RepProviderExtra, RepNames, Lists
  <2>2. Extends(new, old, name, value)  BY <1>1
  <2> HIDE DEF name, old, new, value
  <2>3. /\ Lists(new, more, "providerExtra") /\ new[name] = value
        /\ LastOf(more, "providerExtra", name) = option
    BY <2>0, <2>1, <2>2, PutName
  <2>4. ASSUME NEW n \in Names(more, "providerExtra"), n # name
        PROVE  /\ n \in Names(options, "providerExtra") /\ new[n] = old[n]
               /\ LastOf(more, "providerExtra", n) =
                    LastOf(options, "providerExtra", n)
    BY <2>0, <2>1, <2>2, <2>4, PutOther
  <2> QED BY <2>3, <2>4 DEF Lists
<1>4. RepProviderExtra(t.heap, t.opts.providerExtra, more)
  <2>1. Holds(t.heap, value, option.meant)  BY <1>1, HoldsLater DEF Good
  <2>2. ASSUME NEW n \in Names(more, "providerExtra")
        PROVE  Holds(t.heap, new[n], LastOf(more, "providerExtra", n).meant)
    <3> HIDE DEF value, new, old, more
    <3>1. CASE n = name  BY <1>3, <2>1, <3>1
    <3>2. CASE n # name
      <4>1. Holds(s.heap, old[n], LastOf(options, "providerExtra", n).meant)
        BY <1>3, <3>2 DEF Rep, RepProviderExtra, old
      <4>2. Holds(t.heap, old[n], LastOf(options, "providerExtra", n).meant)
        BY <1>1, <4>1, HoldsLater
      <4> QED BY <1>3, <3>2, <4>2
    <3> QED BY <3>1, <3>2
  <2> QED BY <1>1, <1>3, <2>2 DEF RepProviderExtra, RepNames
<1>5. /\ t.opts.effort = s.opts.effort /\ t.opts.seed = s.opts.seed
      /\ t.opts.legEfforts = s.opts.legEfforts
      /\ t.opts.providers = s.opts.providers
      /\ t.opts.default = s.opts.default /\ t.opts.extra = s.opts.extra
  BY <1>1 DEF Fields
<1>6. RepValues(t.opts, more)
  <2>1. RepValues(t.opts, options)  BY <1>2, <1>5 DEF Rep, RepValues
  <2>2. option.recipe.kind \notin {"effort", "seed"}  OBVIOUS
  <2> QED BY <2>1, <2>2, KeepValues
<1>7. RepEfforts(t.heap, t.opts.legEfforts, more)
  <2>1. RepEfforts(t.heap, t.opts.legEfforts, options)
    BY <1>2, <1>5 DEF Rep
  <2> QED BY <2>1, KeepEfforts
<1>8. RepProviders(t.heap, t.opts.providers, more)
  <2>1. RepProviders(t.heap, t.opts.providers, options)
    BY <1>2, <1>5 DEF Rep
  <2> QED BY <2>1, KeepProviders
<1>9. RepConfig(t.heap, t.opts.default, LastOf(more, "default", None))
  <2>1. RepConfig(t.heap, t.opts.default, LastOf(options, "default", None))
    BY <1>2, <1>5 DEF Rep
  <2> QED BY <2>1, KeepDefault
<1>10. Holds(t.heap, t.opts.extra, LastOf(more, "extra", None).meant)
  <2>1. Holds(t.heap, t.opts.extra, LastOf(options, "extra", None).meant)
    BY <1>2, <1>5 DEF Rep
  <2> QED BY <2>1, KeepExtra
<1> QED BY <1>1, <1>4, <1>6, <1>7, <1>8, <1>9, <1>10 DEF Makes, Rep

LEMMA ApplyDefault ==
  ASSUME NEW s, s = [heap |-> s.heap, opts |-> s.opts], IsSeq(s.heap),
         Len(s.heap) > 0, NEW options, IsSeq(options),
         Rep(s.heap, s.opts, options), NEW option, Good(s.heap, option),
         option.recipe.kind = "default",
         NEW t, t = WithDefaultProvider(s, option)
  PROVE  Makes(s.heap, t, options, option)
<1> DEFINE more == Append(options, option)
<1> DEFINE kind == option.recipe.kind
<1> DEFINE config == Config(option)
<1>1. /\ t = [heap |-> t.heap, opts |-> t.opts] /\ t.heap = s.heap
      /\ t.opts = [f \in Fields |-> t.opts[f]] /\ t.opts.default = config
      /\ \A f \in Fields : f # "default" => t.opts[f] = s.opts[f]
  <2>1. t = [s EXCEPT !.opts.default = config]  BY DEF WithDefaultProvider
  <2> HIDE DEF config
  <2>2. s.opts = [f \in Fields |-> s.opts[f]]  BY DEF Rep
  <2>3. /\ t = [heap |-> t.heap, opts |-> t.opts] /\ t.heap = s.heap
        /\ t.opts = [s.opts EXCEPT !.default = config]
    BY <2>1
  <2> QED BY <2>2, <2>3 DEF Fields
<1>2. Rep(t.heap, s.opts, options) /\ Later(s.heap, t.heap)
  BY <1>1, LaterSame
<1>3. /\ kind \in Kinds /\ (kind \notin Named => option.recipe.name = None)
  BY RecipeAssumption DEF Good
<1>4. LastOf(more, kind, None) = option
  BY <1>3, LastOfAppend DEF Matches, Named
<1>5. /\ t.opts.effort = s.opts.effort /\ t.opts.seed = s.opts.seed
      /\ t.opts.legEfforts = s.opts.legEfforts
      /\ t.opts.providers = s.opts.providers
      /\ t.opts.extra = s.opts.extra
      /\ t.opts.providerExtra = s.opts.providerExtra
  BY <1>1 DEF Fields
<1>6. RepValues(t.opts, more)
  <2>1. RepValues(t.opts, options)  BY <1>2, <1>5 DEF Rep, RepValues
  <2>2. option.recipe.kind \notin {"effort", "seed"}  OBVIOUS
  <2> QED BY <2>1, <2>2, KeepValues
<1>7. RepEfforts(t.heap, t.opts.legEfforts, more)
  <2>1. RepEfforts(t.heap, t.opts.legEfforts, options)
    BY <1>2, <1>5 DEF Rep
  <2> QED BY <2>1, KeepEfforts
<1>8. RepProviders(t.heap, t.opts.providers, more)
  <2>1. RepProviders(t.heap, t.opts.providers, options)
    BY <1>2, <1>5 DEF Rep
  <2> QED BY <2>1, KeepProviders
<1>9. RepProviderExtra(t.heap, t.opts.providerExtra, more)
  <2>1. RepProviderExtra(t.heap, t.opts.providerExtra, options)
    BY <1>2, <1>5 DEF Rep
  <2> QED BY <2>1, KeepProviderExtra
<1>10. Holds(t.heap, t.opts.extra, LastOf(more, "extra", None).meant)
  <2>1. Holds(t.heap, t.opts.extra, LastOf(options, "extra", None).meant)
    BY <1>2, <1>5 DEF Rep
  <2> QED BY <2>1, KeepExtra
<1>11. RepConfig(t.heap, t.opts.default, LastOf(more, "default", None))
  BY <1>1, <1>4 DEF Good, RepConfig, Config
<1> QED
  BY <1>1, <1>2, <1>6, <1>7, <1>8, <1>9, <1>10, <1>11 DEF Makes, Rep

LEMMA ApplyExtra ==
  ASSUME NEW s, s = [heap |-> s.heap, opts |-> s.opts], IsSeq(s.heap),
         Len(s.heap) > 0, NEW options, IsSeq(options),
         Rep(s.heap, s.opts, options), NEW option, Good(s.heap, option),
         option.recipe.kind = "extra",
         NEW t, t = WithExtraBody(s, option)
  PROVE  Makes(s.heap, t, options, option)
<1> DEFINE more == Append(options, option)
<1> DEFINE kind == option.recipe.kind
<1>1. /\ t = [heap |-> t.heap, opts |-> t.opts] /\ t.heap = s.heap
      /\ t.opts = [f \in Fields |-> t.opts[f]] /\ t.opts.extra = option.map
      /\ \A f \in Fields : f # "extra" => t.opts[f] = s.opts[f]
  <2>1. t = [s EXCEPT !.opts.extra = option.map]  BY DEF WithExtraBody
  <2>2. s.opts = [f \in Fields |-> s.opts[f]]  BY DEF Rep
  <2>3. /\ t = [heap |-> t.heap, opts |-> t.opts] /\ t.heap = s.heap
        /\ t.opts = [s.opts EXCEPT !.extra = option.map]
    BY <2>1
  <2> QED BY <2>2, <2>3 DEF Fields
<1>2. Rep(t.heap, s.opts, options) /\ Later(s.heap, t.heap)
  BY <1>1, LaterSame
<1>3. /\ kind \in Kinds /\ (kind \notin Named => option.recipe.name = None)
  BY RecipeAssumption DEF Good
<1>4. LastOf(more, kind, None) = option
  BY <1>3, LastOfAppend DEF Matches, Named
<1>5. /\ t.opts.effort = s.opts.effort /\ t.opts.seed = s.opts.seed
      /\ t.opts.legEfforts = s.opts.legEfforts
      /\ t.opts.providers = s.opts.providers
      /\ t.opts.default = s.opts.default
      /\ t.opts.providerExtra = s.opts.providerExtra
  BY <1>1 DEF Fields
<1>6. RepValues(t.opts, more)
  <2>1. RepValues(t.opts, options)  BY <1>2, <1>5 DEF Rep, RepValues
  <2>2. option.recipe.kind \notin {"effort", "seed"}  OBVIOUS
  <2> QED BY <2>1, <2>2, KeepValues
<1>7. RepEfforts(t.heap, t.opts.legEfforts, more)
  <2>1. RepEfforts(t.heap, t.opts.legEfforts, options)
    BY <1>2, <1>5 DEF Rep
  <2> QED BY <2>1, KeepEfforts
<1>8. RepProviders(t.heap, t.opts.providers, more)
  <2>1. RepProviders(t.heap, t.opts.providers, options)
    BY <1>2, <1>5 DEF Rep
  <2> QED BY <2>1, KeepProviders
<1>9. RepProviderExtra(t.heap, t.opts.providerExtra, more)
  <2>1. RepProviderExtra(t.heap, t.opts.providerExtra, options)
    BY <1>2, <1>5 DEF Rep
  <2> QED BY <2>1, KeepProviderExtra
<1>10. RepConfig(t.heap, t.opts.default, LastOf(more, "default", None))
  <2>1. RepConfig(t.heap, t.opts.default, LastOf(options, "default", None))
    BY <1>2, <1>5 DEF Rep
  <2> QED BY <2>1, KeepDefault
<1>11. Holds(t.heap, t.opts.extra, LastOf(more, "extra", None).meant)
  BY <1>1, <1>4 DEF Good
<1> QED
  BY <1>1, <1>2, <1>6, <1>7, <1>8, <1>9, <1>10, <1>11 DEF Makes, Rep

LEMMA ApplyValue ==
  ASSUME NEW s, s = [heap |-> s.heap, opts |-> s.opts], IsSeq(s.heap),
         Len(s.heap) > 0, NEW options, IsSeq(options),
         Rep(s.heap, s.opts, options), NEW option, Good(s.heap, option),
         option.recipe.kind \in {"model", "pool", "effort", "seed"},
         NEW t, t = Assign(s, option)
  PROVE  Makes(s.heap, t, options, option)
<1> DEFINE more == Append(options, option)
<1> DEFINE kind == option.recipe.kind
<1> DEFINE value == option.recipe.value
<1>1. /\ t = [heap |-> t.heap, opts |-> t.opts] /\ t.heap = s.heap
      /\ t.opts = [f \in Fields |-> t.opts[f]] /\ t.opts[kind] = value
      /\ \A f \in Fields : f # kind => t.opts[f] = s.opts[f]
  <2>1. t = [s EXCEPT !.opts[kind] = value]  BY DEF Assign
  <2>2. kind \in Fields  BY DEF Fields
  <2> HIDE DEF kind, value
  <2>3. s.opts = [f \in Fields |-> s.opts[f]]  BY DEF Rep
  <2>4. /\ t = [heap |-> t.heap, opts |-> t.opts] /\ t.heap = s.heap
        /\ t.opts = [s.opts EXCEPT ![kind] = value]
    BY <2>1
  <2> QED BY <2>2, <2>3, <2>4
<1>2. Rep(t.heap, s.opts, options) /\ Later(s.heap, t.heap)
  BY <1>1, LaterSame
<1>3. /\ kind \in Kinds /\ (kind \notin Named => option.recipe.name = None)
  BY RecipeAssumption DEF Good
<1>4. LastOf(more, kind, None) = option
  BY <1>3, LastOfAppend DEF Matches, Named
<1>5. /\ kind # "effort" => t.opts.effort = s.opts.effort
      /\ kind # "seed" => t.opts.seed = s.opts.seed
      /\ t.opts.legEfforts = s.opts.legEfforts
      /\ t.opts.providers = s.opts.providers
      /\ t.opts.default = s.opts.default /\ t.opts.extra = s.opts.extra
      /\ t.opts.providerExtra = s.opts.providerExtra
  BY <1>1 DEF Fields
<1>6. RepValues(t.opts, more)
  <2>1. t.opts.effort = LastOf(more, "effort", None).recipe.value
    <3>1. CASE kind = "effort"  BY <1>1, <1>4, <3>1
    <3>2. CASE kind # "effort"
      <4>1. option.recipe.kind # "effort"  BY <3>2
      <4>2. LastOf(more, "effort", None) = LastOf(options, "effort", None)
        BY <4>1, OtherLast
      <4> QED BY <1>5, <3>2, <4>2 DEF Rep, RepValues
    <3> QED BY <3>1, <3>2
  <2>2. t.opts.seed = LastOf(more, "seed", None).recipe.value
    <3>1. CASE kind = "seed"  BY <1>1, <1>4, <3>1
    <3>2. CASE kind # "seed"
      <4>1. option.recipe.kind # "seed"  BY <3>2
      <4>2. LastOf(more, "seed", None) = LastOf(options, "seed", None)
        BY <4>1, OtherLast
      <4> QED BY <1>5, <3>2, <4>2 DEF Rep, RepValues
    <3> QED BY <3>1, <3>2
  <2> QED BY <2>1, <2>2 DEF RepValues
<1>7. RepEfforts(t.heap, t.opts.legEfforts, more)
  <2>1. RepEfforts(t.heap, t.opts.legEfforts, options)
    BY <1>2, <1>5 DEF Rep
  <2> QED BY <2>1, KeepEfforts
<1>8. RepProviders(t.heap, t.opts.providers, more)
  <2>1. RepProviders(t.heap, t.opts.providers, options)
    BY <1>2, <1>5 DEF Rep
  <2> QED BY <2>1, KeepProviders
<1>9. RepProviderExtra(t.heap, t.opts.providerExtra, more)
  <2>1. RepProviderExtra(t.heap, t.opts.providerExtra, options)
    BY <1>2, <1>5 DEF Rep
  <2> QED BY <2>1, KeepProviderExtra
<1>10. RepConfig(t.heap, t.opts.default, LastOf(more, "default", None))
  <2>1. RepConfig(t.heap, t.opts.default, LastOf(options, "default", None))
    BY <1>2, <1>5 DEF Rep
  <2> QED BY <2>1, KeepDefault
<1>11. Holds(t.heap, t.opts.extra, LastOf(more, "extra", None).meant)
  <2>1. Holds(t.heap, t.opts.extra, LastOf(options, "extra", None).meant)
    BY <1>2, <1>5 DEF Rep
  <2> QED BY <2>1, KeepExtra
<1> QED
  BY <1>1, <1>2, <1>6, <1>7, <1>8, <1>9, <1>10, <1>11 DEF Makes, Rep

LEMMA ApplyRep ==
  ASSUME NEW s, s = [heap |-> s.heap, opts |-> s.opts], IsSeq(s.heap),
         Len(s.heap) > 0, NEW options, IsSeq(options),
         Rep(s.heap, s.opts, options), NEW option, Good(s.heap, option),
         NEW t, t = apply(s, option)
  PROVE  Makes(s.heap, t, options, option)
<1> DEFINE kind == option.recipe.kind
<1>0. kind \in Kinds  BY RecipeAssumption DEF Good
<1>1. CASE kind = "legEffort"
  <2>1. t = WithLegReasoningEffort(s, option)  BY <1>1 DEF apply
  <2> QED BY <1>1, <2>1, ApplyEffort
<1>2. CASE kind = "provider"
  <2>1. t = WithProvider(s, option)  BY <1>2 DEF apply
  <2> QED BY <1>2, <2>1, ApplyProvider
<1>3. CASE kind = "providerExtra"
  <2>1. t = WithProviderExtraBody(s, option)  BY <1>3 DEF apply
  <2> QED BY <1>3, <2>1, ApplyProviderExtra
<1>4. CASE kind = "default"
  <2>1. t = WithDefaultProvider(s, option)  BY <1>4 DEF apply
  <2> QED BY <1>4, <2>1, ApplyDefault
<1>5. CASE kind = "extra"
  <2>1. t = WithExtraBody(s, option)  BY <1>5 DEF apply
  <2> QED BY <1>5, <2>1, ApplyExtra
<1>6. CASE kind \in {"model", "pool", "effort", "seed"}
  <2>1. t = Assign(s, option)  BY <1>6 DEF apply
  <2> QED BY <1>6, <2>1, ApplyValue
<1> QED
  BY <1>0, <1>1, <1>2, <1>3, <1>4, <1>5, <1>6 DEF Kinds, Named

-----------------------------------------------------------------------------
(* Applying a list of options.                                             *)

Upto(before, options, n) == before \o SubSeq(options, 1, n)

LEMMA UptoFacts ==
  ASSUME NEW before, IsSeq(before), NEW options, IsSeq(options)
  PROVE  /\ Upto(before, options, 0) = before
         /\ Upto(before, options, Len(options)) = before \o options
         /\ \A n \in 0..Len(options) : IsSeq(Upto(before, options, n))
         /\ \A n \in 0..(Len(options) - 1) :
              Upto(before, options, n + 1) =
                Append(Upto(before, options, n), options[n + 1])
<1>0. Len(options) \in Nat /\ Len(before) \in Nat  BY SeqLen
<1>1. ASSUME NEW n \in 0..Len(options)
      PROVE  /\ IsSeq(Upto(before, options, n))
             /\ Len(Upto(before, options, n)) = Len(before) + n
             /\ \A i \in 1..Len(before) :
                  Upto(before, options, n)[i] = before[i]
             /\ \A i \in 1..n :
                  Upto(before, options, n)[Len(before) + i] = options[i]
  <2> DEFINE first == SubSeq(options, 1, n)
  <2>1. /\ IsSeq(first) /\ Len(first) = n
        /\ \A i \in 1..n : first[i] = options[i]
    BY SeqPrefix
  <2> HIDE DEF first
  <2>2. /\ IsSeq(before \o first)
        /\ Len(before \o first) = Len(before) + Len(first)
        /\ \A i \in 1..Len(before) : (before \o first)[i] = before[i]
        /\ \A i \in 1..Len(first) :
             (before \o first)[Len(before) + i] = first[i]
    <3>1. IsSeq(first)  BY <2>1
    <3> QED BY <3>1, SeqConcat
  <2> QED BY <2>1, <2>2 DEF Upto, first
<1>2. Upto(before, options, 0) = before
  <2> DEFINE s == Upto(before, options, 0)
  <2>1. /\ IsSeq(s) /\ Len(s) = Len(before)
        /\ \A i \in 1..Len(s) : s[i] = before[i]
    BY <1>0, <1>1
  <2> HIDE DEF s
  <2>2. s = before  BY <2>1, SeqEqual
  <2> QED BY <2>2 DEF s
<1>3. Upto(before, options, Len(options)) = before \o options
  <2> DEFINE s == SubSeq(options, 1, Len(options))
  <2>1. /\ IsSeq(s) /\ Len(s) = Len(options)
        /\ \A i \in 1..Len(s) : s[i] = options[i]
    BY <1>0, SeqPrefix
  <2> HIDE DEF s
  <2>2. s = options  BY <2>1, SeqEqual
  <2> QED BY <2>2 DEF s, Upto
<1>4. ASSUME NEW n \in 0..(Len(options) - 1)
      PROVE  Upto(before, options, n + 1) =
               Append(Upto(before, options, n), options[n + 1])
  <2> DEFINE m == Len(before)
  <2> DEFINE e == options[n + 1]
  <2> DEFINE s == Upto(before, options, n)
  <2> DEFINE t == Upto(before, options, n + 1)
  <2>1. n \in 0..Len(options) /\ n + 1 \in 0..Len(options) /\ n \in Nat
    BY <1>0
  <2>2. /\ IsSeq(s) /\ Len(s) = m + n
        /\ \A i \in 1..m : s[i] = before[i]
        /\ \A i \in 1..n : s[m + i] = options[i]
    BY <1>1, <2>1
  <2>3. /\ IsSeq(t) /\ Len(t) = m + (n + 1)
        /\ \A i \in 1..m : t[i] = before[i]
        /\ \A i \in 1..(n + 1) : t[m + i] = options[i]
    BY <1>1, <2>1
  <2>4. t[m + (n + 1)] = e  BY <2>1, <2>3
  <2> HIDE DEF s, t, e
  <2>5. /\ IsSeq(Append(s, e)) /\ Len(Append(s, e)) = Len(s) + 1
        /\ Append(s, e)[Len(s) + 1] = e
        /\ \A i \in 1..Len(s) : Append(s, e)[i] = s[i]
    BY <2>2, SeqAppend
  <2>6. ASSUME NEW i \in 1..Len(t)  PROVE t[i] = Append(s, e)[i]
    <3>0. i \in 1..(m + n + 1) /\ i \in Nat  BY <1>0, <2>1, <2>3
    <3>1. CASE i \in 1..m
      <4>1. i \in 1..Len(s)  BY <1>0, <2>1, <2>2, <3>1
      <4> QED BY <2>2, <2>3, <2>5, <3>1, <4>1
    <3>2. CASE i - m \in 1..n
      <4>1. i \in 1..Len(s) /\ i - m \in 1..(n + 1) /\ m + (i - m) = i
        BY <1>0, <2>1, <2>2, <3>0, <3>2
      <4>2. s[m + (i - m)] = options[i - m]  BY <2>2, <3>2
      <4>3. t[m + (i - m)] = options[i - m]  BY <2>3, <4>1
      <4> QED BY <2>5, <4>1, <4>2, <4>3
    <3>3. CASE i = m + (n + 1)
      <4>1. i = Len(s) + 1  BY <1>0, <2>1, <2>2, <3>3
      <4> QED BY <2>4, <2>5, <3>3, <4>1
    <3>4. m \in Nat  BY <1>0
    <3> HIDE DEF m
    <3>5. i \in 1..m \/ i - m \in 1..n \/ i = m + (n + 1)
      BY <2>1, <3>0, <3>4
    <3> QED BY <3>1, <3>2, <3>3, <3>5
  <2>7. Len(t) = Len(Append(s, e))  BY <1>0, <2>1, <2>2, <2>3, <2>5
  <2>8. t = Append(s, e)  BY <2>3, <2>5, <2>6, <2>7, SeqEqual
  <2> QED BY <2>8 DEF s, t, e
<1> QED BY <1>1, <1>2, <1>3, <1>4

(* One option after the other, as a function of how many were applied.     *)
Runs(f, n, start, options) ==
  f = [i \in 0..n |-> IF i = 0 THEN start ELSE apply(f[i - 1], options[i])]

LEMMA RunsExists ==
  ASSUME NEW start, NEW options, NEW n \in Nat
  PROVE  \E f : Runs(f, n, start, options)
<1> DEFINE defined == {k \in Nat : \E f : Runs(f, k, start, options)}
<1>1. 0 \in defined
  <2> DEFINE f == [i \in 0..0 |-> start]
  <2>1. f = [i \in 0..0 |->
               IF i = 0 THEN start ELSE apply(f[i - 1], options[i])]
    OBVIOUS
  <2>2. Runs(f, 0, start, options)  BY <2>1 DEF Runs
  <2> QED BY <2>2
<1>2. ASSUME NEW k \in defined  PROVE k + 1 \in defined
  <2>0. k \in Nat /\ k + 1 \in Nat  OBVIOUS
  <2>1. PICK f : Runs(f, k, start, options)  OBVIOUS
  <2> DEFINE last == apply(f[k], options[k + 1])
  <2> DEFINE g == [i \in 0..(k + 1) |-> IF i = k + 1 THEN last ELSE f[i]]
  <2>2. ASSUME NEW i \in 0..(k + 1)
        PROVE  g[i] = IF i = 0 THEN start ELSE apply(g[i - 1], options[i])
    <3>1. CASE i = k + 1
      <4>1. g[i] = last /\ g[i - 1] = f[k] /\ i # 0  BY <2>0, <3>1
      <4> HIDE DEF g
      <4> QED BY <3>1, <4>1
    <3>2. CASE i # k + 1
      <4>1. i \in 0..k /\ g[i] = f[i]  BY <2>0, <3>2
      <4>2. i # 0 => g[i - 1] = f[i - 1]  BY <2>0, <4>1
      <4>3. f[i] = IF i = 0 THEN start ELSE apply(f[i - 1], options[i])
        BY <2>1, <4>1 DEF Runs
      <4> HIDE DEF g
      <4> QED BY <4>1, <4>2, <4>3
    <3> QED BY <3>1, <3>2
  <2>3. g = [i \in 0..(k + 1) |-> g[i]]  OBVIOUS
  <2> HIDE DEF g
  <2>4. Runs(g, k + 1, start, options)  BY <2>2, <2>3 DEF Runs
  <2> QED BY <2>0, <2>4
<1>3. defined \in SUBSET Nat  OBVIOUS
<1> HIDE DEF defined
<1>4. defined = Nat  BY <1>1, <1>2, <1>3, Induction
<1> QED BY <1>4 DEF defined

LEMMA applyOptionsRuns ==
  ASSUME NEW opts, NEW options, IsSeq(options)
  PROVE  \E f :
           /\ Runs(f, Len(options), [heap |-> heap, opts |-> opts], options)
           /\ applyOptions(opts, options) = f[Len(options)]
<1> DEFINE start == [heap |-> heap, opts |-> opts]
<1> DEFINE n == Len(options)
<1> DEFINE f == CHOOSE f : Runs(f, n, start, options)
<1>1. n \in Nat  BY SeqLen
<1>2. applyOptions(opts, options) = f[n]  BY DEF applyOptions, Runs
<1>3. Runs(f, n, start, options)
  <2> HIDE DEF start, n
  <2> QED BY <1>1, RunsExists
<1> QED BY <1>2, <1>3

(* What applyOptions makes stands for the options there were and those     *)
(* applied, in a later heap.                                               *)
LEMMA applyOptionsRep ==
  ASSUME IsSeq(heap), Len(heap) > 0, NEW opts, NEW before, IsSeq(before),
         Rep(heap, opts, before), NEW options, AllGood(heap, options),
         NEW made, made = applyOptions(opts, options)
  PROVE  /\ Later(heap, made.heap)
         /\ Rep(made.heap, made.opts, before \o options)
<1> DEFINE n == Len(options)
<1> DEFINE start == [heap |-> heap, opts |-> opts]
<1>0. IsSeq(options) /\ n \in Nat  BY SeqLen DEF AllGood
<1>1. PICK f : Runs(f, n, start, options) /\ applyOptions(opts, options) = f[n]
  BY <1>0, applyOptionsRuns
<1> DEFINE Fits(k) ==
      /\ f[k] = [heap |-> f[k].heap, opts |-> f[k].opts]
      /\ Later(heap, f[k].heap)
      /\ Rep(f[k].heap, f[k].opts, Upto(before, options, k))
<1> DEFINE fits == {k \in Nat : k <= n => Fits(k)}
<1>2. 0 \in fits
  <2>1. f[0] = start  BY <1>0, <1>1 DEF Runs
  <2>2. Later(heap, heap)  BY LaterSame
  <2>3. Upto(before, options, 0) = before  BY <1>0, UptoFacts
  <2> QED BY <2>1, <2>2, <2>3
<1>3. ASSUME NEW k \in fits  PROVE k + 1 \in fits
  <2>0. k \in Nat  OBVIOUS
  <2> SUFFICES ASSUME k + 1 <= n  PROVE Fits(k + 1)
    <3> HIDE DEF Fits
    <3> QED BY <2>0
  <2> DEFINE s == f[k]
  <2> DEFINE t == f[k + 1]
  <2> DEFINE option == options[k + 1]
  <2> DEFINE list == Upto(before, options, k)
  <2>1. /\ s = [heap |-> s.heap, opts |-> s.opts] /\ Later(heap, s.heap)
        /\ Rep(s.heap, s.opts, list)
    BY <1>0, <2>0
  <2>2. t = apply(s, option)
    <3>1. k + 1 \in 0..n /\ k + 1 # 0 /\ (k + 1) - 1 = k  BY <1>0, <2>0
    <3> HIDE DEF n, start
    <3>2. f[k + 1] = apply(f[(k + 1) - 1], options[k + 1])
      BY <1>1, <3>1 DEF Runs
    <3> QED BY <3>1, <3>2
  <2>3. IsSeq(list) /\ Upto(before, options, k + 1) = Append(list, option)
    <3>1. k \in 0..n /\ k \in 0..(n - 1)  BY <1>0, <2>0
    <3> QED BY <1>0, <3>1, UptoFacts
  <2>4. Good(s.heap, option)
    <3>1. AllGood(s.heap, options)  BY <2>1, GoodLater
    <3>2. k + 1 \in 1..n  BY <1>0, <2>0
    <3> QED BY <3>1, <3>2 DEF AllGood
  <2>5. IsSeq(s.heap) /\ Len(s.heap) > 0
    BY <2>1, SeqLen DEF Later
  <2> HIDE DEF s, t, option, list
  <2>6. Makes(s.heap, t, list, option)
    BY <2>1, <2>2, <2>3, <2>4, <2>5, ApplyRep
  <2>7. /\ t = [heap |-> t.heap, opts |-> t.opts] /\ Later(s.heap, t.heap)
        /\ Rep(t.heap, t.opts, Append(list, option))
    BY <2>6 DEF Makes
  <2>8. Later(heap, t.heap)  BY <2>1, <2>7, LaterTwice
  <2> QED BY <2>3, <2>7, <2>8 DEF t
<1>4. n \in fits
  <2>1. fits \in SUBSET Nat  OBVIOUS
  <2> HIDE DEF fits
  <2>2. fits = Nat  BY <1>2, <1>3, <2>1, Induction
  <2> QED BY <1>0, <2>2
<1>5. Fits(n)  BY <1>0, <1>4
<1>6. Upto(before, options, n) = before \o options  BY <1>0, UptoFacts
<1> QED BY <1>1, <1>5, <1>6

-----------------------------------------------------------------------------
(* The invariant.                                                          *)

LEMMA PassedGrows ==
  ASSUME NEW options, IsSeq(options), NEW option, NEW n \in 0..Len(options)
  PROVE  /\ SubSeq(Append(options, option), 1, n) = SubSeq(options, 1, n)
         /\ \A passed \in Seq(1..Len(options)) :
              /\ passed \in Seq(1..Len(Append(options, option)))
              /\ PassedOf(Append(options, option), n, passed) =
                   PassedOf(options, n, passed)
<1> DEFINE more == Append(options, option)
<1>1. /\ IsSeq(more) /\ Len(more) = Len(options) + 1 /\ Len(options) \in Nat
      /\ \A i \in 1..Len(options) : more[i] = options[i]
  BY SeqAppend, SeqLen
<1> HIDE DEF more
<1>2. SubSeq(more, 1, n) = SubSeq(options, 1, n)
  <2> DEFINE s == SubSeq(more, 1, n)
  <2> DEFINE t == SubSeq(options, 1, n)
  <2>0. n \in 0..Len(more)  BY <1>1
  <2>1. IsSeq(s) /\ Len(s) = n /\ \A i \in 1..n : s[i] = more[i]
    BY <1>1, <2>0, SeqPrefix
  <2>2. IsSeq(t) /\ Len(t) = n /\ \A i \in 1..n : t[i] = options[i]
    BY <1>1, SeqPrefix
  <2>3. \A i \in 1..n : i \in 1..Len(options)  BY <1>1
  <2> HIDE DEF s, t
  <2>4. Len(s) = Len(t) /\ \A i \in 1..Len(s) : s[i] = t[i]
    BY <1>1, <2>1, <2>2, <2>3
  <2>5. s = t  BY <2>1, <2>2, <2>4, SeqEqual
  <2> QED BY <2>5 DEF s, t
<1>3. ASSUME NEW passed \in Seq(1..Len(options))
      PROVE  /\ passed \in Seq(1..Len(more))
             /\ PassedOf(more, n, passed) = PassedOf(options, n, passed)
  <2>1. \A i \in 1..Len(passed) : passed[i] \in 1..Len(options)  OBVIOUS
  <2>2. \A i \in 1..Len(passed) : more[passed[i]] = options[passed[i]]
    BY <1>1, <2>1
  <2>3. [i \in 1..Len(passed) |-> more[passed[i]]] =
          [i \in 1..Len(passed) |-> options[passed[i]]]
    BY <2>2
  <2>4. passed \in Seq(1..Len(more))
    <3> DEFINE T == 1..Len(more)
    <3>1. \A i \in 1..Len(passed) : passed[i] \in T  BY <1>1, <2>1
    <3>2. /\ Len(passed) \in Nat
          /\ passed = [i \in 1..Len(passed) |-> passed[i]]
      OBVIOUS
    <3> HIDE DEF T
    <3>3. passed \in [1..Len(passed) -> T]  BY <3>1, <3>2
    <3>4. passed \in Seq(T)  BY <3>2, <3>3
    <3> QED BY <3>4 DEF T
  <2> QED BY <1>2, <2>3, <2>4 DEF PassedOf
<1> QED BY <1>2, <1>3 DEF more

LEMMA RightLater ==
  ASSUME NEW h, NEW g, Later(h, g), NEW options, NEW n, NEW call,
         Right(h, options, n, call)
  PROVE  Right(g, options, n, call)
BY RepLater DEF Right

LEMMA defaultOptionsRep ==
  ASSUME NEW h
  PROVE  Rep(h, defaultOptions, <<>>)
<1> DEFINE o == defaultOptions
<1>1. /\ o = [f \in Fields |-> o[f]] /\ o.effort = None /\ o.seed = None
      /\ o.legEfforts = Nil /\ o.providers = Nil /\ o.providerExtra = Nil
      /\ o.extra = Nil /\ o.default.headers = Nil
      /\ o.default.base = <<>> /\ o.default.key = <<>>
  BY DEF defaultOptions, Fields
<1>2. Nil \in Address(h) /\ At(h, Nil) = <<>> /\ DOMAIN <<>> = {}
  BY DEF Address, At
<1>3. \A kind, name :
        LastOf(<<>>, kind, name) = Absent /\ Names(<<>>, kind) = {}
  BY LastOfEmpty
<1>4. /\ Absent.recipe.value = None /\ Absent.recipe.base = <<>>
      /\ Absent.recipe.key = <<>> /\ Absent.meant = <<>>
  BY DEF Absent
<1> HIDE DEF o
<1>5. RepValues(o, <<>>)  BY <1>1, <1>3, <1>4 DEF RepValues
<1>6. RepEfforts(h, o.legEfforts, <<>>)
  BY <1>1, <1>2, <1>3 DEF RepEfforts, RepNames
<1>7. RepProviders(h, o.providers, <<>>)
  BY <1>1, <1>2, <1>3 DEF RepProviders, RepNames
<1>8. RepProviderExtra(h, o.providerExtra, <<>>)
  BY <1>1, <1>2, <1>3 DEF RepProviderExtra, RepNames
<1>9. RepConfig(h, o.default, LastOf(<<>>, "default", None))
  BY <1>1, <1>2, <1>3, <1>4 DEF RepConfig, Holds
<1>10. Holds(h, o.extra, LastOf(<<>>, "extra", None).meant)
  BY <1>1, <1>2, <1>3, <1>4 DEF Holds
<1>11. Rep(h, o, <<>>)
  BY <1>1, <1>5, <1>6, <1>7, <1>8, <1>9, <1>10 DEF Rep
<1> QED BY <1>11 DEF o

LEMMA InitInv == Init => Inv
<1> SUFFICES ASSUME Init  PROVE Inv
  OBVIOUS
<1>1. PICK c \in Contents : heap = <<c>>  BY DEF Init
<1>2. heap \in Seq({c}) /\ Len(heap) = 1  BY <1>1
<1>3. IsSeq(heap)  BY <1>2 DEF IsSeq
<1>4. IsSeq(<<>>) /\ Len(<<>>) = 0  BY EmptySeq
<1> QED BY <1>2, <1>3, <1>4 DEF Init, Inv, AllGood

LEMMA BuildInv ==
  ASSUME Inv, NEW recipe \in Recipe, Build(recipe)
  PROVE  Later(heap, heap') /\ Inv'
<1> DEFINE option ==
      [recipe |-> recipe,
       map |-> IF recipe.map THEN Len(heap) + 1 ELSE Nil,
       meant |-> IF recipe.map THEN heap[Mine] ELSE <<>>]
<1>0. IsSeq(heap) /\ Len(heap) > 0 /\ AllGood(heap, built) /\ IsSeq(built)
  BY DEF Inv, AllGood
<1>1. /\ heap' = IF recipe.map THEN Append(heap, heap[Mine]) ELSE heap
      /\ built' = Append(built, option)
      /\ base' = base /\ client' = client /\ calls' = calls
  BY DEF Build, clone
<1>2. Later(heap, heap') /\ Holds(heap', option.map, option.meant)
  <2>1. CASE recipe.map
    <3>1. /\ Later(heap, heap') /\ heap'[Len(heap) + 1] = heap[Mine]
          /\ Len(heap) + 1 \in Address(heap') \ {Nil}
      BY <1>0, <1>1, <2>1, LaterAppend
    <3> QED BY <2>1, <3>1 DEF Holds, At
  <2>2. CASE ~recipe.map
    BY <1>0, <1>1, <2>2, LaterSame DEF Holds, At, Address
  <2> QED BY <2>1, <2>2
<1>3. Good(heap', option)
  <2>1. DOMAIN option = {"recipe", "map", "meant"} /\ option.recipe = recipe
    OBVIOUS
  <2>2. recipe.kind \in ExtraBody =>
          reservedExtraBodyKeys \cap DOMAIN option.meant = {}
    <3>1. DOMAIN <<>> = {}  OBVIOUS
    <3> QED BY <3>1 DEF Build, Panics
  <2> HIDE DEF option
  <2> QED BY <1>2, <2>1, <2>2 DEF Good
<1> HIDE DEF option
<1>4. /\ IsSeq(built') /\ Len(built') = Len(built) + 1 /\ Len(built) \in Nat
      /\ built'[Len(built) + 1] = option
      /\ \A i \in 1..Len(built) : built'[i] = built[i]
  BY <1>0, <1>1, SeqAppend, SeqLen
<1>5. AllGood(heap', built')
  <2>1. AllGood(heap', built)  BY <1>0, <1>2, GoodLater
  <2>2. ASSUME NEW i \in 1..Len(built')  PROVE Good(heap', built'[i])
    <3>1. i = Len(built) + 1 \/ i \in 1..Len(built)  BY <1>4
    <3> QED BY <1>3, <1>4, <2>1, <3>1 DEF AllGood
  <2> QED BY <1>4, <2>2 DEF AllGood
<1>6. base \in 0..Len(built) /\ base' \in 0..Len(built')
  BY <1>1, <1>4 DEF Inv
<1>7. client' # None => Rep(heap', client', SubSeq(built', 1, base'))
  <2> SUFFICES ASSUME client # None
               PROVE  Rep(heap', client, SubSeq(built', 1, base))
    BY <1>1
  <2>1. Rep(heap', client, SubSeq(built, 1, base))  BY <1>2, RepLater DEF Inv
  <2>2. SubSeq(built', 1, base) = SubSeq(built, 1, base)
    BY <1>0, <1>1, <1>6, PassedGrows
  <2> QED BY <2>1, <2>2
<1>8. ASSUME NEW i \in 1..Len(calls')
      PROVE  Right(heap', built', base', calls'[i])
  <2> DEFINE call == calls[i]
  <2>1. Right(heap, built, base, call)  BY <1>1, <1>8 DEF Inv
  <2> HIDE DEF call
  <2>2. Right(heap', built, base, call)  BY <1>2, <2>1, RightLater
  <2>3. /\ call.passed \in Seq(1..Len(built'))
        /\ PassedOf(built', base, call.passed) =
             PassedOf(built, base, call.passed)
    BY <1>0, <1>1, <1>6, <2>1, PassedGrows DEF Right
  <2>4. Right(heap', built', base, call)  BY <2>2, <2>3 DEF Right
  <2> QED BY <1>1, <2>4 DEF call
<1>9. IsSeq(heap') /\ Len(heap') > 0  BY <1>2, SeqLen DEF Later
<1>10. IsSeq(calls') /\ (client' = None => calls' = <<>>)  BY <1>1 DEF Inv
<1>11. Inv'  BY <1>5, <1>6, <1>7, <1>8, <1>9, <1>10 DEF Inv
<1> QED BY <1>2, <1>11

LEMMA NewInv ==
  ASSUME Inv, New
  PROVE  Later(heap, heap') /\ Inv'
<1> DEFINE made == applyOptions(defaultOptions, built)
<1>0. /\ IsSeq(heap) /\ Len(heap) > 0 /\ AllGood(heap, built)
      /\ IsSeq(built) /\ Len(built) \in Nat
  BY SeqLen DEF Inv, AllGood
<1>1. /\ heap' = made.heap /\ client' = made.opts /\ base' = Len(built)
      /\ built' = built /\ calls' = calls /\ client = None
  BY DEF New
<1>2. Rep(heap, defaultOptions, <<>>) /\ IsSeq(<<>>)
  BY defaultOptionsRep, EmptySeq
<1> HIDE DEF made
<1>3. Later(heap, made.heap) /\ Rep(made.heap, made.opts, <<>> \o built)
  BY <1>0, <1>2, applyOptionsRep DEF made
<1>4. <<>> \o built = SubSeq(built, 1, Len(built))
  <2>1. PICK S : built \in Seq(S)  BY <1>0 DEF IsSeq
  <2> QED BY <2>1
<1>5. calls = <<>> /\ Len(<<>>) = 0  BY <1>1 DEF Inv
<1>6. AllGood(heap', built')  BY <1>0, <1>1, <1>3, GoodLater
<1>7. IsSeq(heap') /\ Len(heap') > 0  BY <1>1, <1>3, SeqLen DEF Later
<1>8. base' \in 0..Len(built')  BY <1>0, <1>1
<1>9. Rep(heap', client', SubSeq(built', 1, base'))  BY <1>1, <1>3, <1>4
<1>10. Inv'
  BY <1>1, <1>5, <1>6, <1>7, <1>8, <1>9, EmptySeq DEF Inv
<1> QED BY <1>1, <1>3, <1>10

LEMMA CallInv ==
  ASSUME Inv, NEW n \in 0..MaxPassed, NEW passed \in [1..n -> DOMAIN built],
         Call(passed)
  PROVE  Later(heap, heap') /\ Inv'
<1> DEFINE picks == Picks(passed)
<1> DEFINE made == applyOptions(client, picks)
<1> DEFINE call == [opts |-> made.opts, passed |-> passed,
                    chain |-> createSelector(made.opts)]
<1> DEFINE own == SubSeq(built, 1, base)
<1>0. /\ IsSeq(heap) /\ Len(heap) > 0 /\ AllGood(heap, built)
      /\ IsSeq(built) /\ Len(built) \in Nat /\ DOMAIN built = 1..Len(built)
      /\ base \in 0..Len(built) /\ IsSeq(calls)
  BY SeqLen DEF Inv, AllGood
<1>1. /\ heap' = made.heap /\ calls' = Append(calls, call)
      /\ built' = built /\ base' = base /\ client' = client /\ client # None
  BY DEF Call
<1>2. /\ passed \in Seq(1..Len(built)) /\ Len(passed) = n
      /\ \A i \in 1..n : passed[i] \in 1..Len(built)
  <2>1. n \in Nat  BY BoundsAssumption
  <2> QED BY <1>0, <2>1
<1>3. AllGood(heap, picks)
  <2>1. n \in Nat  BY BoundsAssumption
  <2>2. /\ picks = [i \in 1..n |-> picks[i]]
        /\ \A i \in 1..n : picks[i] = built[passed[i]]
    BY <1>2 DEF Picks
  <2> HIDE DEF picks
  <2>3. IsSeq(picks) /\ Len(picks) = n  BY <2>1, <2>2, SeqMade
  <2> QED BY <1>0, <1>2, <2>2, <2>3 DEF AllGood
<1>4. Rep(heap, client, own) /\ IsSeq(own)
  BY <1>0, <1>1, SeqPrefix DEF Inv
<1>5. PassedOf(built, base, passed) = own \o picks  BY DEF PassedOf, Picks
<1> HIDE DEF made, picks, own
<1>6. Later(heap, made.heap) /\ Rep(made.heap, made.opts, own \o picks)
  BY <1>0, <1>3, <1>4, applyOptionsRep DEF made
<1>7. Right(heap', built, base, call)  BY <1>1, <1>2, <1>5, <1>6 DEF Right
<1> HIDE DEF call
<1>8. /\ IsSeq(calls') /\ Len(calls') = Len(calls) + 1 /\ Len(calls) \in Nat
      /\ calls'[Len(calls) + 1] = call
      /\ \A i \in 1..Len(calls) : calls'[i] = calls[i]
  BY <1>0, <1>1, SeqAppend, SeqLen
<1>9. ASSUME NEW i \in 1..Len(calls')
      PROVE  Right(heap', built', base', calls'[i])
  <2>1. CASE i = Len(calls) + 1  BY <1>1, <1>7, <1>8, <2>1
  <2>2. CASE i \in 1..Len(calls)
    <3>1. Right(heap, built, base, calls[i])  BY <2>2 DEF Inv
    <3>2. Right(heap', built, base, calls[i])
      BY <1>1, <1>6, <3>1, RightLater
    <3> QED BY <1>1, <1>8, <2>2, <3>2
  <2> QED BY <1>8, <2>1, <2>2
<1>10. AllGood(heap', built')  BY <1>0, <1>1, <1>6, GoodLater
<1>11. IsSeq(heap') /\ Len(heap') > 0  BY <1>1, <1>6, SeqLen DEF Later
<1>12. Rep(heap', client', SubSeq(built', 1, base'))
  BY <1>1, <1>4, <1>6, RepLater DEF own
<1>13. base' \in 0..Len(built') /\ client' # None  BY <1>0, <1>1
<1>14. Inv'
  BY <1>8, <1>9, <1>10, <1>11, <1>12, <1>13 DEF Inv
<1> QED BY <1>1, <1>6, <1>14

(* What leaves the options alone and the maps but the caller's own.        *)
LEMMA SameInv ==
  ASSUME Inv, Later(heap, heap'), UNCHANGED <<built, client, base, calls>>
  PROVE  Inv'
<1>1. AllGood(heap', built')  BY GoodLater DEF Inv
<1>2. IsSeq(heap') /\ Len(heap') > 0  BY SeqLen DEF Later
<1>3. client' # None => Rep(heap', client', SubSeq(built', 1, base'))
  BY RepLater DEF Inv
<1>4. ASSUME NEW i \in 1..Len(calls')
      PROVE  Right(heap', built', base', calls'[i])
  <2>1. Right(heap, built, base, calls[i])  BY DEF Inv
  <2>2. Right(heap', built, base, calls[i])  BY <2>1, RightLater
  <2> QED BY <2>2
<1>5. /\ base' \in 0..Len(built') /\ IsSeq(calls')
      /\ client' = None => calls' = <<>>
  BY DEF Inv
<1> QED BY <1>1, <1>2, <1>3, <1>4, <1>5 DEF Inv

LEMMA WriteMapInv ==
  ASSUME Inv, NEW contents, WriteMap(contents)
  PROVE  Later(heap, heap') /\ Inv'
<1>1. PICK S : heap \in Seq(S)  BY DEF Inv, IsSeq
<1>2. Len(heap) \in Nat /\ Len(heap) > 0 /\ IsSeq(heap)  BY SeqLen DEF Inv
<1> DEFINE T == S \cup {contents}
<1>3. heap \in Seq(T) /\ contents \in T  BY <1>1
<1> HIDE DEF T
<1>4. /\ heap' = [heap EXCEPT ![1] = contents]
      /\ UNCHANGED <<built, client, base, calls>>
  BY DEF WriteMap, Mine
<1>5. /\ heap' \in Seq(T) /\ Len(heap') = Len(heap)
      /\ \A map \in 2..Len(heap) : heap'[map] = heap[map]
  BY <1>2, <1>3, <1>4
<1>6. IsSeq(heap')  BY <1>5 DEF IsSeq
<1>7. Later(heap, heap')  BY <1>2, <1>5, <1>6 DEF Later
<1> QED BY <1>4, <1>7, SameInv

(* Each step, stuttering ones included, keeps the invariant and every map  *)
(* but the caller's own.                                                   *)
LEMMA StepInv ==
  ASSUME Inv, [Next]_vars
  PROVE  Later(heap, heap') /\ Inv'
<1>0. Later(heap, heap)  BY LaterSame DEF Inv
<1>1. ASSUME NEW recipe \in Recipe, Build(recipe)
      PROVE  Later(heap, heap') /\ Inv'
  BY <1>1, BuildInv
<1>2. CASE New  BY <1>2, NewInv
<1>3. ASSUME NEW n \in 0..MaxPassed, NEW passed \in [1..n -> DOMAIN built],
             Call(passed)
      PROVE  Later(heap, heap') /\ Inv'
  BY <1>3, CallInv
<1>4. ASSUME NEW contents \in Contents, WriteMap(contents)
      PROVE  Later(heap, heap') /\ Inv'
  BY <1>4, WriteMapInv
<1>5. ASSUME NEW environment \in Environment, Setenv(environment)
      PROVE  Later(heap, heap') /\ Inv'
  <2>1. heap' = heap /\ UNCHANGED <<built, client, base, calls>>
    BY <1>5 DEF Setenv
  <2>2. Later(heap, heap')  BY <1>0, <2>1
  <2> QED BY <2>1, <2>2, SameInv
<1>6. CASE UNCHANGED vars
  <2>1. heap' = heap /\ UNCHANGED <<built, client, base, calls>>
    BY <1>6 DEF vars
  <2>2. Later(heap, heap')  BY <1>0, <2>1
  <2> QED BY <2>1, <2>2, SameInv
<1> QED BY <1>1, <1>2, <1>3, <1>4, <1>5, <1>6 DEF Next

-----------------------------------------------------------------------------
(* Theorems.                                                               *)

(* The Options of a client stand for the options New() was given and those *)
(* of each call for these and the ones passed to the call, whatever other  *)
(* calls and the caller's writes did in between.                           *)
THEOREM OptionsAreWhatWasAsked == Spec => []Inv
<1>1. Inv /\ [Next]_vars => Inv'  BY StepInv
<1> QED BY InitInv, <1>1, PTL DEF Spec

(* No option, client or call ever writes to a map another one may hold:    *)
(* all functions of options.go that set a key of a map copy the map.       *)
THEOREM CopyOnWrite == Spec => SharedMapsFrozen
<1>1. ASSUME Inv, [Next]_vars
      PROVE  [\A map \in DOMAIN heap \ {Mine} : heap'[map] = heap[map]]_vars
  <2>1. Later(heap, heap')  BY <1>1, StepInv
  <2>2. DOMAIN heap = 1..Len(heap)  BY <1>1, SeqLen DEF Inv
  <2>3. \A map \in DOMAIN heap \ {Mine} : map \in 2..Len(heap)
    <3>1. Len(heap) \in Nat  BY <1>1, SeqLen DEF Inv
    <3> QED BY <2>2, <3>1 DEF Mine
  <2> QED BY <2>1, <2>3 DEF Later
<1>2. Inv /\ [Next]_vars =>
        [\A map \in DOMAIN heap \ {Mine} : heap'[map] = heap[map]]_vars
  BY <1>1
<1> QED BY OptionsAreWhatWasAsked, <1>2, PTL DEF Spec, SharedMapsFrozen

-----------------------------------------------------------------------------
(* What is read off the list of options.                                   *)

LEMMA AllGoodPassed ==
  ASSUME NEW h, NEW options, AllGood(h, options), NEW n \in 0..Len(options),
         NEW passed \in Seq(1..Len(options))
  PROVE  AllGood(h, PassedOf(options, n, passed))
<1> DEFINE own == SubSeq(options, 1, n)
<1> DEFINE m == Len(passed)
<1> DEFINE more == [i \in 1..m |-> options[passed[i]]]
<1>1. /\ IsSeq(options) /\ Len(options) \in Nat /\ m \in Nat
      /\ \A i \in 1..m : passed[i] \in 1..Len(options)
  BY SeqLen DEF AllGood
<1>2. IsSeq(own) /\ Len(own) = n /\ \A i \in 1..n : own[i] = options[i]
  BY <1>1, SeqPrefix
<1>3. /\ more = [i \in 1..m |-> more[i]]
      /\ \A i \in 1..m : more[i] = options[passed[i]]
  OBVIOUS
<1> HIDE DEF own, more
<1>4. IsSeq(more) /\ Len(more) = m
  <2> HIDE DEF m
  <2> QED BY <1>1, <1>3, SeqMade
<1>5. /\ IsSeq(own \o more)
      /\ \A i \in 1..Len(own \o more) :
           \/ i \in 1..Len(own) /\ (own \o more)[i] = own[i]
           \/ /\ i - Len(own) \in 1..Len(more)
              /\ (own \o more)[i] = more[i - Len(own)]
  <2>1. IsSeq(own) /\ IsSeq(more)  BY <1>2, <1>4
  <2> QED BY <2>1, SeqConcat
<1>6. ASSUME NEW i \in 1..Len(own \o more)  PROVE Good(h, (own \o more)[i])
  <2>1. CASE i \in 1..Len(own) /\ (own \o more)[i] = own[i]
    <3>1. i \in 1..Len(options)  BY <1>1, <1>2, <2>1
    <3> QED BY <1>2, <2>1, <3>1 DEF AllGood
  <2>2. CASE /\ i - Len(own) \in 1..Len(more)
             /\ (own \o more)[i] = more[i - Len(own)]
    <3> DEFINE j == i - Len(own)
    <3>1. j \in 1..m  BY <1>4, <2>2
    <3> HIDE DEF j, m
    <3>2. passed[j] \in 1..Len(options) /\ more[j] = options[passed[j]]
      BY <1>1, <1>3, <3>1
    <3>3. Good(h, options[passed[j]])  BY <3>2 DEF AllGood
    <3> QED BY <2>2, <3>2, <3>3 DEF j
  <2> QED BY <1>5, <2>1, <2>2
<1> QED BY <1>5, <1>6 DEF AllGood, PassedOf, own, more

LEMMA NamedLast ==
  ASSUME NEW h, NEW options, AllGood(h, options), NEW kind,
         NEW name \in Names(options, kind)
  PROVE  /\ Good(h, LastOf(options, kind, name))
         /\ LastOf(options, kind, name) # Absent
         /\ LastOf(options, kind, name).recipe.kind = kind
<1>0. IsSeq(options)  BY DEF AllGood
<1>1. Matching(options, kind, name) # {}  BY DEF Names, Matching, Matches
<1>2. PICK i \in Matching(options, kind, name) :
        LastOf(options, kind, name) = options[i]
  BY <1>0, <1>1, LastOfFacts
<1>3. i \in 1..Len(options) /\ Matches(options[i], kind, name)
  BY <1>2 DEF Matching
<1>4. Good(h, options[i])  BY <1>3 DEF AllGood
<1>5. DOMAIN options[i] = {"recipe", "map", "meant"}  BY <1>4 DEF Good
<1>6. DOMAIN Absent = {"recipe", "meant"}  BY DEF Absent
<1> QED BY <1>2, <1>3, <1>4, <1>5, <1>6 DEF Matches

LEMMA UnnamedLast ==
  ASSUME NEW options, IsSeq(options), NEW kind, NEW name,
         name \notin Names(options, kind)
  PROVE  LastOf(options, kind, name) = Absent
<1>1. Matching(options, kind, name) = {}  BY DEF Names, Matching, Matches
<1> QED BY <1>1, LastOfFacts

LEMMA AbsentFields ==
  /\ Absent.recipe.value = None /\ Absent.recipe.base = <<>>
  /\ Absent.recipe.key = <<>> /\ Absent.meant = <<>>
BY DEF Absent

LEMMA FirstOfFour ==
  ASSUME NEW a, NEW b, NEW c, NEW d
  PROVE  FirstGiven(<<a, b, c, d>>) =
           IF a # <<>> THEN a ELSE IF b # <<>> THEN b
           ELSE IF c # <<>> THEN c ELSE d
<1> DEFINE lists == <<a, b, c, d>>
<1> DEFINE given == {i \in 1..Len(lists) : lists[i] # <<>>}
<1>1. /\ Len(lists) = 4 /\ lists[1] = a /\ lists[2] = b /\ lists[3] = c
      /\ lists[4] = d
  OBVIOUS
<1>2. FirstGiven(lists) =
        IF given = {} THEN <<>>
        ELSE lists[CHOOSE i \in given : \A j \in given : i <= j]
  BY DEF FirstGiven
<1> HIDE DEF lists
<1>3. ASSUME NEW i \in given, \A j \in given : i <= j
      PROVE  FirstGiven(lists) = lists[i]
  <2>1. \A k \in given : (\A j \in given : k <= j) => k = i
    BY <1>1, <1>3
  <2> HIDE DEF given
  <2>2. (CHOOSE k \in given : \A j \in given : k <= j) = i
    BY <1>3, <2>1
  <2> QED BY <1>2, <2>2
<1>4. CASE a # <<>>
  <2>1. 1 \in given /\ \A j \in given : 1 <= j  BY <1>1, <1>4
  <2>2. FirstGiven(lists) = a  BY <1>1, <1>3, <2>1
  <2> QED BY <1>4, <2>2 DEF lists
<1>5. CASE a = <<>> /\ b # <<>>
  <2>1. 2 \in given /\ \A j \in given : 2 <= j  BY <1>1, <1>5
  <2>2. FirstGiven(lists) = b  BY <1>1, <1>3, <2>1
  <2> QED BY <1>5, <2>2 DEF lists
<1>6. CASE a = <<>> /\ b = <<>> /\ c # <<>>
  <2>1. 3 \in given /\ \A j \in given : 3 <= j  BY <1>1, <1>6
  <2>2. FirstGiven(lists) = c  BY <1>1, <1>3, <2>1
  <2> QED BY <1>6, <2>2 DEF lists
<1>7. CASE a = <<>> /\ b = <<>> /\ c = <<>> /\ d # <<>>
  <2>1. 4 \in given /\ \A j \in given : 4 <= j  BY <1>1, <1>7
  <2>2. FirstGiven(lists) = d  BY <1>1, <1>3, <2>1
  <2> QED BY <1>7, <2>2 DEF lists
<1>8. CASE a = <<>> /\ b = <<>> /\ c = <<>> /\ d = <<>>
  <2>1. given = {}  BY <1>1, <1>8
  <2>2. FirstGiven(lists) = <<>>  BY <1>2, <2>1
  <2> QED BY <1>8, <2>2 DEF lists
<1> QED BY <1>4, <1>5, <1>6, <1>7, <1>8

(* Entries of maps that are put over one another.                          *)
LEMMA EmptyFirst ==
  ASSUME NEW g, NEW k
  PROVE  (<<>> @@ g) @@ k = g @@ k
BY DEF @@

LEMMA StreamLast ==
  ASSUME NEW a, NEW b, NEW c, NEW key, NEW value,
         key \notin DOMAIN a, key \notin DOMAIN b
  PROVE  (a @@ b) @@ ((key :> value) @@ c) = (((key :> value) @@ a) @@ b) @@ c
<1> DEFINE f == (a @@ b) @@ ((key :> value) @@ c)
<1> DEFINE g == (((key :> value) @@ a) @@ b) @@ c
<1>1. /\ f = [k \in DOMAIN f |-> f[k]] /\ g = [k \in DOMAIN g |-> g[k]]
      /\ DOMAIN f = {key} \cup DOMAIN a \cup DOMAIN b \cup DOMAIN c
      /\ DOMAIN g = {key} \cup DOMAIN a \cup DOMAIN b \cup DOMAIN c
  BY DEF @@, :>
<1>2. ASSUME NEW k \in DOMAIN f  PROVE f[k] = g[k]
  BY DEF @@, :>
<1> HIDE DEF f, g
<1>3. f = g  BY <1>1, <1>2
<1> QED BY <1>3 DEF f, g

LEMMA StreamLastOne ==
  ASSUME NEW b, NEW c, NEW key, NEW value, key \notin DOMAIN b
  PROVE  b @@ ((key :> value) @@ c) = (((key :> value) @@ <<>>) @@ b) @@ c
<1> DEFINE f == b @@ ((key :> value) @@ c)
<1> DEFINE g == (((key :> value) @@ <<>>) @@ b) @@ c
<1>1. /\ f = [k \in DOMAIN f |-> f[k]] /\ g = [k \in DOMAIN g |-> g[k]]
      /\ DOMAIN f = {key} \cup DOMAIN b \cup DOMAIN c
      /\ DOMAIN g = {key} \cup DOMAIN b \cup DOMAIN c
  BY DEF @@, :>
<1>2. ASSUME NEW k \in DOMAIN f  PROVE f[k] = g[k]
  BY DEF @@, :>
<1> HIDE DEF f, g
<1>3. f = g  BY <1>1, <1>2
<1> QED BY <1>3 DEF f, g

-----------------------------------------------------------------------------
(* What a leg is made of, read off the list of options.                    *)
Reads(o, options) == AllGood(heap, options) /\ Rep(heap, o, options)

LEMMA EffortRead ==
  ASSUME NEW o, NEW options, Reads(o, options), NEW spec
  PROVE  reasoningEffortFor(o, spec) =
           LET leg == LastOf(options, "legEffort", spec)
               chosen == IF leg # Absent THEN leg
                         ELSE LastOf(options, "effort", None)
           IN  chosen.recipe.value
<1> DEFINE own == Map(o.legEfforts)
<1> DEFINE leg == LastOf(options, "legEffort", spec)
<1>0. IsSeq(options) /\ AllGood(heap, options)  BY DEF Reads, AllGood
<1>1. /\ DOMAIN own = Names(options, "legEffort")
      /\ \A name \in Names(options, "legEffort") :
           own[name] = LastOf(options, "legEffort", name).recipe.value
      /\ o.effort = LastOf(options, "effort", None).recipe.value
  BY DEF Reads, Rep, RepEfforts, RepNames, RepValues, Map
<1>2. reasoningEffortFor(o, spec) =
        IF spec \in DOMAIN own THEN own[spec] ELSE o.effort
  BY DEF reasoningEffortFor
<1> HIDE DEF own
<1>3. CASE spec \in Names(options, "legEffort")
  <2>1. leg # Absent  BY <1>0, <1>3, NamedLast
  <2> QED BY <1>1, <1>2, <1>3, <2>1
<1>4. CASE spec \notin Names(options, "legEffort")
  <2>1. leg = Absent  BY <1>0, <1>4, UnnamedLast
  <2> QED BY <1>1, <1>2, <1>4, <2>1
<1> QED BY <1>3, <1>4

(* An entry of the providers, or none.                                     *)
LEMMA ProviderRead ==
  ASSUME NEW o, NEW options, Reads(o, options), NEW p
  PROVE  /\ p \in DOMAIN Map(o.providers) =>
              LET entry == Map(o.providers)[p]
                  option == LastOf(options, "provider", p)
              IN  /\ entry.base = option.recipe.base
                  /\ entry.key = option.recipe.key
                  /\ Map(entry.headers) = option.meant
         /\ p \notin DOMAIN Map(o.providers) =>
              LastOf(options, "provider", p) = Absent
<1> DEFINE own == Map(o.providers)
<1> DEFINE option == LastOf(options, "provider", p)
<1>0. IsSeq(options)  BY DEF Reads, AllGood
<1>1. DOMAIN own = Names(options, "provider")
  BY DEF Reads, Rep, RepProviders, RepNames, Map
<1>2. ASSUME p \in DOMAIN own
      PROVE  RepConfig(heap, own[p], option)
  BY <1>1, <1>2 DEF Reads, Rep, RepProviders, Map
<1>3. ASSUME p \notin DOMAIN own  PROVE option = Absent
  BY <1>0, <1>1, <1>3, UnnamedLast
<1>4. ASSUME p \in DOMAIN own
      PROVE  /\ own[p].base = option.recipe.base
             /\ own[p].key = option.recipe.key
             /\ Map(own[p].headers) = option.meant
  <2> HIDE DEF own, option
  <2> QED BY <1>2, <1>4 DEF RepConfig, Holds, Map
<1> QED BY <1>3, <1>4

LEMMA DefaultRead ==
  ASSUME NEW o, NEW options, Reads(o, options)
  PROVE  LET option == LastOf(options, "default", None)
         IN  /\ o.default.base = option.recipe.base
             /\ o.default.key = option.recipe.key
             /\ Map(o.default.headers) = option.meant
BY DEF Reads, Rep, RepConfig, Holds, Map

LEMMA URLsRead ==
  ASSUME NEW o, NEW options, Reads(o, options), NEW p
  PROVE  resolveBaseURL(o, p) =
           LET found(list) == IF p = Bare THEN <<>> ELSE list
           IN  FirstGiven(<<LastOf(options, "provider", p).recipe.base,
                            LastOf(options, "default", None).recipe.base,
                            found(env.base[p]), found(Table[p])>>)
<1> DEFINE own == LastOf(options, "provider", p).recipe.base
<1> DEFINE default == LastOf(options, "default", None).recipe.base
<1> DEFINE third == IF p = Bare THEN <<>> ELSE env.base[p]
<1> DEFINE fourth == IF p = Bare THEN <<>> ELSE Table[p]
<1>1. Explicit(o, p, "base") = IF own # <<>> THEN own ELSE default
  <2>1. o.default.base = default  BY DefaultRead
  <2>2. CASE p \in DOMAIN Map(o.providers)
    <3>1. Map(o.providers)[p].base = own  BY <2>2, ProviderRead
    <3> QED BY <2>1, <2>2, <3>1 DEF Explicit
  <2>3. CASE p \notin DOMAIN Map(o.providers)
    <3>1. own = <<>>  BY <2>3, ProviderRead, AbsentFields
    <3> QED BY <2>1, <2>3, <3>1 DEF Explicit
  <2> QED BY <2>2, <2>3
<1>2. resolveBaseURL(o, p) =
        IF Explicit(o, p, "base") # <<>> THEN Explicit(o, p, "base")
        ELSE IF p = Bare THEN <<>>
        ELSE IF env.base[p] # <<>> THEN env.base[p] ELSE Table[p]
  BY DEF resolveBaseURL
<1> HIDE DEF own, default
<1>3. resolveBaseURL(o, p) =
        IF own # <<>> THEN own ELSE IF default # <<>> THEN default
        ELSE IF third # <<>> THEN third ELSE fourth
  BY <1>1, <1>2
<1> HIDE DEF third, fourth
<1>4. FirstGiven(<<own, default, third, fourth>>) =
        IF own # <<>> THEN own ELSE IF default # <<>> THEN default
        ELSE IF third # <<>> THEN third ELSE fourth
  BY FirstOfFour
<1> QED BY <1>3, <1>4 DEF own, default, third, fourth

LEMMA KeysRead ==
  ASSUME NEW o, NEW options, Reads(o, options), NEW p
  PROVE  resolveAPIKey(o, p) =
           LET found(list) == IF p = Bare THEN <<>> ELSE list
           IN  FirstGiven(<<LastOf(options, "provider", p).recipe.key,
                            LastOf(options, "default", None).recipe.key,
                            found(env.key[p]),
                            IF p = Ollama THEN <<Ollama>> ELSE <<>>>>)
<1> DEFINE own == LastOf(options, "provider", p).recipe.key
<1> DEFINE default == LastOf(options, "default", None).recipe.key
<1> DEFINE third == IF p = Bare THEN <<>> ELSE env.key[p]
<1> DEFINE fourth == IF p = Ollama THEN <<Ollama>> ELSE <<>>
<1>1. Explicit(o, p, "key") = IF own # <<>> THEN own ELSE default
  <2>1. o.default.key = default  BY DefaultRead
  <2>2. CASE p \in DOMAIN Map(o.providers)
    <3>1. Map(o.providers)[p].key = own  BY <2>2, ProviderRead
    <3> QED BY <2>1, <2>2, <3>1 DEF Explicit
  <2>3. CASE p \notin DOMAIN Map(o.providers)
    <3>1. own = <<>>  BY <2>3, ProviderRead, AbsentFields
    <3> QED BY <2>1, <2>3, <3>1 DEF Explicit
  <2> QED BY <2>2, <2>3
<1>2. resolveAPIKey(o, p) =
        IF Explicit(o, p, "key") # <<>> THEN Explicit(o, p, "key")
        ELSE IF p = Bare THEN <<>>
        ELSE IF env.key[p] # <<>> THEN env.key[p] ELSE fourth
  BY DEF resolveAPIKey
<1>3. Bare # Ollama  BY DEF Bare, Ollama
<1> HIDE DEF own, default
<1>4. resolveAPIKey(o, p) =
        IF own # <<>> THEN own ELSE IF default # <<>> THEN default
        ELSE IF third # <<>> THEN third ELSE fourth
  BY <1>1, <1>2, <1>3
<1> HIDE DEF third, fourth
<1>5. FirstGiven(<<own, default, third, fourth>>) =
        IF own # <<>> THEN own ELSE IF default # <<>> THEN default
        ELSE IF third # <<>> THEN third ELSE fourth
  BY FirstOfFour
<1> QED BY <1>4, <1>5 DEF own, default, third, fourth

LEMMA HeadersRead ==
  ASSUME NEW o, NEW options, Reads(o, options), NEW p
  PROVE  providerHeaders(o, p) @@ ("set" :> Library) =
           LastOf(options, "provider", p).meant
             @@ LastOf(options, "default", None).meant @@ ("set" :> Library)
<1> DEFINE own == LastOf(options, "provider", p).meant
<1> DEFINE default == LastOf(options, "default", None).meant
<1> DEFINE rest == "set" :> Library
<1>1. Map(o.default.headers) = default  BY DefaultRead
<1>2. CASE p \in DOMAIN Map(o.providers)
  <2>1. Map(Map(o.providers)[p].headers) = own  BY <1>2, ProviderRead
  <2>2. providerHeaders(o, p) = own @@ default
    BY <1>1, <1>2, <2>1 DEF providerHeaders
  <2> QED BY <2>2
<1>3. CASE p \notin DOMAIN Map(o.providers)
  <2>1. own = <<>>  BY <1>3, ProviderRead, AbsentFields
  <2>2. providerHeaders(o, p) = default  BY <1>1, <1>3 DEF providerHeaders
  <2> HIDE DEF own, default, rest
  <2>3. (own @@ default) @@ rest = default @@ rest  BY <2>1, EmptyFirst
  <2>4. providerHeaders(o, p) @@ rest = (own @@ default) @@ rest
    BY <2>2, <2>3
  <2> QED BY <2>4 DEF own, default, rest
<1> QED BY <1>2, <1>3

LEMMA ExtraMeant ==
  ASSUME NEW options, AllGood(heap, options), NEW kind \in ExtraBody, NEW name
  PROVE  "stream" \notin DOMAIN LastOf(options, kind, name).meant
<1> DEFINE option == LastOf(options, kind, name)
<1>1. CASE name \in Names(options, kind)
  <2>1. Good(heap, option) /\ option.recipe.kind = kind  BY <1>1, NamedLast
  <2> HIDE DEF option
  <2>2. reservedExtraBodyKeys \cap DOMAIN option.meant = {}
    BY <2>1 DEF Good
  <2> QED BY <2>2 DEF reservedExtraBodyKeys, option
<1>2. CASE name \notin Names(options, kind)
  <2>1. option = Absent  BY <1>2, UnnamedLast DEF AllGood
  <2>2. DOMAIN <<>> = {}  OBVIOUS
  <2> QED BY <2>1, <2>2, AbsentFields
<1> QED BY <1>1, <1>2

LEMMA BodyRead ==
  ASSUME NEW o, NEW options, Reads(o, options), NEW p
  PROVE  extraBodyFor(o, p) @@ payload(o) =
           LET seed == LastOf(options, "seed", None).recipe.value
           IN  ("stream" :> Library)
                 @@ LastOf(options, "providerExtra", p).meant
                 @@ LastOf(options, "extra", None).meant
                 @@ IF seed = None THEN <<>> ELSE "set" :> seed
<1> DEFINE own == LastOf(options, "providerExtra", p).meant
<1> DEFINE extra == LastOf(options, "extra", None).meant
<1> DEFINE seed == LastOf(options, "seed", None).recipe.value
<1> DEFINE rest == IF seed = None THEN <<>> ELSE "set" :> seed
<1> DEFINE entries == Map(o.providerExtra)
<1>0. AllGood(heap, options) /\ IsSeq(options)  BY DEF Reads, AllGood
<1>1. o.seed = seed /\ Map(o.extra) = extra
  BY DEF Reads, Rep, RepValues, Holds, Map
<1>2. "stream" \notin DOMAIN own /\ "stream" \notin DOMAIN extra
  BY <1>0, ExtraMeant DEF ExtraBody
<1>3. payload(o) = ("stream" :> Library) @@ rest  BY <1>1 DEF payload
<1>4. DOMAIN entries = Names(options, "providerExtra")
  BY DEF Reads, Rep, RepProviderExtra, RepNames, Map
<1>5. CASE p \in DOMAIN entries
  <2>1. Map(entries[p]) = own
    BY <1>4, <1>5 DEF Reads, Rep, RepProviderExtra, Holds, Map
  <2>2. extraBodyFor(o, p) = own @@ extra
    BY <1>1, <1>5, <2>1 DEF extraBodyFor
  <2> HIDE DEF own, extra, rest
  <2>3. (own @@ extra) @@ (("stream" :> Library) @@ rest) =
          ((("stream" :> Library) @@ own) @@ extra) @@ rest
    BY <1>2, StreamLast
  <2>4. extraBodyFor(o, p) @@ payload(o) =
          ((("stream" :> Library) @@ own) @@ extra) @@ rest
    BY <1>3, <2>2, <2>3
  <2> QED BY <2>4 DEF own, extra, rest
<1>6. CASE p \notin DOMAIN entries
  <2>1. LastOf(options, "providerExtra", p) = Absent
    BY <1>0, <1>4, <1>6, UnnamedLast
  <2>2. own = <<>>  BY <2>1, AbsentFields
  <2>3. extraBodyFor(o, p) = extra  BY <1>1, <1>6 DEF extraBodyFor
  <2> HIDE DEF own, extra, rest
  <2>4. extra @@ (("stream" :> Library) @@ rest) =
          ((("stream" :> Library) @@ <<>>) @@ extra) @@ rest
    BY <1>2, StreamLastOne
  <2>5. extraBodyFor(o, p) @@ payload(o) =
          ((("stream" :> Library) @@ own) @@ extra) @@ rest
    BY <1>3, <2>2, <2>3, <2>4
  <2> QED BY <2>5 DEF own, extra, rest
<1> QED BY <1>5, <1>6

(* A leg sends what the options meant.                                     *)
LEMMA LegRead ==
  ASSUME NEW o, NEW call, Reads(o, Passed(call)), NEW spec
  PROVE  prepareLLMCall(o, spec) = Meant(call, spec)
<1> DEFINE options == Passed(call)
<1> DEFINE p == ProviderOf[spec]
<1> DEFINE found(list) == IF p = Bare THEN <<>> ELSE list
<1> DEFINE urls == FirstGiven(<<LastOf(options, "provider", p).recipe.base,
                                LastOf(options, "default", None).recipe.base,
                                found(env.base[p]), found(Table[p])>>)
<1> DEFINE keys == FirstGiven(<<LastOf(options, "provider", p).recipe.key,
                                LastOf(options, "default", None).recipe.key,
                                found(env.key[p]),
                                IF p = Ollama THEN <<Ollama>> ELSE <<>>>>)
<1> DEFINE lists == [urls |-> urls, keys |-> keys]
<1> DEFINE leg == LastOf(options, "legEffort", spec)
<1> DEFINE chosen == IF leg # Absent THEN leg
                     ELSE LastOf(options, "effort", None)
<1> DEFINE effort == chosen.recipe.value
<1> DEFINE headers == LastOf(options, "provider", p).meant
                        @@ LastOf(options, "default", None).meant
                        @@ ("set" :> Library)
<1> DEFINE seed == LastOf(options, "seed", None).recipe.value
<1> DEFINE body == ("stream" :> Library)
                     @@ LastOf(options, "providerExtra", p).meant
                     @@ LastOf(options, "extra", None).meant
                     @@ IF seed = None THEN <<>> ELSE "set" :> seed
<1>1. resolveBaseURL(o, p) = urls  BY URLsRead
<1>2. resolveAPIKey(o, p) = keys  BY KeysRead
<1>3. reasoningEffortFor(o, spec) = effort  BY EffortRead
<1>4. providerHeaders(o, p) @@ ("set" :> Library) = headers  BY HeadersRead
<1>5. extraBodyFor(o, p) @@ payload(o) = body  BY BodyRead
<1>6. Meant(call, spec) =
        IF p = Malformed THEN Refused
        ELSE IF ~ Buildable(lists) \/ effort \notin Allowed(p) \cup {None}
          THEN Refused
        ELSE [pairs |-> buildPairs(lists), headers |-> headers,
              effort |-> effort, body |-> body]
  BY DEF Meant
<1>7. Resolved(o, p) =
        [urls |-> resolveBaseURL(o, p), keys |-> resolveAPIKey(o, p)]
  BY DEF Resolved
<1>8. prepareLLMCall(o, spec) =
        IF \/ p = Malformed \/ ~ Buildable(Resolved(o, p))
           \/ ~ EffortAllowed(reasoningEffortFor(o, spec), p)
          THEN Refused
        ELSE [pairs |-> buildPairs(Resolved(o, p)),
              headers |-> providerHeaders(o, p) @@ ("set" :> Library),
              effort |-> reasoningEffortFor(o, spec),
              body |-> extraBodyFor(o, p) @@ payload(o)]
  BY DEF prepareLLMCall
<1> HIDE DEF options, p, urls, keys, effort, headers, body
<1>9. Resolved(o, p) = lists  BY <1>1, <1>2, <1>7
<1>10. EffortAllowed(effort, p) <=> effort \in Allowed(p) \cup {None}
  BY DEF EffortAllowed
<1> HIDE DEF lists
<1> QED BY <1>3, <1>4, <1>5, <1>6, <1>8, <1>9, <1>10

(* What the invariant says of a call.                                      *)
LEMMA CallReads ==
  ASSUME Inv, NEW i \in DOMAIN calls
  PROVE  Reads(calls[i].opts, Passed(calls[i]))
<1> DEFINE call == calls[i]
<1>1. i \in 1..Len(calls)  BY SeqLen DEF Inv
<1>2. Right(heap, built, base, call)  BY <1>1 DEF Inv
<1> HIDE DEF call
<1>3. Passed(call) = PassedOf(built, base, call.passed)
  BY DEF Passed, PassedOf, Picks
<1>4. AllGood(heap, PassedOf(built, base, call.passed))
  <2>1. call.passed \in Seq(1..Len(built))  BY <1>2 DEF Right
  <2> QED BY <2>1, AllGoodPassed DEF Inv
<1>5. Reads(call.opts, Passed(call))
  BY <1>2, <1>3, <1>4 DEF Reads, Right
<1> QED BY <1>5 DEF call

(* Validate() and unmatched leg efforts.                                   *)
LEMMA ValidateRead ==
  ASSUME NEW o, NEW options, Reads(o, options)
  PROVE  Validate(o) <=>
           /\ Parses(createSelector(o))
           /\ \A spec \in Range(createSelector(o)) :
                prepareLLMCall(o, spec) # Refused
           /\ \A option \in Range(options) :
                option.recipe.kind = "legEffort"
                  => option.recipe.name \in Range(createSelector(o))
<1> DEFINE chain == Range(createSelector(o))
<1>1. ASSUME NEW spec
      PROVE  validateModelConfig(o, spec) <=> prepareLLMCall(o, spec) # Refused
  <2> DEFINE p == ProviderOf[spec]
  <2> DEFINE fine == /\ p # Malformed
                     /\ EffortAllowed(reasoningEffortFor(o, spec), p)
                     /\ Buildable(Resolved(o, p))
  <2> DEFINE request ==
        [pairs |-> buildPairs(Resolved(o, p)),
         headers |-> providerHeaders(o, p) @@ ("set" :> Library),
         effort |-> reasoningEffortFor(o, spec),
         body |-> extraBodyFor(o, p) @@ payload(o)]
  <2>1. prepareLLMCall(o, spec) = IF ~ fine THEN Refused ELSE request
    BY DEF prepareLLMCall
  <2>2. validateModelConfig(o, spec) <=> fine  BY DEF validateModelConfig
  <2>3. DOMAIN request = {"pairs", "headers", "effort", "body"}  OBVIOUS
  <2>4. DOMAIN Refused = {"error"}  BY DEF Refused
  <2>5. request # Refused
    <3> HIDE DEF request
    <3> QED BY <2>3, <2>4
  <2> HIDE DEF fine, request
  <2> QED BY <2>1, <2>2, <2>5
<1>2. DOMAIN Map(o.legEfforts) = Names(options, "legEffort")
  BY DEF Reads, Rep, RepEfforts, RepNames, Map
<1>3. IsSeq(options) /\ DOMAIN options = 1..Len(options)
  BY SeqLen DEF Reads, AllGood
<1>4. unmatchedLegEfforts(o) = {} <=>
        \A option \in Range(options) :
          option.recipe.kind = "legEffort" => option.recipe.name \in chain
  <2>1. unmatchedLegEfforts(o) = Names(options, "legEffort") \ chain
    BY <1>2 DEF unmatchedLegEfforts
  <2> HIDE DEF chain
  <2>2. ASSUME unmatchedLegEfforts(o) = {}, NEW option \in Range(options),
               option.recipe.kind = "legEffort"
        PROVE  option.recipe.name \in chain
    <3>1. PICK i \in 1..Len(options) : options[i] = option
      BY <1>3 DEF Range
    <3>2. option.recipe.name \in Names(options, "legEffort")
      BY <2>2, <3>1 DEF Names
    <3> QED BY <2>1, <2>2, <3>2
  <2>3. ASSUME \A option \in Range(options) :
                 option.recipe.kind = "legEffort"
                   => option.recipe.name \in chain
        PROVE  Names(options, "legEffort") \subseteq chain
    <3> SUFFICES ASSUME NEW name \in Names(options, "legEffort")
                 PROVE  name \in chain
      OBVIOUS
    <3>1. PICK i \in 1..Len(options) :
            /\ options[i].recipe.kind = "legEffort"
            /\ options[i].recipe.name = name
      BY DEF Names
    <3>2. options[i] \in Range(options)  BY <1>3 DEF Range
    <3> QED BY <2>3, <3>1, <3>2
  <2> QED BY <2>1, <2>2, <2>3
<1> QED BY <1>1, <1>4 DEF Validate

(* Every leg of every call sends what the options of the call meant.       *)
THEOREM LegsSendWhatWasMeant == Spec => []LaterWins
<1>1. Inv => LaterWins
  <2> SUFFICES ASSUME Inv, NEW i \in DOMAIN calls,
                      NEW spec \in Range(calls[i].chain)
               PROVE  prepareLLMCall(calls[i].opts, spec)
                        = Meant(calls[i], spec)
    BY DEF LaterWins
  <2>1. Reads(calls[i].opts, Passed(calls[i]))  BY CallReads
  <2> QED BY <2>1, LegRead
<1> QED BY OptionsAreWhatWasAsked, <1>1, PTL

(* Validate() finds exactly the errors the calls would meet.               *)
THEOREM ValidationIsExact == Spec => []ValidateAgrees
<1>1. Inv => ValidateAgrees
  <2> SUFFICES ASSUME Inv, NEW i \in DOMAIN calls
               PROVE  LET o == calls[i].opts
                          chain == createSelector(o)
                      IN Validate(o) <=>
                           /\ Parses(chain)
                           /\ \A spec \in Range(chain) :
                                prepareLLMCall(o, spec) # Refused
                           /\ \A option \in Range(Passed(calls[i])) :
                                option.recipe.kind = "legEffort"
                                  => option.recipe.name \in Range(chain)
    BY DEF ValidateAgrees
  <2>1. Reads(calls[i].opts, Passed(calls[i]))  BY CallReads
  <2> QED BY <2>1, ValidateRead
<1> QED BY OptionsAreWhatWasAsked, <1>1, PTL

=============================================================================
