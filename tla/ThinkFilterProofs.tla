------------------------- MODULE ThinkFilterProofs -------------------------
(***************************************************************************)
(* For any letters, any two tags as TagAssumption has them and texts of    *)
(* any length: the filter takes tags to mean what the reference says they  *)
(* mean in the whole text, however the text is cut.                        *)
(*                                                                         *)
(* Tags do not overlap, so what a tag means depends on what ended before   *)
(* it alone.  Settled(text, n) is what Feed() leaves behind: no tag with a *)
(* meaning, whole or not yet, lies across the end of the first n letters.  *)
(***************************************************************************)
EXTENDS ThinkFilter, Foundations

-----------------------------------------------------------------------------
(* Tags in a text.                                                         *)

(* What stands at letter i is the tag or, if the text ends before, a       *)
(* beginning of it.                                                        *)
MayBe(tag, text, i) ==
  \A k \in 1..Len(tag) : i + k - 1 <= Len(text) => text[i + k - 1] = tag[k]

(* A tag of that kind stands at letter a and has a meaning there.          *)
Meant(text, a, b) == a \in Found(Tag(b), text) /\ (Thinking(text, a) <=> b)

Settled(text, n) ==
  LET tag == Tag(Thinking(text, n + 1))
  IN  \A i \in 1..n : i + Len(tag) - 1 > n => ~ MayBe(tag, text, i)

Texts == Seq(Letter)

(* Stretches of a text.                                                    *)
LEMMA RunOfText ==
  ASSUME NEW text \in Texts, NEW a \in Nat, NEW n \in Nat, a + n <= Len(text)
  PROVE  /\ SubSeq(text, a + 1, a + n) \in Texts
         /\ Len(SubSeq(text, a + 1, a + n)) = n
         /\ \A i \in 1..n : SubSeq(text, a + 1, a + n)[i] = text[a + i]
<1> DEFINE lo == a + 1
           hi == a + n
<1>1. /\ text \in Seq(Letter) /\ Len(text) \in Nat /\ lo \in 1..(Len(text) + 1)
      /\ hi \in Nat /\ hi <= Len(text) /\ lo <= hi + 1 /\ hi - lo + 1 = n
      /\ \A i \in 1..n : lo + i - 1 = a + i
  BY DEF Texts
<1> HIDE DEF lo, hi
<1>2. /\ SubSeq(text, lo, hi) \in Seq(Letter)
      /\ Len(SubSeq(text, lo, hi)) = hi - lo + 1
      /\ \A i \in 1..(hi - lo + 1) : SubSeq(text, lo, hi)[i] = text[lo + i - 1]
  BY <1>1, SubSeqFacts
<1>3. /\ SubSeq(text, lo, hi) \in Texts /\ Len(SubSeq(text, lo, hi)) = n
      /\ \A i \in 1..n : SubSeq(text, lo, hi)[i] = text[a + i]
  BY <1>1, <1>2 DEF Texts
<1> QED BY <1>3 DEF lo, hi

LEMMA StartFacts ==
  ASSUME NEW text \in Texts, NEW n \in Nat, n <= Len(text)
  PROVE  /\ SubSeq(text, 1, n) \in Texts /\ Len(SubSeq(text, 1, n)) = n
         /\ \A i \in 1..n : SubSeq(text, 1, n)[i] = text[i]
<1>1. 0 \in Nat /\ 0 + n <= Len(text) /\ 0 + 1 = 1 /\ 0 + n = n
      /\ \A i \in 1..n : 0 + i = i
  OBVIOUS
<1>2. /\ SubSeq(text, 0 + 1, 0 + n) \in Texts
      /\ Len(SubSeq(text, 0 + 1, 0 + n)) = n
      /\ \A i \in 1..n : SubSeq(text, 0 + 1, 0 + n)[i] = text[0 + i]
  BY <1>1, RunOfText
<1> QED BY <1>1, <1>2

LEMMA UptoFacts ==
  \A text \in Texts : \A n \in 0..Len(text) :
    /\ n \in Nat /\ n <= Len(text)
    /\ Upto(text, n) \in Texts /\ Len(Upto(text, n)) = n
    /\ \A i \in 1..n : Upto(text, n)[i] = text[i] /\ i \in 1..Len(text)
<1> TAKE text \in Texts
<1> TAKE n \in 0..Len(text)
<1>1. Len(text) \in Nat /\ n \in Nat /\ n <= Len(text)  BY DEF Texts
<1>2. /\ SubSeq(text, 1, n) \in Texts /\ Len(SubSeq(text, 1, n)) = n
      /\ \A i \in 1..n : SubSeq(text, 1, n)[i] = text[i]
  BY <1>1, StartFacts
<1>3. \A i \in 1..n : i \in 1..Len(text)  BY <1>1
<1> QED BY <1>1, <1>2, <1>3 DEF Upto

LEMMA RestFacts ==
  \A text \in Texts : \A n \in 0..Len(text) :
    /\ After(text, n) \in Texts /\ Len(After(text, n)) = Len(text) - n
    /\ \A i \in 1..Len(After(text, n)) : After(text, n)[i] = text[n + i]
<1> TAKE text \in Texts
<1> TAKE n \in 0..Len(text)
<1> DEFINE k == Len(text) - n
<1>1. n \in Nat /\ k \in Nat /\ n + k <= Len(text) /\ n + k = Len(text)
  BY DEF Texts
<1> HIDE DEF k
<1>2. /\ SubSeq(text, n + 1, n + k) \in Texts
      /\ Len(SubSeq(text, n + 1, n + k)) = k
      /\ \A i \in 1..k : SubSeq(text, n + 1, n + k)[i] = text[n + i]
  BY <1>1, RunOfText
<1>3. After(text, n) = SubSeq(text, n + 1, n + k)  BY <1>1 DEF After
<1> QED BY <1>2, <1>3 DEF k

(* Two texts with the same letters are one.                                *)
LEMMA SameTexts ==
  ASSUME NEW s \in Texts, NEW t \in Texts, Len(s) = Len(t),
         \A i \in 1..Len(s) : s[i] = t[i]
  PROVE  s = t
BY DEF Texts

LEMMA TagTypes ==
  /\ openTag \in Texts /\ closeTag \in Texts
  /\ \A b : Tag(b) \in Texts /\ Tag(b) \in {openTag, closeTag}
            /\ Len(Tag(b)) \in Nat /\ Len(Tag(b)) > 1
  /\ Tag(TRUE) = closeTag /\ Tag(FALSE) = openTag
BY TagAssumption DEF Tag, Texts

(* A tag begins with a letter that is in no tag but at its beginning.      *)
LEMMA FirstLetters ==
  ASSUME NEW b \in BOOLEAN, NEW c \in BOOLEAN, NEW k \in 2..Len(Tag(b))
  PROVE  Tag(b)[k] # Tag(c)[1]
<1>1. CASE b = TRUE  BY <1>1, TagAssumption DEF Tag
<1>2. CASE b = FALSE  BY <1>2, TagAssumption DEF Tag
<1> QED BY <1>1, <1>2

LEMMA FoundThere ==
  ASSUME NEW text \in Texts, NEW b \in BOOLEAN
  PROVE  /\ Found(Tag(b), text) \in SUBSET (Nat \ {0})
         /\ \A a \in Nat \ {0} :
              a \in Found(Tag(b), text)
                <=> a + Len(Tag(b)) - 1 <= Len(text) /\ MayBe(Tag(b), text, a)
<1> DEFINE tag == Tag(b)
<1>1. tag \in Texts /\ Len(tag) \in Nat /\ Len(tag) > 1 /\ Len(text) \in Nat
  BY TagTypes DEF Texts
<1>2. ASSUME NEW a \in Nat \ {0}, a + Len(tag) - 1 <= Len(text)
      PROVE  (SubSeq(text, a, a + Len(tag) - 1) = tag) <=> MayBe(tag, text, a)
  <2> DEFINE there == SubSeq(text, a, a + Len(tag) - 1)
  <2> HIDE DEF tag
  <2>1. /\ there \in Texts /\ Len(there) = Len(tag)
        /\ \A k \in 1..Len(tag) : there[k] = text[a + k - 1]
    <3> DEFINE before == a - 1
               n == Len(tag)
    <3>1. /\ before \in Nat /\ n \in Nat /\ before + n <= Len(text)
          /\ before + 1 = a /\ before + n = a + n - 1
          /\ \A k \in 1..n : before + k = a + k - 1
      BY <1>1, <1>2
    <3>2. there = SubSeq(text, before + 1, before + n)  BY <3>1
    <3> HIDE DEF before, n, there
    <3>3. /\ there \in Texts /\ Len(there) = n
          /\ \A k \in 1..n : there[k] = text[before + k]
      BY <3>1, <3>2, RunOfText
    <3> QED BY <3>1, <3>3 DEF n
  <2> HIDE DEF there
  <2>2. there = tag <=> \A k \in 1..Len(tag) : there[k] = tag[k]
    BY <1>1, <2>1, SameTexts
  <2>3. \A k \in 1..Len(tag) : a + k - 1 <= Len(text)  BY <1>1, <1>2
  <2>4. there = tag <=> MayBe(tag, text, a)  BY <2>1, <2>2, <2>3 DEF MayBe
  <2> QED BY <2>4 DEF there
<1>3. \A a \in Nat \ {0} : a + Len(tag) - 1 <= Len(text) => a \in 1..Len(text)
  <2> HIDE DEF tag
  <2> QED BY <1>1
<1>4. \A a : a \in 1..Len(text) => a \in Nat \ {0}  BY <1>1
<1> HIDE DEF tag
<1>5. Found(tag, text) \in SUBSET (Nat \ {0})  BY <1>4 DEF Found
<1>6. \A a \in Nat \ {0} :
        a \in Found(tag, text)
          <=> a + Len(tag) - 1 <= Len(text) /\ MayBe(tag, text, a)
  BY <1>2, <1>3 DEF Found, Occurs
<1> QED BY <1>5, <1>6 DEF tag

(* No tag begins inside another.                                           *)
LEMMA NoOverlap ==
  ASSUME NEW text \in Texts, NEW b \in BOOLEAN, NEW c \in BOOLEAN,
         NEW s \in Nat \ {0}, NEW t \in Nat,
         MayBe(Tag(b), text, s), MayBe(Tag(c), text, t),
         s < t, t <= s + Len(Tag(b)) - 1, t <= Len(text)
  PROVE  FALSE
<1> DEFINE k == t - s + 1
<1>1. Len(Tag(b)) \in Nat /\ Len(Tag(c)) \in Nat /\ Len(Tag(c)) > 1
  BY TagTypes
<1>2. k \in 2..Len(Tag(b)) /\ s + k - 1 = t  BY <1>1
<1>3. text[t] = Tag(b)[k]
  <2> HIDE DEF k
  <2>1. k \in 1..Len(Tag(b))  BY <1>1, <1>2
  <2> QED BY <1>2, <2>1 DEF MayBe
<1>4. text[t] = Tag(c)[1]
  <2>1. 1 \in 1..Len(Tag(c)) /\ t + 1 - 1 = t  BY <1>1
  <2> QED BY <2>1 DEF MayBe
<1> HIDE DEF k
<1> QED BY <1>2, <1>3, <1>4, FirstLetters

(* A tag is not the beginning of the other.                                *)
LEMMA OneKind ==
  ASSUME NEW text \in Texts, NEW b \in BOOLEAN, NEW a \in Found(Tag(b), text),
         MayBe(Tag(~b), text, a)
  PROVE  FALSE
<1>1. PICK k \in 1..Len(openTag) : k <= Len(closeTag) /\ openTag[k] # closeTag[k]
  BY TagAssumption
<1>2. /\ k \in 1..Len(Tag(b)) /\ k \in 1..Len(Tag(~b))
      /\ Tag(b)[k] # Tag(~b)[k]
  <2>1. Len(openTag) \in Nat /\ Len(closeTag) \in Nat  BY TagTypes DEF Texts
  <2>2. k \in 1..Len(closeTag)  BY <1>1, <2>1
  <2>3. CASE b = TRUE  BY <1>1, <2>2, <2>3 DEF Tag
  <2>4. CASE b = FALSE  BY <1>1, <2>2, <2>4 DEF Tag
  <2> QED BY <2>3, <2>4
<1>3. a \in Nat \ {0} /\ a + Len(Tag(b)) - 1 <= Len(text) /\ MayBe(Tag(b), text, a)
  BY FoundThere
<1>4. a + k - 1 <= Len(text)
  <2>1. Len(Tag(b)) \in Nat /\ Len(text) \in Nat  BY TagTypes DEF Texts
  <2> QED BY <1>2, <1>3, <2>1
<1>5. text[a + k - 1] = Tag(b)[k]  BY <1>2, <1>3, <1>4 DEF MayBe
<1>6. text[a + k - 1] = Tag(~b)[k]  BY <1>2, <1>4 DEF MayBe
<1> QED BY <1>2, <1>5, <1>6

-----------------------------------------------------------------------------
(* What a tag means.                                                       *)

LEMMA ThinkingIs ==
  ASSUME NEW text \in Texts, NEW i \in Nat
  PROVE  Thinking(text, i) <=>
           \E o \in Found(Tag(FALSE), text) :
             /\ o + Len(Tag(FALSE)) <= i
             /\ \A c \in Found(Tag(TRUE), text) : c + Len(Tag(TRUE)) <= i => c < o
BY TagTypes DEF Thinking

LEMMA InTagIs ==
  ASSUME NEW text \in Texts, NEW i \in Nat
  PROVE  InTag(text, i) <=>
           \E b \in BOOLEAN : \E a \in Found(Tag(b), text) :
             Meant(text, a, b) /\ a <= i /\ i < a + Len(Tag(b))
<1>1. InTag(text, i) <=>
        \/ \E a \in Found(Tag(FALSE), text) :
             a <= i /\ i < a + Len(Tag(FALSE)) /\ ~Thinking(text, a)
        \/ \E a \in Found(Tag(TRUE), text) :
             a <= i /\ i < a + Len(Tag(TRUE)) /\ Thinking(text, a)
  BY TagTypes DEF InTag
<1>2. \A a, b : Meant(text, a, b)
                  <=> a \in Found(Tag(b), text) /\ (Thinking(text, a) <=> b)
  BY DEF Meant
<1>3. \A a \in Found(Tag(TRUE), text) : Meant(text, a, TRUE) <=> Thinking(text, a)
  BY <1>2
<1>4. \A a \in Found(Tag(FALSE), text) :
        Meant(text, a, FALSE) <=> ~Thinking(text, a)
  BY <1>2
<1>5. (\E b \in BOOLEAN : \E a \in Found(Tag(b), text) :
         Meant(text, a, b) /\ a <= i /\ i < a + Len(Tag(b)))
      <=>
        \/ \E a \in Found(Tag(FALSE), text) :
             Meant(text, a, FALSE) /\ a <= i /\ i < a + Len(Tag(FALSE))
        \/ \E a \in Found(Tag(TRUE), text) :
             Meant(text, a, TRUE) /\ a <= i /\ i < a + Len(Tag(TRUE))
  BY Zenon
<1> QED BY <1>1, <1>3, <1>4, <1>5, Zenon

(* Where a tag is whole, none of the same or the other kind overlaps it.   *)
LEMMA Apart ==
  ASSUME NEW text \in Texts, NEW b \in BOOLEAN, NEW c \in BOOLEAN,
         NEW s \in Found(Tag(b), text), NEW t \in Found(Tag(c), text), s < t
  PROVE  s + Len(Tag(b)) <= t
<1>1. /\ s \in Nat \ {0} /\ t \in Nat \ {0} /\ Len(text) \in Nat
      /\ Len(Tag(b)) \in Nat /\ Len(Tag(c)) \in Nat /\ Len(Tag(c)) > 1
      /\ MayBe(Tag(b), text, s) /\ MayBe(Tag(c), text, t)
      /\ t + Len(Tag(c)) - 1 <= Len(text)
  BY FoundThere, TagTypes DEF Texts
<1>2. t <= Len(text)  BY <1>1
<1>3. ~ (t <= s + Len(Tag(b)) - 1)  BY <1>1, <1>2, NoOverlap
<1> QED BY <1>1, <1>3

(* Two tags at one place are of one kind.                                  *)
LEMMA SameKind ==
  ASSUME NEW text \in Texts, NEW b \in BOOLEAN, NEW c \in BOOLEAN,
         NEW a \in Found(Tag(b), text), a \in Found(Tag(c), text)
  PROVE  b = c
<1>1. CASE c = ~b
  <2>1. a \in Nat \ {0}  BY FoundThere
  <2>2. MayBe(Tag(~b), text, a)  BY <1>1, <2>1, FoundThere
  <2> QED BY <2>2, OneKind
<1>2. c = b \/ c = ~b  OBVIOUS
<1> QED BY <1>1, <1>2

(* Where no tag ends, nothing changes.                                     *)
LEMMA SameThinking ==
  ASSUME NEW text \in Texts, NEW j \in Nat, NEW i \in Nat, j <= i,
         \A b \in BOOLEAN : \A a \in Found(Tag(b), text) :
           ~ (j < a + Len(Tag(b)) /\ a + Len(Tag(b)) <= i)
  PROVE  Thinking(text, i) <=> Thinking(text, j)
<1>1. \A b \in BOOLEAN : \A a \in Found(Tag(b), text) :
        a + Len(Tag(b)) <= i <=> a + Len(Tag(b)) <= j
  <2> TAKE b \in BOOLEAN
  <2> TAKE a \in Found(Tag(b), text)
  <2>1. a \in Nat /\ Len(Tag(b)) \in Nat  BY FoundThere, TagTypes
  <2> QED BY <2>1
<1> QED BY <1>1, ThinkingIs

(* Inside a tag nothing changes.                                           *)
LEMMA SameInTag ==
  ASSUME NEW text \in Texts, NEW b \in BOOLEAN, NEW t \in Found(Tag(b), text),
         NEW i \in Nat, t <= i, i < t + Len(Tag(b))
  PROVE  Thinking(text, i) <=> Thinking(text, t)
<1>1. t \in Nat /\ Len(Tag(b)) \in Nat  BY FoundThere, TagTypes
<1>2. ASSUME NEW c \in BOOLEAN, NEW a \in Found(Tag(c), text),
             t < a + Len(Tag(c)), a + Len(Tag(c)) <= i
      PROVE  FALSE
  <2>1. a \in Nat /\ Len(Tag(c)) \in Nat  BY FoundThere, TagTypes
  <2>2. ~ (a < t)  BY <1>2, <1>1, <2>1, Apart
  <2>3. ~ (t < a)
    <3>1. t < a => t + Len(Tag(b)) <= a  BY Apart
    <3> QED BY <1>1, <1>2, <2>1, <3>1
  <2>4. a = t  BY <1>1, <2>1, <2>2, <2>3
  <2>5. c = b  BY <2>4, SameKind
  <2> QED BY <1>1, <1>2, <2>1, <2>4, <2>5
<1> QED BY <1>1, <1>2, SameThinking

(* Only the tag that is waited for can change anything.                    *)
LEMMA Stays ==
  ASSUME NEW text \in Texts, NEW b \in BOOLEAN, NEW j \in Nat, NEW i \in Nat,
         j <= i, Thinking(text, j) <=> b,
         \A a \in Found(Tag(b), text) :
           ~ (j < a + Len(Tag(b)) /\ a + Len(Tag(b)) <= i)
  PROVE  Thinking(text, i) <=> b
<1> DEFINE opens == Found(Tag(FALSE), text)
           closes == Found(Tag(TRUE), text)
           lo == Len(Tag(FALSE))
           lc == Len(Tag(TRUE))
<1>1. /\ \A o \in opens : o \in Nat
      /\ \A c \in closes : c \in Nat
      /\ lo \in Nat /\ lc \in Nat
  BY FoundThere, TagTypes
<1>2. \A k \in Nat : Thinking(text, k) <=>
        \E o \in opens : o + lo <= k /\ \A c \in closes : c + lc <= k => c < o
  BY ThinkingIs
<1>3. CASE b = FALSE
  <2>1. \A o \in opens : ~ (j < o + lo /\ o + lo <= i)  BY <1>3
  <2>2. ~Thinking(text, j)  BY <1>3
  <2> HIDE DEF opens, closes, lo, lc
  <2>3. ASSUME NEW o \in opens, o + lo <= i,
               \A c \in closes : c + lc <= i => c < o
        PROVE  FALSE
    <3>1. o + lo <= j  BY <1>1, <2>1, <2>3
    <3>2. \A c \in closes : c + lc <= j => c < o  BY <1>1, <2>3
    <3> QED BY <1>2, <2>2, <3>1, <3>2
  <2> QED BY <1>2, <1>3, <2>3
<1>4. CASE b = TRUE
  <2>1. \A c \in closes : ~ (j < c + lc /\ c + lc <= i)  BY <1>4
  <2>2. Thinking(text, j)  BY <1>4
  <2> HIDE DEF opens, closes, lo, lc
  <2>3. PICK o \in opens : o + lo <= j /\ \A c \in closes : c + lc <= j => c < o
    BY <1>2, <2>2
  <2>4. o + lo <= i  BY <1>1, <2>3
  <2>5. \A c \in closes : c + lc <= i => c < o  BY <1>1, <2>1, <2>3
  <2> QED BY <1>2, <1>4, <2>4, <2>5
<1> QED BY <1>3, <1>4

(* Behind a tag it is as the tag says.                                     *)
LEMMA Flips ==
  ASSUME NEW text \in Texts, NEW b \in BOOLEAN, NEW a \in Found(Tag(b), text),
         NEW i \in Nat, i = a + Len(Tag(b))
  PROVE  Thinking(text, i) <=> ~b
<1> DEFINE opens == Found(Tag(FALSE), text)
           closes == Found(Tag(TRUE), text)
           lo == Len(Tag(FALSE))
           lc == Len(Tag(TRUE))
<1>1. /\ \A o \in opens : o \in Nat
      /\ \A c \in closes : c \in Nat
      /\ lo \in Nat /\ lc \in Nat /\ lo > 1 /\ lc > 1
  BY FoundThere, TagTypes
<1>2. Thinking(text, i) <=>
        \E o \in opens : o + lo <= i /\ \A c \in closes : c + lc <= i => c < o
  BY ThinkingIs
<1>3. \A o \in opens, c \in closes :
        /\ o # c
        /\ o < c => o + lo <= c
        /\ c < o => c + lc <= o
  BY Apart, SameKind
<1>4. CASE b = FALSE
  <2>1. a \in opens /\ i = a + lo  BY <1>4
  <2> HIDE DEF opens, closes, lo, lc
  <2>2. \A c \in closes : c + lc <= i => c < a  BY <1>1, <1>3, <2>1
  <2> QED BY <1>1, <1>2, <1>4, <2>1, <2>2
<1>5. CASE b = TRUE
  <2>1. a \in closes /\ i = a + lc  BY <1>5
  <2> HIDE DEF opens, closes, lo, lc
  <2>2. \A o \in opens : o + lo <= i => ~ (a < o)  BY <1>1, <1>3, <2>1
  <2>3. a + lc <= i  BY <1>1, <2>1
  <2> QED BY <1>2, <1>5, <2>1, <2>2, <2>3
<1> QED BY <1>4, <1>5

(* No tag with a meaning lies across a settled end.                        *)
LEMMA NoneAcross ==
  ASSUME NEW text \in Texts, NEW n \in Nat, Settled(text, n),
         NEW b \in BOOLEAN, NEW a \in Found(Tag(b), text), Meant(text, a, b),
         a <= n
  PROVE  a + Len(Tag(b)) - 1 <= n
<1>1. a \in Nat \ {0} /\ Len(Tag(b)) \in Nat /\ MayBe(Tag(b), text, a)
  BY FoundThere, TagTypes
<1> SUFFICES ASSUME n < a + Len(Tag(b)) - 1  PROVE FALSE
  BY <1>1
<1>2. a <= n + 1 /\ n + 1 < a + Len(Tag(b)) /\ n + 1 \in Nat  BY <1>1
<1>3. Thinking(text, n + 1) <=> b  BY <1>2, SameInTag DEF Meant
<1>4. Tag(Thinking(text, n + 1)) = Tag(b)  BY <1>3 DEF Tag
<1>5. ~ MayBe(Tag(b), text, a)
  <2>1. a \in 1..n /\ a + Len(Tag(b)) - 1 > n  BY <1>1
  <2> QED BY <1>4, <2>1 DEF Settled
<1> QED BY <1>1, <1>5

(* From a settled end up to the next tag that is waited for, all is text.  *)
LEMMA AllText ==
  ASSUME NEW text \in Texts, NEW n \in Nat, Settled(text, n),
         NEW b \in BOOLEAN, Thinking(text, n + 1) <=> b,
         NEW m \in Nat,
         \A a \in Found(Tag(b), text) : a <= m => a + Len(Tag(b)) <= n + 1
  PROVE  \A i \in (n + 1)..m : ~InTag(text, i) /\ (Thinking(text, i) <=> b)
<1>1. ASSUME NEW i \in (n + 1)..m  PROVE Thinking(text, i) <=> b
  <2>1. \A a \in Found(Tag(b), text) : a \in Nat /\ Len(Tag(b)) \in Nat
                                         /\ Len(Tag(b)) > 1
    BY FoundThere, TagTypes
  <2>2. \A a \in Found(Tag(b), text) :
          ~ (n + 1 < a + Len(Tag(b)) /\ a + Len(Tag(b)) <= i)
    BY <2>1
  <2>3. n + 1 \in Nat /\ i \in Nat /\ n + 1 <= i  OBVIOUS
  <2> QED BY <2>2, <2>3, Stays
<1>2. ASSUME NEW i \in (n + 1)..m, InTag(text, i)  PROVE FALSE
  <2>0. PICK c \in BOOLEAN :
          \E a \in Found(Tag(c), text) :
            Meant(text, a, c) /\ a <= i /\ i < a + Len(Tag(c))
    <3>1. i \in Nat  OBVIOUS
    <3> QED BY <1>2, <3>1, InTagIs
  <2>1. PICK a \in Found(Tag(c), text) :
          Meant(text, a, c) /\ a <= i /\ i < a + Len(Tag(c))
    BY <2>0
  <2>2. a \in Nat /\ Len(Tag(c)) \in Nat  BY FoundThere, TagTypes
  <2>3. ~ (a <= n)
    <3>1. a <= n => a + Len(Tag(c)) - 1 <= n  BY <2>1, NoneAcross
    <3> QED BY <2>1, <2>2, <3>1
  <2>4. a \in (n + 1)..m  BY <2>1, <2>2, <2>3
  <2>5. b = c  BY <1>1, <2>1, <2>4 DEF Meant
  <2>6. a + Len(Tag(b)) <= n + 1  BY <2>2, <2>4, <2>5
  <2> QED BY <2>1, <2>2, <2>5, <2>6
<1> QED BY <1>1, <1>2

(* The next tag that is waited for: it is no text, it turns the filter     *)
(* around, and the text is settled behind it.                              *)
LEMMA NextTag ==
  ASSUME NEW text \in Texts, NEW n \in Nat, Settled(text, n),
         NEW b \in BOOLEAN, Thinking(text, n + 1) <=> b,
         NEW a \in Found(Tag(b), text), a > n,
         \A other \in Found(Tag(b), text) : other > n => a <= other,
         NEW m \in Nat, m = a + Len(Tag(b)) - 1
  PROVE  /\ \A i \in (n + 1)..(a - 1) : ~InTag(text, i) /\ (Thinking(text, i) <=> b)
         /\ \A i \in a..m : InTag(text, i)
         /\ m <= Len(text) /\ m > n
         /\ Thinking(text, m + 1) <=> ~b
         /\ Settled(text, m)
<1>1. /\ a \in Nat \ {0} /\ Len(Tag(b)) \in Nat /\ Len(Tag(b)) > 1
      /\ Len(text) \in Nat /\ m <= Len(text) /\ MayBe(Tag(b), text, a)
      /\ m + 1 = a + Len(Tag(b)) /\ m > n /\ a - 1 \in Nat /\ a - 1 >= n
  <2>1. /\ a \in Nat \ {0} /\ a + Len(Tag(b)) - 1 <= Len(text)
        /\ MayBe(Tag(b), text, a)
    BY FoundThere
  <2>2. Len(Tag(b)) \in Nat /\ Len(Tag(b)) > 1 /\ Len(text) \in Nat
    BY TagTypes DEF Texts
  <2> QED BY <2>1, <2>2
<1>2. \A other \in Found(Tag(b), text) :
        other < a => other + Len(Tag(b)) <= n + 1
  <2> TAKE other \in Found(Tag(b), text)
  <2> HAVE other < a
  <2>1. other \in Nat \ {0} /\ MayBe(Tag(b), text, other)
    BY FoundThere
  <2>2. other \in 1..n  BY <1>1, <2>1
  <2>3. Tag(Thinking(text, n + 1)) = Tag(b)  BY DEF Tag
  <2>4. ~ (other + Len(Tag(b)) - 1 > n)  BY <2>1, <2>2, <2>3 DEF Settled
  <2> QED BY <1>1, <2>1, <2>4
<1>3. \A i \in (n + 1)..(a - 1) : ~InTag(text, i) /\ (Thinking(text, i) <=> b)
  <2>1. \A other \in Found(Tag(b), text) :
          other <= a - 1 => other + Len(Tag(b)) <= n + 1
    <3>1. \A other \in Found(Tag(b), text) : other \in Nat  BY FoundThere
    <3> QED BY <1>1, <1>2, <3>1
  <2> QED BY <1>1, <2>1, AllText
<1>4. Thinking(text, a) <=> b
  <2>1. \A other \in Found(Tag(b), text) :
          ~ (n + 1 < other + Len(Tag(b)) /\ other + Len(Tag(b)) <= a)
    <3> TAKE other \in Found(Tag(b), text)
    <3>1. other \in Nat  BY FoundThere
    <3>2. other < a => other + Len(Tag(b)) <= n + 1  BY <1>2
    <3> QED BY <1>1, <3>1, <3>2
  <2>2. n + 1 \in Nat /\ a \in Nat /\ n + 1 <= a  BY <1>1
  <2> QED BY <2>1, <2>2, Stays
<1>5. \A i \in a..m : InTag(text, i)
  <2> TAKE i \in a..m
  <2>1. Meant(text, a, b)  BY <1>4 DEF Meant
  <2>2. i \in Nat /\ a <= i /\ i < a + Len(Tag(b))  BY <1>1
  <2> QED BY <2>1, <2>2, InTagIs
<1>6. Thinking(text, m + 1) <=> ~b
  <2>1. m + 1 \in Nat /\ m + 1 = a + Len(Tag(b))  BY <1>1
  <2> QED BY <2>1, Flips
<1>7. Settled(text, m)
  <2>1. Tag(Thinking(text, m + 1)) = Tag(~b)  BY <1>6 DEF Tag
  <2>2. ASSUME NEW i \in 1..m, i + Len(Tag(~b)) - 1 > m, MayBe(Tag(~b), text, i)
        PROVE  FALSE
    <3>1. Len(Tag(~b)) \in Nat /\ Len(Tag(~b)) > 1 /\ (~b) \in BOOLEAN
      BY TagTypes
    <3>2. i # a  BY <2>2, OneKind
    <3>3. ~ (i < a)
      <4>1. a <= i + Len(Tag(~b)) - 1 /\ a <= Len(text) /\ a \in Nat
            /\ i \in Nat \ {0}
        BY <1>1, <2>2, <3>1
      <4> QED BY <1>1, <2>2, <3>1, <4>1, NoOverlap
    <3>4. ~ (a < i)
      <4>1. i <= a + Len(Tag(b)) - 1 /\ i <= Len(text) /\ i \in Nat
        BY <1>1, <2>2
      <4> QED BY <1>1, <2>2, <3>1, <4>1, NoOverlap
    <3> QED BY <1>1, <3>2, <3>3, <3>4
  <2> QED BY <2>1, <2>2 DEF Settled
<1> QED BY <1>1, <1>3, <1>5, <1>6, <1>7

(* No further tag that is waited for, only the beginning of one at the     *)
(* end, and none that begins before that.                                  *)
Held(text, n, tag, m) ==
  /\ m \in n..Len(text) /\ Len(text) - m < Len(tag)
  /\ MayBe(tag, text, m + 1)
  /\ \A i \in (n + 1)..m : i + Len(tag) - 1 > Len(text) => ~ MayBe(tag, text, i)

LEMMA NoFurtherTag ==
  ASSUME NEW text \in Texts, NEW n \in Nat, Settled(text, n),
         NEW b \in BOOLEAN, Thinking(text, n + 1) <=> b,
         \A a \in Found(Tag(b), text) : a <= n,
         NEW m \in Nat, Held(text, n, Tag(b), m)
  PROVE  /\ \A i \in (n + 1)..Len(text) :
              ~InTag(text, i) /\ (Thinking(text, i) <=> b)
         /\ \A i \in (n + 1)..(Len(text) + 1) : Thinking(text, i) <=> b
         /\ Settled(text, m)
<1>1. /\ Len(text) \in Nat /\ Len(Tag(b)) \in Nat /\ Len(Tag(b)) > 1
      /\ n <= m /\ m <= Len(text)
  BY TagTypes DEF Texts, Held
<1>2. \A a \in Found(Tag(b), text) : a + Len(Tag(b)) <= n + 1
  <2> TAKE a \in Found(Tag(b), text)
  <2>1. a \in 1..n /\ MayBe(Tag(b), text, a)  BY <1>1, FoundThere
  <2>2. Tag(Thinking(text, n + 1)) = Tag(b)  BY DEF Tag
  <2>3. ~ (a + Len(Tag(b)) - 1 > n)  BY <2>1, <2>2 DEF Settled
  <2> QED BY <1>1, <2>1, <2>3
<1>3. \A i \in (n + 1)..Len(text) : ~InTag(text, i) /\ (Thinking(text, i) <=> b)
  BY <1>1, <1>2, AllText
<1>4. \A i \in (n + 1)..(Len(text) + 1) : Thinking(text, i) <=> b
  <2> TAKE i \in (n + 1)..(Len(text) + 1)
  <2>1. \A a \in Found(Tag(b), text) :
          ~ (n + 1 < a + Len(Tag(b)) /\ a + Len(Tag(b)) <= i)
    <3>1. \A a \in Found(Tag(b), text) : a \in Nat  BY FoundThere
    <3> QED BY <1>1, <1>2, <3>1
  <2>2. n + 1 \in Nat /\ i \in Nat /\ n + 1 <= i  BY <1>1
  <2> QED BY <2>1, <2>2, Stays
<1>5. Settled(text, m)
  <2>1. m + 1 \in (n + 1)..(Len(text) + 1)  BY <1>1
  <2>2. Tag(Thinking(text, m + 1)) = Tag(b)  BY <1>4, <2>1 DEF Tag
  <2>3. ASSUME NEW i \in 1..m, i + Len(Tag(b)) - 1 > m, MayBe(Tag(b), text, i)
        PROVE  FALSE
    <3>1. CASE i <= n
      <4>1. i \in 1..n /\ i + Len(Tag(b)) - 1 > n  BY <1>1, <2>3, <3>1
      <4>2. Tag(Thinking(text, n + 1)) = Tag(b)  BY DEF Tag
      <4> QED BY <2>3, <4>1, <4>2 DEF Settled
    <3>2. CASE i > n
      <4>1. i \in (n + 1)..m /\ i \in Nat \ {0}  BY <1>1, <3>2
      <4>2. ~ (i + Len(Tag(b)) - 1 > Len(text))  BY <2>3, <4>1 DEF Held
      <4>3. i \in Found(Tag(b), text)
        BY <1>1, <2>3, <4>1, <4>2, FoundThere
      <4> QED BY <1>1, <3>2, <4>1, <4>3
    <3> QED BY <1>1, <3>1, <3>2
  <2> QED BY <2>2, <2>3 DEF Settled
<1> QED BY <1>3, <1>4, <1>5

(* More text behind it leaves a text's meaning as it is.                   *)
Extends(longer, text) ==
  Len(text) <= Len(longer) /\ \A i \in 1..Len(text) : longer[i] = text[i]

LEMMA FoundEarlier ==
  ASSUME NEW text \in Texts, NEW longer \in Texts, Extends(longer, text),
         NEW b \in BOOLEAN, NEW a
  PROVE  a \in Found(Tag(b), text)
           <=> a \in Found(Tag(b), longer) /\ a + Len(Tag(b)) - 1 <= Len(text)
<1>1. /\ Len(text) \in Nat /\ Len(longer) \in Nat /\ Len(Tag(b)) \in Nat
      /\ Len(text) <= Len(longer)
  BY TagTypes DEF Texts, Extends
<1>2. a \in Nat \ {0} /\ a + Len(Tag(b)) - 1 <= Len(text)
        => (MayBe(Tag(b), text, a) <=> MayBe(Tag(b), longer, a))
  <2> HAVE a \in Nat \ {0} /\ a + Len(Tag(b)) - 1 <= Len(text)
  <2>1. \A k \in 1..Len(Tag(b)) :
          /\ a + k - 1 \in 1..Len(text)
          /\ a + k - 1 <= Len(text) /\ a + k - 1 <= Len(longer)
    BY <1>1
  <2>2. \A k \in 1..Len(Tag(b)) : longer[a + k - 1] = text[a + k - 1]
    BY <2>1 DEF Extends
  <2> QED BY <2>1, <2>2 DEF MayBe
<1>3. a \in Nat \ {0} /\ a + Len(Tag(b)) - 1 <= Len(text)
        => a + Len(Tag(b)) - 1 <= Len(longer)
  BY <1>1
<1>4. /\ a \in Found(Tag(b), text)
           <=> a \in Nat \ {0} /\ a + Len(Tag(b)) - 1 <= Len(text)
                 /\ MayBe(Tag(b), text, a)
      /\ a \in Found(Tag(b), longer)
           <=> a \in Nat \ {0} /\ a + Len(Tag(b)) - 1 <= Len(longer)
                 /\ MayBe(Tag(b), longer, a)
  BY FoundThere
<1> QED BY <1>2, <1>3, <1>4

LEMMA ThinkingEarlier ==
  ASSUME NEW text \in Texts, NEW longer \in Texts, Extends(longer, text),
         NEW i \in Nat, i <= Len(text) + 1
  PROVE  Thinking(longer, i) <=> Thinking(text, i)
<1>1. ASSUME NEW b \in BOOLEAN, NEW a
      PROVE  (a \in Found(Tag(b), longer) /\ a + Len(Tag(b)) <= i)
               <=> (a \in Found(Tag(b), text) /\ a + Len(Tag(b)) <= i)
  <2>1. a \in Found(Tag(b), longer) =>
          (a + Len(Tag(b)) <= i => a + Len(Tag(b)) - 1 <= Len(text))
    <3>1. /\ a \in Found(Tag(b), longer) => a \in Nat
          /\ Len(Tag(b)) \in Nat /\ Len(text) \in Nat
      BY FoundThere, TagTypes DEF Texts
    <3> QED BY <3>1
  <2> QED BY <2>1, FoundEarlier
<1>2. \A o : (o \in Found(Tag(FALSE), longer) /\ o + Len(Tag(FALSE)) <= i)
               <=> (o \in Found(Tag(FALSE), text) /\ o + Len(Tag(FALSE)) <= i)
  BY <1>1
<1>3. \A c : (c \in Found(Tag(TRUE), longer) /\ c + Len(Tag(TRUE)) <= i)
               <=> (c \in Found(Tag(TRUE), text) /\ c + Len(Tag(TRUE)) <= i)
  BY <1>1
<1>4. Thinking(longer, i) <=>
        \E o : /\ o \in Found(Tag(FALSE), longer) /\ o + Len(Tag(FALSE)) <= i
               /\ \A c : c \in Found(Tag(TRUE), longer) /\ c + Len(Tag(TRUE)) <= i
                           => c < o
  BY ThinkingIs
<1>5. Thinking(text, i) <=>
        \E o : /\ o \in Found(Tag(FALSE), text) /\ o + Len(Tag(FALSE)) <= i
               /\ \A c : c \in Found(Tag(TRUE), text) /\ c + Len(Tag(TRUE)) <= i
                           => c < o
  BY ThinkingIs
<1> QED BY <1>2, <1>3, <1>4, <1>5, Zenon

LEMMA SettledLater ==
  ASSUME NEW text \in Texts, NEW longer \in Texts, Extends(longer, text),
         NEW n \in 0..Len(text), Settled(text, n)
  PROVE  Settled(longer, n)
<1>1. /\ Len(text) \in Nat /\ Len(longer) \in Nat /\ Len(text) <= Len(longer)
      /\ n + 1 \in Nat /\ n + 1 <= Len(text) + 1
  BY DEF Texts, Extends
<1>2. Thinking(longer, n + 1) <=> Thinking(text, n + 1)
  BY <1>1, ThinkingEarlier
<1> DEFINE tag == Tag(Thinking(text, n + 1))
<1>3. Tag(Thinking(longer, n + 1)) = tag  BY <1>2 DEF Tag
<1>4. Len(tag) \in Nat  BY TagTypes
<1> HIDE DEF tag
<1>5. ASSUME NEW i \in 1..n, MayBe(tag, longer, i)  PROVE MayBe(tag, text, i)
  <2> SUFFICES ASSUME NEW k \in 1..Len(tag), i + k - 1 <= Len(text)
               PROVE  text[i + k - 1] = tag[k]
    BY DEF MayBe
  <2>1. i + k - 1 \in 1..Len(text) /\ i + k - 1 <= Len(longer)
    BY <1>1, <1>4
  <2>2. longer[i + k - 1] = tag[k]  BY <1>5, <2>1 DEF MayBe
  <2> QED BY <2>1, <2>2 DEF Extends
<1>6. \A i \in 1..n : i + Len(tag) - 1 > n => ~ MayBe(tag, text, i)
  BY DEF Settled, tag
<1> QED BY <1>3, <1>5, <1>6 DEF Settled

LEMMA InTagLater ==
  ASSUME NEW text \in Texts, NEW longer \in Texts, Extends(longer, text),
         NEW i \in 1..Len(text), InTag(text, i)
  PROVE  InTag(longer, i)
<1>1. PICK b \in BOOLEAN :
        \E a \in Found(Tag(b), text) :
          Meant(text, a, b) /\ a <= i /\ i < a + Len(Tag(b))
  <2>1. i \in Nat  OBVIOUS
  <2> QED BY <2>1, InTagIs
<1>2. PICK a \in Found(Tag(b), text) :
        Meant(text, a, b) /\ a <= i /\ i < a + Len(Tag(b))
  BY <1>1
<1>3. a \in Found(Tag(b), longer)  BY FoundEarlier
<1>4. Thinking(longer, a) <=> b
  <2>1. a \in Nat /\ a <= Len(text) + 1 /\ Len(text) \in Nat
    BY <1>2, FoundThere DEF Texts
  <2> QED BY <1>2, <2>1, ThinkingEarlier DEF Meant
<1>5. Meant(longer, a, b)  BY <1>3, <1>4 DEF Meant
<1>6. i \in Nat  OBVIOUS
<1> QED BY <1>2, <1>3, <1>5, <1>6, InTagIs

(* If the text was settled where it ended, all its letters are taken for   *)
(* what they were.                                                         *)
LEMMA InTagEarlier ==
  ASSUME NEW text \in Texts, NEW longer \in Texts, Extends(longer, text),
         Settled(longer, Len(text)), NEW i \in 1..Len(text)
  PROVE  InTag(longer, i) <=> InTag(text, i)
<1>1. ASSUME InTag(longer, i)  PROVE InTag(text, i)
  <2>0. i \in Nat /\ Len(text) \in Nat  BY DEF Texts
  <2>1. PICK b \in BOOLEAN :
          \E a \in Found(Tag(b), longer) :
            Meant(longer, a, b) /\ a <= i /\ i < a + Len(Tag(b))
    BY <1>1, <2>0, InTagIs
  <2>2. PICK a \in Found(Tag(b), longer) :
          Meant(longer, a, b) /\ a <= i /\ i < a + Len(Tag(b))
    BY <2>1
  <2>3. a \in Nat /\ a <= Len(text)  BY <2>0, <2>2, FoundThere
  <2>4. a + Len(Tag(b)) - 1 <= Len(text)
    BY <2>0, <2>2, <2>3, NoneAcross
  <2>5. a \in Found(Tag(b), text)  BY <2>4, FoundEarlier
  <2>6. Thinking(text, a) <=> b
    <3>1. a <= Len(text) + 1  BY <2>0, <2>3
    <3> QED BY <2>2, <2>3, <3>1, ThinkingEarlier DEF Meant
  <2>7. Meant(text, a, b)  BY <2>5, <2>6 DEF Meant
  <2> QED BY <2>0, <2>2, <2>5, <2>7, InTagIs
<1> QED BY <1>1, InTagLater

-----------------------------------------------------------------------------
(* Letters of a text.                                                      *)

LEMMA LettersAre ==
  ASSUME NEW text \in Texts, NEW positions \in SUBSET (1..Len(text))
  PROVE  /\ positions \in SUBSET Nat /\ IsFiniteSet(positions)
         /\ Cardinality(positions) \in Nat
         /\ Letters(text, positions) \in Texts
         /\ Len(Letters(text, positions)) = Cardinality(positions)
         /\ \A i \in 1..Cardinality(positions) :
              /\ InOrder(positions)[i] \in positions
              /\ Letters(text, positions)[i] = text[InOrder(positions)[i]]
<1>1. Len(text) \in Nat  BY DEF Texts
<1>2. IsFiniteSet(1..Len(text)) /\ positions \in SUBSET Nat
  BY <1>1, FS_Interval
<1>3. IsFiniteSet(positions)  BY <1>2, FS_Subset
<1>4. /\ Cardinality(positions) \in Nat
      /\ InOrder(positions) \in [1..Cardinality(positions) -> positions]
  BY <1>2, <1>3, Enumeration
<1> DEFINE letters ==
      [i \in 1..Cardinality(positions) |-> text[InOrder(positions)[i]]]
<1>5. Letters(text, positions) = letters  BY DEF Letters
<1>6. letters \in [1..Cardinality(positions) -> Letter]
  <2>1. \A j \in 1..Len(text) : text[j] \in Letter  BY DEF Texts
  <2> QED BY <1>4, <2>1
<1>7. \A i \in 1..Cardinality(positions) : letters[i] = text[InOrder(positions)[i]]
  OBVIOUS
<1> HIDE DEF letters
<1>8. letters \in Texts /\ Len(letters) = Cardinality(positions)
  BY <1>4, <1>6, FunctionIsSeq DEF Texts
<1> QED BY <1>2, <1>3, <1>4, <1>5, <1>7, <1>8

LEMMA LettersJoin ==
  ASSUME NEW text \in Texts,
         NEW S \in SUBSET (1..Len(text)), NEW T \in SUBSET (1..Len(text)),
         \A s \in S, t \in T : s < t
  PROVE  Letters(text, S \cup T) = Letters(text, S) \o Letters(text, T)
<1> DEFINE U == S \cup T
           m == Cardinality(S)
           n == Cardinality(T)
           first == Letters(text, S)
           second == Letters(text, T)
           both == Letters(text, U)
<1>1. /\ S \in SUBSET Nat /\ IsFiniteSet(S) /\ T \in SUBSET Nat /\ IsFiniteSet(T)
      /\ m \in Nat /\ n \in Nat /\ U \in SUBSET (1..Len(text))
  BY LettersAre
<1>2. /\ Cardinality(U) = m + n
      /\ \A i \in 1..m : InOrder(U)[i] = InOrder(S)[i]
      /\ \A i \in 1..n : InOrder(U)[m + i] = InOrder(T)[i]
  BY <1>1, ListsJoin
<1>3. /\ first \in Texts /\ Len(first) = m
      /\ \A i \in 1..m : first[i] = text[InOrder(S)[i]]
  BY LettersAre
<1>4. /\ second \in Texts /\ Len(second) = n
      /\ \A i \in 1..n : second[i] = text[InOrder(T)[i]]
  BY LettersAre
<1> HIDE DEF U
<1>5. /\ both \in Texts /\ Len(both) = Cardinality(U)
      /\ \A i \in 1..Cardinality(U) : both[i] = text[InOrder(U)[i]]
  BY <1>1, LettersAre
<1> HIDE DEF m, n, first, second, both
<1>6. /\ first \o second \in Texts /\ Len(first \o second) = m + n
      /\ \A i \in 1..m : (first \o second)[i] = first[i]
      /\ \A i \in 1..n : (first \o second)[m + i] = second[i]
  <2>1. first \in Seq(Letter) /\ second \in Seq(Letter)  BY <1>3, <1>4 DEF Texts
  <2>2. /\ first \o second \in Seq(Letter)
        /\ Len(first \o second) = Len(first) + Len(second)
        /\ \A i \in 1..Len(first) : (first \o second)[i] = first[i]
        /\ \A i \in 1..Len(second) : (first \o second)[Len(first) + i] = second[i]
    BY <2>1, ConcatFacts
  <2> QED BY <1>3, <1>4, <2>2 DEF Texts
<1>7. ASSUME NEW i \in 1..(m + n)  PROVE both[i] = (first \o second)[i]
  <2>1. both[i] = text[InOrder(U)[i]]  BY <1>2, <1>5
  <2>2. CASE i \in 1..m
    <3>1. InOrder(U)[i] = InOrder(S)[i]  BY <1>2, <2>2
    <3>2. (first \o second)[i] = text[InOrder(S)[i]]  BY <1>3, <1>6, <2>2
    <3> QED BY <2>1, <3>1, <3>2
  <2>3. CASE i \notin 1..m
    <3>1. PICK j \in 1..n : i = m + j
      <4>1. i - m \in 1..n /\ i = m + (i - m)  BY <1>1, <2>3
      <4> QED BY <4>1
    <3>2. InOrder(U)[i] = InOrder(T)[j]  BY <1>2, <3>1
    <3>3. (first \o second)[i] = text[InOrder(T)[j]]  BY <1>4, <1>6, <3>1
    <3> QED BY <2>1, <3>2, <3>3
  <2> QED BY <2>2, <2>3
<1>8. both = first \o second  BY <1>2, <1>5, <1>6, <1>7, SameTexts
<1> QED BY <1>8 DEF both, first, second, U

LEMMA LettersRun ==
  ASSUME NEW text \in Texts, NEW a \in Nat, NEW b \in a..Len(text)
  PROVE  Letters(text, (a + 1)..b) = SubSeq(text, a + 1, b)
<1> DEFINE n == b - a
           run == SubSeq(text, a + 1, b)
           S == (a + 1)..b
<1>1. Len(text) \in Nat /\ n \in Nat /\ b = a + n /\ b <= Len(text)
  BY DEF Texts
<1>2. S \in SUBSET (1..Len(text))  BY <1>1
<1>3. Cardinality(S) = n /\ \A i \in 1..n : InOrder(S)[i] = a + i
  BY <1>1, IntervalInOrder
<1>4. /\ run \in Texts /\ Len(run) = n
      /\ \A i \in 1..n : run[i] = text[a + i]
  <2>1. a + n <= Len(text)  BY <1>1
  <2>2. run = SubSeq(text, a + 1, a + n)  BY <1>1
  <2> HIDE DEF n, run
  <2> QED BY <1>1, <2>1, <2>2, RunOfText
<1> HIDE DEF S, run, n
<1>5. \A i \in 1..n : Letters(text, S)[i] = text[a + i]
  BY <1>2, <1>3, LettersAre
<1>6. Letters(text, S) \in Texts /\ Len(Letters(text, S)) = n
  BY <1>2, <1>3, LettersAre
<1>7. Letters(text, S) = run  BY <1>4, <1>5, <1>6, SameTexts
<1> QED BY <1>7 DEF S, run

LEMMA LettersEarlier ==
  ASSUME NEW text \in Texts, NEW longer \in Texts, Extends(longer, text),
         NEW positions \in SUBSET (1..Len(text))
  PROVE  Letters(longer, positions) = Letters(text, positions)
<1>1. positions \in SUBSET (1..Len(longer))  BY DEF Extends, Texts
<1>2. \A i \in 1..Cardinality(positions) :
        InOrder(positions)[i] \in 1..Len(text)
  BY LettersAre
<1>3. \A i \in 1..Cardinality(positions) :
        Letters(longer, positions)[i] = Letters(text, positions)[i]
  BY <1>1, <1>2, LettersAre DEF Extends
<1> QED BY <1>1, <1>3, LettersAre, SameTexts

-----------------------------------------------------------------------------
(* What one call of Feed() does.                                           *)

LEMMA FirstFound ==
  ASSUME NEW S \in SUBSET Nat, S # {}
  PROVE  FirstIn(S) \in S /\ \A j \in S : FirstIn(S) <= j
<1>1. PICK k \in S : \A m \in S : ~ (m < k)  BY LeastMember
<1>2. \A m \in S : k <= m  BY <1>1
<1> QED BY <1>2 DEF FirstIn

LEMMA Greatest ==
  ASSUME NEW S \in SUBSET Nat, S # {}, NEW top \in Nat,
         \A s \in S : s <= top
  PROVE  \E n \in S : \A m \in S : m <= n
<1> DEFINE gaps == {k \in Nat : \E s \in S : k + s = top}
<1>1. \A s \in S : s \in Nat /\ top - s \in Nat /\ (top - s) + s = top
  OBVIOUS
<1>2. gaps \in SUBSET Nat /\ gaps # {}  BY <1>1
<1>3. PICK gap \in gaps : \A other \in gaps : ~ (other < gap)
  BY <1>2, LeastMember
<1>4. PICK n \in S : gap + n = top  BY <1>3
<1>5. ASSUME NEW m \in S PROVE m <= n
  <2>1. top - m \in gaps  BY <1>1
  <2>2. ~ (top - m < gap)  BY <1>3, <2>1
  <2>3. gap \in Nat /\ n \in Nat /\ m \in Nat  BY <1>2, <1>3
  <2> QED BY <1>4, <2>2, <2>3
<1> QED BY <1>5

(* The longest held back end is the one that begins first.                 *)
LEMMA LongestSuffix ==
  ASSUME NEW text \in Texts, NEW tag \in Texts, Len(tag) > 1,
         NEW p, p = partialSuffix(text, tag)
  PROVE  /\ p \in 0..(Len(tag) - 1) /\ p <= Len(text)
         /\ MayBe(tag, text, Len(text) - p + 1)
         /\ \A i \in 1..Len(text) :
              i + Len(tag) - 1 > Len(text) /\ MayBe(tag, text, i)
                => Len(text) - i + 1 <= p
<1> DEFINE L == Len(text)
           T == Len(tag)
           ends == {n \in 1..(T - 1) :
                      n <= L /\ SubSeq(text, L - n + 1, L) = SubSeq(tag, 1, n)}
<1>1. L \in Nat /\ T \in Nat /\ T > 1  BY DEF Texts
<1>2. p = IF ends = {} THEN 0 ELSE CHOOSE n \in ends : \A m \in ends : m <= n
  BY DEF partialSuffix
<1>3. ASSUME NEW n \in 1..(T - 1), n <= L
      PROVE  n \in ends <=> MayBe(tag, text, L - n + 1)
  <2> DEFINE end == SubSeq(text, L - n + 1, L)
             start == SubSeq(tag, 1, n)
  <2>1. /\ end \in Texts /\ Len(end) = n
        /\ \A k \in 1..n : end[k] = text[L - n + k]
    <3> DEFINE before == L - n
    <3>1. /\ before \in Nat /\ n \in Nat /\ before + n <= Len(text)
          /\ before + n = L
      BY <1>1, <1>3
    <3>2. end = SubSeq(text, before + 1, before + n)  BY <3>1
    <3> HIDE DEF before, end
    <3>3. /\ end \in Texts /\ Len(end) = n
          /\ \A k \in 1..n : end[k] = text[before + k]
      BY <3>1, <3>2, RunOfText
    <3> QED BY <3>3 DEF before
  <2>2. /\ start \in Texts /\ Len(start) = n
        /\ \A k \in 1..n : start[k] = tag[k]
    <3>1. n \in Nat /\ n <= Len(tag)  BY <1>1, <1>3
    <3> QED BY <3>1, StartFacts
  <2>3. n \in ends <=> end = start  BY <1>3
  <2> HIDE DEF ends, end, start
  <2>4. end = start <=> \A k \in 1..n : text[L - n + k] = tag[k]
    <3>1. end = start => \A k \in 1..n : text[L - n + k] = tag[k]
      BY <2>1, <2>2
    <3>2. (\A k \in 1..n : text[L - n + k] = tag[k]) => end = start
      BY <2>1, <2>2, SameTexts
    <3> QED BY <3>1, <3>2
  <2>5. MayBe(tag, text, L - n + 1)
          <=> \A k \in 1..n : text[L - n + k] = tag[k]
    <3>1. \A k \in 1..T : /\ (L - n + 1) + k - 1 = L - n + k
                          /\ (L - n + k <= L <=> k \in 1..n)
      BY <1>1, <1>3
    <3>2. \A k \in 1..n : k \in 1..T  BY <1>1, <1>3
    <3> HIDE DEF L
    <3>3. MayBe(tag, text, L - n + 1)
            <=> \A k \in 1..T : L - n + k <= L => text[L - n + k] = tag[k]
      <4>1. Len(text) = L /\ Len(tag) = T  BY DEF L
      <4> HIDE DEF T
      <4> QED BY <3>1, <4>1 DEF MayBe
    <3> QED BY <3>1, <3>2, <3>3
  <2> QED BY <2>3, <2>4, <2>5
<1>4. /\ p \in 0..(T - 1) /\ p <= L
      /\ MayBe(tag, text, L - p + 1)
      /\ \A n \in ends : n <= p
  <2>1. CASE ends = {}
    <3>1. p = 0  BY <1>2, <2>1
    <3>2. MayBe(tag, text, L - 0 + 1)
      <4>1. \A k \in 1..T : ~ ((L - 0 + 1) + k - 1 <= L)  BY <1>1
      <4> QED BY <4>1 DEF MayBe
    <3>3. \A n \in ends : n <= p
      <4> HIDE DEF ends
      <4> QED BY <2>1
    <3> HIDE DEF ends, T, L
    <3> QED BY <1>1, <3>1, <3>2, <3>3
  <2>2. CASE ends # {}
    <3>1. \A n \in ends : n \in Nat /\ n <= T - 1 /\ n <= L
      BY <1>1
    <3>4. PICK n \in ends : \A m \in ends : m <= n
      <4> HIDE DEF ends, T
      <4> QED BY <1>1, <2>2, <3>1, Greatest
    <3>5. p \in ends /\ \A m \in ends : m <= p
      <4> HIDE DEF ends
      <4> QED BY <1>2, <2>2, <3>4
    <3>6. p \in 1..(T - 1) /\ p <= L  BY <3>5
    <3>7. MayBe(tag, text, L - p + 1)  BY <1>3, <3>5, <3>6
    <3>8. p \in 0..(T - 1)
      <4> HIDE DEF T
      <4> QED BY <1>1, <3>6
    <3> QED BY <3>5, <3>6, <3>7, <3>8
  <2> QED BY <2>1, <2>2
<1>5. ASSUME NEW i \in 1..L, i + T - 1 > L, MayBe(tag, text, i)
      PROVE  L - i + 1 <= p
  <2> DEFINE n == L - i + 1
  <2>1. n \in 1..(T - 1) /\ n <= L /\ L - n + 1 = i  BY <1>1, <1>5
  <2> HIDE DEF n, ends
  <2>2. n \in ends  BY <1>3, <1>5, <2>1
  <2> QED BY <1>4, <2>2 DEF n
<1> QED BY <1>4, <1>5

(* The rest of a text: what stands in it stands in the text.               *)
LEMMA RestOfText ==
  ASSUME NEW text \in Texts, NEW n \in 0..Len(text), NEW rest,
         rest = After(text, n)
  PROVE  /\ rest \in Texts /\ Len(rest) = Len(text) - n
         /\ \A i \in 1..Len(rest) : rest[i] = text[n + i]
         /\ \A b \in BOOLEAN : \A i \in Nat \ {0} :
              /\ MayBe(Tag(b), rest, i) <=> MayBe(Tag(b), text, n + i)
              /\ i \in Found(Tag(b), rest) <=> n + i \in Found(Tag(b), text)
<1>1. Len(text) \in Nat /\ n \in Nat /\ n <= Len(text)  BY DEF Texts
<1>2. /\ rest \in Texts /\ Len(rest) = Len(text) - n
      /\ \A i \in 1..Len(rest) : rest[i] = text[n + i]
  BY RestFacts
<1>3. ASSUME NEW b \in BOOLEAN, NEW i \in Nat \ {0}
      PROVE  /\ MayBe(Tag(b), rest, i) <=> MayBe(Tag(b), text, n + i)
             /\ i \in Found(Tag(b), rest) <=> n + i \in Found(Tag(b), text)
  <2> DEFINE tag == Tag(b)
  <2>1. Len(tag) \in Nat  BY TagTypes
  <2>2. ASSUME NEW k \in 1..Len(tag)
        PROVE  /\ i + k - 1 <= Len(rest) <=> n + i + k - 1 <= Len(text)
               /\ i + k - 1 <= Len(rest) => rest[i + k - 1] = text[n + i + k - 1]
    <3> HIDE DEF tag
    <3>1. i + k - 1 <= Len(rest) <=> n + i + k - 1 <= Len(text)
      BY <1>1, <1>2, <2>1
    <3>2. n + (i + k - 1) = n + i + k - 1 /\ i + k - 1 \in Nat \ {0}
      BY <1>1, <2>1
    <3>3. i + k - 1 <= Len(rest) => rest[i + k - 1] = text[n + (i + k - 1)]
      BY <1>2, <3>2
    <3> QED BY <3>1, <3>2, <3>3
  <2>3. n + i \in Nat \ {0}
        /\ (i + Len(tag) - 1 <= Len(rest) <=> n + i + Len(tag) - 1 <= Len(text))
    <3> HIDE DEF tag
    <3> QED BY <1>1, <1>2, <2>1
  <2> HIDE DEF tag
  <2>4. MayBe(tag, rest, i) <=> MayBe(tag, text, n + i)
    BY <2>2 DEF MayBe
  <2> QED BY <1>2, <2>3, <2>4, FoundThere DEF tag
<1> QED BY <1>2, <1>3

-----------------------------------------------------------------------------
(* Feed() itself: a function, for each turn of the loop leaves less text.  *)

Loops == [inside : BOOLEAN, text : Texts]   \* FeedState

Outs == [content : Texts, reasoning : Texts, buffer : Texts, inside : BOOLEAN]

Tags(f) == Found(Tag(f.inside), f.text)

Cut(f) == IF Tags(f) = {}
            THEN Len(f.text) - partialSuffix(f.text, Tag(f.inside))
            ELSE FirstIn(Tags(f)) - 1

Remains(f) == [content |-> <<>>, reasoning |-> <<>>,
               buffer |-> After(f.text, Cut(f)), inside |-> f.inside]

Onward(f) ==
  [inside |-> ~f.inside, text |-> After(f.text, Cut(f) + Len(Tag(f.inside)))]

With(f, rest) ==
  IF f.inside THEN [rest EXCEPT !.reasoning = Upto(f.text, Cut(f)) \o @]
              ELSE [rest EXCEPT !.content = Upto(f.text, Cut(f)) \o @]

LEMMA CutFacts ==
  ASSUME NEW f \in Loops, NEW n, n = Len(Tag(f.inside))
  PROVE  /\ Len(f.text) \in Nat /\ n \in Nat /\ n > 1
         /\ Cut(f) \in 0..Len(f.text)
         /\ Tags(f) # {} => /\ Cut(f) + 1 \in Tags(f)
                            /\ \A a \in Tags(f) : Cut(f) + 1 <= a
                            /\ Cut(f) + n \in 0..Len(f.text)
         /\ Tags(f) = {} =>
              /\ Len(f.text) - Cut(f) < n
              /\ MayBe(Tag(f.inside), f.text, Cut(f) + 1)
              /\ \A i \in 1..Len(f.text) :
                   i + n - 1 > Len(f.text) /\ MayBe(Tag(f.inside), f.text, i)
                     => Cut(f) + 1 <= i
<1> DEFINE tag == Tag(f.inside)
           text == f.text
           m == Len(f.text)
<1>1. /\ f.inside \in BOOLEAN /\ text \in Texts /\ tag \in Texts
      /\ m \in Nat /\ n \in Nat /\ n > 1 /\ n = Len(tag)
  BY TagTypes DEF Loops, Texts
<1>2. CASE Tags(f) # {}
  <2> DEFINE a == FirstIn(Tags(f))
  <2>1. Tags(f) \in SUBSET (Nat \ {0})  BY <1>1, FoundThere DEF Tags
  <2>2. a \in Tags(f) /\ \A j \in Tags(f) : a <= j  BY <1>2, <2>1, FirstFound
  <2>3. Cut(f) = a - 1  BY <1>2 DEF Cut
  <2>4. a \in Nat \ {0} /\ a + n - 1 <= m
    BY <1>1, <2>1, <2>2, FoundThere DEF Tags
  <2> HIDE DEF a, m
  <2>5. Cut(f) + 1 = a /\ Cut(f) \in 0..m /\ Cut(f) + n \in 0..m
    BY <1>1, <2>3, <2>4
  <2> QED BY <1>1, <1>2, <2>2, <2>5 DEF m
<1>3. CASE Tags(f) = {}
  <2> DEFINE p == partialSuffix(text, tag)
  <2>1. Cut(f) = m - p  BY <1>3 DEF Cut
  <2> HIDE DEF p, m, tag, text
  <2>2. /\ p \in 0..(n - 1) /\ p <= m
        /\ MayBe(tag, text, m - p + 1)
        /\ \A i \in 1..m :
             i + n - 1 > m /\ MayBe(tag, text, i) => m - i + 1 <= p
    BY <1>1, LongestSuffix DEF p, m, text
  <2>3. Cut(f) \in 0..m /\ m - Cut(f) < n /\ Cut(f) + 1 = m - p + 1
    BY <1>1, <2>1, <2>2
  <2>4. ASSUME NEW i \in 1..m, i + n - 1 > m, MayBe(tag, text, i)
        PROVE  Cut(f) + 1 <= i
    <3>1. m - i + 1 <= p  BY <2>2, <2>4
    <3>2. p \in Nat  BY <1>1, <2>2
    <3> QED BY <1>1, <2>1, <3>1, <3>2
  <2> QED BY <1>1, <1>3, <2>2, <2>3, <2>4 DEF m, tag, text
<1> QED BY <1>2, <1>3

LEMMA Pieces ==
  ASSUME NEW text \in Texts, NEW n \in 0..Len(text)
  PROVE  Upto(text, n) \in Texts /\ After(text, n) \in Texts
BY UptoFacts, RestFacts

LEMMA TurnTypes ==
  ASSUME NEW f \in Loops
  PROVE  /\ Remains(f) \in Outs
         /\ Tags(f) # {} => /\ Onward(f) \in Loops
                            /\ Len(Onward(f).text) < Len(f.text)
         /\ \A rest \in Outs : With(f, rest) \in Outs
<1> DEFINE n == Len(Tag(f.inside))
           m == Len(f.text)
           c == Cut(f)
<1>1. f.inside \in BOOLEAN /\ f.text \in Texts  BY DEF Loops
<1>2. /\ m \in Nat /\ n \in Nat /\ n > 1 /\ c \in 0..m
      /\ Tags(f) # {} => c + n \in 0..m
  BY CutFacts
<1> HIDE DEF n, c, m
<1>3. /\ <<>> \in Texts /\ After(f.text, c) \in Texts
      /\ Upto(f.text, c) \in Texts
  BY <1>1, <1>2, Pieces DEF Texts, m
<1>4. Remains(f) \in Outs  BY <1>1, <1>3 DEF Remains, Outs, c
<1>5. ASSUME Tags(f) # {}
      PROVE  Onward(f) \in Loops /\ Len(Onward(f).text) < m
  <2> DEFINE rest == After(f.text, c + n)
  <2>1. rest \in Texts /\ Len(rest) = m - (c + n)
    <3>1. c + n \in 0..Len(f.text)  BY <1>2, <1>5 DEF m
    <3> QED BY <1>1, <3>1, RestOfText DEF m
  <2>2. Onward(f) = [inside |-> ~f.inside, text |-> rest]
    BY DEF Onward, c, n
  <2> HIDE DEF rest
  <2>3. Len(rest) < m  BY <1>2, <2>1
  <2>4. Onward(f) \in Loops  BY <1>1, <2>1, <2>2 DEF Loops
  <2> QED BY <2>2, <2>3, <2>4
<1>6. ASSUME NEW rest \in Outs  PROVE With(f, rest) \in Outs
  <2>1. \A t \in Texts : Upto(f.text, c) \o t \in Texts
    BY <1>3 DEF Texts
  <2>2. /\ Upto(f.text, c) \o rest.content \in Texts
        /\ Upto(f.text, c) \o rest.reasoning \in Texts
    BY <2>1 DEF Outs
  <2> QED BY <2>2 DEF With, Outs, c
<1> QED BY <1>4, <1>5, <1>6 DEF m

LEMMA FeedUnfolds ==
  \A f \in Loops :
    Feed[f] = With(f, IF Tags(f) = {} THEN Remains(f) ELSE Feed[Onward(f)])
<1> DEFINE size == [f \in Loops |-> Len(f.text)]
           ends == {f \in Loops : Tags(f) = {}}
           base == [f \in Loops |-> With(f, Remains(f))]
           next == [f \in Loops |-> IF Tags(f) = {} THEN f ELSE Onward(f)]
           step == [f \in Loops |-> [rest \in Outs |-> With(f, rest)]]
           Turn(F, f) ==
             With(f, IF Tags(f) = {} THEN Remains(f) ELSE F[Onward(f)])
<1>1. size \in [Loops -> Nat] /\ base \in [Loops -> Outs]
  BY TurnTypes DEF Loops, Texts
<1>2. next \in [Loops -> Loops] /\ step \in [Loops -> [Outs -> Outs]]
  BY TurnTypes
<1>3. \A f \in Loops \ ends : size[next[f]] < size[f]
  BY TurnTypes
<1>4. PICK F \in [Loops -> Outs] :
        Descends(F, Loops, ends, base, next, step)
  <2> HIDE DEF size, ends, base, next, step
  <2>1. ends \in SUBSET Loops  BY DEF ends
  <2> QED BY <1>1, <1>2, <1>3, <2>1, RecursionBySize
<1>5. ASSUME NEW f \in Loops  PROVE F[f] = Turn(F, f)
  <2>1. F[f] = IF f \in ends THEN base[f] ELSE step[f][F[next[f]]]
    BY <1>4 DEF Descends
  <2>2. CASE Tags(f) = {}  BY <2>1, <2>2
  <2>3. CASE Tags(f) # {}
    <3>1. next[f] = Onward(f) /\ Onward(f) \in Loops  BY <2>3, TurnTypes
    <3>2. F[Onward(f)] \in Outs  BY <3>1
    <3>3. F[f] = step[f][F[Onward(f)]]  BY <2>1, <2>3, <3>1
    <3>4. step[f][F[Onward(f)]] = With(f, F[Onward(f)])  BY <3>2
    <3> QED BY <2>3, <3>3, <3>4
  <2> QED BY <2>2, <2>3
<1>6. F = [f \in Loops |-> Turn(F, f)]
  <2> HIDE DEF Turn
  <2> QED BY <1>5
<1>7. Feed = CHOOSE G : G = [f \in Loops |-> Turn(G, f)]
  BY DEF Feed, FeedState, Loops, Texts, Turn, With, Tags, Remains, Onward, Cut
<1>8. Feed = [f \in Loops |-> Turn(Feed, f)]
  <2> HIDE DEF Turn
  <2> QED BY <1>6, <1>7
<1> QED BY <1>8

-----------------------------------------------------------------------------
(* What Feed() reads out of a text that is settled up to n.                *)

Part(text, n, m, b) ==
  {i \in (n + 1)..m : ~InTag(text, i) /\ (Thinking(text, i) <=> b)}

(* This is what comes out of the letters from n to m ...                   *)
ComesOut(text, n, m, out) ==
  /\ out.content = Letters(text, Part(text, n, m, FALSE))
  /\ out.reasoning = Letters(text, Part(text, n, m, TRUE))

(* ... if it reads on to m and holds the rest back.                        *)
ReadsTo(text, n, out, m) ==
  /\ out \in Outs
  /\ m \in n..Len(text) /\ Len(out.buffer) = Len(text) - m
  /\ out.buffer = After(text, m)
  /\ ComesOut(text, n, m, out)
  /\ out.inside <=> Thinking(text, m + 1)
  /\ Settled(text, m)
  /\ Len(out.buffer) < Len(Tag(out.inside))
  /\ MayBe(Tag(out.inside), text, m + 1)

LEMMA UptoOfAfter ==
  ASSUME NEW text \in Texts, NEW n \in Nat, NEW k \in Nat, n + k <= Len(text)
  PROVE  Upto(After(text, n), k) = SubSeq(text, n + 1, n + k)
<1> DEFINE rest == After(text, n)
           run == SubSeq(text, n + 1, n + k)
<1>1. Len(text) \in Nat /\ n \in 0..Len(text)  BY DEF Texts
<1>2. /\ rest \in Texts /\ Len(rest) = Len(text) - n
      /\ \A i \in 1..Len(rest) : rest[i] = text[n + i]
  BY <1>1, RestOfText
<1> HIDE DEF rest
<1>3. /\ Upto(rest, k) \in Texts /\ Len(Upto(rest, k)) = k
      /\ \A i \in 1..k : Upto(rest, k)[i] = rest[i] /\ i \in 1..Len(rest)
  <2>1. k <= Len(rest) /\ Len(rest) \in Nat  BY <1>1, <1>2
  <2> QED BY <1>2, <2>1, StartFacts DEF Upto
<1>4. /\ run \in Texts /\ Len(run) = k
      /\ \A i \in 1..k : run[i] = text[n + i]
  BY RunOfText
<1> HIDE DEF run
<1>5. \A i \in 1..k : Upto(rest, k)[i] = run[i]  BY <1>2, <1>3, <1>4
<1>6. Upto(rest, k) = run  BY <1>3, <1>4, <1>5, SameTexts
<1> QED BY <1>6 DEF rest, run

LEMMA AfterAfter ==
  ASSUME NEW text \in Texts, NEW n \in Nat, NEW k \in Nat, n + k <= Len(text)
  PROVE  After(After(text, n), k) = After(text, n + k)
<1> DEFINE rest == After(text, n)
           last == After(rest, k)
           same == After(text, n + k)
<1>1. Len(text) \in Nat /\ n \in 0..Len(text) /\ n + k \in 0..Len(text)
  BY DEF Texts
<1>2. /\ rest \in Texts /\ Len(rest) = Len(text) - n
      /\ \A i \in 1..Len(rest) : rest[i] = text[n + i]
  BY <1>1, RestOfText
<1> HIDE DEF rest
<1>3. k \in 0..Len(rest)  BY <1>1, <1>2
<1>4. /\ last \in Texts /\ Len(last) = Len(rest) - k
      /\ \A i \in 1..Len(last) : last[i] = rest[k + i]
  BY <1>2, <1>3, RestOfText
<1>5. /\ same \in Texts /\ Len(same) = Len(text) - (n + k)
      /\ \A i \in 1..Len(same) : same[i] = text[(n + k) + i]
  BY <1>1, RestOfText
<1> HIDE DEF last, same
<1>6. Len(last) = Len(same)  BY <1>1, <1>2, <1>4, <1>5
<1>7. ASSUME NEW i \in 1..Len(last)  PROVE last[i] = same[i]
  <2>1. k + i \in 1..Len(rest) /\ n + (k + i) = (n + k) + i
    BY <1>1, <1>2, <1>4
  <2> QED BY <1>2, <1>4, <1>5, <1>6, <2>1
<1>8. last = same  BY <1>4, <1>5, <1>6, <1>7, SameTexts
<1> QED BY <1>8 DEF rest, last, same

(* The letters of a stretch are those of its parts.                        *)
LEMMA PartsJoin ==
  ASSUME NEW text \in Texts, NEW n \in Nat, NEW k \in Nat, NEW m \in Nat,
         n <= k, k <= m, m <= Len(text), NEW c
  PROVE  /\ Letters(text, Part(text, n, m, c))
              = Letters(text, Part(text, n, k, c))
                  \o Letters(text, Part(text, k, m, c))
         /\ Letters(text, Part(text, n, k, c)) \in Texts
         /\ Letters(text, Part(text, k, m, c)) \in Texts
<1> DEFINE S == Part(text, n, k, c)
           T == Part(text, k, m, c)
<1>0. Len(text) \in Nat  BY DEF Texts
<1>1. S \in SUBSET (1..Len(text)) /\ T \in SUBSET (1..Len(text))
  BY <1>0 DEF Part
<1>2. \A s \in S, t \in T : s < t  BY <1>0 DEF Part
<1>3. Part(text, n, m, c) = S \cup T
  <2>1. \A i : i \in (n + 1)..m <=> i \in (n + 1)..k \/ i \in (k + 1)..m
    OBVIOUS
  <2> QED BY <2>1 DEF Part
<1> HIDE DEF S, T
<1>4. Letters(text, S \cup T) = Letters(text, S) \o Letters(text, T)
  BY <1>1, <1>2, LettersJoin
<1>5. Letters(text, S) \in Texts /\ Letters(text, T) \in Texts
  BY <1>1, LettersAre
<1> QED BY <1>3, <1>4, <1>5 DEF S, T

LEMMA StartAndMore ==
  ASSUME NEW text \in Texts, NEW k \in 0..Len(text), NEW m \in k..Len(text), NEW c
  PROVE  Letters(text, Part(text, 0, m, c))
           = Letters(text, Part(text, 0, k, c)) \o Letters(text, Part(text, k, m, c))
<1>1. /\ 0 \in Nat /\ k \in Nat /\ m \in Nat /\ 0 <= k /\ k <= m
      /\ m <= Len(text)
  BY DEF Texts
<1>2. /\ Letters(text, Part(text, 0, m, c))
           = Letters(text, Part(text, 0, k, c)) \o Letters(text, Part(text, k, m, c))
      /\ Letters(text, Part(text, 0, k, c)) \in Texts
      /\ Letters(text, Part(text, k, m, c)) \in Texts
  BY <1>1, PartsJoin
<1> QED BY <1>2

LEMMA NoLetters ==
  ASSUME NEW text \in Texts
  PROVE  Letters(text, {}) = <<>>
<1>1. Len(Letters(text, {})) = 0 /\ Letters(text, {}) \in Texts
  BY LettersAre, FS_EmptySet
<1>2. <<>> \in Texts /\ Len(<<>>) = 0  BY DEF Texts
<1>3. \A i \in 1..0 : Letters(text, {})[i] = <<>>[i]  OBVIOUS
<1> QED BY <1>1, <1>2, <1>3, SameTexts

(* A stretch of text alone, all of one kind.                               *)
LEMMA PartRun ==
  ASSUME NEW text \in Texts, NEW n \in Nat, NEW k \in Nat, n <= k,
         k <= Len(text), NEW b \in BOOLEAN,
         \A i \in (n + 1)..k : ~InTag(text, i) /\ (Thinking(text, i) <=> b)
  PROVE  /\ Letters(text, Part(text, n, k, b)) = SubSeq(text, n + 1, k)
         /\ Letters(text, Part(text, n, k, ~b)) = <<>>
<1>1. Len(text) \in Nat  BY DEF Texts
<1>2. Part(text, n, k, b) = (n + 1)..k /\ Part(text, n, k, ~b) = {}
  BY DEF Part
<1>3. k \in n..Len(text)  BY <1>1
<1> QED BY <1>2, <1>3, LettersRun, NoLetters

(* A stretch of tags alone.                                                *)
LEMMA PartOfTags ==
  ASSUME NEW text \in Texts, NEW n, NEW k, NEW b,
         \A i \in (n + 1)..k : InTag(text, i)
  PROVE  Letters(text, Part(text, n, k, b)) = <<>>
<1>1. Part(text, n, k, b) = {}  BY DEF Part
<1> QED BY <1>1, NoLetters

LEMMA WithIs ==
  ASSUME NEW f \in Loops, NEW rest \in Outs, NEW run,
         run = Upto(f.text, Cut(f))
  PROVE  /\ With(f, rest) \in Outs
         /\ With(f, rest).buffer = rest.buffer
         /\ With(f, rest).inside = rest.inside
         /\ f.inside => /\ With(f, rest).reasoning = run \o rest.reasoning
                        /\ With(f, rest).content = rest.content
         /\ ~f.inside => /\ With(f, rest).content = run \o rest.content
                         /\ With(f, rest).reasoning = rest.reasoning
<1>1. With(f, rest) \in Outs  BY TurnTypes
<1> QED BY <1>1 DEF With, Outs

LEMMA JoinEmpty ==
  ASSUME NEW t \in Texts
  PROVE  <<>> \o t = t /\ t \o <<>> = t
BY DEF Texts

(* What a turn of the loop puts out is the text from n to k.               *)
PutsOut(text, n, k, f) ==
  LET answer == Letters(text, Part(text, n, k, FALSE))
      thought == Letters(text, Part(text, n, k, TRUE))
  IN  /\ f.inside => thought = Upto(f.text, Cut(f)) /\ answer = <<>>
      /\ ~f.inside => answer = Upto(f.text, Cut(f)) /\ thought = <<>>

LEMMA WithReads ==
  ASSUME NEW text \in Texts, NEW n \in Nat, NEW k \in Nat, NEW m \in Nat,
         n <= k, k <= m, m <= Len(text),
         NEW f \in Loops, NEW rest \in Outs, PutsOut(text, n, k, f),
         ComesOut(text, k, m, rest)
  PROVE  ComesOut(text, n, m, With(f, rest))
<1> DEFINE answer == Letters(text, Part(text, n, k, FALSE))
           thought == Letters(text, Part(text, n, k, TRUE))
<1>0. \A c : /\ Letters(text, Part(text, n, m, c))
                  = Letters(text, Part(text, n, k, c))
                      \o Letters(text, Part(text, k, m, c))
             /\ Letters(text, Part(text, k, m, c)) \in Texts
  BY PartsJoin
<1>1. /\ Letters(text, Part(text, n, m, FALSE)) = answer \o rest.content
      /\ rest.content \in Texts
  BY <1>0 DEF ComesOut
<1>2. /\ Letters(text, Part(text, n, m, TRUE)) = thought \o rest.reasoning
      /\ rest.reasoning \in Texts
  BY <1>0 DEF ComesOut
<1>3. /\ f.inside => thought = Upto(f.text, Cut(f)) /\ answer = <<>>
      /\ ~f.inside => answer = Upto(f.text, Cut(f)) /\ thought = <<>>
  BY DEF PutsOut
<1>4. <<>> \o rest.content = rest.content /\ <<>> \o rest.reasoning = rest.reasoning
  BY <1>1, <1>2, JoinEmpty
<1>5. /\ f.inside => /\ With(f, rest).reasoning = Upto(f.text, Cut(f)) \o rest.reasoning
                     /\ With(f, rest).content = rest.content
      /\ ~f.inside => /\ With(f, rest).content = Upto(f.text, Cut(f)) \o rest.content
                      /\ With(f, rest).reasoning = rest.reasoning
  BY WithIs
<1> HIDE DEF answer, thought
<1>6. CASE f.inside
  BY <1>1, <1>2, <1>3, <1>4, <1>5, <1>6 DEF ComesOut
<1>7. CASE ~f.inside
  BY <1>1, <1>2, <1>3, <1>4, <1>5, <1>7 DEF ComesOut
<1> QED BY <1>6, <1>7

LEMMA PutsOutRun ==
  ASSUME NEW text \in Texts, NEW n \in Nat, NEW k \in Nat, n <= k,
         k <= Len(text), NEW f \in Loops,
         Upto(f.text, Cut(f)) = SubSeq(text, n + 1, k),
         \A i \in (n + 1)..k :
           ~InTag(text, i) /\ (Thinking(text, i) <=> f.inside)
  PROVE  PutsOut(text, n, k, f)
<1>1. CASE f.inside
  <2>1. \A i \in (n + 1)..k : ~InTag(text, i) /\ (Thinking(text, i) <=> TRUE)
    BY <1>1
  <2>2. /\ Letters(text, Part(text, n, k, TRUE)) = SubSeq(text, n + 1, k)
        /\ Letters(text, Part(text, n, k, ~TRUE)) = <<>>
    BY <2>1, PartRun
  <2> QED BY <1>1, <2>2 DEF PutsOut
<1>2. CASE ~f.inside
  <2>1. \A i \in (n + 1)..k : ~InTag(text, i) /\ (Thinking(text, i) <=> FALSE)
    BY <1>2
  <2>2. /\ Letters(text, Part(text, n, k, FALSE)) = SubSeq(text, n + 1, k)
        /\ Letters(text, Part(text, n, k, ~FALSE)) = <<>>
    BY <2>1, PartRun
  <2> QED BY <1>2, <2>2 DEF PutsOut
<1> QED BY <1>1, <1>2

(* How a turn of the loop stands in the whole text.                        *)
LEMMA TurnPlace ==
  ASSUME NEW text \in Texts, NEW n \in 0..Len(text), Settled(text, n),
         NEW f \in Loops, f.text = After(text, n),
         f.inside <=> Thinking(text, n + 1)
  PROVE  /\ Len(text) \in Nat /\ n \in Nat /\ Cut(f) \in Nat
         /\ Len(f.text) = Len(text) - n /\ Cut(f) <= Len(f.text)
         /\ f.inside \in BOOLEAN
         /\ \A i \in Nat \ {0} :
              /\ i \in Tags(f) <=> n + i \in Found(Tag(f.inside), text)
              /\ MayBe(Tag(f.inside), f.text, i)
                   <=> MayBe(Tag(f.inside), text, n + i)
         /\ Upto(f.text, Cut(f)) = SubSeq(text, n + 1, n + Cut(f))
<1>1. Len(text) \in Nat /\ n \in Nat /\ f.inside \in BOOLEAN
  BY DEF Texts, Loops
<1>2. /\ Len(f.text) = Len(text) - n
      /\ \A i \in Nat \ {0} :
           /\ MayBe(Tag(f.inside), f.text, i)
                   <=> MayBe(Tag(f.inside), text, n + i)
           /\ i \in Found(Tag(f.inside), f.text) <=> n + i \in Found(Tag(f.inside), text)
  BY <1>1, RestOfText
<1>3. Cut(f) \in 0..Len(f.text)  BY CutFacts
<1>4. Cut(f) \in Nat /\ Cut(f) <= Len(f.text) /\ n + Cut(f) <= Len(text)
  BY <1>1, <1>2, <1>3
<1>5. Upto(f.text, Cut(f)) = SubSeq(text, n + 1, n + Cut(f))
  BY <1>1, <1>4, UptoOfAfter
<1> QED BY <1>1, <1>2, <1>4, <1>5 DEF Tags

(* The last turn, which finds no tag.                                      *)
LEMMA LastTurn ==
  ASSUME NEW text \in Texts, NEW n \in 0..Len(text), Settled(text, n),
         NEW f \in Loops, f.text = After(text, n),
         f.inside <=> Thinking(text, n + 1), Tags(f) = {}
  PROVE  ReadsTo(text, n, With(f, Remains(f)), n + Cut(f))
<1> DEFINE b == f.inside
           tag == Tag(b)
           k == Cut(f)
           m == n + k
           out == With(f, Remains(f))
           lt == Len(tag)
           lf == Len(f.text)
           l == Len(text)
<1>1. /\ l \in Nat /\ n \in Nat /\ k \in Nat
      /\ lf = l - n /\ k <= lf
      /\ b \in BOOLEAN
      /\ \A i \in Nat \ {0} :
           /\ i \in Tags(f) <=> n + i \in Found(tag, text)
           /\ MayBe(tag, f.text, i) <=> MayBe(tag, text, n + i)
      /\ Upto(f.text, Cut(f)) = SubSeq(text, n + 1, m)
  BY TurnPlace
<1>2. /\ lf - k < lt /\ lt \in Nat
      /\ MayBe(tag, f.text, k + 1)
      /\ \A i \in 1..lf :
           i + lt - 1 > lf /\ MayBe(tag, f.text, i) => k + 1 <= i
  BY CutFacts
<1>3. m \in Nat /\ m \in n..l /\ l - m < lt
      /\ n + (k + 1) = m + 1 /\ k + 1 \in Nat \ {0}
  <2> HIDE DEF k, l, lf, lt
  <2> QED BY <1>1, <1>2
<1>4. \A a \in Found(tag, text) : a <= n
  <2> TAKE a \in Found(tag, text)
  <2>1. a \in Nat \ {0}  BY <1>1, FoundThere
  <2> SUFFICES ASSUME a > n  PROVE FALSE  BY <1>1, <2>1
  <2>2. a - n \in Nat \ {0} /\ n + (a - n) = a  BY <1>1, <2>1
  <2>3. a - n \in Tags(f)  BY <1>1, <2>2
  <2> QED BY <2>3
<1>5. Held(text, n, tag, m)
  <2>1. MayBe(tag, text, m + 1)  BY <1>1, <1>2, <1>3
  <2>2. ASSUME NEW i \in (n + 1)..m, i + lt - 1 > l,
               MayBe(tag, text, i)
        PROVE  FALSE
    <3> DEFINE j == i - n
    <3>1. /\ j \in Nat \ {0} /\ n + j = i /\ j \in 1..lf
          /\ j + lt - 1 > lf /\ ~ (k + 1 <= j)
      <4> HIDE DEF k, l, lf, lt
      <4> QED BY <1>1, <1>2, <2>2
    <3>2. MayBe(tag, f.text, j)  BY <1>1, <2>2, <3>1
    <3> QED BY <1>2, <3>1, <3>2
  <2> QED BY <1>3, <2>1, <2>2 DEF Held
<1>6. /\ \A i \in (n + 1)..Len(text) :
           ~InTag(text, i) /\ (Thinking(text, i) <=> b)
      /\ \A i \in (n + 1)..(Len(text) + 1) : Thinking(text, i) <=> b
      /\ Settled(text, m)
  BY <1>1, <1>3, <1>4, <1>5, NoFurtherTag
<1>7. PutsOut(text, n, m, f)
  <2>1. \A i \in (n + 1)..m : i \in (n + 1)..Len(text)  BY <1>1, <1>3
  <2>2. n <= m /\ m <= Len(text)  BY <1>1, <1>3
  <2> HIDE DEF m
  <2> QED BY <1>1, <1>3, <1>6, <2>1, <2>2, PutsOutRun
<1>8. Remains(f) \in Outs /\ out \in Outs  BY TurnTypes
<1>9. /\ Remains(f).content = <<>> /\ Remains(f).reasoning = <<>>
      /\ Remains(f).buffer = After(f.text, Cut(f)) /\ Remains(f).inside = b
  BY DEF Remains
<1>10. /\ out.buffer = After(f.text, Cut(f)) /\ out.inside = b
  BY <1>8, <1>9, WithIs
<1>11. \A c \in BOOLEAN : Letters(text, Part(text, m, m, c)) = <<>>
  <2>1. \A i \in (m + 1)..m : InTag(text, i)  BY <1>3
  <2> QED BY <2>1, PartOfTags
<1>12. ComesOut(text, n, m, out)
  <2>1. n <= m /\ m <= m /\ m <= Len(text)  BY <1>1, <1>3
  <2>2. ComesOut(text, m, m, Remains(f))
    <3> HIDE DEF m
    <3> QED BY <1>9, <1>11 DEF ComesOut
  <2>3. n \in Nat /\ m \in Nat  BY <1>1, <1>3
  <2> HIDE DEF m
  <2> QED BY <1>7, <1>8, <2>1, <2>2, <2>3, WithReads
<1>13. out.buffer = After(text, m) /\ Len(out.buffer) = Len(text) - m
  <2>1. n + Cut(f) <= Len(text)  BY <1>1
  <2>2. out.buffer = After(text, m)  BY <1>1, <1>10, <2>1, AfterAfter
  <2>3. m \in 0..Len(text)  BY <1>1, <1>3
  <2> HIDE DEF m, out
  <2> QED BY <2>2, <2>3, RestOfText
<1>14. out.inside <=> Thinking(text, m + 1)
  <2>1. m + 1 \in (n + 1)..(l + 1)
    <3> HIDE DEF m, l
    <3> QED BY <1>1, <1>3
  <2> QED BY <1>6, <1>10, <2>1
<1>15. /\ Len(out.buffer) < Len(Tag(out.inside))
       /\ MayBe(Tag(out.inside), text, m + 1)
  BY <1>3, <1>5, <1>10, <1>13 DEF Held
<1> HIDE DEF m, out
<1>16. ReadsTo(text, n, out, m)
  BY <1>3, <1>6, <1>8, <1>12, <1>13, <1>14, <1>15 DEF ReadsTo
<1> QED BY <1>16 DEF m, out

(* A tag behind it does not change what a turn puts out.                   *)
LEMMA PutsOutTag ==
  ASSUME NEW text \in Texts, NEW n \in Nat, NEW k \in Nat, NEW m \in Nat,
         n <= k, k <= m, m <= Len(text), NEW f, PutsOut(text, n, k, f),
         \A i \in (k + 1)..m : InTag(text, i)
  PROVE  PutsOut(text, n, m, f)
<1>1. \A c : /\ Letters(text, Part(text, n, m, c))
                  = Letters(text, Part(text, n, k, c))
                      \o Letters(text, Part(text, k, m, c))
             /\ Letters(text, Part(text, n, k, c)) \in Texts
  BY PartsJoin
<1>2. \A c : Letters(text, Part(text, k, m, c)) = <<>>  BY PartOfTags
<1>3. \A c : Letters(text, Part(text, n, m, c))
               = Letters(text, Part(text, n, k, c))
  <2> TAKE c
  <2> DEFINE some == Letters(text, Part(text, n, k, c))
  <2>1. /\ Letters(text, Part(text, n, m, c)) = some \o <<>>
        /\ some \in Texts
    BY <1>1, <1>2
  <2> HIDE DEF some
  <2>2. Letters(text, Part(text, n, m, c)) = some  BY <2>1, JoinEmpty
  <2> QED BY <2>2 DEF some
<1> QED BY <1>3 DEF PutsOut

(* A turn that finds a tag: the next one goes on behind it.                *)
LEMMA MiddleTurn ==
  ASSUME NEW text \in Texts, NEW n \in 0..Len(text), Settled(text, n),
         NEW f \in Loops, f.text = After(text, n),
         f.inside <=> Thinking(text, n + 1), Tags(f) # {},
         NEW next, next = n + (Cut(f) + Len(Tag(f.inside)))
  PROVE  /\ next \in 0..Len(text) /\ next > n /\ Settled(text, next)
         /\ Onward(f) \in Loops /\ Onward(f).text = After(text, next)
         /\ Onward(f).inside <=> Thinking(text, next + 1)
         /\ PutsOut(text, n, next, f)
<1> DEFINE b == f.inside
           tag == Tag(b)
           k == Cut(f)
           lt == Len(tag)
           l == Len(text)
           a == n + (k + 1)
<1>1. /\ l \in Nat /\ n \in Nat /\ k \in Nat /\ b \in BOOLEAN
      /\ Len(f.text) = l - n
      /\ \A i \in Nat \ {0} : i \in Tags(f) <=> n + i \in Found(tag, text)
      /\ Upto(f.text, k) = SubSeq(text, n + 1, n + k)
  BY TurnPlace
<1>2. /\ lt \in Nat /\ lt > 1 /\ k + 1 \in Tags(f)
      /\ \A i \in Tags(f) : k + 1 <= i
      /\ k + lt \in 0..Len(f.text)
  BY CutFacts
<1>3. /\ next \in Nat /\ next = n + (k + lt) /\ next = a + lt - 1
      /\ next > n /\ next <= l /\ n <= n + k /\ n + k <= next
      /\ n + k \in Nat /\ n + k <= l /\ a - 1 = n + k /\ a > n
      /\ a = (n + k) + 1 /\ k + 1 \in Nat \ {0}
  <2>1. next = n + (k + lt)  OBVIOUS
  <2>2. k + lt <= l - n /\ k >= 0 /\ n >= 0  BY <1>1, <1>2
  <2>3. l \in Nat /\ n \in Nat /\ k \in Nat /\ lt \in Nat /\ lt > 1
    BY <1>1, <1>2
  <2> HIDE DEF k, lt, l
  <2>4. next \in Nat /\ next > n /\ next <= l  BY <2>1, <2>2, <2>3
  <2>5. next = a + lt - 1 /\ a - 1 = n + k /\ a = (n + k) + 1
    BY <2>1, <2>3
  <2>6. n <= n + k /\ n + k <= next /\ n + k <= l /\ a > n
    BY <2>1, <2>2, <2>3
  <2>7. n + k \in Nat /\ k + 1 \in Nat \ {0}  BY <2>3
  <2> QED BY <2>1, <2>4, <2>5, <2>6, <2>7
<1>4. a \in Found(tag, text)  BY <1>1, <1>2, <1>3
<1>5. \A other \in Found(tag, text) : other > n => a <= other
  <2> SUFFICES ASSUME NEW other \in Found(tag, text), other > n
               PROVE  a <= other
    OBVIOUS
  <2>1. other \in Nat \ {0}  BY <1>1, FoundThere
  <2>2. other - n \in Nat \ {0} /\ n + (other - n) = other  BY <1>1, <2>1
  <2>3. k + 1 <= other - n  BY <1>1, <1>2, <2>2
  <2> HIDE DEF k
  <2> QED BY <1>1, <2>1, <2>3
<1>6. /\ \A i \in (n + 1)..(a - 1) : ~InTag(text, i) /\ (Thinking(text, i) <=> b)
      /\ \A i \in a..next : InTag(text, i)
      /\ Thinking(text, next + 1) <=> ~b
      /\ Settled(text, next)
  <2>1. /\ Thinking(text, n + 1) <=> b
        /\ next = a + Len(Tag(b)) - 1
    BY <1>3
  <2>2. a \in Found(Tag(b), text) /\ a > n /\ next \in Nat /\ n \in Nat
    BY <1>1, <1>3, <1>4
  <2>3. \A other \in Found(Tag(b), text) : other > n => a <= other  BY <1>5
  <2>4. b \in BOOLEAN  BY <1>1
  <2> HIDE DEF a, k, b
  <2> QED BY <2>1, <2>2, <2>3, <2>4, NextTag
<1>7. PutsOut(text, n, n + k, f)
  <2>1. \A i \in (n + 1)..(n + k) :
          ~InTag(text, i) /\ (Thinking(text, i) <=> f.inside)
    BY <1>3, <1>6
  <2> DEFINE end == n + k
  <2>2. end \in Nat /\ n <= end /\ end <= Len(text)  BY <1>3
  <2>3. Upto(f.text, Cut(f)) = SubSeq(text, n + 1, end)  BY <1>1
  <2> HIDE DEF end
  <2>4. PutsOut(text, n, end, f)
    <3>1. \A i \in (n + 1)..end :
            ~InTag(text, i) /\ (Thinking(text, i) <=> f.inside)
      BY <2>1 DEF end
    <3> QED BY <1>1, <2>2, <2>3, <3>1, PutsOutRun
  <2> QED BY <2>4 DEF end
<1>8. PutsOut(text, n, next, f)
  <2> DEFINE end == n + k
  <2>1. end \in Nat /\ n <= end /\ end <= next /\ next <= Len(text)  BY <1>3
  <2>2. \A i \in (end + 1)..next : InTag(text, i)  BY <1>3, <1>6
  <2>3. PutsOut(text, n, end, f)  BY <1>7
  <2> HIDE DEF end
  <2> QED BY <1>1, <1>3, <2>1, <2>2, <2>3, PutsOutTag
<1>9. Onward(f) \in Loops  BY TurnTypes
<1>10. /\ Onward(f).inside = ~b
       /\ Onward(f).text = After(f.text, k + lt)
  BY DEF Onward
<1>11. Onward(f).text = After(text, next)
  <2> DEFINE j == k + lt
  <2>1. j \in Nat /\ n + j <= Len(text) /\ next = n + j
    <3>1. j \in Nat  BY <1>1, <1>2
    <3> QED BY <1>3, <3>1
  <2>2. Onward(f).text = After(After(text, n), j)  BY <1>10
  <2> HIDE DEF j
  <2> QED BY <1>1, <2>1, <2>2, AfterAfter
<1>12. next \in 0..Len(text)  BY <1>1, <1>3
<1> HIDE DEF b
<1> QED BY <1>3, <1>6, <1>8, <1>9, <1>10, <1>11, <1>12

LEMMA ReadsOn ==
  ASSUME NEW text \in Texts, NEW n \in 0..Len(text), NEW f \in Loops,
         NEW next \in 0..Len(text), next > n, PutsOut(text, n, next, f),
         NEW rest, NEW m, ReadsTo(text, next, rest, m)
  PROVE  ReadsTo(text, n, With(f, rest), m)
<1>1. Len(text) \in Nat /\ n \in Nat /\ next \in Nat  BY DEF Texts
<1>2. rest \in Outs /\ m \in next..Len(text) /\ ComesOut(text, next, m, rest)
  BY DEF ReadsTo
<1>3. m \in Nat /\ n <= next /\ next <= m /\ m <= Len(text) /\ m \in n..Len(text)
  BY <1>1, <1>2
<1>4. ComesOut(text, n, m, With(f, rest))
  BY <1>1, <1>2, <1>3, WithReads
<1>5. /\ With(f, rest) \in Outs /\ With(f, rest).buffer = rest.buffer
      /\ With(f, rest).inside = rest.inside
  BY <1>2, WithIs
<1> QED BY <1>3, <1>4, <1>5 DEF ReadsTo

(* Feed() reads the text as its tags have it.                              *)
LEMMA FeedReads ==
  ASSUME NEW text \in Texts
  PROVE  \A n \in 0..Len(text), f \in Loops :
           /\ Settled(text, n) /\ f.text = After(text, n)
           /\ f.inside <=> Thinking(text, n + 1)
           => \E m : ReadsTo(text, n, Feed[f], m)
<1> DEFINE Good(n) == \A f \in Loops :
             /\ Settled(text, n) /\ f.text = After(text, n)
             /\ f.inside <=> Thinking(text, n + 1)
             => \E m : ReadsTo(text, n, Feed[f], m)
           l == Len(text)
           holds == {j \in Nat : \A n \in 0..l : l - n <= j => Good(n)}
<1>1. l \in Nat  BY DEF Texts
<1>2. ASSUME NEW n \in 0..l, NEW f \in Loops, Settled(text, n),
             f.text = After(text, n), f.inside <=> Thinking(text, n + 1),
             \A next \in 0..l : next > n => Good(next)
      PROVE  \E m : ReadsTo(text, n, Feed[f], m)
  <2>1. CASE Tags(f) = {}
    <3>1. Feed[f] = With(f, Remains(f))  BY <2>1, FeedUnfolds
    <3>2. ReadsTo(text, n, With(f, Remains(f)), n + Cut(f))
      BY <1>2, <2>1, LastTurn
    <3> QED BY <3>1, <3>2
  <2>2. CASE Tags(f) # {}
    <3>1. Feed[f] = With(f, Feed[Onward(f)])  BY <2>2, FeedUnfolds
    <3> DEFINE next == n + (Cut(f) + Len(Tag(f.inside)))
    <3>2. /\ next \in 0..l /\ next > n /\ Settled(text, next)
          /\ Onward(f) \in Loops /\ Onward(f).text = After(text, next)
          /\ Onward(f).inside <=> Thinking(text, next + 1)
          /\ PutsOut(text, n, next, f)
      BY <1>2, <2>2, MiddleTurn
    <3> HIDE DEF next
    <3>3. Good(next)  BY <1>2, <3>2
    <3>4. PICK m : ReadsTo(text, next, Feed[Onward(f)], m)
      BY <3>2, <3>3
    <3>5. ReadsTo(text, n, With(f, Feed[Onward(f)]), m)
      BY <3>2, <3>4, ReadsOn
    <3> QED BY <3>1, <3>5
  <2> QED BY <2>1, <2>2
<1> HIDE DEF l
<1>3. ASSUME NEW n \in 0..l, \A next \in 0..l : next > n => Good(next)
      PROVE  Good(n)
  BY <1>2, <1>3
<1> HIDE DEF Good
<1>4. 0 \in holds
  <2>1. \A n \in 0..l : l - n <= 0 => \A next \in 0..l : ~ (next > n)
    BY <1>1
  <2> QED BY <1>3, <2>1
<1>5. ASSUME NEW j \in holds  PROVE j + 1 \in holds
  <2>1. j \in Nat /\ \A n \in 0..l : l - n <= j => Good(n)  BY <1>5
  <2>2. ASSUME NEW n \in 0..l, l - n <= j + 1  PROVE Good(n)
    <3>1. \A next \in 0..l : next > n => l - next <= j  BY <1>1, <2>1, <2>2
    <3> QED BY <1>3, <2>1, <3>1
  <2> QED BY <2>1, <2>2
<1>6. holds = Nat
  <2>1. holds \in SUBSET Nat  OBVIOUS
  <2> HIDE DEF holds
  <2> QED BY <1>4, <1>5, <2>1, Induction
<1>7. ASSUME NEW n \in 0..l  PROVE Good(n)
  <2>1. l - n \in holds  BY <1>1, <1>6
  <2>2. l - n <= l - n  BY <1>1
  <2> QED BY <2>1, <2>2
<1> QED BY <1>7 DEF Good, l

-----------------------------------------------------------------------------
(* What is settled comes out the same whatever follows it.                 *)

LEMMA StartOfText ==
  ASSUME NEW text \in Texts, NEW n \in 0..Len(text), NEW start,
         start = Upto(text, n)
  PROVE  start \in Texts /\ Len(start) = n /\ Extends(text, start)
<1>1. /\ start \in Texts /\ Len(start) = n
      /\ \A i \in 1..n : start[i] = text[i]
  BY UptoFacts
<1>2. n <= Len(text)  BY UptoFacts
<1> QED BY <1>1, <1>2 DEF Extends

LEMMA PartStart ==
  ASSUME NEW text \in Texts, NEW n \in 0..Len(text), Settled(text, n),
         NEW start, start = Upto(text, n), NEW c
  PROVE  Letters(text, Part(text, 0, n, c)) = Letters(start, Part(start, 0, n, c))
<1>1. start \in Texts /\ Len(start) = n /\ Extends(text, start)
  BY StartOfText
<1>2. n \in Nat /\ Settled(text, Len(start))  BY <1>1 DEF Texts
<1>3. ASSUME NEW i \in 1..n
      PROVE  /\ InTag(text, i) <=> InTag(start, i)
             /\ Thinking(text, i) <=> Thinking(start, i)
  <2>1. i \in 1..Len(start) /\ i \in Nat /\ i <= Len(start) + 1
    BY <1>1, <1>2
  <2>2. InTag(text, i) <=> InTag(start, i)  BY <1>1, <1>2, <2>1, InTagEarlier
  <2>3. Thinking(text, i) <=> Thinking(start, i)
    BY <1>1, <2>1, ThinkingEarlier
  <2> QED BY <2>2, <2>3
<1>4. Part(text, 0, n, c) = Part(start, 0, n, c)
  BY <1>2, <1>3 DEF Part
<1>5. Part(start, 0, n, c) \in SUBSET (1..Len(start))
  BY <1>1, <1>2 DEF Part
<1> QED BY <1>1, <1>4, <1>5, LettersEarlier

LEMMA PartEarlier ==
  ASSUME NEW text \in Texts, NEW longer \in Texts, Extends(longer, text),
         NEW n \in 0..Len(text), Settled(text, n), NEW c
  PROVE  Letters(longer, Part(longer, 0, n, c))
           = Letters(text, Part(text, 0, n, c))
<1> DEFINE start == Upto(text, n)
<1>1. Settled(longer, n)  BY SettledLater
<1>2. n \in 0..Len(longer) /\ n \in Nat  BY DEF Extends, Texts
<1>3. start = Upto(longer, n)
  <2>1. /\ start \in Texts /\ Len(start) = n
        /\ \A i \in 1..n : start[i] = text[i] /\ i \in 1..Len(text)
    BY UptoFacts
  <2>2. /\ Upto(longer, n) \in Texts /\ Len(Upto(longer, n)) = n
        /\ \A i \in 1..n : Upto(longer, n)[i] = longer[i]
    BY <1>2, UptoFacts
  <2>3. \A i \in 1..n : start[i] = Upto(longer, n)[i]
    BY <2>1, <2>2 DEF Extends
  <2> QED BY <2>1, <2>2, <2>3, SameTexts
<1> HIDE DEF start
<1>4. Letters(longer, Part(longer, 0, n, c))
        = Letters(start, Part(start, 0, n, c))
  BY <1>1, <1>2, <1>3, PartStart
<1>5. Letters(text, Part(text, 0, n, c)) = Letters(start, Part(start, 0, n, c))
  BY PartStart DEF start
<1> QED BY <1>4, <1>5

(* A fragment behind a text.                                               *)
LEMMA RestAndMore ==
  ASSUME NEW text \in Texts, NEW more \in Texts, NEW longer \in Texts,
         Len(longer) = Len(text) + Len(more),
         \A i \in 1..Len(text) : longer[i] = text[i],
         \A i \in 1..Len(more) : longer[Len(text) + i] = more[i],
         NEW n \in 0..Len(text)
  PROVE  After(longer, n) = After(text, n) \o more
<1>0. Len(text) \in Nat /\ Len(more) \in Nat  BY DEF Texts
<1> DEFINE rest == After(text, n)
           all == After(longer, n)
           join == rest \o more
<1>1. n \in 0..Len(longer) /\ n \in Nat  BY <1>0
<1>2. /\ rest \in Texts /\ Len(rest) = Len(text) - n
      /\ \A i \in 1..Len(rest) : rest[i] = text[n + i]
  BY RestOfText
<1>3. /\ all \in Texts /\ Len(all) = Len(longer) - n
      /\ \A i \in 1..Len(all) : all[i] = longer[n + i]
  <2>1. longer \in Texts  OBVIOUS
  <2> QED BY <1>1, <2>1, RestFacts
<1> HIDE DEF rest, all
<1>4. /\ join \in Texts /\ Len(join) = Len(rest) + Len(more)
      /\ \A i \in 1..Len(rest) : join[i] = rest[i]
      /\ \A i \in 1..Len(more) : join[Len(rest) + i] = more[i]
  <2>1. rest \in Seq(Letter) /\ more \in Seq(Letter)
    BY <1>2 DEF Texts
  <2> QED BY <2>1, ConcatFacts DEF Texts
<1> HIDE DEF join
<1>5. Len(all) = Len(join)  BY <1>0, <1>1, <1>2, <1>3, <1>4
<1>6. ASSUME NEW i \in 1..Len(all)  PROVE all[i] = join[i]
  <2>1. CASE i <= Len(rest)
    <3>1. i \in 1..Len(rest) /\ n + i \in 1..Len(text)
      BY <1>0, <1>1, <1>2, <1>3, <2>1
    <3> QED BY <1>0, <1>2, <1>3, <1>4, <3>1
  <2>2. CASE ~ (i <= Len(rest))
    <3> DEFINE j == i - Len(rest)
    <3>1. /\ j \in 1..Len(more) /\ Len(rest) + j = i
          /\ Len(text) + j = n + i
      BY <1>0, <1>1, <1>2, <1>3, <2>2
    <3> HIDE DEF j
    <3>2. longer[n + i] = more[j]  BY <1>0, <3>1
    <3>3. join[i] = more[j]  BY <1>4, <3>1
    <3> QED BY <1>3, <3>2, <3>3
  <2> QED BY <2>1, <2>2
<1>7. all = join  BY <1>3, <1>4, <1>5, <1>6, SameTexts
<1> QED BY <1>7 DEF all, join, rest

LEMMA Fragment ==
  ASSUME NEW text \in Texts, NEW more \in Texts
  PROVE  /\ text \o more \in Texts
         /\ Len(text \o more) = Len(text) + Len(more)
         /\ Extends(text \o more, text)
<1>1. /\ text \o more \in Texts /\ Len(text \o more) = Len(text) + Len(more)
      /\ \A i \in 1..Len(text) : (text \o more)[i] = text[i]
      /\ Len(text) \in Nat /\ Len(more) \in Nat
  BY ConcatFacts DEF Texts
<1> QED BY <1>1 DEF Extends

LEMMA FragmentAfter ==
  ASSUME NEW text \in Texts, NEW more \in Texts, NEW n \in 0..Len(text)
  PROVE  After(text \o more, n) = After(text, n) \o more
<1> DEFINE longer == text \o more
<1>1. /\ longer \in Texts /\ Len(longer) = Len(text) + Len(more)
      /\ \A i \in 1..Len(text) : longer[i] = text[i]
      /\ \A i \in 1..Len(more) : longer[Len(text) + i] = more[i]
  BY ConcatFacts DEF Texts
<1> HIDE DEF longer
<1>2. After(longer, n) = After(text, n) \o more  BY <1>1, RestAndMore
<1> QED BY <1>2 DEF longer

(* What may be a tag at the end of a text begins like it.                  *)
LEMMA StartOfTag ==
  ASSUME NEW text \in Texts, NEW m \in 0..Len(text), NEW b \in BOOLEAN,
         NEW held, held = After(text, m), Len(held) < Len(Tag(b))
  PROVE  MayBe(Tag(b), text, m + 1) <=> held = Upto(Tag(b), Len(held))
<1> DEFINE tag == Tag(b)
           n == Len(held)
           start == Upto(tag, n)
<1>1. /\ held \in Texts /\ Len(held) = Len(text) - m
      /\ \A i \in 1..Len(held) : held[i] = text[m + i]
      /\ Len(text) \in Nat /\ m \in Nat /\ m <= Len(text)
  <2>1. /\ held \in Texts /\ Len(held) = Len(text) - m
        /\ \A i \in 1..Len(held) : held[i] = text[m + i]
    BY RestFacts
  <2>2. Len(text) \in Nat  BY DEF Texts
  <2>3. m \in Nat /\ m <= Len(text)  BY <2>2
  <2> QED BY <2>1, <2>2, <2>3
<1>2. tag \in Texts /\ Len(tag) \in Nat  BY TagTypes
<1>3. n \in Nat /\ n < Len(tag)  BY <1>1 DEF Texts
<1> HIDE DEF tag
<1>4. /\ start \in Texts /\ Len(start) = n
      /\ \A i \in 1..n : start[i] = tag[i]
  <2>1. n \in 0..Len(tag)  BY <1>2, <1>3
  <2> QED BY <1>2, <2>1, UptoFacts
<1> HIDE DEF start
<1>5. \A k \in 1..Len(tag) : /\ (m + 1) + k - 1 = m + k
                             /\ m + k <= Len(text) <=> k \in 1..n
  <2>1. n = Len(text) - m  BY <1>1
  <2> HIDE DEF n
  <2> QED BY <1>1, <1>2, <1>3, <2>1
<1>6. \A k \in 1..n : k \in 1..Len(tag)  BY <1>2, <1>3
<1>7. MayBe(tag, text, m + 1) <=> \A k \in 1..n : text[m + k] = tag[k]
  BY <1>5, <1>6 DEF MayBe
<1>8. held = start <=> \A k \in 1..n : text[m + k] = tag[k]
  <2>1. ASSUME \A k \in 1..n : text[m + k] = tag[k]  PROVE held = start
    <3>1. \A i \in 1..Len(held) : held[i] = start[i]  BY <1>1, <1>4, <2>1
    <3> QED BY <1>1, <1>4, <3>1, SameTexts
  <2>2. ASSUME held = start  PROVE \A k \in 1..n : text[m + k] = tag[k]
    BY <1>1, <1>4, <2>2
  <2> QED BY <2>1, <2>2
<1> QED BY <1>7, <1>8 DEF tag, start

-----------------------------------------------------------------------------
(* The invariant.                                                          *)

Types ==
  /\ filter \in [insideThink : BOOLEAN, buffer : Texts, disabled : BOOLEAN]
  /\ fed \in Texts /\ content \in Texts /\ reasoning \in Texts
  /\ flushed \in BOOLEAN

(* The text is read up to n as the reference has it and the rest held.     *)
Read(text, n, inside, held, answer, thought) ==
  /\ n \in 0..Len(text) /\ Len(held) = Len(text) - n
  /\ held = After(text, n)
  /\ inside <=> Thinking(text, n + 1)
  /\ answer = Letters(text, Part(text, 0, n, FALSE))
  /\ thought = Letters(text, Part(text, 0, n, TRUE))

(* As long as the filter is on, that is what it has done.                  *)
ReadAsMeant(n) ==
  /\ Read(fed, n, filter.insideThink, filter.buffer, content, reasoning)
  /\ ~flushed => Settled(fed, n)

Undisturbed == ~filter.disabled => \E n \in Nat : ReadAsMeant(n)

(* On or off, it has lost no letter but those of tags.                     *)
TagLetters(text) == {i \in 1..Len(text) : InTag(text, i)}

AllKept(text, held, answer, thought) ==
  LET kept == Len(answer) + Len(thought) + Len(held)
  IN  /\ kept <= Len(text)
      /\ kept + Cardinality(TagLetters(text)) >= Len(text)

Accounted == AllKept(fed, filter.buffer, content, reasoning)

IInv == Types /\ TypeOK /\ Undisturbed /\ Accounted

-----------------------------------------------------------------------------
(* Where the filter is on, the letters are accounted for.                  *)

LEMMA FiniteParts ==
  ASSUME NEW n \in Nat, NEW S \in SUBSET (1..n)
  PROVE  IsFiniteSet(S) /\ Cardinality(S) \in Nat /\ Cardinality(S) <= n
<1>1. IsFiniteSet(1..n) /\ Cardinality(1..n) = n  BY FS_Interval
<1>2. IsFiniteSet(S) /\ Cardinality(S) <= n  BY <1>1, FS_Subset
<1> QED BY <1>2, FS_CardinalityType

LEMMA PartsCount ==
  ASSUME NEW text \in Texts, NEW n \in 0..Len(text)
  PROVE  LET answer == Cardinality(Part(text, 0, n, FALSE))
             thought == Cardinality(Part(text, 0, n, TRUE))
         IN  /\ answer \in Nat /\ thought \in Nat
             /\ answer + thought <= n
             /\ Cardinality(TagLetters(text)) \in Nat
             /\ answer + thought + Cardinality(TagLetters(text)) >= n
<1> DEFINE A == Part(text, 0, n, FALSE)
           B == Part(text, 0, n, TRUE)
           C == {i \in 1..n : InTag(text, i)}
           D == TagLetters(text)
<1>1. n \in Nat /\ Len(text) \in Nat /\ n <= Len(text)  BY DEF Texts
<1>2. /\ A \in SUBSET (1..n) /\ B \in SUBSET (1..n) /\ C \in SUBSET (1..n)
      /\ D \in SUBSET (1..Len(text)) /\ C \subseteq D
      /\ (A \cup B) \cup C = 1..n
      /\ \A i \in A : i \notin B
      /\ \A i \in A \cup B : i \notin C
  BY <1>1 DEF Part, TagLetters
<1> HIDE DEF A, B, C, D
<1>3. /\ IsFiniteSet(A) /\ Cardinality(A) \in Nat
      /\ IsFiniteSet(B) /\ Cardinality(B) \in Nat
      /\ IsFiniteSet(C) /\ Cardinality(C) \in Nat
      /\ IsFiniteSet(D) /\ Cardinality(D) \in Nat
  BY <1>1, <1>2, FiniteParts
<1>4. /\ IsFiniteSet(A \cup B)
      /\ Cardinality(A \cup B) = Cardinality(A) + Cardinality(B)
  BY <1>2, <1>3, DisjointUnion
<1>5. Cardinality((A \cup B) \cup C) = Cardinality(A \cup B) + Cardinality(C)
  BY <1>2, <1>3, <1>4, DisjointUnion
<1>6. Cardinality((A \cup B) \cup C) = n
  <2>1. Cardinality(1..n) = n  BY <1>1, FS_Interval
  <2> QED BY <1>2, <2>1
<1>7. Cardinality(C) <= Cardinality(D)  BY <1>2, <1>3, FS_Subset
<1>8. /\ Cardinality(A) + Cardinality(B) <= n
      /\ Cardinality(A) + Cardinality(B) + Cardinality(D) >= n
  BY <1>1, <1>3, <1>4, <1>5, <1>6, <1>7
<1> QED BY <1>3, <1>8 DEF A, B, D

LEMMA PartLetters ==
  ASSUME NEW text \in Texts, NEW n \in 0..Len(text), NEW c
  PROVE  /\ Letters(text, Part(text, 0, n, c)) \in Texts
         /\ Len(Letters(text, Part(text, 0, n, c)))
              = Cardinality(Part(text, 0, n, c))
<1>1. Part(text, 0, n, c) \in SUBSET (1..Len(text))  BY DEF Part, Texts
<1> QED BY <1>1, LettersAre

LEMMA ReadIsAccounted ==
  ASSUME NEW text \in Texts, NEW n, NEW inside, NEW held, NEW answer,
         NEW thought, Read(text, n, inside, held, answer, thought)
  PROVE  AllKept(text, held, answer, thought)
<1> DEFINE l == Len(text)
           a == Len(answer)
           r == Len(thought)
           h == Len(held)
           t == Cardinality(TagLetters(text))
<1>1. n \in 0..Len(text) /\ h = l - n  BY DEF Read
<1>2. /\ a = Cardinality(Part(text, 0, n, FALSE))
      /\ r = Cardinality(Part(text, 0, n, TRUE))
  BY <1>1, PartLetters DEF Read
<1>3. /\ a \in Nat /\ r \in Nat /\ a + r <= n /\ t \in Nat /\ a + r + t >= n
  BY <1>1, <1>2, PartsCount
<1>4. l \in Nat /\ n \in Nat  BY <1>1 DEF Texts
<1> HIDE DEF l, a, r, h, t
<1>5. a + r + h <= l /\ a + r + h + t >= l  BY <1>1, <1>3, <1>4
<1> QED BY <1>5 DEF AllKept, l, a, r, h, t

-----------------------------------------------------------------------------
(* The invariant holds initially and under every action.                   *)

LEMMA EmptyTexts ==
  <<>> \in Texts /\ Len(<<>>) = 0 /\ \A n \in Nat : After(<<>>, n) = <<>>
BY DEF Texts, After

LEMMA InitInv == Init => IInv
<1> SUFFICES ASSUME Init  PROVE IInv  OBVIOUS
<1>0. /\ filter.insideThink = FALSE /\ filter.disabled = FALSE
      /\ filter.buffer = <<>> /\ fed = <<>>
      /\ content = <<>> /\ reasoning = <<>> /\ flushed = FALSE
  BY DEF Init
<1>1. Types  BY EmptyTexts DEF Types, Init
<1>2. TypeOK
  <2>1. /\ Tag(filter.insideThink) \in Texts
        /\ Len(Tag(filter.insideThink)) > 1
    BY TagTypes
  <2>2. Upto(Tag(filter.insideThink), 0) = <<>>
    BY <2>1 DEF Upto, Texts
  <2>3. 0 < Len(Tag(filter.insideThink))  BY <2>1, TagTypes
  <2>4. Len(filter.buffer) = 0  BY <1>0, EmptyTexts
  <2>5. filter.buffer = Upto(Tag(filter.insideThink), Len(filter.buffer))
    BY <1>0, <2>2, <2>4
  <2> QED BY <1>0, <2>3, <2>4, <2>5 DEF TypeOK
<1>3. ReadAsMeant(0)
  <2>1. \A b : Found(Tag(b), fed) = {}  BY <1>0, EmptyTexts DEF Found
  <2>2. ~ Thinking(fed, 0 + 1)
    <3>1. Found(openTag, fed) = {}  BY <2>1, TagTypes
    <3> QED BY <3>1 DEF Thinking
  <2>3. Settled(fed, 0)  BY DEF Settled
  <2>4. \A c : Part(fed, 0, 0, c) = {}  BY DEF Part
  <2>5. Letters(fed, {}) = <<>>  BY <1>0, EmptyTexts, NoLetters
  <2>6. After(fed, 0) = <<>>  BY <1>0, EmptyTexts
  <2>7. \A c : Letters(fed, Part(fed, 0, 0, c)) = <<>>  BY <2>4, <2>5
  <2>8. 0 \in 0..Len(fed) /\ Len(filter.buffer) = Len(fed) - 0
    BY <1>0, EmptyTexts
  <2> QED BY <1>0, <2>2, <2>3, <2>6, <2>7, <2>8
    DEF ReadAsMeant, Read
<1>4. Undisturbed  BY <1>3 DEF Undisturbed
<1>5. Accounted
  BY <1>1, <1>3, ReadIsAccounted DEF Types, ReadAsMeant, Accounted
<1> QED BY <1>1, <1>2, <1>4, <1>5 DEF IInv

LEMMA TextTypes ==
  ASSUME Types, NEW text \in Text
  PROVE  text \in Texts
<1>1. PICK n \in 0..(MaxText - Len(fed)) : text \in [1..n -> Letter]
  BY DEF Text
<1>2. n \in Nat  BY MaxTextAssumption DEF Types, Texts
<1> QED BY <1>1, <1>2, FunctionIsSeq DEF Texts

(* A fragment that is fed.                                                 *)
LEMMA FeedStep ==
  ASSUME IInv, NEW text \in Text, FeedText(text)
  PROVE  IInv'
<1> DEFINE f == [inside |-> filter.insideThink, text |-> filter.buffer \o text]
           out == Feed[f]
           T == fed \o text
<1>1. /\ fed \in Texts /\ content \in Texts /\ reasoning \in Texts
      /\ filter.insideThink \in BOOLEAN /\ filter.buffer \in Texts
      /\ text \in Texts
  BY TextTypes DEF IInv, Types
<1>2. /\ ~flushed /\ ~filter.disabled /\ ~flushed' /\ fed' = T
      /\ content' = content \o out.content
      /\ reasoning' = reasoning \o out.reasoning
      /\ filter' = [filter EXCEPT !.insideThink = out.inside,
                                  !.buffer = out.buffer]
  BY DEF FeedText
<1>3. PICK n \in Nat : ReadAsMeant(n)  BY <1>2 DEF IInv, Undisturbed
<1>4. /\ n \in 0..Len(fed) /\ Settled(fed, n)
      /\ filter.buffer = After(fed, n)
      /\ filter.insideThink <=> Thinking(fed, n + 1)
      /\ content = Letters(fed, Part(fed, 0, n, FALSE))
      /\ reasoning = Letters(fed, Part(fed, 0, n, TRUE))
  BY <1>2, <1>3 DEF ReadAsMeant, Read
<1>5. /\ T \in Texts /\ Len(T) = Len(fed) + Len(text) /\ Extends(T, fed)
      /\ After(T, n) = filter.buffer \o text
  <2>1. T \in Texts /\ Len(T) = Len(fed) + Len(text) /\ Extends(T, fed)
    BY <1>1, Fragment
  <2>2. After(T, n) = After(fed, n) \o text
    BY <1>1, <1>4, FragmentAfter
  <2> HIDE DEF T
  <2> QED BY <1>4, <2>1, <2>2
<1>6. Len(fed) \in Nat /\ Len(text) \in Nat /\ n \in Nat  BY <1>1 DEF Texts
<1> HIDE DEF T
<1>7. n \in 0..Len(T) /\ n + 1 <= Len(fed) + 1 /\ n + 1 \in Nat
  BY <1>4, <1>5, <1>6
<1>8. /\ Settled(T, n)
      /\ filter.insideThink <=> Thinking(T, n + 1)
  <2>1. Settled(T, n)  BY <1>1, <1>4, <1>5, SettledLater
  <2>2. Thinking(T, n + 1) <=> Thinking(fed, n + 1)
    BY <1>1, <1>5, <1>7, ThinkingEarlier
  <2> QED BY <1>4, <2>1, <2>2
<1>9. \A c : Letters(T, Part(T, 0, n, c)) = Letters(fed, Part(fed, 0, n, c))
  BY <1>1, <1>4, <1>5, PartEarlier
<1>10. /\ f \in Loops /\ f.text = After(T, n)
       /\ f.inside <=> Thinking(T, n + 1)
  <2>1. filter.buffer \o text \in Texts  BY <1>1 DEF Texts
  <2> QED BY <1>1, <1>5, <1>8, <2>1 DEF Loops
<1> HIDE DEF f
<1>11. PICK m : ReadsTo(T, n, out, m)
  BY <1>5, <1>7, <1>8, <1>10, FeedReads
<1> HIDE DEF out
<1>12. /\ out \in Outs
       /\ m \in n..Len(T) /\ Len(out.buffer) = Len(T) - m
       /\ out.buffer = After(T, m)
       /\ out.content = Letters(T, Part(T, n, m, FALSE))
       /\ out.reasoning = Letters(T, Part(T, n, m, TRUE))
       /\ out.inside <=> Thinking(T, m + 1)
       /\ Settled(T, m)
       /\ Len(out.buffer) < Len(Tag(out.inside))
       /\ MayBe(Tag(out.inside), T, m + 1)
  BY <1>11 DEF ReadsTo, ComesOut
<1>13. /\ m \in Nat /\ 0 <= n /\ n <= m /\ m <= Len(T) /\ m \in 0..Len(T)
       /\ Len(T) \in Nat
  BY <1>5, <1>6, <1>12
<1>14. \A c : /\ Letters(T, Part(T, 0, m, c))
                   = Letters(T, Part(T, 0, n, c))
                       \o Letters(T, Part(T, n, m, c))
              /\ Letters(T, Part(T, 0, n, c)) \in Texts
              /\ Letters(T, Part(T, n, m, c)) \in Texts
  BY <1>5, <1>6, <1>13, PartsJoin
<1>15. /\ content' = Letters(T, Part(T, 0, m, FALSE))
       /\ reasoning' = Letters(T, Part(T, 0, m, TRUE))
  BY <1>2, <1>4, <1>9, <1>12, <1>14
<1>16. /\ filter'.insideThink = out.inside /\ filter'.buffer = out.buffer
       /\ filter'.disabled = FALSE
       /\ filter' \in [insideThink : BOOLEAN, buffer : Texts, disabled : BOOLEAN]
  BY <1>2, <1>12 DEF IInv, Types, Outs
<1>17. Types'
  <2>1. \A c : Letters(T, Part(T, 0, m, c)) \in Texts
    BY <1>5, <1>13, PartLetters
  <2>2. flushed' \in BOOLEAN  BY DEF IInv, Types, FeedText
  <2> QED BY <1>2, <1>5, <1>15, <1>16, <2>1, <2>2 DEF Types
<1>18. TypeOK'
  <2>1. out.inside \in BOOLEAN  BY <1>12 DEF Outs
  <2>2. out.buffer = Upto(Tag(out.inside), Len(out.buffer))
    BY <1>5, <1>12, <1>13, <2>1, StartOfTag
  <2> QED BY <1>2, <1>12, <1>16, <2>1, <2>2 DEF TypeOK
<1>19. Read(fed', m, filter'.insideThink, filter'.buffer, content', reasoning')
  BY <1>2, <1>12, <1>13, <1>15, <1>16 DEF Read
<1>20. Undisturbed'
  <2>1. ReadAsMeant(m)'  BY <1>2, <1>12, <1>19 DEF ReadAsMeant
  <2> QED BY <1>13, <2>1 DEF Undisturbed
<1>21. Accounted'
  BY <1>2, <1>5, <1>19, ReadIsAccounted DEF Accounted
<1> QED BY <1>17, <1>18, <1>20, <1>21 DEF IInv

(* A fragment that passes through: it leaves tags where they were.         *)
LEMMA PassStep ==
  ASSUME IInv, NEW text \in Text, PassThrough(text)
  PROVE  IInv'
<1> DEFINE T == fed \o text
           l == Len(fed)
           a == Len(content)
           r == Len(reasoning)
           h == Len(filter.buffer)
           n == Len(text)
           before == Cardinality(TagLetters(fed))
           after == Cardinality(TagLetters(T))
<1>1. /\ fed \in Texts /\ content \in Texts /\ reasoning \in Texts
      /\ filter.insideThink \in BOOLEAN /\ filter.buffer \in Texts
      /\ text \in Texts
  BY TextTypes DEF IInv, Types
<1>2. /\ ~flushed' /\ ~flushed /\ fed' = T /\ content' = content \o text
      /\ reasoning' = reasoning
      /\ filter' = [filter EXCEPT !.disabled = TRUE]
  BY DEF PassThrough
<1>3. /\ filter'.insideThink = filter.insideThink
      /\ filter'.buffer = filter.buffer /\ filter'.disabled = TRUE
      /\ filter' \in [insideThink : BOOLEAN, buffer : Texts, disabled : BOOLEAN]
  BY <1>2 DEF IInv, Types
<1>4. T \in Texts /\ Len(T) = l + n /\ Extends(T, fed)
  BY <1>1, Fragment
<1>5. content \o text \in Texts /\ Len(content \o text) = a + n
  BY <1>1, Fragment
<1>6. Types'
  <2>1. flushed' \in BOOLEAN  BY DEF IInv, Types, PassThrough
  <2>2. fed' \in Texts /\ content' \in Texts /\ reasoning' \in Texts
    BY <1>1, <1>2, <1>4, <1>5
  <2> QED BY <1>3, <2>1, <2>2 DEF Types
<1>7. TypeOK'  BY <1>2, <1>3 DEF IInv, TypeOK
<1>8. Undisturbed'  BY <1>3 DEF Undisturbed
<1>9. l \in Nat /\ a \in Nat /\ r \in Nat /\ h \in Nat /\ n \in Nat
  BY <1>1 DEF Texts
<1>10. before \in Nat /\ after \in Nat /\ before <= after
  <2>1. TagLetters(fed) \in SUBSET (1..l)  BY DEF TagLetters
  <2>2. TagLetters(T) \in SUBSET (1..(l + n))  BY <1>4 DEF TagLetters
  <2>3. TagLetters(fed) \subseteq TagLetters(T)
    <3>1. \A i \in 1..Len(fed) : i \in 1..Len(T)  BY <1>4, <1>9
    <3>2. \A i \in 1..Len(fed) : InTag(fed, i) => InTag(T, i)
      BY <1>1, <1>4, InTagLater
    <3> QED BY <3>1, <3>2 DEF TagLetters
  <2>4. l + n \in Nat  BY <1>9
  <2>5. before \in Nat /\ after \in Nat /\ IsFiniteSet(TagLetters(T))
    BY <1>9, <2>1, <2>2, <2>4, FiniteParts
  <2> QED BY <2>3, <2>5, FS_Subset
<1>11. a + r + h <= l /\ a + r + h + before >= l
  BY DEF IInv, Accounted, AllKept
<1>12. /\ Len(fed') = l + n /\ Len(content') = a + n /\ Len(reasoning') = r
       /\ Len(filter'.buffer) = h /\ TagLetters(fed') = TagLetters(T)
  BY <1>2, <1>3, <1>4, <1>5
<1>13. (a + n) + r + h <= l + n /\ (a + n) + r + h + after >= l + n
  <2> HIDE DEF l, a, r, h, n, before, after
  <2> QED BY <1>9, <1>10, <1>11
<1>14. Accounted'
  BY <1>12, <1>13 DEF Accounted, AllKept
<1> QED BY <1>6, <1>7, <1>8, <1>14 DEF IInv

(* The end: what was held back is text, for no tag came of it.             *)
LEMMA HeldIsText ==
  ASSUME NEW text \in Texts, NEW n \in 0..Len(text), Settled(text, n),
         NEW b \in BOOLEAN, Thinking(text, n + 1) <=> b,
         NEW held, held = After(text, n), Len(held) < Len(Tag(b)),
         held = Upto(Tag(b), Len(held))
  PROVE  /\ Letters(text, Part(text, n, Len(text), b)) = held
         /\ Letters(text, Part(text, n, Len(text), ~b)) = <<>>
         /\ Thinking(text, Len(text) + 1) <=> b
<1> DEFINE l == Len(text)
           tag == Tag(b)
<1>1. /\ l \in Nat /\ n \in Nat /\ n <= l /\ Len(tag) \in Nat
      /\ l \in Nat /\ l <= Len(text)
  BY TagTypes DEF Texts
<1>2. Len(held) = l - n  BY RestOfText
<1>3. MayBe(tag, text, n + 1)  BY StartOfTag
<1>4. \A a \in Found(tag, text) : a <= n
  <2> TAKE a \in Found(tag, text)
  <2>1. a \in Nat /\ a + Len(tag) - 1 <= l  BY FoundThere
  <2> HIDE DEF tag, l
  <2> QED BY <1>1, <1>2, <2>1 DEF tag
<1>5. Held(text, n, tag, n)
  <2>1. n \in n..Len(text) /\ Len(text) - n < Len(tag)  BY <1>1, <1>2
  <2>2. (n + 1)..n = {}  BY <1>1
  <2> QED BY <1>3, <2>1, <2>2 DEF Held
<1>6. /\ \A i \in (n + 1)..Len(text) : ~InTag(text, i) /\ (Thinking(text, i) <=> b)
      /\ \A i \in (n + 1)..(Len(text) + 1) : Thinking(text, i) <=> b
  BY <1>1, <1>4, <1>5, NoFurtherTag
<1>7. /\ Letters(text, Part(text, n, l, b)) = SubSeq(text, n + 1, l)
      /\ Letters(text, Part(text, n, l, ~b)) = <<>>
  BY <1>1, <1>6, PartRun
<1>8. Thinking(text, l + 1) <=> b
  <2>1. l + 1 \in (n + 1)..(l + 1)  BY <1>1
  <2> QED BY <1>6, <2>1
<1> QED BY <1>7, <1>8 DEF After

LEMMA FlushStep ==
  ASSUME IInv, Flush
  PROVE  IInv'
<1> DEFINE l == Len(fed)
           a == Len(content)
           r == Len(reasoning)
           h == Len(filter.buffer)
           t == Cardinality(TagLetters(fed))
           held == filter.buffer
           b == filter.insideThink
<1>1. /\ fed \in Texts /\ content \in Texts /\ reasoning \in Texts
      /\ b \in BOOLEAN /\ held \in Texts
  BY DEF IInv, Types
<1>2. /\ ~flushed /\ flushed' = TRUE /\ fed' = fed
      /\ b => reasoning' = reasoning \o held /\ content' = content
      /\ ~b => content' = content \o held /\ reasoning' = reasoning
      /\ filter' = [filter EXCEPT !.buffer = <<>>]
  BY DEF Flush
<1>3. /\ filter'.insideThink = b /\ filter'.buffer = <<>>
      /\ filter'.disabled = filter.disabled
      /\ filter' \in [insideThink : BOOLEAN, buffer : Texts, disabled : BOOLEAN]
  BY <1>2, EmptyTexts DEF IInv, Types
<1>4. /\ reasoning \o held \in Texts /\ Len(reasoning \o held) = r + h
      /\ content \o held \in Texts /\ Len(content \o held) = a + h
  BY <1>1, Fragment
<1>5. content' \in Texts /\ reasoning' \in Texts
  BY <1>1, <1>2, <1>4
<1>6. Types'  BY <1>1, <1>2, <1>3, <1>5 DEF Types
<1>7. TypeOK'
  <2>1. Tag(b) \in Texts /\ Len(Tag(b)) > 1 /\ Len(Tag(b)) \in Nat
    BY TagTypes
  <2>2. Upto(Tag(b), 0) = <<>>  BY <2>1 DEF Upto, Texts
  <2>3. 0 < Len(Tag(b)) /\ Len(filter'.buffer) = 0
    BY <1>3, <2>1, EmptyTexts
  <2>4. filter'.buffer = Upto(Tag(b), Len(filter'.buffer))
    BY <1>3, <2>2, <2>3
  <2>5. filter'.insideThink \in BOOLEAN /\ filter'.disabled \in BOOLEAN
    BY <1>3
  <2> QED BY <1>3, <2>3, <2>4, <2>5 DEF TypeOK
<1>8. Accounted'
  <2>1. l \in Nat /\ a \in Nat /\ r \in Nat /\ h \in Nat  BY <1>1 DEF Texts
  <2>2. t \in Nat
    <3>1. TagLetters(fed) \in SUBSET (1..l)  BY DEF TagLetters
    <3> QED BY <2>1, <3>1, FiniteParts
  <2>3. a + r + h <= l /\ a + r + h + t >= l
    BY DEF IInv, Accounted, AllKept
  <2>4. Len(filter'.buffer) = 0 /\ fed' = fed  BY <1>2, <1>3, EmptyTexts
  <2>5. \/ Len(content') = a /\ Len(reasoning') = r + h
        \/ Len(content') = a + h /\ Len(reasoning') = r
    BY <1>1, <1>2, <1>4
  <2> HIDE DEF l, a, r, h, t
  <2>6. /\ a + (r + h) + 0 <= l /\ a + (r + h) + 0 + t >= l
        /\ (a + h) + r + 0 <= l /\ (a + h) + r + 0 + t >= l
    BY <2>1, <2>2, <2>3
  <2>7. LET kept == Len(content') + Len(reasoning') + Len(filter'.buffer)
        IN  kept <= l /\ kept + t >= l
    BY <2>4, <2>5, <2>6
  <2> QED BY <2>4, <2>7 DEF Accounted, AllKept, l, t
<1>9. Undisturbed'
  <2> SUFFICES ASSUME ~filter.disabled  PROVE ReadAsMeant(l)'
    <3>1. l \in Nat /\ fed' = fed  BY <1>1, <1>2 DEF Texts
    <3> QED BY <1>2, <1>3, <3>1 DEF Undisturbed
  <2>1. PICK n \in Nat : ReadAsMeant(n)  BY DEF IInv, Undisturbed
  <2>2. /\ n \in 0..Len(fed) /\ Settled(fed, n) /\ held = After(fed, n)
        /\ Thinking(fed, n + 1) <=> b
        /\ content = Letters(fed, Part(fed, 0, n, FALSE))
        /\ reasoning = Letters(fed, Part(fed, 0, n, TRUE))
    BY <1>2, <2>1 DEF ReadAsMeant, Read
  <2>3. Len(held) < Len(Tag(b)) /\ held = Upto(Tag(b), Len(held))
    BY DEF IInv, TypeOK
  <2>4. /\ Letters(fed, Part(fed, n, l, b)) = held
        /\ Letters(fed, Part(fed, n, l, ~b)) = <<>>
        /\ Thinking(fed, l + 1) <=> b
    <3> HIDE DEF held, b
    <3> QED BY <1>1, <2>2, <2>3, HeldIsText
  <2>5. l \in Nat /\ n <= l /\ l <= Len(fed) /\ n \in Nat /\ l \in 0..Len(fed)
    BY <1>1, <2>2 DEF Texts
  <2>6. \A c : Letters(fed, Part(fed, 0, l, c))
                 = Letters(fed, Part(fed, 0, n, c))
                     \o Letters(fed, Part(fed, n, l, c))
    <3>1. n \in 0..Len(fed) /\ l \in n..Len(fed) /\ fed \in Texts
      BY <1>1, <2>5
    <3> HIDE DEF l
    <3> QED BY <3>1, StartAndMore
  <2>7. content \o <<>> = content /\ reasoning \o <<>> = reasoning
    BY <1>1, JoinEmpty
  <2>8. /\ content' = Letters(fed, Part(fed, 0, l, FALSE))
        /\ reasoning' = Letters(fed, Part(fed, 0, l, TRUE))
    <3>1. CASE b = TRUE
      <4>1. /\ Letters(fed, Part(fed, n, l, TRUE)) = held
            /\ Letters(fed, Part(fed, n, l, FALSE)) = <<>>
        BY <2>4, <3>1
      <4> QED BY <1>2, <2>2, <2>6, <2>7, <3>1, <4>1
    <3>2. CASE b = FALSE
      <4>1. /\ Letters(fed, Part(fed, n, l, FALSE)) = held
            /\ Letters(fed, Part(fed, n, l, TRUE)) = <<>>
        BY <2>4, <3>2
      <4> QED BY <1>2, <2>2, <2>6, <2>7, <3>2, <4>1
    <3> QED BY <1>1, <3>1, <3>2
  <2>9. <<>> = After(fed, l) /\ Len(<<>>) = Len(fed) - l
    <3>1. Len(After(fed, l)) = 0 /\ After(fed, l) \in Texts
      BY <1>1, <2>5, RestFacts
    <3>2. \A i \in 1..0 : After(fed, l)[i] = <<>>[i]  OBVIOUS
    <3>3. After(fed, l) = <<>>
      <4> DEFINE rest == After(fed, l)
      <4> HIDE DEF rest
      <4>1. rest = <<>>  BY <3>1, EmptyTexts, SameTexts DEF rest
      <4> QED BY <4>1 DEF rest
    <3> QED BY <2>5, <3>3, EmptyTexts
  <2>10. Read(fed, l, b, <<>>, content', reasoning')
    <3> HIDE DEF l
    <3> QED BY <2>4, <2>5, <2>8, <2>9 DEF Read, l
  <2> QED BY <1>2, <1>3, <2>10 DEF ReadAsMeant
<1> QED BY <1>6, <1>7, <1>8, <1>9 DEF IInv

LEMMA StepInv == IInv /\ [Next]_vars => IInv'
<1> SUFFICES ASSUME IInv, [Next]_vars  PROVE IInv'  OBVIOUS
<1>1. CASE \E text \in Text : FeedText(text) \/ PassThrough(text)
  BY <1>1, FeedStep, PassStep
<1>2. CASE Flush
  BY <1>2, FlushStep
<1>3. CASE UNCHANGED vars
  BY <1>3 DEF vars, IInv, Types, TypeOK, Undisturbed, ReadAsMeant, Accounted
<1> QED BY <1>1, <1>2, <1>3 DEF Next

LEMMA InvariantHolds == Spec => []IInv
<1> QED BY InitInv, StepInv, PTL DEF Spec

-----------------------------------------------------------------------------
(* What the runs check, for any letters, tags and texts.                   *)

(* However the text is cut, the filter never holds back as much as a whole *)
(* tag, always the beginning of the one it waits for, and after flush()    *)
(* nothing.                                                                *)
THEOREM TypeCorrect == Spec => []TypeOK
<1>1. IInv => TypeOK  BY DEF IInv
<1> QED BY <1>1, InvariantHolds, PTL

LEMMA WholeText ==
  ASSUME NEW text \in Texts
  PROVE  /\ AnswerOf(text) = Letters(text, Part(text, 0, Len(text), FALSE))
         /\ ReasoningOf(text) = Letters(text, Part(text, 0, Len(text), TRUE))
         /\ Upto(text, Len(text)) = text
<1>1. Len(text) \in Nat  BY DEF Texts
<1>2. /\ Part(text, 0, Len(text), FALSE)
           = {i \in 1..Len(text) : ~InTag(text, i) /\ ~Thinking(text, i)}
      /\ Part(text, 0, Len(text), TRUE)
           = {i \in 1..Len(text) : ~InTag(text, i) /\ Thinking(text, i)}
  BY <1>1 DEF Part
<1>3. Upto(text, Len(text)) = text  BY DEF Upto, Texts
<1> QED BY <1>2, <1>3 DEF AnswerOf, ReasoningOf

LEMMA ReadIsMeaning ==
  ASSUME IInv, ~filter.disabled
  PROVE  LET settled == Upto(fed, Len(fed) - Len(filter.buffer))
         IN  /\ content = AnswerOf(settled) /\ reasoning = ReasoningOf(settled)
             /\ flushed => settled = fed
<1>1. PICK n \in Nat : ReadAsMeant(n)  BY DEF IInv, Undisturbed
<1>2. fed \in Texts /\ Len(fed) \in Nat  BY DEF IInv, Types, Texts
<1>3. /\ n \in 0..Len(fed) /\ Len(filter.buffer) = Len(fed) - n
      /\ content = Letters(fed, Part(fed, 0, n, FALSE))
      /\ reasoning = Letters(fed, Part(fed, 0, n, TRUE))
      /\ ~flushed => Settled(fed, n)
  BY <1>1 DEF ReadAsMeant, Read
<1>4. Len(fed) - Len(filter.buffer) = n  BY <1>2, <1>3
<1> DEFINE settled == Upto(fed, n)
<1>5. settled \in Texts /\ Len(settled) = n  BY <1>2, <1>3, StartOfText
<1>6. flushed => n = Len(fed)
  <2> SUFFICES ASSUME flushed  PROVE n = Len(fed)  OBVIOUS
  <2>1. Len(filter.buffer) = 0  BY EmptyTexts DEF IInv, TypeOK
  <2> QED BY <1>2, <1>3, <2>1
<1>7. flushed => settled = fed  BY <1>2, <1>6, WholeText
<1>8. \A c : Letters(fed, Part(fed, 0, n, c))
               = Letters(settled, Part(settled, 0, n, c))
  <2>1. CASE flushed  BY <1>7, <2>1
  <2>2. CASE ~flushed
    <3>1. Settled(fed, n)  BY <1>3, <2>2
    <3> QED BY <1>2, <1>3, <3>1, PartStart
  <2> QED BY <2>1, <2>2
<1> HIDE DEF settled
<1>9. /\ AnswerOf(settled) = Letters(settled, Part(settled, 0, n, FALSE))
      /\ ReasoningOf(settled) = Letters(settled, Part(settled, 0, n, TRUE))
  BY <1>5, WholeText
<1>10. content = AnswerOf(settled) /\ reasoning = ReasoningOf(settled)
  BY <1>3, <1>8, <1>9
<1> QED BY <1>4, <1>7, <1>10 DEF settled

(* Where a provider cuts its text makes no difference: Feed() and flush()  *)
(* put out, letter for letter, what the tags of the whole text mean.       *)
THEOREM SplitMakesNoDifference == Spec => []SplitIrrelevant
<1>1. IInv => SplitIrrelevant
  BY ReadIsMeaning DEF SplitIrrelevant
<1> QED BY <1>1, InvariantHolds, PTL

(* A provider that turns to reasoning of its own in mid-tag loses no       *)
(* letter either but those of tags, and none is put out twice.             *)
THEOREM NoLetterLost == Spec => []NothingLost
<1>1. IInv => NothingLost
  BY DEF IInv, Accounted, AllKept, TagLetters, NothingLost
<1> QED BY <1>1, InvariantHolds, PTL

=============================================================================
