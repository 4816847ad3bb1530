---------------------------- MODULE ThinkFilter ----------------------------
(***************************************************************************)
(* thinkTagFilter (utils.go): the text of a stream arrives in fragments    *)
(* cut anywhere, also inside a tag, and what stands between an open and a  *)
(* close tag comes out as reasoning.  A provider may also send reasoning   *)
(* of its own; from then on the filter is off.                             *)
(*                                                                         *)
(* Text is a sequence of letters.  The tags are constants, so that they    *)
(* can be shorter than "<think>" and "</think>".                           *)
(***************************************************************************)
EXTENDS Naturals, Sequences, FiniteSets, Ascending

CONSTANTS
  Letter,
  openTag, closeTag,
  MaxText        \* bound: letters in a stream

(* As in "<think>" and "</think>": the first letter of a tag is not found  *)
(* again in either, and neither tag begins with the other.                 *)
ASSUME TagAssumption ==
  /\ openTag \in Seq(Letter) /\ closeTag \in Seq(Letter)
  /\ Len(openTag) > 1 /\ Len(closeTag) > 1
  /\ \A i \in 2..Len(openTag) : openTag[i] \notin {openTag[1], closeTag[1]}
  /\ \A i \in 2..Len(closeTag) : closeTag[i] \notin {openTag[1], closeTag[1]}
  /\ \E i \in 1..Len(openTag) : i <= Len(closeTag) /\ openTag[i] # closeTag[i]

ASSUME MaxTextAssumption == MaxText \in Nat

VARIABLES
  filter,        \* insideThink, buffer, disabled
  fed,           \* history: all text that arrived
  content,       \* what came out as answer text ...
  reasoning,     \* ... and, out of think tags, as reasoning
  flushed        \* the stream is over

vars == <<filter, fed, content, reasoning, flushed>>

-----------------------------------------------------------------------------
(* Letters i to i + Len(tag) - 1 of the text are this tag.                 *)
Occurs(tag, text, i) ==
  i + Len(tag) - 1 <= Len(text) /\ SubSeq(text, i, i + Len(tag) - 1) = tag

Found(tag, text) == {i \in 1..Len(text) : Occurs(tag, text, i)}

(* strings.Index(): where the first occurrence begins.                     *)
FirstIn(found) == CHOOSE i \in found : \A j \in found : i <= j

BrokenPartialSuffix(text, tag) == 0      \* split tags are not looked for

(* The longest end of the text that a tag begins with, short of a whole.   *)
partialSuffix(text, tag) ==
  LET ends == {n \in 1..(Len(tag) - 1) :
                 n <= Len(text)
                   /\ SubSeq(text, Len(text) - n + 1, Len(text)) = SubSeq(tag, 1, n)}
  IN  IF ends = {} THEN 0 ELSE CHOOSE n \in ends : \A m \in ends : m <= n

Upto(text, n) == SubSeq(text, 1, n)
After(text, n) == SubSeq(text, n + 1, Len(text))

Tag(inside) == IF inside THEN closeTag ELSE openTag

(* Where Feed()'s loop may be: in or out of think tags, with text left.     *)
FeedState == [inside : BOOLEAN, text : Seq(Letter)]

(* Feed()'s loop: from one tag to the next until none is left, then the    *)
(* rest but for what may be the beginning of one.                          *)
Feed[f \in FeedState] ==
  LET tag == Tag(f.inside)
      found == Found(tag, f.text)
      cut == IF found = {} THEN Len(f.text) - partialSuffix(f.text, tag)
                           ELSE FirstIn(found) - 1
      rest == IF found = {}
                THEN [content |-> <<>>, reasoning |-> <<>>,
                      buffer |-> After(f.text, cut), inside |-> f.inside]
                ELSE Feed[[inside |-> ~f.inside,
                           text |-> After(f.text, cut + Len(tag))]]
  IN  IF f.inside
        THEN [rest EXCEPT !.reasoning = Upto(f.text, cut) \o @]
        ELSE [rest EXCEPT !.content = Upto(f.text, cut) \o @]

-----------------------------------------------------------------------------
Init ==
  /\ filter = [insideThink |-> FALSE, buffer |-> <<>>, disabled |-> FALSE]
  /\ fed = <<>> /\ content = <<>> /\ reasoning = <<>>
  /\ flushed = FALSE

Text == UNION {[1..n -> Letter] : n \in 0..(MaxText - Len(fed))}

FeedText(text) ==
  LET out == Feed[[inside |-> filter.insideThink, text |-> filter.buffer \o text]]
  IN  /\ ~flushed /\ ~filter.disabled
      /\ fed' = fed \o text
      /\ content' = content \o out.content
      /\ reasoning' = reasoning \o out.reasoning
      /\ filter' = [filter EXCEPT !.insideThink = out.inside,
                                  !.buffer = out.buffer]
      /\ UNCHANGED flushed

BrokenPassThrough(text) ==     \* switching off empties the buffer
  /\ ~flushed
  /\ fed' = fed \o text
  /\ content' = content \o text
  /\ filter' = [filter EXCEPT !.disabled = TRUE, !.buffer = <<>>]
  /\ UNCHANGED <<reasoning, flushed>>

(* A fragment with reasoning of the provider's own, and every later one,   *)
(* passes through.  What the buffer holds stays there.                     *)
PassThrough(text) ==
  /\ ~flushed
  /\ fed' = fed \o text
  /\ content' = content \o text
  /\ filter' = [filter EXCEPT !.disabled = TRUE]
  /\ UNCHANGED <<reasoning, flushed>>

BrokenFlush ==                 \* the buffer is not emptied
  /\ ~flushed
  /\ IF filter.insideThink
       THEN reasoning' = reasoning \o filter.buffer /\ UNCHANGED content
       ELSE content' = content \o filter.buffer /\ UNCHANGED reasoning
  /\ flushed' = TRUE
  /\ UNCHANGED <<fed, filter>>

Flush ==
  /\ ~flushed
  /\ IF filter.insideThink
       THEN reasoning' = reasoning \o filter.buffer /\ UNCHANGED content
       ELSE content' = content \o filter.buffer /\ UNCHANGED reasoning
  /\ filter' = [filter EXCEPT !.buffer = <<>>]
  /\ flushed' = TRUE
  /\ UNCHANGED fed

Next ==
  \/ \E text \in Text : FeedText(text) \/ PassThrough(text)
  \/ Flush

Spec == Init /\ [][Next]_vars

-----------------------------------------------------------------------------
(* The reference: what the tags of a whole text mean, with no fragments    *)
(* and no state.                                                           *)

(* Reasoning at letter i: the last tag that ended before it is an open     *)
(* one.                                                                    *)
Thinking(text, i) ==
  \E o \in Found(openTag, text) :
    /\ o + Len(openTag) <= i
    /\ \A c \in Found(closeTag, text) : c + Len(closeTag) <= i => c < o

(* A tag has a meaning, and is not text, if it changes that.               *)
InTag(text, i) ==
  \/ \E o \in Found(openTag, text) :
       o <= i /\ i < o + Len(openTag) /\ ~Thinking(text, o)
  \/ \E c \in Found(closeTag, text) :
       c <= i /\ i < c + Len(closeTag) /\ Thinking(text, c)

Letters(text, positions) ==
  LET order == InOrder(positions)
  IN  [n \in 1..Cardinality(positions) |-> text[order[n]]]

AnswerOf(text) ==
  Letters(text, {i \in 1..Len(text) : ~InTag(text, i) /\ ~Thinking(text, i)})

ReasoningOf(text) ==
  Letters(text, {i \in 1..Len(text) : ~InTag(text, i) /\ Thinking(text, i)})

-----------------------------------------------------------------------------
(* Properties.                                                             *)

(* The values the filter takes; what it holds back is always the beginning *)
(* of the one tag it waits for, so never more than that tag's length.      *)
TypeOK ==
  /\ filter.insideThink \in BOOLEAN /\ filter.disabled \in BOOLEAN
  /\ LET tag == Tag(filter.insideThink)
     IN  /\ Len(filter.buffer) < Len(tag)
         /\ filter.buffer = Upto(tag, Len(filter.buffer))
  /\ flushed => filter.buffer = <<>>

(* Where a provider cuts its text makes no difference: the stream comes    *)
(* out as the whole text would, every letter of it once and in order, and  *)
(* before the end of the stream only what may be a tag is missing.         *)
SplitIrrelevant ==
  ~filter.disabled =>
    LET settled == Upto(fed, Len(fed) - Len(filter.buffer))
    IN  /\ content = AnswerOf(settled)
        /\ reasoning = ReasoningOf(settled)
        /\ flushed => content = AnswerOf(fed) /\ reasoning = ReasoningOf(fed)

(* A provider that turns to reasoning of its own in mid-tag loses nothing  *)
(* of its text either: no letter disappears but those of tags.             *)
NothingLost ==
  LET kept == Len(content) + Len(reasoning) + Len(filter.buffer)
  IN  /\ kept <= Len(fed)
      /\ filter.disabled =>
           kept + Cardinality({i \in 1..Len(fed) : InTag(fed, i)}) >= Len(fed)

=============================================================================
