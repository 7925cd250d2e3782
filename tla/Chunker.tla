------------------------------ MODULE Chunker ------------------------------
(***************************************************************************)
(* chunk_text: windows of chunk_size tokens, each starting stride tokens   *)
(* after the one before, each but the last cut back to the last sentence   *)
(* end in its tail.  A text is its number of tokens, the characters of a   *)
(* token, and the offsets behind its sentence ends; a chunk is a span of   *)
(* characters [from, to).  What strip() takes off is blank and left out.   *)
(***************************************************************************)
EXTENDS Integers, Sequences, FiniteSets

CONSTANTS
  Texts,        \* records [total, width, ends]
  Settings,     \* pairs [chunk_size, overlap]
  MinLookback,  \* 50 characters
  Percent       \* 15

ASSUME ChunkerAssumption ==
  /\ {MinLookback, Percent} \subseteq Nat \ {0}
  /\ \A t \in Texts : t.total \in Nat /\ t.width \in Nat \ {0} /\ t.ends \subseteq 2 .. t.total * t.width
  /\ \A s \in Settings : s.chunk_size \in Nat \ {0} /\ s.overlap \in Nat \ {0}
  \* A full window is longer than the shortest tail.
  /\ \A t \in Texts, s \in Settings : s.chunk_size * t.width >= MinLookback

VARIABLES
  text, setting,   \* the call
  start,           \* token at which the next window starts
  chunks,          \* the spans so far
  pc               \* "call", "loop", "done" or "error"

vars == <<text, setting, start, chunks, pc>>

Init ==
  /\ text \in Texts /\ setting \in Settings
  /\ start = 0
  /\ chunks = <<>>
  /\ pc = "call"

\* ValueError when the window would not move; no chunk of an empty text.
Call ==
  /\ pc = "call"
  /\ pc' = IF setting.overlap >= setting.chunk_size THEN "error"
           ELSE IF text.total = 0 THEN "done" ELSE "loop"
  /\ UNCHANGED <<text, setting, start, chunks>>

Greater(m, n) == IF m < n THEN n ELSE m
End == IF start + setting.chunk_size < text.total THEN start + setting.chunk_size ELSE text.total

\* The last 15 percent of the window, at least 50 characters, and the sentence ends in it:
\* a mark and a blank, both inside.
TailFrom(from, to) == to - Greater(MinLookback, ((to - from) * Percent) \div 100)
EndsIn(from, to) == {e \in text.ends : e - 2 >= TailFrom(from, to) /\ e <= to}

\* Seeded bug: matches[0].
SnapToFirst(from, to) ==
  IF EndsIn(from, to) = {} THEN to ELSE CHOOSE e \in EndsIn(from, to) : \A f \in EndsIn(from, to) : e <= f

\* _snap_to_sentence_boundary: where the chunk ends.
Snap(from, to) ==
  IF EndsIn(from, to) = {} THEN to ELSE CHOOSE e \in EndsIn(from, to) : \A f \in EndsIn(from, to) : f <= e

Window ==
  LET from == start * text.width  to == End * text.width
  IN  [from |-> from, to |-> IF End < text.total THEN Snap(from, to) ELSE to]

\* Seeded bug: the loop goes on after a window that ends with the text.
NextWindowPastEnd ==
  /\ pc = "loop"
  /\ chunks' = Append(chunks, Window)
  /\ start' = start + setting.chunk_size - setting.overlap
  /\ pc' = IF start' < text.total THEN "loop" ELSE "done"
  /\ UNCHANGED <<text, setting>>

NextWindow ==
  /\ pc = "loop"
  /\ chunks' = Append(chunks, Window)
  /\ start' = IF End >= text.total THEN start ELSE start + setting.chunk_size - setting.overlap
  /\ pc' = IF End >= text.total THEN "done" ELSE "loop"
  /\ UNCHANGED <<text, setting>>

Next == Call \/ NextWindow

Spec == Init /\ [][Next]_vars
-----------------------------------------------------------------------------
Overlap == setting.overlap * text.width
Successive == {i \in DOMAIN chunks : i + 1 \in DOMAIN chunks}

\* "overlap tokens repeated at the start of the next chunk for context continuity across
\* boundaries": the chunks cover the text from its first to its last token, except that
\* text behind a snapped boundary is lost if the sentence it begins is longer than the
\* overlap.  (With 512 and 64 tokens it is: the tail of 15 percent exceeds the overlap.)
LostOnlyInLongSentences == pc = "done" /\ text.total > 0 =>
  /\ chunks[1].from = 0
  /\ chunks[Len(chunks)].to = text.total * text.width
  /\ \A i \in Successive : chunks[i + 1].from <= chunks[i].to
       \/ \A e \in text.ends : e <= chunks[i].to \/ e > chunks[i].to + Overlap

\* The tail in which a chunk may be cut back is shorter than the way from window to window.
LongestTail(t, s) == Greater(MinLookback, ((s.chunk_size * t.width) * Percent) \div 100)
ShortTails == \A t \in Texts, s \in Settings : s.overlap < s.chunk_size =>
  LongestTail(t, s) < (s.chunk_size - s.overlap) * t.width + 2

\* No chunk lies within the one before it: the loop stops at the window that reaches the
\* end of the text, and if tails are short, no snap takes a chunk back to the end of its
\* predecessor.  (chunk_text accepts any overlap below chunk_size, 500 of 512 included.)
EachChunkAddsText == \A i \in Successive :
  chunks[i].from < chunks[i + 1].from /\ chunks[i].to < chunks[i + 1].to
=============================================================================
