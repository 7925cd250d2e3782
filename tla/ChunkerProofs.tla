--------------------------- MODULE ChunkerProofs ---------------------------
(***************************************************************************)
(* What chunk_text may lose, for any text, window and overlap.  A snap     *)
(* takes a chunk back to the last sentence end of its tail, so no sentence *)
(* ends between a chunk and the end of its window; the next window starts  *)
(* an overlap before that end.                                             *)
(***************************************************************************)
EXTENDS Chunker, WellFoundedInduction, TLAPS

Spans == [from : Nat, to : Nat]

\* No sentence ends behind character c in the window that the next one overlaps.
NoEndBehind(c) == \A e \in text.ends : e <= c \/ e > (start + setting.overlap) * text.width

\* A gap between two chunks is the start of a sentence longer than the overlap.
GapsAreLongSentences == \A i \in Successive : chunks[i + 1].from <= chunks[i].to
  \/ \A e \in text.ends : e <= chunks[i].to \/ e > chunks[i].to + Overlap

ChunkerIInv ==
  /\ text \in Texts /\ setting \in Settings
  /\ start \in Nat /\ chunks \in Seq(Spans)
  /\ pc \in {"call", "loop", "done", "error"}
  /\ pc = "call" => chunks = <<>>
  /\ chunks = <<>> => start = 0
  /\ chunks # <<>> => chunks[1].from = 0
  /\ pc = "loop" => start < text.total /\ setting.overlap < setting.chunk_size
  /\ pc = "loop" /\ chunks # <<>> => NoEndBehind(chunks[Len(chunks)].to)
  /\ pc = "done" /\ text.total > 0 =>
       chunks # <<>> /\ chunks[Len(chunks)].to = text.total * text.width
  /\ GapsAreLongSentences

\* The library's minimum of a set of naturals, turned round.
LEMMA GreatestExists ==
  ASSUME NEW S, NEW b \in Nat, S \subseteq 0 .. b, S # {}
  PROVE  \E m \in S : \A e \in S : e <= m
<1> DEFINE T == {b - e : e \in S}
<1>1. T \subseteq Nat /\ T # {}
  <2>1. \A e \in S : b - e \in Nat OBVIOUS
  <2>2. QED BY <2>1
<1>2. PICK x \in T : \A y \in T : ~ (<<y, x>> \in OpToRel(<, Nat))
  <2>1. IsWellFoundedOn(OpToRel(<, Nat), Nat) BY NatLessThanWellFounded
  <2> HIDE DEF T
  <2>2. QED BY <1>1, <2>1, WFMin
<1>3. PICK m \in S : x = b - m OBVIOUS
<1>4. ASSUME NEW e \in S PROVE e <= m
  <2>1. b - e \in T OBVIOUS
  <2>2. ~ (<<b - e, x>> \in OpToRel(<, Nat)) BY <1>2, <2>1
  <2>3. b - e \in Nat /\ x \in Nat BY <1>1, <2>1
  <2>4. ~ (b - e < x) BY <2>2, <2>3 DEF OpToRel
  <2>5. e \in Nat /\ m \in Nat /\ e <= b /\ m <= b OBVIOUS
  <2>6. QED BY <1>3, <2>4, <2>5
<1>5. QED BY <1>4

LEMMA TextFacts ==
  ASSUME text \in Texts, setting \in Settings
  PROVE  /\ text.total \in Nat /\ text.width \in Nat /\ text.width > 0
         /\ text.ends \subseteq Nat
         /\ setting.chunk_size \in Nat /\ setting.chunk_size > 0
         /\ setting.overlap \in Nat /\ setting.overlap > 0
         /\ MinLookback \in Nat /\ Percent \in Nat
BY ChunkerAssumption

\* The chunk of a window ends behind its last sentence end.
LEMMA SnapIsLast ==
  ASSUME text \in Texts, setting \in Settings, NEW from \in Nat, NEW to \in Nat
  PROVE  /\ Snap(from, to) \in Nat
         /\ \A e \in text.ends : e <= Snap(from, to) \/ e > to
<1>1. CASE EndsIn(from, to) = {}
  <2>1. Snap(from, to) = to BY <1>1 DEF Snap
  <2>2. QED BY <2>1, TextFacts
<1>2. CASE EndsIn(from, to) # {}
  <2> DEFINE m == Snap(from, to)
  <2>1. EndsIn(from, to) \subseteq 0 .. to BY TextFacts DEF EndsIn
  <2>2. \E n \in EndsIn(from, to) : \A f \in EndsIn(from, to) : f <= n
    BY <1>2, <2>1, GreatestExists
  <2>3. m \in EndsIn(from, to) /\ \A f \in EndsIn(from, to) : f <= m
    BY <1>2, <2>2 DEF Snap
  <2>4. TailFrom(from, to) \in Int BY TextFacts DEF TailFrom, Greater
  <2>5. m \in Nat /\ m - 2 >= TailFrom(from, to) BY <2>1, <2>3 DEF EndsIn
  <2>6. ASSUME NEW e \in text.ends, e <= to PROVE e <= m
    <3>1. CASE e \in EndsIn(from, to) BY <2>3, <3>1
    <3>2. CASE ~ (e - 2 >= TailFrom(from, to)) BY <2>4, <2>5, <3>2, TextFacts
    <3>3. QED BY <2>6, <3>1, <3>2 DEF EndsIn
  <2>7. QED BY <2>5, <2>6, TextFacts
<1>3. QED BY <1>1, <1>2

\* Where a window ends, in tokens and in characters.
LEMMA WindowFacts ==
  ASSUME text \in Texts, setting \in Settings, start \in Nat, start < text.total
  PROVE  /\ Window \in Spans /\ Window.from = start * text.width
         /\ End >= text.total => Window.to = text.total * text.width
         /\ End < text.total =>
              /\ End = start + setting.chunk_size
              /\ \A e \in text.ends : e <= Window.to \/ e > End * text.width
<1>1. End \in Nat /\ (End < text.total => End = start + setting.chunk_size)
      /\ (End >= text.total => End = text.total)
  BY TextFacts DEF End
<1>2. start * text.width \in Nat /\ End * text.width \in Nat
  BY <1>1, TextFacts
<1>3. /\ Snap(start * text.width, End * text.width) \in Nat
      /\ \A e \in text.ends : e <= Snap(start * text.width, End * text.width) \/ e > End * text.width
  BY <1>2, SnapIsLast
<1>4. /\ Window.from = start * text.width
      /\ Window.to = IF End < text.total THEN Snap(start * text.width, End * text.width) ELSE End * text.width
      /\ Window = [from |-> Window.from, to |-> Window.to]
  BY DEF Window
<1>5. End < text.total \/ End >= text.total BY <1>1, TextFacts
<1>6. Window.to \in Nat BY <1>2, <1>3, <1>4
<1>7. Window \in Spans BY <1>2, <1>4, <1>6 DEF Spans
<1>8. End >= text.total => Window.to = text.total * text.width
  <2>1. End >= text.total => ~ (End < text.total) /\ End = text.total BY <1>1, TextFacts
  <2>2. QED BY <1>4, <2>1
<1>9. QED BY <1>1, <1>3, <1>4, <1>7, <1>8

LEMMA ChunkerInitially == Init => ChunkerIInv
BY DEF Init, ChunkerIInv, GapsAreLongSentences, Successive, Spans

LEMMA AppendFacts ==
  ASSUME NEW s \in Seq(Spans), NEW c \in Spans
  PROVE  /\ Append(s, c) \in Seq(Spans) /\ Len(Append(s, c)) = Len(s) + 1
         /\ Append(s, c) # <<>> /\ Append(s, c)[Len(s) + 1] = c
         /\ \A i \in 1 .. Len(s) : Append(s, c)[i] = s[i]
         /\ DOMAIN s = 1 .. Len(s) /\ DOMAIN Append(s, c) = 1 .. Len(s) + 1
         /\ Len(s) \in Nat /\ (s # <<>> => Len(s) > 0 /\ s[Len(s)] \in Spans)
         /\ (s = <<>> => Len(s) = 0)
<1>1. Append(s, c) \in Seq(Spans) /\ Len(Append(s, c)) = Len(s) + 1 OBVIOUS
<1>2. Append(s, c)[Len(s) + 1] = c /\ \A i \in 1 .. Len(s) : Append(s, c)[i] = s[i] OBVIOUS
<1>3. Len(s) \in Nat /\ DOMAIN s = 1 .. Len(s) /\ DOMAIN Append(s, c) = 1 .. Len(s) + 1 OBVIOUS
<1>4. s # <<>> => Len(s) > 0 /\ s[Len(s)] \in Spans OBVIOUS
<1>5. Append(s, c) # <<>> BY <1>1, <1>3
<1>6. QED BY <1>1, <1>2, <1>3, <1>4, <1>5

LEMMA ChunkerStep == ChunkerIInv /\ [Next]_vars => ChunkerIInv'
<1> SUFFICES ASSUME ChunkerIInv, [Next]_vars PROVE ChunkerIInv'
  OBVIOUS
<1>0. text \in Texts /\ setting \in Settings /\ start \in Nat /\ chunks \in Seq(Spans)
  BY DEF ChunkerIInv
<1>1. CASE Call
  <2>1. pc = "call" /\ chunks = <<>> /\ start = 0 BY <1>1 DEF Call, ChunkerIInv
  <2>2. UNCHANGED <<text, setting, start, chunks>> BY <1>1 DEF Call
  <2>3. /\ pc' \in {"error", "done", "loop"}
        /\ pc' = "loop" => text.total # 0 /\ ~ (setting.overlap >= setting.chunk_size)
        /\ pc' = "done" => text.total = 0
    BY <1>1 DEF Call
  <2>4. pc' = "loop" => start < text.total /\ setting.overlap < setting.chunk_size
    BY <1>0, <2>1, <2>3, TextFacts
  <2>5. GapsAreLongSentences' BY <2>1, <2>2 DEF GapsAreLongSentences, Successive
  <2>6. pc' = "done" => ~ (text.total > 0) BY <1>0, <2>3, TextFacts
  <2>7. QED BY <1>0, <2>1, <2>2, <2>3, <2>4, <2>5, <2>6 DEF ChunkerIInv
<1>2. CASE NextWindow
  <2> DEFINE n == Len(chunks)
             w == text.width
             ov == setting.overlap
             cs == setting.chunk_size
  <2>1. /\ pc = "loop" /\ chunks' = Append(chunks, Window)
        /\ start' = IF End >= text.total THEN start ELSE start + cs - ov
        /\ pc' = IF End >= text.total THEN "done" ELSE "loop"
        /\ UNCHANGED <<text, setting>>
    BY <1>2 DEF NextWindow
  <2>2. start < text.total /\ ov < cs BY <2>1 DEF ChunkerIInv
  <2>3. /\ Window \in Spans /\ Window.from = start * w
        /\ End >= text.total => Window.to = text.total * w
        /\ End < text.total =>
             End = start + cs /\ \A e \in text.ends : e <= Window.to \/ e > End * w
    BY <1>0, <2>2, WindowFacts
  <2>4. /\ text.total \in Nat /\ w \in Nat /\ ov \in Nat /\ cs \in Nat /\ ov > 0
        /\ text.ends \subseteq Nat
    BY <1>0, TextFacts
  <2>5. /\ chunks' \in Seq(Spans) /\ Len(chunks') = n + 1 /\ n \in Nat
        /\ chunks' # <<>> /\ chunks'[n + 1] = Window
        /\ \A i \in 1 .. n : chunks'[i] = chunks[i]
        /\ DOMAIN chunks = 1 .. n /\ DOMAIN chunks' = 1 .. n + 1
        /\ (chunks # <<>> => n > 0 /\ chunks[n] \in Spans) /\ (chunks = <<>> => n = 0)
    BY <1>0, <2>1, <2>3, AppendFacts
  <2>6. start' \in Nat /\ (End < text.total => start' = End - ov /\ start' < text.total)
    BY <1>0, <2>1, <2>2, <2>3, <2>4, SMTT(30)
  <2>7. End \in Nat BY <1>0, <2>4 DEF End
  <2>8. chunks'[1].from = 0
    <3>1. CASE chunks = <<>>
      <4>1. start = 0 BY <3>1 DEF ChunkerIInv
      <4>2. QED BY <2>3, <2>4, <2>5, <3>1, <4>1
    <3>2. CASE chunks # <<>> BY <2>5, <3>2 DEF ChunkerIInv
    <3>3. QED BY <3>1, <3>2
  <2>9. pc' = "loop" => start' < text.total /\ NoEndBehind(chunks[Len(chunks)].to)'
    <3>1. SUFFICES ASSUME pc' = "loop"
                   PROVE  start' < text.total /\ \A e \in text.ends : e <= Window.to \/ e > (start' + ov) * w
      <4>1. chunks'[Len(chunks')].to = Window.to BY <2>5
      <4>2. QED BY <2>1, <4>1 DEF NoEndBehind
    <3>2. End < text.total
      <4>1. ~ (End >= text.total) BY <2>1, <3>1
      <4>2. QED BY <2>4, <2>7, <4>1
    <3>3. start' + ov = End BY <2>4, <2>6, <2>7, <3>2
    <3>4. QED BY <2>3, <2>6, <3>2, <3>3
  <2>10. pc' = "done" => chunks'[n + 1].to = text.total * w
    BY <2>1, <2>3, <2>5
  <2>11. GapsAreLongSentences'
    <3>1. SUFFICES ASSUME NEW i \in 1 .. n
                   PROVE  \/ chunks'[i + 1].from <= chunks'[i].to
                          \/ \A e \in text.ends : e <= chunks'[i].to \/ e > chunks'[i].to + ov * w
      BY <2>1, <2>5 DEF GapsAreLongSentences, Successive, Overlap
    <3>2. CASE i < n
      <4>1. i \in Successive /\ chunks'[i] = chunks[i] /\ chunks'[i + 1] = chunks[i + 1]
        BY <2>5, <3>2 DEF Successive
      <4>2. QED BY <4>1 DEF ChunkerIInv, GapsAreLongSentences, Overlap
    <3>3. CASE i = n
      <4> DEFINE p == chunks[n].to
      <4>1. chunks # <<>> /\ chunks'[i] = chunks[n] /\ chunks'[i + 1] = Window /\ p \in Nat
        BY <2>5, <3>3 DEF Spans
      <4>2. \A e \in text.ends : e <= p \/ e > (start + ov) * w
        BY <2>1, <4>1 DEF ChunkerIInv, NoEndBehind
      <4>3. (start + ov) * w = start * w + ov * w BY <1>0, <2>4
      <4>4. CASE start * w <= p BY <2>3, <4>1, <4>4
      <4>5. CASE ~ (start * w <= p)
        <5>1. start * w \in Nat /\ ov * w \in Nat BY <1>0, <2>4
        <5>2. \A e \in text.ends : e \in Nat BY <2>4
        <5> HIDE DEF p
        <5>3. \A e \in text.ends : e <= p \/ e > p + ov * w
          BY <4>1, <4>2, <4>3, <4>5, <5>1, <5>2
        <5>4. QED BY <4>1, <5>3 DEF p
      <4>6. QED BY <4>4, <4>5
    <3>4. i < n \/ i = n
      <4>1. n \in Nat /\ i \in 1 .. n BY <2>5
      <4> HIDE DEF n
      <4>2. QED BY <4>1
    <3>5. QED BY <3>2, <3>3, <3>4
  <2>12. pc' \in {"done", "loop"} BY <2>1
  <2>13. chunks'[Len(chunks')] = chunks'[n + 1] BY <2>5
  <2> HIDE DEF n, w, ov, cs
  <2>14. pc' = "loop" => setting'.overlap < setting'.chunk_size BY <2>1, <2>2 DEF ov, cs
  <2>15. pc' = "done" => chunks'[Len(chunks')].to = text'.total * text'.width
    BY <2>1, <2>10, <2>13 DEF w
  <2>16. text' \in Texts /\ setting' \in Settings BY <1>0, <2>1
  <2>17. pc' = "loop" => start' < text'.total BY <2>1, <2>9
  <2>18. QED BY <2>5, <2>6, <2>8, <2>9, <2>11, <2>12, <2>14, <2>15, <2>16, <2>17 DEF ChunkerIInv
<1>3. CASE UNCHANGED vars
  BY <1>3 DEF vars, ChunkerIInv, NoEndBehind, GapsAreLongSentences, Successive, Overlap
<1>4. QED BY <1>1, <1>2, <1>3 DEF Next

LEMMA ChunkerInvariance == Spec => []ChunkerIInv
<1>1. QED BY ChunkerInitially, ChunkerStep, PTL DEF Spec

\* For every text, window and overlap: the chunks cover the text but for gaps behind a
\* snapped boundary whose next sentence is longer than the overlap (chunker.py).
THEOREM ChunksCoverTheText == Spec => []LostOnlyInLongSentences
<1>1. ChunkerIInv => LostOnlyInLongSentences
  BY DEF ChunkerIInv, GapsAreLongSentences, LostOnlyInLongSentences
<1>2. QED BY <1>1, ChunkerInvariance, PTL

-----------------------------------------------------------------------------
(* Each chunk ends behind the one before it if the tail in which a chunk   *)
(* may be cut back is shorter than the way from window to window.          *)

\* The last chunk starts before the next window and ends within the window before it.
AddsIInv ==
  /\ EachChunkAddsText
  /\ pc = "loop" /\ chunks # <<>> =>
       /\ start + setting.overlap < text.total
       /\ chunks[Len(chunks)].from < start * text.width
       /\ chunks[Len(chunks)].to <= (start + setting.overlap) * text.width

\* A snap stays in the tail of its window.
LEMMA SnapIsInTail ==
  ASSUME text \in Texts, setting \in Settings, NEW from \in Nat, NEW to \in Nat
  PROVE  /\ Snap(from, to) <= to
         /\ Snap(from, to) = to \/ Snap(from, to) - 2 >= TailFrom(from, to)
<1>1. CASE EndsIn(from, to) = {} BY <1>1 DEF Snap
<1>2. CASE EndsIn(from, to) # {}
  <2>1. EndsIn(from, to) \subseteq 0 .. to BY TextFacts DEF EndsIn
  <2>2. \E n \in EndsIn(from, to) : \A f \in EndsIn(from, to) : f <= n
    BY <1>2, <2>1, GreatestExists
  <2>3. Snap(from, to) \in EndsIn(from, to) BY <1>2, <2>2 DEF Snap
  <2>4. QED BY <2>3 DEF EndsIn
<1>3. QED BY <1>1, <1>2

LEMMA AddsStep ==
  ASSUME ShortTails
  PROVE  ChunkerIInv /\ AddsIInv /\ [Next]_vars => AddsIInv'
<1> SUFFICES ASSUME ChunkerIInv, AddsIInv, [Next]_vars PROVE AddsIInv'
  OBVIOUS
<1>0. text \in Texts /\ setting \in Settings /\ start \in Nat /\ chunks \in Seq(Spans)
  BY DEF ChunkerIInv
<1>1. CASE Call
  <2>1. chunks = <<>> /\ chunks' = chunks BY <1>1 DEF Call, ChunkerIInv
  <2>2. QED BY <2>1 DEF AddsIInv, EachChunkAddsText, Successive
<1>2. CASE NextWindow
  <2>1. /\ pc = "loop" /\ chunks' = Append(chunks, Window)
        /\ start' = IF End >= text.total THEN start ELSE start + setting.chunk_size - setting.overlap
        /\ pc' = IF End >= text.total THEN "done" ELSE "loop"
        /\ UNCHANGED <<text, setting>>
    BY <1>2 DEF NextWindow
  <2>2. PICK w \in Nat, ov \in Nat, cs \in Nat, total \in Nat, st \in Nat :
          /\ w = text.width /\ ov = setting.overlap /\ cs = setting.chunk_size /\ total = text.total
          /\ st = start /\ w > 0 /\ st < total /\ ov < cs
    BY <1>0, <2>1, TextFacts DEF ChunkerIInv
  <2>3. /\ Window \in Spans /\ Window.from = st * w
        /\ End >= total => Window.to = total * w
        /\ End < total => End = st + cs
    BY <1>0, <2>2, WindowFacts
  <2>4. End \in Nat BY <1>0, <2>2 DEF End
  <2>5. PICK n \in Nat :
        /\ n = Len(chunks) /\ chunks'[n + 1] = Window /\ Len(chunks') = n + 1
        /\ \A i \in 1 .. n : chunks'[i] = chunks[i]
        /\ DOMAIN chunks = 1 .. n /\ DOMAIN chunks' = 1 .. n + 1
        /\ (chunks # <<>> => n > 0 /\ chunks[n] \in Spans) /\ (chunks = <<>> => n = 0)
    BY <1>0, <2>1, <2>3, AppendFacts
  <2>6. /\ st * w \in Nat /\ total * w \in Nat /\ (st + ov) * w \in Nat /\ (st + cs) * w \in Nat
        /\ (cs - ov) * w \in Nat /\ cs * w \in Nat
        /\ (st + cs) * w = (st + ov) * w + (cs - ov) * w
        /\ (st + cs) * w - st * w = cs * w
    <3>1. cs - ov \in Nat BY <2>2
    <3>2. st + cs = (st + ov) + (cs - ov) BY <2>2
    <3>3. ((st + ov) + (cs - ov)) * w = (st + ov) * w + (cs - ov) * w BY <2>2, <3>1
    <3>4. (st + cs) * w = st * w + cs * w OBVIOUS
    <3>5. st * w \in Nat /\ total * w \in Nat /\ (st + ov) * w \in Nat /\ (cs - ov) * w \in Nat /\ cs * w \in Nat
      BY <2>2, <3>1
    <3>6. QED BY <3>2, <3>3, <3>4, <3>5
  <2>7. End < total =>
          /\ Window.to <= (st + cs) * w
          /\ Window.to > (st + ov) * w
    <3> SUFFICES ASSUME End < total
                 PROVE  Window.to <= (st + cs) * w /\ Window.to > (st + ov) * w
      OBVIOUS
    <3>1. PICK a \in Nat, b \in Nat : a = st * w /\ b = (st + cs) * w BY <2>6
    <3>2. End = st + cs BY <2>3
    <3>3. Window.to = Snap(a, b) BY <2>2, <3>1, <3>2 DEF Window
    <3>4. Snap(a, b) <= b /\ (Snap(a, b) = b \/ Snap(a, b) - 2 >= TailFrom(a, b))
      BY <1>0, SnapIsInTail
    <3>5. PICK k : k = LongestTail(text, setting) OBVIOUS
    <3>6. TailFrom(a, b) = b - k
      <4>1. b - a = setting.chunk_size * text.width BY <2>2, <2>6, <3>1
      <4>2. QED BY <3>5, <4>1 DEF TailFrom, LongestTail
    <3>7. k \in Int /\ k < (cs - ov) * w + 2
      <4>1. k < (cs - ov) * w + 2 BY <1>0, <2>2, <3>5 DEF ShortTails
      <4>2. k \in Int BY <1>0, <3>5, TextFacts DEF LongestTail, Greater
      <4>3. QED BY <4>1, <4>2
    <3>8. (cs - ov) * w > 0
      <4>1. PICK d \in Nat : d = cs - ov /\ d > 0 BY <2>2
      <4>2. d * w > 0 BY <2>2, <4>1
      <4>3. QED BY <4>1, <4>2
    <3>9. Snap(a, b) \in Nat BY <1>0, SnapIsLast
    <3>10. Snap(a, b) > (st + ov) * w
      BY <2>6, <3>1, <3>4, <3>6, <3>7, <3>8, <3>9
    <3>11. QED BY <3>1, <3>3, <3>4, <3>10
  <2>8. n > 0 => Window.from > chunks[n].from /\ Window.to > chunks[n].to
    <3> SUFFICES ASSUME n > 0 PROVE Window.from > chunks[n].from /\ Window.to > chunks[n].to
      OBVIOUS
    <3>1. chunks # <<>> /\ chunks[n] \in Spans BY <2>5
    <3>2. /\ st + ov < total /\ chunks[n].from < st * w
          /\ chunks[n].to <= (st + ov) * w /\ chunks[n].to \in Nat /\ chunks[n].from \in Nat
      BY <2>1, <2>2, <2>5, <3>1 DEF AddsIInv, Spans
    <3>3. CASE End >= total
      <4>1. Window.to = total * w BY <2>3, <3>3
      <4>2. total * w > (st + ov) * w
        <5>1. PICK d \in Nat : total = (st + ov) + d /\ d > 0
          <6>1. total - (st + ov) \in Nat /\ total - (st + ov) > 0 /\ total = (st + ov) + (total - (st + ov))
            BY <3>2
          <6>2. QED BY <6>1
        <5>2. ((st + ov) + d) * w = (st + ov) * w + d * w /\ d * w \in Nat /\ d * w > 0 BY <2>2, <5>1
        <5>3. QED BY <2>6, <5>1, <5>2
      <4>3. QED BY <2>3, <2>6, <3>2, <4>1, <4>2
    <3>4. CASE End < total
      <4>1. Window.to \in Nat BY <2>3 DEF Spans
      <4>2. QED BY <2>3, <2>6, <2>7, <3>2, <3>4, <4>1
    <3>5. QED BY <2>4, <3>3, <3>4
  <2>9. EachChunkAddsText'
    <3> SUFFICES ASSUME NEW i \in 1 .. n
                 PROVE  chunks'[i].from < chunks'[i + 1].from /\ chunks'[i].to < chunks'[i + 1].to
      BY <2>5 DEF EachChunkAddsText, Successive
    <3>1. CASE i < n
      <4>1. i \in Successive /\ chunks'[i] = chunks[i] /\ chunks'[i + 1] = chunks[i + 1]
        BY <2>5, <3>1 DEF Successive
      <4>2. QED BY <4>1 DEF AddsIInv, EachChunkAddsText
    <3>2. CASE i = n
      <4>1. n > 0 /\ chunks'[i] = chunks[n] /\ chunks'[i + 1] = Window /\ chunks[n] \in Spans
        BY <2>5, <3>2
      <4>2. /\ chunks[n].from \in Nat /\ chunks[n].to \in Nat
            /\ Window.from \in Nat /\ Window.to \in Nat
        BY <2>3, <4>1 DEF Spans
      <4>3. QED BY <2>8, <4>1, <4>2
    <3>3. QED BY <3>1, <3>2
  <2>10. ASSUME pc' = "loop"
         PROVE  /\ start' + setting'.overlap < text'.total
                /\ chunks'[Len(chunks')].from < start' * text'.width
                /\ chunks'[Len(chunks')].to <= (start' + setting'.overlap) * text'.width
    <3>1. End < total
      <4>1. ~ (End >= total) BY <2>1, <2>2, <2>10
      <4>2. QED BY <2>4, <4>1
    <3>2. start' = st + cs - ov /\ End = st + cs BY <2>1, <2>2, <2>3, <2>4, <3>1
    <3>3. PICK s2 \in Nat : s2 = st + (cs - ov) /\ s2 + ov = st + cs /\ start' = s2
      <4>1. st + cs - ov \in Nat /\ st + cs - ov = st + (cs - ov) /\ (st + cs - ov) + ov = st + cs
        BY <2>2
      <4>2. QED BY <3>2, <4>1
    <3>4. chunks'[Len(chunks')] = Window BY <2>5
    <3>5. st * w < s2 * w
      <4>1. PICK d \in Nat : d = cs - ov /\ d > 0 BY <2>2
      <4>2. (st + d) * w = st * w + d * w /\ d * w > 0 /\ d * w \in Nat BY <2>2, <4>1
      <4>3. s2 * w = st * w + d * w BY <3>3, <4>1, <4>2
      <4>4. QED BY <2>6, <4>2, <4>3
    <3>6. setting' = setting /\ text' = text BY <2>1
    <3>7. start' + setting'.overlap = st + cs BY <2>2, <3>3, <3>6
    <3>8. QED BY <2>2, <2>3, <2>7, <3>1, <3>2, <3>3, <3>4, <3>5, <3>6, <3>7
  <2>11. QED BY <2>9, <2>10 DEF AddsIInv
<1>3. CASE UNCHANGED vars
  BY <1>3 DEF vars, AddsIInv, EachChunkAddsText, Successive
<1>4. QED BY <1>1, <1>2, <1>3 DEF Next

\* Where a snap is always shorter than a stride (512 tokens with an overlap of 64 or 128 are
\* far from the limit) every chunk ends behind the one before: the loop repeats no chunk and
\* stops at the window that reaches the end of the text (chunker.py).
THEOREM ChunksAddText ==
  ASSUME ShortTails
  PROVE  Spec => []EachChunkAddsText
<1>1. Init => AddsIInv BY DEF Init, AddsIInv, EachChunkAddsText, Successive
<1>2. AddsIInv => EachChunkAddsText BY DEF AddsIInv
<1>3. QED BY <1>1, <1>2, AddsStep, ChunkerInvariance, PTL DEF Spec
=============================================================================
