--------------------------- MODULE SessionsProofs ---------------------------
(***************************************************************************)
(* Proofs about Sessions, for any number of sessions, queries and end      *)
(* requests, any window, with or without faults and overlapping queries.   *)
(***************************************************************************)
EXTENDS Sessions, SequenceTheorems, FiniteSetTheorems, WellFoundedInduction, TLAPS

(***************************************************************************)
(* The helpers on sequences.                                               *)
(***************************************************************************)
\* The members of a sequence are the values at its indices.
LEMMA SeqMembers ==
  ASSUME NEW T, NEW q \in Seq(T)
  PROVE  /\ Len(q) \in Nat
         /\ \A x : x \in Range(q) <=> \E i \in 1 .. Len(q) : q[i] = x
         /\ \A i \in 1 .. Len(q) : q[i] \in T
<1>1. Len(q) \in Nat /\ DOMAIN q = 1 .. Len(q)
  BY LenProperties
<1>2. \A i \in 1 .. Len(q) : q[i] \in T
  BY ElementOfSeq
<1>3. \A x : x \in Range(q) <=> \E i \in 1 .. Len(q) : q[i] = x
  BY <1>1 DEF Range
<1>4. QED
  BY <1>1, <1>2, <1>3

\* The window is a sequence of at most Window of the given turns.
LEMMA LastTurnsFacts ==
  ASSUME NEW T, NEW q \in Seq(T)
  PROVE  /\ LastTurns(q) \in Seq(T)
         /\ Len(LastTurns(q)) <= Window
         /\ Range(LastTurns(q)) \subseteq Range(q)
<1>1. CASE Len(q) <= Window
  BY <1>1 DEF LastTurns
<1>2. CASE ~(Len(q) <= Window)
  <2> DEFINE first == Len(q) - Window + 1
             last == SubSeq(q, first, Len(q))
  <2>1. LastTurns(q) = last
    BY <1>2 DEF LastTurns
  <2>2. /\ Len(q) \in Nat /\ Window \in Nat
        /\ first \in Nat /\ first >= 1 /\ first <= Len(q) /\ Len(q) - first + 1 = Window
    BY <1>2, SeqMembers, SessionsAssumption
  <2>3. /\ last \in Seq(T) /\ Len(last) = Window
        /\ \A i \in 1 .. Window : last[i] = q[first + i - 1] /\ first + i - 1 \in 1 .. Len(q)
    BY <2>2
  <2> HIDE DEF last
  <2>4. ASSUME NEW x \in Range(last) PROVE x \in Range(q)
    <3>1. PICK i \in 1 .. Window : last[i] = x
      BY <2>3, SeqMembers
    <3>2. q[first + i - 1] = x /\ first + i - 1 \in 1 .. Len(q)
      BY <2>3, <3>1
    <3> QED
      BY <3>2, SeqMembers
  <2>5. Range(last) \subseteq Range(q)
    BY <2>4
  <2> QED
    BY <2>1, <2>2, <2>3, <2>5
<1> QED
  BY <1>1, <1>2

\* Inserting a turn shifts the later ones by one place.
LEMMA InsertAfterFacts ==
  ASSUME NEW T, NEW h \in Seq(T), NEW n \in 0 .. Len(h), NEW t \in T
  PROVE  /\ InsertAfter(h, n, t) \in Seq(T)
         /\ Len(InsertAfter(h, n, t)) = Len(h) + 1
         /\ \A i \in 1 .. Len(h) + 1 : InsertAfter(h, n, t)[i] =
              IF i <= n THEN h[i] ELSE IF i = n + 1 THEN t ELSE h[i - 1]
<1> DEFINE left == SubSeq(h, 1, n)
           front == left \o <<t>>
           right == SubSeq(h, n + 1, Len(h))
           whole == front \o right
<1>1. Len(h) \in Nat /\ n \in Nat /\ n <= Len(h)
  BY SeqMembers
<1>2. left \in Seq(T) /\ Len(left) = n /\ \A i \in 1 .. n : left[i] = h[i]
  BY <1>1
<1>3. /\ right \in Seq(T) /\ Len(right) = Len(h) - n
      /\ \A i \in 1 .. Len(h) - n : right[i] = h[n + i]
  BY <1>1
<1>4. /\ front \in Seq(T) /\ Len(front) = n + 1
      /\ \A i \in 1 .. n + 1 : front[i] = IF i <= n THEN h[i] ELSE t
  <2> HIDE DEF left
  <2> QED
    BY <1>1, <1>2
<1>5. whole = InsertAfter(h, n, t)
  BY DEF InsertAfter
<1> HIDE DEF front, right
<1>6. /\ whole \in Seq(T) /\ Len(whole) = Len(h) + 1
      /\ \A i \in 1 .. Len(h) + 1 :
           whole[i] = IF i <= n + 1 THEN front[i] ELSE right[i - (n + 1)]
  <2>1. front \in Seq(T) /\ right \in Seq(T)
    BY <1>3, <1>4
  <2>2. /\ whole \in Seq(T) /\ Len(whole) = Len(front) + Len(right)
        /\ \A i \in 1 .. Len(front) + Len(right) :
             whole[i] = IF i <= Len(front) THEN front[i] ELSE right[i - Len(front)]
    BY <2>1, ConcatProperties
  <2>3. Len(front) = n + 1 /\ Len(front) + Len(right) = Len(h) + 1
    BY <1>1, <1>3, <1>4
  <2> QED
    BY <2>2, <2>3
<1> HIDE DEF whole
<1>7. ASSUME NEW i \in 1 .. Len(h) + 1
      PROVE  whole[i] = IF i <= n THEN h[i] ELSE IF i = n + 1 THEN t ELSE h[i - 1]
  <2>1. CASE i <= n + 1
    BY <1>1, <1>4, <1>6, <2>1
  <2>2. CASE i > n + 1
    <3>1. i - (n + 1) \in 1 .. Len(h) - n /\ n + (i - (n + 1)) = i - 1
      BY <1>1, <2>2
    <3>2. right[i - (n + 1)] = h[i - 1]
      BY <1>3, <3>1
    <3>3. whole[i] = right[i - (n + 1)]
      BY <1>1, <1>6, <2>2
    <3> QED
      BY <1>1, <2>2, <3>2, <3>3
  <2> QED
    BY <1>1, <2>1, <2>2
<1> QED
  BY <1>5, <1>6, <1>7

\* What an insertion adds to the members.
LEMMA InsertAfterRange ==
  ASSUME NEW T, NEW h \in Seq(T), NEW n \in 0 .. Len(h), NEW t \in T
  PROVE  Range(InsertAfter(h, n, t)) = Range(h) \cup {t}
<1> DEFINE whole == InsertAfter(h, n, t)
<1>1. Len(h) \in Nat /\ n \in Nat /\ n <= Len(h)
  BY SeqMembers
<1>2. /\ whole \in Seq(T) /\ Len(whole) = Len(h) + 1
      /\ \A i \in 1 .. Len(h) + 1 : whole[i] =
           IF i <= n THEN h[i] ELSE IF i = n + 1 THEN t ELSE h[i - 1]
  BY InsertAfterFacts
<1> HIDE DEF whole
<1>3. \A x : x \in Range(whole) <=> \E i \in 1 .. Len(h) + 1 : whole[i] = x
  BY <1>2, SeqMembers
<1>4. \A x : x \in Range(h) <=> \E i \in 1 .. Len(h) : h[i] = x
  BY SeqMembers
<1>5. ASSUME NEW i \in 1 .. Len(h) + 1 PROVE whole[i] \in Range(h) \cup {t}
  <2>1. CASE i <= n
    BY <1>1, <1>2, <1>4, <2>1
  <2>2. CASE i = n + 1
    BY <1>1, <1>2, <2>2
  <2>3. CASE i > n + 1
    <3>1. whole[i] = h[i - 1] /\ i - 1 \in 1 .. Len(h)
      BY <1>1, <1>2, <2>3
    <3> QED
      BY <1>4, <3>1
  <2> QED
    BY <1>1, <2>1, <2>2, <2>3
<1>6. ASSUME NEW j \in 1 .. Len(h) PROVE h[j] \in Range(whole)
  <2>1. CASE j <= n
    <3>1. j \in 1 .. Len(h) + 1 /\ whole[j] = h[j]
      BY <1>1, <1>2, <2>1
    <3> QED
      BY <1>3, <3>1
  <2>2. CASE j > n
    <3>1. j + 1 \in 1 .. Len(h) + 1 /\ whole[j + 1] = h[j]
      BY <1>1, <1>2, <2>2
    <3> QED
      BY <1>3, <3>1
  <2> QED
    BY <1>1, <2>1, <2>2
<1>7. t \in Range(whole)
  <2>1. n + 1 \in 1 .. Len(h) + 1 /\ whole[n + 1] = t
    BY <1>1, <1>2
  <2> QED
    BY <1>3, <2>1
<1>8. Range(whole) = Range(h) \cup {t}
  BY <1>3, <1>4, <1>5, <1>6, <1>7
<1> QED
  BY <1>8 DEF whole

\* Every nonempty set of naturals has a least element.
LEMMA LeastNatural ==
  ASSUME NEW S, S \subseteq Nat, S # {}
  PROVE  \E k \in S : \A m \in S : k <= m
<1> DEFINE R == {ss \in Nat \X Nat : ss[1] < ss[2]}
<1>1. OpToRel(<, Nat) = R
  BY DEF OpToRel
<1>2. IsWellFoundedOn(R, Nat)
  BY <1>1, NatLessThanWellFounded
<1>3. \A m, k \in Nat : <<m, k>> \notin R => k <= m
  OBVIOUS
<1> HIDE DEF R
<1>4. PICK k \in S : \A m \in S : ~(<<m, k>> \in R)
  BY <1>2, WFMin
<1> QED
  BY <1>3, <1>4

\* In a history ordered by time the turns older than t are the first ones, and their
\* number is where InsertTurn puts t.
LEMMA OlderTurnsComeFirst ==
  ASSUME NEW h \in Seq(TurnRecord), NEW t \in TurnRecord,
         \A i \in 1 .. Len(h) : \A j \in 1 .. i - 1 : h[j].created_at < h[i].created_at
  PROVE  \E n \in 0 .. Len(h) :
            /\ InsertTurn(h, t) = InsertAfter(h, n, t)
            /\ \A i \in 1 .. Len(h) : h[i].created_at < t.created_at <=> i <= n
<1> DEFINE older == {i \in 1 .. Len(h) : h[i].created_at < t.created_at}
           others == {k \in Nat : k >= 1 /\ k \notin older}
<1>1. Len(h) \in Nat /\ \A i \in 1 .. Len(h) : h[i] \in TurnRecord
  BY SeqMembers, ElementOfSeq
<1>2. t.created_at \in Nat /\ \A i \in 1 .. Len(h) : h[i].created_at \in Nat
  BY <1>1 DEF TurnRecord
<1>3. Len(h) + 1 \in others
  BY <1>1
<1>4. PICK k \in others : \A m \in others : k <= m
  <2> others \subseteq Nat /\ others # {}
    BY <1>3
  <2> HIDE DEF others
  <2> QED
    BY LeastNatural
<1>5. k \in Nat /\ k >= 1 /\ k <= Len(h) + 1 /\ k \notin older
  BY <1>1, <1>3, <1>4
<1>6. ASSUME NEW i \in 1 .. Len(h), i < k PROVE i \in older
  BY <1>1, <1>4, <1>5, <1>6
<1>7. ASSUME NEW i \in older, i >= k PROVE FALSE
  <2>1. i \in 1 .. Len(h) /\ h[i].created_at < t.created_at
    OBVIOUS
  <2>2. k # i /\ k \in 1 .. Len(h) /\ k \in 1 .. i - 1
    BY <1>1, <1>5, <1>7, <2>1
  <2>3. h[k].created_at < h[i].created_at
    BY <2>1, <2>2
  <2>4. h[k].created_at < t.created_at
    BY <1>2, <2>1, <2>2, <2>3
  <2> QED
    BY <1>5, <2>2, <2>4
<1>8. \A i \in 1 .. Len(h) : h[i].created_at < t.created_at <=> i <= k - 1
  BY <1>1, <1>5, <1>6, <1>7
<1>9. older = 1 .. k - 1
  BY <1>1, <1>5, <1>8
<1>10. Cardinality(older) = k - 1
  <2>1. 1 \in Int /\ k - 1 \in Int
    BY <1>5
  <2>2. Cardinality(1 .. k - 1) = IF 1 > k - 1 THEN 0 ELSE (k - 1) - 1 + 1
    BY <2>1, FS_Interval
  <2>3. Cardinality(1 .. k - 1) = k - 1
    BY <1>5, <2>2
  <2> HIDE DEF older
  <2> QED
    BY <1>9, <2>3
<1>11. InsertTurn(h, t) = InsertAfter(h, k - 1, t)
  BY <1>10 DEF InsertTurn
<1>12. k - 1 \in 0 .. Len(h)
  BY <1>1, <1>5
<1> QED
  BY <1>8, <1>11, <1>12

\* What TimesOrdered and QuestionsPrecedeAnswers say of one history.
Ordered(h) ==
  \A i \in 1 .. Len(h) : \A j \in 1 .. i - 1 : h[j].created_at < h[i].created_at
Asked(h) ==
  \A i \in 1 .. Len(h) : h[i].role = "assistant" =>
    \E j \in 1 .. i - 1 : h[j].role = "user" /\ h[j].query = h[i].query

\* A turn with a time of its own, inserted at its place, keeps a history ordered; and
\* an answer whose question is older keeps every answer behind its question.
LEMMA InsertTurnFacts ==
  ASSUME NEW h \in Seq(TurnRecord), NEW t \in TurnRecord, Ordered(h),
         \A i \in 1 .. Len(h) : h[i].created_at # t.created_at
  PROVE  /\ InsertTurn(h, t) \in Seq(TurnRecord)
         /\ Len(InsertTurn(h, t)) = Len(h) + 1
         /\ Range(InsertTurn(h, t)) = Range(h) \cup {t}
         /\ Ordered(InsertTurn(h, t))
         /\ /\ Asked(h)
            /\ t.role = "assistant" =>
                 \E u \in Range(h) : /\ u.query = t.query /\ u.role = "user"
                                     /\ u.created_at < t.created_at
            => Asked(InsertTurn(h, t))
<1>1. PICK n \in 0 .. Len(h) :
         /\ InsertTurn(h, t) = InsertAfter(h, n, t)
         /\ \A i \in 1 .. Len(h) : h[i].created_at < t.created_at <=> i <= n
  BY OlderTurnsComeFirst DEF Ordered
<1> DEFINE w == InsertTurn(h, t)
<1>2. /\ w \in Seq(TurnRecord) /\ Len(w) = Len(h) + 1
      /\ Range(w) = Range(h) \cup {t}
      /\ \A i \in 1 .. Len(h) + 1 : w[i] =
           IF i <= n THEN h[i] ELSE IF i = n + 1 THEN t ELSE h[i - 1]
  BY <1>1, InsertAfterFacts, InsertAfterRange
<1>3. Len(h) \in Nat /\ n \in Nat /\ n <= Len(h)
  BY SeqMembers
<1>4. /\ t.created_at \in Nat
      /\ \A i \in 1 .. Len(h) : h[i].created_at \in Nat
  <2>1. \A i \in 1 .. Len(h) : h[i] \in TurnRecord
    BY ElementOfSeq
  <2> QED
    BY <2>1 DEF TurnRecord
<1> HIDE DEF w
<1>5. Ordered(w)
  <2> SUFFICES ASSUME NEW i \in 1 .. Len(h) + 1, NEW j \in 1 .. i - 1
               PROVE  w[j].created_at < w[i].created_at
    BY <1>2 DEF Ordered
  <2>1. CASE i <= n
    <3>1. w[i] = h[i] /\ w[j] = h[j] /\ i \in 1 .. Len(h)
      BY <1>2, <1>3, <2>1
    <3> QED
      BY <3>1 DEF Ordered
  <2>2. CASE i = n + 1
    <3>1. w[i] = t /\ w[j] = h[j] /\ j \in 1 .. Len(h) /\ j <= n
      BY <1>2, <1>3, <2>2
    <3> QED
      BY <1>1, <3>1
  <2>3. CASE i > n + 1
    <3>1. w[i] = h[i - 1] /\ i - 1 \in 1 .. Len(h) /\ ~(i - 1 <= n)
      BY <1>2, <1>3, <2>3
    <3>2. CASE j = n + 1
      <4>1. w[j] = t
        BY <1>2, <1>3, <3>2
      <4>2. ~(h[i - 1].created_at < t.created_at) /\ h[i - 1].created_at # t.created_at
        BY <1>1, <3>1
      <4> QED
        BY <1>4, <3>1, <4>1, <4>2
    <3>3. CASE j # n + 1
      <4>1. PICK k \in 1 .. (i - 1) - 1 : w[j] = h[k]
        <5>1. CASE j <= n
          <6>1. w[j] = h[j] /\ j \in 1 .. (i - 1) - 1
            BY <1>2, <1>3, <2>3, <5>1
          <6> QED
            BY <6>1
        <5>2. CASE j > n + 1
          <6>1. w[j] = h[j - 1] /\ j - 1 \in 1 .. (i - 1) - 1
            BY <1>2, <1>3, <2>3, <5>2
          <6> QED
            BY <6>1
        <5> QED
          BY <1>3, <3>3, <5>1, <5>2
      <4> QED
        BY <3>1, <4>1 DEF Ordered
    <3> QED
      BY <3>2, <3>3
  <2> QED
    BY <1>3, <2>1, <2>2, <2>3
<1>6. ASSUME Asked(h),
             t.role = "assistant" =>
               \E u \in Range(h) : /\ u.query = t.query /\ u.role = "user"
                                   /\ u.created_at < t.created_at
      PROVE  Asked(w)
  <2> SUFFICES ASSUME NEW i \in 1 .. Len(h) + 1, w[i].role = "assistant"
               PROVE  \E j \in 1 .. i - 1 : w[j].role = "user" /\ w[j].query = w[i].query
    BY <1>2 DEF Asked
  <2>1. CASE i <= n
    <3>1. w[i] = h[i] /\ i \in 1 .. Len(h)
      BY <1>2, <1>3, <2>1
    <3>2. PICK j \in 1 .. i - 1 : h[j].role = "user" /\ h[j].query = h[i].query
      BY <1>6, <3>1 DEF Asked
    <3>3. w[j] = h[j]
      BY <1>2, <1>3, <2>1
    <3> QED
      BY <3>1, <3>2, <3>3
  <2>2. CASE i = n + 1
    <3>1. w[i] = t
      BY <1>2, <1>3, <2>2
    <3>2. PICK u \in Range(h) : u.query = t.query /\ u.role = "user" /\ u.created_at < t.created_at
      BY <1>6, <3>1
    <3>3. PICK j \in 1 .. Len(h) : h[j] = u
      BY SeqMembers
    <3>4. j <= n
      BY <1>1, <3>2, <3>3
    <3>5. w[j] = h[j] /\ j \in 1 .. i - 1
      BY <1>2, <1>3, <2>2, <3>4
    <3> QED
      BY <3>1, <3>2, <3>3, <3>5
  <2>3. CASE i > n + 1
    <3>1. w[i] = h[i - 1] /\ i - 1 \in 1 .. Len(h)
      BY <1>2, <1>3, <2>3
    <3>2. PICK j \in 1 .. (i - 1) - 1 : h[j].role = "user" /\ h[j].query = h[i - 1].query
      BY <1>6, <3>1 DEF Asked
    <3>3. CASE j <= n
      <4>1. w[j] = h[j] /\ j \in 1 .. i - 1
        BY <1>2, <1>3, <3>1, <3>3
      <4> QED
        BY <3>1, <3>2, <4>1
    <3>4. CASE j > n
      <4>1. w[j + 1] = h[j] /\ j + 1 \in 1 .. i - 1
        <5>1. j + 1 \in 1 .. Len(h) + 1 /\ ~(j + 1 <= n) /\ j + 1 # n + 1 /\ j + 1 - 1 = j
          BY <1>3, <3>1, <3>4
        <5> QED
          BY <1>2, <5>1
      <4> QED
        BY <3>1, <3>2, <4>1
    <3> QED
      BY <1>3, <3>3, <3>4
  <2> QED
    BY <1>3, <2>1, <2>2, <2>3
<1> QED
  BY <1>2, <1>5, <1>6 DEF w

\* What a push leaves in the working memory.
LEMMA PushFacts ==
  ASSUME NEW T, NEW c \in Seq(T), NEW t \in T
  PROVE  /\ LastTurns(Append(c, t)) \in Seq(T)
         /\ Len(LastTurns(Append(c, t))) <= Window
         /\ Range(LastTurns(Append(c, t))) \subseteq Range(c) \cup {t}
<1> DEFINE a == Append(c, t)
<1>1. /\ a \in Seq(T) /\ Len(a) = Len(c) + 1
      /\ \A i \in 1 .. Len(c) : a[i] = c[i]
      /\ a[Len(c) + 1] = t
  BY AppendProperties
<1> HIDE DEF a
<1>2. ASSUME NEW x \in Range(a) PROVE x \in Range(c) \cup {t}
  <2>1. PICK i \in 1 .. Len(c) + 1 : a[i] = x
    BY <1>1, SeqMembers
  <2>2. CASE i = Len(c) + 1
    BY <1>1, <2>1, <2>2
  <2>3. CASE i \in 1 .. Len(c)
    BY <1>1, <2>1, <2>3, SeqMembers
  <2> QED
    BY <2>2, <2>3, SeqMembers
<1>3. /\ LastTurns(a) \in Seq(T) /\ Len(LastTurns(a)) <= Window
      /\ Range(LastTurns(a)) \subseteq Range(a)
  BY <1>1, LastTurnsFacts
<1> QED
  BY <1>2, <1>3 DEF a

\* The empty sequence has no members.
LEMMA EmptyFacts ==
  /\ Len(<<>>) = 0 /\ Range(<<>>) = {}
  /\ \A T : <<>> \in Seq(T)
BY DEF Range

-----------------------------------------------------------------------------
(***************************************************************************)
(* One step.                                                               *)
(***************************************************************************)
\* The parts of the invariant in terms of one history.
LEMMA HistoryParts ==
  /\ TimesOrdered => \A s \in Sessions : Ordered(history[s])
  /\ QuestionsPrecedeAnswers <=> \A s \in Sessions : Asked(history[s])
BY DEF TimesOrdered, QuestionsPrecedeAnswers, Ordered, Asked

\* What a query's commit does to the history of its session.
LEMMA CommitFacts ==
  ASSUME TypeOK, TimesOrdered, NEW q \in Queries, CommitTurn(q)
  PROVE  LET s == SessionOf[q]
             h == history[s]
             w == history'[s]
         IN  /\ s \in Sessions /\ h \in Seq(TurnRecord) /\ Turn(q) \in TurnRecord
             /\ \A r \in Sessions \ {s} : history'[r] = history[r]
             /\ history' \in [Sessions -> Seq(TurnRecord)]
             /\ w \in Seq(TurnRecord) /\ Len(w) = Len(h) + 1
             /\ Range(w) = Range(h) \cup {Turn(q)}
             /\ Ordered(w)
             /\ /\ Asked(h)
                /\ Turn(q).role = "assistant" =>
                     \E u \in Range(h) : /\ u.query = Turn(q).query /\ u.role = "user"
                                         /\ u.created_at < Turn(q).created_at
                => Asked(w)
<1> DEFINE s == SessionOf[q]
           h == history[s]
           t == Turn(q)
<1>1. s \in Sessions /\ h \in Seq(TurnRecord)
  BY SessionsAssumption DEF TypeOK
<1>2. t \in TurnRecord /\ t.created_at = created_at[q]
  BY DEF TypeOK, Turn, TurnRecord
<1>3. history' = [history EXCEPT ![s] = InsertTurn(h, t)]
  BY <1>1 DEF CommitTurn, TypeOK
<1>4. history'[s] = InsertTurn(h, t) /\ \A r \in Sessions \ {s} : history'[r] = history[r]
  BY <1>1, <1>3 DEF TypeOK
<1>5. Ordered(h)
  BY <1>1, HistoryParts
<1>6. \A i \in 1 .. Len(h) : h[i].created_at # t.created_at
  BY <1>1, <1>2 DEF TimesOrdered, CommitTurn
<1> HIDE DEF s, h, t
<1>7. /\ InsertTurn(h, t) \in Seq(TurnRecord)
      /\ Len(InsertTurn(h, t)) = Len(h) + 1
      /\ Range(InsertTurn(h, t)) = Range(h) \cup {t}
      /\ Ordered(InsertTurn(h, t))
      /\ /\ Asked(h)
         /\ t.role = "assistant" =>
              \E u \in Range(h) : /\ u.query = t.query /\ u.role = "user"
                                  /\ u.created_at < t.created_at
         => Asked(InsertTurn(h, t))
  BY <1>1, <1>2, <1>5, <1>6, InsertTurnFacts
<1>8. history' \in [Sessions -> Seq(TurnRecord)]
  BY <1>1, <1>3, <1>7 DEF TypeOK
<1> QED
  BY <1>1, <1>2, <1>4, <1>7, <1>8 DEF s, h, t

\* The actions that touch neither the turns, the working memory nor a query.
Aside ==
  \/ \E s \in Sessions : CreateSession(s) \/ Work(s)
  \/ \E e \in EndRequests : EndSession(e) \/ Enqueue(e) \/ EndDies(e)

\* They leave all of that as it is.
LEMMA AsideFacts ==
  Aside => UNCHANGED <<history, turn_count, cache, clock, pc, turn, snapshot>>
BY DEF Aside, CreateSession, Work, RunTask, TaskFails, EndSession, Enqueue, EndDies, turn, record

\* The other actions, one by one.
LEMMA NextCases ==
  ASSUME Next
  PROVE  \/ Aside
         \/ \E s \in Sessions : ExpireCache(s)
         \/ \E q \in Queries :
              \/ LookUp(q) \/ ReadHistory(q) \/ WarmCache(q) \/ ReadSession(q)
              \/ CommitTurn(q) \/ PushTurn(q) \/ PushFails(q) \/ QueryEndsEarly(q)
BY DEF Next, Answer, Aside

\* Only a query's commit changes the turns, and histories only grow.
LEMMA HistoriesGrow ==
  ASSUME TypeOK, TimesOrdered, Next
  PROVE  /\ \/ UNCHANGED <<history, turn_count>>
            \/ \E q \in Queries : CommitTurn(q)
         /\ \A s \in Sessions :
              /\ Len(history[s]) \in Nat /\ Len(history'[s]) \in Nat
              /\ Len(history[s]) <= Len(history'[s])
              /\ Range(history[s]) \subseteq Range(history'[s])
<1>1. \A s \in Sessions : Len(history[s]) \in Nat
  BY SeqMembers DEF TypeOK
<1>2. CASE UNCHANGED <<history, turn_count>>
  BY <1>1, <1>2
<1>3. ASSUME NEW q \in Queries, CommitTurn(q)
      PROVE  \A s \in Sessions :
               /\ Len(history'[s]) \in Nat
               /\ Len(history[s]) <= Len(history'[s])
               /\ Range(history[s]) \subseteq Range(history'[s])
  <2> TAKE s \in Sessions
  <2>1. Len(history[s]) \in Nat
    BY <1>1
  <2>2. CASE s = SessionOf[q]
    <3>1. Len(history'[s]) = Len(history[s]) + 1
      BY <1>3, <2>2, CommitFacts
    <3>2. Range(history'[s]) = Range(history[s]) \cup {Turn(q)}
      BY <1>3, <2>2, CommitFacts
    <3> QED
      BY <2>1, <3>1, <3>2
  <2>3. CASE s # SessionOf[q]
    <3>1. history'[s] = history[s]
      BY <1>3, <2>3, CommitFacts
    <3> QED
      BY <2>1, <3>1
  <2> QED
    BY <2>2, <2>3
<1>4. \/ UNCHANGED <<history, turn_count>>
      \/ \E q \in Queries : CommitTurn(q)
  BY NextCases, AsideFacts
  DEF record, ExpireCache, LookUp, ReadHistory, WarmCache, ReadSession, PushTurn, PushFails, QueryEndsEarly
<1> QED
  BY <1>1, <1>2, <1>3, <1>4

\* The initial states satisfy the invariant.
LEMMA InitIInv == Init => IInv
<1> SUFFICES ASSUME Init PROVE IInv
  OBVIOUS
<1>1. \A s \in Sessions : /\ history[s] = <<>> /\ cache[s] = <<>>
                          /\ Len(history[s]) = 0 /\ Len(cache[s]) = 0
                          /\ Range(cache[s]) = {} /\ Range(history[s]) = {}
  BY EmptyFacts DEF Init
<1>2. \A q \in Queries : pc[q] = "new" /\ Range(snapshot[q]) = {}
  BY EmptyFacts DEF Init
<1>3. TypeOK
  <2>1. \A s \in Sessions : Len(cache[s]) <= Window
    BY <1>1, SessionsAssumption
  <2>2. <<>> \in Seq(TurnRecord)
    BY EmptyFacts
  <2> QED
    BY <2>1, <2>2 DEF Init, TypeOK, Status, Role
<1>4. ReadsAreDurable
  BY <1>2 DEF ReadsAreDurable
<1>5. TimesOrdered
  BY <1>1, <1>2 DEF TimesOrdered
<1>6. QuestionsAsked
  BY <1>2 DEF QuestionsAsked, Init
<1>7. WorkingMemoryIsDurable /\ TurnCountAtMostTurns /\ QuestionsPrecedeAnswers
  BY <1>1 DEF WorkingMemoryIsDurable, TurnCountAtMostTurns, QuestionsPrecedeAnswers, Init
<1>8. EnqueuedOnce
  BY DEF EnqueuedOnce, Init
<1> QED
  BY <1>3, <1>4, <1>5, <1>6, <1>7, <1>8 DEF IInv

\* Types are kept.
LEMMA TypeStep ==
  ASSUME TypeOK, TimesOrdered, Next
  PROVE  TypeOK'
<1> USE SessionsAssumption
<1>1. ASSUME Aside PROVE TypeOK'
  <2>1. UNCHANGED <<history, turn_count, cache, clock, pc, role, read_count, created_at, snapshot>>
    BY <1>1, AsideFacts DEF turn
  <2> DEFINE StatusesOK == /\ status' \in [Sessions -> Status]
                           /\ end' \in [EndRequests -> {"new", "enqueue", "enqueued", "answered"}]
             TasksOK == tasks' \subseteq [session : Sessions, retries : Nat]
  <2>2. StatusesOK
    <3>1. ASSUME NEW s \in Sessions, CreateSession(s) PROVE StatusesOK
      BY <3>1 DEF CreateSession, TypeOK, Status
    <3>2. ASSUME NEW s \in Sessions, Work(s) PROVE StatusesOK
      BY <3>2 DEF Work, RunTask, TaskFails, Summarize, TypeOK, Status
    <3>3. ASSUME NEW e \in EndRequests, EndSession(e) \/ Enqueue(e) \/ EndDies(e) PROVE StatusesOK
      BY <3>3 DEF EndSession, Enqueue, EndDies, record, TypeOK, Status
    <3> QED
      BY <1>1, <3>1, <3>2, <3>3 DEF Aside
  <2>3. TasksOK
    <3>1. ASSUME NEW s \in Sessions, Work(s) PROVE TasksOK
      <4>1. PICK m \in tasks : RunTask(m) \/ TaskFails(m)
        BY <3>1 DEF Work
      <4>2. m.retries \in Nat /\ [m EXCEPT !.retries = @ + 1] \in [session : Sessions, retries : Nat]
        <5>1. m \in [session : Sessions, retries : Nat]
          BY <4>1 DEF TypeOK
        <5> QED
          BY <5>1
      <4>3. Retry(m) \subseteq [session : Sessions, retries : Nat]
        BY <4>2 DEF Retry
      <4>4. CASE RunTask(m)
        BY <4>4 DEF RunTask, TypeOK
      <4>5. CASE TaskFails(m)
        BY <4>3, <4>5 DEF TaskFails, TypeOK
      <4> QED
        BY <4>1, <4>4, <4>5
    <3>2. ASSUME NEW e \in EndRequests, Enqueue(e) PROVE TasksOK
      BY <3>2 DEF Enqueue, TypeOK
    <3>3. ASSUME NEW e \in EndRequests, EndSession(e) \/ EndDies(e) PROVE TasksOK
      BY <3>3 DEF EndSession, EndDies, TypeOK
    <3>4. ASSUME NEW s \in Sessions, CreateSession(s) PROVE TasksOK
      BY <3>4 DEF CreateSession, TypeOK
    <3> QED
      BY <1>1, <3>1, <3>2, <3>3, <3>4 DEF Aside
  <2> QED
    BY <2>1, <2>2, <2>3 DEF TypeOK
<1>2. ASSUME NEW s \in Sessions, ExpireCache(s) PROVE TypeOK'
  BY <1>2, EmptyFacts, SMTT(30) DEF ExpireCache, TypeOK, record, turn
<1>3. ASSUME NEW q \in Queries, LookUp(q) PROVE TypeOK'
  BY <1>3 DEF LookUp, TypeOK, record, turn
<1>4. ASSUME NEW q \in Queries, ReadHistory(q) PROVE TypeOK'
  BY <1>4 DEF ReadHistory, TypeOK, record, turn
<1>5. ASSUME NEW q \in Queries, WarmCache(q) PROVE TypeOK'
  <2>1. /\ LastTurns(snapshot[q]) \in Seq(TurnRecord)
        /\ Len(LastTurns(snapshot[q])) <= Window
    BY LastTurnsFacts DEF TypeOK
  <2> QED
    BY <1>5, <2>1, EmptyFacts DEF WarmCache, TypeOK, record, turn
<1>6. ASSUME NEW q \in Queries, ReadSession(q) PROVE TypeOK'
  <2>1. read_count' \in [Queries -> Nat]
    BY <1>6 DEF ReadSession, TypeOK
  <2>2. created_at' \in [Queries -> Nat] /\ clock' \in Nat
    BY <1>6 DEF ReadSession, TypeOK
  <2>3. pc' \in [Queries -> {"new", "history", "warm", "turn", "commit", "push", "done"}]
    BY <1>6 DEF ReadSession, TypeOK
  <2>4. UNCHANGED <<status, history, turn_count, cache, role, snapshot, end, tasks>>
    BY <1>6 DEF ReadSession, record
  <2> QED
    BY <2>1, <2>2, <2>3, <2>4 DEF TypeOK
<1>7. ASSUME NEW q \in Queries, CommitTurn(q) PROVE TypeOK'
  <2>1. history' \in [Sessions -> Seq(TurnRecord)]
    BY <1>7, CommitFacts
  <2> QED
    BY <1>7, <2>1, SMTT(30) DEF CommitTurn, TypeOK, turn
<1>8. ASSUME NEW q \in Queries, PushTurn(q) PROVE TypeOK'
  <2> DEFINE s == SessionOf[q]
  <2>1. s \in Sessions /\ cache[s] \in Seq(TurnRecord) /\ Turn(q) \in TurnRecord
    BY DEF TypeOK, Turn, TurnRecord
  <2>2. /\ LastTurns(Append(cache[s], Turn(q))) \in Seq(TurnRecord)
        /\ Len(LastTurns(Append(cache[s], Turn(q)))) <= Window
    BY <2>1, PushFacts
  <2>3. /\ cache' \in [Sessions -> Seq(TurnRecord)]
        /\ \A r \in Sessions : Len(cache'[r]) <= Window
    BY <1>8, <2>1, <2>2 DEF PushTurn, TypeOK
  <2> QED
    BY <1>8, <2>3 DEF PushTurn, NextTurn, TypeOK, record, Role
<1>9. ASSUME NEW q \in Queries, PushFails(q) PROVE TypeOK'
  BY <1>9 DEF PushFails, NextTurn, TypeOK, record, Role
<1>10. ASSUME NEW q \in Queries, QueryEndsEarly(q) PROVE TypeOK'
  BY <1>10, EmptyFacts DEF QueryEndsEarly, TypeOK, record, turn
<1> QED
  BY <1>1, <1>2, <1>3, <1>4, <1>5, <1>6, <1>7, <1>8, <1>9, <1>10, NextCases

\* The durable record only grows, and what enters the working memory was read from it
\* or committed to it before.
LEMMA WorkingMemoryStep ==
  ASSUME TypeOK, TimesOrdered, ReadsAreDurable, WorkingMemoryIsDurable, Next
  PROVE  WorkingMemoryIsDurable'
<1> SUFFICES ASSUME NEW s \in Sessions
             PROVE  Range(cache'[s]) \subseteq Range(history'[s])
  BY DEF WorkingMemoryIsDurable
<1>1. Range(history[s]) \subseteq Range(history'[s])
  BY HistoriesGrow
<1>2. SUFFICES Range(cache'[s]) \subseteq Range(history[s])
  BY <1>1
<1>3. Range(cache[s]) \subseteq Range(history[s])
  BY DEF WorkingMemoryIsDurable
<1>4. CASE cache'[s] = cache[s]
  BY <1>3, <1>4
<1>5. ASSUME NEW r \in Sessions, ExpireCache(r)
      PROVE  Range(cache'[s]) \subseteq Range(history[s])
  <2>1. cache'[s] = cache[s] \/ cache'[s] = <<>>
    BY <1>5 DEF ExpireCache, TypeOK
  <2> QED
    BY <1>4, <2>1, EmptyFacts
<1>6. ASSUME NEW q \in Queries, WarmCache(q)
      PROVE  Range(cache'[s]) \subseteq Range(history[s])
  <2>1. \/ cache'[s] = cache[s]
        \/ s = SessionOf[q] /\ cache'[s] = LastTurns(snapshot[q])
    BY <1>6, SessionsAssumption DEF WarmCache, TypeOK
  <2>2. Range(LastTurns(snapshot[q])) \subseteq Range(snapshot[q])
    BY LastTurnsFacts DEF TypeOK
  <2>3. Range(snapshot[q]) \subseteq Range(history[SessionOf[q]])
    BY DEF ReadsAreDurable
  <2> QED
    BY <1>4, <2>1, <2>2, <2>3
<1>7. ASSUME NEW q \in Queries, PushTurn(q)
      PROVE  Range(cache'[s]) \subseteq Range(history[s])
  <2>1. \/ cache'[s] = cache[s]
        \/ s = SessionOf[q] /\ cache'[s] = LastTurns(Append(cache[s], Turn(q)))
    BY <1>7, SessionsAssumption DEF PushTurn, TypeOK
  <2>2. cache[s] \in Seq(TurnRecord) /\ Turn(q) \in TurnRecord
    BY DEF TypeOK, Turn, TurnRecord
  <2>3. Range(LastTurns(Append(cache[s], Turn(q)))) \subseteq Range(cache[s]) \cup {Turn(q)}
    BY <2>2, PushFacts
  <2>4. Turn(q) \in Range(history[SessionOf[q]])
    BY <1>7 DEF PushTurn, ReadsAreDurable
  <2> QED
    BY <1>3, <1>4, <2>1, <2>3, <2>4
<1>8. \/ cache'[s] = cache[s]
      \/ \E r \in Sessions : ExpireCache(r)
      \/ \E q \in Queries : WarmCache(q) \/ PushTurn(q)
  BY NextCases, AsideFacts
  DEF LookUp, ReadHistory, ReadSession, CommitTurn, PushFails, QueryEndsEarly
<1> QED
  BY <1>4, <1>5, <1>6, <1>7, <1>8

\* Counters lag behind histories.
LEMMA TurnCountStep ==
  ASSUME TypeOK, TimesOrdered, ReadsAreDurable, TurnCountAtMostTurns, Next
  PROVE  TurnCountAtMostTurns'
<1> SUFFICES ASSUME NEW s \in Sessions PROVE turn_count'[s] <= Len(history'[s])
  BY DEF TurnCountAtMostTurns
<1>1. /\ Len(history[s]) \in Nat /\ Len(history'[s]) \in Nat
      /\ Len(history[s]) <= Len(history'[s])
      /\ turn_count[s] \in Nat /\ turn_count[s] <= Len(history[s])
  BY HistoriesGrow DEF TypeOK, TurnCountAtMostTurns
<1>2. CASE turn_count'[s] = turn_count[s]
  BY <1>1, <1>2
<1>3. ASSUME NEW q \in Queries, CommitTurn(q) PROVE turn_count'[s] <= Len(history'[s])
  <2>1. CASE s = SessionOf[q]
    <3>1. Len(history'[s]) = Len(history[s]) + 1
      BY <1>3, <2>1, CommitFacts
    <3>2. turn_count'[s] = read_count[q] + 1 /\ read_count[q] \in Nat
      BY <1>3, <2>1 DEF CommitTurn, TypeOK
    <3>3. read_count[q] <= Len(history[s])
      BY <1>3, <2>1 DEF CommitTurn, ReadsAreDurable
    <3> QED
      BY <1>1, <3>1, <3>2, <3>3
  <2>2. CASE s # SessionOf[q]
    <3>1. turn_count'[s] = turn_count[s]
      BY <1>3, <2>2 DEF CommitTurn, TypeOK
    <3> QED
      BY <1>2, <3>1
  <2> QED
    BY <2>1, <2>2
<1> QED
  BY <1>2, <1>3, HistoriesGrow

\* An answer is inserted behind its question.
LEMMA AnswersStep ==
  ASSUME TypeOK, TimesOrdered, QuestionsAsked, QuestionsPrecedeAnswers, Next
  PROVE  QuestionsPrecedeAnswers'
<1> SUFFICES ASSUME NEW s \in Sessions PROVE Asked(history'[s])
  BY DEF QuestionsPrecedeAnswers, Asked
<1>1. Asked(history[s])
  BY HistoryParts
<1>2. ASSUME NEW q \in Queries, CommitTurn(q) PROVE Asked(history'[s])
  <2>1. CASE s = SessionOf[q]
    <3>1. Turn(q).role = role[q] /\ Turn(q).query = q /\ Turn(q).created_at = created_at[q]
      BY DEF Turn
    <3>2. pc[q] = "commit"
      BY <1>2 DEF CommitTurn
    <3>3. Turn(q).role = "assistant" =>
            \E u \in Range(history[s]) : /\ u.query = Turn(q).query /\ u.role = "user"
                                         /\ u.created_at < Turn(q).created_at
      <4> SUFFICES ASSUME role[q] = "assistant"
                   PROVE  \E u \in Range(history[s]) : /\ u.query = q /\ u.role = "user"
                                                       /\ u.created_at < created_at[q]
        BY <3>1
      <4>1. \E u \in Range(history[SessionOf[q]]) :
              /\ u.query = q /\ u.role = "user"
              /\ pc[q] = "commit" => u.created_at < created_at[q]
        BY <3>2 DEF QuestionsAsked
      <4> QED
        BY <2>1, <3>2, <4>1
    <3> QED
      BY <1>1, <1>2, <2>1, <3>3, CommitFacts
  <2>2. CASE s # SessionOf[q]
    <3>1. history'[s] = history[s]
      BY <1>2, <2>2, CommitFacts
    <3> QED
      BY <1>1, <3>1
  <2> QED
    BY <2>1, <2>2
<1>3. CASE history' = history
  BY <1>1, <1>3
<1> QED
  BY <1>2, <1>3, HistoriesGrow

\* A clock reading is not given out twice.
LEMMA TimesStep ==
  ASSUME TypeOK, TimesOrdered, Next
  PROVE  TimesOrdered'
<1> DEFINE Stamped(q) == /\ created_at[q] < clock
                         /\ \A s \in Sessions : \A i \in 1 .. Len(history[s]) :
                              history[s][i].created_at # created_at[q]
                         /\ \A p \in Queries \ {q} : pc[p] = "commit" => created_at[p] # created_at[q]
           Quiet == /\ UNCHANGED <<history, clock>>
                    /\ \A q \in Queries : pc'[q] = "commit" =>
                         pc[q] = "commit" /\ created_at'[q] = created_at[q]
           Past(h, c) == \A i \in 1 .. Len(h) : h[i].created_at < c
<1>1. TimesOrdered <=> /\ \A s \in Sessions : Past(history[s], clock) /\ Ordered(history[s])
                       /\ \A q \in Queries : pc[q] = "commit" => Stamped(q)
  BY DEF TimesOrdered, Ordered
<1>2. TimesOrdered' <=> /\ \A s \in Sessions : Past(history'[s], clock') /\ Ordered(history'[s])
                        /\ \A q \in Queries : pc'[q] = "commit" => Stamped(q)'
  BY DEF TimesOrdered, Ordered
<1>3. \A s \in Sessions : \A i \in 1 .. Len(history[s]) :
        history[s][i] \in TurnRecord /\ history[s][i].created_at \in Nat
  <2>1. \A s \in Sessions : \A i \in 1 .. Len(history[s]) : history[s][i] \in TurnRecord
    BY ElementOfSeq DEF TypeOK
  <2> QED
    BY <2>1 DEF TurnRecord
<1>4. clock \in Nat /\ \A q \in Queries : created_at[q] \in Nat
  BY DEF TypeOK
<1>5. ASSUME Quiet PROVE TimesOrdered'
  BY <1>1, <1>2, <1>5
<1>6. ASSUME NEW q \in Queries, ReadSession(q) PROVE TimesOrdered'
  <2>1. /\ history' = history /\ clock' = clock + 1
        /\ created_at'[q] = clock /\ pc'[q] = "commit"
        /\ \A p \in Queries \ {q} : pc'[p] = pc[p] /\ created_at'[p] = created_at[p]
    BY <1>6 DEF ReadSession, TypeOK, record
  <2>2. \A s \in Sessions : Past(history'[s], clock') /\ Ordered(history'[s])
    BY <1>1, <1>3, <1>4, <2>1
  <2>3. ASSUME NEW p \in Queries, pc'[p] = "commit" PROVE Stamped(p)'
    <3>1. CASE p = q
      BY <1>1, <1>3, <1>4, <2>1, <3>1
    <3>2. CASE p # q
      BY <1>1, <1>4, <2>1, <2>3, <3>2
    <3> QED
      BY <3>1, <3>2
  <2> QED
    BY <1>2, <2>2, <2>3
<1>7. ASSUME NEW q \in Queries, CommitTurn(q) PROVE TimesOrdered'
  <2> DEFINE s == SessionOf[q]
  <2>1. /\ s \in Sessions /\ Ordered(history'[s])
        /\ history'[s] \in Seq(TurnRecord) /\ history[s] \in Seq(TurnRecord)
        /\ Range(history'[s]) = Range(history[s]) \cup {Turn(q)}
        /\ \A r \in Sessions \ {s} : history'[r] = history[r]
    BY <1>7, CommitFacts
  <2>2. /\ clock' = clock /\ created_at' = created_at /\ pc[q] = "commit" /\ pc'[q] # "commit"
        /\ \A p \in Queries \ {q} : pc'[p] = pc[p]
    BY <1>7 DEF CommitTurn, TypeOK, turn
  <2>3. Turn(q).created_at = created_at[q]
    BY DEF Turn
  <2>4. \A i \in 1 .. Len(history'[s]) :
          \/ history'[s][i] = Turn(q)
          \/ \E j \in 1 .. Len(history[s]) : history'[s][i] = history[s][j]
    <3> DEFINE h == history[s]
               w == history'[s]
    <3> HIDE DEF h, w, s
    <3>1. w \in Seq(TurnRecord) /\ h \in Seq(TurnRecord) /\ Range(w) = Range(h) \cup {Turn(q)}
      BY <2>1 DEF h, w
    <3>2. \A i \in 1 .. Len(w) : w[i] \in Range(w)
      BY <3>1, SeqMembers
    <3>3. \A x \in Range(h) : \E j \in 1 .. Len(h) : h[j] = x
      BY <3>1, SeqMembers
    <3>4. \A i \in 1 .. Len(w) : w[i] = Turn(q) \/ \E j \in 1 .. Len(h) : w[i] = h[j]
      BY <3>1, <3>2, <3>3
    <3> QED
      BY <3>4 DEF h, w
  <2>5. \A r \in Sessions : Past(history'[r], clock') /\ Ordered(history'[r])
    BY <1>1, <2>1, <2>2, <2>3, <2>4
  <2>6. ASSUME NEW p \in Queries, pc'[p] = "commit" PROVE Stamped(p)'
    <3>1. p # q /\ pc[p] = "commit" /\ created_at[p] # created_at[q] /\ Stamped(p)
      BY <1>1, <2>2, <2>6
    <3>2. ASSUME NEW r \in Sessions, NEW i \in 1 .. Len(history'[r])
          PROVE  history'[r][i].created_at # created_at'[p]
      BY <2>1, <2>2, <2>3, <2>4, <3>1
    <3> QED
      BY <2>2, <3>1, <3>2
  <2> QED
    BY <1>2, <2>5, <2>6
<1>8. \/ \E q \in Queries : ReadSession(q) \/ CommitTurn(q)
      \/ Quiet
  <2>1. CASE Aside
    BY <2>1, AsideFacts DEF turn
  <2>2. ASSUME NEW s \in Sessions, ExpireCache(s) PROVE Quiet
    BY <2>2 DEF ExpireCache, record, turn
  <2>3. ASSUME NEW q \in Queries,
               LookUp(q) \/ ReadHistory(q) \/ WarmCache(q) \/ PushTurn(q) \/ PushFails(q) \/ QueryEndsEarly(q)
        PROVE  Quiet
    BY <2>3 DEF LookUp, ReadHistory, WarmCache, PushTurn, PushFails, NextTurn, QueryEndsEarly,
                record, turn, TypeOK
  <2> QED
    BY <2>1, <2>2, <2>3, NextCases
<1> QED
  BY <1>5, <1>6, <1>7, <1>8

\* What a query holds stays covered by a history that only grows.
LEMMA ReadsStep ==
  ASSUME TypeOK, TimesOrdered, ReadsAreDurable, TurnCountAtMostTurns, Next
  PROVE  ReadsAreDurable'
<1> SUFFICES ASSUME NEW p \in Queries
             PROVE  /\ pc'[p] = "commit" => read_count'[p] <= Len(history'[SessionOf[p]])
                    /\ pc'[p] = "push" => Turn(p)' \in Range(history'[SessionOf[p]])
                    /\ Range(snapshot'[p]) \subseteq Range(history'[SessionOf[p]])
  BY DEF ReadsAreDurable
<1> DEFINE s == SessionOf[p]
           Kept == /\ pc'[p] = "commit" => pc[p] = "commit" /\ read_count'[p] = read_count[p]
                   /\ pc'[p] = "push" => pc[p] = "push" /\ Turn(p)' = Turn(p)
                   /\ Range(snapshot'[p]) \subseteq Range(snapshot[p])
           Covered == /\ pc'[p] = "commit" => read_count'[p] <= Len(history'[s])
                      /\ pc'[p] = "push" => Turn(p)' \in Range(history'[s])
                      /\ Range(snapshot'[p]) \subseteq Range(history'[s])
<1>1. /\ s \in Sessions /\ read_count[p] \in Nat
      /\ Len(history[s]) \in Nat /\ Len(history'[s]) \in Nat
      /\ Len(history[s]) <= Len(history'[s])
      /\ Range(history[s]) \subseteq Range(history'[s])
  BY HistoriesGrow, SessionsAssumption DEF TypeOK
<1>2. /\ pc[p] = "commit" => read_count[p] <= Len(history[s])
      /\ pc[p] = "push" => Turn(p) \in Range(history[s])
      /\ Range(snapshot[p]) \subseteq Range(history[s])
  BY DEF ReadsAreDurable
<1>3. CASE Kept
  BY <1>1, <1>2, <1>3
<1>4. CASE Aside
  <2>1. Kept
    BY <1>4, AsideFacts DEF turn, Turn
  <2> QED
    BY <1>3, <2>1
<1>5. ASSUME NEW r \in Sessions, ExpireCache(r) PROVE Covered
  <2>1. Kept
    BY <1>5 DEF ExpireCache, turn, Turn
  <2> QED
    BY <1>3, <2>1
<1>6. ASSUME NEW q \in Queries, q # p,
             \/ LookUp(q) \/ ReadHistory(q) \/ WarmCache(q) \/ ReadSession(q)
             \/ CommitTurn(q) \/ PushTurn(q) \/ PushFails(q) \/ QueryEndsEarly(q)
      PROVE  Covered
  <2>1. /\ pc'[p] = pc[p] /\ read_count'[p] = read_count[p] /\ snapshot'[p] = snapshot[p]
        /\ role'[p] = role[p] /\ created_at'[p] = created_at[p]
    BY <1>6 DEF LookUp, ReadHistory, WarmCache, ReadSession, CommitTurn, PushTurn, PushFails,
                QueryEndsEarly, NextTurn, turn, TypeOK
  <2>2. Kept
    BY <2>1 DEF Turn
  <2> QED
    BY <1>3, <2>2
<1>7. CASE LookUp(p)
  <2>1. Kept
    BY <1>7 DEF LookUp, TypeOK
  <2> QED
    BY <1>3, <2>1
<1>8. CASE ReadHistory(p)
  <2>1. pc'[p] = "warm" /\ snapshot'[p] = history[s]
    BY <1>8 DEF ReadHistory, TypeOK
  <2> QED
    BY <1>1, <2>1
<1>9. CASE WarmCache(p) \/ QueryEndsEarly(p)
  <2>1. pc'[p] \notin {"commit", "push"} /\ snapshot'[p] = <<>>
    BY <1>9 DEF WarmCache, QueryEndsEarly, TypeOK
  <2> QED
    BY <2>1, EmptyFacts
<1>10. CASE ReadSession(p)
  <2>1. pc'[p] = "commit" /\ read_count'[p] = turn_count[s] /\ snapshot' = snapshot
    BY <1>10 DEF ReadSession, TypeOK
  <2>2. turn_count[s] <= Len(history[s]) /\ turn_count[s] \in Nat
    BY <1>1 DEF TurnCountAtMostTurns, TypeOK
  <2> QED
    BY <1>1, <1>2, <2>1, <2>2
<1>11. CASE CommitTurn(p)
  <2>1. pc'[p] = "push" /\ snapshot' = snapshot /\ Turn(p)' = Turn(p)
    BY <1>11 DEF CommitTurn, TypeOK, turn, Turn
  <2>2. Turn(p) \in Range(history'[s])
    BY <1>11, CommitFacts
  <2> QED
    BY <1>1, <1>2, <2>1, <2>2
<1>12. CASE PushTurn(p) \/ PushFails(p)
  <2>1. pc'[p] \in {"turn", "done"} /\ snapshot' = snapshot
    BY <1>12 DEF PushTurn, PushFails, NextTurn, TypeOK
  <2> QED
    BY <1>1, <1>2, <2>1
<1> QED
  BY <1>4, <1>5, <1>6, <1>7, <1>8, <1>9, <1>10, <1>11, <1>12, NextCases

\* A question stays in the history, and any later clock reading is after it.
LEMMA QuestionsStep ==
  ASSUME TypeOK, TimesOrdered, ReadsAreDurable, QuestionsAsked, Next
  PROVE  QuestionsAsked'
<1> SUFFICES ASSUME NEW p \in Queries
             PROVE  /\ pc'[p] \in {"new", "history", "warm"} => role'[p] = "user"
                    /\ pc'[p] \in {"turn", "commit"} /\ role'[p] = "assistant" =>
                         \E t \in Range(history'[SessionOf[p]]) :
                           /\ t.query = p /\ t.role = "user"
                           /\ pc'[p] = "commit" => t.created_at < created_at'[p]
  BY DEF QuestionsAsked
<1> DEFINE s == SessionOf[p]
           Settled == /\ pc'[p] \in {"new", "history", "warm"} => role'[p] = "user"
                      /\ pc'[p] \in {"turn", "commit"} /\ role'[p] = "assistant" =>
                           \E t \in Range(history'[s]) :
                             /\ t.query = p /\ t.role = "user"
                             /\ pc'[p] = "commit" => t.created_at < created_at'[p]
<1>1. /\ s \in Sessions /\ Range(history[s]) \subseteq Range(history'[s])
      /\ history[s] \in Seq(TurnRecord)
  BY HistoriesGrow, SessionsAssumption DEF TypeOK
<1>2. /\ pc[p] \in {"new", "history", "warm"} => role[p] = "user"
      /\ pc[p] \in {"turn", "commit"} /\ role[p] = "assistant" =>
           \E t \in Range(history[s]) :
             /\ t.query = p /\ t.role = "user"
             /\ pc[p] = "commit" => t.created_at < created_at[p]
  BY DEF QuestionsAsked
<1>3. CASE pc'[p] = pc[p] /\ role'[p] = role[p] /\ created_at'[p] = created_at[p]
  BY <1>1, <1>2, <1>3
<1>4. CASE ReadSession(p)
  <2>1. pc[p] = "turn" /\ pc'[p] = "commit" /\ role'[p] = role[p] /\ created_at'[p] = clock
    BY <1>4 DEF ReadSession, TypeOK
  <2>2. SUFFICES ASSUME role[p] = "assistant"
                 PROVE  \E t \in Range(history'[s]) :
                          t.query = p /\ t.role = "user" /\ t.created_at < clock
    BY <2>1
  <2>3. PICK t \in Range(history[s]) : t.query = p /\ t.role = "user"
    BY <1>2, <2>1, <2>2
  <2>4. t.created_at < clock
    <3>1. PICK i \in 1 .. Len(history[s]) : history[s][i] = t
      BY <1>1, SeqMembers
    <3> QED
      BY <1>1, <3>1 DEF TimesOrdered
  <2> QED
    BY <1>1, <2>3, <2>4
<1>5. CASE PushTurn(p) \/ PushFails(p)
  <2>1. pc[p] = "push" /\ pc'[p] = IF role[p] = "user" THEN "turn" ELSE "done"
    BY <1>5 DEF PushTurn, PushFails, NextTurn, TypeOK
  <2>2. CASE role[p] = "user"
    <3>1. Turn(p) \in Range(history[s])
      BY <2>1 DEF ReadsAreDurable
    <3>2. Turn(p).query = p /\ Turn(p).role = "user"
      BY <2>2 DEF Turn
    <3> QED
      BY <1>1, <2>1, <2>2, <3>1, <3>2
  <2>3. CASE role[p] # "user"
    BY <2>1, <2>3
  <2> QED
    BY <2>2, <2>3
<1>6. CASE LookUp(p) \/ ReadHistory(p) \/ WarmCache(p)
  <2>1. pc[p] \in {"new", "history", "warm"} /\ role' = role
    BY <1>6 DEF LookUp, ReadHistory, WarmCache, turn
  <2> QED
    BY <1>2, <2>1
<1>7. CASE CommitTurn(p) \/ QueryEndsEarly(p)
  <2>1. pc'[p] \in {"push", "done"}
    BY <1>7 DEF CommitTurn, QueryEndsEarly, TypeOK
  <2> QED
    BY <2>1
<1>8. ASSUME NEW q \in Queries, q # p,
             \/ LookUp(q) \/ ReadHistory(q) \/ WarmCache(q) \/ ReadSession(q)
             \/ CommitTurn(q) \/ PushTurn(q) \/ PushFails(q) \/ QueryEndsEarly(q)
      PROVE  Settled
  <2>1. pc'[p] = pc[p] /\ role'[p] = role[p] /\ created_at'[p] = created_at[p]
    BY <1>8 DEF LookUp, ReadHistory, WarmCache, ReadSession, CommitTurn, PushTurn, PushFails,
                QueryEndsEarly, NextTurn, turn, TypeOK
  <2> QED
    BY <1>3, <2>1
<1>9. CASE Aside
  BY <1>3, <1>9, AsideFacts DEF turn
<1>10. ASSUME NEW r \in Sessions, ExpireCache(r) PROVE Settled
  BY <1>3, <1>10 DEF ExpireCache, turn
<1> QED
  BY <1>4, <1>5, <1>6, <1>7, <1>8, <1>9, <1>10, NextCases

\* The UPDATE of the status lets one end request through; no task moves a session
\* back to active.
LEMMA EnqueuedStep ==
  ASSUME TypeOK, EnqueuedOnce, Next
  PROVE  EnqueuedOnce'
<1> DEFINE Through(e) == end[e] \in {"enqueue", "enqueued"}
           Ended(s) == status[s] \in {"summarization_pending", "summarized"}
<1> USE SessionsAssumption
<1>1. \A e \in EndRequests : Through(e) => Ended(SessionOf[e])
  BY DEF EnqueuedOnce
<1>2. \A e, f \in EndRequests : Through(e) /\ Through(f) /\ SessionOf[e] = SessionOf[f] => e = f
  BY DEF EnqueuedOnce
<1> DEFINE Once == /\ \A e \in EndRequests : Through(e)' => Ended(SessionOf[e])'
                   /\ \A e, f \in EndRequests :
                        Through(e)' /\ Through(f)' /\ SessionOf[e] = SessionOf[f] => e = f
           Steady == /\ \A s \in Sessions : Ended(s) => Ended(s)'
                     /\ \A e \in EndRequests : Through(e)' => Through(e)
<1>3. SUFFICES Once
  BY DEF EnqueuedOnce
<1>4. ASSUME Steady PROVE Once
  BY <1>1, <1>2, <1>4
<1>5. ASSUME NEW e \in EndRequests, EndSession(e), status[SessionOf[e]] = "active"
      PROVE  Once
  <2>1. /\ end'[e] = "enqueue" /\ status'[SessionOf[e]] = "summarization_pending"
        /\ \A f \in EndRequests \ {e} : end'[f] = end[f]
        /\ \A s \in Sessions \ {SessionOf[e]} : status'[s] = status[s]
    BY <1>5 DEF EndSession, TypeOK
  <2>2. \A f \in EndRequests : Through(f) => SessionOf[f] # SessionOf[e]
    BY <1>1, <1>5
  <2> QED
    BY <1>1, <1>2, <2>1, <2>2
<1>6. \/ \E e \in EndRequests : EndSession(e) /\ status[SessionOf[e]] = "active"
      \/ Steady
  <2>1. ASSUME NEW s \in Sessions, CreateSession(s) PROVE Steady
    BY <2>1 DEF CreateSession, TypeOK
  <2>2. ASSUME NEW s \in Sessions, Work(s) PROVE Steady
    BY <2>2 DEF Work, RunTask, TaskFails, Summarize, TypeOK
  <2>3. ASSUME NEW e \in EndRequests, EndSession(e), status[SessionOf[e]] # "active" PROVE Steady
    BY <2>3 DEF EndSession, TypeOK
  <2>4. ASSUME NEW e \in EndRequests, Enqueue(e) \/ EndDies(e) PROVE Steady
    BY <2>4 DEF Enqueue, EndDies, TypeOK, record
  <2>5. ASSUME NEW s \in Sessions, ExpireCache(s) PROVE Steady
    BY <2>5 DEF ExpireCache, record
  <2>6. ASSUME NEW q \in Queries,
               \/ LookUp(q) \/ ReadHistory(q) \/ WarmCache(q) \/ ReadSession(q)
               \/ CommitTurn(q) \/ PushTurn(q) \/ PushFails(q) \/ QueryEndsEarly(q)
        PROVE  Steady
    BY <2>6 DEF LookUp, ReadHistory, WarmCache, ReadSession, CommitTurn, PushTurn, PushFails,
                QueryEndsEarly, record
  <2> QED
    BY <2>1, <2>2, <2>3, <2>4, <2>5, <2>6, NextCases DEF Aside
<1> QED
  BY <1>4, <1>5, <1>6

-----------------------------------------------------------------------------
(***************************************************************************)
(* The theorems.                                                           *)
(***************************************************************************)
\* Every reachable state satisfies the inductive invariant.
THEOREM Invariance == Spec => []IInv
<1>1. IInv /\ [Next]_vars => IInv'
  <2> SUFFICES ASSUME IInv, [Next]_vars PROVE IInv'
    OBVIOUS
  <2>1. CASE Next
    <3>1. TypeOK' /\ TimesOrdered' /\ ReadsAreDurable' /\ QuestionsAsked'
      BY <2>1, TypeStep, TimesStep, ReadsStep, QuestionsStep DEF IInv
    <3>2. /\ WorkingMemoryIsDurable' /\ TurnCountAtMostTurns'
          /\ QuestionsPrecedeAnswers' /\ EnqueuedOnce'
      BY <2>1, WorkingMemoryStep, TurnCountStep, AnswersStep, EnqueuedStep DEF IInv
    <3> QED
      BY <3>1, <3>2 DEF IInv
  <2>2. CASE UNCHANGED vars
    <3>1. /\ UNCHANGED <<status, history, turn_count, cache, clock, pc, role>>
          /\ UNCHANGED <<read_count, created_at, snapshot, end, tasks>>
      BY <2>2 DEF vars, record, turn
    <3>2. TypeOK' /\ ReadsAreDurable' /\ TimesOrdered' /\ QuestionsAsked'
      BY <3>1 DEF IInv, TypeOK, ReadsAreDurable, TimesOrdered, QuestionsAsked, Turn
    <3>3. WorkingMemoryIsDurable' /\ TurnCountAtMostTurns'
      BY <3>1 DEF IInv, WorkingMemoryIsDurable, TurnCountAtMostTurns
    <3>4. QuestionsPrecedeAnswers'
      BY <3>1 DEF IInv, QuestionsPrecedeAnswers
    <3>5. EnqueuedOnce'
      BY <3>1 DEF IInv, EnqueuedOnce
    <3> QED
      BY <3>2, <3>3, <3>4, <3>5 DEF IInv
  <2> QED
    BY <2>1, <2>2
<1> QED
  BY <1>1, InitIInv, PTL DEF Spec

\* The types of the variables, and the window of the working memory.
THEOREM TypeCorrect == Spec => []TypeOK
BY Invariance, PTL DEF IInv

\* Redis never shows a turn that Postgres does not hold.
THEOREM MemoryIsDurable == Spec => []WorkingMemoryIsDurable
BY Invariance, PTL DEF IInv

\* turn_count never overtakes the turns.
THEOREM CountIsBehind == Spec => []TurnCountAtMostTurns
BY Invariance, PTL DEF IInv

\* No answer stands without or before its question.
THEOREM AnswersFollowQuestions == Spec => []QuestionsPrecedeAnswers
BY Invariance, PTL DEF IInv

\* At most one end request enqueues a session's task.
THEOREM EnqueueOnce == Spec => []EnqueuedOnce
BY Invariance, PTL DEF IInv

\* A session's status never goes back.
THEOREM StatusIsMonotonic == Spec => StatusMovesForward
<1> DEFINE Forward == \A s \in Sessions : Rank(status[s]) <= Rank(status'[s])
<1>1. /\ Rank("absent") = 0 /\ Rank("active") = 1
      /\ Rank("summarization_pending") = 2 /\ Rank("summarized") = 3
  BY DEF Rank
<1>2. \A st \in Status : Rank(st) \in Nat
  BY <1>1 DEF Status
<1>3. ASSUME TypeOK, Next PROVE Forward
  <2> SUFFICES ASSUME NEW s \in Sessions
               PROVE  \/ status'[s] = status[s]
                      \/ status[s] = "absent" /\ status'[s] = "active"
                      \/ status[s] = "active" /\ status'[s] = "summarization_pending"
                      \/ status[s] = "summarization_pending" /\ status'[s] = "summarized"
    <3>1. \A r \in Sessions : status[r] \in Status
      BY <1>3 DEF TypeOK
    <3> QED
      BY <1>1, <1>2, <3>1
  <2>1. CASE status' = status
    BY <2>1
  <2>2. ASSUME NEW r \in Sessions, CreateSession(r)
        PROVE  \/ status'[s] = status[s]
               \/ status[s] = "absent" /\ status'[s] = "active"
    BY <1>3, <2>2 DEF CreateSession, TypeOK
  <2>3. ASSUME NEW r \in Sessions, Work(r)
        PROVE  \/ status'[s] = status[s]
               \/ status[s] = "summarization_pending" /\ status'[s] = "summarized"
    BY <1>3, <2>3 DEF Work, RunTask, TaskFails, Summarize, TypeOK
  <2>4. ASSUME NEW e \in EndRequests, EndSession(e)
        PROVE  \/ status'[s] = status[s]
               \/ status[s] = "active" /\ status'[s] = "summarization_pending"
    BY <1>3, <2>4, SessionsAssumption DEF EndSession, TypeOK
  <2>5. \/ status' = status
        \/ \E r \in Sessions : CreateSession(r) \/ Work(r)
        \/ \E e \in EndRequests : EndSession(e)
    BY <1>3, NextCases
    DEF Aside, ExpireCache, Enqueue, EndDies, LookUp, ReadHistory, WarmCache, ReadSession,
        CommitTurn, PushTurn, PushFails, QueryEndsEarly, record
  <2> QED
    BY <2>1, <2>2, <2>3, <2>4, <2>5
<1> QED
  BY <1>3, TypeCorrect, PTL DEF Spec, StatusMovesForward

-----------------------------------------------------------------------------
(***************************************************************************)
(* The working memory in quiet times: queries of a session one after the   *)
(* other, nothing lost, and no expiry while a query is answered.           *)
(***************************************************************************)
QuietTimes == ~Overlapping /\ ~RedisMayFail /\ ~ExpiresMidQuery /\ ~ApiMayDie

\* Queries of a session take turns.
OneByOne == \A p, q \in Queries :
  SessionOf[p] = SessionOf[q] /\ InFlight(p) /\ InFlight(q) => p = q

\* From its first turn a query works on an exact window, behind which Redis is by one turn
\* between a commit and its push; until then the window is cold.
MidQuery(q) ==
  /\ pc[q] \in {"history", "warm"} => cache[SessionOf[q]] = <<>>
  /\ pc[q] = "warm" => snapshot[q] = history[SessionOf[q]]
  /\ pc[q] \in {"turn", "commit"} => cache[SessionOf[q]] = LastTurns(history[SessionOf[q]])
  /\ pc[q] = "commit" => \A i \in 1 .. Len(history[SessionOf[q]]) :
                           history[SessionOf[q]][i].created_at < created_at[q]
  /\ pc[q] = "push" => \E h \in Seq(TurnRecord) :
                         history[SessionOf[q]] = Append(h, Turn(q)) /\ cache[SessionOf[q]] = LastTurns(h)

QuietIInv == OneByOne /\ (\A q \in Queries : MidQuery(q)) /\ WorkingMemoryIsLastTurns

\* A window pushed to is the window of the longer list.
LEMMA WindowOfAppend ==
  ASSUME NEW T, NEW c \in Seq(T), NEW t \in T
  PROVE  LastTurns(Append(LastTurns(c), t)) = LastTurns(Append(c, t))
<1>1. Len(c) \in Nat /\ Window \in Nat /\ Window >= 1
  BY SeqMembers, SessionsAssumption
<1>2. CASE Len(c) <= Window
  BY <1>2 DEF LastTurns
<1>3. CASE Len(c) > Window
  <2>1. PICK n \in Nat : n = Len(c) - Window
    BY <1>1, <1>3
  <2>2. PICK l : l = SubSeq(c, n + 1, Len(c))
    OBVIOUS
  <2>3. LastTurns(c) = l
    <3>1. Len(c) - Window + 1 = n + 1 /\ ~(Len(c) <= Window)
      BY <1>1, <1>3, <2>1
    <3> QED
      BY <2>2, <3>1 DEF LastTurns
  <2>4. /\ l \in Seq(T) /\ Len(l) = Window
        /\ \A i \in 1 .. Window : l[i] = c[n + i]
    <3>1. /\ n + 1 \in Nat /\ n + 1 >= 1 /\ n + 1 <= Len(c) /\ Len(c) - (n + 1) + 1 = Window
          /\ \A i \in 1 .. Window : (n + 1) + i - 1 = n + i
      BY <1>1, <1>3, <2>1
    <3>2. PICK k \in Nat : k = n + 1
      BY <3>1
    <3>3. Len(SubSeq(c, k, Len(c))) = Window
      BY <1>1, <3>1, <3>2
    <3>4. \A i \in 1 .. Window : SubSeq(c, k, Len(c))[i] = c[k + i - 1]
      BY <1>1, <3>1, <3>2
    <3>5. SubSeq(c, k, Len(c)) \in Seq(T)
      BY <1>1, <3>1, <3>2
    <3> QED
      BY <2>2, <3>1, <3>2, <3>3, <3>4, <3>5
  <2>5. PICK a : a = Append(l, t)
    OBVIOUS
  <2>6. PICK b : b = Append(c, t)
    OBVIOUS
  <2>7. /\ a \in Seq(T) /\ Len(a) = Window + 1 /\ a[Window + 1] = t
        /\ \A i \in 1 .. Window : a[i] = c[n + i]
    BY <2>4, <2>5, AppendProperties
  <2>8. /\ b \in Seq(T) /\ Len(b) = Len(c) + 1 /\ b[Len(c) + 1] = t
        /\ \A i \in 1 .. Len(c) : b[i] = c[i]
    BY <2>6, AppendProperties
  <2>9. PICK x : x = SubSeq(a, 2, Window + 1)
    OBVIOUS
  <2>10. PICK y : y = SubSeq(b, n + 2, Len(c) + 1)
    OBVIOUS
  <2>11. LastTurns(a) = x
    <3>1. ~(Len(a) <= Window) /\ Len(a) - Window + 1 = 2
      BY <1>1, <2>7
    <3> QED
      BY <2>7, <2>9, <3>1 DEF LastTurns
  <2>12. LastTurns(b) = y
    <3>1. ~(Len(b) <= Window) /\ Len(b) - Window + 1 = n + 2
      BY <1>1, <1>3, <2>1, <2>8
    <3> QED
      BY <2>8, <2>10, <3>1 DEF LastTurns
  <2>13. /\ x \in Seq(T) /\ Len(x) = Window
         /\ \A i \in 1 .. Window : x[i] = a[i + 1]
    BY <1>1, <2>7, <2>9
  <2>14. /\ y \in Seq(T) /\ Len(y) = Window
         /\ \A i \in 1 .. Window : y[i] = b[n + 1 + i]
    BY <1>1, <1>3, <2>1, <2>8, <2>10
  <2>15. ASSUME NEW i \in 1 .. Window PROVE x[i] = y[i]
    <3>1. CASE i = Window
      <4>1. n + 1 + i = Len(c) + 1 /\ i + 1 = Window + 1
        BY <1>1, <2>1, <3>1
      <4> QED
        BY <2>7, <2>8, <2>13, <2>14, <4>1
    <3>2. CASE i # Window
      <4>1. i + 1 \in 1 .. Window /\ n + (i + 1) \in 1 .. Len(c) /\ n + 1 + i = n + (i + 1)
        BY <1>1, <1>3, <2>1, <3>2
      <4>2. x[i] = c[n + (i + 1)]
        BY <2>7, <2>13, <4>1
      <4>3. y[i] = c[n + (i + 1)]
        BY <2>8, <2>14, <4>1
      <4> QED
        BY <4>2, <4>3
    <3> QED
      BY <3>1, <3>2
  <2>16. x = y
    BY <2>13, <2>14, <2>15, SeqEqual
  <2> QED
    BY <2>3, <2>5, <2>6, <2>11, <2>12, <2>16
<1> QED
  BY <1>1, <1>2, <1>3

\* The newest turn goes to the end.
LEMMA NewestIsLast ==
  ASSUME NEW h \in Seq(TurnRecord), NEW t \in TurnRecord,
         \A i \in 1 .. Len(h) : h[i].created_at < t.created_at
  PROVE  InsertTurn(h, t) = Append(h, t)
<1>1. PICK n \in Nat : n = Len(h)
  BY SeqMembers
<1>2. {i \in 1 .. Len(h) : h[i].created_at < t.created_at} = 1 .. n
  BY <1>1
<1>3. Cardinality(1 .. n) = n
  <2>1. 1 \in Int /\ n \in Int /\ (1 > n <=> n = 0)
    BY <1>1
  <2> QED
    BY <2>1, FS_Interval
<1>4. PICK w : w = InsertAfter(h, n, t)
  OBVIOUS
<1>5. InsertTurn(h, t) = w
  BY <1>2, <1>3, <1>4 DEF InsertTurn
<1>6. n \in 0 .. Len(h)
  BY <1>1
<1>7. /\ w \in Seq(TurnRecord) /\ Len(w) = Len(h) + 1
      /\ \A i \in 1 .. Len(h) + 1 : w[i] = IF i <= n THEN h[i] ELSE IF i = n + 1 THEN t ELSE h[i - 1]
  <2>1. /\ InsertAfter(h, n, t) \in Seq(TurnRecord)
        /\ Len(InsertAfter(h, n, t)) = Len(h) + 1
        /\ \A i \in 1 .. Len(h) + 1 : InsertAfter(h, n, t)[i] =
             IF i <= n THEN h[i] ELSE IF i = n + 1 THEN t ELSE h[i - 1]
    BY <1>6, InsertAfterFacts
  <2> QED
    BY <1>4, <2>1
<1>8. PICK a : a = Append(h, t)
  OBVIOUS
<1>9. /\ a \in Seq(TurnRecord) /\ Len(a) = Len(h) + 1 /\ a[Len(h) + 1] = t
      /\ \A i \in 1 .. Len(h) : a[i] = h[i]
  BY <1>8, AppendProperties
<1>10. \A i \in 1 .. Len(w) : w[i] = a[i]
  BY <1>1, <1>7, <1>9
<1>11. w = a
  BY <1>7, <1>9, <1>10, SeqEqual
<1> QED
  BY <1>5, <1>8, <1>11

\* A window is empty only if nothing was ever said.
LEMMA EmptyWindow ==
  ASSUME NEW T, NEW q \in Seq(T), LastTurns(q) = <<>>
  PROVE  q = <<>>
<1>1. Len(q) \in Nat /\ Window \in Nat /\ Window >= 1
  BY SeqMembers, SessionsAssumption
<1>2. CASE Len(q) <= Window
  BY <1>2 DEF LastTurns
<1>3. CASE Len(q) > Window
  <2>1. LastTurns(q) = SubSeq(q, Len(q) - Window + 1, Len(q))
    BY <1>1, <1>3 DEF LastTurns
  <2>2. Len(SubSeq(q, Len(q) - Window + 1, Len(q))) = Window
    BY <1>1, <1>3
  <2>3. Len(LastTurns(q)) = 0
    BY EmptyFacts
  <2>4. Len(LastTurns(q)) = Window
    BY <2>1, <2>2
  <2> QED
    BY <1>1, <2>3, <2>4
<1> QED
  BY <1>1, <1>2, <1>3

\* A step of one query leaves the other queries and the other sessions alone.
Acts(q) ==
  \/ LookUp(q) \/ ReadHistory(q) \/ WarmCache(q) \/ ReadSession(q)
  \/ CommitTurn(q) \/ PushTurn(q) \/ PushFails(q) \/ QueryEndsEarly(q)

LEMMA OthersStay ==
  ASSUME TypeOK, NEW q \in Queries, Acts(q)
  PROVE  /\ \A p \in Queries \ {q} : /\ pc'[p] = pc[p] /\ snapshot'[p] = snapshot[p]
                                     /\ role'[p] = role[p] /\ created_at'[p] = created_at[p]
         /\ \A s \in Sessions \ {SessionOf[q]} : cache'[s] = cache[s] /\ history'[s] = history[s]
<1>1. SessionOf[q] \in Sessions
  BY SessionsAssumption
<1>2. CASE LookUp(q) \/ ReadHistory(q) \/ QueryEndsEarly(q)
  BY <1>2 DEF LookUp, ReadHistory, QueryEndsEarly, record, turn, TypeOK
<1>3. CASE WarmCache(q)
  BY <1>1, <1>3 DEF WarmCache, record, turn, TypeOK
<1>4. CASE ReadSession(q)
  BY <1>4 DEF ReadSession, record, TypeOK
<1>5. CASE CommitTurn(q)
  BY <1>1, <1>5 DEF CommitTurn, turn, TypeOK
<1>6. CASE PushTurn(q) \/ PushFails(q)
  BY <1>1, <1>6 DEF PushTurn, PushFails, NextTurn, record, TypeOK
<1> QED
  BY <1>2, <1>3, <1>4, <1>5, <1>6 DEF Acts

\* The query that steps, in quiet times.
LEMMA MidQueryStep ==
  ASSUME QuietTimes, TypeOK, TimesOrdered, QuietIInv, NEW q \in Queries, Acts(q)
  PROVE  /\ MidQuery(q)'
         /\ ~InFlight(q)' => cache'[SessionOf[q]] = LastTurns(history'[SessionOf[q]])
<1> DEFINE s == SessionOf[q]
<1>1. /\ s \in Sessions /\ history[s] \in Seq(TurnRecord) /\ cache[s] \in Seq(TurnRecord)
      /\ pc \in [Queries -> {"new", "history", "warm", "turn", "commit", "push", "done"}]
      /\ MidQuery(q)
  BY SessionsAssumption DEF TypeOK, QuietIInv
<1>2. LastTurns(<<>>) = <<>>
  BY EmptyFacts, SessionsAssumption DEF LastTurns
<1>3. CASE LookUp(q)
  <2>1. /\ Idle(s) /\ history' = history /\ cache' = cache
        /\ pc'[q] = IF cache[s] # <<>> THEN "turn" ELSE "history"
    BY <1>1, <1>3 DEF LookUp, QuietTimes, record
  <2>2. cache[s] # <<>> => cache[s] = LastTurns(history[s])
    BY <1>1, <2>1 DEF QuietIInv, WorkingMemoryIsLastTurns
  <2> QED
    BY <2>1, <2>2 DEF MidQuery, InFlight
<1>4. CASE ReadHistory(q)
  <2>1. /\ pc[q] = "history" /\ pc'[q] = "warm" /\ history' = history /\ cache' = cache
        /\ snapshot'[q] = history[s]
    BY <1>1, <1>4 DEF ReadHistory, record, TypeOK
  <2> QED
    BY <1>1, <2>1 DEF MidQuery, InFlight
<1>5. CASE WarmCache(q)
  <2>1. /\ pc[q] = "warm" /\ pc'[q] = "turn" /\ history' = history
        /\ snapshot[q] = history[s] /\ cache[s] = <<>>
    BY <1>1, <1>5 DEF WarmCache, record, MidQuery
  <2>2. cache'[s] = LastTurns(history[s])
    <3>1. CASE LastTurns(history[s]) = <<>>
      <4>1. cache' = cache
        BY <1>5, <2>1, <3>1 DEF WarmCache
      <4> QED
        BY <2>1, <3>1, <4>1
    <3>2. CASE LastTurns(history[s]) # <<>>
      <4>1. cache' = [cache EXCEPT ![s] = LastTurns(history[s])]
        BY <1>5, <2>1, <3>2 DEF WarmCache
      <4> QED
        BY <1>1, <4>1 DEF TypeOK
    <3> QED
      BY <3>1, <3>2
  <2> QED
    BY <2>1, <2>2 DEF MidQuery, InFlight
<1>6. CASE ReadSession(q)
  <2>1. /\ pc[q] = "turn" /\ pc'[q] = "commit" /\ history' = history /\ cache' = cache
        /\ created_at'[q] = clock
    BY <1>1, <1>6 DEF ReadSession, record, TypeOK
  <2>2. \A i \in 1 .. Len(history[s]) : history[s][i].created_at < clock
    BY <1>1 DEF TimesOrdered
  <2> QED
    BY <1>1, <2>1, <2>2 DEF MidQuery, InFlight
<1>7. CASE CommitTurn(q)
  <2>1. /\ pc[q] = "commit" /\ pc'[q] = "push" /\ cache' = cache
        /\ history' = [history EXCEPT ![s] = InsertTurn(history[s], Turn(q))]
        /\ Turn(q)' = Turn(q)
    BY <1>1, <1>7 DEF CommitTurn, turn, TypeOK, Turn
  <2>2. Turn(q) \in TurnRecord /\ Turn(q).created_at = created_at[q]
    BY DEF TypeOK, Turn, TurnRecord
  <2>3. \A i \in 1 .. Len(history[s]) : history[s][i].created_at < Turn(q).created_at
    BY <1>1, <2>1, <2>2 DEF MidQuery
  <2>4. InsertTurn(history[s], Turn(q)) = Append(history[s], Turn(q))
    BY <1>1, <2>2, <2>3, NewestIsLast
  <2>5. history'[s] = Append(history[s], Turn(q))
    BY <1>1, <2>1, <2>4 DEF TypeOK
  <2>6. cache'[s] = LastTurns(history[s])
    BY <1>1, <2>1 DEF MidQuery
  <2>7. history'[s] = Append(history[s], Turn(q)')
    BY <2>1, <2>5
  <2> QED
    BY <1>1, <2>1, <2>6, <2>7 DEF MidQuery, InFlight
<1>8. CASE PushTurn(q)
  <2>1. /\ pc[q] = "push" /\ pc'[q] \in {"turn", "done"} /\ history' = history
        /\ cache' = [cache EXCEPT ![s] = LastTurns(Append(cache[s], Turn(q)))]
    BY <1>1, <1>8 DEF PushTurn, NextTurn, record
  <2>2. PICK h \in Seq(TurnRecord) : history[s] = Append(h, Turn(q)) /\ cache[s] = LastTurns(h)
    BY <1>1, <2>1 DEF MidQuery
  <2>3. Turn(q) \in TurnRecord
    BY DEF TypeOK, Turn, TurnRecord
  <2>4. LastTurns(Append(LastTurns(h), Turn(q))) = LastTurns(Append(h, Turn(q)))
    BY <2>3, WindowOfAppend
  <2>5. cache'[s] = LastTurns(history'[s])
    BY <1>1, <2>1, <2>2, <2>4 DEF TypeOK
  <2> QED
    BY <2>1, <2>5 DEF MidQuery, InFlight
<1>9. CASE PushFails(q)
  BY <1>9 DEF PushFails, QuietTimes
<1>10. CASE QueryEndsEarly(q)
  <2>1. pc[q] = "turn" /\ pc'[q] = "done" /\ history' = history /\ cache' = cache
    BY <1>1, <1>10 DEF QueryEndsEarly, QuietTimes, record
  <2> QED
    BY <1>1, <2>1 DEF MidQuery, InFlight
<1> QED
  BY <1>3, <1>4, <1>5, <1>6, <1>7, <1>8, <1>9, <1>10 DEF Acts

\* The others of its session are not under way.
LEMMA QuietQueryStep ==
  ASSUME QuietTimes, TypeOK, TimesOrdered, QuietIInv, NEW q \in Queries, Acts(q)
  PROVE  QuietIInv'
<1> USE SessionsAssumption
<1>1. /\ \A p \in Queries \ {q} : /\ pc'[p] = pc[p] /\ snapshot'[p] = snapshot[p]
                                  /\ role'[p] = role[p] /\ created_at'[p] = created_at[p]
      /\ \A s \in Sessions \ {SessionOf[q]} : cache'[s] = cache[s] /\ history'[s] = history[s]
  BY OthersStay
<1>2. ASSUME NEW p \in Queries, p # q, SessionOf[p] = SessionOf[q] PROVE ~InFlight(p)
  <2>1. CASE LookUp(q)
    BY <1>2, <2>1 DEF LookUp, QuietTimes, Idle
  <2>2. CASE ~LookUp(q)
    <3>1. InFlight(q)
      BY <2>2 DEF Acts, ReadHistory, WarmCache, ReadSession, CommitTurn, PushTurn, PushFails,
                  QueryEndsEarly, InFlight
    <3> QED
      BY <1>2, <3>1 DEF QuietIInv, OneByOne
  <2> QED
    BY <2>1, <2>2
<1>3. OneByOne'
  <2> SUFFICES ASSUME NEW p \in Queries, NEW r \in Queries, SessionOf[p] = SessionOf[r],
                      InFlight(p)', InFlight(r)'
               PROVE  p = r
    BY DEF OneByOne
  <2>1. CASE p # q /\ r # q
    BY <1>1, <2>1 DEF QuietIInv, OneByOne, InFlight
  <2>2. CASE p = q /\ r # q
    BY <1>1, <1>2, <2>2 DEF InFlight
  <2>3. CASE p # q /\ r = q
    BY <1>1, <1>2, <2>3 DEF InFlight
  <2> QED
    BY <2>1, <2>2, <2>3
<1>4. ASSUME NEW p \in Queries PROVE MidQuery(p)'
  <2>1. CASE p = q
    BY <2>1, MidQueryStep
  <2>2. CASE p # q /\ SessionOf[p] = SessionOf[q]
    <3>1. pc'[p] \in {"new", "done"}
      BY <1>1, <1>2, <2>2 DEF InFlight
    <3> QED
      BY <3>1 DEF MidQuery
  <2>3. CASE p # q /\ SessionOf[p] # SessionOf[q]
    <3>1. /\ pc'[p] = pc[p] /\ snapshot'[p] = snapshot[p] /\ created_at'[p] = created_at[p]
          /\ cache'[SessionOf[p]] = cache[SessionOf[p]] /\ history'[SessionOf[p]] = history[SessionOf[p]]
          /\ Turn(p)' = Turn(p)
      BY <1>1, <2>3 DEF Turn
    <3>2. MidQuery(p)
      BY DEF QuietIInv
    <3> QED
      BY <3>1, <3>2 DEF MidQuery
  <2> QED
    BY <2>1, <2>2, <2>3
<1>5. WorkingMemoryIsLastTurns'
  <2> SUFFICES ASSUME NEW s \in Sessions, Idle(s)', cache'[s] # <<>>
               PROVE  cache'[s] = LastTurns(history'[s])
    BY DEF WorkingMemoryIsLastTurns
  <2>1. CASE s = SessionOf[q]
    <3>1. ~InFlight(q)'
      BY <2>1 DEF Idle
    <3> QED
      BY <2>1, <3>1, MidQueryStep
  <2>2. CASE s # SessionOf[q]
    <3>1. Idle(s)
      BY <1>1, <2>2 DEF Idle, InFlight
    <3> QED
      BY <1>1, <2>2, <3>1 DEF QuietIInv, WorkingMemoryIsLastTurns
  <2> QED
    BY <2>1, <2>2
<1> QED
  BY <1>3, <1>4, <1>5 DEF QuietIInv

LEMMA QuietStep ==
  ASSUME QuietTimes, IInv, QuietIInv, [Next]_vars
  PROVE  QuietIInv'
<1>0. TypeOK /\ TimesOrdered
  BY DEF IInv
<1>1. CASE UNCHANGED <<history, cache, pc, role, created_at, snapshot>>
  BY <1>1 DEF QuietIInv, OneByOne, MidQuery, WorkingMemoryIsLastTurns, InFlight, Idle, Turn
<1>2. CASE Aside
  BY <1>1, <1>2, AsideFacts DEF turn
<1>3. ASSUME NEW s \in Sessions, ExpireCache(s) PROVE QuietIInv'
  <2>1. /\ Idle(s) /\ cache' = [cache EXCEPT ![s] = <<>>]
        /\ UNCHANGED <<history, pc, role, created_at, snapshot>>
    BY <1>3 DEF ExpireCache, QuietTimes, record, turn
  <2>2. cache'[s] = <<>> /\ \A r \in Sessions \ {s} : cache'[r] = cache[r]
    BY <1>0, <2>1 DEF TypeOK
  <2>3. OneByOne'
    BY <2>1 DEF QuietIInv, OneByOne, InFlight
  <2>4. ASSUME NEW q \in Queries PROVE MidQuery(q)'
    <3>1. MidQuery(q) /\ Turn(q)' = Turn(q) /\ SessionOf[q] \in Sessions
      BY <2>1, SessionsAssumption DEF QuietIInv, Turn
    <3>2. CASE SessionOf[q] = s
      <4>1. pc'[q] \in {"new", "done"}
        BY <2>1, <3>2 DEF Idle, InFlight
      <4> QED
        BY <4>1 DEF MidQuery
    <3>3. CASE SessionOf[q] # s
      <4>1. cache'[SessionOf[q]] = cache[SessionOf[q]]
        BY <2>2, <3>1, <3>3
      <4> QED
        BY <2>1, <3>1, <4>1 DEF MidQuery
    <3> QED
      BY <3>2, <3>3
  <2>5. WorkingMemoryIsLastTurns'
    BY <2>1, <2>2 DEF QuietIInv, WorkingMemoryIsLastTurns, Idle, InFlight
  <2> QED
    BY <2>3, <2>4, <2>5 DEF QuietIInv
<1>4. ASSUME NEW q \in Queries, Acts(q) PROVE QuietIInv'
  BY <1>0, <1>4, QuietQueryStep
<1>5. CASE UNCHANGED vars
  BY <1>1, <1>5 DEF vars, record, turn
<1> QED
  BY <1>2, <1>3, <1>4, <1>5, NextCases DEF Acts

\* In quiet times the warm working memory between two queries of a session is exactly its
\* last turns: what get_working_memory would read from Postgres (session_service.py).
THEOREM MemoryIsExact ==
  ASSUME QuietTimes
  PROVE  Spec => []WorkingMemoryIsLastTurns
<1>1. Init => QuietIInv
  <2> SUFFICES ASSUME Init PROVE QuietIInv
    OBVIOUS
  <2>1. \A q \in Queries : pc[q] = "new"
    BY DEF Init
  <2>2. OneByOne
    BY <2>1 DEF OneByOne, InFlight
  <2>3. \A q \in Queries : MidQuery(q)
    BY <2>1 DEF MidQuery
  <2>4. WorkingMemoryIsLastTurns
    BY DEF WorkingMemoryIsLastTurns, Init
  <2> QED
    BY <2>2, <2>3, <2>4 DEF QuietIInv
<1>2. IInv /\ QuietIInv /\ [Next]_vars => QuietIInv'
  BY QuietStep
<1>3. QuietIInv => WorkingMemoryIsLastTurns
  BY DEF QuietIInv
<1> QED
  BY <1>1, <1>2, <1>3, Invariance, PTL DEF Spec
=============================================================================
