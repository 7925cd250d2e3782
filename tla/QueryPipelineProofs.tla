------------------------ MODULE QueryPipelineProofs ------------------------
(***************************************************************************)
(* QueryPipeline, for any queries, chunks, budgets, retry limits and        *)
(* replies of the critic.  First what build_context makes of a ranking,    *)
(* then the loop of one query, then what it leaves in the database.        *)
(***************************************************************************)
EXTENDS QueryPipeline, FiniteSetTheorems, WellFoundedInduction, TLAPS

Excerpts == [chunk : Chunks, marker : Nat \ {0}]

\* Induction over the first L naturals, by the least exception.
LEMMA UpToInduction ==
  ASSUME NEW L \in Nat, NEW S, 0 \in S, \A n \in 0 .. L : n + 1 <= L /\ n \in S => n + 1 \in S
  PROVE  0 .. L \subseteq S
<1> DEFINE T == (0 .. L) \ S
<1> SUFFICES ASSUME T # {} PROVE FALSE
  OBVIOUS
<1>1. T \subseteq Nat OBVIOUS
<1>2. PICK x \in T : \A y \in T : ~ (<<y, x>> \in OpToRel(<, Nat))
  <2>1. IsWellFoundedOn(OpToRel(<, Nat), Nat) BY NatLessThanWellFounded
  <2> HIDE DEF T
  <2>2. QED BY <1>1, <2>1, WFMin
<1>3. x # 0 /\ x - 1 \in 0 .. L OBVIOUS
<1>4. x - 1 \notin S
  <2>1. (x - 1) + 1 = x BY <1>3
  <2>2. QED BY <1>3, <2>1
<1>5. <<x - 1, x>> \in OpToRel(<, Nat)
  BY <1>3 DEF OpToRel
<1>6. QED BY <1>2, <1>3, <1>4, <1>5


\* The tokens of excerpts, counted from the first one on.
IsSum(f, used, n) == f = [m \in 0 .. n |-> IF m = 0 THEN 0 ELSE f[m - 1] + Tokens[used[m].chunk]]

\* Counting is possible, and in one way.
LEMMA SumExists ==
  ASSUME NEW used, NEW L \in Nat
  PROVE  \E f : IsSum(f, used, L)
<1> DEFINE S == {n \in 0 .. L : \E f : IsSum(f, used, n)}
<1>1. 0 \in S
  <2>1. IsSum([m \in 0 .. 0 |-> 0], used, 0) BY DEF IsSum
  <2>2. QED BY <2>1
<1>2. ASSUME NEW n \in 0 .. L, n + 1 <= L, n \in S PROVE n + 1 \in S
  <2>1. PICK f : IsSum(f, used, n) BY <1>2
  <2> DEFINE g == [m \in 0 .. n + 1 |-> IF m = n + 1 THEN f[n] + Tokens[used[m].chunk] ELSE f[m]]
  <2>2. \A m \in 0 .. n : g[m] = f[m] /\ f[m] = IF m = 0 THEN 0 ELSE f[m - 1] + Tokens[used[m].chunk]
    BY <2>1 DEF IsSum
  <2>3. g[n + 1] = g[n] + Tokens[used[n + 1].chunk]
    BY <2>2
  <2>4. ASSUME NEW m \in 0 .. n + 1
        PROVE  g[m] = IF m = 0 THEN 0 ELSE g[m - 1] + Tokens[used[m].chunk]
    <3> HIDE DEF g
    <3>1. CASE m = n + 1
      <4>1. m # 0 /\ m - 1 = n BY <3>1
      <4>2. QED BY <2>3, <3>1, <4>1
    <3>2. CASE m = 0
      <4>1. m \in 0 .. n BY <3>2
      <4>2. QED BY <2>2, <3>2, <4>1
    <3>3. CASE m \in 1 .. n
      <4>1. m \in 0 .. n /\ m - 1 \in 0 .. n /\ m # 0 BY <3>3
      <4>2. QED BY <2>2, <4>1
    <3>4. QED BY <3>1, <3>2, <3>3
  <2>5. IsSum(g, used, n + 1) BY <2>4 DEF IsSum
  <2>6. QED BY <1>2, <2>5
<1>3. 0 .. L \subseteq S
  <2> HIDE DEF S
  <2>1. QED BY <1>1, <1>2, UpToInduction
<1>4. QED BY <1>3

\* Sums that agree on the first n excerpts count them alike.
LEMMA SumUnique ==
  ASSUME NEW used, NEW more, NEW n \in Nat, NEW k \in Nat, n <= k, NEW f, NEW g,
         IsSum(f, used, n), IsSum(g, more, k), \A m \in 1 .. n : more[m] = used[m]
  PROVE  \A m \in 0 .. n : g[m] = f[m]
<1> DEFINE S == {m \in 0 .. n : g[m] = f[m]}
<1>1. /\ \A m \in 0 .. n : f[m] = IF m = 0 THEN 0 ELSE f[m - 1] + Tokens[used[m].chunk]
      /\ \A m \in 0 .. k : g[m] = IF m = 0 THEN 0 ELSE g[m - 1] + Tokens[more[m].chunk]
  BY DEF IsSum
<1>2. 0 \in S BY <1>1
<1>3. ASSUME NEW m \in 0 .. n, m + 1 <= n, m \in S PROVE m + 1 \in S
  <2>1. m + 1 \in 1 .. n /\ (m + 1) - 1 = m BY <1>3
  <2>2. QED BY <1>1, <1>3, <2>1
<1>4. 0 .. n \subseteq S
  <2> HIDE DEF S
  <2>1. QED BY <1>2, <1>3, UpToInduction
<1>5. QED BY <1>4

LEMMA SumIsTokens ==
  ASSUME NEW used, Len(used) \in Nat, NEW f, IsSum(f, used, Len(used))
  PROVE  TokensOf(used) = f[Len(used)]
<1>1. ASSUME NEW g, IsSum(g, used, Len(used)) PROVE g = f
  <2>1. \A m \in 0 .. Len(used) : g[m] = f[m] BY <1>1, SumUnique
  <2>2. /\ f = [m \in 0 .. Len(used) |-> f[m]]
        /\ g = [m \in 0 .. Len(used) |-> g[m]]
    BY <1>1 DEF IsSum
  <2>3. QED BY <2>1, <2>2
<1>2. (CHOOSE g : IsSum(g, used, Len(used))) = f BY <1>1
<1>3. QED BY <1>2 DEF TokensOf, IsSum

\* Nothing takes no tokens; one more excerpt takes its own on top.
LEMMA TokensFacts ==
  /\ TokensOf(<<>>) = 0
  /\ \A used \in Seq(Excerpts) : TokensOf(used) \in Nat
  /\ \A used \in Seq(Excerpts), e \in Excerpts :
       TokensOf(Append(used, e)) = TokensOf(used) + Tokens[e.chunk]
<1>1. TokensOf(<<>>) = 0
  <2>1. PICK f : IsSum(f, <<>>, Len(<<>>)) BY SumExists
  <2>2. f[0] = 0 BY <2>1 DEF IsSum
  <2>3. QED BY <2>1, <2>2, SumIsTokens
<1>2. ASSUME NEW used \in Seq(Excerpts) PROVE TokensOf(used) \in Nat
  <2>1. PICK f : IsSum(f, used, Len(used)) BY SumExists
  <2> DEFINE S == {m \in 0 .. Len(used) : f[m] \in Nat}
  <2>2. \A m \in 0 .. Len(used) : f[m] = IF m = 0 THEN 0 ELSE f[m - 1] + Tokens[used[m].chunk]
    BY <2>1 DEF IsSum
  <2>3. 0 \in S BY <2>2
  <2>4. ASSUME NEW m \in 0 .. Len(used), m + 1 <= Len(used), m \in S PROVE m + 1 \in S
    <3>1. m + 1 \in 1 .. Len(used) /\ (m + 1) - 1 = m BY <2>4
    <3>2. Tokens[used[m + 1].chunk] \in Nat
      <4>1. used[m + 1] \in Excerpts BY <3>1
      <4>2. used[m + 1].chunk \in Chunks BY <4>1 DEF Excerpts
      <4>3. QED BY <4>2, QueryPipelineAssumption
    <3>3. QED BY <2>2, <2>4, <3>1, <3>2
  <2>5. Len(used) \in Nat OBVIOUS
  <2>6. 0 .. Len(used) \subseteq S
    <3> HIDE DEF S
    <3>1. QED BY <2>3, <2>4, <2>5, UpToInduction, SMTT(30)
  <2>7. f[Len(used)] \in Nat
    <3>1. Len(used) \in 0 .. Len(used) BY <2>5
    <3>2. QED BY <2>6, <3>1
  <2>8. TokensOf(used) = f[Len(used)] BY <2>1, <2>5, SumIsTokens
  <2>9. QED BY <2>7, <2>8
<1>3. ASSUME NEW used \in Seq(Excerpts), NEW e \in Excerpts
      PROVE  TokensOf(Append(used, e)) = TokensOf(used) + Tokens[e.chunk]
  <2> DEFINE more == Append(used, e)  n == Len(used)
  <2>1. n \in Nat /\ Len(more) = n + 1 /\ more[n + 1] = e /\ \A m \in 1 .. n : more[m] = used[m]
    OBVIOUS
  <2> HIDE DEF more
  <2>2. n + 1 \in Nat BY <2>1
  <2> HIDE DEF n
  <2>3. PICK f : IsSum(f, used, n) BY <2>1, SumExists
  <2>4. PICK g : IsSum(g, more, n + 1) BY <2>2, SumExists
  <2>5. g[n] = f[n] BY <2>1, <2>2, <2>3, <2>4, SumUnique
  <2>6. g[n + 1] = g[n] + Tokens[more[n + 1].chunk] BY <2>1, <2>2, <2>4 DEF IsSum
  <2>7. TokensOf(used) = f[n] /\ TokensOf(more) = g[n + 1]
    BY <2>1, <2>2, <2>3, <2>4, SumIsTokens DEF n
  <2>8. QED BY <2>1, <2>5, <2>6, <2>7 DEF more
<1>4. QED BY <1>1, <1>2, <1>3

\* The excerpts of the first n chunks of a ranking, which build_context goes through in order.
IsPacking(f, s, n) == f = [m \in 0 .. n |-> IF m = 0 THEN <<>> ELSE AddExcerpt(f[m - 1], m, s[m])]

LEMMA PackingExists ==
  ASSUME NEW s, NEW L \in Nat
  PROVE  \E f : IsPacking(f, s, L)
<1> DEFINE S == {n \in 0 .. L : \E f : IsPacking(f, s, n)}
<1>1. 0 \in S
  <2>1. IsPacking([m \in 0 .. 0 |-> <<>>], s, 0) BY DEF IsPacking
  <2>2. QED BY <2>1
<1>2. ASSUME NEW n \in 0 .. L, n + 1 <= L, n \in S PROVE n + 1 \in S
  <2>1. PICK f : IsPacking(f, s, n) BY <1>2
  <2> DEFINE g == [m \in 0 .. n + 1 |-> IF m = n + 1 THEN AddExcerpt(f[n], m, s[m]) ELSE f[m]]
  <2>2. \A m \in 0 .. n : g[m] = f[m] /\ f[m] = IF m = 0 THEN <<>> ELSE AddExcerpt(f[m - 1], m, s[m])
    BY <2>1 DEF IsPacking
  <2>3. g[n + 1] = AddExcerpt(g[n], n + 1, s[n + 1])
    BY <2>2
  <2>4. ASSUME NEW m \in 0 .. n + 1
        PROVE  g[m] = IF m = 0 THEN <<>> ELSE AddExcerpt(g[m - 1], m, s[m])
    <3> HIDE DEF g
    <3>1. CASE m = n + 1
      <4>1. m # 0 /\ m - 1 = n BY <3>1
      <4>2. QED BY <2>3, <3>1, <4>1
    <3>2. CASE m = 0
      <4>1. m \in 0 .. n BY <3>2
      <4>2. QED BY <2>2, <3>2, <4>1
    <3>3. CASE m \in 1 .. n
      <4>1. m \in 0 .. n /\ m - 1 \in 0 .. n /\ m # 0 BY <3>3
      <4>2. QED BY <2>2, <4>1
    <3>4. QED BY <3>1, <3>2, <3>3
  <2>5. IsPacking(g, s, n + 1) BY <2>4 DEF IsPacking
  <2>6. QED BY <1>2, <2>5
<1>3. 0 .. L \subseteq S
  <2> HIDE DEF S
  <2>1. QED BY <1>1, <1>2, UpToInduction
<1>4. QED BY <1>3

LEMMA PackingUnique ==
  ASSUME NEW s, NEW n \in Nat, NEW f, NEW g, IsPacking(f, s, n), IsPacking(g, s, n)
  PROVE  f = g
<1> DEFINE S == {m \in 0 .. n : g[m] = f[m]}
<1>1. /\ \A m \in 0 .. n : f[m] = IF m = 0 THEN <<>> ELSE AddExcerpt(f[m - 1], m, s[m])
      /\ \A m \in 0 .. n : g[m] = IF m = 0 THEN <<>> ELSE AddExcerpt(g[m - 1], m, s[m])
  BY DEF IsPacking
<1>2. 0 \in S BY <1>1
<1>3. ASSUME NEW m \in 0 .. n, m + 1 <= n, m \in S PROVE m + 1 \in S
  <2>1. m + 1 \in 1 .. n /\ (m + 1) - 1 = m BY <1>3
  <2>2. QED BY <1>1, <1>3, <2>1
<1>4. 0 .. n \subseteq S
  <2> HIDE DEF S
  <2>1. QED BY <1>2, <1>3, UpToInduction
<1>5. f = [m \in 0 .. n |-> f[m]] /\ g = [m \in 0 .. n |-> g[m]]
  BY DEF IsPacking
<1>6. QED BY <1>4, <1>5

LEMMA PackingIsChunksUsed ==
  ASSUME NEW s, Len(s) \in Nat, NEW f, IsPacking(f, s, Len(s))
  PROVE  ChunksUsed(s) = f[Len(s)]
<1>1. (CHOOSE g : IsPacking(g, s, Len(s))) = f BY PackingUnique
<1>2. QED BY <1>1 DEF ChunksUsed, IsPacking

\* A ranking names no chunk twice.
Distinct(s) == \A i, j \in DOMAIN s : s[i] = s[j] => i = j
ChunksOf(used) == {used[i].chunk : i \in DOMAIN used}

\* What the first n chunks of a ranking become: each excerpt is the chunk at its marker,
\* none stands twice, they fit, and what was left out does not fit beside them.
Packed(used, s, n) ==
  /\ used \in Seq(Excerpts)
  /\ \A j \in DOMAIN used : used[j].marker \in 1 .. n /\ used[j].chunk = s[used[j].marker]
  /\ IsFiniteSet(ChunksOf(used)) /\ Cardinality(ChunksOf(used)) = Len(used)
  /\ TokensOf(used) <= ChunkBudget
  /\ \A i \in 1 .. n : s[i] \in ChunksOf(used) \/ TokensOf(used) + Tokens[s[i]] > ChunkBudget

LEMMA PackedStep ==
  ASSUME NEW s \in Seq(Chunks), Distinct(s), NEW n \in Nat, n + 1 <= Len(s),
         NEW used, Packed(used, s, n)
  PROVE  Packed(AddExcerpt(used, n + 1, s[n + 1]), s, n + 1)
<1> DEFINE e == [chunk |-> s[n + 1], marker |-> n + 1]  more == Append(used, e)
<1>1. s[n + 1] \in Chunks /\ \A i \in 1 .. n : s[i] \in Chunks /\ s[i] # s[n + 1]
  BY DEF Distinct
<1>2. e \in Excerpts BY <1>1 DEF Excerpts
<1>3. used \in Seq(Excerpts) /\ TokensOf(used) \in Nat
  BY TokensFacts DEF Packed
<1>4. \A i \in 1 .. n + 1 : Tokens[s[i]] \in Nat
  BY QueryPipelineAssumption
<1>5. ChunkBudget \in Nat BY QueryPipelineAssumption
<1>6. CASE TokensOf(used) + Tokens[s[n + 1]] > ChunkBudget
  <2>1. AddExcerpt(used, n + 1, s[n + 1]) = used BY <1>6 DEF AddExcerpt
  <2>2. \A i \in 1 .. n + 1 : i \in 1 .. n \/ i = n + 1 OBVIOUS
  <2>3. \A i \in 1 .. n + 1 : s[i] \in ChunksOf(used) \/ TokensOf(used) + Tokens[s[i]] > ChunkBudget
    BY <1>6, <2>2 DEF Packed
  <2>4. \A j \in DOMAIN used : used[j].marker \in 1 .. n + 1 /\ used[j].chunk = s[used[j].marker]
    <3>1. 1 .. n \subseteq 1 .. n + 1 OBVIOUS
    <3>2. QED BY <3>1 DEF Packed
  <2>5. QED BY <2>1, <2>3, <2>4 DEF Packed
<1>7. CASE ~ (TokensOf(used) + Tokens[s[n + 1]] > ChunkBudget)
  <2>1. AddExcerpt(used, n + 1, s[n + 1]) = more BY <1>7 DEF AddExcerpt
  <2>2. /\ more \in Seq(Excerpts) /\ Len(more) = Len(used) + 1
        /\ DOMAIN more = DOMAIN used \cup {Len(used) + 1}
        /\ more[Len(used) + 1] = e
        /\ \A j \in DOMAIN used : more[j] = used[j]
    BY <1>2, <1>3
  <2>3. TokensOf(more) = TokensOf(used) + Tokens[s[n + 1]]
    BY <1>2, <1>3, TokensFacts
  <2>4. e.chunk = s[n + 1] /\ e.marker = n + 1 OBVIOUS
  <2> HIDE DEF e, more
  <2>5. ChunksOf(more) = ChunksOf(used) \cup {s[n + 1]}
    BY <2>2, <2>4 DEF ChunksOf
  <2>6. s[n + 1] \notin ChunksOf(used)
    BY <1>1 DEF Packed, ChunksOf
  <2>7. IsFiniteSet(ChunksOf(more)) /\ Cardinality(ChunksOf(more)) = Len(more)
    <3>1. IsFiniteSet(ChunksOf(used)) /\ Cardinality(ChunksOf(used)) = Len(used)
      BY DEF Packed
    <3>2. /\ IsFiniteSet(ChunksOf(used) \cup {s[n + 1]})
          /\ Cardinality(ChunksOf(used) \cup {s[n + 1]}) = Cardinality(ChunksOf(used)) + 1
      BY <2>6, <3>1, FS_AddElement
    <3>3. QED BY <2>2, <2>5, <3>1, <3>2
  <2>8. \A j \in DOMAIN more : more[j].marker \in 1 .. n + 1 /\ more[j].chunk = s[more[j].marker]
    BY <2>2, <2>4 DEF Packed
  <2>9. TokensOf(more) <= ChunkBudget BY <1>1, <1>3, <1>4, <1>5, <1>7, <2>3
  <2>10. ASSUME NEW i \in 1 .. n + 1
         PROVE  s[i] \in ChunksOf(more) \/ TokensOf(more) + Tokens[s[i]] > ChunkBudget
    <3>1. CASE i = n + 1 BY <2>5, <3>1
    <3>2. CASE i \in 1 .. n
      <4>1. CASE s[i] \in ChunksOf(used) BY <2>5, <4>1
      <4>2. CASE TokensOf(used) + Tokens[s[i]] > ChunkBudget
        <5>1. Tokens[s[i]] \in Nat /\ Tokens[s[n + 1]] \in Nat BY <1>4
        <5>2. TokensOf(more) = TokensOf(used) + Tokens[s[n + 1]] /\ TokensOf(used) \in Nat
          BY <1>3, <2>3
        <5>3. QED BY <1>5, <4>2, <5>1, <5>2, SMTT(30)
      <4>3. QED BY <3>2, <4>1, <4>2 DEF Packed
    <3>3. QED BY <3>1, <3>2
  <2>11. QED BY <2>1, <2>2, <2>7, <2>8, <2>9, <2>10 DEF Packed
<1>8. QED BY <1>6, <1>7

\* build_context, for every ranking.
LEMMA ContextIsPacked ==
  ASSUME NEW s \in Seq(Chunks), Distinct(s)
  PROVE  Packed(ChunksUsed(s), s, Len(s))
<1> DEFINE L == Len(s)
<1>1. L \in Nat OBVIOUS
<1> HIDE DEF L
<1>2. PICK f : IsPacking(f, s, L) BY <1>1, PackingExists
<1>3. /\ f[0] = <<>>
      /\ \A m \in 0 .. L : m + 1 <= L => f[m + 1] = AddExcerpt(f[m], m + 1, s[m + 1])
  <2>1. \A m \in 0 .. L : f[m] = IF m = 0 THEN <<>> ELSE AddExcerpt(f[m - 1], m, s[m])
    BY <1>2 DEF IsPacking
  <2>2. \A m \in 0 .. L : m + 1 <= L => m + 1 \in 0 .. L /\ m + 1 # 0 /\ (m + 1) - 1 = m
    BY <1>1
  <2>3. 0 \in 0 .. L BY <1>1
  <2>4. QED BY <2>1, <2>2, <2>3
<1> DEFINE S == {m \in 0 .. L : Packed(f[m], s, m)}
<1>4. Packed(<<>>, s, 0)
  <2>1. ChunksOf(<<>>) = {} BY DEF ChunksOf
  <2>2. <<>> \in Seq(Excerpts) /\ Len(<<>>) = 0 /\ DOMAIN <<>> = {} OBVIOUS
  <2>3. IsFiniteSet({}) /\ Cardinality({}) = 0 BY FS_EmptySet
  <2>4. TokensOf(<<>>) <= ChunkBudget BY TokensFacts, QueryPipelineAssumption
  <2>5. \A i : i \notin 1 .. 0 OBVIOUS
  <2>6. QED BY <2>1, <2>2, <2>3, <2>4, <2>5 DEF Packed
<1>5. 0 \in S BY <1>1, <1>3, <1>4
<1>6. ASSUME NEW m \in 0 .. L, m + 1 <= L, m \in S PROVE m + 1 \in S
  <2>1. m \in Nat /\ m + 1 <= Len(s) BY <1>1, <1>6 DEF L
  <2>2. Packed(f[m], s, m) /\ f[m + 1] = AddExcerpt(f[m], m + 1, s[m + 1]) BY <1>3, <1>6
  <2>3. Packed(AddExcerpt(f[m], m + 1, s[m + 1]), s, m + 1) BY <2>1, <2>2, PackedStep
  <2>4. m + 1 \in 0 .. L BY <1>1, <1>6
  <2>5. QED BY <2>2, <2>3, <2>4
<1>7. 0 .. L \subseteq S
  <2> HIDE DEF S
  <2>1. QED BY <1>1, <1>5, <1>6, UpToInduction
<1>8. Packed(f[L], s, L)
  <2>1. L \in S BY <1>1, <1>7
  <2>2. QED BY <2>1
<1>9. QED BY <1>1, <1>2, <1>8, PackingIsChunksUsed DEF L

-----------------------------------------------------------------------------
\* The loop has not ended.
Looping == {"new", "retrieve", "generate", "critic"}
IsPass(reply) == reply.result = "PASS"

\* While the loop runs every reply was a FAIL, and both counters count them.
RoundsUnderWay(q) == pc[q] \in Looping =>
  /\ \A i \in DOMAIN replies[q] : ~IsPass(replies[q][i])
  /\ retry_count[q] = Len(replies[q]) /\ critic_corrections[q] = Len(replies[q])
  /\ retry_count[q] <= MaxRetries

\* After it, only the last reply may have been a PASS; if it was not, it was the last that
\* the limit allows, the answer has its caveat, and retry_count counts it too.
RoundsOver(q) == pc[q] \in AfterLoop =>
  LET n == Len(replies[q]) IN
  /\ n \in 1 .. MaxRetries + 1
  /\ \A i \in 1 .. n - 1 : ~IsPass(replies[q][i])
  /\ critic_corrections[q] = n - 1
  /\ answer[q].caveat <=> ~IsPass(replies[q][n])
  /\ answer[q].caveat => n = MaxRetries + 1
  /\ retry_count[q] = IF answer[q].caveat THEN n ELSE n - 1
  /\ IsPass(verdict[q]) <=> IsPass(replies[q][n])

\* The answer in hand is of this round, on the chunks of this round's prompt, and so is
\* what the critic checked.
OfThisRound(q) ==
  /\ pc[q] = "critic" =>
       /\ chunks_used[q] = ChunksUsed(reranked[q])
       /\ answer[q].round = retry_count[q] + 1 /\ ~answer[q].caveat
  /\ pc[q] \in AfterLoop =>
       /\ chunks_used[q] = ChunksUsed(reranked[q])
       /\ checked[q] = [round |-> answer[q].round, used |-> chunks_used[q]]

\* The failed checks among the first n that named a claim.
Naming(q, n) == {i \in 1 .. n : ~IsPass(replies[q][i]) /\ replies[q][i].claims # {}}

SubjectOf(q, n) ==
  \/ Naming(q, n) = {} /\ subject[q] = {}
  \/ \E i \in Naming(q, n) : (\A j \in Naming(q, n) : j <= i) /\ subject[q] = replies[q][i].claims

\* The sub-query asks about the latest claims; the claims of the last check came too late.
SubjectIsLatest(q) == pc[q] # "failed" =>
  SubjectOf(q, IF pc[q] \in AfterLoop THEN Len(replies[q]) - 1 ELSE Len(replies[q]))

Logged(q) == {a \in audit_logs : a.query = q}
TurnsOf(q) == {i \in DOMAIN session_turns : session_turns[i].query = q}
AnswersOf(q) == {i \in TurnsOf(q) : session_turns[i].role = "assistant"}

\* The one record of a query says what the handler still has in hand.
LoggedOnce(q) == Logged(q) = {AuditLog(q)} /\ checked[q].used = chunks_used[q]

\* The one answer of a query in the session, with the verdict the handler has in hand.
SavedAnswer(q) == q \in InSession /\ \E i \in DOMAIN session_turns :
  AnswersOf(q) = {i} /\ (session_turns[i].critic_passed <=> IsPass(verdict[q]))

\* The commits of a query, at each place of the handler; those of one that failed are
\* what they were where it raised, before or after a commit took effect.
Committed(q) ==
  /\ pc[q] \in Looping \cup {"audit"} => Logged(q) = {} /\ TurnsOf(q) = {}
  /\ pc[q] = "question" => LoggedOnce(q) /\ TurnsOf(q) = {} /\ q \in InSession
  /\ pc[q] = "answer" => LoggedOnce(q) /\ AnswersOf(q) = {} /\ q \in InSession
  /\ pc[q] = "done" =>
       /\ LoggedOnce(q)
       /\ IF q \in InSession THEN SavedAnswer(q) ELSE AnswersOf(q) = {}
  /\ pc[q] = "failed" => TurnsOf(q) = {} \/ (LoggedOnce(q) /\ (AnswersOf(q) = {} \/ SavedAnswer(q)))

\* Each local variable of the handlers is a function on the queries.
PerQuery ==
  /\ DOMAIN memory = Queries /\ DOMAIN retry_count = Queries /\ DOMAIN critic_corrections = Queries
  /\ DOMAIN recall_k = Queries /\ DOMAIN subject = Queries /\ DOMAIN reranked = Queries
  /\ DOMAIN chunks_used = Queries /\ DOMAIN answer = Queries /\ DOMAIN verdict = Queries
  /\ DOMAIN replies = Queries /\ DOMAIN checked = Queries

QueryInv(q) ==
  /\ Distinct(reranked[q])
  /\ RoundsUnderWay(q) /\ RoundsOver(q) /\ OfThisRound(q) /\ SubjectIsLatest(q)

QueryIInv == PerQuery /\ TypeOK /\ \A q \in Queries : QueryInv(q) /\ Committed(q)

-----------------------------------------------------------------------------
\* The part of TypeOK that is about one query, and the part about the tables.
QueryTypes(q) ==
  /\ Len(memory[q]) <= Window
  /\ retry_count[q] \in 0 .. MaxRetries + 1
  /\ critic_corrections[q] \in 0 .. MaxRetries
  /\ recall_k[q] \in RecallK .. RecallCap
  /\ subject[q] \subseteq Claims
  /\ reranked[q] \in Seq(Chunks) /\ Len(reranked[q]) <= TopK
  /\ chunks_used[q] \in Seq([chunk : Chunks, marker : 1 .. TopK])
  /\ answer[q] \in [round : 0 .. MaxRetries + 1, braced : BOOLEAN, caveat : BOOLEAN]
  /\ verdict[q] \in Verdicts
  /\ replies[q] \in Seq(Replies)
  /\ checked[q] \in [round : 0 .. MaxRetries + 1, used : Seq([chunk : Chunks, marker : 1 .. TopK])]

Places == {"new", "retrieve", "generate", "critic", "audit", "question", "answer", "done", "failed"}
Turns == [query : InSession, role : {"user", "assistant"}, braced : BOOLEAN, critic_passed : BOOLEAN]
Records == [query : Queries, sources_used : Seq(Chunks), critic_result : {"PASS", "FAIL"},
            critic_corrections : Nat, retry_count : Nat]

LEMMA TypesByQuery ==
  TypeOK <=> /\ pc \in [Queries -> Places] /\ \A q \in Queries : QueryTypes(q)
             /\ audit_logs \subseteq Records /\ session_turns \in Seq(Turns)
BY DEF TypeOK, QueryTypes, Places, Turns, Records

\* The numbers of the configuration.
LEMMA NumberFacts ==
  /\ MaxRetries \in Nat /\ TopK \in Nat /\ TopK > 0 /\ RecallK \in Nat /\ RecallK > 0
  /\ RecallCap \in Nat /\ RecallK <= RecallCap /\ Window \in Nat /\ Window > 0
BY QueryPipelineAssumption

\* What the reranker returns: chunks, not more than top_k, none of them twice.
LEMMA RankingFacts ==
  ASSUME NEW k \in Nat, NEW s \in Rankings(k)
  PROVE  s \in Seq(Chunks) /\ Len(s) <= TopK /\ Distinct(s)
<1>1. PICK C \in Candidates(k) : s \in Orders(C, Smaller(TopK, Cardinality(C)))
  BY DEF Rankings
<1>2. C \subseteq Chunks /\ Cardinality(C) \in Nat
  BY <1>1, QueryPipelineAssumption, FS_Subset, FS_CardinalityType DEF Candidates
<1> DEFINE n == Smaller(TopK, Cardinality(C))
<1>3. n \in Nat /\ n <= TopK BY <1>2, NumberFacts DEF Smaller
<1> HIDE DEF n
<1>4. s \in [1 .. n -> C] /\ \A i, j \in 1 .. n : s[i] = s[j] => i = j
  BY <1>1 DEF Orders, n
<1>5. s \in Seq(Chunks) /\ Len(s) = n /\ DOMAIN s = 1 .. n
  BY <1>2, <1>3, <1>4
<1>6. QED BY <1>3, <1>4, <1>5 DEF Distinct

LEMMA SequenceOf ==
  ASSUME NEW S, NEW n \in Nat, NEW f \in [1 .. n -> S]
  PROVE  f \in Seq(S)
OBVIOUS

\* What the prompt shows of such a ranking.
LEMMA ChunksUsedFacts ==
  ASSUME NEW s \in Seq(Chunks), Len(s) <= TopK, Distinct(s)
  PROVE  ChunksUsed(s) \in Seq([chunk : Chunks, marker : 1 .. TopK])
<1> DEFINE u == ChunksUsed(s)
<1>1. Packed(u, s, Len(s)) BY ContextIsPacked
<1> HIDE DEF u
<1>2. u \in Seq(Excerpts) /\ \A j \in DOMAIN u : u[j].marker \in 1 .. Len(s)
  BY <1>1 DEF Packed
<1>3. \A j \in 1 .. Len(u) : u[j] \in [chunk : Chunks, marker : 1 .. TopK]
  <2> SUFFICES ASSUME NEW j \in 1 .. Len(u) PROVE u[j] \in [chunk : Chunks, marker : 1 .. TopK]
    OBVIOUS
  <2>1. u[j] \in Excerpts /\ u[j].marker \in 1 .. Len(s) BY <1>2
  <2>2. u[j].marker \in 1 .. TopK BY <2>1, NumberFacts
  <2>3. QED BY <2>1, <2>2 DEF Excerpts
<1>4. Len(u) \in Nat /\ u \in [1 .. Len(u) -> Excerpts] BY <1>2
<1>5. u \in [1 .. Len(u) -> [chunk : Chunks, marker : 1 .. TopK]] BY <1>3, <1>4
<1>6. PICK n \in Nat : u \in [1 .. n -> [chunk : Chunks, marker : 1 .. TopK]] BY <1>4, <1>5
<1>7. u \in Seq([chunk : Chunks, marker : 1 .. TopK]) BY <1>6, SequenceOf
<1>8. QED BY <1>7 DEF u

LEMMA VerdictFacts ==
  /\ Failed \in Verdicts /\ ~IsPass(Failed)
  /\ \A r \in Replies : CheckGroundedness(r) \in Verdicts /\ r.claims \subseteq Claims
  /\ \A r \in Replies : IsPass(CheckGroundedness(r)) <=> IsPass(r)
  /\ \A r \in Replies : ~IsPass(r) => CheckGroundedness(r).claims = r.claims
  /\ \A v \in Verdicts : v.result \in {"PASS", "FAIL"} /\ v.claims \subseteq Claims
BY DEF Failed, Verdicts, Replies, IsPass, CheckGroundedness

LEMMA QueryInitially == Init => QueryIInv
<1> SUFFICES ASSUME Init PROVE QueryIInv
  OBVIOUS
<1>1. PerQuery BY DEF Init, PerQuery
<1>2. \A q \in Queries : QueryTypes(q)
  BY NumberFacts, VerdictFacts DEF Init, QueryTypes, NoAnswer
<1>3. TypeOK
  BY <1>2, TypesByQuery DEF Init, Places
<1>4. \A q \in Queries : QueryInv(q)
  <2> SUFFICES ASSUME NEW q \in Queries PROVE QueryInv(q)
    OBVIOUS
  <2>1. pc[q] = "new" /\ replies[q] = <<>> /\ reranked[q] = <<>> /\ retry_count[q] = 0
        /\ critic_corrections[q] = 0 /\ subject[q] = {}
    BY DEF Init
  <2>2. Len(<<>>) = 0 /\ DOMAIN <<>> = {} OBVIOUS
  <2>3. Distinct(reranked[q]) BY <2>1, <2>2 DEF Distinct
  <2>4. RoundsUnderWay(q) BY <2>1, <2>2, NumberFacts DEF RoundsUnderWay
  <2>5. RoundsOver(q) /\ OfThisRound(q) BY <2>1 DEF RoundsOver, OfThisRound, AfterLoop
  <2>6. Naming(q, 0) = {} BY DEF Naming
  <2>7. SubjectIsLatest(q) BY <2>1, <2>2, <2>6 DEF SubjectIsLatest, SubjectOf, AfterLoop
  <2>8. QED BY <2>3, <2>4, <2>5, <2>7 DEF QueryInv
<1>5. \A q \in Queries : Committed(q)
  BY DEF Init, Committed, Looping, Logged, TurnsOf
<1>6. QED BY <1>1, <1>3, <1>4, <1>5 DEF QueryIInv

\* What a step of another query leaves of this one.
Kept(p) ==
  /\ pc'[p] = pc[p] /\ memory'[p] = memory[p]
  /\ retry_count'[p] = retry_count[p] /\ critic_corrections'[p] = critic_corrections[p]
  /\ recall_k'[p] = recall_k[p] /\ subject'[p] = subject[p]
  /\ reranked'[p] = reranked[p] /\ chunks_used'[p] = chunks_used[p] /\ answer'[p] = answer[p]
  /\ verdict'[p] = verdict[p] /\ replies'[p] = replies[p] /\ checked'[p] = checked[p]

\* A check, and each of the handlers, changes the entries of its own query only.
LEMMA OthersKept ==
  ASSUME QueryIInv, NEW q \in Queries, Handle(q)
  PROVE  /\ PerQuery' /\ DOMAIN pc' = Queries
         /\ \A p \in Queries : p # q => Kept(p)
<1> USE DEF QueryIInv, PerQuery, Kept, Goto, Commits, loop, text, judgement, store
<1>0. DOMAIN pc = Queries BY DEF TypeOK
<1>1. CASE Start(q) BY <1>0, <1>1 DEF Start
<1>2. CASE Retrieve(q) BY <1>0, <1>2 DEF Retrieve
<1>3. CASE Generate(q) BY <1>0, <1>3 DEF Generate
<1>4. CASE FormatFails(q) BY <1>0, <1>4 DEF FormatFails
<1>5. CASE Pass(q) BY <1>0, <1>5 DEF Pass, Check
<1>6. CASE GiveUp(q) BY <1>0, <1>6 DEF GiveUp, Check
<1>7. CASE Retry(q) BY <1>0, <1>7 DEF Retry, Check
<1>8. CASE LogQuery(q) BY <1>0, <1>8 DEF LogQuery
<1>9. CASE AddQuestion(q) BY <1>0, <1>9 DEF AddQuestion
<1>10. CASE AddAnswer(q) BY <1>0, <1>10 DEF AddAnswer
<1>11. CASE Raise(q) BY <1>0, <1>11 DEF Raise
<1>12. QED BY <1>1, <1>2, <1>3, <1>4, <1>5, <1>6, <1>7, <1>8, <1>9, <1>10, <1>11 DEF Handle

\* A query whose entries are kept keeps its part of the invariant.
LEMMA KeptInv ==
  ASSUME NEW p \in Queries, Kept(p), QueryTypes(p), QueryInv(p)
  PROVE  QueryTypes(p)' /\ QueryInv(p)'
<1> USE DEF Kept
<1>1. QueryTypes(p)' BY DEF QueryTypes
<1>2. Distinct(reranked[p])' BY DEF QueryInv, Distinct
<1>3. RoundsUnderWay(p)' BY DEF QueryInv, RoundsUnderWay
<1>4. RoundsOver(p)' BY DEF QueryInv, RoundsOver
<1>5. OfThisRound(p)' BY DEF QueryInv, OfThisRound
<1>6. \A n : SubjectOf(p, n)' <=> SubjectOf(p, n) BY DEF SubjectOf, Naming
<1>7. SubjectIsLatest(p)'
  BY <1>6 DEF QueryInv, SubjectIsLatest
<1>8. QED BY <1>1, <1>2, <1>3, <1>4, <1>5, <1>7 DEF QueryInv

\* Its commits are kept when none is added for it.
LEMMA KeptCommits ==
  ASSUME NEW p \in Queries, Kept(p), Committed(p),
         Logged(p)' = Logged(p), TurnsOf(p)' = TurnsOf(p), AnswersOf(p)' = AnswersOf(p),
         \A i \in DOMAIN session_turns : i \in DOMAIN session_turns' /\ session_turns'[i] = session_turns[i]
  PROVE  Committed(p)'
<1>1. AuditLog(p)' = AuditLog(p) BY DEF Kept, AuditLog
<1>2. LoggedOnce(p)' <=> LoggedOnce(p) BY <1>1 DEF Kept, LoggedOnce
<1>3. SavedAnswer(p) => SavedAnswer(p)'
  <2>1. verdict'[p] = verdict[p] BY DEF Kept
  <2>2. QED BY <2>1 DEF SavedAnswer
<1>4. QED BY <1>2, <1>3 DEF Kept, Committed

\* A turn that is added is the last one, and the others stay.
LEMMA AddedTurn ==
  ASSUME session_turns \in Seq(Turns), NEW t \in Turns, session_turns' = Append(session_turns, t)
  PROVE  /\ session_turns' \in Seq(Turns)
         /\ DOMAIN session_turns' = DOMAIN session_turns \cup {Len(session_turns) + 1}
         /\ Len(session_turns) + 1 \notin DOMAIN session_turns
         /\ session_turns'[Len(session_turns) + 1] = t
         /\ \A i \in DOMAIN session_turns : session_turns'[i] = session_turns[i]
OBVIOUS

\* A record or a turn of a query is none of another query.
LEMMA OthersCommits ==
  ASSUME QueryIInv, NEW q \in Queries, Handle(q), NEW p \in Queries, p # q
  PROVE  Committed(p)'
<1>1. Kept(p) /\ Committed(p) BY OthersKept DEF QueryIInv
<1>2. session_turns \in Seq(Turns) BY TypesByQuery DEF QueryIInv
<1>3. CASE UNCHANGED audit_logs /\ \E t \in Turns : t.query = q /\ session_turns' = Append(session_turns, t)
  <2>1. PICK t \in Turns : t.query = q /\ session_turns' = Append(session_turns, t) BY <1>3
  <2>2. TurnsOf(p)' = TurnsOf(p) /\ AnswersOf(p)' = AnswersOf(p)
    BY <1>2, <2>1, AddedTurn DEF TurnsOf, AnswersOf
  <2>3. Logged(p)' = Logged(p) BY <1>3 DEF Logged
  <2>4. QED BY <1>1, <1>2, <2>1, <2>2, <2>3, AddedTurn, KeptCommits
<1>4. CASE UNCHANGED session_turns /\ (audit_logs' = audit_logs \/ audit_logs' = audit_logs \cup {AuditLog(q)})
  <2>1. AuditLog(q).query = q BY DEF AuditLog
  <2>2. Logged(p)' = Logged(p) BY <1>4, <2>1 DEF Logged
  <2>3. TurnsOf(p)' = TurnsOf(p) /\ AnswersOf(p)' = AnswersOf(p) BY <1>4 DEF TurnsOf, AnswersOf
  <2>4. QED BY <1>1, <1>4, <2>2, <2>3, KeptCommits
<1>5. CASE LogQuery(q) BY <1>4, <1>5 DEF LogQuery
<1>6. CASE AddQuestion(q) \/ AddAnswer(q)
  <2>1. q \in InSession BY <1>6 DEF QueryIInv, Committed, AddQuestion, AddAnswer
  <2>2. answer[q].braced \in BOOLEAN BY TypesByQuery DEF QueryIInv, QueryTypes
  <2>3. CASE AddQuestion(q)
    <3> DEFINE t == [query |-> q, role |-> "user", braced |-> q \in Braced, critic_passed |-> FALSE]
    <3>1. (q \in Braced) \in BOOLEAN OBVIOUS
    <3>2. t \in Turns /\ t.query = q BY <2>1, <3>1 DEF Turns
    <3>3. UNCHANGED audit_logs /\ session_turns' = Append(session_turns, t)
      BY <2>3 DEF AddQuestion
    <3> HIDE DEF t
    <3>4. QED BY <1>3, <3>2, <3>3
  <2>4. CASE AddAnswer(q)
    <3> DEFINE t == [query |-> q, role |-> "assistant", braced |-> answer[q].braced,
                     critic_passed |-> verdict[q].result = "PASS"]
    <3>1. (verdict[q].result = "PASS") \in BOOLEAN OBVIOUS
    <3>2. t \in Turns /\ t.query = q BY <2>1, <2>2, <3>1 DEF Turns
    <3>3. UNCHANGED audit_logs /\ session_turns' = Append(session_turns, t)
      BY <2>4 DEF AddAnswer
    <3> HIDE DEF t
    <3>4. QED BY <1>3, <3>2, <3>3
  <2>5. QED BY <1>6, <2>3, <2>4
<1>7. CASE ~ (LogQuery(q) \/ AddQuestion(q) \/ AddAnswer(q))
  BY <1>4, <1>7 DEF Handle, Start, Retrieve, Generate, FormatFails, Pass, GiveUp, Retry, Raise, store
<1>8. QED BY <1>5, <1>6, <1>7

-----------------------------------------------------------------------------
\* A step that only moves the query on, or that ends it with an exception.
LEMMA Moved ==
  ASSUME NEW q \in Queries, QueryTypes(q), QueryInv(q), Len(memory'[q]) <= Window,
         retry_count'[q] = retry_count[q], critic_corrections'[q] = critic_corrections[q],
         recall_k'[q] = recall_k[q], subject'[q] = subject[q],
         reranked'[q] = reranked[q], chunks_used'[q] = chunks_used[q], answer'[q] = answer[q],
         verdict'[q] = verdict[q], replies'[q] = replies[q], checked'[q] = checked[q],
         \/ pc[q] = "new" /\ pc'[q] = "retrieve"
         \/ pc[q] \in AfterLoop /\ pc'[q] \in AfterLoop
         \/ pc'[q] = "failed"
  PROVE  QueryTypes(q)' /\ QueryInv(q)'
<1>1. QueryTypes(q)' BY DEF QueryTypes
<1>2. Distinct(reranked[q])' BY DEF QueryInv, Distinct
<1>3. RoundsUnderWay(q)' BY DEF QueryInv, RoundsUnderWay, Looping, AfterLoop
<1>4. RoundsOver(q)' BY DEF QueryInv, RoundsOver, AfterLoop
<1>5. OfThisRound(q)' BY DEF QueryInv, OfThisRound, AfterLoop
<1>6. \A n : SubjectOf(q, n)' <=> SubjectOf(q, n) BY DEF SubjectOf, Naming
<1>7. SubjectIsLatest(q)'
  BY <1>6 DEF QueryInv, SubjectIsLatest, AfterLoop
<1>8. QED BY <1>1, <1>2, <1>3, <1>4, <1>5, <1>7 DEF QueryInv

LEMMA StartStep ==
  ASSUME QueryIInv, NEW q \in Queries, Start(q)
  PROVE  QueryTypes(q)' /\ QueryInv(q)'
<1>1. QueryTypes(q) /\ QueryInv(q) /\ session_turns \in Seq(Turns) /\ pc \in [Queries -> Places]
  BY TypesByQuery DEF QueryIInv
<1>2. Len(LastTurns(Window, session_turns)) <= Window
  <2> DEFINE n == Len(session_turns)  k == Smaller(Window, n)
  <2>1. n \in Nat /\ k \in Nat /\ k <= n /\ k <= Window BY <1>1, NumberFacts DEF Smaller
  <2> HIDE DEF n, k
  <2>2. n + 1 - k \in 1 .. n + 1 BY <2>1
  <2>3. Len(SubSeq(session_turns, n + 1 - k, n)) = n - (n + 1 - k) + 1
    BY <1>1, <2>1, <2>2 DEF n
  <2>4. n - (n + 1 - k) + 1 = k BY <2>1
  <2>5. QED BY <2>1, <2>3, <2>4 DEF LastTurns, n, k
<1>3. Len(memory'[q]) <= Window
  BY <1>2, NumberFacts DEF Start, QueryIInv, PerQuery
<1>4. pc[q] = "new" /\ pc'[q] = "retrieve" BY <1>1 DEF Start, Goto
<1>5. QED BY <1>1, <1>3, <1>4, Moved DEF Start, loop, text, judgement

\* A new ranking, of the same round.
LEMMA RetrieveStep ==
  ASSUME QueryIInv, NEW q \in Queries, Retrieve(q)
  PROVE  QueryTypes(q)' /\ QueryInv(q)'
<1>1. QueryTypes(q) /\ QueryInv(q) /\ pc \in [Queries -> Places] /\ DOMAIN reranked = Queries
  BY TypesByQuery DEF QueryIInv, PerQuery
<1>2. PICK s \in Rankings(recall_k[q]) : reranked' = [reranked EXCEPT ![q] = s]
  BY DEF Retrieve
<1>3. recall_k[q] \in Nat BY <1>1, NumberFacts DEF QueryTypes
<1>4. reranked'[q] = s /\ s \in Seq(Chunks) /\ Len(s) <= TopK /\ Distinct(s)
  BY <1>1, <1>2, <1>3, RankingFacts
<1>5. pc[q] = "retrieve" /\ pc'[q] = "generate" BY <1>1 DEF Retrieve, Goto
<1>6. UNCHANGED <<memory, loop, chunks_used, answer, judgement, store>> BY DEF Retrieve
<1> USE <1>6 DEF loop, judgement, store
<1>7. QueryTypes(q)' BY <1>1, <1>4 DEF QueryTypes
<1>8. RoundsUnderWay(q)' BY <1>1, <1>5 DEF QueryInv, RoundsUnderWay, Looping
<1>9. RoundsOver(q)' /\ OfThisRound(q)' BY <1>5 DEF RoundsOver, OfThisRound, AfterLoop
<1>10. SubjectIsLatest(q)'
  BY <1>1, <1>5 DEF QueryInv, SubjectIsLatest, SubjectOf, Naming, AfterLoop
<1>11. Distinct(reranked[q])' BY <1>4 DEF Distinct
<1>12. QED BY <1>7, <1>8, <1>9, <1>10, <1>11 DEF QueryInv

\* A new answer, of this round, on the chunks of its prompt.
LEMMA GenerateStep ==
  ASSUME QueryIInv, NEW q \in Queries, Generate(q)
  PROVE  QueryTypes(q)' /\ QueryInv(q)'
<1>1. /\ QueryTypes(q) /\ QueryInv(q) /\ pc \in [Queries -> Places]
      /\ DOMAIN chunks_used = Queries /\ DOMAIN answer = Queries
  BY TypesByQuery DEF QueryIInv, PerQuery
<1>2. PICK b \in {FALSE, Braced # {}} :
        answer' = [answer EXCEPT ![q] = [round |-> retry_count[q] + 1, braced |-> b, caveat |-> FALSE]]
  BY DEF Generate
<1>3. pc[q] = "generate" /\ pc'[q] = "critic" BY <1>1 DEF Generate, Goto
<1>4. /\ answer'[q] = [round |-> retry_count[q] + 1, braced |-> b, caveat |-> FALSE]
      /\ chunks_used'[q] = ChunksUsed(reranked[q])
  BY <1>1, <1>2 DEF Generate
<1>5. UNCHANGED <<memory, loop, reranked, judgement, store>> BY DEF Generate
<1> USE <1>5 DEF loop, judgement, store
<1>6. retry_count[q] \in 0 .. MaxRetries
  BY <1>1, <1>3 DEF QueryInv, RoundsUnderWay, Looping, QueryTypes
<1>7. answer'[q] \in [round : 0 .. MaxRetries + 1, braced : BOOLEAN, caveat : BOOLEAN]
  <2>1. retry_count[q] + 1 \in 0 .. MaxRetries + 1 BY <1>6, NumberFacts
  <2>2. b \in BOOLEAN OBVIOUS
  <2>3. QED BY <1>4, <2>1, <2>2
<1>8. chunks_used'[q] \in Seq([chunk : Chunks, marker : 1 .. TopK])
  BY <1>1, <1>4, ChunksUsedFacts DEF QueryTypes, QueryInv
<1>9. QueryTypes(q)' BY <1>1, <1>7, <1>8 DEF QueryTypes
<1>10. RoundsUnderWay(q)' BY <1>1, <1>3 DEF QueryInv, RoundsUnderWay, Looping
<1>11. RoundsOver(q)' BY <1>3 DEF RoundsOver, AfterLoop
<1>12. OfThisRound(q)' BY <1>3, <1>4 DEF OfThisRound, AfterLoop
<1>13. SubjectIsLatest(q)'
  BY <1>1, <1>3 DEF QueryInv, SubjectIsLatest, SubjectOf, Naming, AfterLoop
<1>14. Distinct(reranked[q])' BY <1>1 DEF QueryInv, Distinct
<1>15. QED BY <1>9, <1>10, <1>11, <1>12, <1>13, <1>14 DEF QueryInv

\* A check adds its reply behind the earlier ones.
LEMMA CheckFacts ==
  ASSUME QueryIInv, NEW q \in Queries, NEW reply \in Replies, Check(q, reply)
  PROVE  /\ pc[q] = "critic"
         /\ verdict'[q] = CheckGroundedness(reply)
         /\ replies'[q] \in Seq(Replies)
         /\ Len(replies'[q]) = Len(replies[q]) + 1 /\ Len(replies[q]) \in Nat
         /\ DOMAIN replies'[q] = 1 .. Len(replies[q]) + 1
         /\ replies'[q][Len(replies[q]) + 1] = reply
         /\ \A i \in 1 .. Len(replies[q]) : replies'[q][i] = replies[q][i]
         /\ checked'[q] = [round |-> answer[q].round, used |-> chunks_used[q]]
         /\ \A i \in 1 .. Len(replies[q]) : ~IsPass(replies[q][i])
         /\ retry_count[q] = Len(replies[q]) /\ critic_corrections[q] = Len(replies[q])
         /\ retry_count[q] <= MaxRetries
<1>1. replies[q] \in Seq(Replies) BY TypesByQuery DEF QueryIInv, QueryTypes
<1>2. replies'[q] = Append(replies[q], reply) BY DEF Check, QueryIInv, PerQuery
<1>3. /\ verdict'[q] = CheckGroundedness(reply)
      /\ checked'[q] = [round |-> answer[q].round, used |-> chunks_used[q]]
      /\ pc[q] = "critic"
  BY DEF Check, QueryIInv, PerQuery
<1>4. RoundsUnderWay(q) BY DEF QueryIInv, QueryInv
<1>5. DOMAIN replies[q] = 1 .. Len(replies[q]) BY <1>1
<1>6. /\ \A i \in 1 .. Len(replies[q]) : ~IsPass(replies[q][i])
      /\ retry_count[q] = Len(replies[q]) /\ critic_corrections[q] = Len(replies[q])
      /\ retry_count[q] <= MaxRetries
  BY <1>3, <1>4, <1>5 DEF RoundsUnderWay, Looping
<1>7. /\ replies'[q] \in Seq(Replies)
      /\ Len(replies'[q]) = Len(replies[q]) + 1 /\ Len(replies[q]) \in Nat
      /\ DOMAIN replies'[q] = 1 .. Len(replies[q]) + 1
      /\ replies'[q][Len(replies[q]) + 1] = reply
      /\ \A i \in 1 .. Len(replies[q]) : replies'[q][i] = replies[q][i]
  BY <1>1, <1>2
<1>8. QED BY <1>3, <1>6, <1>7

\* What the sub-query is about after the first n checks does not depend on later ones.
LEMMA EarlierSubject ==
  ASSUME QueryIInv, NEW q \in Queries, NEW reply \in Replies, Check(q, reply)
  PROVE  LET n == Len(replies[q])
             naming == {i \in 1 .. n : ~IsPass(replies'[q][i]) /\ replies'[q][i].claims # {}}
         IN  /\ n \in Nat /\ naming = Naming(q, n)
             /\ \/ naming = {} /\ subject[q] = {}
                \/ \E i \in naming : (\A j \in naming : j <= i) /\ subject[q] = replies'[q][i].claims
<1> DEFINE n == Len(replies[q])
           naming == {i \in 1 .. n : ~IsPass(replies'[q][i]) /\ replies'[q][i].claims # {}}
<1>1. n \in Nat /\ pc[q] = "critic" /\ \A i \in 1 .. n : replies'[q][i] = replies[q][i]
  BY CheckFacts
<1>2. naming = Naming(q, n) BY <1>1 DEF Naming
<1>3. SubjectOf(q, n) BY <1>1 DEF QueryIInv, QueryInv, SubjectIsLatest, AfterLoop
<1>4. \A i \in naming : replies'[q][i] = replies[q][i] BY <1>1
<1> HIDE DEF naming
<1>5. \/ naming = {} /\ subject[q] = {}
      \/ \E i \in naming : (\A j \in naming : j <= i) /\ subject[q] = replies'[q][i].claims
  BY <1>2, <1>3, <1>4 DEF SubjectOf
<1>6. QED BY <1>1, <1>2, <1>5 DEF naming

\* The loop ends on a PASS: the answer goes out as it was checked.
LEMMA PassStep ==
  ASSUME QueryIInv, NEW q \in Queries, Pass(q)
  PROVE  QueryTypes(q)' /\ QueryInv(q)'
<1>1. QueryTypes(q) /\ QueryInv(q) /\ pc \in [Queries -> Places]
  BY TypesByQuery DEF QueryIInv
<1>a. \A a, b \in Nat : a <= b => a + 1 \in 1 .. b + 1 /\ (a + 1) - 1 = a OBVIOUS
<1>2. PICK reply \in Replies : Check(q, reply) BY DEF Pass
<1>0. PICK n \in Nat : n = Len(replies[q]) BY <1>2, CheckFacts
<1>3. /\ pc[q] = "critic" /\ pc'[q] = "audit" /\ IsPass(verdict'[q])
      /\ verdict'[q] = CheckGroundedness(reply) /\ verdict'[q] \in Verdicts /\ IsPass(reply)
  <2>1. pc[q] = "critic" /\ verdict'[q] = CheckGroundedness(reply) BY <1>2, CheckFacts
  <2>2. IsPass(verdict'[q]) BY DEF Pass, IsPass
  <2>3. pc'[q] = "audit" BY <1>1 DEF Pass, Goto
  <2>4. QED BY <2>1, <2>2, <2>3, VerdictFacts
<1>4. UNCHANGED <<memory, loop, text, store>> BY DEF Pass
<1> USE <1>4 DEF loop, text, store
<1>5. /\ n \in Nat /\ replies'[q] \in Seq(Replies) /\ Len(replies'[q]) = n + 1
      /\ replies'[q][n + 1] = reply /\ \A i \in 1 .. n : ~IsPass(replies'[q][i])
      /\ retry_count[q] = n /\ critic_corrections[q] = n /\ n <= MaxRetries
      /\ checked'[q] = [round |-> answer[q].round, used |-> chunks_used[q]]
  BY <1>0, <1>2, CheckFacts
<1>6. QueryTypes(q)' BY <1>1, <1>3, <1>5 DEF QueryTypes
<1>7. RoundsUnderWay(q)' BY <1>3 DEF RoundsUnderWay, Looping
<1>8. ~answer[q].caveat /\ chunks_used[q] = ChunksUsed(reranked[q])
  BY <1>1, <1>3 DEF QueryInv, OfThisRound
<1>9. RoundsOver(q)'
  <2>1. n + 1 \in 1 .. MaxRetries + 1 /\ (n + 1) - 1 = n
    <3>1. n \in Nat /\ MaxRetries \in Nat /\ n <= MaxRetries BY <1>5, NumberFacts
    <3>2. QED BY <1>a, <3>1
  <2>2. QED BY <1>3, <1>5, <1>8, <2>1, SMTT(30) DEF RoundsOver
<1>10. OfThisRound(q)' BY <1>3, <1>5, <1>8 DEF OfThisRound, AfterLoop
<1>11. SubjectIsLatest(q)'
  <2>1. Len(replies'[q]) - 1 = n BY <1>5
  <2>2. SubjectOf(q, n)' BY <1>0, <1>2, EarlierSubject DEF SubjectOf, Naming
  <2>3. QED BY <1>3, <2>1, <2>2 DEF SubjectIsLatest, AfterLoop
<1>12. Distinct(reranked[q])' BY <1>1 DEF QueryInv, Distinct
<1>13. QED BY <1>6, <1>7, <1>9, <1>10, <1>11, <1>12 DEF QueryInv

\* The loop ends on the last FAIL: every check failed, and the answer says so.
LEMMA GiveUpStep ==
  ASSUME QueryIInv, NEW q \in Queries, GiveUp(q)
  PROVE  QueryTypes(q)' /\ QueryInv(q)'
<1>1. /\ QueryTypes(q) /\ QueryInv(q) /\ pc \in [Queries -> Places]
      /\ DOMAIN retry_count = Queries /\ DOMAIN answer = Queries
  BY TypesByQuery DEF QueryIInv, PerQuery
<1>2. PICK reply \in Replies : Check(q, reply) BY DEF GiveUp
<1>0. PICK n \in Nat : n = Len(replies[q]) BY <1>2, CheckFacts
<1>3. /\ pc[q] = "critic" /\ pc'[q] = "audit" /\ ~IsPass(verdict'[q])
      /\ verdict'[q] = CheckGroundedness(reply) /\ verdict'[q] \in Verdicts /\ ~IsPass(reply)
  <2>1. pc[q] = "critic" /\ verdict'[q] = CheckGroundedness(reply) BY <1>2, CheckFacts
  <2>2. ~IsPass(verdict'[q]) BY DEF GiveUp, IsPass
  <2>3. pc'[q] = "audit" BY <1>1 DEF GiveUp, Goto
  <2>4. QED BY <2>1, <2>2, <2>3, VerdictFacts
<1>4. UNCHANGED <<memory, critic_corrections, recall_k, subject, reranked, chunks_used, store>>
  BY DEF GiveUp
<1> USE <1>4 DEF store
<1>5. /\ n \in Nat /\ replies'[q] \in Seq(Replies) /\ Len(replies'[q]) = n + 1
      /\ replies'[q][n + 1] = reply /\ \A i \in 1 .. n : ~IsPass(replies'[q][i])
      /\ retry_count[q] = n /\ critic_corrections[q] = n /\ n <= MaxRetries
      /\ checked'[q] = [round |-> answer[q].round, used |-> chunks_used[q]]
  BY <1>0, <1>2, CheckFacts
<1>6. retry_count'[q] = n + 1 /\ n + 1 > MaxRetries
  BY <1>1, <1>5 DEF GiveUp
<1>7. /\ answer'[q] \in [round : 0 .. MaxRetries + 1, braced : BOOLEAN, caveat : BOOLEAN]
      /\ answer'[q].round = answer[q].round /\ answer'[q].caveat = TRUE
  <2>1. answer'[q] = [answer[q] EXCEPT !.caveat = TRUE] BY <1>1 DEF GiveUp
  <2>2. answer[q] \in [round : 0 .. MaxRetries + 1, braced : BOOLEAN, caveat : BOOLEAN]
    BY <1>1 DEF QueryTypes
  <2>3. QED BY <2>1, <2>2
<1>8. chunks_used[q] = ChunksUsed(reranked[q])
  BY <1>1, <1>3 DEF QueryInv, OfThisRound
<1>9. QueryTypes(q)'
  <2>1. retry_count'[q] \in 0 .. MaxRetries + 1 BY <1>5, <1>6, NumberFacts
  <2>2. QED BY <1>1, <1>3, <1>5, <1>7, <2>1 DEF QueryTypes
<1>10. RoundsUnderWay(q)' BY <1>3 DEF RoundsUnderWay, Looping
<1>11. RoundsOver(q)'
  <2>1. n + 1 = MaxRetries + 1 /\ n + 1 \in 1 .. MaxRetries + 1 /\ (n + 1) - 1 = n
    BY <1>5, <1>6, NumberFacts
  <2>2. QED BY <1>3, <1>5, <1>6, <1>7, <2>1 DEF RoundsOver
<1>12. OfThisRound(q)' BY <1>3, <1>5, <1>7, <1>8 DEF OfThisRound, AfterLoop
<1>13. SubjectIsLatest(q)'
  <2>1. Len(replies'[q]) - 1 = n BY <1>5
  <2>2. SubjectOf(q, n)' BY <1>0, <1>2, EarlierSubject DEF SubjectOf, Naming
  <2>3. QED BY <1>3, <2>1, <2>2 DEF SubjectIsLatest, AfterLoop
<1>14. Distinct(reranked[q])' BY <1>1 DEF QueryInv, Distinct
<1>15. QED BY <1>9, <1>10, <1>11, <1>12, <1>13, <1>14 DEF QueryInv

\* Another round: both counters and the recall grow, and the claims become the sub-query.
LEMMA RetryStep ==
  ASSUME QueryIInv, NEW q \in Queries, Retry(q)
  PROVE  QueryTypes(q)' /\ QueryInv(q)'
<1>1. /\ QueryTypes(q) /\ QueryInv(q) /\ pc \in [Queries -> Places]
      /\ DOMAIN retry_count = Queries /\ DOMAIN critic_corrections = Queries
      /\ DOMAIN recall_k = Queries /\ DOMAIN subject = Queries
  BY TypesByQuery DEF QueryIInv, PerQuery
<1>2. PICK reply \in Replies : Check(q, reply) BY DEF Retry
<1>0. PICK n \in Nat : n = Len(replies[q]) BY <1>2, CheckFacts
<1>3. /\ pc[q] = "critic" /\ pc'[q] = "retrieve" /\ ~IsPass(verdict'[q])
      /\ verdict'[q] = CheckGroundedness(reply) /\ verdict'[q] \in Verdicts /\ ~IsPass(reply)
      /\ verdict'[q].claims = reply.claims /\ reply.claims \subseteq Claims
  <2>1. pc[q] = "critic" /\ verdict'[q] = CheckGroundedness(reply) BY <1>2, CheckFacts
  <2>2. ~IsPass(verdict'[q]) BY DEF Retry, IsPass
  <2>3. pc'[q] = "retrieve" BY <1>1 DEF Retry, Goto
  <2>4. QED BY <2>1, <2>2, <2>3, VerdictFacts
<1>4. UNCHANGED <<memory, text, store>> BY DEF Retry
<1> USE <1>4 DEF text, store
<1>5. /\ n \in Nat /\ replies'[q] \in Seq(Replies) /\ Len(replies'[q]) = n + 1
      /\ DOMAIN replies'[q] = 1 .. n + 1
      /\ replies'[q][n + 1] = reply /\ \A i \in 1 .. n : replies'[q][i] = replies[q][i] /\ ~IsPass(replies'[q][i])
      /\ retry_count[q] = n /\ critic_corrections[q] = n /\ n <= MaxRetries
      /\ checked'[q] = [round |-> answer[q].round, used |-> chunks_used[q]]
  BY <1>0, <1>2, CheckFacts
<1>6. retry_count'[q] = n + 1 /\ critic_corrections'[q] = n + 1 /\ n + 1 <= MaxRetries
  BY <1>1, <1>5 DEF Retry
<1>7. recall_k'[q] \in RecallK .. RecallCap
  <2>1. recall_k'[q] = Smaller(2 * recall_k[q], RecallCap) BY <1>1 DEF Retry
  <2>2. recall_k[q] \in RecallK .. RecallCap BY <1>1 DEF QueryTypes
  <2>3. QED BY <2>1, <2>2, NumberFacts DEF Smaller
<1>8. subject'[q] = IF reply.claims = {} THEN subject[q] ELSE reply.claims
  BY <1>1, <1>3 DEF Retry
<1>9. QueryTypes(q)'
  <2>1. retry_count'[q] \in 0 .. MaxRetries + 1 /\ critic_corrections'[q] \in 0 .. MaxRetries
    BY <1>5, <1>6, NumberFacts
  <2>2. subject'[q] \subseteq Claims BY <1>1, <1>3, <1>8 DEF QueryTypes
  <2>3. checked'[q] \in [round : 0 .. MaxRetries + 1, used : Seq([chunk : Chunks, marker : 1 .. TopK])]
    BY <1>1, <1>5 DEF QueryTypes
  <2>4. QED BY <1>1, <1>3, <1>5, <1>7, <2>1, <2>2, <2>3 DEF QueryTypes
<1>10. RoundsUnderWay(q)'
  <2>1. \A i \in 1 .. n + 1 : ~IsPass(replies'[q][i]) BY <1>3, <1>5
  <2>2. QED BY <1>5, <1>6, <2>1 DEF RoundsUnderWay
<1>11. RoundsOver(q)' /\ OfThisRound(q)' BY <1>3 DEF RoundsOver, OfThisRound, AfterLoop
<1>12. SubjectIsLatest(q)'
  <2> DEFINE now == {i \in 1 .. n + 1 : ~IsPass(replies'[q][i]) /\ replies'[q][i].claims # {}}
             earlier == {i \in 1 .. n : ~IsPass(replies'[q][i]) /\ replies'[q][i].claims # {}}
  <2>1. \/ earlier = {} /\ subject[q] = {}
        \/ \E i \in earlier : (\A j \in earlier : j <= i) /\ subject[q] = replies'[q][i].claims
    BY <1>0, <1>2, EarlierSubject
  <2>2. \A i : i \in 1 .. n + 1 <=> i \in 1 .. n \/ i = n + 1 BY <1>5
  <2>3. CASE reply.claims = {}
    <3>1. now = earlier BY <1>5, <2>2, <2>3
    <3>2. subject'[q] = subject[q] BY <1>8, <2>3
    <3> HIDE DEF now, earlier
    <3>3. \/ now = {} /\ subject'[q] = {}
          \/ \E i \in now : (\A j \in now : j <= i) /\ subject'[q] = replies'[q][i].claims
      BY <2>1, <3>1, <3>2
    <3>4. SubjectOf(q, n + 1)' BY <3>3 DEF SubjectOf, Naming, now
    <3>5. QED BY <1>3, <1>5, <3>4 DEF SubjectIsLatest, AfterLoop
  <2>4. CASE reply.claims # {}
    <3>1. n + 1 \in now BY <1>3, <1>5, <2>2, <2>4
    <3>2. \A j \in now : j <= n + 1 BY <1>5
    <3>3. subject'[q] = replies'[q][n + 1].claims BY <1>5, <1>8, <2>4
    <3>4. SubjectOf(q, n + 1)' BY <3>1, <3>2, <3>3 DEF SubjectOf, Naming
    <3>5. QED BY <1>3, <1>5, <3>4 DEF SubjectIsLatest, AfterLoop
  <2>5. QED BY <2>3, <2>4
<1>13. Distinct(reranked[q])' BY <1>1 DEF QueryInv, Distinct
<1>14. QED BY <1>9, <1>10, <1>11, <1>12, <1>13 DEF QueryInv

-----------------------------------------------------------------------------
\* The record says what the handler has in hand, and that is what was checked.
LEMMA LogQueryCommits ==
  ASSUME QueryIInv, NEW q \in Queries, LogQuery(q)
  PROVE  Committed(q)' /\ audit_logs' \subseteq Records
<1>1. /\ QueryTypes(q) /\ QueryInv(q) /\ Committed(q) /\ pc \in [Queries -> Places]
      /\ audit_logs \subseteq Records
  BY TypesByQuery DEF QueryIInv
<1>2. /\ pc[q] = "audit" /\ audit_logs' = audit_logs \cup {AuditLog(q)}
      /\ \/ pc'[q] = "failed"
         \/ pc'[q] = IF q \in InSession THEN "question" ELSE "done"
      /\ UNCHANGED <<memory, loop, text, judgement, session_turns>>
  BY <1>1 DEF LogQuery, Commits, Goto
<1>3. AuditLog(q)' = AuditLog(q) /\ AuditLog(q).query = q
  BY <1>2 DEF AuditLog, loop, text, judgement
<1>4. Logged(q)' = {AuditLog(q)'}
  BY <1>1, <1>2, <1>3 DEF Committed, Logged
<1>5. checked[q].used = chunks_used[q] BY <1>1, <1>2 DEF QueryInv, OfThisRound, AfterLoop
<1>6. LoggedOnce(q)' BY <1>2, <1>4, <1>5 DEF LoggedOnce, text, judgement
<1>7. TurnsOf(q)' = {} BY <1>1, <1>2 DEF Committed, TurnsOf
<1>8. AnswersOf(q)' = {} BY <1>7 DEF AnswersOf
<1>9. Committed(q)' BY <1>2, <1>6, <1>7, <1>8 DEF Committed, Looping
<1>10. AuditLog(q) \in Records
  <2>1. [i \in DOMAIN chunks_used[q] |-> chunks_used[q][i].chunk] \in Seq(Chunks)
    <3>1. chunks_used[q] \in Seq([chunk : Chunks, marker : 1 .. TopK]) BY <1>1 DEF QueryTypes
    <3>2. Len(chunks_used[q]) \in Nat /\ DOMAIN chunks_used[q] = 1 .. Len(chunks_used[q])
          /\ \A i \in DOMAIN chunks_used[q] : chunks_used[q][i].chunk \in Chunks
      <4> DEFINE T == [chunk : Chunks, marker : 1 .. TopK]
      <4>1. \A e \in T : e.chunk \in Chunks OBVIOUS
      <4> HIDE DEF T
      <4>2. chunks_used[q] \in Seq(T) BY <3>1 DEF T
      <4>3. Len(chunks_used[q]) \in Nat /\ DOMAIN chunks_used[q] = 1 .. Len(chunks_used[q])
            /\ \A i \in DOMAIN chunks_used[q] : chunks_used[q][i] \in T
        BY <4>2
      <4>4. QED BY <4>1, <4>3
    <3>3. [i \in DOMAIN chunks_used[q] |-> chunks_used[q][i].chunk]
          \in [1 .. Len(chunks_used[q]) -> Chunks]
      BY <3>2
    <3>4. QED BY <3>2, <3>3, SequenceOf
  <2>2. verdict[q].result \in {"PASS", "FAIL"} BY <1>1, VerdictFacts DEF QueryTypes
  <2>3. critic_corrections[q] \in Nat /\ retry_count[q] \in Nat BY <1>1 DEF QueryTypes
  <2>4. QED BY <2>1, <2>2, <2>3 DEF AuditLog, Records
<1>11. QED BY <1>1, <1>2, <1>9, <1>10

\* The turns of a query follow its record.
LEMMA TurnCommits ==
  ASSUME QueryIInv, NEW q \in Queries, AddQuestion(q) \/ AddAnswer(q)
  PROVE  Committed(q)' /\ session_turns' \in Seq(Turns)
<1>1. /\ QueryTypes(q) /\ Committed(q) /\ pc \in [Queries -> Places]
      /\ session_turns \in Seq(Turns)
  BY TypesByQuery DEF QueryIInv
<1>2. q \in InSession /\ LoggedOnce(q) /\ AnswersOf(q) = {}
  BY <1>1 DEF Committed, AddQuestion, AddAnswer, AnswersOf
<1>3. UNCHANGED <<memory, loop, text, judgement, audit_logs>> BY DEF AddQuestion, AddAnswer
<1>4. AuditLog(q)' = AuditLog(q) BY <1>3 DEF AuditLog, loop, text, judgement
<1>5. LoggedOnce(q)' BY <1>2, <1>3, <1>4 DEF LoggedOnce, Logged, text, judgement
<1>6. CASE AddQuestion(q)
  <2> DEFINE t == [query |-> q, role |-> "user", braced |-> q \in Braced, critic_passed |-> FALSE]
  <2>1. (q \in Braced) \in BOOLEAN OBVIOUS
  <2>2. t \in Turns /\ t.role = "user" BY <1>2, <2>1 DEF Turns
  <2>3. session_turns' = Append(session_turns, t) /\ pc'[q] \in {"answer", "failed"}
    BY <1>1, <1>6 DEF AddQuestion, Commits, Goto
  <2> HIDE DEF t
  <2>4. AnswersOf(q)' = {}
    BY <1>1, <1>2, <2>2, <2>3, AddedTurn DEF AnswersOf, TurnsOf
  <2>5. QED BY <1>1, <1>2, <1>5, <2>2, <2>3, <2>4, AddedTurn DEF Committed, Looping
<1>7. CASE AddAnswer(q)
  <2> DEFINE t == [query |-> q, role |-> "assistant", braced |-> answer[q].braced,
                   critic_passed |-> verdict[q].result = "PASS"]
             n == Len(session_turns) + 1
  <2>1. answer[q].braced \in BOOLEAN /\ (verdict[q].result = "PASS") \in BOOLEAN
    BY <1>1 DEF QueryTypes
  <2>2. /\ t \in Turns /\ t.query = q /\ t.role = "assistant"
        /\ (t.critic_passed <=> IsPass(verdict[q]))
    BY <1>2, <2>1 DEF Turns, IsPass
  <2>3. session_turns' = Append(session_turns, t) /\ pc'[q] \in {"done", "failed"}
    BY <1>1, <1>7 DEF AddAnswer, Commits, Goto
  <2> HIDE DEF t
  <2>4. AnswersOf(q)' = {n} /\ n \in DOMAIN session_turns' /\ session_turns'[n] = t
    BY <1>1, <1>2, <2>2, <2>3, AddedTurn DEF AnswersOf, TurnsOf
  <2> HIDE DEF n
  <2>5. verdict'[q] = verdict[q] BY <1>3 DEF judgement
  <2>6. session_turns' \in Seq(Turns) BY <1>1, <2>2, <2>3, AddedTurn
  <2>7. SavedAnswer(q)' BY <1>2, <2>2, <2>4, <2>5 DEF SavedAnswer
  <2>8. QED BY <1>2, <1>5, <2>3, <2>6, <2>7 DEF Committed, Looping
<1>8. QED BY <1>6, <1>7

\* Steps inside the loop, and exceptions, commit nothing.
LEMMA NothingCommitted ==
  ASSUME QueryIInv, NEW q \in Queries, UNCHANGED store,
         \/ pc[q] \in Looping /\ pc'[q] \in Looping \cup {"audit"}
         \/ /\ pc[q] \notin {"done", "failed"} /\ pc'[q] = "failed"
            /\ UNCHANGED <<loop, text, judgement>>
  PROVE  Committed(q)'
<1>1. Committed(q) BY DEF QueryIInv
<1>2. Logged(q)' = Logged(q) /\ TurnsOf(q)' = TurnsOf(q) /\ AnswersOf(q)' = AnswersOf(q)
  BY DEF store, Logged, TurnsOf, AnswersOf
<1>3. CASE pc[q] \in Looping /\ pc'[q] \in Looping \cup {"audit"}
  BY <1>1, <1>2, <1>3 DEF Committed, Looping
<1>4. CASE /\ pc[q] \notin {"done", "failed"} /\ pc'[q] = "failed"
           /\ UNCHANGED <<loop, text, judgement>>
  <2>1. AuditLog(q)' = AuditLog(q) BY <1>4 DEF AuditLog, loop, text, judgement
  <2>2. LoggedOnce(q)' <=> LoggedOnce(q) BY <1>2, <1>4, <2>1 DEF LoggedOnce, text, judgement
  <2>3. pc[q] \in Looping \cup {"audit", "question", "answer"}
    BY <1>4 DEF QueryIInv, TypeOK, Looping
  <2>4. TurnsOf(q) = {} \/ (LoggedOnce(q) /\ AnswersOf(q) = {})
    BY <1>1, <2>3 DEF Committed, Looping
  <2>5. QED BY <1>2, <1>4, <2>2, <2>4 DEF Committed, Looping
<1>5. QED BY <1>3, <1>4

\* One step of one query, seen from this query.
LEMMA OwnStep ==
  ASSUME QueryIInv, NEW q \in Queries, Handle(q)
  PROVE  /\ QueryTypes(q)' /\ QueryInv(q)' /\ Committed(q)'
         /\ audit_logs' \subseteq Records /\ session_turns' \in Seq(Turns) /\ pc' \in [Queries -> Places]
<1>1. /\ QueryTypes(q) /\ QueryInv(q) /\ pc \in [Queries -> Places]
      /\ audit_logs \subseteq Records /\ session_turns \in Seq(Turns)
  BY TypesByQuery DEF QueryIInv
<1>2. pc' \in [Queries -> Places]
  BY <1>1 DEF Handle, Start, Retrieve, Generate, FormatFails, Pass, GiveUp, Retry, LogQuery,
              AddQuestion, AddAnswer, Raise, Commits, Goto, Places
<1>3. CASE Start(q)
  BY <1>1, <1>2, <1>3, StartStep, NothingCommitted DEF Start, Goto, Looping, store
<1>4. CASE Retrieve(q)
  BY <1>1, <1>2, <1>4, RetrieveStep, NothingCommitted DEF Retrieve, Goto, Looping, store
<1>5. CASE Generate(q)
  BY <1>1, <1>2, <1>5, GenerateStep, NothingCommitted DEF Generate, Goto, Looping, store
<1>6. CASE Pass(q)
  BY <1>1, <1>2, <1>6, PassStep, NothingCommitted DEF Pass, Check, Goto, Looping, store
<1>7. CASE GiveUp(q)
  BY <1>1, <1>2, <1>7, GiveUpStep, NothingCommitted DEF GiveUp, Check, Goto, Looping, store
<1>8. CASE Retry(q)
  BY <1>1, <1>2, <1>8, RetryStep, NothingCommitted DEF Retry, Check, Goto, Looping, store
<1>9. CASE FormatFails(q) \/ Raise(q)
  <2>1. /\ pc[q] \notin {"done", "failed"} /\ pc'[q] = "failed"
        /\ UNCHANGED <<memory, loop, text, judgement, store>>
    BY <1>1, <1>9 DEF FormatFails, Raise, Goto
  <2>2. Committed(q)' BY <2>1, NothingCommitted
  <2>3. QueryTypes(q)' /\ QueryInv(q)'
    BY <1>1, <2>1, Moved DEF QueryTypes, loop, text, judgement
  <2>4. QED BY <1>1, <1>2, <2>1, <2>2, <2>3 DEF store
<1>10. CASE LogQuery(q) \/ AddQuestion(q) \/ AddAnswer(q)
  <2>1. pc[q] \in AfterLoop /\ pc'[q] \in AfterLoop \cup {"failed"}
    BY <1>1, <1>10 DEF LogQuery, AddQuestion, AddAnswer, Commits, Goto, AfterLoop
  <2>2. UNCHANGED <<memory, loop, text, judgement>>
    BY <1>10 DEF LogQuery, AddQuestion, AddAnswer
  <2>3. QueryTypes(q)' /\ QueryInv(q)'
    BY <1>1, <2>1, <2>2, Moved DEF QueryTypes, loop, text, judgement
  <2>4. CASE LogQuery(q)
    BY <1>1, <1>2, <2>3, <2>4, LogQueryCommits DEF LogQuery
  <2>5. CASE AddQuestion(q) \/ AddAnswer(q)
    BY <1>1, <1>2, <2>3, <2>5, TurnCommits DEF AddQuestion, AddAnswer
  <2>6. QED BY <1>10, <2>4, <2>5
<1>11. QED BY <1>3, <1>4, <1>5, <1>6, <1>7, <1>8, <1>9, <1>10 DEF Handle

LEMMA QueryStep == QueryIInv /\ [Next]_vars => QueryIInv'
<1> SUFFICES ASSUME QueryIInv, [Next]_vars PROVE QueryIInv'
  OBVIOUS
<1>1. ASSUME NEW q \in Queries, Handle(q) PROVE QueryIInv'
  <2>1. PerQuery' /\ \A p \in Queries : p # q => Kept(p) BY <1>1, OthersKept
  <2>2. \A p \in Queries : p # q => QueryTypes(p)' /\ QueryInv(p)'
    BY <2>1, KeptInv, TypesByQuery DEF QueryIInv
  <2>3. \A p \in Queries : p # q => Committed(p)' BY <1>1, OthersCommits
  <2>4. /\ QueryTypes(q)' /\ QueryInv(q)' /\ Committed(q)'
        /\ audit_logs' \subseteq Records /\ session_turns' \in Seq(Turns) /\ pc' \in [Queries -> Places]
    BY <1>1, OwnStep
  <2>5. \A p \in Queries : QueryTypes(p)' /\ QueryInv(p)' /\ Committed(p)'
    BY <2>2, <2>3, <2>4
  <2>6. TypeOK'
    <3>1. \A p \in Queries : QueryTypes(p)' BY <2>5
    <3>2. QED BY <2>4, <3>1 DEF TypeOK, QueryTypes, Places, Turns, Records
  <2>7. QED BY <2>1, <2>5, <2>6 DEF QueryIInv
<1>2. CASE UNCHANGED vars
  <2> USE <1>2 DEF vars, loop, text, judgement, store
  <2>1. PerQuery' /\ TypeOK' BY DEF QueryIInv, PerQuery, TypeOK
  <2>2. ASSUME NEW p \in Queries PROVE QueryInv(p)' /\ Committed(p)'
    <3>1. Kept(p) BY DEF Kept
    <3>2. QueryTypes(p) /\ QueryInv(p) /\ Committed(p) BY TypesByQuery DEF QueryIInv
    <3>3. Logged(p)' = Logged(p) /\ TurnsOf(p)' = TurnsOf(p) /\ AnswersOf(p)' = AnswersOf(p)
      BY DEF Logged, TurnsOf, AnswersOf
    <3>4. QED BY <3>1, <3>2, <3>3, KeptInv, KeptCommits
  <2>3. QED BY <2>1, <2>2 DEF QueryIInv
<1>3. QED BY <1>1, <1>2 DEF Next

-----------------------------------------------------------------------------
LEMMA InvariantPassIsEarned == QueryIInv => PassIsEarned
<1> SUFFICES ASSUME QueryIInv, NEW q \in Queries, pc[q] \in AfterLoop
    PROVE  IF answer[q].caveat
             THEN Len(replies[q]) = MaxRetries + 1 /\ \A i \in DOMAIN replies[q] : replies[q][i].result # "PASS"
             ELSE /\ Last(replies[q]).result = "PASS"
                  /\ checked[q] = [round |-> answer[q].round, used |-> ChunksUsed(reranked[q])]
  BY DEF PassIsEarned
<1> DEFINE n == Len(replies[q])
<1>1. RoundsOver(q) /\ OfThisRound(q) /\ replies[q] \in Seq(Replies)
  BY TypesByQuery DEF QueryIInv, QueryInv, QueryTypes
<1>2. n \in Nat /\ DOMAIN replies[q] = 1 .. n BY <1>1
<1>3. /\ \A i \in 1 .. n - 1 : ~IsPass(replies[q][i])
      /\ answer[q].caveat <=> ~IsPass(replies[q][n])
      /\ answer[q].caveat => n = MaxRetries + 1
  BY <1>1 DEF RoundsOver
<1>4. \A i \in 1 .. n : i = n \/ i \in 1 .. n - 1 BY <1>2
<1>5. CASE answer[q].caveat
  <2>1. \A i \in 1 .. n : ~IsPass(replies[q][i]) BY <1>3, <1>4, <1>5
  <2>2. QED BY <1>2, <1>3, <1>5, <2>1 DEF IsPass
<1>6. CASE ~answer[q].caveat
  <2>1. Last(replies[q]).result = "PASS" BY <1>3, <1>6 DEF Last, IsPass
  <2>2. QED BY <1>1, <1>6, <2>1 DEF OfThisRound
<1>7. QED BY <1>5, <1>6

LEMMA InvariantRoundsAreCounted == QueryIInv => RoundsAreCounted
<1> SUFFICES ASSUME QueryIInv, NEW q \in Queries, pc[q] # "failed"
    PROVE  LET failed == {i \in DOMAIN replies[q] : replies[q][i].result # "PASS"}
               naming == {i \in failed : replies[q][i].claims # {}
                                         /\ (i < Len(replies[q]) \/ pc[q] \notin AfterLoop)}
           IN  /\ retry_count[q] = Cardinality(failed)
               /\ pc[q] \in AfterLoop => critic_corrections[q] = Len(replies[q]) - 1
               /\ subject[q] = IF naming = {} THEN {}
                               ELSE replies[q][CHOOSE i \in naming : \A j \in naming : j <= i].claims
  BY DEF RoundsAreCounted
<1> DEFINE n == Len(replies[q])
           failed == {i \in DOMAIN replies[q] : replies[q][i].result # "PASS"}
           naming == {i \in failed : replies[q][i].claims # {}
                                     /\ (i < Len(replies[q]) \/ pc[q] \notin AfterLoop)}
           last == IF pc[q] \in AfterLoop THEN n - 1 ELSE n
<1>1. /\ RoundsUnderWay(q) /\ RoundsOver(q) /\ SubjectIsLatest(q) /\ replies[q] \in Seq(Replies)
      /\ pc[q] \in Looping \/ pc[q] \in AfterLoop
  BY TypesByQuery DEF QueryIInv, QueryInv, QueryTypes, Places, Looping, AfterLoop
<1>2. n \in Nat /\ DOMAIN replies[q] = 1 .. n BY <1>1
<1>3. ASSUME NEW k \in Nat, failed = 1 .. k PROVE Cardinality(failed) = k
  <2>1. Cardinality(1 .. k) = k BY FS_Interval
  <2>2. QED BY <1>3, <2>1
<1>4. retry_count[q] = Cardinality(failed)
  <2>1. CASE pc[q] \in Looping
    <3>1. failed = 1 .. n BY <1>1, <1>2, <2>1 DEF RoundsUnderWay, IsPass
    <3>2. QED BY <1>1, <1>2, <1>3, <2>1, <3>1 DEF RoundsUnderWay
  <2>2. CASE pc[q] \in AfterLoop
    <3>1. /\ n \in 1 .. MaxRetries + 1 /\ \A i \in 1 .. n - 1 : ~IsPass(replies[q][i])
          /\ answer[q].caveat <=> ~IsPass(replies[q][n])
          /\ retry_count[q] = IF answer[q].caveat THEN n ELSE n - 1
      BY <1>1, <2>2 DEF RoundsOver
    <3>2. \A i : i \in 1 .. n <=> i = n \/ i \in 1 .. n - 1 BY <1>2, <3>1
    <3>3. CASE answer[q].caveat
      <4>1. failed = 1 .. n BY <1>2, <3>1, <3>2, <3>3 DEF IsPass
      <4>2. QED BY <1>2, <1>3, <3>1, <3>3, <4>1
    <3>4. CASE ~answer[q].caveat
      <4>1. n \notin 1 .. n - 1 /\ n - 1 \in Nat BY <1>2, <3>1
      <4>2. failed = 1 .. n - 1 BY <1>2, <3>1, <3>2, <3>4, <4>1 DEF IsPass
      <4>3. QED BY <1>3, <3>1, <3>4, <4>1, <4>2
    <3>5. QED BY <3>3, <3>4
  <2>3. QED BY <1>1, <2>1, <2>2
<1>5. pc[q] \in AfterLoop => critic_corrections[q] = n - 1 BY <1>1 DEF RoundsOver
<1>6. naming = Naming(q, last)
  <2>1. \A i \in 1 .. n : (i < n <=> i \in 1 .. n - 1) BY <1>2
  <2>2. \A i \in 1 .. n - 1 : i \in 1 .. n BY <1>2
  <2>3. QED BY <1>2, <2>1, <2>2 DEF Naming, IsPass
<1>7. SubjectOf(q, last) BY <1>1 DEF SubjectIsLatest
<1>8. naming \subseteq Nat BY <1>2
<1> HIDE DEF naming, last, failed
<1>9. subject[q] = IF naming = {} THEN {}
                   ELSE replies[q][CHOOSE i \in naming : \A j \in naming : j <= i].claims
  <2>1. CASE naming = {} BY <1>6, <1>7, <2>1 DEF SubjectOf
  <2>2. CASE naming # {}
    <3>1. PICK i \in naming : (\A j \in naming : j <= i) /\ subject[q] = replies[q][i].claims
      BY <1>6, <1>7, <2>2 DEF SubjectOf
    <3> DEFINE m == CHOOSE k \in naming : \A j \in naming : j <= k
    <3>2. m \in naming /\ \A j \in naming : j <= m BY <3>1
    <3>3. m <= i /\ i <= m /\ m \in Nat /\ i \in Nat BY <1>8, <3>1, <3>2
    <3>4. m = i BY <3>3
    <3>5. QED BY <2>2, <3>1, <3>4
  <2>3. QED BY <2>1, <2>2
<1>10. QED BY <1>4, <1>5, <1>9 DEF naming, failed

LEMMA InvariantAudited == QueryIInv => AuditedAsAnswered
<1> SUFFICES ASSUME QueryIInv, NEW q \in Queries, pc[q] = "done" \/ TurnsOf(q) # {}
    PROVE  /\ \E a \in Logged(q) :
                /\ Logged(q) = {a}
                /\ a.sources_used = [i \in DOMAIN checked[q].used |-> checked[q].used[i].chunk]
                /\ \A i \in AnswersOf(q) : session_turns[i].critic_passed <=> a.critic_result = "PASS"
           /\ Cardinality(AnswersOf(q)) \in IF q \notin InSession THEN {0}
                                            ELSE CASE pc[q] = "done" -> {1} [] pc[q] = "failed" -> {0, 1}
                                                   [] OTHER -> {0}
  <2>1. \A q \in Queries : AnswersOf(q) = {i \in DOMAIN session_turns :
          session_turns[i].query = q /\ session_turns[i].role = "assistant"}
    BY DEF AnswersOf, TurnsOf
  <2>2. QED BY <2>1, ZenonT(60) DEF AuditedAsAnswered, Logged, TurnsOf
<1>1. Committed(q) /\ pc[q] \in Places BY TypesByQuery DEF QueryIInv
<1>2. LoggedOnce(q) BY <1>1 DEF Committed, Looping, Places
<1>3. AuditLog(q) \in Logged(q) /\ Logged(q) = {AuditLog(q)} BY <1>2 DEF LoggedOnce
<1>4. /\ AuditLog(q).sources_used = [i \in DOMAIN checked[q].used |-> checked[q].used[i].chunk]
      /\ AuditLog(q).critic_result = verdict[q].result
  BY <1>2 DEF LoggedOnce, AuditLog
<1>5. CASE SavedAnswer(q) /\ pc[q] \in {"done", "failed"}
  <2>1. q \in InSession BY <1>5 DEF SavedAnswer
  <2>2. PICK i : AnswersOf(q) = {i} /\ (session_turns[i].critic_passed <=> IsPass(verdict[q]))
    BY <1>5 DEF SavedAnswer
  <2>3. Cardinality(AnswersOf(q)) = 1 BY <2>2, FS_Singleton
  <2>4. \A j \in AnswersOf(q) : session_turns[j].critic_passed <=> AuditLog(q).critic_result = "PASS"
    BY <1>4, <2>2 DEF IsPass
  <2>5. Cardinality(AnswersOf(q)) \in CASE pc[q] = "done" -> {1} [] pc[q] = "failed" -> {0, 1}
                                        [] OTHER -> {0}
    BY <1>5, <2>3
  <2>6. QED BY <1>3, <1>4, <2>1, <2>4, <2>5
<1>6. CASE AnswersOf(q) = {} /\ (q \in InSession => pc[q] # "done")
  <2>1. Cardinality(AnswersOf(q)) = 0 BY <1>6, FS_EmptySet
  <2>2. q \in InSession => Cardinality(AnswersOf(q)) \in
          CASE pc[q] = "done" -> {1} [] pc[q] = "failed" -> {0, 1} [] OTHER -> {0}
    BY <1>6, <2>1
  <2>3. QED BY <1>3, <1>4, <1>6, <2>1, <2>2
<1>7. QED
  <2>1. CASE pc[q] \in {"done", "failed"} BY <1>1, <1>5, <1>6, <2>1 DEF Committed
  <2>2. CASE pc[q] \notin {"done", "failed"}
    <3>1. AnswersOf(q) = {} BY <1>1, <2>2 DEF Committed, Places, Looping
    <3>2. QED BY <1>6, <2>2, <3>1
  <2>3. QED BY <2>1, <2>2

LEMMA InvariantContextIsFull == QueryIInv => ContextIsFull
<1> SUFFICES ASSUME QueryIInv, NEW q \in Queries, pc[q] = "critic"
    PROVE  /\ TokensOf(chunks_used[q]) <= ChunkBudget
           /\ Cardinality(ChunksOf(chunks_used[q])) = Len(chunks_used[q])
           /\ \A i \in DOMAIN reranked[q] : reranked[q][i] \in ChunksOf(chunks_used[q])
                \/ TokensOf(chunks_used[q]) + Tokens[reranked[q][i]] > ChunkBudget
  BY DEF ContextIsFull, ChunksOf
<1>1. /\ chunks_used[q] = ChunksUsed(reranked[q]) /\ Distinct(reranked[q])
      /\ reranked[q] \in Seq(Chunks)
  BY TypesByQuery DEF QueryIInv, QueryInv, OfThisRound, QueryTypes
<1>2. Packed(chunks_used[q], reranked[q], Len(reranked[q])) BY <1>1, ContextIsPacked
<1>3. DOMAIN reranked[q] = 1 .. Len(reranked[q]) BY <1>1
<1>4. QED BY <1>2, <1>3 DEF Packed

\* Type correctness: the counters stay within the retry limit, the recall within its cap.
THEOREM QueryTypesHold == Spec => []TypeOK
<1>1. QueryIInv => TypeOK BY DEF QueryIInv
<1>2. QED BY <1>1, QueryInitially, QueryStep, PTL DEF Spec

\* For any retry limit and any replies: an answer leaves the loop without its caveat only
\* if the critic passed it, on the chunks of its own prompt, and with it only if all failed.
THEOREM PassesAreEarned == Spec => []PassIsEarned
<1>1. QED BY QueryInitially, QueryStep, InvariantPassIsEarned, PTL DEF Spec

\* The reported counts are the failed checks, and the sub-query the latest claims.
THEOREM CountsAreRight == Spec => []RoundsAreCounted
<1>1. QED BY QueryInitially, QueryStep, InvariantRoundsAreCounted, PTL DEF Spec

\* For any number of queries of a session at once: turns and answers follow the one audit
\* record of their query, which says what was shown and checked; an answered query has
\* saved one answer, a refused one at most one, whichever commit or refresh raised.
THEOREM AuditIsTrue == Spec => []AuditedAsAnswered
<1>1. QED BY QueryInitially, QueryStep, InvariantAudited, PTL DEF Spec

\* For any ranking and any excerpt sizes the prompt is within its budget and full.
THEOREM BudgetIsUsed == Spec => []ContextIsFull
<1>1. QED BY QueryInitially, QueryStep, InvariantContextIsFull, PTL DEF Spec
=============================================================================
