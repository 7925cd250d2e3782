------------------------- MODULE RateLimiterProofs -------------------------
(***************************************************************************)
(* RateLimiter, for any requests, limits and windows: when a request is    *)
(* denied, what it is answered, and, for routes of one window, that a full *)
(* window admits nobody.  The entries of the sorted set are compared with  *)
(* the requests they stand for by counting, above every score: the undo of *)
(* a denied request may take the entry of another one of the same score.   *)
(***************************************************************************)
EXTENDS RateLimiter, FiniteSetTheorems, TLAPS

States == Settled \cup {"check", "undo", "oldest", "score"}
Entries == [request : Requests, score : Nat]
Entry(r) == [request |-> r, score |-> now_ms[r]]

RateTypes ==
  /\ clock \in Nat \ {0} /\ expires \in Nat /\ overlapped \in BOOLEAN
  /\ zset \subseteq Entries
  /\ pc \in [Requests -> States] /\ now_ms \in [Requests -> Nat]
  /\ oldest \in [Requests -> Requests] /\ retry_after \in [Requests -> Nat]

\* The entries above a score, and the requests at some places that read a later clock.
Above(c) == {m \in zset : m.score > c}
Later(places, c) == {s \in Requests : pc[s] \in places /\ now_ms[s] > c}
Started == {s \in Requests : pc[s] # "new"}

\* Entries are of requests that have checked, with the clock these read.
EntriesAreOwned ==
  /\ IsFiniteSet(Started) /\ IsFiniteSet(zset)
  /\ \A m \in zset : pc[m.request] \notin {"new", "check"} /\ m = Entry(m.request)
  /\ \A r \in Requests : now_ms[r] <= clock /\ (pc[r] # "new" => now_ms[r] > 0)

\* While requests do not overlap, the one under way has the highest score, its undo finds
\* its entry, and there are no more entries than requests that hold one.
OneAtATime == ~overlapped =>
  /\ \A r, s \in Requests : pc[r] \notin Settled /\ pc[s] \notin Settled => r = s
  /\ \A r \in Requests, m \in zset : pc[r] \notin Settled => m.score <= now_ms[r]
  /\ \A r \in Requests : pc[r] = "undo" => clock >= expires \/ Entry(r) \in zset
  /\ \A r \in Requests : pc[r] = "undo" => zset = {} \/ Entry(r) \in zset
  /\ \A r \in Requests : pc[r] = "undo" => clock >= expires \/ Cardinality(zset) > 1
  /\ \A r \in Requests : pc[r] = "oldest" => clock >= expires \/ zset # {}
  /\ \A c \in Int : Cardinality(Above(c)) <= Cardinality(Later({"allowed", "lost", "undo"}, c))

\* All routes of the key have the same window.
OneWindow == \A r, s \in Requests : WindowOf[r] = WindowOf[s]

\* The TTL covers every entry, and no request at its check read its clock too long ago.
Covered(W) ==
  /\ expires <= clock + W + Second
  /\ \A s \in Requests : pc[s] \notin {"new", "check", "error"} => now_ms[s] + W + Second <= expires
  /\ ~overlapped => \A s \in Requests : pc[s] = "check" => now_ms[s] + W + Second >= expires

\* At every cutoff a later check can have, each admitted request has an entry above it.
NoneMissing(W) == ~overlapped /\ clock < expires => \A c \in Int :
  c + W + W + Second >= expires
  => Cardinality(Above(c)) >= Cardinality(Later({"allowed", "undo"}, c))

\* In the first window nothing is pruned, and each undo takes one entry only.
FirstWindow(W) == clock <= W => Cardinality(zset) >= Cardinality(Later({"allowed", "undo"}, 0))

EntriesLast == \A r \in Requests :
  Covered(Window(r)) /\ NoneMissing(Window(r)) /\ FirstWindow(Window(r))

RateIInv == RateTypes /\ EntriesAreOwned /\ OneAtATime /\ (OneWindow => EntriesLast)

LEMMA RateNumbers ==
  /\ \A r \in Requests : WindowOf[r] \in Nat /\ WindowOf[r] > 0 /\ LimitOf[r] \in Nat /\ LimitOf[r] > 0
  /\ \A r \in Requests : Window(r) \in Nat /\ Window(r) > 0
  /\ Second \in Nat /\ Second > 0
  /\ OneWindow => \A r, s \in Requests : Window(r) = Window(s)
<1>1. /\ \A r \in Requests : WindowOf[r] \in Nat /\ WindowOf[r] > 0 /\ LimitOf[r] \in Nat /\ LimitOf[r] > 0
      /\ Second \in Nat /\ Second > 0
  BY RateLimiterAssumption
<1>2. \A a, b \in Nat : a > 0 /\ b > 0 => a * b \in Nat /\ a * b > 0 OBVIOUS
<1>3. \A r \in Requests : Window(r) \in Nat /\ Window(r) > 0 BY <1>1, <1>2 DEF Window
<1>4. OneWindow => \A r, s \in Requests : Window(r) = Window(s) BY DEF OneWindow, Window
<1>5. QED BY <1>1, <1>3, <1>4

LEMMA RateInitially == Init => RateIInv
<1> SUFFICES ASSUME Init PROVE RateIInv
  OBVIOUS
<1>1. RateTypes
  <2>1. pc \in [Requests -> States] BY DEF Init, States, Settled
  <2>2. clock \in Nat \ {0} /\ expires \in Nat /\ zset \subseteq Entries
    BY DEF Init
  <2>5. overlapped \in BOOLEAN BY DEF Init
  <2>3. now_ms \in [Requests -> Nat] /\ oldest \in [Requests -> Requests] /\ retry_after \in [Requests -> Nat]
    BY DEF Init
  <2>4. QED BY <2>1, <2>2, <2>3, <2>5 DEF RateTypes
<1>2. Started = {} /\ zset = {} BY DEF Init, Started
<1>3. EntriesAreOwned BY <1>2, FS_EmptySet DEF Init, EntriesAreOwned
<1>4. \A c : Above(c) = {} BY <1>2 DEF Above
<1>5. \A P, c : "new" \notin P => Later(P, c) = {} BY <1>2 DEF Later, Started
<1>6. Cardinality({}) = 0 BY FS_EmptySet
<1>7. OneAtATime
  <2>1. \A r \in Requests : pc[r] = "new" BY DEF Init
  <2>2. \A c \in Int : Cardinality(Above(c)) <= Cardinality(Later({"allowed", "lost", "undo"}, c))
    BY <1>4, <1>5, <1>6
  <2>3. QED BY <1>2, <2>1, <2>2 DEF OneAtATime, Settled
<1>8. EntriesLast
  <2>1. expires = 0 /\ clock = 1 /\ \A r \in Requests : pc[r] = "new" BY DEF Init
  <2>2. Cardinality(zset) >= Cardinality(Later({"allowed", "undo"}, 0)) BY <1>2, <1>5, <1>6
  <2>3. QED BY <2>1, <2>2, RateNumbers DEF EntriesLast, Covered, NoneMissing, FirstWindow
<1>9. QED BY <1>1, <1>3, <1>7, <1>8 DEF RateIInv

LEMMA RateTypesKept == RateTypes /\ [Next]_vars => RateTypes'
<1> SUFFICES ASSUME RateTypes, [Next]_vars PROVE RateTypes'
  OBVIOUS
<1> USE DEF RateTypes, Entries, States, Settled
<1>1. CASE Tick BY <1>1 DEF Tick
<1>2. ASSUME NEW r \in Requests, ReadClock(r) PROVE RateTypes' BY <1>2 DEF ReadClock
<1>3. ASSUME NEW r \in Requests, Check(r) \/ LoseReply(r) PROVE RateTypes'
  <2>1. clock + Window(r) + Second \in Nat BY RateNumbers
  <2>2. Enter(r) /\ pc' \in [Requests -> States] BY <1>3 DEF Check, LoseReply
  <2>3. zset' \subseteq Entries BY <2>2 DEF Enter, InWindow
  <2>4. QED BY <2>1, <2>2, <2>3 DEF Enter
<1>4. ASSUME NEW r \in Requests, Undo(r) PROVE RateTypes' BY <1>4 DEF Undo
<1>5. ASSUME NEW r \in Requests, Oldest(r) PROVE RateTypes' BY <1>5 DEF Oldest, Lowest
<1>6. ASSUME NEW r \in Requests, Score(r) PROVE RateTypes'
  <2> DEFINE found == {m \in zset : m.request = oldest[r]}
  <2>1. \A m \in found : RetryAfter(r, m) \in Nat
    <3> SUFFICES ASSUME NEW m \in found PROVE RetryAfter(r, m) \in Nat
      OBVIOUS
    <3>1. m.score + Window(r) - now_ms[r] \in Int BY RateNumbers
    <3> DEFINE x == m.score + Window(r) - now_ms[r]
    <3>2. x \div Second \in Int BY <3>1, RateNumbers
    <3>3. QED BY <3>2 DEF RetryAfter, AtLeastOne
  <2>2. (IF found = {} THEN WindowOf[r] ELSE RetryAfter(r, CHOOSE m \in found : TRUE)) \in Nat
    <3>1. found # {} => (CHOOSE m \in found : TRUE) \in found OBVIOUS
    <3> HIDE DEF found
    <3>2. QED BY <2>1, <3>1, RateNumbers
  <2>3. retry_after' \in [Requests -> Nat] BY <1>6, <2>2 DEF Score
  <2>4. QED BY <1>6, <2>3 DEF Score
<1>7. ASSUME NEW r \in Requests, Die(r) \/ CheckRaises(r) PROVE RateTypes'
  BY <1>7 DEF Die, CheckRaises
<1>8. CASE UNCHANGED vars BY <1>8 DEF vars
<1>9. QED BY <1>1, <1>2, <1>3, <1>4, <1>5, <1>6, <1>7, <1>8 DEF Next

LEMMA FiniteCounts ==
  ASSUME EntriesAreOwned, NEW c, NEW P, "new" \notin P
  PROVE  /\ IsFiniteSet(Above(c)) /\ Cardinality(Above(c)) \in Nat
         /\ IsFiniteSet(Later(P, c)) /\ Cardinality(Later(P, c)) \in Nat
         /\ Cardinality(zset) \in Nat
<1>1. Above(c) \subseteq zset /\ Later(P, c) \subseteq Started BY DEF Above, Later, Started
<1>2. QED BY <1>1, FS_Subset, FS_CardinalityType DEF EntriesAreOwned

\* One element more, one element less.
LEMMA CountOne ==
  ASSUME NEW S, IsFiniteSet(S), NEW x
  PROVE  /\ Cardinality(S) \in Nat
         /\ x \notin S => Cardinality(S \cup {x}) = Cardinality(S) + 1
         /\ x \in S => Cardinality(S \ {x}) = Cardinality(S) - 1
         /\ x \notin S => Cardinality(S \ {x}) = Cardinality(S)
<1>1. Cardinality(S) \in Nat BY FS_CardinalityType
<1>2. Cardinality(S \cup {x}) = IF x \in S THEN Cardinality(S) ELSE Cardinality(S) + 1 BY FS_AddElement
<1>3. Cardinality(S \ {x}) = IF x \in S THEN Cardinality(S) - 1 ELSE Cardinality(S) BY FS_RemoveElement
<1>4. QED BY <1>1, <1>2, <1>3

\* The MULTI takes effect: the request enters, whether or not it learns what was counted.
LEMMA Entering ==
  ASSUME RateTypes, NEW r \in Requests, Check(r) \/ LoseReply(r)
  PROVE  /\ pc[r] = "check" /\ pc'[r] \in {"undo", "allowed", "lost"} /\ (pc'[r] = "undo" => Full(r))
         /\ \A s \in Requests : s # r => pc'[s] = pc[s]
         /\ zset' = InWindow(r) \cup {Entry(r)} /\ expires' = clock + Window(r) + Second
         /\ clock' = clock /\ now_ms' = now_ms /\ overlapped' = overlapped
<1>1. Enter(r) BY DEF Check, LoseReply
<1>2. /\ pc'[r] \in {"undo", "allowed", "lost"} /\ (pc'[r] = "undo" => Full(r))
      /\ \A s \in Requests : s # r => pc'[s] = pc[s]
  BY DEF Check, LoseReply, RateTypes
<1>3. QED BY <1>1, <1>2 DEF Enter, Entry

\* The MULTI does not take effect.
LEMMA NotEntering ==
  ASSUME RateTypes, NEW r \in Requests, CheckRaises(r)
  PROVE  /\ pc[r] = "check" /\ pc'[r] = "error" /\ \A s \in Requests : s # r => pc'[s] = pc[s]
         /\ zset' = zset /\ expires' = expires
         /\ clock' = clock /\ now_ms' = now_ms /\ overlapped' = overlapped
BY DEF CheckRaises, RateTypes

LEMMA OwnedKept == RateIInv /\ [Next]_vars => EntriesAreOwned'
<1> SUFFICES ASSUME RateIInv, [Next]_vars PROVE EntriesAreOwned'
  OBVIOUS
<1>0. RateTypes /\ EntriesAreOwned BY DEF RateIInv
<1> USE <1>0 DEF RateTypes
<1>1. ASSUME zset' \subseteq zset, now_ms' = now_ms, clock' >= clock, clock' \in Nat,
             \A s \in Requests : pc'[s] # pc[s] => pc[s] # "new" /\ pc'[s] \notin {"new", "check"}
      PROVE  EntriesAreOwned'
  <2>1. IsFiniteSet(zset') BY <1>1, FS_Subset DEF EntriesAreOwned
  <2>2. Started' = Started BY <1>1 DEF Started
  <2>3. \A m \in zset' : pc'[m.request] \notin {"new", "check"} /\ m = Entry(m.request)'
    BY <1>1 DEF EntriesAreOwned, Entries, Entry
  <2>4. \A r \in Requests : now_ms'[r] <= clock' /\ (pc'[r] # "new" => now_ms'[r] > 0)
    BY <1>1 DEF EntriesAreOwned
  <2>5. QED BY <2>1, <2>2, <2>3, <2>4 DEF EntriesAreOwned
<1>2. CASE Tick BY <1>1, <1>2 DEF Tick
<1>3. ASSUME NEW r \in Requests, ReadClock(r) PROVE EntriesAreOwned'
  <2>1. pc[r] = "new" /\ zset' = zset /\ clock' = clock
        /\ (\A s \in Requests : pc'[s] = IF s = r THEN "check" ELSE pc[s])
        /\ (\A s \in Requests : now_ms'[s] = IF s = r THEN clock ELSE now_ms[s])
    BY <1>3 DEF ReadClock
  <2>2. Started' = Started \cup {r} BY <2>1 DEF Started
  <2>3. IsFiniteSet(Started') BY <2>2, FS_AddElement DEF EntriesAreOwned
  <2>4. \A m \in zset : m.request \in Requests /\ m.request # r
    BY <2>1 DEF EntriesAreOwned, Entries
  <2>5. \A m \in zset' : pc'[m.request] \notin {"new", "check"} /\ m = Entry(m.request)'
    BY <2>1, <2>4 DEF EntriesAreOwned, Entry
  <2>6. QED BY <2>1, <2>3, <2>5 DEF EntriesAreOwned
<1>4. ASSUME NEW r \in Requests, Check(r) \/ LoseReply(r) PROVE EntriesAreOwned'
  <2>1. pc[r] = "check" /\ zset' = InWindow(r) \cup {Entry(r)} /\ clock' = clock /\ now_ms' = now_ms
        /\ (\A s \in Requests : s # r => pc'[s] = pc[s]) /\ pc'[r] \in {"undo", "allowed", "lost"}
    BY <1>4, Entering
  <2>2. Started' = Started BY <2>1 DEF Started
  <2>3. InWindow(r) \subseteq zset BY DEF InWindow
  <2>4. IsFiniteSet(zset') BY <2>1, <2>3, FS_Subset, FS_AddElement DEF EntriesAreOwned
  <2>5. Entry(r).request = r BY DEF Entry
  <2>6. \A s : Entry(s)' = Entry(s) BY <2>1 DEF Entry
  <2>7. \A m \in zset' : pc'[m.request] \notin {"new", "check"} /\ m = Entry(m.request)'
    <3> SUFFICES ASSUME NEW m \in zset'
        PROVE  pc'[m.request] \notin {"new", "check"} /\ m = Entry(m.request)'
      OBVIOUS
    <3>1. CASE m = Entry(r) BY <2>1, <2>5, <2>6, <3>1
    <3>2. CASE m \in zset
      BY <2>1, <2>6, <3>2 DEF EntriesAreOwned, Entries
    <3>3. QED BY <2>1, <2>3, <3>1, <3>2
  <2>8. \A s \in Requests : now_ms'[s] <= clock' /\ (pc'[s] # "new" => now_ms'[s] > 0)
    BY <2>1 DEF EntriesAreOwned
  <2>9. QED BY <2>2, <2>4, <2>7, <2>8 DEF EntriesAreOwned
<1>5. ASSUME NEW r \in Requests, Undo(r) \/ Oldest(r) \/ Score(r) \/ Die(r) PROVE EntriesAreOwned'
  BY <1>1, <1>5 DEF Undo, Oldest, Score, Die
<1>6. ASSUME NEW r \in Requests, CheckRaises(r) PROVE EntriesAreOwned'
  BY <1>1, <1>6, NotEntering
<1>7. CASE UNCHANGED vars BY <1>1, <1>7 DEF vars
<1>8. QED BY <1>2, <1>3, <1>4, <1>5, <1>6, <1>7 DEF Next

\* The MULTI adds one entry, and one request to the places it may go to.
LEMMA CheckCounts ==
  ASSUME RateIInv, NEW r \in Requests, Check(r) \/ LoseReply(r), NEW c \in Int,
         NEW P, "new" \notin P, "check" \notin P
  PROVE  /\ pc'[r] \in P
            => Cardinality(Later(P, c)') = Cardinality(Later(P, c)) + (IF now_ms[r] > c THEN 1 ELSE 0)
         /\ pc'[r] \notin P => Cardinality(Later(P, c)') = Cardinality(Later(P, c))
         /\ Cardinality(Above(c)') = Cardinality({m \in InWindow(r) : m.score > c})
                                     + (IF now_ms[r] > c THEN 1 ELSE 0)
         /\ Cardinality(Above(c)') <= Cardinality(Above(c)) + (IF now_ms[r] > c THEN 1 ELSE 0)
         /\ Cardinality({m \in InWindow(r) : m.score > c}) \in Nat
<1> DEFINE A == {m \in InWindow(r) : m.score > c}
<1>1. pc[r] = "check" /\ zset' = InWindow(r) \cup {Entry(r)} /\ now_ms' = now_ms
      /\ (\A s \in Requests : s # r => pc'[s] = pc[s])
  BY Entering DEF RateIInv
<1>2. EntriesAreOwned /\ now_ms[r] \in Int BY DEF RateIInv, RateTypes
<1>3. r \notin Later(P, c) BY <1>1 DEF Later
<1>4. Later(P, c)' = IF pc'[r] \in P /\ now_ms[r] > c THEN Later(P, c) \cup {r} ELSE Later(P, c)
  BY <1>1 DEF Later
<1>5. /\ IsFiniteSet(Later(P, c)) /\ Cardinality(Later(P, c)) \in Nat
      /\ IsFiniteSet(Above(c)) /\ Cardinality(Above(c)) \in Nat
  BY <1>2, FiniteCounts
<1>6. /\ pc'[r] \in P
         => Cardinality(Later(P, c)') = Cardinality(Later(P, c)) + (IF now_ms[r] > c THEN 1 ELSE 0)
      /\ pc'[r] \notin P => Cardinality(Later(P, c)') = Cardinality(Later(P, c))
  <2>1. r \notin Later(P, c) => Cardinality(Later(P, c) \cup {r}) = Cardinality(Later(P, c)) + 1
    BY <1>5, CountOne
  <2> HIDE DEF A
  <2>2. QED BY <1>3, <1>4, <1>5, <2>1
<1>7. A \subseteq Above(c) BY DEF Above, InWindow
<1>8. IsFiniteSet(A) /\ Cardinality(A) \in Nat /\ Cardinality(A) <= Cardinality(Above(c))
  BY <1>5, <1>7, FS_Subset, FS_CardinalityType
<1>9. Entry(r).score = now_ms[r] /\ Entry(r).request = r BY DEF Entry
<1>10. Entry(r) \notin A BY <1>1, <1>2, <1>9 DEF InWindow, EntriesAreOwned
<1>11. Above(c)' = IF now_ms[r] > c THEN A \cup {Entry(r)} ELSE A
  BY <1>1, <1>9 DEF Above
<1> HIDE DEF A
<1>12. Cardinality(Above(c)') = Cardinality(A) + (IF now_ms[r] > c THEN 1 ELSE 0)
  <2>1. Entry(r) \notin A => Cardinality(A \cup {Entry(r)}) = Cardinality(A) + 1 BY <1>8, CountOne
  <2>2. QED BY <1>8, <1>10, <1>11, <2>1
<1>13. QED BY <1>5, <1>6, <1>8, <1>12 DEF A

\* The undo takes one entry away, and the request gives up the one it holds.
LEMMA UndoTakesOne ==
  ASSUME RateIInv, NEW r \in Requests, Undo(r), NEW c \in Int,
         NEW P, "undo" \in P, "oldest" \notin P, "new" \notin P
  PROVE  /\ Cardinality(Later(P, c)') = Cardinality(Later(P, c)) - (IF now_ms[r] > c THEN 1 ELSE 0)
         /\ zset # {} => Cardinality(zset') = Cardinality(zset) - 1
<1>1. pc[r] = "undo" /\ now_ms' = now_ms
      /\ (\A s \in Requests : s # r => pc'[s] = pc[s]) /\ pc'[r] = "oldest"
  BY DEF Undo, RateIInv, RateTypes
<1>2. EntriesAreOwned BY DEF RateIInv
<1>3. r \in Later(P, c) <=> now_ms[r] > c BY <1>1 DEF Later
<1>4. Later(P, c)' = Later(P, c) \ {r} BY <1>1 DEF Later
<1>5. /\ IsFiniteSet(Later(P, c)) /\ Cardinality(Later(P, c)) \in Nat
      /\ IsFiniteSet(zset) /\ Cardinality(zset) \in Nat
  BY <1>2, FiniteCounts DEF EntriesAreOwned
<1>6. /\ r \in Later(P, c) => Cardinality(Later(P, c) \ {r}) = Cardinality(Later(P, c)) - 1
      /\ r \notin Later(P, c) => Cardinality(Later(P, c) \ {r}) = Cardinality(Later(P, c))
  BY <1>5, CountOne
<1>7. ASSUME zset # {} PROVE Cardinality(zset') = Cardinality(zset) - 1
  <2>1. PICK m \in Highest : zset' = zset \ {m} BY <1>7 DEF Undo
  <2>2. m \in zset BY DEF Highest
  <2>3. QED BY <1>5, <2>1, <2>2, CountOne
<1>8. QED BY <1>3, <1>4, <1>5, <1>6, <1>7

\* While no other request is under way, that entry has the score of the request.
LEMMA UndoCounts ==
  ASSUME RateIInv, ~overlapped, NEW r \in Requests, Undo(r), NEW c \in Int
  PROVE  /\ zset # {} => Cardinality(Above(c)') = Cardinality(Above(c)) - (IF now_ms[r] > c THEN 1 ELSE 0)
         /\ zset = {} => zset' = {}
<1>1. pc[r] = "undo" BY DEF Undo
<1>2. EntriesAreOwned /\ now_ms[r] \in Int BY DEF RateIInv, RateTypes
<1>3. ASSUME zset # {}
      PROVE  Cardinality(Above(c)') = Cardinality(Above(c)) - (IF now_ms[r] > c THEN 1 ELSE 0)
  <2>1. PICK m \in Highest : zset' = zset \ {m} BY <1>3 DEF Undo
  <2>2. Entry(r) \in zset /\ \A n \in zset : n.score <= now_ms[r]
    BY <1>1, <1>3 DEF RateIInv, OneAtATime, Settled
  <2>3. Entry(r).score = now_ms[r] BY DEF Entry
  <2>4. m \in zset /\ m.score \in Nat BY DEF Highest, RateIInv, RateTypes, Entries
  <2>5. m.score >= now_ms[r] BY <2>2, <2>3 DEF Highest
  <2>6. m.score = now_ms[r] BY <1>2, <2>2, <2>4, <2>5
  <2>7. m \in Above(c) <=> now_ms[r] > c BY <2>4, <2>6 DEF Above
  <2>8. Above(c)' = Above(c) \ {m} BY <2>1 DEF Above
  <2>9. IsFiniteSet(Above(c)) /\ Cardinality(Above(c)) \in Nat
    <3>1. Above(c) \subseteq zset BY DEF Above
    <3>2. QED BY <1>2, <3>1, FS_Subset, FS_CardinalityType DEF EntriesAreOwned
  <2>10. /\ m \in Above(c) => Cardinality(Above(c) \ {m}) = Cardinality(Above(c)) - 1
         /\ m \notin Above(c) => Cardinality(Above(c) \ {m}) = Cardinality(Above(c))
    BY <2>9, CountOne
  <2>11. QED BY <2>7, <2>8, <2>9, <2>10
<1>4. zset = {} => zset' = {} BY DEF Undo
<1>5. QED BY <1>3, <1>4

LEMMA OneAtATimeKept == RateIInv /\ [Next]_vars => OneAtATime'
<1> SUFFICES ASSUME RateIInv, [Next]_vars PROVE OneAtATime'
  OBVIOUS
<1> DEFINE P == {"allowed", "lost", "undo"}
<1> DEFINE Fewer == \A c \in Int : Cardinality(Above(c)) <= Cardinality(Later(P, c))
<1>0. RateTypes /\ EntriesAreOwned /\ OneAtATime BY DEF RateIInv
<1>p. "new" \notin P /\ "check" \notin P /\ "oldest" \notin P /\ "error" \notin P
      /\ {"allowed", "lost", "undo"} \subseteq P
  OBVIOUS
<1>c. \A c \in Int : /\ IsFiniteSet(Later(P, c)) /\ Cardinality(Later(P, c)) \in Nat
                     /\ Cardinality(Above(c)) \in Nat
  BY <1>0, <1>p, FiniteCounts
<1>e. Cardinality({}) = 0 BY FS_EmptySet
<1> HIDE DEF P
<1>1. ASSUME Tick, ~overlapped' PROVE OneAtATime'
  <2>1. /\ pc' = pc /\ now_ms' = now_ms /\ expires' = expires /\ clock' = clock + 1
        /\ ~overlapped /\ zset' \subseteq zset
        /\ clock' < expires' => zset' = zset
        /\ zset' = zset \/ zset' = {}
    BY <1>1 DEF Tick
  <2>2. \A s : Entry(s)' = Entry(s) BY <2>1 DEF Entry
  <2>3. Fewer'
    <3> SUFFICES ASSUME NEW c \in Int PROVE (Cardinality(Above(c)) <= Cardinality(Later(P, c)))'
      OBVIOUS
    <3>1. Later(P, c)' = Later(P, c) BY <2>1 DEF Later
    <3>2. Cardinality(Above(c)) <= Cardinality(Later(P, c)) BY <1>0, <2>1 DEF OneAtATime, P
    <3>3. CASE zset' = zset
      <4>1. Above(c)' = Above(c) BY <3>3 DEF Above
      <4>2. QED BY <3>1, <3>2, <4>1
    <3>4. CASE zset' = {}
      <4>1. Above(c)' = {} BY <3>4 DEF Above
      <4>2. QED BY <1>c, <1>e, <3>1, <4>1
    <3>5. QED BY <2>1, <3>3, <3>4
  <2>4. clock \in Nat /\ expires \in Nat BY <1>0 DEF RateTypes
  <2>5. clock' < expires' => clock < expires BY <2>1, <2>4
  <2>6. \A r \in Requests : pc[r] = "undo" => clock' >= expires' \/ Entry(r)' \in zset'
    BY <1>0, <2>1, <2>2, <2>4, <2>5 DEF OneAtATime
  <2>7. \A r \in Requests : pc[r] = "undo" => zset' = {} \/ Entry(r)' \in zset'
    BY <1>0, <2>1, <2>2 DEF OneAtATime
  <2>8. \A r \in Requests : pc[r] = "undo" => clock' >= expires' \/ Cardinality(zset') > 1
    BY <1>0, <2>1, <2>4, <2>5 DEF OneAtATime
  <2>9. \A r \in Requests : pc[r] = "oldest" => clock' >= expires' \/ zset' # {}
    BY <1>0, <2>1, <2>4, <2>5 DEF OneAtATime
  <2>10. \A r \in Requests, m \in zset' : pc[r] \notin Settled => m.score <= now_ms[r]
    BY <1>0, <2>1 DEF OneAtATime
  <2>11. \A r, s \in Requests : pc[r] \notin Settled /\ pc[s] \notin Settled => r = s
    BY <1>0, <2>1 DEF OneAtATime
  <2>12. QED BY <2>1, <2>3, <2>6, <2>7, <2>8, <2>9, <2>10, <2>11 DEF OneAtATime, P
<1>2. ASSUME NEW r \in Requests, ReadClock(r), ~overlapped' PROVE OneAtATime'
  <2>1. /\ pc[r] = "new" /\ pc'[r] = "check" /\ now_ms'[r] = clock
        /\ zset' = zset /\ ~overlapped
        /\ \A s \in Requests : s # r => pc'[s] = pc[s] /\ now_ms'[s] = now_ms[s]
        /\ \A s \in Requests : pc[s] \in Settled
    BY <1>0, <1>2 DEF ReadClock, RateTypes
  <2>2. \A m \in zset' : m.score <= now_ms'[r]
    BY <1>0, <2>1 DEF EntriesAreOwned, Entry, RateTypes, Entries
  <2>3. Fewer'
    <3> SUFFICES ASSUME NEW c \in Int PROVE (Cardinality(Above(c)) <= Cardinality(Later(P, c)))'
      OBVIOUS
    <3>1. Later(P, c)' = Later(P, c) BY <1>p, <2>1 DEF Later
    <3>2. Above(c)' = Above(c) BY <2>1 DEF Above
    <3>3. Cardinality(Above(c)) <= Cardinality(Later(P, c)) BY <1>0, <2>1 DEF OneAtATime, P
    <3>4. QED BY <3>1, <3>2, <3>3
  <2>4. \A s \in Requests : pc'[s] \notin Settled => s = r BY <2>1
  <2>5. \A s \in Requests : pc'[s] # "undo" /\ pc'[s] # "oldest" BY <2>1 DEF Settled
  <2>6. QED BY <2>2, <2>3, <2>4, <2>5 DEF OneAtATime, P
<1>3. ASSUME NEW r \in Requests, Check(r) \/ LoseReply(r), ~overlapped' PROVE OneAtATime'
  <2>1. /\ pc[r] = "check" /\ zset' = InWindow(r) \cup {Entry(r)} /\ now_ms' = now_ms /\ ~overlapped
        /\ (\A s \in Requests : s # r => pc'[s] = pc[s]) /\ pc'[r] \in {"undo", "allowed", "lost"}
        /\ pc'[r] = "undo" => Full(r)
    BY <1>0, <1>3, Entering
  <2>2. \A s \in Requests : pc'[s] \notin Settled => s = r
    BY <1>0, <2>1 DEF OneAtATime, Settled
  <2>3. Entry(r)' = Entry(r) /\ Entry(r).score = now_ms[r] /\ now_ms[r] \in Nat
    BY <1>0, <2>1 DEF Entry, RateTypes
  <2>4. \A m \in zset' : m.score <= now_ms'[r]
    <3>1. \A m \in zset : m.score <= now_ms[r] BY <1>0, <2>1 DEF OneAtATime, Settled
    <3>2. QED BY <2>1, <2>3, <3>1 DEF InWindow
  <2>5. pc'[r] = "undo" => Cardinality(zset') > 1
    <3>1. InWindow(r) \subseteq zset BY DEF InWindow
    <3>2. IsFiniteSet(InWindow(r)) BY <1>0, <3>1, FS_Subset DEF EntriesAreOwned
    <3>3. Entry(r).request = r BY DEF Entry
    <3>4. Entry(r) \notin InWindow(r) BY <1>0, <2>1, <3>1, <3>3 DEF EntriesAreOwned
    <3>5. Cardinality(zset') = Cardinality(InWindow(r)) + 1 /\ Cardinality(InWindow(r)) \in Nat
      BY <2>1, <3>2, <3>4, CountOne
    <3>6. QED BY <2>1, <3>5, RateNumbers DEF Full
  <2>6. Fewer'
    <3> SUFFICES ASSUME NEW c \in Int PROVE (Cardinality(Above(c)) <= Cardinality(Later(P, c)))'
      OBVIOUS
    <3> DEFINE d == IF now_ms[r] > c THEN 1 ELSE 0
    <3>1. Cardinality(Later(P, c)') = Cardinality(Later(P, c)) + d
      BY <1>3, <1>p, <2>1, CheckCounts
    <3>2. Cardinality(Above(c)') <= Cardinality(Above(c)) + d
      BY <1>3, <1>p, CheckCounts
    <3>3. Cardinality(Above(c)) <= Cardinality(Later(P, c)) BY <1>0, <2>1 DEF OneAtATime, P
    <3>4. IsFiniteSet(Above(c)') /\ Cardinality(Above(c)') \in Nat
      <4>1. EntriesAreOwned' BY OwnedKept
      <4>2. Above(c)' \subseteq zset' BY DEF Above
      <4>3. QED BY <4>1, <4>2, FS_Subset, FS_CardinalityType DEF EntriesAreOwned
    <3>5. d \in Nat OBVIOUS
    <3> HIDE DEF d
    <3>6. QED BY <1>c, <3>1, <3>2, <3>3, <3>4, <3>5
  <2>7. \A s \in Requests : pc'[s] # "oldest" BY <2>1, <2>2 DEF Settled
  <2>8. \A s \in Requests : pc'[s] = "undo" => s = r BY <2>2 DEF Settled
  <2>9. Entry(r)' \in zset' BY <2>1, <2>3
  <2>10. QED BY <2>2, <2>4, <2>5, <2>6, <2>7, <2>8, <2>9 DEF OneAtATime, P
<1>4. ASSUME NEW r \in Requests, Undo(r), ~overlapped' PROVE OneAtATime'
  <2>1. /\ pc[r] = "undo" /\ pc'[r] = "oldest" /\ now_ms' = now_ms /\ ~overlapped /\ zset' \subseteq zset
        /\ clock' = clock /\ expires' = expires
        /\ \A s \in Requests : s # r => pc'[s] = pc[s]
    BY <1>0, <1>4 DEF Undo, RateTypes
  <2>2. \A s \in Requests : pc'[s] \notin Settled => s = r
    BY <1>0, <2>1 DEF OneAtATime, Settled
  <2>3. \A m \in zset' : m.score <= now_ms'[r]
    BY <1>0, <2>1 DEF OneAtATime, Settled
  <2>4. clock' >= expires' \/ zset' # {}
    <3>1. clock >= expires \/ Cardinality(zset) > 1 BY <1>0, <2>1 DEF OneAtATime
    <3>2. Cardinality(zset) > 1 => zset # {} BY <1>e
    <3>3. zset # {} => Cardinality(zset') = Cardinality(zset) - 1
      BY <1>4, <1>p, 0 \in Int, "undo" \in P, UndoTakesOne
    <3>4. Cardinality(zset) \in Nat BY <1>0, FS_CardinalityType DEF EntriesAreOwned
    <3>5. Cardinality(zset) > 1 => Cardinality(zset') # 0 BY <3>2, <3>3, <3>4
    <3>6. QED BY <1>e, <2>1, <3>1, <3>5
  <2>5. Fewer'
    <3> SUFFICES ASSUME NEW c \in Int PROVE (Cardinality(Above(c)) <= Cardinality(Later(P, c)))'
      OBVIOUS
    <3> DEFINE d == IF now_ms[r] > c THEN 1 ELSE 0
    <3>1. /\ Cardinality(Later(P, c)') = Cardinality(Later(P, c)) - d
          /\ zset # {} => Cardinality(Above(c)') = Cardinality(Above(c)) - d
          /\ zset = {} => zset' = {}
      BY <1>4, <1>p, <2>1, UndoCounts, UndoTakesOne
    <3>2. Cardinality(Above(c)) <= Cardinality(Later(P, c)) BY <1>0, <2>1 DEF OneAtATime, P
    <3>3. CASE zset # {}
      <4>1. d \in Nat OBVIOUS
      <4> HIDE DEF d
      <4>2. QED BY <1>c, <3>1, <3>2, <3>3, <4>1
    <3>4. CASE zset = {}
      <4>1. Above(c)' = {} BY <3>1, <3>4 DEF Above
      <4>2. EntriesAreOwned' BY OwnedKept
      <4>3. Later(P, c)' \subseteq Started' BY <1>p DEF Later, Started
      <4>4. Cardinality(Later(P, c)') \in Nat
        BY <4>2, <4>3, FS_Subset, FS_CardinalityType DEF EntriesAreOwned
      <4>5. QED BY <1>e, <4>1, <4>4
    <3>5. QED BY <3>3, <3>4
  <2>6. \A s \in Requests : pc'[s] # "undo" BY <2>1, <2>2 DEF Settled
  <2>7. \A s \in Requests : pc'[s] = "oldest" => s = r BY <2>2 DEF Settled
  <2>8. QED BY <2>2, <2>3, <2>4, <2>5, <2>6, <2>7 DEF OneAtATime, P
<1>5. ASSUME NEW r \in Requests, Oldest(r) \/ Score(r) \/ Die(r) \/ CheckRaises(r), ~overlapped'
      PROVE  OneAtATime'
  <2>1. /\ pc[r] \in {"check", "undo", "oldest", "score"}
        /\ pc'[r] \in {"error", "score", "denied", "lost"} /\ (pc[r] = "undo" => pc'[r] = "lost")
        /\ now_ms' = now_ms /\ ~overlapped /\ zset' = zset
        /\ \A s \in Requests : s # r => pc'[s] = pc[s]
    BY <1>0, <1>5 DEF Oldest, Score, Die, CheckRaises, RateTypes
  <2>2. \A s \in Requests : pc'[s] \notin Settled => s = r
    BY <1>0, <2>1 DEF OneAtATime, Settled
  <2>3. \A m \in zset' : m.score <= now_ms'[r]
    BY <1>0, <2>1 DEF OneAtATime, Settled
  <2>4. Fewer'
    <3> SUFFICES ASSUME NEW c \in Int PROVE (Cardinality(Above(c)) <= Cardinality(Later(P, c)))'
      OBVIOUS
    <3>1. Above(c)' = Above(c) BY <2>1 DEF Above
    <3>2. Later(P, c) \subseteq Later(P, c)' BY <2>1 DEF Later, P
    <3>3. EntriesAreOwned' BY OwnedKept
    <3>4. Later(P, c)' \subseteq Started' BY <1>p DEF Later, Started
    <3>5. IsFiniteSet(Later(P, c)') BY <3>3, <3>4, FS_Subset DEF EntriesAreOwned
    <3>6. Cardinality(Later(P, c)') \in Nat /\ Cardinality(Later(P, c)) <= Cardinality(Later(P, c)')
      BY <3>2, <3>5, FS_Subset, FS_CardinalityType
    <3>7. Cardinality(Above(c)) <= Cardinality(Later(P, c)) BY <1>0, <2>1 DEF OneAtATime, P
    <3>8. QED BY <1>c, <3>1, <3>6, <3>7
  <2>5. \A s \in Requests : pc'[s] # "undo" /\ pc'[s] # "oldest" BY <2>1, <2>2 DEF Settled
  <2>6. QED BY <2>2, <2>3, <2>4, <2>5 DEF OneAtATime, P
<1>6. CASE UNCHANGED vars
  BY <1>0, <1>6 DEF vars, OneAtATime, Entry, Above, Later
<1>7. QED BY <1>1, <1>2, <1>3, <1>4, <1>5, <1>6 DEF Next, OneAtATime

LEMMA EntriesLastKept ==
  ASSUME RateIInv, [Next]_vars, NEW W \in Nat, W > 0, \A r \in Requests : Window(r) = W,
         Covered(W), NoneMissing(W), FirstWindow(W)
  PROVE  (Covered(W) /\ NoneMissing(W) /\ FirstWindow(W))'
<1> DEFINE P == {"allowed", "undo"}
<1> DEFINE Held(c) == Cardinality(Above(c)) >= Cardinality(Later(P, c))
<1> DEFINE InAll == Cardinality(zset) >= Cardinality(Later(P, 0))
<1>0. RateTypes /\ EntriesAreOwned /\ OneAtATime BY DEF RateIInv
<1>t. /\ clock \in Nat /\ expires \in Nat /\ Second \in Nat /\ Second > 0
      /\ \A s \in Requests : now_ms[s] \in Nat
  BY <1>0, RateNumbers DEF RateTypes
<1>v. /\ expires <= clock + W + Second
      /\ \A s \in Requests : pc[s] \notin {"new", "check", "error"} => now_ms[s] + W + Second <= expires
      /\ ~overlapped => \A s \in Requests : pc[s] = "check" => now_ms[s] + W + Second >= expires
  BY DEF Covered
<1>p. /\ "new" \notin P /\ "check" \notin P /\ "oldest" \notin P /\ "error" \notin P /\ "lost" \notin P
      /\ {"allowed", "undo"} \subseteq P /\ "undo" \in P
  OBVIOUS
<1>n. ~overlapped /\ clock < expires => \A c \in Int : c + W + W + Second >= expires => Held(c)
  BY DEF NoneMissing
<1>f. clock <= W => InAll BY DEF FirstWindow
<1>c. \A c \in Int : /\ IsFiniteSet(Later(P, c)) /\ Cardinality(Later(P, c)) \in Nat
                     /\ Cardinality(Above(c)) \in Nat /\ Cardinality(zset) \in Nat
  BY <1>0, <1>p, FiniteCounts
<1>d. \A c \in Int : Cardinality(Above(c)') \in Nat /\ IsFiniteSet(Later(P, c)')
  <2>1. EntriesAreOwned' BY OwnedKept
  <2>2. SUFFICES ASSUME NEW c \in Int
        PROVE  Cardinality(Above(c)') \in Nat /\ IsFiniteSet(Later(P, c)')
    OBVIOUS
  <2>3. Above(c)' \subseteq zset' /\ Later(P, c)' \subseteq Started'
    BY <1>p DEF Above, Later, Started
  <2>4. QED BY <2>1, <2>3, FS_Subset, FS_CardinalityType DEF EntriesAreOwned
<1>e. Cardinality({}) = 0 BY FS_EmptySet
<1>o. \A c \in Int : (\A s \in Requests : pc[s] \in P => now_ms[s] <= c) => Cardinality(Later(P, c)) = 0
  <2>1. SUFFICES ASSUME NEW c \in Int, \A s \in Requests : pc[s] \in P => now_ms[s] <= c
        PROVE  Cardinality(Later(P, c)) = 0
    OBVIOUS
  <2>2. Later(P, c) = {} BY <1>t, <2>1 DEF Later
  <2>3. QED BY <1>e, <2>2
<1>q. ASSUME Covered(W)', (~overlapped /\ clock < expires)' => \A c \in Int : c + W + W + Second >= expires' => Held(c)',
             (clock <= W)' => InAll'
      PROVE  (Covered(W) /\ NoneMissing(W) /\ FirstWindow(W))'
  BY <1>q DEF NoneMissing, FirstWindow
<1> HIDE DEF P
<1>1. CASE Tick
  <2>1. /\ pc' = pc /\ now_ms' = now_ms /\ expires' = expires /\ clock' = clock + 1 /\ overlapped' = overlapped
        /\ zset' = IF clock + 1 < expires THEN zset ELSE {}
    BY <1>1 DEF Tick
  <2>2. Covered(W)' BY <1>t, <1>v, <2>1 DEF Covered
  <2>3. \A c \in Int : Later(P, c)' = Later(P, c) BY <2>1 DEF Later
  <2>4. zset' = zset => \A c \in Int : Above(c)' = Above(c) BY DEF Above
  <2>5. ASSUME (~overlapped /\ clock < expires)', NEW c \in Int, c + W + W + Second >= expires'
        PROVE  Held(c)'
    BY <1>n, <1>t, <2>1, <2>3, <2>4, <2>5
  <2>6. ASSUME (clock <= W)' PROVE InAll'
    <3>1. CASE clock + 1 < expires BY <1>f, <1>t, <2>1, <2>3, <2>6, <3>1
    <3>2. CASE ~(clock + 1 < expires)
      <4>1. \A s \in Requests : pc[s] \notin P
        <5> SUFFICES ASSUME NEW s \in Requests, pc[s] \in P PROVE FALSE
          OBVIOUS
        <5>1. pc[s] \notin {"new", "check", "error"} BY <1>p
        <5>2. now_ms[s] + W + Second <= expires BY <1>v, <5>1
        <5>3. now_ms[s] > 0 BY <1>0, <5>1 DEF EntriesAreOwned
        <5>4. QED BY <1>t, <2>1, <2>6, <3>2, <5>2, <5>3
      <4>2. Cardinality(Later(P, 0)) = 0 BY <1>o, <4>1
      <4>3. zset' = {} BY <2>1, <3>2
      <4>4. QED BY <1>e, <2>3, <4>2, <4>3
    <3>3. QED BY <3>1, <3>2
  <2>7. QED BY <1>q, <2>2, <2>5, <2>6
<1>2. ASSUME NEW r \in Requests, ReadClock(r) PROVE (Covered(W) /\ NoneMissing(W) /\ FirstWindow(W))'
  <2>1. /\ pc[r] = "new" /\ pc'[r] = "check" /\ now_ms'[r] = clock
        /\ zset' = zset /\ clock' = clock /\ expires' = expires /\ (~overlapped' => ~overlapped)
        /\ \A s \in Requests : s # r => pc'[s] = pc[s] /\ now_ms'[s] = now_ms[s]
    BY <1>0, <1>2 DEF ReadClock, RateTypes
  <2>2. Covered(W)'
    <3>1. expires' <= clock' + W + Second BY <1>v, <2>1
    <3>2. \A s \in Requests : pc'[s] \notin {"new", "check", "error"} => now_ms'[s] + W + Second <= expires'
      BY <1>v, <2>1
    <3>3. ~overlapped' => \A s \in Requests : pc'[s] = "check" => now_ms'[s] + W + Second >= expires'
      BY <1>t, <1>v, <2>1
    <3>4. QED BY <3>1, <3>2, <3>3 DEF Covered
  <2>3. \A c \in Int : Later(P, c)' = Later(P, c) BY <1>p, <2>1 DEF Later
  <2>4. \A c \in Int : Above(c)' = Above(c) BY <2>1 DEF Above
  <2>5. ASSUME (~overlapped /\ clock < expires)', NEW c \in Int, c + W + W + Second >= expires'
        PROVE  Held(c)'
    BY <1>n, <2>1, <2>3, <2>4, <2>5
  <2>6. ASSUME (clock <= W)' PROVE InAll' BY <1>f, <2>1, <2>3, <2>6
  <2>7. QED BY <1>q, <2>2, <2>5, <2>6
<1>3. ASSUME NEW r \in Requests, Check(r) \/ LoseReply(r)
      PROVE  (Covered(W) /\ NoneMissing(W) /\ FirstWindow(W))'
  <2>1. /\ pc[r] = "check" /\ zset' = InWindow(r) \cup {Entry(r)} /\ now_ms' = now_ms
        /\ overlapped' = overlapped /\ clock' = clock /\ expires' = clock + W + Second
        /\ (\A s \in Requests : s # r => pc'[s] = pc[s]) /\ pc'[r] \in {"undo", "allowed", "lost"}
        /\ now_ms[r] <= clock /\ Window(r) = W
    BY <1>0, <1>3, Entering DEF EntriesAreOwned
  <2>2. Covered(W)'
    <3>1. \A s \in Requests : pc'[s] \notin {"new", "check", "error"} => now_ms'[s] + W + Second <= expires'
      <4> SUFFICES ASSUME NEW s \in Requests, pc'[s] \notin {"new", "check", "error"}
          PROVE  now_ms'[s] + W + Second <= expires'
        OBVIOUS
      <4>1. CASE s = r BY <1>t, <2>1, <4>1
      <4>2. CASE s # r BY <1>t, <1>v, <2>1, <4>2
      <4>3. QED BY <4>1, <4>2
    <3>2. ~overlapped' => \A s \in Requests : pc'[s] # "check"
      BY <1>0, <2>1 DEF OneAtATime, Settled
    <3>3. expires' <= clock' + W + Second BY <1>t, <2>1
    <3>4. QED BY <3>1, <3>2, <3>3 DEF Covered
  <2>3. ASSUME ~overlapped', NEW c \in Int, c + W + W + Second >= expires'
        PROVE  Held(c)'
    <3> DEFINE d == IF now_ms[r] > c THEN 1 ELSE 0
               A == {m \in InWindow(r) : m.score > c}
    <3>1. /\ Cardinality(Later(P, c)') \in {Cardinality(Later(P, c)), Cardinality(Later(P, c)) + d}
          /\ Cardinality(Above(c)') = Cardinality(A) + d
          /\ Cardinality(A) \in Nat
      BY <1>3, <1>p, CheckCounts
    <3>2. c >= now_ms[r] - W BY <1>t, <2>1, <2>3
    <3>3. A = Above(c)
      <4>1. \A m \in zset : m.score \in Nat BY <1>0 DEF RateTypes, Entries
      <4>2. QED BY <1>t, <2>1, <3>2, <4>1 DEF Above, InWindow
    <3>4. d \in Nat OBVIOUS
    <3> HIDE DEF A, d
    <3>5. CASE clock < expires
      <4>1. c + W + W + Second >= expires BY <1>t, <1>v, <2>1, <2>3
      <4>2. Held(c) BY <1>n, <2>1, <2>3, <3>5, <4>1
      <4>3. QED BY <1>c, <3>1, <3>3, <3>4, <4>2
    <3>6. CASE ~(clock < expires)
      <4>1. \A s \in Requests : pc[s] \in P => now_ms[s] <= c
        <5> SUFFICES ASSUME NEW s \in Requests, pc[s] \in P PROVE now_ms[s] <= c
          OBVIOUS
        <5>1. now_ms[s] + W + Second <= expires BY <1>p, <1>v
        <5>2. QED BY <1>t, <2>1, <2>3, <3>6, <5>1
      <4>2. Cardinality(Later(P, c)) = 0 BY <1>o, <4>1
      <4>3. QED BY <3>1, <3>4, <4>2
    <3>7. QED BY <3>5, <3>6
  <2>4. ASSUME (clock <= W)' PROVE InAll'
    <3>1. now_ms[r] > 0 BY <1>0, <2>1 DEF EntriesAreOwned
    <3>2. \A m \in zset : m.score > 0 BY <1>0 DEF EntriesAreOwned, RateTypes, Entries, Entry
    <3>3. now_ms[r] - W <= 0 BY <1>t, <2>1, <2>4
    <3>4. \A m \in zset : m.score \in Nat /\ m.request \in Requests BY <1>0 DEF RateTypes, Entries
    <3>5. InWindow(r) = zset BY <1>t, <2>1, <3>2, <3>3, <3>4 DEF InWindow
    <3>6. Entry(r).request = r BY DEF Entry
    <3>7. Entry(r) \notin zset BY <1>0, <2>1, <3>6 DEF EntriesAreOwned
    <3>8. Cardinality(zset') = Cardinality(zset) + 1
      <4>1. IsFiniteSet(zset) BY <1>0 DEF EntriesAreOwned
      <4>2. Cardinality(zset \cup {Entry(r)}) = Cardinality(zset) + 1 BY <3>7, <4>1, CountOne
      <4>3. QED BY <2>1, <3>5, <4>2
    <3>9. Cardinality(Later(P, 0)') \in {Cardinality(Later(P, 0)), Cardinality(Later(P, 0)) + 1}
      <4>1. 0 \in Int OBVIOUS
      <4>2. Cardinality(Later(P, 0)')
              \in {Cardinality(Later(P, 0)), Cardinality(Later(P, 0)) + (IF now_ms[r] > 0 THEN 1 ELSE 0)}
        BY <1>3, <1>p, <4>1, CheckCounts
      <4>3. QED BY <3>1, <4>2
    <3>10. Cardinality(zset) >= Cardinality(Later(P, 0)) BY <1>f, <2>1, <2>4
    <3>11. Cardinality(zset) \in Nat /\ Cardinality(Later(P, 0)) \in Nat BY <1>c
    <3>12. QED BY <3>8, <3>9, <3>10, <3>11
  <2>5. QED BY <1>q, <2>2, <2>3, <2>4
<1>4. ASSUME NEW r \in Requests, Undo(r) PROVE (Covered(W) /\ NoneMissing(W) /\ FirstWindow(W))'
  <2>1. /\ pc[r] = "undo" /\ pc'[r] = "oldest" /\ now_ms' = now_ms /\ overlapped' = overlapped
        /\ clock' = clock /\ expires' = expires
        /\ \A s \in Requests : s # r => pc'[s] = pc[s]
    BY <1>0, <1>4 DEF Undo, RateTypes
  <2>2. Covered(W)' BY <1>v, <2>1 DEF Covered
  <2>3. ASSUME (~overlapped /\ clock < expires)', NEW c \in Int, c + W + W + Second >= expires'
        PROVE  Held(c)'
    <3> DEFINE d == IF now_ms[r] > c THEN 1 ELSE 0
    <3>1. zset # {}
      <4>1. clock >= expires \/ Entry(r) \in zset BY <1>0, <2>1, <2>3 DEF OneAtATime
      <4>2. QED BY <1>t, <2>1, <2>3, <4>1
    <3>2. /\ Cardinality(Later(P, c)') = Cardinality(Later(P, c)) - d
          /\ Cardinality(Above(c)') = Cardinality(Above(c)) - d
      BY <1>4, <1>p, <2>1, <2>3, <3>1, UndoCounts, UndoTakesOne
    <3>3. Held(c) BY <1>n, <2>1, <2>3
    <3>4. d \in Nat OBVIOUS
    <3> HIDE DEF d
    <3>5. QED BY <1>c, <3>2, <3>3, <3>4
  <2>4. ASSUME (clock <= W)' PROVE InAll'
    <3>1. InAll BY <1>f, <2>1, <2>4
    <3>2. now_ms[r] > 0 BY <1>0, <2>1 DEF EntriesAreOwned
    <3>3. /\ Cardinality(Later(P, 0)') = Cardinality(Later(P, 0)) - 1
          /\ zset # {} => Cardinality(zset') = Cardinality(zset) - 1
      <4>1. 0 \in Int OBVIOUS
      <4>2. /\ Cardinality(Later(P, 0)') = Cardinality(Later(P, 0)) - (IF now_ms[r] > 0 THEN 1 ELSE 0)
            /\ zset # {} => Cardinality(zset') = Cardinality(zset) - 1
        BY <1>4, <1>p, <4>1, UndoTakesOne
      <4>3. QED BY <3>2, <4>2
    <3>4. zset # {}
      <4>1. r \in Later(P, 0) BY <1>p, <2>1, <3>2 DEF Later
      <4>2. IsFiniteSet(Later(P, 0)) BY <1>c
      <4>3. Cardinality(Later(P, 0)) # 0 BY <4>1, <4>2, FS_EmptySet
      <4>4. Cardinality(zset) # 0
        <5>1. Cardinality(Later(P, 0)) \in Nat /\ Cardinality(zset) \in Nat BY <1>c
        <5>2. QED BY <3>1, <4>3, <5>1
      <4>5. QED BY <1>e, <4>4
    <3>5. QED BY <1>c, <3>1, <3>3, <3>4
  <2>5. QED BY <1>q, <2>2, <2>3, <2>4
<1>5. ASSUME NEW r \in Requests, Oldest(r) \/ Score(r) \/ Die(r) \/ CheckRaises(r)
      PROVE  (Covered(W) /\ NoneMissing(W) /\ FirstWindow(W))'
  <2>1. /\ pc'[r] \in {"error", "score", "denied", "lost"} /\ (pc[r] = "check" => pc'[r] = "error")
        /\ pc[r] \in {"check", "undo", "oldest", "score"}
        /\ now_ms' = now_ms /\ overlapped' = overlapped /\ zset' = zset
        /\ clock' = clock /\ expires' = expires
        /\ \A s \in Requests : s # r => pc'[s] = pc[s]
    BY <1>0, <1>5 DEF Oldest, Score, Die, CheckRaises, RateTypes
  <2>2. Covered(W)' BY <1>v, <2>1 DEF Covered
  <2>3. \A c \in Int : Above(c)' = Above(c) BY <2>1 DEF Above
  <2>4. \A c \in Int : Cardinality(Later(P, c)') <= Cardinality(Later(P, c)) /\ Cardinality(Later(P, c)') \in Nat
    <3> SUFFICES ASSUME NEW c \in Int
        PROVE  Cardinality(Later(P, c)') <= Cardinality(Later(P, c)) /\ Cardinality(Later(P, c)') \in Nat
      OBVIOUS
    <3>1. Later(P, c)' \subseteq Later(P, c)
      <4>1. pc'[r] \notin P BY <2>1 DEF P
      <4>2. QED BY <2>1, <4>1 DEF Later
    <3>2. IsFiniteSet(Later(P, c)) BY <1>c
    <3>3. QED BY <3>1, <3>2, FS_Subset, FS_CardinalityType
  <2>5. ASSUME (~overlapped /\ clock < expires)', NEW c \in Int, c + W + W + Second >= expires'
        PROVE  Held(c)'
    <3>1. Held(c) BY <1>n, <2>1, <2>5
    <3>2. QED BY <1>c, <2>3, <2>4, <3>1
  <2>6. ASSUME (clock <= W)' PROVE InAll'
    <3>1. InAll BY <1>f, <2>1, <2>6
    <3>2. QED BY <1>c, <2>1, <2>4, <3>1
  <2>7. QED BY <1>q, <2>2, <2>5, <2>6
<1>6. CASE UNCHANGED vars
  BY <1>6 DEF vars, Covered, NoneMissing, FirstWindow, Above, Later
<1>7. QED BY <1>1, <1>2, <1>3, <1>4, <1>5, <1>6 DEF Next

LEMMA RateStep == RateIInv /\ [Next]_vars => RateIInv'
<1> SUFFICES ASSUME RateIInv, [Next]_vars PROVE RateIInv'
  OBVIOUS
<1>1. RateTypes' /\ EntriesAreOwned' /\ OneAtATime'
  BY RateTypesKept, OwnedKept, OneAtATimeKept DEF RateIInv
<1>2. ASSUME OneWindow PROVE EntriesLast'
  <2> SUFFICES ASSUME NEW r \in Requests
      PROVE  (Covered(Window(r)) /\ NoneMissing(Window(r)) /\ FirstWindow(Window(r)))'
    BY DEF EntriesLast
  <2>1. EntriesLast BY <1>2 DEF RateIInv
  <2>2. Window(r) \in Nat /\ Window(r) > 0 /\ \A s \in Requests : Window(s) = Window(r)
    BY <1>2, RateNumbers
  <2>3. Covered(Window(r)) /\ NoneMissing(Window(r)) /\ FirstWindow(Window(r))
    BY <2>1 DEF EntriesLast
  <2>4. QED BY <2>2, <2>3, EntriesLastKept
<1>3. QED BY <1>1, <1>2 DEF RateIInv, OneWindow

LEMMA RateInvariant == Spec => []RateIInv
BY RateInitially, RateStep, PTL DEF Spec

\* Which action takes a request from one place to another.
LEMMA RequestMoves ==
  ASSUME RateTypes, [Next]_vars, NEW r \in Requests
  PROVE  /\ pc[r] = "check" /\ pc'[r] \in {"undo", "allowed"} => Check(r)
         /\ pc[r] = "score" /\ pc'[r] = "denied" => Score(r)
         /\ pc[r] = "oldest" /\ pc'[r] = "error" => Oldest(r)
<1> USE DEF RateTypes
<1>1. CASE Tick BY <1>1 DEF Tick
<1>2. ASSUME NEW s \in Requests, ReadClock(s) \/ Undo(s) PROVE pc[r] = pc'[r] \/ pc[r] \in {"new", "undo"}
  BY <1>2 DEF ReadClock, Undo
<1>3. ASSUME NEW s \in Requests, Check(s) PROVE pc[r] = pc'[r] \/ (pc[r] = "check" /\ r = s)
  BY <1>3 DEF Check, Enter
<1>4. ASSUME NEW s \in Requests, Oldest(s) PROVE pc[r] = pc'[r] \/ (pc[r] = "oldest" /\ r = s)
  BY <1>4 DEF Oldest
<1>5. ASSUME NEW s \in Requests, Score(s) PROVE pc[r] = pc'[r] \/ (pc[r] = "score" /\ r = s)
  BY <1>5 DEF Score
<1>6. ASSUME NEW s \in Requests, Die(s) PROVE pc[r] = pc'[r] \/ (pc[r] # "check" /\ pc'[r] = "lost")
  BY <1>6 DEF Die
<1>7. ASSUME NEW s \in Requests, LoseReply(s) \/ CheckRaises(s)
      PROVE  pc[r] = pc'[r] \/ (pc[r] = "check" /\ pc'[r] \in {"lost", "error"})
  BY <1>7 DEF LoseReply, Enter, CheckRaises
<1>8. CASE UNCHANGED vars BY <1>8 DEF vars
<1>9. QED BY <1>1, <1>2, <1>3, <1>4, <1>5, <1>6, <1>7, <1>8 DEF Next

\* A request is denied only when its window is full of admitted requests and of entries that
\* lost requests could not take back: no entry of the sorted set stands for anything else.
THEOREM DenialsAreEarned == Spec => DeniedWhenFull
<1> DEFINE Earned(r) ==
      pc[r] = "check" /\ pc'[r] = "undo" /\ ~overlapped
      => Cardinality(Recent(Ended("allowed") \cup Ended("lost"), r)) >= LimitOf[r]
<1>1. ASSUME RateIInv, [Next]_vars, NEW r \in Requests PROVE Earned(r)
  <2> SUFFICES ASSUME pc[r] = "check", pc'[r] = "undo", ~overlapped
      PROVE  Cardinality(Recent(Ended("allowed") \cup Ended("lost"), r)) >= LimitOf[r]
    OBVIOUS
  <2> DEFINE c == now_ms[r] - Window(r)
             P == {"allowed", "lost", "undo"}
  <2>1. RateTypes /\ EntriesAreOwned /\ OneAtATime BY <1>1 DEF RateIInv
  <2>2. Check(r) BY <1>1, <2>1, RequestMoves
  <2>3. Full(r) BY <2>1, <2>2 DEF Check, RateTypes
  <2>4. c \in Int BY <2>1, RateNumbers DEF RateTypes
  <2>5. InWindow(r) = Above(c) BY DEF InWindow, Above
  <2>6. \A s \in Requests : pc[s] # "undo" BY <2>1 DEF OneAtATime, Settled
  <2>7. Recent(Ended("allowed") \cup Ended("lost"), r) = Later(P, c)
    BY <2>6 DEF Recent, Ended, Later
  <2> HIDE DEF c
  <2>8. Cardinality(Above(c)) <= Cardinality(Later(P, c)) BY <2>1, <2>4 DEF OneAtATime
  <2>9. Cardinality(Above(c)) \in Nat /\ Cardinality(Later(P, c)) \in Nat
    BY <2>1, FiniteCounts
  <2>10. Cardinality(Above(c)) >= LimitOf[r] BY <2>3, <2>5 DEF Full
  <2>11. LimitOf[r] \in Nat BY RateNumbers
  <2> HIDE DEF P
  <2>12. Cardinality(Later(P, c)) >= LimitOf[r] BY <2>8, <2>9, <2>10, <2>11
  <2>13. QED BY <2>7, <2>12
<1>2. RateIInv /\ [Next]_vars => [\A r \in Requests : Earned(r)]_vars BY <1>1
<1>3. QED BY <1>2, RateInvariant, PTL DEF Spec, DeniedWhenFull

\* A quotient is small when its dividend is.
LEMMA QuotientBound ==
  ASSUME NEW k \in Nat, k > 0, NEW w \in Nat, NEW n \in Int, n <= w * k
  PROVE  n \div k <= w
<1> DEFINE q == n \div k
<1>1. q \in Int /\ q * k <= n BY Z3
<1>2. w * k \in Nat OBVIOUS
<1>3. q * k <= w * k BY <1>1, <1>2
<1> HIDE DEF q
<1>4. \A d \in Nat : (w + 1 + d) * k = w * k + k + d * k OBVIOUS
<1>5. \A d \in Nat : d * k \in Nat OBVIOUS
<1>6. ASSUME q >= w + 1 PROVE FALSE
  <2>1. PICK d \in Nat : q = w + 1 + d BY <1>1, <1>6
  <2>2. QED BY <1>2, <1>3, <1>4, <1>5, <2>1
<1>7. q <= w BY <1>1, <1>6
<1>8. QED BY <1>7 DEF q

\* A denied request that no other overlaps waits at least a second and at most its window,
\* and finds an entry to compute that from unless the key expired meanwhile.
THEOREM DenialsAreAnswered == Spec => DenialIsAnswered
<1> DEFINE Answered(r) ==
      /\ pc[r] = "score" /\ pc'[r] = "denied" => retry_after'[r] \in 1 .. WindowOf[r]
      /\ pc[r] = "oldest" /\ pc'[r] = "error" => clock >= expires
<1>1. ASSUME RateIInv, [Next]_vars, NEW r \in Requests, ~overlapped PROVE Answered(r)
  <2>1. RateTypes /\ EntriesAreOwned /\ OneAtATime BY <1>1 DEF RateIInv
  <2>2. ASSUME pc[r] = "score", pc'[r] = "denied" PROVE retry_after'[r] \in 1 .. WindowOf[r]
    <3> DEFINE found == {m \in zset : m.request = oldest[r]}
    <3>1. Score(r) BY <1>1, <2>1, <2>2, RequestMoves
    <3>2. retry_after'[r] = IF found = {} THEN WindowOf[r] ELSE RetryAfter(r, CHOOSE m \in found : TRUE)
      BY <2>1, <3>1 DEF Score, RateTypes
    <3>3. WindowOf[r] \in 1 .. WindowOf[r] BY RateNumbers
    <3>4. ASSUME NEW m \in found PROVE RetryAfter(r, m) \in 1 .. WindowOf[r]
      <4>1. m.score <= now_ms[r] BY <1>1, <2>1, <2>2 DEF OneAtATime, Settled
      <4>2. m.score \in Nat /\ now_ms[r] \in Nat BY <2>1 DEF RateTypes, Entries
      <4> DEFINE n == m.score + Window(r) - now_ms[r]
      <4>3. Window(r) \in Nat /\ Window(r) = WindowOf[r] * Second BY RateNumbers DEF Window
      <4>4. n \in Int /\ n <= WindowOf[r] * Second BY <4>1, <4>2, <4>3
      <4> HIDE DEF n
      <4>5. n \div Second \in Int /\ n \div Second <= WindowOf[r]
        BY <4>4, RateNumbers, QuotientBound
      <4>6. RetryAfter(r, m) = AtLeastOne(n \div Second) BY DEF RetryAfter, n
      <4>7. QED BY <4>5, <4>6, RateNumbers DEF AtLeastOne
    <3>5. found # {} => (CHOOSE m \in found : TRUE) \in found OBVIOUS
    <3> HIDE DEF found
    <3>6. QED BY <3>2, <3>3, <3>4, <3>5
  <2>3. ASSUME pc[r] = "oldest", pc'[r] = "error" PROVE clock >= expires
    <3>1. Oldest(r) BY <1>1, <2>1, <2>3, RequestMoves
    <3>2. zset = {} BY <2>1, <2>3, <3>1 DEF Oldest, RateTypes
    <3>3. QED BY <1>1, <2>1, <2>3, <3>2 DEF OneAtATime
  <2>4. QED BY <2>2, <2>3
<1>2. RateIInv /\ [Next]_vars => [\A r \in Requests : ~overlapped => Answered(r)]_vars BY <1>1
<1>3. QED BY <1>2, RateInvariant, PTL DEF Spec, DenialIsAnswered

\* On a key whose routes have one window, as those of a user have, no request is admitted
\* into a full window: while requests do not overlap, and in the first window even when they do.
THEOREM AdmissionsAreBounded == ASSUME OneWindow PROVE Spec => AdmittedBelowLimit
<1> DEFINE Bounded(r) ==
      /\ pc[r] = "check" /\ pc'[r] = "allowed"
      /\ ~overlapped \/ clock <= Window(r)
      /\ clock <= now_ms[r] + Second
      => Cardinality(Recent(Ended("allowed"), r)) < LimitOf[r]
<1>1. ASSUME RateIInv, [Next]_vars, NEW r \in Requests PROVE Bounded(r)
  <2> SUFFICES ASSUME pc[r] = "check", pc'[r] = "allowed", ~overlapped \/ clock <= Window(r),
                      clock <= now_ms[r] + Second
      PROVE  Cardinality(Recent(Ended("allowed"), r)) < LimitOf[r]
    OBVIOUS
  <2> DEFINE W == Window(r)
             c == now_ms[r] - W
             P == {"allowed", "undo"}
  <2>1. RateTypes /\ EntriesAreOwned /\ OneAtATime BY <1>1 DEF RateIInv
  <2>2. Covered(W) /\ NoneMissing(W) /\ FirstWindow(W) BY <1>1 DEF RateIInv, EntriesLast
  <2>3. /\ clock \in Nat /\ expires \in Nat /\ Second \in Nat /\ Second > 0 /\ W \in Nat /\ c \in Int
        /\ \A s \in Requests : now_ms[s] \in Nat
        /\ LimitOf[r] \in Nat /\ LimitOf[r] > 0
    BY <2>1, RateNumbers DEF RateTypes
  <2>4. ~Full(r)
    <3>1. Check(r) BY <1>1, <2>1, RequestMoves
    <3>2. QED BY <2>1, <3>1 DEF Check, RateTypes
  <2>5. InWindow(r) = Above(c) /\ Recent(Ended("allowed"), r) = Later({"allowed"}, c)
    BY DEF InWindow, Above, Recent, Ended, Later
  <2>6. /\ IsFiniteSet(Later(P, c)) /\ Cardinality(Later(P, c)) \in Nat
        /\ IsFiniteSet(Later(P, 0)) /\ Cardinality(Later(P, 0)) \in Nat
        /\ Cardinality(Later({"allowed"}, c)) \in Nat
        /\ Cardinality(Above(c)) \in Nat /\ Cardinality(zset) \in Nat
    BY <2>1, FiniteCounts
  <2>7. Cardinality(Above(c)) < LimitOf[r] BY <2>3, <2>4, <2>5, <2>6 DEF Full
  <2>8. c = now_ms[r] - W OBVIOUS
  <2>9. Later({"allowed"}, c) \subseteq Later(P, c) BY DEF Later
  <2> HIDE DEF W, c
  <2>10. CASE ~overlapped /\ clock < expires
    <3>1. now_ms[r] + W + Second >= expires BY <2>2, <2>10 DEF Covered
    <3>2. c + W + W + Second >= expires BY <2>3, <2>8, <3>1
    <3>3. Cardinality(Above(c)) >= Cardinality(Later(P, c))
      BY <2>2, <2>3, <2>10, <3>2 DEF NoneMissing
    <3>4. Cardinality(Later({"allowed"}, c)) <= Cardinality(Later(P, c)) BY <2>6, <2>9, FS_Subset
    <3> HIDE DEF P
    <3>5. Cardinality(Later({"allowed"}, c)) < LimitOf[r] BY <2>3, <2>6, <2>7, <3>3, <3>4
    <3>6. QED BY <2>5, <3>5
  <2>11. CASE clock >= expires
    <3>1. ASSUME NEW s \in Requests, pc[s] = "allowed" PROVE now_ms[s] <= c
      <4>1. now_ms[s] + W + Second <= expires BY <2>2, <3>1 DEF Covered
      <4>2. QED BY <2>3, <2>8, <2>11, <4>1
    <3>2. Later({"allowed"}, c) = {} BY <2>3, <3>1 DEF Later
    <3>3. Cardinality({}) = 0 BY FS_EmptySet
    <3>4. QED BY <2>3, <2>5, <3>2, <3>3
  <2>12. CASE clock <= W
    <3>1. now_ms[r] <= clock BY <2>1 DEF EntriesAreOwned
    <3>2. c <= 0 BY <2>3, <2>8, <2>12, <3>1
    <3>3. \A m \in zset : m.score \in Nat /\ m.score > 0
      BY <2>1 DEF EntriesAreOwned, RateTypes, Entries, Entry
    <3>4. Above(c) = zset BY <2>3, <3>2, <3>3 DEF Above
    <3>5. \A s \in Requests : pc[s] = "allowed" => now_ms[s] > 0 BY <2>1 DEF EntriesAreOwned
    <3>6. Later({"allowed"}, c) \subseteq Later(P, 0) BY <3>5 DEF Later
    <3>7. Cardinality(Later({"allowed"}, c)) <= Cardinality(Later(P, 0)) BY <2>6, <3>6, FS_Subset
    <3>8. Cardinality(zset) >= Cardinality(Later(P, 0)) BY <2>2, <2>12 DEF FirstWindow
    <3>9. Cardinality(zset) < LimitOf[r] BY <2>7, <3>4
    <3> HIDE DEF P
    <3>10. Cardinality(Later({"allowed"}, c)) < LimitOf[r] BY <2>3, <2>6, <3>7, <3>8, <3>9
    <3>11. QED BY <2>5, <3>10
  <2>13. ~overlapped \/ clock <= W BY DEF W
  <2>14. clock < expires \/ clock >= expires BY <2>3
  <2>15. QED BY <2>10, <2>11, <2>12, <2>13, <2>14
<1>2. RateIInv /\ [Next]_vars => [\A r \in Requests : Bounded(r)]_vars BY <1>1
<1>3. QED BY <1>2, RateInvariant, PTL DEF Spec, AdmittedBelowLimit
=============================================================================
