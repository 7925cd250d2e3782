-------------------------- MODULE DbSessionsProofs --------------------------
(***************************************************************************)
(* The identity a transaction runs under, and what is durable, for any     *)
(* requests, routes, pool size and failing calls.  A session leaves its    *)
(* connection only with the end of a transaction, which resets the         *)
(* setting; each branch of a route commits all the rows that it writes.    *)
(***************************************************************************)
EXTENDS DbSessions, TLAPS

Types ==
  /\ DOMAIN script = Requests
  /\ at \in [Requests -> Nat]
  /\ answer \in [Requests -> {"new", "open", "ok", "error"}]
  /\ conn \in [Requests -> Connections \cup {NoConnection}]
  /\ setting \in [Connections -> Users \cup {Nobody}]

NewHasNothing == \A r \in Requests : answer[r] = "new" => at[r] = 0

OneSessionEach == \A r, q \in Requests : conn[r] = conn[q] /\ conn[r] # NoConnection => r = q

\* A setting is that of the request that holds the connection.
SetByHolder == \A c \in Connections :
  setting[c] = Nobody \/ \E q \in Requests : conn[q] = c /\ setting[c] = UserOf[q]

FirstTransaction(r) == answer[r] = "open" /\ Happened(r, "identity") /\ ~Happened(r, "commit")
RunsAsItsUser == \A r \in Requests : FirstTransaction(r) =>
  conn[r] # NoConnection /\ setting[conn[r]] = UserOf[r]

DbIInv == Types /\ NewHasNothing /\ OneSessionEach /\ SetByHolder /\ RunsAsItsUser

LEMMA DbInitially == Init => DbIInv
<1> SUFFICES ASSUME Init PROVE DbIInv
  OBVIOUS
<1>1. Types BY DEF Init, Types, Users
<1>2. NewHasNothing /\ OneSessionEach /\ SetByHolder /\ RunsAsItsUser
  BY DEF Init, NewHasNothing, OneSessionEach, SetByHolder, RunsAsItsUser, FirstTransaction
<1>3. QED BY <1>1, <1>2 DEF DbIInv

\* What has happened to a request that advances, and to one that does not.
LEMMA WhatHappened ==
  ASSUME Types, NEW r \in Requests, script' = script, Advance(r), NEW q \in Requests, NEW what
  PROVE  Happened(q, what)' <=> Happened(q, what) \/ (q = r /\ Asked(r) = what)
<1>1. at[q] \in Nat /\ at'[q] = IF q = r THEN at[q] + 1 ELSE at[q]
  BY DEF Types, Advance
<1>2. CASE q = r
  <2>1. 1 .. at'[q] = (1 .. at[q]) \cup {at[q] + 1} BY <1>1, <1>2
  <2>2. QED BY <1>2, <2>1 DEF Happened, Asked
<1>3. CASE q # r BY <1>1, <1>3 DEF Happened
<1>4. QED BY <1>2, <1>3

\* A step of the open transaction that ends nothing.
LEMMA StatementKept ==
  ASSUME DbIInv, NEW r \in Requests, answer[r] = "open", script' = script, Advance(r),
         UNCHANGED <<answer, conn>>,
         \/ setting' = setting /\ Asked(r) # "identity"
         \/ /\ conn[r] # NoConnection /\ setting' = [setting EXCEPT ![conn[r]] = UserOf[r]]
            /\ Asked(r) = "identity"
  PROVE  DbIInv'
<1> USE DEF DbIInv
<1>1. Types'
  <2>1. UserOf[r] \in Users BY DEF Users
  <2>2. conn[r] # NoConnection => conn[r] \in Connections BY DEF Types
  <2>3. at' \in [Requests -> Nat] BY DEF Types, Advance
  <2>4. QED BY <2>1, <2>2, <2>3 DEF Types
<1>2. NewHasNothing' BY DEF NewHasNothing, Types, Advance
<1>3. OneSessionEach' BY DEF OneSessionEach
<1>4. SetByHolder' BY DEF SetByHolder, Types
<1>5. RunsAsItsUser'
  <2>1. SUFFICES ASSUME NEW q \in Requests, FirstTransaction(q)'
                 PROVE  conn[q] # NoConnection /\ setting'[conn[q]] = UserOf[q]
    BY DEF RunsAsItsUser
  <2>2. /\ answer[q] = "open" /\ ~Happened(q, "commit")
        /\ Happened(q, "identity") \/ (q = r /\ Asked(r) = "identity")
    BY <2>1, WhatHappened DEF FirstTransaction
  <2>3. CASE q = r /\ Asked(r) = "identity" BY <2>3 DEF Types
  <2>4. CASE Happened(q, "identity")
    <3>1. conn[q] # NoConnection /\ setting[conn[q]] = UserOf[q] /\ conn[q] \in Connections
      BY <2>2, <2>4 DEF RunsAsItsUser, FirstTransaction, Types
    <3>2. CASE q = r BY <3>1, <3>2 DEF Types
    <3>3. CASE q # r
      <4>1. conn[q] # conn[r] BY <3>1, <3>3 DEF OneSessionEach
      <4>2. QED BY <3>1, <4>1 DEF Types
    <3>4. QED BY <3>2, <3>3
  <2>5. QED BY <2>2, <2>3, <2>4
<1>6. QED BY <1>1, <1>2, <1>3, <1>4, <1>5

\* The end of a transaction, after which its request is answered or has committed.
LEMMA EndKept ==
  ASSUME DbIInv, NEW r \in Requests, EndTransaction(r), script' = script, answer[r] = "open",
         \/ /\ at' = at
            /\ \E a \in {"ok", "error"} : answer' = [answer EXCEPT ![r] = a]
         \/ answer' = answer /\ Advance(r) /\ Asked(r) = "commit"
  PROVE  DbIInv'
<1> USE DEF DbIInv
<1>1. /\ \A c \in Connections : setting'[c] = IF c = conn[r] THEN Nobody ELSE setting[c]
      /\ \A q \in Requests : conn'[q] = IF q = r THEN NoConnection ELSE conn[q]
  BY DEF EndTransaction, Types
<1>2. Types' BY DEF EndTransaction, Types, Advance
<1>3. NewHasNothing' BY DEF NewHasNothing, Types, Advance
<1>4. OneSessionEach' BY <1>1 DEF OneSessionEach
<1>5. SetByHolder'
  <2>1. SUFFICES ASSUME NEW c \in Connections, setting'[c] # Nobody
                 PROVE  \E q \in Requests : conn'[q] = c /\ setting'[c] = UserOf[q]
    BY DEF SetByHolder
  <2>2. c # conn[r] /\ setting'[c] = setting[c] BY <1>1, <2>1
  <2>3. PICK q \in Requests : conn[q] = c /\ setting[c] = UserOf[q]
    BY <2>1, <2>2 DEF SetByHolder
  <2>4. QED BY <1>1, <2>2, <2>3
<1>6. RunsAsItsUser'
  <2>1. SUFFICES ASSUME NEW q \in Requests, FirstTransaction(q)'
                 PROVE  conn'[q] # NoConnection /\ setting'[conn'[q]] = UserOf[q]
    BY DEF RunsAsItsUser
  <2>2. q # r
    <3>1. CASE Advance(r) /\ Asked(r) = "commit"
      BY <2>1, <3>1, WhatHappened DEF FirstTransaction
    <3>2. CASE \E a \in {"ok", "error"} : answer' = [answer EXCEPT ![r] = a]
      BY <2>1, <3>2 DEF FirstTransaction, Types
    <3>3. QED BY <3>1, <3>2
  <2>3. answer'[q] = answer[q] /\ at'[q] = at[q] BY <2>2 DEF Types, Advance
  <2>4. FirstTransaction(q) BY <2>1, <2>3 DEF FirstTransaction, Happened
  <2>5. conn[q] # NoConnection /\ setting[conn[q]] = UserOf[q] /\ conn[q] \in Connections
    BY <2>4 DEF RunsAsItsUser, Types
  <2>6. conn[q] # conn[r] BY <2>2, <2>5 DEF OneSessionEach
  <2>7. QED BY <1>1, <2>2, <2>5, <2>6
<1>7. QED BY <1>2, <1>3, <1>4, <1>5, <1>6

LEMMA DbStep == DbIInv /\ [Next]_vars => DbIInv'
<1> SUFFICES ASSUME DbIInv, [Next]_vars PROVE DbIInv'
  OBVIOUS
<1>1. ASSUME NEW r \in Requests, Arrive(r) PROVE DbIInv'
  <2>1. /\ answer[r] = "new" /\ answer' = [answer EXCEPT ![r] = "open"]
        /\ UNCHANGED <<at, conn, setting>>
    BY <1>1 DEF Arrive
  <2>0. PICK s : script' = [script EXCEPT ![r] = s] BY <1>1 DEF Arrive
  <2>2. DOMAIN script' = Requests /\ \A q \in Requests : q # r => script'[q] = script[q]
    BY <2>0 DEF DbIInv, Types
  <2>3. \A q \in Requests : q # r => (FirstTransaction(q)' <=> FirstTransaction(q))
    BY <2>1, <2>2 DEF FirstTransaction, Happened, DbIInv, Types
  <2>4. ~Happened(r, "identity")'
    <3>1. 1 .. at'[r] = {} BY <2>1 DEF DbIInv, NewHasNothing
    <3>2. QED BY <3>1 DEF Happened
  <2>5. RunsAsItsUser'
    <3>1. ~FirstTransaction(r)' BY <2>4 DEF FirstTransaction
    <3>2. QED BY <2>1, <2>3, <3>1 DEF DbIInv, RunsAsItsUser
  <2>6. Types' BY <2>1, <2>2 DEF DbIInv, Types
  <2>7. NewHasNothing' BY <2>1 DEF DbIInv, Types, NewHasNothing
  <2>8. OneSessionEach' /\ SetByHolder' BY <2>1 DEF DbIInv, OneSessionEach, SetByHolder
  <2>9. QED BY <2>5, <2>6, <2>7, <2>8 DEF DbIInv
<1>2. ASSUME NEW r \in Requests, Connect(r) PROVE DbIInv'
  <2>1. PICK c \in Free : conn' = [conn EXCEPT ![r] = c] BY <1>2 DEF Connect
  <2>2. /\ conn[r] = NoConnection /\ UNCHANGED <<script, at, answer, setting>>
        /\ c \in Connections /\ c # NoConnection /\ \A q \in Requests : conn[q] # c
    BY <1>2, DbAssumption DEF Connect, Free
  <2>3. Types' /\ NewHasNothing' BY <2>1, <2>2 DEF DbIInv, Types, NewHasNothing
  <2>4. OneSessionEach' BY <2>1, <2>2 DEF DbIInv, Types, OneSessionEach
  <2>5. SetByHolder'
    <3>1. \A d \in Connections, q \in Requests : conn[q] = d => conn'[q] = d
      BY <2>1, <2>2, DbAssumption DEF DbIInv, Types
    <3>2. QED BY <2>2, <3>1 DEF DbIInv, SetByHolder
  <2>6. RunsAsItsUser'
    <3>1. \A q \in Requests : FirstTransaction(q)' => FirstTransaction(q)
      BY <2>2 DEF FirstTransaction, Happened
    <3>2. QED BY <2>1, <2>2, <3>1 DEF DbIInv, Types, RunsAsItsUser
  <2>7. QED BY <2>3, <2>4, <2>5, <2>6 DEF DbIInv
<1>3. ASSUME NEW r \in Requests, ConnectTimesOut(r) PROVE DbIInv'
  <2>1. UNCHANGED <<script, at, conn, setting>> /\ answer' = [answer EXCEPT ![r] = "error"]
    BY <1>3 DEF ConnectTimesOut
  <2>2. \A q \in Requests : FirstTransaction(q)' => FirstTransaction(q)
    BY <2>1 DEF DbIInv, Types, FirstTransaction, Happened
  <2>3. QED BY <2>1, <2>2 DEF DbIInv, Types, NewHasNothing, OneSessionEach, SetByHolder, RunsAsItsUser
<1>4. ASSUME NEW r \in Requests, Read(r) \/ Call(r) \/ Write(r) \/ SetIdentity(r) PROVE DbIInv'
  <2>1. answer[r] = "open" /\ script' = script /\ Advance(r) /\ UNCHANGED <<answer, conn>>
    BY <1>4 DEF Read, Call, Write, SetIdentity, Ready
  <2>2. CASE Read(r) \/ Call(r) \/ Write(r)
    <3>1. setting' = setting /\ Asked(r) # "identity"
      BY <2>2 DEF Read, Call, Write, Ready, Writes
    <3>2. QED BY <2>1, <3>1, StatementKept
  <2>3. CASE SetIdentity(r)
    <3>1. /\ conn[r] # NoConnection /\ setting' = [setting EXCEPT ![conn[r]] = UserOf[r]]
          /\ Asked(r) = "identity"
      BY <2>3 DEF SetIdentity, Ready
    <3>2. QED BY <2>1, <3>1, StatementKept
  <2>4. QED BY <1>4, <2>2, <2>3
<1>5. ASSUME NEW r \in Requests, Commit(r) PROVE DbIInv'
  <2>1. /\ answer[r] = "open" /\ script' = script /\ EndTransaction(r)
        /\ answer' = answer /\ Advance(r) /\ Asked(r) = "commit"
    BY <1>5 DEF Commit, Ready
  <2>2. QED BY <2>1, EndKept
<1>6. ASSUME NEW r \in Requests, Finish(r) \/ Raise(r) PROVE DbIInv'
  <2>1. /\ answer[r] = "open" /\ script' = script /\ EndTransaction(r) /\ at' = at
        /\ \E a \in {"ok", "error"} : answer' = [answer EXCEPT ![r] = a]
    BY <1>6 DEF Finish, Raise, CloseSession
  <2>2. QED BY <2>1, EndKept
<1>7. CASE UNCHANGED vars
  BY <1>7 DEF vars, DbIInv, Types, NewHasNothing, OneSessionEach, SetByHolder, RunsAsItsUser,
              FirstTransaction, Happened
<1>8. QED BY <1>1, <1>2, <1>3, <1>4, <1>5, <1>6, <1>7 DEF Next, Step

LEMMA DbInvariance == Spec => []DbIInv
<1>1. QED BY DbInitially, DbStep, PTL DEF Spec

\* No statement of a request runs under another user's identity, and from set_config to
\* its first commit it runs under its own, whichever connection the pool handed out.
THEOREM IdentityStaysApart == Spec => []OwnIdentityOnly
<1>1. DbIInv => OwnIdentityOnly
  <2> SUFFICES ASSUME DbIInv PROVE OwnIdentityOnly
    OBVIOUS
  <2>1. \A r \in Requests : UserOf[r] # Nobody BY DbAssumption
  <2>2. QED BY <2>1 DEF DbIInv, SetByHolder, RunsAsItsUser, FirstTransaction, OwnIdentityOnly
<1>2. QED BY <1>1, DbInvariance, PTL

\* Two open sessions never hold the same connection.
THEOREM SessionsDoNotShare == Spec => []OneSessionEach
<1>1. DbIInv => OneSessionEach BY DEF DbIInv
<1>2. QED BY <1>1, DbInvariance, PTL

-----------------------------------------------------------------------------
(* The rows of a route: what its commits keep.                             *)

\* The rows that positions j + 1 to k of a branch write.
Between(s, j, k) == {s[i] : i \in j + 1 .. k} \cap Writes
Rows(s, k) == Between(s, 0, k)

Asks == Writes \cup {"read", "identity", "call", "commit"}

Whole(D) ==
  /\ "document" \in D <=> "chunk events" \in D
  /\ "deleting" \in D <=> "delete event" \in D
  /\ "answer" \in D => "question" \in D
  /\ "question" \in D => "audit" \in D

\* A part of a branch commits all it writes, each time rows that are whole; it is run when
\* the rows of D are there, and leaves those of E.
Commits(s, D, E) ==
  /\ s \in Seq(Asks)
  /\ \A i \in 1 .. Len(s) : s[i] \in Writes => \E k \in i .. Len(s) : s[k] = "commit"
  /\ \A k \in 1 .. Len(s) : s[k] = "commit" => Whole(D \cup Rows(s, k))
  /\ E = D \cup Rows(s, Len(s))

LEMMA PartsInSequence ==
  ASSUME NEW s, NEW t, NEW C, NEW D, NEW E, Commits(s, C, D), Commits(t, D, E)
  PROVE  Commits(s \o t, C, E)
<1> USE DEF Commits
<1> DEFINE m == Len(s)  n == Len(t)  u == s \o t
<1>1. /\ u \in Seq(Asks) /\ Len(u) = m + n /\ m \in Nat /\ n \in Nat
      /\ \A i \in 1 .. m + n : u[i] = IF i <= m THEN s[i] ELSE t[i - m]
  OBVIOUS
<1>2. \A i \in 1 .. m : s[i] \in Writes => \E k \in i .. m : s[k] = "commit" OBVIOUS
<1>3. \A i \in 1 .. n : t[i] \in Writes => \E k \in i .. n : t[k] = "commit" OBVIOUS
<1>4. /\ \A k \in 1 .. m : s[k] = "commit" => Whole(C \cup Rows(s, k))
      /\ \A k \in 1 .. n : t[k] = "commit" => Whole(D \cup Rows(t, k))
      /\ D = C \cup Rows(s, m) /\ E = D \cup Rows(t, n)
  OBVIOUS
<1> HIDE DEF m, n, u, Commits
<1>5. \A k \in 0 .. m : Rows(u, k) = Rows(s, k)
  <2> SUFFICES ASSUME NEW k \in 0 .. m PROVE Rows(u, k) = Rows(s, k)
    OBVIOUS
  <2>1. \A i \in 1 .. k : u[i] = s[i] BY <1>1
  <2>2. QED BY <2>1 DEF Rows, Between
<1>6. \A k \in 0 .. n : Rows(u, m + k) = Rows(s, m) \cup Rows(t, k)
  <2> SUFFICES ASSUME NEW k \in 0 .. n PROVE Rows(u, m + k) = Rows(s, m) \cup Rows(t, k)
    OBVIOUS
  <2>1. \A i \in 1 .. m : u[i] = s[i] BY <1>1
  <2>2. \A i \in 1 .. k : u[m + i] = t[i] /\ m + i \in 1 .. m + k
    <3> SUFFICES ASSUME NEW i \in 1 .. k PROVE u[m + i] = t[i] /\ m + i \in 1 .. m + k
      OBVIOUS
    <3>1. m + i \in 1 .. m + n /\ ~(m + i <= m) /\ (m + i) - m = i BY <1>1
    <3>2. QED BY <1>1, <3>1
  <2>3. \A i \in 1 .. m + k : i \in 1 .. m \/ \E j \in 1 .. k : i = m + j
    <3> SUFFICES ASSUME NEW i \in 1 .. m + k, i \notin 1 .. m PROVE \E j \in 1 .. k : i = m + j
      OBVIOUS
    <3>1. i - m \in 1 .. k /\ i = m + (i - m) BY <1>1
    <3>2. QED BY <3>1
  <2>4. \A i \in 1 .. m : i \in 1 .. m + k BY <1>1
  <2>5. {u[i] : i \in 1 .. m + k} = {s[i] : i \in 1 .. m} \cup {t[i] : i \in 1 .. k}
    BY <2>1, <2>2, <2>3, <2>4
  <2>6. QED BY <2>5 DEF Rows, Between
<1>7. ASSUME NEW i \in 1 .. m + n, u[i] \in Writes PROVE \E k \in i .. m + n : u[k] = "commit"
  <2>1. CASE i <= m
    <3>1. i \in 1 .. m /\ s[i] \in Writes BY <1>1, <1>7, <2>1
    <3>2. PICK k \in i .. m : s[k] = "commit" BY <1>2, <3>1
    <3>3. k \in i .. m + n /\ k <= m /\ k \in 1 .. m + n BY <1>1, <3>2
    <3>4. QED BY <1>1, <3>2, <3>3
  <2>2. CASE ~(i <= m)
    <3>1. i - m \in 1 .. n /\ t[i - m] \in Writes BY <1>1, <1>7, <2>2
    <3>2. PICK k \in (i - m) .. n : t[k] = "commit" BY <1>3, <3>1
    <3>3. m + k \in i .. m + n /\ ~(m + k <= m) /\ m + k \in 1 .. m + n /\ (m + k) - m = k BY <1>1, <3>2, <2>2
    <3>4. u[m + k] = "commit" BY <1>1, <3>2, <3>3
    <3>5. QED BY <3>3, <3>4
  <2>3. QED BY <2>1, <2>2
<1>8. ASSUME NEW k \in 1 .. m + n, u[k] = "commit" PROVE Whole(C \cup Rows(u, k))
  <2>1. CASE k <= m
    <3>1. k \in 1 .. m /\ k \in 0 .. m /\ s[k] = "commit" BY <1>1, <1>8, <2>1
    <3>2. QED BY <1>4, <1>5, <3>1
  <2>2. CASE ~(k <= m)
    <3>1. PICK j \in 1 .. n : k = m + j /\ j \in 0 .. n
      <4>1. k - m \in 1 .. n /\ k = m + (k - m) /\ k - m \in 0 .. n BY <1>1, <2>2
      <4>2. QED BY <4>1
    <3>2. t[j] = "commit"
      <4>1. k - m = j BY <1>1, <3>1
      <4>2. QED BY <1>1, <1>8, <2>2, <4>1
    <3>3. C \cup Rows(u, k) = D \cup Rows(t, j) BY <1>4, <1>6, <3>1
    <3>4. QED BY <1>4, <3>2, <3>3
  <2>3. QED BY <2>1, <2>2
<1>9. E = C \cup Rows(u, m + n)
  <2>1. n \in 0 .. n BY <1>1
  <2>2. QED BY <1>4, <1>6, <2>1
<1>10. QED BY <1>1, <1>7, <1>8, <1>9 DEF Commits, u

\* A part that writes nothing, and one that writes some rows and then commits once.
LEMMA QuietPart ==
  ASSUME NEW s \in Seq({"read", "identity", "call"}), NEW D
  PROVE  Commits(s, D, D)
<1>0. {"read", "identity", "call"} \subseteq Asks BY DEF Asks
<1>1. s \in Seq(Asks) /\ Len(s) \in Nat
  <2> DEFINE Q == {"read", "identity", "call"}
  <2>1. s \in Seq(Q) OBVIOUS
  <2> HIDE DEF Q
  <2>2. \A i \in 1 .. Len(s) : s[i] \in Asks BY <1>0, <2>1 DEF Q
  <2>3. s \in [1 .. Len(s) -> Asks] /\ Len(s) \in Nat BY <2>1, <2>2
  <2>4. QED BY <2>3
<1>2. \A i \in 1 .. Len(s) : s[i] \notin Writes /\ s[i] # "commit"
  <2>1. \A i \in 1 .. Len(s) : s[i] \in {"read", "identity", "call"} OBVIOUS
  <2>2. QED BY <2>1 DEF Writes
<1>3. Rows(s, Len(s)) = {} BY <1>2 DEF Rows, Between
<1>4. QED BY <1>1, <1>2, <1>3 DEF Commits

LEMMA WritingPart ==
  ASSUME NEW s \in Seq(Asks), NEW n \in 1 .. Len(s), s[n] = "commit",
         \A i \in 1 .. Len(s) : i # n => s[i] # "commit", \A i \in n .. Len(s) : s[i] \notin Writes,
         NEW D, Whole(D \cup Rows(s, n))
  PROVE  Commits(s, D, D \cup Rows(s, n))
<1> DEFINE m == Len(s)
<1>1. m \in Nat /\ n \in Nat /\ n >= 1 /\ n <= m OBVIOUS
<1>2. \A i \in 1 .. m : s[i] \in Writes => n \in i .. m BY <1>1
<1>3. \A k \in 1 .. m : s[k] = "commit" => k = n OBVIOUS
<1> HIDE DEF m
<1>4. Rows(s, m) = Rows(s, n)
  <2>1. \A i \in 1 .. n : i \in 1 .. m BY <1>1
  <2>2. \A i \in 1 .. m : i \in 1 .. n \/ i \in n .. m BY <1>1
  <2>3. \A i \in n .. m : s[i] \notin Writes BY DEF m
  <2>4. QED BY <2>1, <2>2, <2>3 DEF Rows, Between
<1>5. QED BY <1>2, <1>3, <1>4 DEF Commits, m

\* The branches of the routes, part by part.
LEMMA Parts ==
  /\ \A D : Commits(Authenticated, D, D)
  /\ \A D : Commits(<<"read">>, D, D) /\ Commits(<<"call">>, D, D) /\ Commits(<<"read", "read">>, D, D)
  /\ \A D : Commits(<<"read", "call">>, D, D) /\ Commits(<<"call", "read", "call">>, D, D)
  /\ \A D : Commits(<<"read", "call", "read", "read", "call">>, D, D)
  /\ Commits(<<"session", "commit", "read">>, {}, {"session"})
  /\ Commits(<<"status", "commit", "call">>, {}, {"status"})
  /\ Commits(<<"read", "user", "commit", "read">>, {}, {"user"})
  /\ Commits(<<"document", "chunk events", "commit", "read">>, {}, {"document", "chunk events"})
  /\ Commits(<<"read", "deleting", "delete event", "commit">>, {}, {"deleting", "delete event"})
  /\ Commits(Audit, {}, {"audit"})
  /\ Commits(AddTurn("question"), {"audit"}, {"audit", "question"})
  /\ Commits(AddTurn("answer"), {"audit", "question"}, {"audit", "question", "answer"})
<1> DEFINE Q == {"read", "identity", "call"}
<1>1. /\ <<"read">> \in Seq(Q) /\ <<"call">> \in Seq(Q) /\ <<"read", "read">> \in Seq(Q)
      /\ <<"read", "identity">> \in Seq(Q)
      /\ <<"read", "call">> \in Seq(Q) /\ <<"call", "read", "call">> \in Seq(Q)
      /\ <<"read", "call", "read", "read", "call">> \in Seq(Q)
  OBVIOUS
<1>2. /\ \A D : Commits(Authenticated, D, D)
      /\ \A D : Commits(<<"read">>, D, D) /\ Commits(<<"call">>, D, D) /\ Commits(<<"read", "read">>, D, D)
      /\ \A D : Commits(<<"read", "call">>, D, D) /\ Commits(<<"call", "read", "call">>, D, D)
      /\ \A D : Commits(<<"read", "call", "read", "read", "call">>, D, D)
  BY <1>1, QuietPart DEF Authenticated
<1>r. 1 .. 1 = {1} /\ 1 .. 2 = {1, 2} /\ 1 .. 3 = {1, 2, 3} /\ 1 .. 4 = {1, 2, 3, 4} /\ 1 .. 5 = {1, 2, 3, 4, 5}
      /\ 2 .. 2 = {2} /\ 2 .. 3 = {2, 3} /\ 3 .. 4 = {3, 4} /\ 4 .. 4 = {4} /\ 3 .. 5 = {3, 4, 5}
  OBVIOUS
<1>s. \A s : /\ Rows(s, 2) = {s[1], s[2]} \cap Writes
             /\ Rows(s, 3) = {s[1], s[2], s[3]} \cap Writes
             /\ Rows(s, 4) = {s[1], s[2], s[3], s[4]} \cap Writes
  <2>1. \A s, k : Rows(s, k) = {s[i] : i \in 1 .. k} \cap Writes BY DEF Rows, Between
  <2>2. \A s : {s[i] : i \in {1, 2}} = {s[1], s[2]} OBVIOUS
  <2>3. \A s : {s[i] : i \in {1, 2, 3}} = {s[1], s[2], s[3]} OBVIOUS
  <2>4. \A s : {s[i] : i \in {1, 2, 3, 4}} = {s[1], s[2], s[3], s[4]} OBVIOUS
  <2>5. QED BY <1>r, <2>1, <2>2, <2>3, <2>4
<1>3. Commits(<<"session", "commit", "read">>, {}, {"session"})
  <2> DEFINE s == <<"session", "commit", "read">>
  <2>1. s \in Seq(Asks) /\ Len(s) = 3 /\ s[1] = "session" /\ s[2] = "commit" /\ s[3] = "read"
    BY DEF Asks, Writes
  <2> HIDE DEF s
  <2>2. Rows(s, 2) = {"session"}
    <3>1. {"session"} \subseteq Writes /\ "read" \notin Writes /\ "commit" \notin Writes BY DEF Writes
    <3>2. {"session", "commit"} \cap Writes = {"session"} BY <3>1
    <3>3. Rows(s, 2) = {"session", "commit"} \cap Writes BY <1>s, <2>1
    <3>4. QED BY <3>2, <3>3
  <2>3. {} \cup {"session"} = {"session"} /\ Whole({"session"}) BY DEF Whole
  <2>4. /\ 2 \in 1 .. Len(s) /\ \A i \in 1 .. Len(s) : i # 2 => s[i] # "commit"
        /\ \A i \in 2 .. Len(s) : s[i] \notin Writes
    BY <1>r, <2>1 DEF Writes
  <2>5. Commits(s, {}, {"session"}) BY <2>1, <2>2, <2>3, <2>4, WritingPart
  <2>6. QED BY <2>5 DEF s
<1>4. Commits(<<"status", "commit", "call">>, {}, {"status"})
  <2> DEFINE s == <<"status", "commit", "call">>
  <2>1. s \in Seq(Asks) /\ Len(s) = 3 /\ s[1] = "status" /\ s[2] = "commit" /\ s[3] = "call"
    BY DEF Asks, Writes
  <2> HIDE DEF s
  <2>2. Rows(s, 2) = {"status"}
    <3>1. {"status"} \subseteq Writes /\ "read" \notin Writes /\ "commit" \notin Writes BY DEF Writes
    <3>2. {"status", "commit"} \cap Writes = {"status"} BY <3>1
    <3>3. Rows(s, 2) = {"status", "commit"} \cap Writes BY <1>s, <2>1
    <3>4. QED BY <3>2, <3>3
  <2>3. {} \cup {"status"} = {"status"} /\ Whole({"status"}) BY DEF Whole
  <2>4. /\ 2 \in 1 .. Len(s) /\ \A i \in 1 .. Len(s) : i # 2 => s[i] # "commit"
        /\ \A i \in 2 .. Len(s) : s[i] \notin Writes
    BY <1>r, <2>1 DEF Writes
  <2>5. Commits(s, {}, {"status"}) BY <2>1, <2>2, <2>3, <2>4, WritingPart
  <2>6. QED BY <2>5 DEF s
<1>5. Commits(<<"read", "user", "commit", "read">>, {}, {"user"})
  <2> DEFINE s == <<"read", "user", "commit", "read">>
  <2>1. s \in Seq(Asks) /\ Len(s) = 4 /\ s[1] = "read" /\ s[2] = "user" /\ s[3] = "commit" /\ s[4] = "read"
    BY DEF Asks, Writes
  <2> HIDE DEF s
  <2>2. Rows(s, 3) = {"user"}
    <3>1. {"user"} \subseteq Writes /\ "read" \notin Writes /\ "commit" \notin Writes BY DEF Writes
    <3>2. {"read", "user", "commit"} \cap Writes = {"user"} BY <3>1
    <3>3. Rows(s, 3) = {"read", "user", "commit"} \cap Writes BY <1>s, <2>1
    <3>4. QED BY <3>2, <3>3
  <2>3. {} \cup {"user"} = {"user"} /\ Whole({"user"}) BY DEF Whole
  <2>4. /\ 3 \in 1 .. Len(s) /\ \A i \in 1 .. Len(s) : i # 3 => s[i] # "commit"
        /\ \A i \in 3 .. Len(s) : s[i] \notin Writes
    BY <1>r, <2>1 DEF Writes
  <2>5. Commits(s, {}, {"user"}) BY <2>1, <2>2, <2>3, <2>4, WritingPart
  <2>6. QED BY <2>5 DEF s
<1>6. Commits(<<"document", "chunk events", "commit", "read">>, {}, {"document", "chunk events"})
  <2> DEFINE s == <<"document", "chunk events", "commit", "read">>
  <2>1. s \in Seq(Asks) /\ Len(s) = 4 /\ s[1] = "document" /\ s[2] = "chunk events" /\ s[3] = "commit" /\ s[4] = "read"
    BY DEF Asks, Writes
  <2> HIDE DEF s
  <2>2. Rows(s, 3) = {"document", "chunk events"}
    <3>1. {"document", "chunk events"} \subseteq Writes /\ "read" \notin Writes /\ "commit" \notin Writes BY DEF Writes
    <3>2. {"document", "chunk events", "commit"} \cap Writes = {"document", "chunk events"} BY <3>1
    <3>3. Rows(s, 3) = {"document", "chunk events", "commit"} \cap Writes BY <1>s, <2>1
    <3>4. QED BY <3>2, <3>3
  <2>3. {} \cup {"document", "chunk events"} = {"document", "chunk events"} /\ Whole({"document", "chunk events"}) BY DEF Whole
  <2>4. /\ 3 \in 1 .. Len(s) /\ \A i \in 1 .. Len(s) : i # 3 => s[i] # "commit"
        /\ \A i \in 3 .. Len(s) : s[i] \notin Writes
    BY <1>r, <2>1 DEF Writes
  <2>5. Commits(s, {}, {"document", "chunk events"}) BY <2>1, <2>2, <2>3, <2>4, WritingPart
  <2>6. QED BY <2>5 DEF s
<1>7. Commits(<<"read", "deleting", "delete event", "commit">>, {}, {"deleting", "delete event"})
  <2> DEFINE s == <<"read", "deleting", "delete event", "commit">>
  <2>1. s \in Seq(Asks) /\ Len(s) = 4 /\ s[1] = "read" /\ s[2] = "deleting" /\ s[3] = "delete event" /\ s[4] = "commit"
    BY DEF Asks, Writes
  <2> HIDE DEF s
  <2>2. Rows(s, 4) = {"deleting", "delete event"}
    <3>1. {"deleting", "delete event"} \subseteq Writes /\ "read" \notin Writes /\ "commit" \notin Writes BY DEF Writes
    <3>2. {"read", "deleting", "delete event", "commit"} \cap Writes = {"deleting", "delete event"} BY <3>1
    <3>3. Rows(s, 4) = {"read", "deleting", "delete event", "commit"} \cap Writes BY <1>s, <2>1
    <3>4. QED BY <3>2, <3>3
  <2>3. {} \cup {"deleting", "delete event"} = {"deleting", "delete event"} /\ Whole({"deleting", "delete event"}) BY DEF Whole
  <2>4. /\ 4 \in 1 .. Len(s) /\ \A i \in 1 .. Len(s) : i # 4 => s[i] # "commit"
        /\ \A i \in 4 .. Len(s) : s[i] \notin Writes
    BY <1>r, <2>1 DEF Writes
  <2>5. Commits(s, {}, {"deleting", "delete event"}) BY <2>1, <2>2, <2>3, <2>4, WritingPart
  <2>6. QED BY <2>5 DEF s
<1>8. Commits(Audit, {}, {"audit"})
  <2> DEFINE s == <<"audit", "commit">>
  <2>1. s \in Seq(Asks) /\ Len(s) = 2 /\ s[1] = "audit" /\ s[2] = "commit"
    BY DEF Asks, Writes
  <2> HIDE DEF s
  <2>2. Rows(s, 2) = {"audit"}
    <3>1. {"audit"} \subseteq Writes /\ "read" \notin Writes /\ "commit" \notin Writes BY DEF Writes
    <3>2. {"audit", "commit"} \cap Writes = {"audit"} BY <3>1
    <3>3. Rows(s, 2) = {"audit", "commit"} \cap Writes BY <1>s, <2>1
    <3>4. QED BY <3>2, <3>3
  <2>3. {} \cup {"audit"} = {"audit"} /\ Whole({"audit"}) BY DEF Whole
  <2>4. /\ 2 \in 1 .. Len(s) /\ \A i \in 1 .. Len(s) : i # 2 => s[i] # "commit"
        /\ \A i \in 2 .. Len(s) : s[i] \notin Writes
    BY <1>r, <2>1 DEF Writes
  <2>5. Commits(s, {}, {"audit"}) BY <2>1, <2>2, <2>3, <2>4, WritingPart
  <2>6. QED BY <2>5 DEF s, Audit
<1>9. Commits(AddTurn("question"), {"audit"}, {"audit", "question"})
  <2> DEFINE s == <<"read", "question", "commit", "read", "call">>
  <2>1. s \in Seq(Asks) /\ Len(s) = 5 /\ s[1] = "read" /\ s[2] = "question" /\ s[3] = "commit" /\ s[4] = "read" /\ s[5] = "call"
    BY DEF Asks, Writes
  <2> HIDE DEF s
  <2>2. Rows(s, 3) = {"question"}
    <3>1. {"question"} \subseteq Writes /\ "read" \notin Writes /\ "commit" \notin Writes BY DEF Writes
    <3>2. {"read", "question", "commit"} \cap Writes = {"question"} BY <3>1
    <3>3. Rows(s, 3) = {"read", "question", "commit"} \cap Writes BY <1>s, <2>1
    <3>4. QED BY <3>2, <3>3
  <2>3. {"audit"} \cup {"question"} = {"audit", "question"} /\ Whole({"audit", "question"}) BY DEF Whole
  <2>4. /\ 3 \in 1 .. Len(s) /\ \A i \in 1 .. Len(s) : i # 3 => s[i] # "commit"
        /\ \A i \in 3 .. Len(s) : s[i] \notin Writes
    BY <1>r, <2>1 DEF Writes
  <2>5. Commits(s, {"audit"}, {"audit", "question"}) BY <2>1, <2>2, <2>3, <2>4, WritingPart
  <2>6. QED BY <2>5 DEF s, AddTurn
<1>10. Commits(AddTurn("answer"), {"audit", "question"}, {"audit", "question", "answer"})
  <2> DEFINE s == <<"read", "answer", "commit", "read", "call">>
  <2>1. s \in Seq(Asks) /\ Len(s) = 5 /\ s[1] = "read" /\ s[2] = "answer" /\ s[3] = "commit" /\ s[4] = "read" /\ s[5] = "call"
    BY DEF Asks, Writes
  <2> HIDE DEF s
  <2>2. Rows(s, 3) = {"answer"}
    <3>1. {"answer"} \subseteq Writes /\ "read" \notin Writes /\ "commit" \notin Writes BY DEF Writes
    <3>2. {"read", "answer", "commit"} \cap Writes = {"answer"} BY <3>1
    <3>3. Rows(s, 3) = {"read", "answer", "commit"} \cap Writes BY <1>s, <2>1
    <3>4. QED BY <3>2, <3>3
  <2>3. {"audit", "question"} \cup {"answer"} = {"audit", "question", "answer"} /\ Whole({"audit", "question", "answer"}) BY DEF Whole
  <2>4. /\ 3 \in 1 .. Len(s) /\ \A i \in 1 .. Len(s) : i # 3 => s[i] # "commit"
        /\ \A i \in 3 .. Len(s) : s[i] \notin Writes
    BY <1>r, <2>1 DEF Writes
  <2>5. Commits(s, {"audit", "question"}, {"audit", "question", "answer"}) BY <2>1, <2>2, <2>3, <2>4, WritingPart
  <2>6. QED BY <2>5 DEF s, AddTurn
<1>11. QED BY <1>2, <1>3, <1>4, <1>5, <1>6, <1>7, <1>8, <1>9, <1>10

LEMMA BranchesCommit ==
  ASSUME NEW route \in Routes, NEW s \in Branches(route)
  PROVE  \E E : Commits(s, {}, E)
<1>1. \A t, E : Commits(t, {}, E) => Commits(Authenticated \o t, {}, E)
  BY Parts, PartsInSequence
<1>2. \A t, u, D, E : Commits(t, {}, D) /\ Commits(u, D, E) => Commits(t \o u, {}, E)
  BY PartsInSequence
<1>3. /\ Commits(Authenticated \o <<"call">> \o Audit, {}, {"audit"})
      /\ \A memory \in {<<"read", "call">>, <<"read", "call", "read", "read", "call">>} :
           Commits(Authenticated \o memory \o <<"call">> \o Audit \o AddTurn("question") \o AddTurn("answer"),
                   {}, {"audit", "question", "answer"})
  <2>1. Commits(Authenticated \o <<"call">>, {}, {}) BY <1>1, Parts
  <2>2. Commits(Authenticated \o <<"call">> \o Audit, {}, {"audit"}) BY <1>2, <2>1, Parts
  <2>3. ASSUME NEW memory \in {<<"read", "call">>, <<"read", "call", "read", "read", "call">>}
        PROVE  Commits(Authenticated \o memory \o <<"call">> \o Audit \o AddTurn("question") \o AddTurn("answer"),
                       {}, {"audit", "question", "answer"})
    <3>1. Commits(Authenticated \o memory, {}, {}) BY <1>1, Parts
    <3>2. Commits(Authenticated \o memory \o <<"call">>, {}, {}) BY <1>2, <3>1, Parts
    <3>3. Commits(Authenticated \o memory \o <<"call">> \o Audit, {}, {"audit"}) BY <1>2, <3>2, Parts
    <3>4. Commits(Authenticated \o memory \o <<"call">> \o Audit \o AddTurn("question"), {}, {"audit", "question"})
      BY <1>2, <3>3, Parts
    <3>5. QED BY <1>2, <3>4, Parts
  <2>4. QED BY <2>2, <2>3
<1>a. /\ Commits(Authenticated \o <<"session", "commit", "read">>, {}, {"session"})
      /\ Commits(Authenticated \o <<"status", "commit", "call">>, {}, {"status"})
      /\ Commits(Authenticated \o <<"document", "chunk events", "commit", "read">>, {}, {"document", "chunk events"})
      /\ Commits(Authenticated \o <<"read", "deleting", "delete event", "commit">>, {}, {"deleting", "delete event"})
      /\ Commits(Authenticated \o <<"read">>, {}, {}) /\ Commits(Authenticated \o <<"read", "read">>, {}, {})
  BY <1>1, Parts
<1>4. CASE route = "register" BY <1>4, Parts DEF Branches, Register
<1>5. CASE route = "token" BY <1>5, Parts DEF Branches, Token
<1>6. CASE route = "refresh" BY <1>6, Parts DEF Branches, RefreshToken
<1>7. CASE route \in {"logout", "logout all"} BY <1>7, Parts DEF Branches, Logout
<1>8. CASE route = "create session"
  <2>1. s \in CreateSession BY <1>8 DEF Branches
  <2>2. QED BY <1>a, <2>1 DEF CreateSession
<1>9. CASE route = "list sessions"
  <2>1. s \in ListSessions BY <1>9 DEF Branches
  <2>2. QED BY <1>a, <2>1 DEF ListSessions
<1>10. CASE route = "history"
  <2>1. s \in History BY <1>10 DEF Branches
  <2>2. QED BY <1>a, <2>1 DEF History
<1>11. CASE route = "end session"
  <2>1. s \in EndSession BY <1>11 DEF Branches
  <2>2. QED BY <1>a, <2>1 DEF EndSession
<1>12. CASE route = "query"
  <2>1. s \in Query BY <1>12 DEF Branches
  <2>2. QED BY <1>3, <2>1 DEF Query
<1>13. CASE route = "ingest"
  <2>1. s \in Ingest BY <1>13 DEF Branches
  <2>2. QED BY <1>a, <2>1 DEF Ingest
<1>14. CASE route = "list documents"
  <2>1. s \in ListDocuments BY <1>14 DEF Branches
  <2>2. QED BY <1>a, <2>1 DEF ListDocuments
<1>15. CASE route = "delete"
  <2>1. s \in Delete BY <1>15 DEF Branches
  <2>2. QED BY <1>a, <2>1 DEF Delete
<1>16. CASE route = "audit logs"
  <2>1. s \in AuditLogs BY <1>16 DEF Branches
  <2>2. QED BY <1>a, <2>1 DEF AuditLogs
<1>17. QED BY <1>4, <1>5, <1>6, <1>7, <1>8, <1>9, <1>10, <1>11, <1>12, <1>13, <1>14, <1>15, <1>16 DEF Routes

LEMMA ScriptsCommit == \A s \in Scripts \cup {<<>>} : s \in Seq(Asks) /\ \E E : Commits(s, {}, E)
<1>1. Commits(<<>>, {}, {})
  <2>1. <<>> \in Seq({"read", "identity", "call"}) OBVIOUS
  <2>2. QED BY <2>1, QuietPart
<1>2. \A r \in Requests : RoutesOf[r] \subseteq Routes BY DbAssumption
<1>3. \A s \in Scripts : \E route \in Routes : s \in Branches(route) BY <1>2 DEF Scripts
<1>4. QED BY <1>1, <1>3, BranchesCommit DEF Commits

-----------------------------------------------------------------------------
(* What is durable: the rows of a branch up to some commit, the last one   *)
(* as long as the request is open.                                         *)

NewIsEmpty == \A r \in Requests : answer[r] = "new" =>
  at[r] = 0 /\ pending[r] = {} /\ durable[r] = {}

CommittedUpTo(r, k) ==
  /\ k = 0 \/ script[r][k] = "commit"
  /\ durable[r] = Rows(script[r], k)
  /\ answer[r] \in {"open", "ok"} => k <= at[r] /\ \A i \in k + 1 .. at[r] : script[r][i] # "commit"
  /\ answer[r] = "open" => pending[r] = Between(script[r], k, at[r])
  /\ answer[r] = "ok" => at[r] = Len(script[r])
KeptToACommit == \A r \in Requests : \E k \in 0 .. Len(script[r]) : CommittedUpTo(r, k)

RowsIInv == TypeOK /\ NewIsEmpty /\ KeptToACommit

LEMMA RowsInitially == Init => RowsIInv
<1> SUFFICES ASSUME Init PROVE RowsIInv
  OBVIOUS
<1>1. TypeOK BY DEF Init, TypeOK
<1>2. NewIsEmpty BY DEF Init, NewIsEmpty
<1>3. KeptToACommit
  <2> SUFFICES ASSUME NEW r \in Requests PROVE CommittedUpTo(r, 0) /\ 0 \in 0 .. Len(script[r])
    BY DEF KeptToACommit
  <2>1. Rows(<<>>, 0) = {} BY DEF Rows, Between
  <2>2. QED BY <2>1 DEF Init, CommittedUpTo
<1>4. QED BY <1>1, <1>2, <1>3 DEF RowsIInv

\* None, one position more, and the first ones.
LEMMA NoneBetween == ASSUME NEW s, NEW k \in Nat PROVE Between(s, k, k) = {}
<1>1. k + 1 .. k = {} OBVIOUS
<1>2. QED BY <1>1 DEF Between

LEMMA OneFurther ==
  ASSUME NEW s, NEW j \in Nat, NEW k \in Nat, j <= k
  PROVE  Between(s, j, k + 1) = Between(s, j, k) \cup ({s[k + 1]} \cap Writes)
<1>1. j + 1 .. k + 1 = (j + 1 .. k) \cup {k + 1} OBVIOUS
<1>2. {s[i] : i \in j + 1 .. k + 1} = {s[i] : i \in j + 1 .. k} \cup {s[k + 1]} BY <1>1
<1>3. QED BY <1>2 DEF Between

LEMMA FirstAndBetween ==
  ASSUME NEW s, NEW j \in Nat, NEW k \in Nat, j <= k
  PROVE  Rows(s, k) = Rows(s, j) \cup Between(s, j, k)
<1>1. 0 + 1 .. k = (0 + 1 .. j) \cup (j + 1 .. k) OBVIOUS
<1>2. {s[i] : i \in 0 + 1 .. k} = {s[i] : i \in 0 + 1 .. j} \cup {s[i] : i \in j + 1 .. k} BY <1>1
<1>3. QED BY <1>2 DEF Between, Rows

\* A request that stays where it is keeps its commits, when nothing it has changes.
LEMMA OthersKept ==
  ASSUME RowsIInv, NEW q \in Requests, script'[q] = script[q], at'[q] = at[q], durable'[q] = durable[q],
         \/ answer'[q] = answer[q] /\ pending'[q] = pending[q]
         \/ answer'[q] = "error"
         \/ answer'[q] = "ok" /\ answer[q] = "open" /\ at[q] = Len(script[q])
  PROVE  \E k \in 0 .. Len(script'[q]) : CommittedUpTo(q, k)'
<1>1. PICK k \in 0 .. Len(script[q]) : CommittedUpTo(q, k) BY DEF RowsIInv, KeptToACommit
<1>2. CommittedUpTo(q, k)' BY <1>1 DEF CommittedUpTo
<1>3. QED BY <1>1, <1>2

LEMMA RowsStep == DbIInv /\ DbIInv' /\ RowsIInv /\ [Next]_vars => RowsIInv'
<1> SUFFICES ASSUME DbIInv, DbIInv', RowsIInv, [Next]_vars PROVE RowsIInv'
  OBVIOUS
<1>0. TypeOK /\ NewIsEmpty /\ KeptToACommit BY DEF RowsIInv
<1>l. \A s \in Scripts \cup {<<>>} : Len(s) \in Nat BY ScriptsCommit
<1>t. /\ script \in [Requests -> Scripts \cup {<<>>}] /\ at \in [Requests -> Nat]
      /\ \A r \in Requests : at[r] <= Len(script[r]) /\ Len(script[r]) \in Nat
      /\ answer \in [Requests -> {"new", "open", "ok", "error"}]
      /\ pending \in [Requests -> SUBSET Writes] /\ durable \in [Requests -> SUBSET Writes]
  BY <1>0, <1>l DEF TypeOK
<1>k. /\ conn' \in [Requests -> Connections \cup {NoConnection}]
      /\ \A r, q \in Requests : conn'[r] = conn'[q] /\ conn'[r] # NoConnection => r = q
      /\ setting' \in [Connections -> Users \cup {Nobody}]
      /\ at' \in [Requests -> Nat] /\ answer' \in [Requests -> {"new", "open", "ok", "error"}]
  BY DEF DbIInv, Types, OneSessionEach
\* What is left to show of a step of one request.
<1>s. ASSUME NEW r \in Requests,
             script' \in [Requests -> Scripts \cup {<<>>}], at'[r] <= Len(script'[r]), answer'[r] # "new",
             pending' \in [Requests -> SUBSET Writes], durable' \in [Requests -> SUBSET Writes],
             \A q \in Requests : q # r =>
               /\ script'[q] = script[q] /\ at'[q] = at[q] /\ answer'[q] = answer[q]
               /\ pending'[q] = pending[q] /\ durable'[q] = durable[q],
             \E k \in 0 .. Len(script'[r]) : CommittedUpTo(r, k)'
      PROVE  RowsIInv'
  <2>1. \A q \in Requests : at'[q] <= Len(script'[q]) BY <1>s, <1>t
  <2>2. TypeOK' BY <1>k, <1>s, <2>1 DEF TypeOK
  <2>3. NewIsEmpty' BY <1>0, <1>s DEF NewIsEmpty
  <2>4. KeptToACommit'
    <3> SUFFICES ASSUME NEW q \in Requests PROVE \E k \in 0 .. Len(script'[q]) : CommittedUpTo(q, k)'
      BY DEF KeptToACommit
    <3>1. CASE q = r BY <1>s, <3>1
    <3>2. CASE q # r BY <1>s, <3>2, OthersKept
    <3>3. QED BY <3>1, <3>2
  <2>5. QED BY <2>2, <2>3, <2>4 DEF RowsIInv
<1>1. ASSUME NEW r \in Requests, Arrive(r) PROVE RowsIInv'
  <2>0. PICK route \in RoutesOf[r] : script' \in {[script EXCEPT ![r] = s] : s \in Branches(route)}
    BY <1>1 DEF Arrive
  <2>1. PICK s \in Branches(route) : script' = [script EXCEPT ![r] = s] BY <2>0
  <2>2. s \in Scripts BY <2>0, <2>1 DEF Scripts
  <2>3. /\ answer[r] = "new" /\ answer' = [answer EXCEPT ![r] = "open"]
        /\ UNCHANGED <<at, pending, durable>>
    BY <1>1 DEF Arrive
  <2>4. at[r] = 0 /\ pending[r] = {} /\ durable[r] = {} BY <1>0, <2>3 DEF NewIsEmpty
  <2>5. script'[r] = s /\ answer'[r] = "open" /\ Len(s) \in Nat BY <1>l, <1>t, <2>1, <2>2, <2>3
  <2>6. Rows(s, 0) = {} /\ Between(s, 0, 0) = {} BY DEF Rows, Between
  <2>7. CommittedUpTo(r, 0)' BY <2>3, <2>4, <2>5, <2>6 DEF CommittedUpTo
  <2>8. 0 \in 0 .. Len(script'[r]) /\ at'[r] <= Len(script'[r]) BY <2>3, <2>4, <2>5
  <2>9. \A q \in Requests : q # r => script'[q] = script[q] /\ answer'[q] = answer[q]
    BY <1>t, <2>1, <2>3
  <2>10. script' \in [Requests -> Scripts \cup {<<>>}] BY <1>t, <2>1, <2>2
  <2>11. QED BY <1>s, <1>t, <2>3, <2>5, <2>7, <2>8, <2>9, <2>10
<1>2. ASSUME NEW r \in Requests, Connect(r) \/ ConnectTimesOut(r) PROVE RowsIInv'
  <2>1. /\ answer[r] = "open" /\ UNCHANGED <<script, at, pending, durable>>
        /\ answer' = answer \/ answer' = [answer EXCEPT ![r] = "error"]
    BY <1>2 DEF Connect, ConnectTimesOut
  <2>2. \E k \in 0 .. Len(script'[r]) : CommittedUpTo(r, k)' BY <1>t, <2>1, OthersKept
  <2>3. QED BY <1>s, <1>t, <2>1, <2>2
<1>3. ASSUME NEW r \in Requests, Read(r) \/ Call(r) \/ SetIdentity(r) \/ Write(r) PROVE RowsIInv'
  <2>1. /\ answer[r] = "open" /\ ~Done(r) /\ at'[r] = at[r] + 1 /\ UNCHANGED <<script, answer, durable>>
        /\ \A q \in Requests : q # r => at'[q] = at[q]
        /\ \/ pending' = pending /\ Asked(r) \in {"read", "call", "identity"}
           \/ Asked(r) \in Writes /\ pending' = [pending EXCEPT ![r] = @ \cup {Asked(r)}]
    BY <1>3, <1>t DEF Read, Call, SetIdentity, Write, Ready, Advance
  <2>a. PICK n \in Nat : n = at[r] BY <1>t
  <2>b. PICK s : s = script[r] OBVIOUS
  <2>2. PICK k \in 0 .. Len(s) : CommittedUpTo(r, k) BY <1>0, <2>b DEF KeptToACommit
  <2>3. /\ k <= n /\ (\A i \in k + 1 .. n : s[i] # "commit") /\ pending[r] = Between(s, k, n)
        /\ n \in Nat /\ k \in Nat /\ n < Len(s) /\ Asked(r) = s[n + 1]
    BY <1>t, <2>a, <2>b, <2>1, <2>2 DEF CommittedUpTo, Done, Asked
  <2>4. Asked(r) # "commit" /\ (Asked(r) \in {"read", "call", "identity"} => Asked(r) \notin Writes)
    BY <2>1 DEF Writes
  <2>5. pending'[r] = Between(s, k, n + 1)
    <3>1. Between(s, k, n + 1) = Between(s, k, n) \cup ({s[n + 1]} \cap Writes) BY <2>3, OneFurther
    <3>2. pending[r] = Between(s, k, n) /\ Asked(r) = s[n + 1] BY <2>3
    <3>3. CASE pending' = pending /\ Asked(r) \notin Writes BY <3>1, <3>2, <3>3
    <3>4. CASE Asked(r) \in Writes /\ pending' = [pending EXCEPT ![r] = @ \cup {Asked(r)}]
      <4>1. pending'[r] = pending[r] \cup {Asked(r)} BY <1>t, <3>4
      <4>2. QED BY <3>1, <3>2, <3>4, <4>1
    <3>5. QED BY <2>1, <2>4, <3>3, <3>4
  <2>6. \A i \in k + 1 .. n + 1 : s[i] # "commit"
    <3>1. \A i \in k + 1 .. n + 1 : i \in k + 1 .. n \/ i = n + 1 BY <2>3
    <3>2. QED BY <2>3, <2>4, <3>1
  <2>7. at'[r] = n + 1 /\ script'[r] = s /\ script[r] = s BY <2>a, <2>b, <2>1
  <2>8. CommittedUpTo(r, k)' BY <2>1, <2>2, <2>3, <2>5, <2>6, <2>7 DEF CommittedUpTo
  <2>9. at'[r] <= Len(script'[r])
    <3>1. Len(s) \in Nat BY <1>t, <2>b
    <3>2. QED BY <2>3, <2>7, <3>1
  <2>10. pending' \in [Requests -> SUBSET Writes] /\ \A q \in Requests : q # r => pending'[q] = pending[q]
    BY <1>t, <2>1, ZenonT(60)
  <2>11. QED BY <1>s, <1>t, <2>1, <2>2, <2>7, <2>8, <2>9, <2>10
\* A commit, whether it returns or raises.
<1>c. ASSUME NEW r \in Requests, Ready(r, "commit"), durable' = [durable EXCEPT ![r] = @ \cup pending[r]],
             EndTransaction(r), script' = script,
             \/ Advance(r) /\ answer' = answer
             \/ at' = at /\ answer' = [answer EXCEPT ![r] = "error"]
      PROVE  RowsIInv'
  <2>a. PICK n \in Nat : n = at[r] BY <1>t
  <2>b. PICK s : s = script[r] OBVIOUS
  <2>1. /\ answer[r] = "open" /\ n < Len(s) /\ Len(s) \in Nat /\ s[n + 1] = "commit"
        /\ pending' = [pending EXCEPT ![r] = {}]
    BY <1>c, <1>t, <2>a, <2>b DEF Ready, Done, Asked, EndTransaction
  <2>2. PICK k \in 0 .. Len(s) : CommittedUpTo(r, k) BY <1>0, <2>b DEF KeptToACommit
  <2>3. k <= n /\ durable[r] = Rows(s, k) /\ pending[r] = Between(s, k, n) /\ k \in Nat
    BY <2>a, <2>b, <2>1, <2>2 DEF CommittedUpTo
  <2>4. /\ durable'[r] = Rows(s, n + 1) /\ pending'[r] = {}
        /\ \A q \in Requests : q # r => durable'[q] = durable[q] /\ pending'[q] = pending[q]
        /\ pending' \in [Requests -> SUBSET Writes] /\ durable' \in [Requests -> SUBSET Writes]
    <3>1. "commit" \notin Writes BY DEF Writes
    <3>2. Rows(s, n) = Rows(s, k) \cup Between(s, k, n) BY <2>1, <2>3, FirstAndBetween
    <3>3. Between(s, 0, n + 1) = Between(s, 0, n)
      <4>1. Between(s, 0, n + 1) = Between(s, 0, n) \cup ({s[n + 1]} \cap Writes) BY OneFurther
      <4>2. QED BY <2>1, <3>1, <4>1
    <3>4. durable'[r] = Rows(s, n + 1) BY <1>c, <1>t, <2>3, <3>2, <3>3 DEF Rows
    <3>5. QED BY <1>c, <1>t, <2>1, <3>4
  <2>5. /\ answer'[r] \in {"open", "error"} /\ (answer'[r] = "open" => at'[r] = n + 1)
        /\ at'[r] \in {n, n + 1}
        /\ \A q \in Requests : q # r => at'[q] = at[q] /\ answer'[q] = answer[q]
    BY <1>c, <1>t, <2>a, <2>1 DEF Advance
  <2>6. PICK m \in Nat : m = n + 1 OBVIOUS
  <2>7. script'[r] = s BY <1>c, <2>b
  <2>8. CommittedUpTo(r, m)'
    <3>1. Between(s, m, m) = {} BY NoneBetween
    <3>2. s[m] = "commit" /\ durable'[r] = Rows(s, m) BY <2>1, <2>4, <2>6
    <3>3. answer'[r] = "open" => at'[r] = m /\ pending'[r] = Between(s, m, m)
      BY <2>4, <2>5, <2>6, <3>1
    <3>4. answer'[r] = "open" => m <= at'[r] /\ \A i \in m + 1 .. at'[r] : s[i] # "commit"
      BY <3>3
    <3>5. QED BY <2>5, <2>7, <3>2, <3>3, <3>4 DEF CommittedUpTo
  <2>9. m \in 0 .. Len(s) /\ at'[r] <= Len(s) BY <2>1, <2>5, <2>6
  <2>10. \E j \in 0 .. Len(script'[r]) : CommittedUpTo(r, j)' BY <2>7, <2>8, <2>9
  <2>11. QED BY <1>c, <1>s, <1>t, <2>4, <2>5, <2>7, <2>9, <2>10
<1>4. ASSUME NEW r \in Requests, Commit(r) PROVE RowsIInv'
  BY <1>4, <1>c DEF Commit
<1>5. ASSUME NEW r \in Requests, Finish(r) PROVE RowsIInv'
  <2>1. /\ answer[r] = "open" /\ at[r] = Len(script[r]) /\ UNCHANGED <<script, at, durable>>
        /\ answer' = [answer EXCEPT ![r] = "ok"] /\ pending' = [pending EXCEPT ![r] = {}]
    BY <1>5 DEF Finish, Done, CloseSession, EndTransaction
  <2>2. \E k \in 0 .. Len(script'[r]) : CommittedUpTo(r, k)' BY <1>t, <2>1, OthersKept
  <2>3. QED BY <1>s, <1>t, <2>1, <2>2
<1>6. ASSUME NEW r \in Requests, Raise(r) PROVE RowsIInv'
  <2>1. /\ answer[r] = "open" /\ ~Done(r) /\ UNCHANGED <<script, at>>
        /\ answer' = [answer EXCEPT ![r] = "error"]
    BY <1>6 DEF Raise
  <2>2. CASE CloseSession(r)
    <3>1. durable' = durable /\ pending' = [pending EXCEPT ![r] = {}]
      BY <2>2 DEF CloseSession, EndTransaction
    <3>2. \E k \in 0 .. Len(script'[r]) : CommittedUpTo(r, k)' BY <1>t, <2>1, <3>1, OthersKept
    <3>3. QED BY <1>s, <1>t, <2>1, <3>1, <3>2
  <2>3. CASE Asked(r) = "commit" /\ durable' = [durable EXCEPT ![r] = @ \cup pending[r]] /\ EndTransaction(r)
    BY <1>c, <2>1, <2>3 DEF Ready
  <2>4. QED BY <1>6, <2>2, <2>3 DEF Raise
<1>7. CASE UNCHANGED vars
  <2>1. TypeOK' /\ NewIsEmpty' BY <1>0, <1>7 DEF vars, TypeOK, NewIsEmpty
  <2>2. KeptToACommit' BY <1>0, <1>7 DEF vars, KeptToACommit, CommittedUpTo
  <2>3. QED BY <2>1, <2>2 DEF RowsIInv
<1>8. QED BY <1>1, <1>2, <1>3, <1>4, <1>5, <1>6, <1>7 DEF Next, Step

LEMMA RowsInvariance == Spec => []RowsIInv
<1>1. DbIInv /\ RowsIInv /\ [Next]_vars => (DbIInv /\ RowsIInv)' BY DbStep, RowsStep
<1>2. QED BY <1>1, DbInitially, RowsInitially, PTL DEF Spec

\* Types, and that no request gets past the end of its branch.
THEOREM DbTypesHold == Spec => []TypeOK
<1>1. RowsIInv => TypeOK BY DEF RowsIInv
<1>2. QED BY <1>1, RowsInvariance, PTL

\* What a request tells done is durable, and a failure at any statement, commit or call
\* leaves whole transactions: each branch commits all that it writes (audit_service.py,
\* document_service.py, session_service.py), and get_db commits nothing.
THEOREM DoneIsDurable == Spec => []DurableInFull
<1>1. RowsIInv => DurableInFull
  <2> SUFFICES ASSUME RowsIInv, NEW r \in Requests
      PROVE  /\ answer[r] = "ok" => \A i \in 1 .. Len(script[r]) :
                  script[r][i] \in Writes => script[r][i] \in durable[r]
             /\ Whole(durable[r])
    BY DEF DurableInFull, Whole
  <2> DEFINE s == script[r]
  <2>1. PICK k \in 0 .. Len(s) : CommittedUpTo(r, k) BY DEF RowsIInv, KeptToACommit
  <2>2. s \in Scripts \cup {<<>>} BY DEF RowsIInv, TypeOK
  <2>3. s \in Seq(Asks) /\ \E E : Commits(s, {}, E) BY <2>2, ScriptsCommit
  <2>4. Len(s) \in Nat BY <2>3
  <2>5. /\ \A i \in 1 .. Len(s) : s[i] \in Writes => \E j \in i .. Len(s) : s[j] = "commit"
        /\ \A j \in 1 .. Len(s) : s[j] = "commit" => Whole({} \cup Rows(s, j))
    BY <2>3 DEF Commits
  <2>6. durable[r] = Rows(s, k) /\ (k = 0 \/ s[k] = "commit") BY <2>1 DEF CommittedUpTo
  <2>7. ASSUME answer[r] = "ok", NEW i \in 1 .. Len(s), s[i] \in Writes PROVE s[i] \in durable[r]
    <3>1. \A j \in k + 1 .. Len(s) : s[j] # "commit" BY <2>1, <2>7 DEF CommittedUpTo
    <3>2. PICK j \in i .. Len(s) : s[j] = "commit" BY <2>5, <2>7
    <3> HIDE DEF s
    <3>3. i \in 0 + 1 .. k BY <2>1, <2>4, <3>1, <3>2
    <3>4. QED BY <2>6, <2>7, <3>3 DEF Rows, Between
  <2>8. Whole(durable[r])
    <3>1. CASE k = 0
      <4>1. Rows(s, 0) = {} BY DEF Rows, Between
      <4>2. QED BY <2>6, <3>1, <4>1 DEF Whole
    <3>2. CASE k # 0
      <4>1. k \in 1 .. Len(s) BY <2>1, <2>4, <3>2
      <4>2. {} \cup Rows(s, k) = Rows(s, k) OBVIOUS
      <4>3. QED BY <2>5, <2>6, <3>2, <4>1, <4>2
    <3>3. QED BY <3>1, <3>2
  <2>9. QED BY <2>7, <2>8
<1>2. QED BY <1>1, RowsInvariance, PTL
=============================================================================
