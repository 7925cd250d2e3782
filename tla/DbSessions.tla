----------------------------- MODULE DbSessions -----------------------------
(***************************************************************************)
(* The database session of a request: get_db, the connection pool, the     *)
(* transactions a handler runs and the row-level security identity that    *)
(* get_db_with_rls sets for the first of them.  A route is the sequence of *)
(* what it asks of the session; the branch taken depends on data.          *)
(***************************************************************************)
EXTENDS Naturals, Sequences, FiniteSets

CONSTANTS
  Requests,
  UserOf,        \* the user of a request
  RoutesOf,      \* the routes a request may ask for
  Connections,   \* pool_size + max_overflow
  Nobody,        \* app.current_user_id is not set
  NoConnection,
  CallsMayFail   \* statements, commits and calls of other services may raise

\* The routes that take a session of get_db, over get_db_with_rls or directly.
Routes == {"register", "token", "refresh", "logout", "logout all", "create session",
           "list sessions", "history", "end session", "query", "ingest", "list documents",
           "delete", "audit logs"}

ASSUME DbAssumption ==
  /\ RoutesOf \in [Requests -> SUBSET Routes]
  /\ Nobody \notin {UserOf[r] : r \in Requests}
  /\ NoConnection \notin Connections
  /\ CallsMayFail \in BOOLEAN

Users == {UserOf[r] : r \in Requests}

-----------------------------------------------------------------------------
(* What a route asks for: "read" (a SELECT), "identity" (set_config), the  *)
(* name of a row it writes, "commit", and "call" for other work.           *)

Writes == {"user", "session", "status", "audit", "question", "answer",
           "document", "chunk events", "deleting", "delete event"}

\* get_current_user, then set_rls_user_id in the same transaction.
Authenticated == <<"read", "identity">>

Register == {<<"read", "user", "commit", "read">>}
Token == {<<"read", "call">>}
RefreshToken == {<<"call", "read", "call">>}
Logout == {<<"read", "call">>}

CreateSession == {Authenticated \o <<"session", "commit", "read">>}
ListSessions == {Authenticated \o <<"read">>}
History == {Authenticated \o <<"read", "read">>}
EndSession == {Authenticated \o <<"status", "commit", "call">>,
               Authenticated \o <<"read", "read">>}

\* add_turn: ownership, turn and count, refresh, push to Redis.
AddTurn(turn) == <<"read", turn, "commit", "read", "call">>
Audit == <<"audit", "commit">>

\* With a session: ownership, the cache, maybe the history; the pipeline; the audit record;
\* both turns.
Query ==
  {Authenticated \o <<"call">> \o Audit} \cup
  {Authenticated \o memory \o <<"call">> \o Audit \o AddTurn("question") \o AddTurn("answer") :
     memory \in {<<"read", "call">>, <<"read", "call", "read", "read", "call">>}}

Ingest == {Authenticated \o <<"document", "chunk events", "commit", "read">>}
ListDocuments == {Authenticated \o <<"read">>}
Delete == {Authenticated \o <<"read">>,
           Authenticated \o <<"read", "deleting", "delete event", "commit">>}
AuditLogs == {Authenticated \o <<"read", "read">>}

Branches(route) ==
  CASE route = "register" -> Register
    [] route = "token" -> Token
    [] route = "refresh" -> RefreshToken
    [] route \in {"logout", "logout all"} -> Logout
    [] route = "create session" -> CreateSession
    [] route = "list sessions" -> ListSessions
    [] route = "history" -> History
    [] route = "end session" -> EndSession
    [] route = "query" -> Query
    [] route = "ingest" -> Ingest
    [] route = "list documents" -> ListDocuments
    [] route = "delete" -> Delete
    [] route = "audit logs" -> AuditLogs

-----------------------------------------------------------------------------
VARIABLES
  script,    \* per request: the branch it takes
  at,        \* how much of it has run
  answer,    \* "new", "open", "ok", "error"
  conn,      \* the connection its session has checked out
  setting,   \* per connection: app.current_user_id
  pending,   \* rows written by the open transaction
  durable    \* rows committed

vars == <<script, at, answer, conn, setting, pending, durable>>

Init ==
  /\ script = [r \in Requests |-> <<>>]
  /\ at = [r \in Requests |-> 0]
  /\ answer = [r \in Requests |-> "new"]
  /\ conn = [r \in Requests |-> NoConnection]
  /\ setting = [c \in Connections |-> Nobody]
  /\ pending = [r \in Requests |-> {}]
  /\ durable = [r \in Requests |-> {}]

\* Seeded bug: a session at module level, which all requests use.
SharedConnection == Connections
Free == {c \in Connections : \A r \in Requests : conn[r] # c}
Done(r) == at[r] = Len(script[r])
Asked(r) == script[r][at[r] + 1]
Advance(r) == at' = [at EXCEPT ![r] = @ + 1]

Arrive(r) ==
  /\ answer[r] = "new"
  /\ \E route \in RoutesOf[r] : script' \in {[script EXCEPT ![r] = s] : s \in Branches(route)}
  /\ answer' = [answer EXCEPT ![r] = "open"]
  /\ UNCHANGED <<at, conn, setting, pending, durable>>

\* A statement needs a connection: the session's own, or any free one of the pool.
Connect(r) ==
  /\ answer[r] = "open" /\ conn[r] = NoConnection
  /\ ~Done(r) /\ Asked(r) # "call"
  /\ \E c \in Free : conn' = [conn EXCEPT ![r] = c]
  /\ UNCHANGED <<script, at, answer, setting, pending, durable>>

\* pool_timeout
ConnectTimesOut(r) ==
  /\ answer[r] = "open" /\ conn[r] = NoConnection
  /\ ~Done(r) /\ Asked(r) # "call"
  /\ Free = {}
  /\ answer' = [answer EXCEPT ![r] = "error"]
  /\ UNCHANGED <<script, at, conn, setting, pending, durable>>

Ready(r, what) ==
  /\ answer[r] = "open" /\ ~Done(r)
  /\ Asked(r) = what

Read(r) ==
  /\ Ready(r, "read") /\ conn[r] # NoConnection
  /\ Advance(r)
  /\ UNCHANGED <<script, answer, conn, setting, pending, durable>>

\* Work outside the database keeps whatever the session holds.
Call(r) ==
  /\ Ready(r, "call")
  /\ Advance(r)
  /\ UNCHANGED <<script, answer, conn, setting, pending, durable>>

\* set_config(..., true)
SetIdentity(r) ==
  /\ Ready(r, "identity") /\ conn[r] # NoConnection
  /\ setting' = [setting EXCEPT ![conn[r]] = UserOf[r]]
  /\ Advance(r)
  /\ UNCHANGED <<script, answer, conn, pending, durable>>

Write(r) ==
  /\ \E w \in Writes : Ready(r, w) /\ pending' = [pending EXCEPT ![r] = @ \cup {w}]
  /\ conn[r] # NoConnection
  /\ Advance(r)
  /\ UNCHANGED <<script, answer, conn, setting, durable>>

\* Seeded bug: SET SESSION, which outlives the transaction.
EndTransactionKeepsSetting(r) ==
  /\ conn' = [conn EXCEPT ![r] = NoConnection]
  /\ pending' = [pending EXCEPT ![r] = {}]
  /\ UNCHANGED setting

\* A transaction ends: its settings with it, and the connection is back in the pool.
EndTransaction(r) ==
  /\ setting' = [c \in Connections |-> IF c = conn[r] THEN Nobody ELSE setting[c]]
  /\ conn' = [conn EXCEPT ![r] = NoConnection]
  /\ pending' = [pending EXCEPT ![r] = {}]

Commit(r) ==
  /\ Ready(r, "commit") /\ conn[r] # NoConnection
  /\ durable' = [durable EXCEPT ![r] = @ \cup pending[r]]
  /\ EndTransaction(r)
  /\ Advance(r)
  /\ UNCHANGED <<script, answer>>

\* Seeded bug: get_db commits whatever there is.
CommitOnExit(r) ==
  /\ durable' = [durable EXCEPT ![r] = @ \cup pending[r]]
  /\ EndTransaction(r)

\* Seeded bug: a session that is not closed.
LeakSession(r) == UNCHANGED <<conn, setting, pending, durable>>

\* get_db: rollback on an exception, close in any case; neither commits.
CloseSession(r) ==
  /\ EndTransaction(r)
  /\ UNCHANGED durable

Finish(r) ==
  /\ answer[r] = "open" /\ Done(r)
  /\ answer' = [answer EXCEPT ![r] = "ok"]
  /\ CloseSession(r)
  /\ UNCHANGED <<script, at>>

\* A 404 or 409 after a read, or a failing call.  A commit may take effect and raise.
Raise(r) ==
  /\ answer[r] = "open" /\ ~Done(r)
  /\ conn[r] # NoConnection \/ Asked(r) = "call"
  /\ CallsMayFail \/ (at[r] > 0 /\ script[r][at[r]] = "read")
  /\ answer' = [answer EXCEPT ![r] = "error"]
  /\ \/ CloseSession(r)
     \/ /\ Asked(r) = "commit"
        /\ durable' = [durable EXCEPT ![r] = @ \cup pending[r]]
        /\ EndTransaction(r)
  /\ UNCHANGED <<script, at>>

Step(r) ==
  \/ Connect(r)
  \/ Read(r) \/ Call(r) \/ SetIdentity(r) \/ Write(r) \/ Commit(r)
  \/ Finish(r) \/ Raise(r)

Next == \E r \in Requests : Arrive(r) \/ ConnectTimesOut(r) \/ Step(r)

Spec == Init /\ [][Next]_vars

\* Statements, calls and the event loop go on; nobody has to give up waiting.
FairSpec == Spec /\ \A r \in Requests : WF_vars(Step(r))
-----------------------------------------------------------------------------
Scripts == UNION {Branches(route) : route \in UNION {RoutesOf[r] : r \in Requests}}

\* Types; no two sessions share a connection.
TypeOK ==
  /\ script \in [Requests -> Scripts \cup {<<>>}]
  /\ at \in [Requests -> Nat]
  /\ \A r \in Requests : at[r] <= Len(script[r])
  /\ answer \in [Requests -> {"new", "open", "ok", "error"}]
  /\ conn \in [Requests -> Connections \cup {NoConnection}]
  /\ \A r, q \in Requests : conn[r] = conn[q] /\ conn[r] # NoConnection => r = q
  /\ setting \in [Connections -> Users \cup {Nobody}]
  /\ pending \in [Requests -> SUBSET Writes]
  /\ durable \in [Requests -> SUBSET Writes]

Happened(r, what) == \E i \in 1..at[r] : script[r][i] = what

\* A connection is handed over with the identity of nobody, whoever holds it finds its
\* own user or nobody there ("SET SESSION would persist across connection pool reuse",
\* rls.py), and from set_config to its first commit a request runs as its user.
OwnIdentityOnly ==
  /\ \A c \in Connections, r \in Requests : setting[c] = UserOf[r] =>
       \E q \in Requests : conn[q] = c /\ UserOf[q] = UserOf[r]
  /\ \A r \in Requests : answer[r] = "open" /\ Happened(r, "identity") /\ ~Happened(r, "commit")
       => conn[r] # NoConnection /\ setting[conn[r]] = UserOf[r]

\* What a request tells done is durable, and what it leaves behind when it fails is
\* whole transactions: never the document without its events, nor turns without the
\* audit record ("every call is audit-logged").
DurableInFull == \A r \in Requests :
  /\ answer[r] = "ok" => \A i \in 1..Len(script[r]) : script[r][i] \in Writes => script[r][i] \in durable[r]
  /\ "document" \in durable[r] <=> "chunk events" \in durable[r]
  /\ "deleting" \in durable[r] <=> "delete event" \in durable[r]
  /\ "answer" \in durable[r] => "question" \in durable[r]
  /\ "question" \in durable[r] => "audit" \in durable[r]

\* Every request ends, even if all share one connection: nobody waits for a second one.
RequestsEnd == \A r \in Requests : answer[r] = "open" ~> answer[r] \in {"ok", "error"}
=============================================================================
