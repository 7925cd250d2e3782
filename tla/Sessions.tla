------------------------------ MODULE Sessions ------------------------------
(***************************************************************************)
(* Conversation sessions: the durable record in Postgres (sessions,        *)
(* session_turns), the working memory in Redis that a query reads before   *)
(* its pipeline and writes after it, and the end of a session with the     *)
(* Celery task that summarizes it.                                         *)
(***************************************************************************)
EXTENDS Naturals, Sequences, FiniteSets, Functions

CONSTANTS
  Sessions,         \* session ids
  Queries,          \* POST /v1/query requests with a session_id
  EndRequests,      \* POST /v1/sessions/{id}/end requests
  SessionOf,        \* the session id each request carries
  Window,           \* CONTEXT_WINDOW_TURNS
  MaxTaskRetries,   \* max_retries of summarize_session
  TaskFailures,     \* bound: how many executions of a task may raise
  Overlapping,      \* queries of one session may overlap
  RedisMayFail,     \* a push to Redis may raise
  ExpiresMidQuery,  \* the TTL may run out while a query is being answered
  ApiMayDie,        \* a request may be lost in the middle: process, commit, broker
  AcksMayBeLost     \* a finished task may be delivered again

ASSUME SessionsAssumption ==
  /\ SessionOf \in [Queries \cup EndRequests -> Sessions]
  /\ Window \in Nat \ {0}
  /\ {MaxTaskRetries, TaskFailures} \subseteq Nat
  /\ {Overlapping, RedisMayFail, ExpiresMidQuery, ApiMayDie, AcksMayBeLost} \subseteq BOOLEAN

VARIABLES
  status,       \* sessions.status, "absent" before the INSERT commits
  history,      \* session_turns of a session in created_at order
  turn_count,   \* sessions.turn_count
  cache,        \* the Redis list session_turns:{id}, empty when it has expired
  clock,        \* datetime.now: the created_at of the next turn
  pc, role,     \* per query: position in the handler, role of the turn in hand
  read_count,   \* per query: turn_count as get_session returned it
  created_at,   \* per query: created_at of the turn in hand
  snapshot,     \* per query: the turns get_history returned
  end,          \* per end request: position in end_session
  tasks         \* messages of summarize_session not yet acknowledged

record == <<status, history, turn_count>>
turn == <<role, read_count, created_at>>
vars == <<record, cache, clock, pc, turn, snapshot, end, tasks>>

Turn(q) == [query |-> q, role |-> role[q], created_at |-> created_at[q]]

\* Seeded bug: LTRIM key -N-1 -1.
LastTurnsAndOne(turns) ==
  IF Len(turns) <= Window THEN turns ELSE SubSeq(turns, Len(turns) - Window, Len(turns))

\* turns[-CONTEXT_WINDOW_TURNS:], which is also LTRIM key -N -1.
LastTurns(turns) ==
  IF Len(turns) <= Window THEN turns ELSE SubSeq(turns, Len(turns) - Window + 1, Len(turns))

InFlight(q) == pc[q] \notin {"new", "done"}
Idle(s) == \A q \in Queries : SessionOf[q] = s => ~InFlight(q)

Init ==
  /\ status = [s \in Sessions |-> "absent"]
  /\ history = [s \in Sessions |-> <<>>]
  /\ turn_count = [s \in Sessions |-> 0]
  /\ cache = [s \in Sessions |-> <<>>]
  /\ clock = 1
  /\ pc = [q \in Queries |-> "new"]
  /\ role = [q \in Queries |-> "user"]
  /\ read_count = [q \in Queries |-> 0]
  /\ created_at = [q \in Queries |-> 0]
  /\ snapshot = [q \in Queries |-> <<>>]
  /\ end = [e \in EndRequests |-> "new"]
  /\ tasks = {}

CreateSession(s) ==
  /\ status[s] = "absent"
  /\ status' = [status EXCEPT ![s] = "active"]
  /\ UNCHANGED <<history, turn_count, cache, clock, pc, turn, snapshot, end, tasks>>

-----------------------------------------------------------------------------
(***************************************************************************)
(* A query with a session id: get_working_memory, the pipeline (nothing    *)
(* here), then add_turn for the question and add_turn for the answer.      *)
(***************************************************************************)
\* get_recent_turns; a hit goes straight to the pipeline.
LookUp(q) ==
  LET s == SessionOf[q] IN
  /\ pc[q] = "new" /\ status[s] # "absent"
  /\ Overlapping \/ Idle(s)
  /\ pc' = [pc EXCEPT ![q] = IF cache[s] # <<>> THEN "turn" ELSE "history"]
  /\ UNCHANGED <<record, cache, clock, turn, snapshot, end, tasks>>

\* The cache miss, read from Postgres ...
ReadHistory(q) ==
  /\ pc[q] = "history"
  /\ snapshot' = [snapshot EXCEPT ![q] = history[SessionOf[q]]]
  /\ pc' = [pc EXCEPT ![q] = "warm"]
  /\ UNCHANGED <<record, cache, clock, turn, end, tasks>>

\* Seeded bug: the first turns of the session instead of the last.
WarmWithFirstTurns(q) ==
  LET recent == SubSeq(snapshot[q], 1, IF Len(snapshot[q]) < Window THEN Len(snapshot[q]) ELSE Window) IN
  /\ pc[q] = "warm"
  /\ cache' = IF recent = <<>> THEN cache ELSE [cache EXCEPT ![SessionOf[q]] = recent]
  /\ snapshot' = [snapshot EXCEPT ![q] = <<>>]
  /\ pc' = [pc EXCEPT ![q] = "turn"]
  /\ UNCHANGED <<record, clock, turn, end, tasks>>

\* ... and warm_cache_from_turns: one MULTI of DEL, RPUSHes and EXPIRE.
WarmCache(q) ==
  LET recent == LastTurns(snapshot[q]) IN
  /\ pc[q] = "warm"
  /\ cache' = IF recent = <<>> THEN cache ELSE [cache EXCEPT ![SessionOf[q]] = recent]
  /\ snapshot' = [snapshot EXCEPT ![q] = <<>>]
  /\ pc' = [pc EXCEPT ![q] = "turn"]
  /\ UNCHANGED <<record, clock, turn, end, tasks>>

\* add_turn up to its commit.  Its ended_at check never fires: only end_session of
\* SessionService sets ended_at, and no route calls it.
ReadSession(q) ==
  /\ pc[q] = "turn"
  /\ read_count' = [read_count EXCEPT ![q] = turn_count[SessionOf[q]]]
  /\ created_at' = [created_at EXCEPT ![q] = clock]
  /\ clock' = clock + 1
  /\ pc' = [pc EXCEPT ![q] = "commit"]
  /\ UNCHANGED <<record, cache, role, snapshot, end, tasks>>

InsertAfter(turns, n, t) == SubSeq(turns, 1, n) \o <<t>> \o SubSeq(turns, n + 1, Len(turns))

\* Seeded bug: newest first, as in list_sessions.
InsertNewestFirst(turns, t) ==
  InsertAfter(turns, Cardinality({i \in 1 .. Len(turns) : turns[i].created_at > t.created_at}), t)

\* The place of a turn in ORDER BY created_at.
InsertTurn(turns, t) ==
  InsertAfter(turns, Cardinality({i \in 1 .. Len(turns) : turns[i].created_at < t.created_at}), t)

\* Seeded bug: an exception of the commit is caught like one of the push.
CommitTurnUnnoticed(q) ==
  /\ pc[q] = "commit"
  /\ pc' = [pc EXCEPT ![q] = "push"]
  /\ UNCHANGED <<record, cache, clock, turn, snapshot, end, tasks>>

\* Seeded bug: the counter is raised in SQL, and once more in the handler.
CommitTurnTwiceCounted(q) ==
  LET s == SessionOf[q] IN
  /\ pc[q] = "commit"
  /\ history' = [history EXCEPT ![s] = InsertTurn(@, Turn(q))]
  /\ turn_count' = [turn_count EXCEPT ![s] = @ + 2]
  /\ pc' = [pc EXCEPT ![q] = "push"]
  /\ UNCHANGED <<status, cache, clock, turn, snapshot, end, tasks>>

\* The turn and turn_count = (the value read) + 1, in one commit.
CommitTurn(q) ==
  LET s == SessionOf[q] IN
  /\ pc[q] = "commit"
  /\ history' = [history EXCEPT ![s] = InsertTurn(@, Turn(q))]
  /\ turn_count' = [turn_count EXCEPT ![s] = read_count[q] + 1]
  /\ pc' = [pc EXCEPT ![q] = "push"]
  /\ UNCHANGED <<status, cache, clock, turn, snapshot, end, tasks>>

\* After the question comes the answer, after the answer the response.
NextTurn(q) ==
  /\ pc' = [pc EXCEPT ![q] = IF role[q] = "user" THEN "turn" ELSE "done"]
  /\ role' = [role EXCEPT ![q] = "assistant"]
  /\ read_count' = [read_count EXCEPT ![q] = 0]
  /\ created_at' = [created_at EXCEPT ![q] = 0]

\* push_turn: one MULTI of RPUSH, LTRIM and EXPIRE.
PushTurn(q) ==
  /\ pc[q] = "push"
  /\ cache' = [cache EXCEPT ![SessionOf[q]] = LastTurns(Append(@, Turn(q)))]
  /\ NextTurn(q)
  /\ UNCHANGED <<record, clock, snapshot, end, tasks>>

\* It raises without having taken effect: a warning, and the query goes on.
PushFails(q) ==
  /\ RedisMayFail
  /\ pc[q] = "push"
  /\ NextTurn(q)
  /\ UNCHANGED <<record, cache, clock, snapshot, end, tasks>>

\* The pipeline raises before the first turn; or the process is lost, or a commit
\* raises (with or without effect), anywhere.
QueryEndsEarly(q) ==
  /\ InFlight(q)
  /\ ApiMayDie \/ (pc[q] = "turn" /\ role[q] = "user")
  /\ pc' = [pc EXCEPT ![q] = "done"]
  /\ snapshot' = [snapshot EXCEPT ![q] = <<>>]
  /\ UNCHANGED <<record, cache, clock, turn, end, tasks>>

\* REDIS_SESSION_TTL_SECONDS after the last push or warming.
ExpireCache(s) ==
  /\ cache[s] # <<>>
  /\ ExpiresMidQuery \/ Idle(s)
  /\ cache' = [cache EXCEPT ![s] = <<>>]
  /\ UNCHANGED <<record, clock, pc, turn, snapshot, end, tasks>>

-----------------------------------------------------------------------------
(***************************************************************************)
(* The end of a session, in the route and in the worker.                   *)
(***************************************************************************)
\* Seeded bug: the UPDATE has no condition on the status.
EndAnySession(e) ==
  LET s == SessionOf[e] IN
  /\ end[e] = "new" /\ status[s] # "absent"
  /\ status' = [status EXCEPT ![s] = "summarization_pending"]
  /\ end' = [end EXCEPT ![e] = "enqueue"]
  /\ UNCHANGED <<history, turn_count, cache, clock, pc, turn, snapshot, tasks>>

\* UPDATE ... WHERE status = 'active' and its commit; a miss answers at once.
EndSession(e) ==
  LET s == SessionOf[e] IN
  /\ end[e] = "new" /\ status[s] # "absent"
  /\ IF status[s] = "active"
     THEN /\ status' = [status EXCEPT ![s] = "summarization_pending"]
          /\ end' = [end EXCEPT ![e] = "enqueue"]
     ELSE end' = [end EXCEPT ![e] = "answered"] /\ UNCHANGED status
  /\ UNCHANGED <<history, turn_count, cache, clock, pc, turn, snapshot, tasks>>

\* summarize_session.delay
Enqueue(e) ==
  /\ end[e] = "enqueue"
  /\ tasks' = tasks \cup {[session |-> SessionOf[e], retries |-> 0]}
  /\ end' = [end EXCEPT ![e] = "enqueued"]
  /\ UNCHANGED <<record, cache, clock, pc, turn, snapshot>>

\* The broker refuses the message, or the process is lost before delay.
EndDies(e) ==
  /\ ApiMayDie
  /\ end[e] = "enqueue"
  /\ end' = [end EXCEPT ![e] = "answered"]
  /\ UNCHANGED <<record, cache, clock, pc, turn, snapshot, tasks>>

\* UPDATE ... WHERE status = 'summarization_pending'
Summarize(s) == IF status[s] = "summarization_pending"
                THEN [status EXCEPT ![s] = "summarized"] ELSE status

\* One execution, acknowledged late: a worker lost after its commit leaves the
\* message to be delivered again.
RunTask(m) ==
  /\ status' = Summarize(m.session)
  /\ tasks' \in {tasks \ {m}} \cup (IF AcksMayBeLost THEN {tasks} ELSE {})
  /\ UNCHANGED <<history, turn_count, cache, clock, pc, turn, snapshot, end>>

\* Seeded bug: off by one at the retry limit.
RetryOnceLess(m) ==
  IF m.retries + 1 < MaxTaskRetries THEN {[m EXCEPT !.retries = @ + 1]} ELSE {}

\* self.retry: a new message until max_retries, then the exception.
Retry(m) == IF m.retries < MaxTaskRetries THEN {[m EXCEPT !.retries = @ + 1]} ELSE {}

\* It raises, before or after its commit.
TaskFails(m) ==
  /\ m.retries < TaskFailures
  /\ status' \in {status, Summarize(m.session)}
  /\ tasks' = (tasks \ {m}) \cup Retry(m)
  /\ UNCHANGED <<history, turn_count, cache, clock, pc, turn, snapshot, end>>

-----------------------------------------------------------------------------
Answer(q) ==
  \/ ReadHistory(q) \/ WarmCache(q) \/ ReadSession(q) \/ CommitTurn(q)
  \/ PushTurn(q) \/ PushFails(q) \/ QueryEndsEarly(q)

Work(s) == \E m \in tasks : m.session = s /\ (RunTask(m) \/ TaskFails(m))

Next ==
  \/ \E s \in Sessions : CreateSession(s) \/ ExpireCache(s) \/ Work(s)
  \/ \E q \in Queries : LookUp(q) \/ Answer(q)
  \/ \E e \in EndRequests : EndSession(e) \/ Enqueue(e) \/ EndDies(e)

Spec == Init /\ [][Next]_vars

\* A handler that has begun goes on, and a worker takes the messages of the queue.
FairSpec ==
  /\ Spec
  /\ \A e \in EndRequests : WF_vars(Enqueue(e) \/ EndDies(e))
  /\ \A s \in Sessions : WF_vars(Work(s))

-----------------------------------------------------------------------------
(***************************************************************************)
(* Properties.                                                             *)
(***************************************************************************)
Status == {"absent", "active", "summarization_pending", "summarized"}
Role == {"user", "assistant"}
TurnRecord == [query : Queries, role : Role, created_at : Nat]

\* The variables hold values of the columns, keys and locals they stand for, and the
\* working memory never exceeds its window.
TypeOK ==
  /\ status \in [Sessions -> Status]
  /\ history \in [Sessions -> Seq(TurnRecord)]
  /\ turn_count \in [Sessions -> Nat]
  /\ cache \in [Sessions -> Seq(TurnRecord)]
  /\ \A s \in Sessions : Len(cache[s]) <= Window
  /\ clock \in Nat
  /\ pc \in [Queries -> {"new", "history", "warm", "turn", "commit", "push", "done"}]
  /\ role \in [Queries -> Role]
  /\ read_count \in [Queries -> Nat]
  /\ created_at \in [Queries -> Nat]
  /\ snapshot \in [Queries -> Seq(TurnRecord)]
  /\ end \in [EndRequests -> {"new", "enqueue", "enqueued", "answered"}]
  /\ tasks \subseteq [session : Sessions, retries : Nat]

\* Nothing enters the working memory that Postgres does not hold, whatever mixture
\* of pushes, warmings with old snapshots, expiries and lost processes made it up.
WorkingMemoryIsDurable ==
  \A s \in Sessions : Range(cache[s]) \subseteq Range(history[s])

\* turn_count may fall behind the turns (concurrent queries overwrite each other's
\* increment) but is never ahead of them.
TurnCountAtMostTurns == \A s \in Sessions : turn_count[s] <= Len(history[s])

\* In a session's history no answer stands without, or before, its question.
QuestionsPrecedeAnswers ==
  \A s \in Sessions : \A i \in 1 .. Len(history[s]) : history[s][i].role = "assistant" =>
    \E j \in 1 .. i - 1 : history[s][j].role = "user" /\ history[s][j].query = history[s][i].query

\* "Proves the enqueue-once guarantee" (summarization.py): of any number of end
\* requests at most one enqueues the session's task, and none for an active session.
EnqueuedOnce ==
  \A e, f \in EndRequests :
    end[e] \in {"enqueue", "enqueued"} =>
      /\ status[SessionOf[e]] \in {"summarization_pending", "summarized"}
      /\ end[f] \in {"enqueue", "enqueued"} /\ SessionOf[e] = SessionOf[f] => e = f

\* Late, repeated and redelivered executions never move a session backwards.
Rank(st) == CASE st = "absent" -> 0 [] st = "active" -> 1
              [] st = "summarization_pending" -> 2 [] st = "summarized" -> 3
StatusMovesForward == [][\A s \in Sessions : Rank(status[s]) <= Rank(status'[s])]_vars

\* An ended session is summarized in the end, although executions raise (no more
\* often than they are retried) and messages are delivered again.
EndedSessionIsSummarized ==
  \A s \in Sessions : status[s] = "summarization_pending" ~> status[s] = "summarized"

\* Between two queries of a session a warm working memory is exactly its last turns.
\* It takes every restriction of run sessions_quiet: overlapping queries, an expiry
\* between the two turns of a query, a failed push or a lost process refute it.
WorkingMemoryIsLastTurns ==
  \A s \in Sessions : Idle(s) /\ cache[s] # <<>> => cache[s] = LastTurns(history[s])

-----------------------------------------------------------------------------
(***************************************************************************)
(* The inductive invariant behind the safety properties (SessionsProofs).  *)
(***************************************************************************)
\* What a query has read is no more than Postgres holds by now; what it is about to
\* push is there already.
ReadsAreDurable ==
  \A q \in Queries :
    /\ pc[q] = "commit" => read_count[q] <= Len(history[SessionOf[q]])
    /\ pc[q] = "push" => Turn(q) \in Range(history[SessionOf[q]])
    /\ Range(snapshot[q]) \subseteq Range(history[SessionOf[q]])

\* Creation times come from one clock and order the history; the time of a turn to be
\* committed is nobody else's.
TimesOrdered ==
  /\ \A s \in Sessions : \A i \in 1 .. Len(history[s]) :
       /\ history[s][i].created_at < clock
       /\ \A j \in 1 .. i - 1 : history[s][j].created_at < history[s][i].created_at
  /\ \A q \in Queries : pc[q] = "commit" =>
       /\ created_at[q] < clock
       /\ \A s \in Sessions : \A i \in 1 .. Len(history[s]) :
            history[s][i].created_at # created_at[q]
       /\ \A p \in Queries \ {q} : pc[p] = "commit" => created_at[p] # created_at[q]

\* A query begins with its question; when it turns to its answer the question is in
\* the history, with an earlier time than the answer will get.
QuestionsAsked ==
  \A q \in Queries :
    /\ pc[q] \in {"new", "history", "warm"} => role[q] = "user"
    /\ pc[q] \in {"turn", "commit"} /\ role[q] = "assistant" =>
         \E t \in Range(history[SessionOf[q]]) :
           /\ t.query = q /\ t.role = "user"
           /\ pc[q] = "commit" => t.created_at < created_at[q]

\* Together they are preserved by every step.
IInv ==
  /\ TypeOK /\ ReadsAreDurable /\ TimesOrdered /\ QuestionsAsked
  /\ WorkingMemoryIsDurable /\ TurnCountAtMostTurns /\ QuestionsPrecedeAnswers /\ EnqueuedOnce
=============================================================================
