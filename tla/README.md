# Multimodal-RAG in TLA+

A verification development for the Multimodal-RAG backend: TLA+ modules translated
from its source, TLC configurations that check them on small instances, and theorems
that TLAPS checks for every value of their constants. Paths below are relative to the
repository's `src/`; line numbers are those of the modelled commit.

- [1. The system](#1-the-system)
- [2. The modules](#2-the-modules)
- [3. The runs](#3-the-runs)
- [4. The proofs](#4-the-proofs)
- [5. Where the code departs from what it says](#5-where-the-code-departs-from-what-it-says)
- [6. What is not modelled](#6-what-is-not-modelled)
- [7. Plan](#7-plan)

Run a model with `tlc -config <cfg> <MC module>`, check a proof module with
`tlapm <module>`.

## 1. The system

A FastAPI process answers requests with async handlers; a Celery worker (any number of
processes) runs two tasks; Postgres is the system of record; Qdrant and Elasticsearch
hold the searchable chunks; Redis holds the working memory of sessions, the refresh
tokens, the counters of the rate limiter, and is Celery's broker.

| Component | State | Operations | Talks to |
|---|---|---|---|
| Ingestion and deletion (`services/ingestion_service.py`, `api/v1/documents.py`, `services/memory_service.py`) | `documents.status`, rows of `outbox`, `semantic_memory` | `ingest_document`, `delete_document`, `store_semantic_fact` | the relay, through the `outbox` table only |
| Outbox relay (`tasks/outbox_relay.py`, `core/celery_app.py`) | `outbox.status`, `outbox.retry_count`; per worker the fetched rows, the row in hand, the open transaction | `relay_outbox_batch` every 2 s, the handlers of the three event types, `_maybe_mark_document_ready` | Qdrant, Elasticsearch, `documents` |
| Sessions (`services/session_service.py`, `cache/session_cache.py`, `api/v1/sessions.py`) | `sessions.status`, `sessions.turn_count`, `session_turns`; the Redis list `session_turns:{id}` | create, `get_working_memory`, `add_turn`, `end_session` (route) | Redis, the query route, the summarization task |
| Summarization (`tasks/summarization.py`) | `sessions.status`, the message in the broker | `summarize_session` with up to 3 retries | Postgres |
| Query pipeline (`api/v1/query.py`, `pipelines/query_pipeline.py`, `services/generation_service.py`, `services/critic_service.py`) | locals of one request: round, verdict, recall, sub-query | working memory, then retrieve / rerank / generate / check in a bounded loop, audit record, two turns | retrieval, models, audit, sessions |
| Audit log (`services/audit_service.py`) | `audit_logs` | `log_query` | the query route |
| Rate limiter (`core/rate_limiter.py`) | a Redis sorted set per user or address | `_sliding_window_check` | every limited route |
| Retrieval (`services/retrieval_service.py`, `services/reranker_service.py`, `vector_store/`, `search/`) | the models in memory and their locks; a collection and an index per user | `hybrid_retrieve`, `_rrf_fuse`, `rerank` | the two stores, the query pipeline |
| Ingestion pipeline (`pipelines/ingest_pipeline.py`, the parsers) | the same stores | `run_ingest_pipeline`: parse, chunk, embed, write both stores | nothing in the repository calls it |
| Chunker (`ingestion/chunker.py`) | none | `chunk_text` | both ways of ingestion |
| Tokens (`services/auth_service.py`, `api/v1/auth.py`) | the keys `refresh:{user}:{hash}` in Redis; signatures and lapse of the tokens | login, refresh with rotation, logout, logout everywhere | Redis, `users` |
| Accounts (`api/v1/users.py`, `scripts/create_admin_user.py`) | `users` and its unique index on the name | register, create admin | Postgres |
| Database sessions and row-level security (`db/session.py`, `db/rls.py`, `dependencies.py`) | per request a session, at times a connection of the pool and an open transaction; a transaction-local setting | `get_db`, `get_db_with_rls`, commits and refreshes of every handler | every route |
| Application shell, schemas | configuration, log context | start-up, middleware, error formatting, validation | everything |

What makes each hard, and what makes it correct:

- **Outbox.** Several workers, a batch whose row locks end at its first commit, copies of
  `retry_count` that are written back later, two stores and a database without a common
  transaction, an except branch that works on the session whose commit has just failed,
  late acknowledgement. Correct: documents and events appear together, a PUBLISHED row was
  applied, `ready` is announced only when every chunk is searchable, a deletion is not
  undone; once Postgres and the workers hold, rows are neither retried for ever nor dropped.
- **Sessions.** The durable turns and their Redis copy are written in two steps with a
  TTL in between; requests overlap; an old snapshot may overwrite newer pushes; the end
  may be requested twice; the task may be delivered again. Correct: the copy shows only
  durable turns, and exactly the last ones when nothing interferes; answers follow
  questions; one task per session; an ended session is summarized.
- **Query pipeline.** Values of one round must not leak into another, a broken reply
  must not become a PASS, the counters move at different places of the loop, and the
  audit record and the turns are separate commits. Correct: what is returned, what was
  checked, what is audited and what is saved are the same; the loop ends.
- **Rate limiter.** Count and entry are atomic, the undo of a denied request is not; keys
  expire; routes share a key. Correct: no admission into a full window, no denial
  without reason.
- **Tokens and accounts.** Every Redis call and every statement is a round trip of its
  own, and requests of one user overlap: a token is checked before it is deleted, SCAN and
  DEL alternate with new logins, a name is looked up before it is inserted. Correct: what
  was revoked stays refused, logout everywhere misses no key, nobody is logged out by
  another user, a name has one row and its creators are told the truth.
- **Database sessions.** A handler runs several transactions on whatever connection the
  pool hands out; a call may fail between any two statements or after a commit took
  effect. Correct: identities do not travel with connections, what is told done is
  durable, rows that belong together appear together, nobody waits for ever.
- **Retrieval.** Two searches and a lazily loaded model run concurrently with the
  pipelines that create and fill the stores. Correct: the fusion keeps the order
  both lists agree on, a returned pipeline has written everything, a failed load does not
  block the next.
- **Chunker.** Windows, overlap and snapping are three numbers that do not fit each other
  at every boundary. Correct: no text is lost but where the sizes make it unavoidable,
  and no chunk repeats another.

`PROJECT.json` lists the hazards line by line with the properties that watch them.

## 2. The modules

| Module | Stands for |
|---|---|
| `DocumentLifecycle` | the abstract promise of ingestion: a document's status and which of its chunks both stores hold |
| `Outbox` | API side, `outbox` table, relay workers, stores and faults |
| `OutboxProofs` | the theorems about `Outbox`, its refinement of `DocumentLifecycle` included |
| `Sessions` | sessions, working memory, end of a session, summarization |
| `SessionsProofs` | the theorems about `Sessions` |
| `QueryPipeline`, `QueryPipelineProofs` | one or more queries from the working memory to the saved turns |
| `RateLimiter`, `RateLimiterProofs` | the requests that meet on one rate-limiter key |
| `Accounts` | registrations and the admin script on the table `users` |
| `AuthTokens` | login, refresh, logout and logout everywhere; extends `Accounts` |
| `AuthTokensProofs` | the theorems about `Accounts` and `AuthTokens` |
| `DbSessions`, `DbSessionsProofs` | the database session of every route on a shared pool |
| `Retrieval`, `RetrievalProofs` | searches, fusion, reranking, model loading and the ingestion pipeline |
| `Chunker`, `ChunkerProofs` | `chunk_text` |
| `MC...` | instances for TLC |

Definitions that begin with a comment "Seeded bug" are variants of the definition that
follows them. Nothing refers to them; substituting one of them for its neighbour breaks
the property that `PROJECT.json` pairs it with, which shows that the property can fail.

### Outbox

`documents`, `status` and `retry_count` are the columns; `"absent"` is a row whose INSERT
has not committed. A row is named by what it carries (chunk *i* of *d*, the delete event
of request *q*, the fact *f*). `qdrant` and `es` hold triples of collection, document
and index, because the collection decides what a delete removes. A worker is at a
position `pc` of `relay_outbox_batch`; `todo` are the rows it fetched, `seen` the
`retry_count` its SELECT returned, `inTx` whether the SELECT's transaction, and with it
the row locks, is still open.

| Action | Code |
|---|---|
| `IngestDocument`, `StoreSemanticFact` | one commit each: document and chunk rows; fact and row |
| `DeleteRead`, `DeleteCommit` | `delete_document` before and after the point where another request may come in |
| `SelectBatch` | `SELECT ... WHERE status='PENDING' ORDER BY created_at LIMIT n FOR UPDATE SKIP LOCKED` |
| `NextRow`, `CallQdrant`, `CallEs` | the loop and the calls of the handlers |
| `DeleteEsRaises` | the Elasticsearch call of the delete handler, with an argument its client does not have: always a TypeError |
| `Publish` | UPDATE to PUBLISHED and commit, which ends the locks of the whole batch |
| `CountRemaining`, `MarkReady` | the two statements of `_maybe_mark_document_ready` |
| `RecordFailure` | the except branch after an exception of a handler, with the stale `retry_count` |
| `QdrantRaises`, `EsRaises` | a store raises before or after the effect |
| `PublishRaises`, `MarkRaises`, `RecordRaises` | a COMMIT takes effect and raises: the task is over (`Abort`) |
| `PostgresRaises` | a statement or a COMMIT raises without effect: the task is over |
| `WorkerDies` | loss of the process; the open transaction is rolled back |

An UPDATE waits for a lock another worker's SELECT holds (`LockedByOthers`). The except
branch (`tasks/outbox_relay.py:61-70`) does not roll back. When a handler has raised, the
session is usable and the failure is recorded; when Postgres has raised, the UPDATE at
`:66` raises too, so the exception leaves the loop, nothing is counted and the rest of
the batch is dropped. A lost worker leaves the same state, which is why all of these end in
`Abort`; a worker at `"aborted"` differs from one at `"next"` only for the properties.

### Sessions

`history` is `session_turns` in `ORDER BY created_at`; `cache` the Redis list, empty when
it has expired; `clock` gives `created_at`. A query reads the list (`LookUp`), on a miss
reads Postgres (`ReadHistory`) and rewrites the list (`WarmCache`, one MULTI), and later
adds the question and the answer: `ReadSession` (the ORM's copy of `turn_count`, the
time), `CommitTurn`, `PushTurn` or `PushFails`. `EndSession` is the conditional UPDATE,
`Enqueue` the call of `delay` after it, `EndDies` the loss of the process in between.
`RunTask`, `TaskFails` and `Retry` are executions of the task; a message leaves `tasks`
with its acknowledgement, and a lost acknowledgement is a finished task delivered again.
The pipeline between the look-up and the turns is one point here.

### QueryPipeline

Texts are abstracted to what the control depends on: the tokens of an excerpt, the
critic's reply, and whether a text holds a brace. `Retrieve` is retrieval and reranking:
any order of at most `TopK` of at most `recall_k` chunks. `ChunksUsed` is the greedy
budget of `build_context`, with the marker each excerpt has in the prompt. `Pass`,
`GiveUp` and `Retry` are the three ways through the loop body after the check; the
caveat that the code appends after the loop belongs to `GiveUp`, as its condition (the
last verdict is FAIL) holds exactly there. `FormatFails` is `str.format` raising on a
brace in an excerpt or a turn. `LogQuery`, `AddQuestion`, `AddAnswer` are the three
commits. Each may raise after it took effect, in the COMMIT or in the `refresh` behind it
(`Commits`): the row is durable and the query fails. `replies` and `checked` are history variables: what the critic said, and the
answer and chunks it saw. The working memory is here the last turns of the session;
`Sessions` says when Redis shows others.

### RateLimiter

`zset` holds `[request, score]`; `expires` is the tick at which Redis drops the key.
`ReadClock` is `time.time()`, `Check` the MULTI of ZREMRANGEBYSCORE, ZCARD, ZADD and
EXPIRE (`Enter` is its effect), `LoseReply` the same with its reply lost, `CheckRaises` its
refusal; `Undo` is the ZPOPMAX, `Oldest` and `Score` the ZRANGE and ZSCORE, `Die` Redis or
the process failing at one of these. A ZPOPMAX whose reply is lost is `Undo`, then `Die`. ZPOPMAX among equal scores picks by UUID, so any of them.
`overlapped` is a history variable: some request has started while another was under way.

### Accounts and AuthTokens

A creator (registration or run of the admin script) looks the name up, inserts, and reads
its row back; the unique index decides at the INSERT, and a commit may raise after it took
effect. `AuthTokens` adds the handlers of `api/v1/auth.py` on those accounts. A token pair
is named by the request that made it; `sub` is its subject. `keys` are the keys in Redis,
which a hash of the token makes one per pair; `lapsed` the tokens whose `exp` has passed.
`CheckToken` is the decoding and EXISTS, `DeleteUsed` the DEL, `LookUpUser` the SELECT,
`StoreToken` the SETEX; a call that takes effect and raises ends the request (`Replied`),
and a key stored that way belongs to a token nobody was handed (`"unanswered"`). `Logout` and `LogoutAll` begin with
`get_current_user`. `Scan` is one call of SCAN: any part of the matching keys, cursor 0
only when all keys that were there throughout have been returned, which is what Redis
promises. `page`, `seen` and `before` are what a sweep has in hand, has seen and found at
its start; `revoked` is a history variable.

### DbSessions

A route is a sequence of what it asks of the session: a SELECT, `set_config`, a row, a
commit, or work elsewhere (Redis, the pipeline, hashing, which keeps the connection). The
branches of a route are the elements of a set, since data decides between them. A
connection is taken by the first statement of a transaction and given back by its end;
`setting` is `app.current_user_id` of the connection. `Raise` is a 404 or 409 after a read
or a failing call; `ConnectTimesOut` is `pool_timeout`.

### Retrieval

A store is the set of the chunks in it. `client` is the Qdrant client: `"sync"` is the one
the code takes (`get_sync_qdrant_client`), whose answers are awaited and raise;
`"async"` the one the awaits were written for, so that the rest of the path can be
examined at all. `asked` and `hits` are the two branches of `asyncio.gather`. `RrfFuse`
compares the sums as fractions and breaks ties by insertion, as the stable sort does.
`GetModel`, `StartLoad`, `FinishLoad` and `LoadFails` are the double-checked locking of the
embedder and of the local reranker. A store call that raises may have taken effect.

### Chunker

A text is its number of tokens, the characters of a token and the places behind its
sentence ends; a chunk is a span of characters. All tokens of a text have the same number
of characters. The tail of a chunk is 15 percent of its characters, as in the code; that this
is 76 of 512 tokens holds only under that restriction, so for texts of uneven tokens the
results about the tail (`LostOnlyInLongSentences`, `EachChunkAddsText`) say nothing. `NextWindow` is one round of the loop,
`Snap` the cut to the last sentence end of the tail. What `strip()` removes is blank.

## 3. The runs

Passing runs; every property has a seeded bug that breaks it under the same
configuration.

| Run | Instance | What it shows |
|---|---|---|
| `outbox_safety` | 1 document of 1 chunk, its deletion, 1 fact, 2 workers, 2 attempts, batches of 2, every fault, worker symmetry; 94k states | the safety properties and refinement of `DocumentLifecycle` |
| `outbox_live` | 1 document of 2 chunks, 2 workers, 3 attempts, failing stores, failing Postgres, lost workers, fairness; 97k states | `ready` is never early; its announcement is lost only by a task that ends early; when tasks run to their end from some point on, every row ends PUBLISHED or DEAD and no upload hangs unless one of its rows is DEAD or its announcement was lost before |
| `sessions_safety` | 1 session, 2 overlapping queries, 2 end requests, window 3, every fault; 52k states | the safety properties |
| `sessions_quiet` | 3 queries one after the other, Redis up, TTL may run out between them, 2 end requests, 3 failing executions, lost acknowledgements, fairness; 12k states | a warm working memory is exactly the last turns; an ended session is summarized |
| `query_pipeline` | 1 query, 4 chunks of sizes 1, 2, 2, 1 for a budget of 3, one of them with a brace, 2 claims, 2 retries, every call and commit failing, fairness; 122k states | a PASS is earned, the counters are right, audit and turns agree with the answer, the context is filled, the loop ends |
| `rate_limiter` | 4 requests of two routes (limits 1 and 2), window of 2 ticks, 5 ticks, calls that raise with and without effect, lost requests; 2.8M states | admissions and denials are right while requests do not overlap, in the first window even then |
| `accounts` | 2 registrations and 2 admin runs, 3 of them for one name (one in capitals), 1 account that exists and may be deactivated, failing commits; 1488 states | a name has one row; each creator is answered truly, failing commits apart |
| `auth_tokens` | 2 accounts, an earlier login, 1 login, 1 refresh, 1 logout, 1 logout everywhere, calls that raise with and without effect, lapse and TTL; 1.8M states | revoked tokens stay refused; logout everywhere misses no key; nobody is logged out by another user |
| `db_sessions` | a request of any of 14 routes, a `create session` and an `end session` of two users on 2 connections, failing statements, fairness; 150k states | no identity is handed over with a connection; what is told done is durable; events and documents appear together; every request ends |
| `retrieval` | 1 query, documents of 2 chunks and of 1 ingested meanwhile, both clients, 3 rerankers, recall 2, top 1, failing calls, fairness; 33k states | a returned pipeline is searchable; the fusion keeps agreed orders; everything ends |
| `chunker` | the real sizes (512 tokens, 15 %, 50 characters), overlaps 64, 128 and 512, texts of 0 to 1100 tokens, up to 3 sentence ends at the edges; 48k states | text is lost only behind a snap before a sentence longer than the overlap; each chunk adds text |

One run finds a violation, discussed in section 5: `outbox_delete_leaves_chunks`. It allows
no fault of a store, of Postgres or of a worker; in its trace the delete event fails five
times in `DeleteEsRaises` and is DEAD, and both chunks are in both stores.

**Bounds.** Two workers suffice for every conflict over a row: a row is contended
pairwise (locks, stale copies, the two last chunks). Two chunks give "the other row is
still unpublished"; one chunk with a deletion and a fact gives all three handlers.
`MaxRetries` of 2 and 3 (5 in the code) separates first failure, retry and dead letter.
Two queries and a window of 3 are the smallest sizes at which the window is cut (4
turns), overlapping pushes interleave and one query's snapshot is older than another's
push; three queries give 6 turns. In the rate limiter two admissions, a denial and a
fourth request cover the order of undo, prune and TTL; the TTL exceeds the window by a
second as in the code. In `query_pipeline` the retry limit is the code's; the recall cap
is reached after the first doubling.
In `auth_tokens` one request of each kind meets every other at every call; that two
refreshes may both pass EXISTS is covered by the theorems. In `db_sessions` three requests
exceed the pool by one, and the first takes each route in turn. In `retrieval` two
pipelines race on creating the stores while a query reads them; three chunks and a recall
of 2 make fusion cut and tie. The texts of `chunker` put a sentence end just inside, at
and just outside of each edge of window, tail and overlap. `Second`, `MaxTime`, `TaskFailures`,
`HistoryTurns` and `BatchLimit` bound what the code leaves open or large.

`CHECK_DEADLOCK FALSE` is set because these systems come to rest: every row settled,
every request answered, the clock at its bound.

**Fairness.** `Outbox!FairSpec`: a worker's own steps and its SELECT are weakly fair. Beat
fires the relay every 2 seconds (`core/celery_app.py:27-33`), a running task goes on, and
calls return or raise. Requests, faults and deaths are not fair. Fairness of the relay alone
does not make a row settle: a COMMIT that fails each time is recorded nowhere, and the row is
PENDING for ever. `EveryRowSettles` and `UploadSettles` therefore carry the premise
`OutagesEnd`, that from some point on no task ends early; store calls may go on failing.
`OnlyAbortsLoseAnnouncements` has no premise: whatever two workers do with the rows of an
upload, only a task that ends early leaves it without an announcement. Weak fairness of
`SelectBatch` is enough, because rows stay PENDING until somebody selects them and locks
end with the transaction. `Sessions!FairSpec`: an end request that has committed goes
on, and a worker takes the messages of the queue (`task_acks_late`,
`task_reject_on_worker_lost`). In `sessions_quiet` the API does not
die between the commit of the status and `delay`: if it does, nothing enqueues the task
and the session stays pending. `QueryPipeline!FairSpec`: the event loop runs every
handler on, and the clients of stores and models time out. `DbSessions!FairSpec`: each
request's own step is weakly fair, its giving up (`ConnectTimesOut`) is not; so a request
ends because connections come back. Weak fairness is enough with two connections and three
finite requests: a waiting one finds a connection free from some point on.
`Retrieval!FairSpec`: each process is weakly fair. An `asyncio.Lock` is handed on, and no
process keeps asking for it once the model is loaded.

**Conditions that properties carry.** `WorkingMemoryIsLastTurns` needs every restriction of
`sessions_quiet` (`QuietTimes` in `SessionsProofs`): an overlapping query, an expiry between
the two turns of one query, a failed push or a lost process refutes it. `AdmittedBelowLimit` holds while requests do
not overlap or within the first window, and when the MULTI follows the clock reading
within the second by which the TTL exceeds the window. Overlapping requests may take
back each other's entries: a denied request pops the highest score, which may be an
admitted request's, and the older entry that stays behind grows old first. It also needs
routes of one window (`OneWindow` in `RateLimiterProofs`), which the user keys have (60 s
everywhere); the keys of addresses mix 60 and 3600 s (`api/v1/auth.py:44`,
`api/v1/users.py:40`, and section 5).
`PublishedMeansWritten` excepts documents being deleted, because a delete may have
removed what an upsert wrote. `AuditedAsAnswered` allows a failed query one saved answer: the
COMMIT of the answer, or the `refresh` after it (`services/session_service.py:127-128`), may
raise when the turn is durable. `DeniedWhenFull` and `DenialIsAnswered` hold while requests
do not overlap. `LogoutAllRevokes` is about keys, not about requests under way:
a refresh that has passed EXISTS still gets its new token. `EachChunkAddsText` holds where the
longest tail is shorter than the way from one window to the next (`ShortTails`, which TLC
evaluates for the sizes of the run), as with 512 tokens and the configured overlap of 64.
`chunk_text` accepts any overlap below the window: with 500 of 512 a snap takes a chunk back
to the end of its predecessor.

## 4. The proofs

All theorems hold for every value of the constants under the named assumptions
(`OutboxAssumption`, `DocsAssumption`, `SessionsAssumption`, `AccountsAssumption`,
`AuthTokensAssumption`, `DbAssumption`, `RetrievalAssumption`, `ChunkerAssumption`,
`QueryPipelineAssumption`, `RateLimiterAssumption`), which say that counts are positive
naturals, switches Booleans, identifiers distinct, and what the stores hold finite. Three
theorems carry a hypothesis besides, for a property that is false without it (section 3):
`MemoryIsExact`, `AdmissionsAreBounded` and `ChunksAddText`. Every invariant and action
property of the passing runs is a theorem.

**Outbox** (`OutboxProofs`): `TypeCorrect`, `ReadyIsIndexed`, `PublishedIsWritten`,
`LocksKeepRowsFresh`, `DeadLetterRule`, `OutboxIsTransactional`, `DeletionIsNotUndone`.
None of the invariants is inductive alone. `ReadyMeansIndexed` at the "ready" UPDATE
needs that every chunk is in both stores, which `CountRemaining` learns from
`PublishedMeansWritten`; that in turn needs at `Publish` that the calls for this row took
effect (`CallsTakeEffect`, `FactsTakeEffect`), although another worker may hold the same
row. Both speak about stores that only ever lose chunks of a document whose deletion was
requested: `RequestsConsistent` and `EventsMatchDocuments` say that a delete row exists
only then. `RetryCountMatchesStatus` needs that a fetched row had attempts left
(`BatchesConsistent`), since the stale value is what is written back, and
`LockedRowsAreFresh` that no one but the owner writes a locked row. `IInv` is their
conjunction. The proof has lemmas for the conjuncts, each by
cases on the actions that disturb it, and `Invariance` combines them. `DeletionIsFinal`
follows from type correctness and the WHERE clause of the one UPDATE that could undo it.
`AbortsLoseAnnouncements` is about one step: if it leaves an upload with all rows PUBLISHED and
nobody to announce it, either that was so before, or it took away the last worker that was on
its way, and of the steps that do so `MarkReady` announces, `CountRemaining` has found a row
that is not PUBLISHED, and the others are early ends. That two workers which publish the
last two rows at once do not both count the other's as unpublished follows: whoever counts
second sees both, and the first one's count leaves a row or a worker behind.

**Refinement** (`OutboxProofs`): `OutboxImplementsLifecycle`, that is
`Spec => Lifecycle!LifecycleSpec` with `indexed` mapped to the chunks in both stores.
`MarkReady` maps to `Announce`, for which `IInv` gives that nothing is missing; the
second of the two store calls for a chunk maps to `Index`, a delete call to `Remove`, the
API commits to `Upload` and `RequestDelete`, everything else to a stutter.

**Sessions** (`SessionsProofs`): `TypeCorrect`, `MemoryIsDurable`, `CountIsBehind`,
`AnswersFollowQuestions`, `EnqueueOnce`, `StatusIsMonotonic`. `ReadsAreDurable` carries
durability through snapshots and through the gap between commit and push;
`QuestionsPrecedeAnswers` is about positions, so the proof needs that positions are
ordered by `created_at` (`TimesOrdered`), that no two turns share a time, and that a
query about to commit its answer has its question in the history with an earlier time
(`QuestionsAsked`). The lemmas on `InsertTurn` say that inserting by time keeps a
strictly ordered sequence strictly ordered and adds exactly the new turn.

`MemoryIsExact` is `WorkingMemoryIsLastTurns` in quiet times. Between the commit of a turn
and its push Redis is one turn behind, so the property is not inductive: `MidQuery` says
how the list stands at each position of a query (cold, about to be warmed with the whole
history, exact, behind by this query's turn), and `OneByOne` that no second query of the
session is anywhere. The new turn belongs at the end of the history since its `created_at`
is later than all others, and `WindowOfAppend` says that a push into the window is the
window of the longer history.

**Accounts** (`AuthTokensProofs`): `NamesStayUnique`. A row remembers who made it, so that an
account found under a name is the creator's own or an earlier one.

**AuthTokens** (`AuthTokensProofs`): `TokenTypes`, `LogoutAllLeavesNoKey`,
`NobodyElseLogsOut`, `RevokedStaysRefused`. The argument rests on one fact: a key is stored
once, by the last step of its issuer, so a key that is gone does not come back. Hence
keys, delivered tokens, and everything a sweep remembers belong to issuers that have stored
a key, whether or not they were told so (`Issued`, `KeysAreStored`, `SweepsRemember`), and the key `StoreToken` adds is new to all of them.
Of the keys a sweep has seen only those of its current page are left
(`SweepsRemember`); together with SCAN's promise nothing of the first keys is left after
the last page. `RevokedAreGone` carries the refusal of revoked tokens. The account part of
the invariant is that of `Accounts`.

**QueryPipeline** (`QueryPipelineProofs`): `QueryTypesHold`, `PassesAreEarned`,
`CountsAreRight`, `AuditIsTrue`, `BudgetIsUsed`, for any number of queries at once. The
invariant of one query (`QueryIInv`) relates the counters to the replies so far, with one
reply more between the check and the end of its round (`RoundsUnderWay`, `RoundsOver`), the
sub-query to the last reply (`SubjectIsLatest`), and what is shown to what was checked
(`OfThisRound`); `LoggedOnce` and `Committed` say which records and turns exist at each
position (of a failed query: any prefix of record, question and answer), so that another query of the session adds nothing to them. The budget is about a
fold over the ranking and a recursive sum: `Packed` says of every prefix of the ranking
that its packing fits, repeats nothing and leaves out only what did not fit, and passes
from a prefix to the next (`UpToInduction`, by the least prefix that fails). What did not
fit when it was tried does not fit later, as the sum only grows.

**RateLimiter** (`RateLimiterProofs`): `DenialsAreEarned`, `DenialsAreAnswered`,
`AdmissionsAreBounded`. Entries cannot be matched with their requests one by one, because
ZPOPMAX among equal scores may take another's. What is invariant is how many there are.
While requests do not overlap, there are above every score at most as many entries as
requests that may hold one (`OneAtATime`), which makes a denial earned, and, with one window, at every cutoff that a
later check can have, at least as many as admitted requests (`NoneMissing`), which bounds
admissions. That the key has not expired under these entries is `Covered`; with overlapping
requests only `FirstWindow` is left, before anything is pruned.

**DbSessions** (`DbSessionsProofs`): `IdentityStaysApart`, `SessionsDoNotShare`,
`DbTypesHold`, `DoneIsDurable`. A setting that is not nobody's is its holder's
(`SetByHolder`); a transaction ends with its setting; and two sessions never hold one
connection (`OneSessionEach`). For `DoneIsDurable` the invariant gives what is pending and
what is durable by the place in the script: the rows since the last commit, and those up to
it (`KeptToACommit`). That the end of a branch leaves nothing pending is a fact about every
branch of every route (`Commits`), composed from the fragments the scripts are made of.

**Retrieval** (`RetrievalProofs`): `IngestionIsComplete`, `ModelsAreLoadedOnce`,
`RetrievalTypesHold`, `FusionIsOrdered`. Each conjunct of the first
invariant is about the position of one process and the stores, which only grow
(`WrittenSoFar`), or about the lock and the position of its holder (`LoadedOnce`).
`RrfFuse` places a chunk by the number of chunks that precede it. `PrecedesOrders` proves
from the arithmetic of fractions that preceding is a strict total order; `Ranks`, that the
ranks of a strict order of a finite set are a bijection (injective, hence onto, by
cardinality); so the fused list exists, has every found chunk once (`FusionSorts`), and
keeps a dominating chunk above what it dominates (`DominatesPrecedes`), through the cut.

**Chunker** (`ChunkerProofs`): `ChunksCoverTheText`, for every text, window and overlap,
and `ChunksAddText` for short tails.
After a snap no sentence ends between the chunk and the end of its window
(`NoEndBehind`), and the next window starts an overlap before that end; so a gap is the
start of a sentence longer than the overlap. `SnapIsLast` needs the greatest element of a
bounded set, which `GreatestExists` takes from the well-founded order of the naturals. For
`ChunksAddText` the invariant `AddsIInv` says that the last chunk begins before the next
window and ends at most an overlap behind its start; `SnapIsInTail`, that the next chunk,
snapped or not, ends behind that.

**Only model-checked**: the liveness properties `EveryRowSettles`, `UploadSettles`,
`EndedSessionIsSummarized`, `QueryEnds`, `RequestsEnd` and `WorkEnds`; fairness and ENABLED
are beyond the prover. Its library states induction over an operator, which the installed
provers do not instantiate; where a proof needs induction over data it takes the least
counterexample instead, as a set of naturals.

## 5. Where the code departs from what it says

**Deletion leaves the chunks behind** (`outbox_delete_leaves_chunks`). Chunks go to
`user_docs_{user_hash or default}`, the delete handler clears `user_docs`; nothing removes
the row either, although `README.md:132` says that the route removes from all three. Nor does
the handler ever return: `es.delete(..., ignore_status=[404])` (`tasks/outbox_relay.py:140`)
names an option of the transport, which the methods of elasticsearch 8.16
(`requirements.txt:33`) do not accept; the TypeError is counted like any failure, and every
delete event is DEAD after `MAX_RETRIES`.

The others are part of the models and visible in them, without a run of their own.

*Documents.* The last PUBLISHED and "ready" are separate commits
(`tasks/outbox_relay.py:55` and `:59`): a worker lost in between leaves the document in
processing, since redelivery finds no PENDING row, and so does a failure of the second
commit. For the except branch does not roll back: its UPDATE at `:66` raises on the unusable
session, the task is over, and the row is neither un-published nor counted. By the same way a
row whose own commit fails each time is retried for ever without being dead-lettered, and
takes the rest of its batch with it each time. A batch is unlocked by its first
commit, so two workers may hold one row, and one may un-publish it between the other's
count and UPDATE; `ReadyMeansIndexed` survives this. Searches read `user_<digest>` and
`es_user_<digest>` (`vector_store/qdrant_client.py`, `search/es_client.py`), the relay
writes `user_docs_<hash or default>` (`tasks/outbox_relay.py:98`): what the relay indexes
no query finds. `run_ingest_pipeline` calls its steps idempotent, but two first ingestions
of a user race between "exists" and "create", and one of them fails.

*Queries.* `vector_store/qdrant_search.py:33-48` awaits the answers of the synchronous
client; every query raises a `RetrievalError`. The asynchronous `get_qdrant_client`, which
`vector_store/qdrant_client.py:47` documents for this path, is used by nobody. A brace
in an excerpt or an earlier turn makes `str.format` raise
(`services/generation_service.py:114`); such a query adds no turn, so the turn stays in
the window and fails the following queries. A query may be answered by a 500 although its
answer is saved, when `refresh` fails after the commit (`services/session_service.py:127-128`).

*Chunks.* The tail of 15 percent of 512 tokens is 76 tokens, the overlap 64: of a
sentence that long up to 12 tokens are in no chunk (`ingestion/chunker.py:41-43` promises
continuity across boundaries).

*Tokens and accounts.* `refresh` stores a new refresh token whose value the response leaves
out (`services/auth_service.py:109-110`, `api/v1/auth.py:85-86`): a client can refresh
once. Two overlapping refreshes may both pass EXISTS before either DEL; a refresh under
way survives logout everywhere. An inactive user's refresh loses the token it refuses.
The loser of two overlapping registrations gets a 500, not the 409 of
`api/v1/users.py`. Registration lower-cases names, login only strips them: an account
cannot log in with the capitals it registered with.

*Sessions and database.* `add_turn` tests `ended_at`, which no route sets
(`services/session_service.py:110`): an ended session still takes turns. Each commit ends
the identity of the transaction (`db/rls.py:6-8`), so `db.refresh` and all later
statements of a handler run without it; this has no effect yet, as the policies are
commented out. A refresh that fails after the commit tells the client of a failure that
did not happen.

*Limits.* Registration and login count under `ip:{ip}` (`core/rate_limiter.py:162`); a
login prunes the set to 60 s and shortens its TTL, so that of the 5 per hour of
registrations (`README.md:124`) nothing is left after a login.

*Middleware.* `core/middleware.py:9` wants CORS outermost; Starlette makes the last
middleware added the outermost one, and CORS is added first.

*Smaller things.* Two overlapping DELETE requests both
queue an event (`services/ingestion_service.py:165`), and both are dead-lettered; a failed push leaves a gap in a warm working memory although
`services/session_service.py:132-133` promises a fallback; a query whose pipeline raises
leaves no audit record although `README.md:77` says it is written unconditionally; an
excerpt that does not fit is skipped rather than the lowest-ranked dropped
(`services/generation_service.py:13` and `:86`), after which the markers of the prompt
and the places in the list of sources differ; `retry_count` is reported as one more than
the retries made when all checks failed.

## 6. What is not modelled

- `SessionService.end_session` and `clear_session_cache`: no route calls them.
- Validation of uploads and the parsers: stateless work of libraries on bytes. The
  pipeline sees a text or an exception.
- `delete_document_chunks` of both store clients: nothing calls them.
- Password hashing and signatures: a wrong one is a refusal, a right one cannot be forged.
- The libraries behind the stores: an upsert or a delete by id takes effect or raises;
  an exception may follow the effect.
- Application shell, logging, configuration, error formatting, schemas: wiring and
  declarations without a state that a property is about.
- Migrations: their defaults and constraints give initial states and types.
- The policies of row-level security: `infra/postgres/init.sql` has them commented out.
- Which key of the rate limiter a request uses is given by its instance.
- Registrations are a run of their own (`accounts`); in `auth_tokens` accounts exist and
  may be deactivated, and the theorems cover both together.
- `QueryPipeline` takes retrieval as any order of any chunks, which contains what
  `Retrieval` returns.

## 7. Plan

Done: every component with a state of its own is modelled, and every safety property that
a run checks is a theorem. Left: a composition of `QueryPipeline` with the working memory of
`Sessions`, in which an abstract session whose history a query sees is implemented by
`Sessions` in quiet times (`MemoryIsExact` is the step from one to the other), so that
`AuditedAsAnswered` and the window that a prompt is built from are about the same turns.
