--------------------------- MODULE QueryPipeline ---------------------------
(***************************************************************************)
(* POST /v1/query: retrieve, rerank, build the context, generate, have the *)
(* critic check the answer, retry on FAIL, then write the audit record and *)
(* the two turns of the session.  The texts matter in three ways only: how *)
(* many tokens an excerpt takes, what the critic says of an answer, and    *)
(* whether a text holds a brace, which str.format reads as a field.        *)
(***************************************************************************)
EXTENDS Naturals, Sequences, FiniteSets, SequencesExt

CONSTANTS
  Queries,        \* POST /v1/query requests
  InSession,      \* those that carry the session id (one session)
  Chunks,         \* what the stores hold for the user
  Tokens,         \* count_tokens of the excerpt made from a chunk
  Braced,         \* queries and chunks whose text holds a brace
  Claims,         \* claims the critic may call unsupported
  ChunkBudget,    \* TOKEN_BUDGET_CHUNKS
  HistoryTurns,   \* bound: turns, all of one size, that fit TOKEN_BUDGET_HISTORY
  TopK, RecallK,  \* RERANKER_TOP_K, RERANKER_RECALL_K
  RecallCap,      \* the bound of recall_k, 500 in the code
  MaxRetries,     \* MAX_CRITIC_RETRIES
  Window,         \* CONTEXT_WINDOW_TURNS
  CallsMayFail    \* stores, models and commits may raise, critic replies be odd

ASSUME QueryPipelineAssumption ==
  /\ InSession \subseteq Queries /\ Braced \subseteq Queries \cup Chunks
  /\ IsFiniteSet(Chunks) /\ Tokens \in [Chunks -> Nat]
  /\ {ChunkBudget, HistoryTurns, MaxRetries} \subseteq Nat
  /\ {TopK, RecallK, RecallCap, Window} \subseteq Nat \ {0} /\ RecallK <= RecallCap
  /\ CallsMayFail \in BOOLEAN

VARIABLES
  pc,                  \* per query: position in the handler
  memory,              \* per query: the turns get_working_memory returned
  retry_count, critic_corrections, recall_k,
  subject,             \* per query: the claims current_query asks about, {} at first
  reranked,            \* per query: chunks of this round, best first
  chunks_used,         \* per query: [chunk, marker] in the order of the prompt
  answer,              \* per query: the round that generated it, its brace, its caveat
  verdict,             \* per query: the last verdict of the critic
  replies,             \* history, per query: every reply of the critic
  checked,             \* history, per query: the answer and the chunks last checked
  audit_logs,          \* committed audit records
  session_turns        \* committed turns of the session

loop == <<retry_count, critic_corrections, recall_k, subject>>
text == <<reranked, chunks_used, answer>>
judgement == <<verdict, replies, checked>>
store == <<audit_logs, session_turns>>
vars == <<pc, memory, loop, text, judgement, store>>

Smaller(m, n) == IF m < n THEN m ELSE n
NoAnswer == [round |-> 0, braced |-> FALSE, caveat |-> FALSE]
Failed == [result |-> "FAIL", claims |-> {}]

Init ==
  /\ pc = [q \in Queries |-> "new"]
  /\ memory = [q \in Queries |-> <<>>]
  /\ retry_count = [q \in Queries |-> 0]
  /\ critic_corrections = [q \in Queries |-> 0]
  /\ recall_k = [q \in Queries |-> RecallK]
  /\ subject = [q \in Queries |-> {}]
  /\ reranked = [q \in Queries |-> <<>>]
  /\ chunks_used = [q \in Queries |-> <<>>]
  /\ answer = [q \in Queries |-> NoAnswer]
  /\ verdict = [q \in Queries |-> Failed]
  /\ replies = [q \in Queries |-> <<>>]
  /\ checked = [q \in Queries |-> [round |-> 0, used |-> <<>>]]
  /\ audit_logs = {}
  /\ session_turns = <<>>

LastTurns(n, turns) == SubSeq(turns, Len(turns) + 1 - Smaller(n, Len(turns)), Len(turns))
Goto(q, p) == pc' = [pc EXCEPT ![q] = p]

\* get_working_memory: the last turns of the session (module Sessions says when Redis
\* shows fewer).
Start(q) ==
  /\ pc[q] = "new"
  /\ memory' = [memory EXCEPT ![q] = IF q \in InSession THEN LastTurns(Window, session_turns) ELSE <<>>]
  /\ Goto(q, "retrieve")
  /\ UNCHANGED <<loop, text, judgement, store>>

\* The distinct chunks of C, n of them, in any order.
Orders(C, n) == {s \in [1 .. n -> C] : \A i, j \in 1 .. n : s[i] = s[j] => i = j}
Candidates(k) == {C \in SUBSET Chunks : Cardinality(C) <= k}

\* Seeded bug: the reranked list is not cut to top_k.
AllRanked(k) == UNION {Orders(C, Cardinality(C)) : C \in Candidates(k)}

\* What the reranker may return of at most recall_k fused candidates.
Rankings(k) == UNION {Orders(C, Smaller(TopK, Cardinality(C))) : C \in Candidates(k)}

\* hybrid_retrieve and rerank.
Retrieve(q) ==
  /\ pc[q] = "retrieve"
  /\ \E s \in Rankings(recall_k[q]) : reranked' = [reranked EXCEPT ![q] = s]
  /\ Goto(q, "generate")
  /\ UNCHANGED <<memory, loop, chunks_used, answer, judgement, store>>

\* chunk_tokens_used after these excerpts.
TokensOf(used) ==
  LET upto[n \in 0 .. Len(used)] == IF n = 0 THEN 0 ELSE upto[n - 1] + Tokens[used[n].chunk]
  IN  upto[Len(used)]

\* Seeded bug: the budget is compared before the excerpt is added.
AddExcerptOverBudget(used, i, chunk) ==
  IF TokensOf(used) > ChunkBudget THEN used ELSE Append(used, [chunk |-> chunk, marker |-> i])

\* A chunk that does not fit is skipped, later ones are still tried; the marker of an
\* excerpt is its place among the reranked chunks.
AddExcerpt(used, i, chunk) ==
  IF TokensOf(used) + Tokens[chunk] > ChunkBudget THEN used
  ELSE Append(used, [chunk |-> chunk, marker |-> i])

ChunksUsed(s) ==
  LET upto[n \in 0 .. Len(s)] == IF n = 0 THEN <<>> ELSE AddExcerpt(upto[n - 1], n, s[n])
  IN  upto[Len(s)]

\* The latest turns that fit; the first that does not ends the history.
HistoryShown(q) == LastTurns(HistoryTurns, memory[q])

\* user_template.format(query=query) reads the braces of excerpts and turns as fields
\* and raises, outside the try block; those of the query itself are not read.
FormatRaises(q) ==
  \/ \E i \in DOMAIN ChunksUsed(reranked[q]) : ChunksUsed(reranked[q])[i].chunk \in Braced
  \/ \E i \in DOMAIN HistoryShown(q) : HistoryShown(q)[i].braced

\* generate_answer; whether the answer holds a brace is up to the model.
Generate(q) ==
  /\ pc[q] = "generate" /\ ~FormatRaises(q)
  /\ chunks_used' = [chunks_used EXCEPT ![q] = ChunksUsed(reranked[q])]
  /\ \E b \in {FALSE, Braced # {}} :
       answer' = [answer EXCEPT ![q] = [round |-> retry_count[q] + 1, braced |-> b, caveat |-> FALSE]]
  /\ Goto(q, "critic")
  /\ UNCHANGED <<memory, loop, reranked, judgement, store>>

FormatFails(q) ==
  /\ pc[q] = "generate" /\ FormatRaises(q)
  /\ Goto(q, "failed")
  /\ UNCHANGED <<memory, loop, text, judgement, store>>

\* Replies of the critic model: a verdict, or a text that is none.
Verdicts == [result : {"PASS"}, claims : {{}}] \cup [result : {"FAIL"}, claims : SUBSET Claims]
Replies == Verdicts \cup {[result |-> "none", claims |-> {}]}

\* Seeded bug: failing open.
PassUnlessFailed(reply) == IF reply \in Verdicts THEN reply ELSE [result |-> "PASS", claims |-> {}]

\* check_groundedness: an unparseable reply is a FAIL.
CheckGroundedness(reply) == IF reply \in Verdicts THEN reply ELSE Failed

\* The critic replies to the answer and the chunks of this round.
Check(q, reply) ==
  /\ pc[q] = "critic"
  /\ verdict' = [verdict EXCEPT ![q] = CheckGroundedness(reply)]
  /\ replies' = [replies EXCEPT ![q] = Append(@, reply)]
  /\ checked' = [checked EXCEPT ![q] = [round |-> answer[q].round, used |-> chunks_used[q]]]

\* The verdict is PASS: the loop ends.
Pass(q) ==
  /\ \E reply \in Replies : Check(q, reply)
  /\ verdict'[q].result = "PASS"
  /\ Goto(q, "audit")
  /\ UNCHANGED <<memory, loop, text, store>>

\* The verdict is FAIL and the retries are used up: the answer gets its caveat.
GiveUp(q) ==
  /\ \E reply \in Replies : Check(q, reply)
  /\ verdict'[q].result = "FAIL"
  /\ retry_count[q] + 1 > MaxRetries
  /\ retry_count' = [retry_count EXCEPT ![q] = @ + 1]
  /\ answer' = [answer EXCEPT ![q].caveat = TRUE]
  /\ Goto(q, "audit")
  /\ UNCHANGED <<memory, critic_corrections, recall_k, subject, reranked, chunks_used, store>>

\* Seeded bug: a failed check is repeated without counting it.
RetryUncounted(q) ==
  /\ pc[q] = "critic" /\ retry_count[q] + 1 <= MaxRetries
  /\ Goto(q, "retrieve")
  /\ UNCHANGED <<memory, loop, text, judgement, store>>

\* Seeded bug: a check that names no claim goes back to the plain query.
RetryOnLastClaims(q) ==
  /\ \E reply \in Replies : Check(q, reply)
  /\ verdict'[q].result = "FAIL"
  /\ retry_count[q] + 1 <= MaxRetries
  /\ retry_count' = [retry_count EXCEPT ![q] = @ + 1]
  /\ critic_corrections' = [critic_corrections EXCEPT ![q] = @ + 1]
  /\ recall_k' = [recall_k EXCEPT ![q] = Smaller(2 * @, RecallCap)]
  /\ subject' = [subject EXCEPT ![q] = verdict'[q].claims]
  /\ Goto(q, "retrieve")
  /\ UNCHANGED <<memory, text, store>>

\* The verdict is FAIL and a retry is left: ask about the claims, if it named any.
Retry(q) ==
  /\ \E reply \in Replies : Check(q, reply)
  /\ verdict'[q].result = "FAIL"
  /\ retry_count[q] + 1 <= MaxRetries
  /\ retry_count' = [retry_count EXCEPT ![q] = @ + 1]
  /\ critic_corrections' = [critic_corrections EXCEPT ![q] = @ + 1]
  /\ recall_k' = [recall_k EXCEPT ![q] = Smaller(2 * @, RecallCap)]
  /\ subject' = [subject EXCEPT ![q] = IF verdict'[q].claims = {} THEN @ ELSE verdict'[q].claims]
  /\ Goto(q, "retrieve")
  /\ UNCHANGED <<memory, text, store>>

AuditLog(q) ==
  [query |-> q, sources_used |-> [i \in DOMAIN chunks_used[q] |-> chunks_used[q][i].chunk],
   critic_result |-> verdict[q].result, critic_corrections |-> critic_corrections[q],
   retry_count |-> retry_count[q]]

\* After a commit: the handler goes on, or the commit raises although it took effect (its
\* reply was lost), or the refresh after it raises.
Commits(q, next) == Goto(q, next) \/ (CallsMayFail /\ Goto(q, "failed"))

\* Seeded bug: the record is added and never committed.
LogUncommitted(q) ==
  /\ pc[q] = "audit"
  /\ UNCHANGED audit_logs
  /\ Commits(q, IF q \in InSession THEN "question" ELSE "done")
  /\ UNCHANGED <<memory, loop, text, judgement, session_turns>>

\* log_query and its commit.
LogQuery(q) ==
  /\ pc[q] = "audit"
  /\ audit_logs' = audit_logs \cup {AuditLog(q)}
  /\ Commits(q, IF q \in InSession THEN "question" ELSE "done")
  /\ UNCHANGED <<memory, loop, text, judgement, session_turns>>

\* add_turn for the question ...
AddQuestion(q) ==
  /\ pc[q] = "question"
  /\ session_turns' = Append(session_turns,
       [query |-> q, role |-> "user", braced |-> q \in Braced, critic_passed |-> FALSE])
  /\ Commits(q, "answer")
  /\ UNCHANGED <<memory, loop, text, judgement, audit_logs>>

\* ... and for the answer.
AddAnswer(q) ==
  /\ pc[q] = "answer"
  /\ session_turns' = Append(session_turns,
       [query |-> q, role |-> "assistant", braced |-> answer[q].braced,
        critic_passed |-> verdict[q].result = "PASS"])
  /\ Commits(q, "done")
  /\ UNCHANGED <<memory, loop, text, judgement, audit_logs>>

\* A store, a model or a commit raises without effect (Commits has the other case); so
\* does "; ".join of claims that are no strings, and add_turn in a session that has ended.
Raise(q) ==
  /\ CallsMayFail /\ pc[q] \notin {"done", "failed"}
  /\ Goto(q, "failed")
  /\ UNCHANGED <<memory, loop, text, judgement, store>>

Handle(q) ==
  \/ Start(q) \/ Retrieve(q) \/ Generate(q) \/ FormatFails(q)
  \/ Pass(q) \/ GiveUp(q) \/ Retry(q)
  \/ LogQuery(q) \/ AddQuestion(q) \/ AddAnswer(q) \/ Raise(q)

Next == \E q \in Queries : Handle(q)
Spec == Init /\ [][Next]_vars

\* The event loop runs every handler on, and every call returns or raises: the clients
\* of the stores and of the models have timeouts.
FairSpec == Spec /\ \A q \in Queries : WF_vars(Handle(q))

-----------------------------------------------------------------------------
TypeOK ==
  /\ pc \in [Queries -> {"new", "retrieve", "generate", "critic", "audit", "question",
                         "answer", "done", "failed"}]
  /\ \A q \in Queries :
       /\ Len(memory[q]) <= Window
       /\ retry_count[q] \in 0 .. MaxRetries + 1
       /\ critic_corrections[q] \in 0 .. MaxRetries
       /\ recall_k[q] \in RecallK .. RecallCap
       /\ subject[q] \subseteq Claims
       /\ reranked[q] \in Seq(Chunks) /\ Len(reranked[q]) <= TopK
       /\ chunks_used[q] \in Seq([chunk : Chunks, marker : 1 .. TopK])
       /\ answer[q] \in [round : 0 .. MaxRetries + 1, braced : BOOLEAN, caveat : BOOLEAN]
       /\ verdict[q] \in Verdicts
       /\ replies[q] \in Seq(Replies)
       /\ checked[q] \in [round : 0 .. MaxRetries + 1, used : Seq([chunk : Chunks, marker : 1 .. TopK])]
  /\ audit_logs \subseteq [query : Queries, sources_used : Seq(Chunks), critic_result : {"PASS", "FAIL"},
                           critic_corrections : Nat, retry_count : Nat]
  /\ session_turns \in Seq([query : InSession, role : {"user", "assistant"}, braced : BOOLEAN,
                            critic_passed : BOOLEAN])

AfterLoop == {"audit", "question", "answer", "done"}

\* An answer leaves the loop without its caveat only if the critic passed this very
\* answer on exactly the chunks the prompt showed; it carries the caveat only if every
\* attempt failed ("an unparseable verdict must never be silently treated as a PASS").
PassIsEarned == \A q \in Queries : pc[q] \in AfterLoop =>
  IF answer[q].caveat
    THEN Len(replies[q]) = MaxRetries + 1 /\ \A i \in DOMAIN replies[q] : replies[q][i].result # "PASS"
    ELSE /\ Last(replies[q]).result = "PASS"
         /\ checked[q] = [round |-> answer[q].round, used |-> ChunksUsed(reranked[q])]

\* The reported numbers: one correction per further round, and retry_count one more than
\* that after the last failure; the sub-query of a round names the claims of the latest
\* failed check that named any.
RoundsAreCounted == \A q \in Queries :
  LET failed == {i \in DOMAIN replies[q] : replies[q][i].result # "PASS"}
      naming == {i \in failed : replies[q][i].claims # {} /\ (i < Len(replies[q]) \/ pc[q] \notin AfterLoop)}
  IN  pc[q] # "failed" =>
      /\ retry_count[q] = Cardinality(failed)
      /\ pc[q] \in AfterLoop => critic_corrections[q] = Len(replies[q]) - 1
      /\ subject[q] = IF naming = {} THEN {}
                      ELSE replies[q][CHOOSE i \in naming : \A j \in naming : j <= i].claims

\* What a query leaves behind agrees: turns are saved and an answer is returned only
\* after its one audit record, which names the chunks the prompt showed and the critic
\* checked, and the turn of the answer carries the audited verdict.  A query that is
\* answered in a session has saved one answer, a running one none; a refused one may
\* have saved its answer, when the commit or the refresh after it raised, but only one.
AuditedAsAnswered == \A q \in Queries :
  LET logged == {a \in audit_logs : a.query = q}
      answers == {i \in DOMAIN session_turns : session_turns[i].query = q /\ session_turns[i].role = "assistant"}
      turns == {i \in DOMAIN session_turns : session_turns[i].query = q}
  IN  pc[q] = "done" \/ turns # {}
      => /\ \E a \in logged : /\ logged = {a}
                              /\ a.sources_used = [i \in DOMAIN checked[q].used |-> checked[q].used[i].chunk]
                              /\ \A i \in answers : session_turns[i].critic_passed <=> a.critic_result = "PASS"
         /\ Cardinality(answers) \in IF q \notin InSession THEN {0}
                                    ELSE CASE pc[q] = "done" -> {1} [] pc[q] = "failed" -> {0, 1}
                                           [] OTHER -> {0}

\* The excerpts fit the budget, none stands twice, and no chunk was left out that would
\* still fit beside those chosen.
ContextIsFull == \A q \in Queries : pc[q] = "critic" =>
  LET used == chunks_used[q]
      chosen == {used[i].chunk : i \in DOMAIN used}
  IN  /\ TokensOf(used) <= ChunkBudget
      /\ Cardinality(chosen) = Len(used)
      /\ \A i \in DOMAIN reranked[q] : reranked[q][i] \in chosen
                                       \/ TokensOf(used) + Tokens[reranked[q][i]] > ChunkBudget

\* Every query is answered or refused: the retry loop ends.
QueryEnds == \A q \in Queries : pc[q] = "retrieve" ~> pc[q] \in {"done", "failed"}
=============================================================================
