---------------------------- MODULE RateLimiter ----------------------------
(***************************************************************************)
(* The sliding window of one Redis key, rate:user:{id} or rate:ip:{ip}:    *)
(* requests of several routes, each with its own limit and window, count   *)
(* themselves in the same sorted set.  A request reads its clock, prunes,  *)
(* counts and enters in one MULTI; a denied request then takes back an     *)
(* entry and looks up the oldest one, in three more round trips.           *)
(***************************************************************************)
EXTENDS Integers, FiniteSets

CONSTANTS
  Requests,    \* requests that pass through a limiter of this key
  LimitOf,     \* limit of the route of each request
  WindowOf,    \* window_seconds of the route of each request
  Second,      \* bound: clock ticks in a second
  MaxTime,     \* bound: the last tick
  MayDie       \* Redis may raise, and a request be lost, at every round trip

ASSUME RateLimiterAssumption ==
  /\ LimitOf \in [Requests -> Nat \ {0}]
  /\ WindowOf \in [Requests -> Nat \ {0}]
  /\ {Second, MaxTime} \subseteq Nat \ {0}
  /\ MayDie \in BOOLEAN

VARIABLES
  clock,        \* time.time of every API process
  zset,         \* the sorted set: the request that entered, its score
  expires,      \* tick at which the key expires
  pc,           \* position of a request in _sliding_window_check
  now_ms,       \* per request: the clock it read
  oldest,       \* per request: the member ZRANGE returned
  retry_after,  \* per request: what it returns when denied, 0 before
  overlapped    \* history: a request has started while another was under way

vars == <<clock, zset, expires, pc, now_ms, oldest, retry_after, overlapped>>

Window(r) == WindowOf[r] * Second
Settled == {"new", "allowed", "denied", "error", "lost"}

Init ==
  /\ clock = 1
  /\ zset = {}
  /\ expires = 0
  /\ pc = [r \in Requests |-> "new"]
  /\ now_ms = [r \in Requests |-> 0]
  /\ oldest = [r \in Requests |-> r]
  /\ retry_after = [r \in Requests |-> 0]
  /\ overlapped = FALSE

\* Time passes, and Redis drops the key when its TTL is over.
Tick ==
  /\ clock < MaxTime
  /\ clock' = clock + 1
  /\ zset' = IF clock + 1 < expires THEN zset ELSE {}
  /\ UNCHANGED <<expires, pc, now_ms, oldest, retry_after, overlapped>>

ReadClock(r) ==
  /\ pc[r] = "new"
  /\ now_ms' = [now_ms EXCEPT ![r] = clock]
  /\ pc' = [pc EXCEPT ![r] = "check"]
  /\ overlapped' = (overlapped \/ \E s \in Requests : pc[s] \notin Settled)
  /\ UNCHANGED <<clock, zset, expires, oldest, retry_after>>

\* What ZREMRANGEBYSCORE key -inf cutoff leaves.
InWindow(r) == {m \in zset : m.score > now_ms[r] - Window(r)}

\* Seeded bug: current_count > limit.
FullAfterOneMore(r) == Cardinality(InWindow(r)) > LimitOf[r]

\* current_count, taken before the ZADD of this request.
Full(r) == Cardinality(InWindow(r)) >= LimitOf[r]

\* ZREMRANGEBYSCORE, ZCARD, ZADD and EXPIRE in one MULTI.
Enter(r) ==
  /\ pc[r] = "check"
  /\ zset' = InWindow(r) \cup {[request |-> r, score |-> now_ms[r]]}
  /\ expires' = clock + Window(r) + Second
  /\ UNCHANGED <<clock, now_ms, oldest, retry_after, overlapped>>

Check(r) ==
  /\ Enter(r)
  /\ pc' = [pc EXCEPT ![r] = IF Full(r) THEN "undo" ELSE "allowed"]

\* Its reply is lost, or the process ends before it comes: the entry stays.
LoseReply(r) ==
  /\ MayDie /\ Enter(r)
  /\ pc' = [pc EXCEPT ![r] = "lost"]

\* Redis refuses it, or the process ends before it is sent.
CheckRaises(r) ==
  /\ MayDie /\ pc[r] = "check"
  /\ pc' = [pc EXCEPT ![r] = "error"]
  /\ UNCHANGED <<clock, zset, expires, now_ms, oldest, retry_after, overlapped>>

Highest == {m \in zset : \A n \in zset : n.score <= m.score}
Lowest == {m \in zset : \A n \in zset : m.score <= n.score}

\* Seeded bug: the entry of a denied request stays.
UndoNothing(r) ==
  /\ pc[r] = "undo"
  /\ pc' = [pc EXCEPT ![r] = "oldest"]
  /\ UNCHANGED <<clock, zset, expires, now_ms, oldest, retry_after, overlapped>>

\* ZPOPMAX: the member of the highest score, whoever entered it; members of one
\* score are ordered by their UUIDs, that is, in any order.
Undo(r) ==
  /\ pc[r] = "undo"
  /\ IF zset = {} THEN zset' = {} ELSE \E m \in Highest : zset' = zset \ {m}
  /\ pc' = [pc EXCEPT ![r] = "oldest"]
  /\ UNCHANGED <<clock, expires, now_ms, oldest, retry_after, overlapped>>

\* ZRANGE key 0 0, whose first element is taken: IndexError when there is none.
Oldest(r) ==
  /\ pc[r] = "oldest"
  /\ IF zset = {}
       THEN pc' = [pc EXCEPT ![r] = "error"] /\ UNCHANGED oldest
       ELSE /\ \E m \in Lowest : oldest' = [oldest EXCEPT ![r] = m.request]
            /\ pc' = [pc EXCEPT ![r] = "score"]
  /\ UNCHANGED <<clock, zset, expires, now_ms, retry_after, overlapped>>

AtLeastOne(n) == IF n < 1 THEN 1 ELSE n

\* Seeded bug: rounded up, and one second more.
RetryAfterRoundedUp(r, m) == AtLeastOne((m.score + Window(r) - now_ms[r]) \div Second + 1)

RetryAfter(r, m) == AtLeastOne((m.score + Window(r) - now_ms[r]) \div Second)

\* ZSCORE of that member: None, and the whole window, when it is gone by now.
Score(r) ==
  /\ pc[r] = "score"
  /\ LET found == {m \in zset : m.request = oldest[r]} IN
     retry_after' = [retry_after EXCEPT ![r] =
       IF found = {} THEN WindowOf[r] ELSE RetryAfter(r, CHOOSE m \in found : TRUE)]
  /\ pc' = [pc EXCEPT ![r] = "denied"]
  /\ oldest' = [oldest EXCEPT ![r] = r]
  /\ UNCHANGED <<clock, zset, expires, now_ms, overlapped>>

\* A later call raises, or the process ends after the reply to the MULTI.
Die(r) ==
  /\ MayDie
  /\ pc[r] \in {"undo", "oldest", "score"}
  /\ pc' = [pc EXCEPT ![r] = "lost"]
  /\ UNCHANGED <<clock, zset, expires, now_ms, oldest, retry_after, overlapped>>

Next ==
  \/ Tick
  \/ \E r \in Requests :
       \/ ReadClock(r) \/ Check(r) \/ LoseReply(r) \/ CheckRaises(r)
       \/ Undo(r) \/ Oldest(r) \/ Score(r) \/ Die(r)

Spec == Init /\ [][Next]_vars
-----------------------------------------------------------------------------
\* The requests of a set whose clock reading lies in the window of r.
Recent(S, r) == {s \in S : now_ms[s] > now_ms[r] - Window(r)}
Ended(p) == {s \in Requests : pc[s] = p}

\* No request is admitted when its window already holds as many admitted requests of
\* the key as its route allows.  So it is while requests do not overlap, and in the
\* first window even when they do, provided the MULTI follows the clock reading within
\* the second that the TTL exceeds the window.  (A denied request may take back the entry of an
\* admitted one that overlaps it; the entry it leaves stands for the other, but is
\* the first of the two to grow old.)
AdmittedBelowLimit == [][\A r \in Requests :
  /\ pc[r] = "check" /\ pc'[r] = "allowed"
  /\ ~overlapped \/ clock <= Window(r)
  /\ clock <= now_ms[r] + Second
  => Cardinality(Recent(Ended("allowed"), r)) < LimitOf[r]]_vars

\* A request is denied only when its window is full of admitted requests and of
\* entries that lost requests could not take back: "request denied, don't count it".  So
\* it is while requests do not overlap; the undo of one that does may take the entry of
\* another, and leave its own to be counted.
DeniedWhenFull == [][\A r \in Requests :
  pc[r] = "check" /\ pc'[r] = "undo" /\ ~overlapped
  => Cardinality(Recent(Ended("allowed") \cup Ended("lost"), r)) >= LimitOf[r]]_vars

\* A denied request that no other overlaps waits at least a second and at most its
\* window; it always finds an entry to compute that from, unless the key expired
\* while it was under way.
DenialIsAnswered == [][\A r \in Requests : ~overlapped =>
  /\ pc[r] = "score" /\ pc'[r] = "denied" => retry_after'[r] \in 1 .. WindowOf[r]
  /\ pc[r] = "oldest" /\ pc'[r] = "error" => clock >= expires]_vars
=============================================================================
