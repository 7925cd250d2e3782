----------------------------- MODULE AuthTokens -----------------------------
(***************************************************************************)
(* Login, refresh, logout and logout everywhere, on the accounts of        *)
(* Accounts.  Access tokens are known by their signature alone; a refresh  *)
(* token also needs its key refresh:{user}:{hash} in Redis.  Every Redis   *)
(* call and every SELECT is a step of its own, so requests interleave.     *)
(***************************************************************************)
EXTENDS Accounts

CONSTANTS
  Logins, Refreshes, Logouts, LogoutAlls,  \* requests
  LoggedIn,                                \* earlier logins and their accounts
  NoUser,                                  \* no subject yet
  CallsMayFail                             \* Redis or Postgres may raise

Issuers == Logins \cup Refreshes           \* a token pair is named by its request
Signed == Logouts \cup LogoutAlls          \* requests that carry an access token
Requests == Issuers \cup Signed
Tokens == [kind : {"access", "refresh"}, of : Issuers]

ASSUME AuthTokensAssumption ==
  /\ Logins \cap Refreshes = {} /\ Logouts \cap LogoutAlls = {} /\ Issuers \cap Signed = {}
  /\ DOMAIN LoggedIn \subseteq Logins
  /\ \A l \in DOMAIN LoggedIn : LoggedIn[l] \in Existing
  /\ NoUser \notin UserIds
  /\ CallsMayFail \in BOOLEAN

VARIABLES
  pc,         \* per request: position in its handler, at last its answer
  sub,        \* per issuer: the user its tokens are for
  body,       \* per refresh and logout: the issuer of the refresh token in the body
  caller,     \* per signed request: the user get_current_user returned
  keys,       \* refresh keys in Redis: [user, of]
  lapsed,     \* tokens whose exp has passed
  delivered,  \* tokens that stood in a response
  page,       \* per logout_all: the keys of the last SCAN, not yet deleted
  seen,       \* per logout_all: every key SCAN has returned
  before,     \* history, per logout_all: its user's keys when its first SCAN ran
  revoked     \* history: refresh tokens used up or revoked by a call of their user

tokens == <<keys, lapsed, delivered>>
sweep == <<page, seen, before>>
vars == <<accountVars, pc, sub, body, caller, tokens, sweep, revoked>>

Goto(q, p) == pc' = [pc EXCEPT ![q] = p]
\* What follows a Redis call that took effect: its reply, or an exception in its place.
Replied(q, p) == Goto(q, p) \/ (CallsMayFail /\ Goto(q, "failed"))
Active(id) == \E u \in users : u.id = id /\ u.is_active
Access(i) == [kind |-> "access", of |-> i]
Refresh(i) == [kind |-> "refresh", of |-> i]
\* _refresh_redis_key
Key(user, i) == [user |-> user, of |-> i]

Init ==
  /\ AccountsInit
  /\ pc = [q \in Requests |-> IF q \in DOMAIN LoggedIn THEN "done" ELSE "new"]
  /\ sub = [i \in Issuers |-> IF i \in DOMAIN LoggedIn THEN LoggedIn[i] ELSE NoUser]
  /\ body = [q \in Refreshes \cup Logouts |-> NoUser]
  /\ caller = [q \in Signed |-> NoUser]
  /\ keys = {Key(LoggedIn[l], l) : l \in DOMAIN LoggedIn}
  /\ lapsed = {}
  /\ delivered = {Access(l) : l \in DOMAIN LoggedIn} \cup {Refresh(l) : l \in DOMAIN LoggedIn}
  /\ page = [a \in LogoutAlls |-> {}]
  /\ seen = [a \in LogoutAlls |-> {}]
  /\ before = [a \in LogoutAlls |-> {}]
  /\ revoked = {}

-----------------------------------------------------------------------------
\* Seeded bug: a name without a row gets through.
LoginUnknown(l) ==
  /\ pc[l] = "new"
  /\ Goto(l, "store")
  /\ UNCHANGED <<accountVars, sub, body, caller, tokens, sweep, revoked>>

\* login: the row of the name as given, its password and is_active; then both tokens.
Login(l) ==
  /\ pc[l] = "new"
  /\ \E u \in users : u.is_active /\ sub' = [sub EXCEPT ![l] = u.id]
  /\ Goto(l, "store")
  /\ UNCHANGED <<accountVars, body, caller, tokens, sweep, revoked>>

\* "Invalid credentials.", for whichever reason.
RefuseLogin(l) ==
  /\ pc[l] = "new"
  /\ Goto(l, "refused")
  /\ UNCHANGED <<accountVars, sub, body, caller, tokens, sweep, revoked>>

\* The end of _issue_tokens: SETEX.  login returns both tokens, refresh the access token;
\* when the call raises although the key is stored, neither returns any.
StoreToken(i) ==
  /\ pc[i] = "store"
  /\ keys' = keys \cup {Key(sub[i], i)}
  /\ \/ /\ delivered' = delivered \cup {Access(i)} \cup (IF i \in Logins THEN {Refresh(i)} ELSE {})
        /\ Goto(i, "done")
     \/ CallsMayFail /\ Goto(i, "unanswered") /\ UNCHANGED delivered
  /\ UNCHANGED <<accountVars, sub, body, caller, lapsed, sweep, revoked>>

\* decode_refresh_token on a token of either kind, then EXISTS.
Valid(t) == t.kind = "refresh" /\ t \notin lapsed /\ Key(sub[t.of], t.of) \in keys

\* Seeded bug: the signature is enough.
CheckSignature(r) ==
  /\ pc[r] = "new"
  /\ \E t \in delivered :
       /\ t.kind = "refresh" /\ t \notin lapsed
       /\ body' = [body EXCEPT ![r] = t.of]
  /\ Goto(r, "delete")
  /\ UNCHANGED <<accountVars, sub, caller, tokens, sweep, revoked>>

CheckToken(r) ==
  /\ pc[r] = "new"
  /\ \E t \in delivered : Valid(t) /\ body' = [body EXCEPT ![r] = t.of]
  /\ Goto(r, "delete")
  /\ UNCHANGED <<accountVars, sub, caller, tokens, sweep, revoked>>

RefuseToken(r) ==
  /\ pc[r] = "new"
  /\ \E t \in delivered : ~Valid(t)
  /\ Goto(r, "refused")
  /\ UNCHANGED <<accountVars, sub, body, caller, tokens, sweep, revoked>>

\* DEL of the used token, whose reply is not looked at.
DeleteUsed(r) ==
  /\ pc[r] = "delete"
  /\ keys' = keys \ {Key(sub[body[r]], body[r])}
  /\ revoked' = revoked \cup {body[r]}
  /\ Replied(r, "lookup")
  /\ UNCHANGED <<accountVars, sub, body, caller, lapsed, delivered, sweep>>

\* The user of the token; an inactive one has lost the token by now.
LookUpUser(r) ==
  /\ pc[r] = "lookup"
  /\ IF Active(sub[body[r]])
       THEN sub' = [sub EXCEPT ![r] = sub[body[r]]] /\ Goto(r, "store")
       ELSE Goto(r, "inactive") /\ UNCHANGED sub
  /\ UNCHANGED <<accountVars, body, caller, tokens, sweep, revoked>>

-----------------------------------------------------------------------------
\* get_current_user: a live access token of an active account.
Authenticate(q, t) ==
  /\ pc[q] = "new"
  /\ t \in delivered \ lapsed /\ t.kind = "access" /\ Active(sub[t.of])
  /\ caller' = [caller EXCEPT ![q] = sub[t.of]]

RefuseCaller(q) ==
  /\ pc[q] = "new"
  /\ Goto(q, "refused")
  /\ UNCHANGED <<accountVars, sub, body, caller, tokens, sweep, revoked>>

\* The logout route, with a refresh token of the caller or of anyone else in the body.
Logout(o) ==
  /\ \E t \in delivered : Authenticate(o, t)
  /\ \E t \in delivered : t.kind = "refresh" /\ body' = [body EXCEPT ![o] = t.of]
  /\ Goto(o, "drop")
  /\ UNCHANGED <<accountVars, sub, tokens, sweep, revoked>>

\* Revoked by a logout of the user it is for.
OwnToken(o) == IF sub[body[o]] = caller[o] THEN {body[o]} ELSE {}

\* Seeded bug: the key is built from the subject of the token.
DropAnyToken(o) ==
  /\ pc[o] = "drop"
  /\ keys' = keys \ {Key(sub[body[o]], body[o])}
  /\ revoked' = revoked \cup OwnToken(o)
  /\ Replied(o, "done")
  /\ UNCHANGED <<accountVars, sub, body, caller, lapsed, delivered, sweep>>

\* DEL of the key made of the caller and the hash of the body.
DropToken(o) ==
  /\ pc[o] = "drop"
  /\ keys' = keys \ {Key(caller[o], body[o])}
  /\ revoked' = revoked \cup OwnToken(o)
  /\ Replied(o, "done")
  /\ UNCHANGED <<accountVars, sub, body, caller, lapsed, delivered, sweep>>

LogoutAll(a) ==
  /\ \E t \in delivered : Authenticate(a, t)
  /\ Goto(a, "begin")
  /\ UNCHANGED <<accountVars, sub, body, tokens, sweep, revoked>>

\* Keys that match refresh:{user_id}:*
Matching(a) == {k \in keys : k.user = caller[a]}

\* Seeded bug: one SCAN is taken for all.
ScanOnce(a) ==
  /\ pc[a] = "begin"
  /\ before' = [before EXCEPT ![a] = Matching(a)]
  /\ \E P \in SUBSET Matching(a) :
       /\ page' = [page EXCEPT ![a] = P]
       /\ seen' = [seen EXCEPT ![a] = @ \cup P]
  /\ Goto(a, "last page")
  /\ UNCHANGED <<accountVars, sub, body, caller, tokens, revoked>>

\* SCAN returns some matching keys.  Its cursor is 0 only when every key that was there
\* all the time since the first call has been returned (keys do not come back).
Scan(a) ==
  /\ pc[a] \in {"begin", "scan"}
  /\ before' = [before EXCEPT ![a] = IF pc[a] = "begin" THEN Matching(a) ELSE @]
  /\ \E P \in SUBSET Matching(a), p \in {"page", "last page"} :
       /\ p = "last page" => before'[a] \cap keys \subseteq seen[a] \cup P
       /\ page' = [page EXCEPT ![a] = P]
       /\ seen' = [seen EXCEPT ![a] = @ \cup P]
       /\ Goto(a, p)
  /\ UNCHANGED <<accountVars, sub, body, caller, tokens, revoked>>

\* DEL of the keys of the page, if any.
DeletePage(a) ==
  /\ pc[a] \in {"page", "last page"}
  /\ keys' = keys \ page[a]
  /\ revoked' = revoked \cup {k.of : k \in page[a]}
  /\ page' = [page EXCEPT ![a] = {}]
  /\ Replied(a, IF pc[a] = "page" THEN "scan" ELSE "done")
  /\ UNCHANGED <<accountVars, sub, body, caller, lapsed, delivered, seen, before>>

-----------------------------------------------------------------------------
\* Redis or Postgres raises and the call has no effect; the request ends in a 500.
Raise(q) ==
  /\ CallsMayFail
  /\ pc[q] \in {"delete", "lookup", "store", "drop", "begin", "scan", "page", "last page"}
  /\ Goto(q, "failed")
  /\ UNCHANGED <<accountVars, sub, body, caller, tokens, sweep, revoked>>

\* exp of the refresh token passes, when that of the access token has long passed.  (An
\* access token that lapses earlier only keeps requests from starting.)
Lapse(i) ==
  /\ sub[i] # NoUser /\ Refresh(i) \notin lapsed
  /\ lapsed' = lapsed \cup {Access(i), Refresh(i)}
  /\ UNCHANGED <<accountVars, pc, sub, body, caller, keys, delivered, sweep, revoked>>

\* The TTL of a key starts after the iat of its token, with the same length.
ExpireKey(k) ==
  /\ k \in keys /\ Refresh(k.of) \in lapsed
  /\ keys' = keys \ {k}
  /\ UNCHANGED <<accountVars, pc, sub, body, caller, lapsed, delivered, sweep, revoked>>

Accounts == AccountsNext /\ UNCHANGED <<pc, sub, body, caller, tokens, sweep, revoked>>

Next ==
  \/ Accounts
  \/ \E l \in Logins : Login(l) \/ RefuseLogin(l)
  \/ \E i \in Issuers : StoreToken(i)
  \/ \E r \in Refreshes : CheckToken(r) \/ RefuseToken(r) \/ DeleteUsed(r) \/ LookUpUser(r)
  \/ \E q \in Signed : RefuseCaller(q)
  \/ \E o \in Logouts : Logout(o) \/ DropToken(o)
  \/ \E a \in LogoutAlls : LogoutAll(a) \/ Scan(a) \/ DeletePage(a)
  \/ \E q \in Requests : Raise(q)
  \/ \E i \in Issuers : Lapse(i)
  \/ \E k \in keys : ExpireKey(k)

Spec == Init /\ [][Next]_vars
-----------------------------------------------------------------------------
Positions == {"new", "store", "delete", "lookup", "drop", "begin", "scan", "page", "last page",
              "done", "unanswered", "refused", "inactive", "failed"}
Keys == [user : UserIds, of : Issuers]

\* Types; whoever is about to store a key knows an account to store it for.
TypeOK ==
  /\ AccountsTypeOK
  /\ pc \in [Requests -> Positions]
  /\ sub \in [Issuers -> UserIds \cup {NoUser}]
  /\ \A i \in Issuers : pc[i] = "store" => sub[i] # NoUser
  /\ body \in [Refreshes \cup Logouts -> Issuers \cup {NoUser}]
  /\ caller \in [Signed -> UserIds \cup {NoUser}]
  /\ keys \subseteq Keys
  /\ lapsed \subseteq Tokens
  /\ delivered \subseteq Tokens
  /\ page \in [LogoutAlls -> SUBSET Keys]
  /\ seen \in [LogoutAlls -> SUBSET Keys]
  /\ before \in [LogoutAlls -> SUBSET Keys]
  /\ revoked \subseteq Issuers

\* A token that was used, logged out or swept by a finished DEL is not accepted again,
\* however requests overlap: "Submitting an already-used refresh token returns 401."
\* (Two refreshes may both pass the check before the first DEL.)
RevokedIsRefused == [][\A r \in Refreshes :
  pc[r] = "new" /\ pc'[r] = "delete" => body'[r] \notin revoked]_vars

\* When logout_all has answered, no key is left that was there when it began, although
\* SCAN and DEL alternate with logins and refreshes; what is left was stored later.
LogoutAllRevokes == \A a \in LogoutAlls : pc[a] = "done" => before[a] \cap keys = {}

\* A client that was handed a refresh token keeps it until it lapses or a call of the
\* same user uses or revokes it: nobody is logged out by another user's requests.
LostForAReason == \A t \in delivered : t.kind = "refresh" =>
  t \in lapsed \/ t.of \in revoked \/ Key(sub[t.of], t.of) \in keys
=============================
