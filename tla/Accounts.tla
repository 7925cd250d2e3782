------------------------------ MODULE Accounts ------------------------------
(***************************************************************************)
(* The users table: POST /v1/users/register and create_admin_user.py look  *)
(* a name up and insert a row in a later statement; the unique index on    *)
(* username decides between those that overlap.                            *)
(***************************************************************************)
EXTENDS Naturals, FiniteSets

CONSTANTS
  Registrations,   \* POST /v1/users/register requests
  AdminRuns,       \* runs of create_admin_user.py
  Existing,        \* accounts from before
  Names,           \* what can be given as a username
  NameGiven,       \* the name each of them gives or has
  Lower,           \* v.strip().lower(), which only RegisterRequest applies
  CommitsMayFail   \* a commit, or the SELECT after it, may raise

Creators == Registrations \cup AdminRuns
UserIds == Creators \cup Existing

ASSUME AccountsAssumption ==
  /\ Registrations \cap AdminRuns = {} /\ Creators \cap Existing = {}
  /\ NameGiven \in [UserIds -> Names]
  /\ \A d, e \in Existing : NameGiven[d] = NameGiven[e] => d = e
  /\ Lower \in [Names -> Names]
  /\ CommitsMayFail \in BOOLEAN

VARIABLES
  users,      \* committed rows; the id of a row is the creator that inserted it
  creating    \* per creator: position in the handler, at last its answer

accountVars == <<users, creating>>

\* The name that is looked up and stored.
Username(g) == IF g \in Registrations THEN Lower[NameGiven[g]] ELSE NameGiven[g]
NewUser(g) == [id |-> g, username |-> Username(g), is_active |-> TRUE, is_admin |-> g \in AdminRuns]
Taken(name) == \E u \in users : u.username = name

AccountsInit ==
  /\ users = {NewUser(e) : e \in Existing}
  /\ creating = [g \in Creators |-> "new"]

\* SELECT users WHERE username: a row means 409, or exit 1 in the script.
CheckName(g) ==
  /\ creating[g] = "new"
  /\ creating' = [creating EXCEPT ![g] = IF Taken(Username(g)) THEN "conflict" ELSE "insert"]
  /\ UNCHANGED users

\* The script refuses a password of less than 12 characters after its SELECT.
RefusePassword(g) ==
  /\ g \in AdminRuns
  /\ creating[g] = "new" /\ ~Taken(Username(g))
  /\ creating' = [creating EXCEPT ![g] = "refused"]
  /\ UNCHANGED users

\* Seeded bug: the check alone guards the insert.
InsertUnchecked(g) ==
  /\ creating[g] = "insert"
  /\ users' = users \cup {NewUser(g)}
  /\ creating' = [creating EXCEPT ![g] = "refresh"]

\* INSERT and COMMIT; ix_users_username raises IntegrityError, which no handler turns
\* into a 409.
InsertUser(g) ==
  /\ creating[g] = "insert"
  /\ IF Taken(Username(g))
       THEN creating' = [creating EXCEPT ![g] = "error"] /\ UNCHANGED users
       ELSE users' = users \cup {NewUser(g)} /\ creating' = [creating EXCEPT ![g] = "refresh"]

\* The commit raises, before or after it took effect.
CommitRaises(g) ==
  /\ CommitsMayFail
  /\ creating[g] = "insert" /\ ~Taken(Username(g))
  /\ users' \in {users, users \cup {NewUser(g)}}
  /\ creating' = [creating EXCEPT ![g] = "error"]

\* db.refresh after the commit, and the answer.
RefreshUser(g) ==
  /\ creating[g] = "refresh"
  /\ \E end \in {"created"} \cup (IF CommitsMayFail THEN {"error"} ELSE {}) :
       creating' = [creating EXCEPT ![g] = end]
  /\ UNCHANGED users

\* An operator clears is_active; nothing in the application does.
Deactivate(u) ==
  /\ u \in users /\ u.is_active
  /\ users' = (users \ {u}) \cup {[u EXCEPT !.is_active = FALSE]}
  /\ UNCHANGED creating

Create(g) == CheckName(g) \/ RefusePassword(g) \/ InsertUser(g) \/ CommitRaises(g) \/ RefreshUser(g)

AccountsNext ==
  \/ \E g \in Creators : Create(g)
  \/ \E u \in users : Deactivate(u)

AccountsSpec == AccountsInit /\ [][AccountsNext]_accountVars
-----------------------------------------------------------------------------
\* The type of the accounts.
AccountsTypeOK ==
  /\ users \subseteq [id : UserIds, username : Names, is_active : BOOLEAN, is_admin : BOOLEAN]
  /\ creating \in [Creators -> {"new", "insert", "refresh", "created", "conflict", "refused", "error"}]

\* Check and insert are two statements, so creators of one name race; still a name has
\* one row and a row is answered for once: who is told "created" owns the one row of its
\* name, and who is told that the name is taken meets a row that is not its own.
NamesAreUnique ==
  /\ \A u, v \in users : u.username = v.username => u = v
  /\ \A g \in Creators :
       /\ creating[g] = "created" => \E u \in users : u.id = g /\ u.username = Username(g)
       /\ creating[g] = "conflict" => \E u \in users : u.id # g /\ u.username = Username(g)
=============================================================================
