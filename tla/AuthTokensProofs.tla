-------------------------- MODULE AuthTokensProofs --------------------------
(***************************************************************************)
(* Accounts and AuthTokens: one row for a name, and what revocation        *)
(* promises, for any accounts, requests and interleavings of their calls.  *)
(* The argument: a token is stored once, when its issuer is done, so a key *)
(* that is gone does not come back.                                        *)
(***************************************************************************)
EXTENDS AuthTokens, TLAPS

\* A creator has a row of its own, of its name, only after its INSERT; and it has it for
\* good when the handler goes on to db.refresh.
RowsHaveCreators ==
  /\ \A u \in users : u.username = Username(u.id)
  /\ \A u \in users : u.id \in Creators => creating[u.id] \in {"refresh", "created", "error"}
  /\ \A g \in Creators : creating[g] \in {"refresh", "created"} => \E u \in users : u.id = g

AccountsIInv == AccountsTypeOK /\ RowsHaveCreators /\ NamesAreUnique

LEMMA AccountsTypes ==
  /\ \A x \in UserIds : Username(x) \in Names
  /\ \A x \in UserIds : NewUser(x).id = x /\ NewUser(x).username = Username(x)
  /\ \A x \in UserIds : NewUser(x) \in [id : UserIds, username : Names, is_active : BOOLEAN, is_admin : BOOLEAN]
BY AccountsAssumption DEF Username, NewUser, UserIds, Creators

LEMMA AccountsInitially == AccountsInit => AccountsIInv
<1> SUFFICES ASSUME AccountsInit PROVE AccountsIInv
  OBVIOUS
<1>1. AccountsTypeOK
  BY AccountsTypes DEF AccountsInit, AccountsTypeOK, UserIds
<1>2. \A e \in Existing : e \in UserIds /\ e \notin Creators /\ Username(e) = NameGiven[e]
  BY AccountsAssumption DEF UserIds, Username, Creators
<1>3. RowsHaveCreators
  BY <1>2, AccountsTypes DEF AccountsInit, RowsHaveCreators
<1>4. NamesAreUnique
  BY <1>2, AccountsTypes, AccountsAssumption DEF AccountsInit, NamesAreUnique
<1>5. QED BY <1>1, <1>3, <1>4 DEF AccountsIInv

\* A row added for a creator at its INSERT keeps what is known of the others.
LEMMA AddedRow ==
  ASSUME AccountsIInv, NEW g \in Creators, creating[g] = "insert", ~Taken(Username(g)),
         users' = users \cup {NewUser(g)},
         NEW end \in {"refresh", "error"}, creating' = [creating EXCEPT ![g] = end]
  PROVE  AccountsIInv'
<1>1. g \in UserIds BY DEF UserIds
<1>2. AccountsTypeOK'
  BY <1>1, AccountsTypes DEF AccountsIInv, AccountsTypeOK
<1>3. creating \in [Creators -> {"new", "insert", "refresh", "created", "conflict", "refused", "error"}]
  BY DEF AccountsIInv, AccountsTypeOK
<1>4. \A h \in Creators : creating'[h] = IF h = g THEN end ELSE creating[h]
  BY <1>3
<1>5. \A h : Username(h)' = Username(h)
  BY DEF Username
<1>6. NewUser(g).id = g /\ NewUser(g).username = Username(g)
  BY <1>1, AccountsTypes
<1>7. \A u \in users : u.id # g
  BY DEF AccountsIInv, RowsHaveCreators
<1>8. RowsHaveCreators'
  BY <1>4, <1>5, <1>6 DEF AccountsIInv, RowsHaveCreators
<1>9. NamesAreUnique'
  <2>1. \A u, v \in users' : u.username = v.username => u = v
    BY <1>6 DEF AccountsIInv, NamesAreUnique, Taken
  <2>2. \A h \in Creators : creating'[h] \in {"created", "conflict"} => creating[h] = creating'[h]
    BY <1>4
  <2>3. QED BY <2>1, <2>2, <1>5 DEF AccountsIInv, NamesAreUnique
<1>10. QED BY <1>2, <1>8, <1>9 DEF AccountsIInv

\* Every step of a creator, and the deactivation of an account, preserves the invariant.
LEMMA AccountsStep == AccountsIInv /\ [AccountsNext]_accountVars => AccountsIInv'
<1> SUFFICES ASSUME AccountsIInv, [AccountsNext]_accountVars PROVE AccountsIInv'
  OBVIOUS
<1> USE DEF AccountsIInv
<1>0. \A h : Username(h)' = Username(h)
  BY DEF Username
<1>1. ASSUME NEW g \in Creators, CheckName(g) PROVE AccountsIInv'
  <2>1. AccountsTypeOK' BY <1>1 DEF CheckName, AccountsTypeOK
  <2>2. \A h \in Creators : h # g => creating'[h] = creating[h]
    BY <1>1 DEF CheckName, AccountsTypeOK
  <2>3. creating'[g] = IF Taken(Username(g)) THEN "conflict" ELSE "insert"
    BY <1>1 DEF CheckName, AccountsTypeOK
  <2>4. \A u \in users : u.id # g
    BY <1>1 DEF CheckName, RowsHaveCreators
  <2>5. users' = users BY <1>1 DEF CheckName
  <2>6. RowsHaveCreators' BY <2>2, <2>3, <2>4, <2>5, <1>0 DEF RowsHaveCreators
  <2>7. NamesAreUnique' BY <2>2, <2>3, <2>4, <2>5, <1>0 DEF NamesAreUnique, Taken
  <2>8. QED BY <2>1, <2>6, <2>7
<1>2. ASSUME NEW g \in Creators, RefusePassword(g) PROVE AccountsIInv'
  <2>1. AccountsTypeOK' BY <1>2 DEF RefusePassword, AccountsTypeOK
  <2>2. \A h \in Creators : h # g => creating'[h] = creating[h]
    BY <1>2 DEF RefusePassword, AccountsTypeOK
  <2>3. creating'[g] = "refused" /\ \A u \in users : u.id # g
    BY <1>2 DEF RefusePassword, AccountsTypeOK, RowsHaveCreators
  <2>4. users' = users BY <1>2 DEF RefusePassword
  <2>5. RowsHaveCreators' BY <2>2, <2>3, <2>4, <1>0 DEF RowsHaveCreators
  <2>6. NamesAreUnique' BY <2>2, <2>3, <2>4, <1>0 DEF NamesAreUnique
  <2>7. QED BY <2>1, <2>5, <2>6
<1>3. ASSUME NEW g \in Creators, creating[g] \in {"insert", "refresh"}, users' = users,
             NEW end \in {"created", "error"}, creating' = [creating EXCEPT ![g] = end],
             end = "created" => creating[g] = "refresh"
      PROVE  AccountsIInv'
  <2>1. AccountsTypeOK' BY <1>3 DEF AccountsTypeOK
  <2>2. \A h \in Creators : creating'[h] = IF h = g THEN end ELSE creating[h]
    BY <1>3 DEF AccountsTypeOK
  <2>3. RowsHaveCreators' BY <1>3, <2>2, <1>0 DEF RowsHaveCreators
  <2>4. NamesAreUnique' BY <1>3, <2>2, <1>0 DEF NamesAreUnique, RowsHaveCreators
  <2>5. QED BY <2>1, <2>3, <2>4
<1>4. ASSUME NEW g \in Creators, InsertUser(g) PROVE AccountsIInv'
  <2>1. CASE Taken(Username(g))
    BY <1>3, <1>4, <2>1 DEF InsertUser
  <2>2. CASE ~Taken(Username(g))
    BY <1>4, <2>2, AddedRow DEF InsertUser
  <2>3. QED BY <2>1, <2>2
<1>5. ASSUME NEW g \in Creators, CommitRaises(g) PROVE AccountsIInv'
  BY <1>3, <1>5, AddedRow DEF CommitRaises
<1>6. ASSUME NEW g \in Creators, RefreshUser(g) PROVE AccountsIInv'
  <2>1. PICK end \in {"created", "error"} : creating' = [creating EXCEPT ![g] = end]
    BY <1>6 DEF RefreshUser
  <2>2. QED BY <1>3, <1>6, <2>1 DEF RefreshUser
<1>7. ASSUME NEW d \in users, Deactivate(d) PROVE AccountsIInv'
  <2> DEFINE off == [d EXCEPT !.is_active = FALSE]
  <2>1. d \in [id : UserIds, username : Names, is_active : BOOLEAN, is_admin : BOOLEAN]
    BY DEF AccountsTypeOK
  <2>2. /\ off \in [id : UserIds, username : Names, is_active : BOOLEAN, is_admin : BOOLEAN]
        /\ off.id = d.id /\ off.username = d.username
    BY <2>1
  <2>3. users' = (users \ {d}) \cup {off} /\ creating' = creating
    BY <1>7 DEF Deactivate
  <2> HIDE DEF off
  <2>4. AccountsTypeOK' BY <2>2, <2>3 DEF AccountsTypeOK
  <2>5. \A u \in users : \E v \in users' : v.id = u.id /\ v.username = u.username
    BY <2>2, <2>3
  <2>6. \A v \in users' : \E u \in users : v.id = u.id /\ v.username = u.username
    BY <2>2, <2>3
  <2>7. RowsHaveCreators' BY <2>3, <2>5, <2>6, <1>0 DEF RowsHaveCreators
  <2>8. \A u, v \in users' : u.username = v.username => u = v
    BY <2>2, <2>3 DEF NamesAreUnique
  <2>9. NamesAreUnique' BY <2>3, <2>5, <2>8, <1>0 DEF NamesAreUnique
  <2>10. QED BY <2>4, <2>7, <2>9
<1>8. CASE UNCHANGED accountVars
  BY <1>8 DEF accountVars, AccountsTypeOK, RowsHaveCreators, NamesAreUnique, Username
<1>9. QED BY <1>1, <1>2, <1>4, <1>5, <1>6, <1>7, <1>8 DEF AccountsNext, Create

\* Names are unique and creators are answered truly, whatever they overlap with.
THEOREM NamesStayUnique == AccountsSpec => []NamesAreUnique
<1>1. AccountsIInv => NamesAreUnique BY DEF AccountsIInv
<1>2. QED BY <1>1, AccountsInitially, AccountsStep, PTL DEF AccountsSpec

-----------------------------------------------------------------------------

\* Issued for good, told or not: its subject does not change, its key is not stored again.
Issued(i) == pc[i] \in {"done", "unanswered"}

\* Keys and tokens exist only of issuers that have stored one, and carry their subject.
KeysAreStored ==
  /\ \A k \in keys : Issued(k.of) /\ k.user = sub[k.of]
  /\ \A t \in delivered : Issued(t.of)
  /\ \A i \in Issuers : Issued(i) => sub[i] # NoUser

\* A request works on the token of an issuer that has stored it.
BodiesAreIssued == \A q \in Refreshes \cup Logouts :
  pc[q] \in {"delete", "lookup", "drop"} => body[q] \in Issuers /\ Issued(body[q])

\* What a sweep remembers are keys that were stored.  Of the keys it has seen only
\* those of the current page are left, and of the first ones when its last page is there.
SweepsRemember == \A a \in LogoutAlls :
  /\ \A k \in before[a] \cup seen[a] \cup page[a] : Issued(k.of) /\ k.user = sub[k.of]
  /\ seen[a] \cap keys \subseteq page[a]
  /\ pc[a] \in {"new", "begin", "scan"} => page[a] = {}
  /\ pc[a] = "last page" => before[a] \cap keys \subseteq page[a]

\* A revoked token has no key.
RevokedAreGone == \A i \in revoked : Issued(i) /\ Key(sub[i], i) \notin keys

AuthIInv ==
  /\ TypeOK /\ AccountsIInv
  /\ KeysAreStored /\ BodiesAreIssued /\ SweepsRemember /\ RevokedAreGone
  /\ LogoutAllRevokes /\ LostForAReason

LEMMA KindsOfRequests ==
  /\ Issuers \subseteq Requests /\ Signed \subseteq Requests
  /\ Logins \subseteq Issuers /\ Refreshes \subseteq Issuers
  /\ Logouts \subseteq Signed /\ LogoutAlls \subseteq Signed
  /\ Logins \cap Refreshes = {} /\ Issuers \cap Signed = {} /\ Logouts \cap LogoutAlls = {}
BY AuthTokensAssumption DEF Issuers, Signed, Requests

LEMMA TokenFacts ==
  /\ \A i \in Issuers : Access(i) \in Tokens /\ Refresh(i) \in Tokens
  /\ \A t \in Tokens : t.of \in Issuers /\ (t.kind = "refresh" => t = Refresh(t.of))
BY DEF Tokens, Access, Refresh

LEMMA KeyFacts ==
  /\ \A u, i : Key(u, i).user = u /\ Key(u, i).of = i
  /\ \A u \in UserIds, i \in Issuers : Key(u, i) \in Keys
  /\ \A k \in Keys : k.of \in Issuers /\ k.user \in UserIds /\ k = Key(k.user, k.of)
BY DEF Key, Keys

LEMMA AuthInitially == Init => AuthIInv
<1> SUFFICES ASSUME Init PROVE AuthIInv
  OBVIOUS
<1>1. AccountsIInv BY AccountsInitially DEF Init
<1>2. \A l \in DOMAIN LoggedIn : l \in Logins /\ l \in Issuers /\ LoggedIn[l] \in UserIds /\ LoggedIn[l] # NoUser
  BY AuthTokensAssumption, KindsOfRequests, TokenFacts, KeyFacts DEF UserIds
<1>3. TypeOK
  <2>1. keys \subseteq Keys BY <1>2, KindsOfRequests, TokenFacts, KeyFacts DEF Init
  <2>2. delivered \subseteq Tokens
    <3>1. \A l \in DOMAIN LoggedIn : Access(l) \in Tokens /\ Refresh(l) \in Tokens
      BY <1>2, KindsOfRequests, TokenFacts, KeyFacts
    <3>2. QED BY <3>1 DEF Init
  <2>3. sub \in [Issuers -> UserIds \cup {NoUser}] /\ \A i \in Issuers : pc[i] # "store"
    BY <1>2, KindsOfRequests, TokenFacts, KeyFacts DEF Init
  <2>4. pc \in [Requests -> Positions] BY DEF Init, Positions
  <2>5. QED BY <1>1, <2>1, <2>2, <2>3, <2>4 DEF Init, TypeOK, AccountsIInv
<1>4. KeysAreStored
  <2>1. \A l \in DOMAIN LoggedIn : pc[l] = "done" /\ sub[l] = LoggedIn[l]
    BY <1>2, KindsOfRequests, TokenFacts, KeyFacts DEF Init
  <2>2. \A i \in Issuers : Issued(i) => i \in DOMAIN LoggedIn
    BY KindsOfRequests DEF Init, Issued
  <2>3. \A i : Access(i).of = i /\ Refresh(i).of = i BY DEF Access, Refresh
  <2>4. \A k \in keys : Issued(k.of) /\ k.user = sub[k.of]
    <3>1. keys = {Key(LoggedIn[l], l) : l \in DOMAIN LoggedIn} BY DEF Init
    <3>2. \A l \in DOMAIN LoggedIn : Key(LoggedIn[l], l).of = l /\ Key(LoggedIn[l], l).user = LoggedIn[l]
      BY KindsOfRequests, TokenFacts, KeyFacts
    <3>3. QED BY <2>1, <3>1, <3>2 DEF Issued
  <2>5. \A t \in delivered : Issued(t.of)
    <3>1. \A t \in delivered : t.of \in DOMAIN LoggedIn BY <2>3 DEF Init
    <3>2. QED BY <2>1, <3>1 DEF Issued
  <2>6. \A i \in Issuers : Issued(i) => sub[i] # NoUser BY <1>2, <2>1, <2>2
  <2>7. QED BY <2>4, <2>5, <2>6 DEF KeysAreStored
<1>5. BodiesAreIssued BY KindsOfRequests, TokenFacts, KeyFacts DEF Init, BodiesAreIssued
<1>6. SweepsRemember /\ RevokedAreGone
  BY DEF Init, SweepsRemember, RevokedAreGone
<1>7. LogoutAllRevokes BY DEF Init, LogoutAllRevokes
<1>8. LostForAReason
  <2>1. \A l \in DOMAIN LoggedIn : Key(sub[l], l) \in keys
    BY <1>2, KindsOfRequests, TokenFacts, KeyFacts DEF Init
  <2>2. \A t \in delivered : t.of \in DOMAIN LoggedIn
    BY DEF Init, Access, Refresh
  <2>3. QED BY <2>1, <2>2 DEF LostForAReason
<1>9. QED BY <1>1, <1>3, <1>4, <1>5, <1>6, <1>7, <1>8 DEF AuthIInv

\* A step that leaves the tokens and the sweeps alone.
LEMMA TokensUntouched ==
  ASSUME AuthIInv, TypeOK', AccountsIInv', UNCHANGED <<tokens, sweep, revoked>>,
         \A i \in Issuers : Issued(i) => Issued(i)' /\ sub'[i] = sub[i],
         \A i \in Issuers : Issued(i)' => Issued(i),
         BodiesAreIssued',
         \A a \in LogoutAlls : pc'[a] = pc[a] \/ (pc[a] = "new" /\ pc'[a] = "begin") \/ pc'[a] \in {"failed", "refused"}
  PROVE  AuthIInv'
<1>0. \A i \in Issuers : Issued(i) => Key(sub[i], i)' = Key(sub[i], i)
  BY DEF Key
<1>1. UNCHANGED <<keys, lapsed, delivered, page, seen, before, revoked>>
  BY DEF tokens, sweep
<1>2. KeysAreStored'
  BY <1>1, KindsOfRequests, TokenFacts, KeyFacts DEF AuthIInv, KeysAreStored, TypeOK
<1>3. SweepsRemember'
  <2>1. SUFFICES ASSUME NEW a \in LogoutAlls
                 PROVE  /\ \A k \in before[a] \cup seen[a] \cup page[a] : Issued(k.of)' /\ k.user = sub'[k.of]
                        /\ pc'[a] \in {"new", "begin", "scan"} => page[a] = {}
                        /\ pc'[a] = "last page" => before[a] \cap keys \subseteq page[a]
                        /\ seen[a] \cap keys \subseteq page[a]
    BY <1>1 DEF SweepsRemember
  <2>2. \A k \in before[a] \cup seen[a] \cup page[a] : k.of \in Issuers
    BY KindsOfRequests, TokenFacts, KeyFacts DEF AuthIInv, TypeOK
  <2>3. \A k \in before[a] \cup seen[a] \cup page[a] : Issued(k.of) /\ k.user = sub[k.of]
    BY DEF AuthIInv, SweepsRemember
  <2>4. QED BY <2>2, <2>3 DEF AuthIInv, SweepsRemember
<1>4. RevokedAreGone'
  BY <1>0, <1>1 DEF AuthIInv, RevokedAreGone, TypeOK
<1>5. LogoutAllRevokes'
  BY <1>1 DEF AuthIInv, LogoutAllRevokes
<1>6. LostForAReason'
  <2>1. \A t \in delivered : t.of \in Issuers /\ Issued(t.of)
    BY KindsOfRequests, TokenFacts, KeyFacts DEF AuthIInv, KeysAreStored, TypeOK
  <2>2. QED BY <1>0, <1>1, <2>1 DEF AuthIInv, LostForAReason
<1>7. QED BY <1>2, <1>3, <1>4, <1>5, <1>6 DEF AuthIInv

\* A step that keeps the subjects and stores at most the keys of requests that were not
\* done.  What is done stays done, and is no other key's issuer.
LEMMA IssuedStays == AuthIInv /\ [Next]_vars => \A i \in Issuers : Issued(i) => Issued(i)' /\ sub'[i] = sub[i]
<1> SUFFICES ASSUME AuthIInv, [Next]_vars, NEW i \in Issuers, pc[i] \in {"done", "unanswered"}
             PROVE  pc'[i] \in {"done", "unanswered"} /\ sub'[i] = sub[i]
  BY DEF Issued
<1> USE KindsOfRequests, TokenFacts, KeyFacts DEF AuthIInv, TypeOK, Goto, Replied
<1>1. CASE Accounts BY <1>1 DEF Accounts
<1>2. CASE \E l \in Logins : Login(l) \/ RefuseLogin(l)
  BY <1>2 DEF Login, RefuseLogin
<1>3. CASE \E j \in Issuers : StoreToken(j)
  BY <1>3 DEF StoreToken
<1>4. CASE \E r \in Refreshes : CheckToken(r) \/ RefuseToken(r) \/ DeleteUsed(r) \/ LookUpUser(r)
  BY <1>4 DEF CheckToken, RefuseToken, DeleteUsed, LookUpUser
<1>5. CASE \E q \in Signed : RefuseCaller(q)
  BY <1>5 DEF RefuseCaller
<1>6. CASE \E o \in Logouts : Logout(o) \/ DropToken(o)
  BY <1>6 DEF Logout, DropToken
<1>7. CASE \E a \in LogoutAlls : LogoutAll(a) \/ Scan(a) \/ DeletePage(a)
  <2>1. CASE \E a \in LogoutAlls : LogoutAll(a) BY <2>1 DEF LogoutAll
  <2>2. CASE \E a \in LogoutAlls : Scan(a)
    <3>1. PICK a \in LogoutAlls : Scan(a) BY <2>2
    <3>2. PICK p \in {"page", "last page"} : pc' = [pc EXCEPT ![a] = p] BY <3>1 DEF Scan
    <3>3. sub' = sub BY <3>1 DEF Scan
    <3>4. QED BY <3>2, <3>3, ZenonT(60)
  <2>3. CASE \E a \in LogoutAlls : DeletePage(a) BY <2>3 DEF DeletePage
  <2>4. QED BY <1>7, <2>1, <2>2, <2>3
<1>8. CASE \E q \in Requests : Raise(q)
  BY <1>8 DEF Raise
<1>9. CASE \E j \in Issuers : Lapse(j)
  BY <1>9 DEF Lapse
<1>10. CASE \E k \in keys : ExpireKey(k)
  BY <1>10 DEF ExpireKey
<1>11. CASE UNCHANGED vars BY <1>11 DEF vars
<1>12. QED BY <1>1, <1>2, <1>3, <1>4, <1>5, <1>6, <1>7, <1>8, <1>9, <1>10, <1>11 DEF Next

LEMMA AccountsKept == AuthIInv /\ [Next]_vars => AccountsIInv'
<1> SUFFICES ASSUME AuthIInv, [Next]_vars PROVE AccountsIInv'
  OBVIOUS
<1>1. CASE Accounts BY <1>1, AccountsStep DEF Accounts, AuthIInv
<1>2. CASE UNCHANGED accountVars BY <1>2, AccountsStep DEF AuthIInv
<1>3. QED BY <1>1, <1>2 DEF Next, vars, Login, RefuseLogin, StoreToken, CheckToken, RefuseToken,
     DeleteUsed, LookUpUser, RefuseCaller, Logout, DropToken, LogoutAll, Scan, DeletePage, Raise,
     Lapse, ExpireKey

LEMMA OfKeys ==
  ASSUME NEW S, \A k \in S : k.of \in Issuers
  PROVE  {k.of : k \in S} \subseteq Issuers
OBVIOUS

LEMMA TypesKept == AuthIInv /\ [Next]_vars => TypeOK'
<1> SUFFICES ASSUME AuthIInv, [Next]_vars PROVE TypeOK'
  OBVIOUS
<1>0. AccountsTypeOK' BY AccountsKept DEF AccountsIInv
<1>u. \A u \in users : u.id \in UserIds /\ u.id # NoUser
  BY AuthTokensAssumption DEF AuthIInv, AccountsIInv, AccountsTypeOK
<1>p. Positions = {"new", "store", "delete", "lookup", "drop", "begin", "scan", "page", "last page",
                   "done", "unanswered", "refused", "inactive", "failed"}
  BY DEF Positions
<1>t. TypeOK BY DEF AuthIInv
<1> USE KindsOfRequests, <1>0, <1>u, <1>p, <1>t DEF TypeOK, Goto, Replied, tokens, sweep
<1>1. CASE Accounts BY <1>1 DEF Accounts
<1>2. ASSUME NEW l \in Logins, Login(l) PROVE TypeOK'
  <2>1. PICK u \in users : sub' = [sub EXCEPT ![l] = u.id]
    BY <1>2 DEF Login
  <2>2. QED BY <1>2, <2>1 DEF Login
<1>3. ASSUME NEW l \in Logins, RefuseLogin(l) PROVE TypeOK'
  BY <1>3 DEF RefuseLogin
<1>4. ASSUME NEW i \in Issuers, StoreToken(i) PROVE TypeOK'
  <2>1. sub[i] \in UserIds BY <1>4 DEF StoreToken
  <2>2. keys' \subseteq Keys
    <3>1. Key(sub[i], i) \in Keys BY <2>1, KeyFacts
    <3>2. QED BY <1>4, <3>1 DEF StoreToken
  <2>3. delivered' \subseteq Tokens
    <3>1. Access(i) \in Tokens /\ Refresh(i) \in Tokens BY TokenFacts
    <3>2. delivered' \subseteq delivered \cup {Access(i), Refresh(i)}
      BY <1>4, ZenonT(60) DEF StoreToken
    <3>3. QED BY <3>1, <3>2
  <2>4. PICK p \in {"done", "unanswered"} : pc' = [pc EXCEPT ![i] = p] BY <1>4 DEF StoreToken
  <2>5. UNCHANGED <<sub, body, caller, lapsed, page, seen, before, revoked>> BY <1>4 DEF StoreToken
  <2>6. QED BY <2>2, <2>3, <2>4, <2>5
<1>5. ASSUME NEW r \in Refreshes, CheckToken(r) PROVE TypeOK'
  <2>1. PICK t \in delivered : body' = [body EXCEPT ![r] = t.of]
    BY <1>5 DEF CheckToken
  <2>2. t.of \in Issuers BY TokenFacts
  <2>3. QED BY <1>5, <2>1, <2>2 DEF CheckToken
<1>6. ASSUME NEW r \in Refreshes, RefuseToken(r) PROVE TypeOK'
  BY <1>6 DEF RefuseToken
<1>7. ASSUME NEW r \in Refreshes, DeleteUsed(r) PROVE TypeOK'
  <2>1. body[r] \in Issuers BY <1>7 DEF DeleteUsed, AuthIInv, BodiesAreIssued
  <2>2. keys' \subseteq keys /\ revoked' = revoked \cup {body[r]} BY <1>7 DEF DeleteUsed
  <2>3. QED BY <1>7, <2>1, <2>2 DEF DeleteUsed
<1>8. ASSUME NEW r \in Refreshes, LookUpUser(r) PROVE TypeOK'
  <2>1. CASE Active(sub[body[r]])
    <3>1. sub[body[r]] \in UserIds /\ sub[body[r]] # NoUser BY <2>1 DEF Active
    <3>2. sub' \in [Issuers -> UserIds \cup {NoUser}] /\ \A i \in Issuers : i # r => sub'[i] = sub[i]
      BY <1>8, <2>1, <3>1, ZenonT(60) DEF LookUpUser
    <3>3. sub'[r] # NoUser BY <1>8, <2>1, <3>1, ZenonT(60) DEF LookUpUser
    <3>4. pc' = [pc EXCEPT ![r] = "store"] BY <1>8, <2>1 DEF LookUpUser
    <3>5. QED BY <1>8, <3>2, <3>3, <3>4 DEF LookUpUser
  <2>2. CASE ~Active(sub[body[r]])
    <3>1. pc' = [pc EXCEPT ![r] = "inactive"] /\ sub' = sub BY <1>8, <2>2 DEF LookUpUser
    <3>2. QED BY <1>8, <3>1 DEF LookUpUser
  <2>3. QED BY <2>1, <2>2
<1>9. ASSUME NEW q \in Signed, RefuseCaller(q) PROVE TypeOK'
  BY <1>9 DEF RefuseCaller
<1>10. ASSUME NEW o \in Logouts, Logout(o) PROVE TypeOK'
  <2>1. PICK t \in delivered : Authenticate(o, t)
    BY <1>10 DEF Logout
  <2>2. PICK s \in delivered : body' = [body EXCEPT ![o] = s.of]
    BY <1>10 DEF Logout
  <2>3. t.of \in Issuers /\ s.of \in Issuers BY TokenFacts
  <2>4. caller' \in [Signed -> UserIds \cup {NoUser}]
    BY <2>1, <2>3 DEF Authenticate
  <2>5. QED BY <1>10, <2>2, <2>3, <2>4 DEF Logout
<1>11. ASSUME NEW o \in Logouts, DropToken(o) PROVE TypeOK'
  <2>1. body[o] \in Issuers BY <1>11 DEF DropToken, AuthIInv, BodiesAreIssued
  <2>2. keys' \subseteq keys /\ revoked' \subseteq revoked \cup {body[o]}
    BY <1>11 DEF DropToken, OwnToken
  <2>3. QED BY <1>11, <2>1, <2>2 DEF DropToken
<1>12. ASSUME NEW a \in LogoutAlls, LogoutAll(a) PROVE TypeOK'
  <2>1. PICK t \in delivered : Authenticate(a, t)
    BY <1>12 DEF LogoutAll
  <2>2. t.of \in Issuers BY TokenFacts
  <2>3. caller' \in [Signed -> UserIds \cup {NoUser}]
    BY <2>1, <2>2 DEF Authenticate
  <2>4. QED BY <1>12, <2>3 DEF LogoutAll
<1>13. ASSUME NEW a \in LogoutAlls, Scan(a) PROVE TypeOK'
  <2>1. PICK P \in SUBSET Matching(a), p \in {"page", "last page"} :
          /\ page' = [page EXCEPT ![a] = P]
          /\ seen' = [seen EXCEPT ![a] = @ \cup P]
          /\ pc' = [pc EXCEPT ![a] = p]
    BY <1>13 DEF Scan
  <2>2. Matching(a) \subseteq Keys BY DEF Matching
  <2>3. before' \in [LogoutAlls -> SUBSET Keys]
    BY <1>13, <2>2 DEF Scan
  <2>4. page' \in [LogoutAlls -> SUBSET Keys] /\ seen' \in [LogoutAlls -> SUBSET Keys]
    BY <2>1, <2>2
  <2>5. QED BY <1>13, <2>1, <2>3, <2>4, ZenonT(60) DEF Scan
<1>14. ASSUME NEW a \in LogoutAlls, DeletePage(a) PROVE TypeOK'
  <2>1. \A k \in page[a] : k.of \in Issuers BY KeyFacts
  <2>2. keys' = keys \ page[a] /\ revoked' = revoked \cup {k.of : k \in page[a]}
    BY <1>14 DEF DeletePage
  <2>3. keys' \subseteq keys /\ revoked' \subseteq Issuers
    <3>1. revoked \subseteq Issuers OBVIOUS
    <3>2. {k.of : k \in page[a]} \subseteq Issuers BY <2>1, OfKeys
    <3>3. QED BY <2>2, <3>1, <3>2, ZenonT(60)
  <2>4. page' \in [LogoutAlls -> SUBSET Keys] BY <1>14 DEF DeletePage
  <2>5. pc' \in [Requests -> Positions] /\ \A i \in Issuers : pc'[i] = pc[i]
    <3>1. PICK p \in {"scan", "done", "failed"} : pc' = [pc EXCEPT ![a] = p] BY <1>14 DEF DeletePage
    <3>2. QED BY <3>1
  <2>6. QED BY <1>14, <2>3, <2>4, <2>5 DEF DeletePage
<1>15. ASSUME NEW q \in Requests, Raise(q) PROVE TypeOK'
  BY <1>15 DEF Raise
<1>16. ASSUME NEW i \in Issuers, Lapse(i) PROVE TypeOK'
  <2>1. Access(i) \in Tokens /\ Refresh(i) \in Tokens BY TokenFacts
  <2>2. QED BY <1>16, <2>1 DEF Lapse
<1>17. ASSUME NEW k \in keys, ExpireKey(k) PROVE TypeOK'
  BY <1>17 DEF ExpireKey
<1>18. CASE UNCHANGED vars BY <1>18 DEF vars
<1>19. QED BY <1>1, <1>2, <1>3, <1>4, <1>5, <1>6, <1>7, <1>8, <1>9, <1>10, <1>11, <1>12, <1>13,
             <1>14, <1>15, <1>16, <1>17, <1>18 DEF Next
\* A token in a body has stood in a response, and only a request that was done had one.
LEMMA BodiesKept == AuthIInv /\ [Next]_vars => BodiesAreIssued'
<1> SUFFICES ASSUME AuthIInv, [Next]_vars, NEW q \in Refreshes \cup Logouts,
                    pc'[q] \in {"delete", "lookup", "drop"}
             PROVE  body'[q] \in Issuers /\ pc'[body'[q]] \in {"done", "unanswered"}
  BY DEF BodiesAreIssued, Issued
<1>1. \A i \in Issuers : Issued(i) => Issued(i)' BY IssuedStays
<1>2. \A t \in delivered : t.of \in Issuers /\ Issued(t.of)
  BY TokenFacts DEF AuthIInv, TypeOK, KeysAreStored
<1>3. SUFFICES body'[q] \in Issuers /\ Issued(body'[q])
  BY <1>1 DEF Issued
<1>4. CASE body'[q] = body[q] /\ pc[q] \in {"delete", "lookup", "drop"}
  BY <1>4 DEF AuthIInv, BodiesAreIssued
<1>5. CASE \E t \in delivered : body'[q] = t.of
  BY <1>2, <1>5
<1>6. \/ body'[q] = body[q] /\ pc[q] \in {"delete", "lookup", "drop"}
      \/ \E t \in delivered : body'[q] = t.of
  <2> USE KindsOfRequests DEF AuthIInv, TypeOK, Goto, Replied
  <2>1. CASE Accounts BY <2>1 DEF Accounts
  <2>2. CASE \E l \in Logins : Login(l) \/ RefuseLogin(l)
    BY <2>2 DEF Login, RefuseLogin
  <2>3. CASE \E i \in Issuers : StoreToken(i)
    BY <2>3 DEF StoreToken
  <2>4. CASE \E r \in Refreshes : CheckToken(r)
    <3>1. PICK r \in Refreshes : CheckToken(r) BY <2>4
    <3>2. CASE r = q BY <3>1, <3>2 DEF CheckToken
    <3>3. CASE r # q BY <3>1, <3>3 DEF CheckToken
    <3>4. QED BY <3>2, <3>3
  <2>5. CASE \E r \in Refreshes : RefuseToken(r) \/ DeleteUsed(r)
    BY <2>5 DEF RefuseToken, DeleteUsed
  <2>6. CASE \E r \in Refreshes : LookUpUser(r)
    BY <2>6 DEF LookUpUser
  <2>7. CASE \E o \in Signed : RefuseCaller(o)
    BY <2>7 DEF RefuseCaller
  <2>8. CASE \E o \in Logouts : Logout(o)
    <3>1. PICK o \in Logouts : Logout(o) BY <2>8
    <3>2. CASE o = q BY <3>1, <3>2 DEF Logout
    <3>3. CASE o # q BY <3>1, <3>3 DEF Logout
    <3>4. QED BY <3>2, <3>3
  <2>9. CASE \E o \in Logouts : DropToken(o)
    BY <2>9 DEF DropToken
  <2>10. CASE \E a \in LogoutAlls : LogoutAll(a) \/ DeletePage(a)
    BY <2>10, ZenonT(60) DEF LogoutAll, DeletePage
  <2>11. CASE \E a \in LogoutAlls : Scan(a)
    <3>1. PICK a \in LogoutAlls : Scan(a) BY <2>11
    <3>2. PICK p \in {"page", "last page"} : pc' = [pc EXCEPT ![a] = p] BY <3>1 DEF Scan
    <3>3. body' = body BY <3>1 DEF Scan
    <3>4. QED BY <3>2, <3>3
  <2>12. CASE \E r \in Requests : Raise(r)
    BY <2>12 DEF Raise
  <2>13. CASE (\E i \in Issuers : Lapse(i)) \/ \E k \in keys : ExpireKey(k)
    BY <2>13 DEF Lapse, ExpireKey
  <2>14. CASE UNCHANGED vars BY <2>14 DEF vars
  <2>15. QED BY <2>1, <2>2, <2>3, <2>4, <2>5, <2>6, <2>7, <2>8, <2>9, <2>10, <2>11, <2>12,
                <2>13, <2>14 DEF Next
<1>7. QED BY <1>4, <1>5, <1>6

\* A step that only removes keys, each for a reason, and shrinks pages by what it removes.
LEMMA KeysShrink ==
  ASSUME AuthIInv, [Next]_vars, UNCHANGED <<sub, delivered, seen, before>>,
         keys' \subseteq keys, lapsed \subseteq lapsed', revoked \subseteq revoked',
         \A i \in Issuers : Issued(i)' <=> Issued(i),
         \A i \in revoked' \ revoked : Issued(i) /\ Key(sub[i], i) \notin keys',
         \A k \in keys \ keys' : Refresh(k.of) \in lapsed' \/ k.of \in revoked',
         \A a \in LogoutAlls :
           /\ page'[a] \subseteq page[a] /\ page[a] \cap keys' \subseteq page'[a]
           /\ pc'[a] \in {"new", "begin", "scan"} => page'[a] = {}
           /\ pc'[a] = "last page" => before[a] \cap keys' \subseteq page'[a]
           /\ pc'[a] = "done" => before[a] \cap keys' = {}
  PROVE  AuthIInv'
<1>1. TypeOK' /\ AccountsIInv' /\ BodiesAreIssued'
  BY TypesKept, AccountsKept, BodiesKept
<1>2. \A i : Key(sub[i], i)' = Key(sub[i], i) BY DEF Key
<1>3. \A k \in Keys : k.of \in Issuers BY KeyFacts
<1>4. KeysAreStored'
  <2>1. \A t \in delivered : t.of \in Issuers BY TokenFacts DEF AuthIInv, TypeOK
  <2>2. QED BY <1>3, <2>1 DEF AuthIInv, TypeOK, KeysAreStored
<1>5. SweepsRemember'
  <2>1. SUFFICES ASSUME NEW a \in LogoutAlls
                 PROVE  /\ \A k \in before[a] \cup seen[a] \cup page'[a] : Issued(k.of)' /\ k.user = sub[k.of]
                        /\ seen[a] \cap keys' \subseteq page'[a]
    BY DEF SweepsRemember
  <2>2. \A k \in before[a] \cup seen[a] \cup page[a] : k.of \in Issuers /\ Issued(k.of) /\ k.user = sub[k.of]
    BY <1>3 DEF AuthIInv, TypeOK, SweepsRemember
  <2>3. seen[a] \cap keys \subseteq page[a] BY DEF AuthIInv, SweepsRemember
  <2>4. QED BY <2>2, <2>3
<1>6. RevokedAreGone'
  <2>1. SUFFICES ASSUME NEW i \in revoked' PROVE Issued(i)' /\ Key(sub[i], i) \notin keys'
    BY <1>2 DEF RevokedAreGone
  <2>2. i \in Issuers BY <1>1 DEF TypeOK
  <2>3. Issued(i) /\ Key(sub[i], i) \notin keys'
    BY DEF AuthIInv, RevokedAreGone
  <2>4. QED BY <2>2, <2>3
<1>7. LogoutAllRevokes' BY DEF LogoutAllRevokes
<1>8. LostForAReason'
  <2>1. SUFFICES ASSUME NEW t \in delivered, t.kind = "refresh", t \notin lapsed', t.of \notin revoked'
                 PROVE  Key(sub[t.of], t.of) \in keys'
    BY <1>2 DEF LostForAReason
  <2>2. Key(sub[t.of], t.of) \in keys BY <2>1 DEF AuthIInv, LostForAReason
  <2>3. Key(sub[t.of], t.of).of = t.of BY DEF Key
  <2>4. t = Refresh(t.of) BY <2>1, TokenFacts DEF AuthIInv, TypeOK
  <2>5. QED BY <2>1, <2>2, <2>3, <2>4
<1>9. QED BY <1>1, <1>4, <1>5, <1>6, <1>7, <1>8 DEF AuthIInv

\* The key of the pair that is stored is new to every sweep and to the revoked tokens.
LEMMA StoreKept == ASSUME AuthIInv, [Next]_vars, NEW j \in Issuers, StoreToken(j) PROVE AuthIInv'
<1>1. TypeOK' /\ AccountsIInv' /\ BodiesAreIssued'
  BY TypesKept, AccountsKept, BodiesKept
<1>2. /\ pc[j] = "store" /\ keys' = keys \cup {Key(sub[j], j)} /\ sub' = sub /\ lapsed' = lapsed
      /\ delivered' \subseteq delivered \cup {Access(j), Refresh(j)}
      /\ pc' = [pc EXCEPT ![j] = "done"] \/ pc' = [pc EXCEPT ![j] = "unanswered"]
      /\ UNCHANGED <<page, seen, before, revoked>>
  BY DEF StoreToken, Goto, Replied, sweep
<1>3. \A k \in Keys : k.of \in Issuers BY KeyFacts
<1>4. \A i \in Issuers : (i # j => (Issued(i)' <=> Issued(i))) /\ Issued(j)' /\ ~Issued(j)
  BY <1>2, KindsOfRequests DEF Issued, AuthIInv, TypeOK
<1>5. \A a \in LogoutAlls : pc'[a] = pc[a]
  BY <1>2, KindsOfRequests DEF AuthIInv, TypeOK
<1>6. Key(sub[j], j).of = j /\ Key(sub[j], j).user = sub[j] BY DEF Key
<1>7. \A i : Key(sub[i], i)' = Key(sub[i], i) BY <1>2 DEF Key
<1>8. KeysAreStored'
  <2>1. \A k \in keys' : Issued(k.of)' /\ k.user = sub[k.of]
    BY <1>2, <1>3, <1>4, <1>6 DEF AuthIInv, TypeOK, KeysAreStored
  <2>2. Access(j).of = j /\ Refresh(j).of = j BY DEF Access, Refresh
  <2>3. \A t \in delivered : t.of \in Issuers BY TokenFacts DEF AuthIInv, TypeOK
  <2>4. \A t \in delivered' : Issued(t.of)'
    BY <1>2, <1>4, <2>2, <2>3 DEF AuthIInv, KeysAreStored
  <2>5. \A i \in Issuers : Issued(i)' => sub[i] # NoUser
    BY <1>2, <1>4 DEF AuthIInv, KeysAreStored, TypeOK
  <2>6. QED BY <1>2, <2>1, <2>4, <2>5 DEF KeysAreStored
<1>9. SweepsRemember'
  <2>1. SUFFICES ASSUME NEW a \in LogoutAlls
                 PROVE  /\ \A k \in before[a] \cup seen[a] \cup page[a] : Issued(k.of)' /\ k.user = sub[k.of]
                        /\ seen[a] \cap keys' \subseteq page[a]
                        /\ pc'[a] \in {"new", "begin", "scan"} => page[a] = {}
                        /\ pc'[a] = "last page" => before[a] \cap keys' \subseteq page[a]
    BY <1>2 DEF SweepsRemember
  <2>2. \A k \in before[a] \cup seen[a] \cup page[a] :
          k.of \in Issuers /\ Issued(k.of) /\ k.user = sub[k.of]
    BY <1>3 DEF AuthIInv, TypeOK, SweepsRemember
  <2>3. Key(sub[j], j) \notin before[a] \cup seen[a] \cup page[a]
    BY <1>4, <1>6, <2>2
  <2>4. QED BY <1>2, <1>4, <1>5, <2>2, <2>3 DEF AuthIInv, SweepsRemember
<1>10. RevokedAreGone'
  <2>1. SUFFICES ASSUME NEW i \in revoked PROVE Issued(i)' /\ Key(sub[i], i) \notin keys'
    BY <1>2, <1>7 DEF RevokedAreGone
  <2>2. i \in Issuers /\ Issued(i) /\ Key(sub[i], i) \notin keys
    BY DEF AuthIInv, TypeOK, RevokedAreGone
  <2>3. Key(sub[i], i) # Key(sub[j], j)
    <3>1. Key(sub[i], i).of = i BY DEF Key
    <3>2. QED BY <1>4, <1>6, <2>2, <3>1
  <2>4. QED BY <1>2, <1>4, <2>2, <2>3
<1>11. LogoutAllRevokes'
  <2>1. SUFFICES ASSUME NEW a \in LogoutAlls, pc[a] = "done" PROVE before[a] \cap keys' = {}
    BY <1>2, <1>5 DEF LogoutAllRevokes
  <2>2. \A k \in before[a] : Issued(k.of) BY DEF AuthIInv, SweepsRemember
  <2>3. Key(sub[j], j) \notin before[a] BY <1>4, <1>6, <2>2
  <2>4. QED BY <1>2, <2>1, <2>3 DEF AuthIInv, LogoutAllRevokes
<1>12. LostForAReason'
  <2>1. SUFFICES ASSUME NEW t \in delivered', t.kind = "refresh", t \notin lapsed, t.of \notin revoked
                 PROVE  Key(sub[t.of], t.of) \in keys'
    BY <1>2, <1>7 DEF LostForAReason
  <2>2. CASE t \in delivered BY <1>2, <2>1, <2>2 DEF AuthIInv, LostForAReason
  <2>3. CASE t = Access(j) \/ t = Refresh(j)
    <3>1. t.of = j BY <2>3 DEF Access, Refresh
    <3>2. QED BY <1>2, <3>1
  <2>4. QED BY <1>2, <2>2, <2>3
<1>13. QED BY <1>1, <1>8, <1>9, <1>10, <1>11, <1>12 DEF AuthIInv

\* A page is added to what the sweep has seen; when it is the last, nothing else of the
\* first keys is left.
LEMMA ScanKept == ASSUME AuthIInv, [Next]_vars, NEW s \in LogoutAlls, Scan(s) PROVE AuthIInv'
<1>1. TypeOK' /\ AccountsIInv' /\ BodiesAreIssued'
  BY TypesKept, AccountsKept, BodiesKept
<1>2. UNCHANGED <<keys, lapsed, delivered, sub, revoked>> BY DEF Scan, tokens
<1>3. PICK P \in SUBSET Matching(s), p \in {"page", "last page"} :
        /\ p = "last page" => before'[s] \cap keys \subseteq seen[s] \cup P
        /\ page' = [page EXCEPT ![s] = P]
        /\ seen' = [seen EXCEPT ![s] = seen[s] \cup P]
        /\ pc' = [pc EXCEPT ![s] = p]
  BY DEF Scan, Goto, Replied
<1>4. /\ pc[s] \in {"begin", "scan"}
      /\ before' = [before EXCEPT ![s] = IF pc[s] = "begin" THEN Matching(s) ELSE before[s]]
  BY DEF Scan
<1>5. \A i \in Issuers : Issued(i)' <=> Issued(i)
  BY <1>3, <1>4, KindsOfRequests DEF Issued, AuthIInv, TypeOK
<1>6. \A i : Key(sub[i], i)' = Key(sub[i], i) BY <1>2 DEF Key
<1>7. \A k \in Keys : k.of \in Issuers BY KeyFacts
<1>8. KeysAreStored'
  <2>1. \A t \in delivered : t.of \in Issuers BY TokenFacts DEF AuthIInv, TypeOK
  <2>2. QED BY <1>2, <1>5, <1>7, <2>1 DEF AuthIInv, TypeOK, KeysAreStored
<1>9. SweepsRemember'
  <2>1. SUFFICES ASSUME NEW a \in LogoutAlls
                 PROVE  /\ \A k \in before'[a] \cup seen'[a] \cup page'[a] : Issued(k.of)' /\ k.user = sub[k.of]
                        /\ seen'[a] \cap keys \subseteq page'[a]
                        /\ pc'[a] \in {"new", "begin", "scan"} => page'[a] = {}
                        /\ pc'[a] = "last page" => before'[a] \cap keys \subseteq page'[a]
    BY <1>2 DEF SweepsRemember
  <2>2. \A k \in before[a] \cup seen[a] \cup page[a] \cup keys :
          k.of \in Issuers /\ Issued(k.of) /\ k.user = sub[k.of]
    BY <1>7 DEF AuthIInv, TypeOK, SweepsRemember, KeysAreStored
  <2>3. CASE a # s
    <3>1. pc'[a] = pc[a] /\ page'[a] = page[a] /\ seen'[a] = seen[a] /\ before'[a] = before[a]
      BY <1>3, <1>4, <2>3, KindsOfRequests DEF AuthIInv, TypeOK
    <3>2. QED BY <1>5, <2>2, <3>1 DEF AuthIInv, SweepsRemember
  <2>4. CASE a = s
    <3>1. /\ pc'[a] = p /\ page'[a] = P /\ seen'[a] = seen[a] \cup P
          /\ before'[a] = IF pc[a] = "begin" THEN Matching(a) ELSE before[a]
      BY <1>3, <1>4, <2>4, KindsOfRequests DEF AuthIInv, TypeOK
    <3>2. P \subseteq keys /\ Matching(a) \subseteq keys BY <2>4 DEF Matching
    <3>3. seen[a] \cap keys = {} BY <1>4, <2>4 DEF AuthIInv, SweepsRemember
    <3>4. \A k \in before'[a] \cup seen'[a] \cup page'[a] : Issued(k.of)' /\ k.user = sub[k.of]
      BY <1>5, <2>2, <3>1, <3>2
    <3>5. QED BY <1>3, <2>4, <3>1, <3>3, <3>4
  <2>5. QED BY <2>3, <2>4
<1>10. RevokedAreGone' BY <1>2, <1>5, <1>6 DEF AuthIInv, RevokedAreGone, TypeOK
<1>11. LogoutAllRevokes'
  <2>1. SUFFICES ASSUME NEW a \in LogoutAlls, pc'[a] = "done" PROVE before'[a] \cap keys = {}
    BY <1>2 DEF LogoutAllRevokes
  <2>2. a # s BY <1>3, <2>1, KindsOfRequests DEF AuthIInv, TypeOK
  <2>3. pc[a] = "done" /\ before'[a] = before[a]
    BY <1>3, <1>4, <2>1, <2>2, KindsOfRequests DEF AuthIInv, TypeOK
  <2>4. QED BY <2>3 DEF AuthIInv, LogoutAllRevokes
<1>12. LostForAReason' BY <1>2, <1>6 DEF AuthIInv, LostForAReason
<1>13. QED BY <1>1, <1>8, <1>9, <1>10, <1>11, <1>12 DEF AuthIInv

\* The steps that move positions, bodies and callers only.
LEMMA QuietSteps ==
  ASSUME AuthIInv, [Next]_vars,
         \/ Accounts \/ UNCHANGED vars
         \/ \E l \in Logins : Login(l) \/ RefuseLogin(l)
         \/ \E r \in Refreshes : CheckToken(r) \/ RefuseToken(r) \/ LookUpUser(r)
         \/ \E q \in Signed : RefuseCaller(q)
         \/ \E o \in Logouts : Logout(o)
         \/ \E a \in LogoutAlls : LogoutAll(a)
         \/ \E q \in Requests : Raise(q)
  PROVE  AuthIInv'
<1>1. TypeOK' /\ AccountsIInv' /\ BodiesAreIssued'
  BY TypesKept, AccountsKept, BodiesKept
<1>2. UNCHANGED <<tokens, sweep, revoked>>
  BY DEF Accounts, vars, Login, RefuseLogin, CheckToken, RefuseToken, LookUpUser, RefuseCaller,
         Logout, LogoutAll, Raise
<1>3. \A i \in Issuers : Issued(i) => Issued(i)' /\ sub'[i] = sub[i]
  BY IssuedStays
<1>4. pc' = pc \/ \E q \in Requests, x \in Positions :
        /\ pc' = [pc EXCEPT ![q] = x] /\ x \notin {"done", "unanswered"}
        /\ q \in LogoutAlls => (pc[q] = "new" /\ x = "begin") \/ x \in {"failed", "refused"}
  <2> USE KindsOfRequests DEF Goto, Replied, Positions
  <2>1. CASE Accounts \/ UNCHANGED vars BY <2>1 DEF Accounts, vars
  <2>2. CASE \E l \in Logins : Login(l) \/ RefuseLogin(l)
    BY <2>2 DEF Login, RefuseLogin
  <2>3. CASE \E r \in Refreshes : CheckToken(r) \/ RefuseToken(r) \/ LookUpUser(r)
    BY <2>3 DEF CheckToken, RefuseToken, LookUpUser
  <2>4. CASE \E r \in Signed : RefuseCaller(r)
    BY <2>4 DEF RefuseCaller
  <2>5. CASE \E o \in Logouts : Logout(o)
    BY <2>5 DEF Logout
  <2>6. CASE \E a \in LogoutAlls : LogoutAll(a)
    BY <2>6 DEF LogoutAll, Authenticate
  <2>7. CASE \E r \in Requests : Raise(r)
    BY <2>7 DEF Raise
  <2>8. QED BY <2>1, <2>2, <2>3, <2>4, <2>5, <2>6, <2>7
<1>5. \A i \in Issuers : Issued(i)' => Issued(i)
  BY <1>4, KindsOfRequests DEF Issued, AuthIInv, TypeOK
<1>6. \A a \in LogoutAlls :
        pc'[a] = pc[a] \/ (pc[a] = "new" /\ pc'[a] = "begin") \/ pc'[a] \in {"failed", "refused"}
  BY <1>4, KindsOfRequests DEF AuthIInv, TypeOK
<1>7. QED BY <1>1, <1>2, <1>3, <1>5, <1>6, TokensUntouched

LEMMA AuthStep == AuthIInv /\ [Next]_vars => AuthIInv'
<1> SUFFICES ASSUME AuthIInv, [Next]_vars PROVE AuthIInv'
  OBVIOUS
<1>1. \A k \in Keys : k.of \in Issuers BY KeyFacts
<1>2. CASE \E i \in Issuers : StoreToken(i) BY <1>2, StoreKept
<1>3. CASE \E a \in LogoutAlls : Scan(a) BY <1>3, ScanKept
<1>4. ASSUME NEW r \in Refreshes, DeleteUsed(r) PROVE AuthIInv'
  <2>1. body[r] \in Issuers /\ Issued(body[r])
    BY <1>4 DEF DeleteUsed, AuthIInv, BodiesAreIssued
  <2>2. \A i \in Issuers : Issued(i)' <=> Issued(i)
    BY <1>4, KindsOfRequests DEF DeleteUsed, Goto, Replied, Issued, AuthIInv, TypeOK
  <2>3. \A a \in LogoutAlls : pc'[a] = pc[a]
    BY <1>4, KindsOfRequests DEF DeleteUsed, Goto, Replied, AuthIInv, TypeOK
  <2>4. \A k \in keys \ keys' : k.of \in revoked'
    BY <1>4 DEF DeleteUsed, Key
  <2>5. \A i \in revoked' \ revoked : i = body[r] BY <1>4 DEF DeleteUsed
  <2>6. Key(sub[body[r]], body[r]) \notin keys' BY <1>4 DEF DeleteUsed
  <2>7. keys' \subseteq keys /\ revoked \subseteq revoked' /\ UNCHANGED <<sub, delivered, lapsed, page, seen, before>>
    BY <1>4 DEF DeleteUsed, sweep
  <2>8. \A a \in LogoutAlls :
          /\ pc[a] \in {"new", "begin", "scan"} => page[a] = {}
          /\ pc[a] = "last page" => before[a] \cap keys \subseteq page[a]
          /\ pc[a] = "done" => before[a] \cap keys = {}
    BY DEF AuthIInv, SweepsRemember, LogoutAllRevokes
  <2>9. QED BY <2>1, <2>2, <2>3, <2>4, <2>5, <2>6, <2>7, <2>8, KeysShrink
<1>5. ASSUME NEW o \in Logouts, DropToken(o) PROVE AuthIInv'
  <2>1. body[o] \in Issuers /\ Issued(body[o])
    BY <1>5 DEF DropToken, AuthIInv, BodiesAreIssued
  <2>2. \A i \in Issuers : Issued(i)' <=> Issued(i)
    BY <1>5, KindsOfRequests DEF DropToken, Goto, Replied, Issued, AuthIInv, TypeOK
  <2>3. \A a \in LogoutAlls : pc'[a] = pc[a]
    BY <1>5, KindsOfRequests DEF DropToken, Goto, Replied, AuthIInv, TypeOK
  <2>4. \A k \in keys \ keys' : k.of \in revoked'
    <3>1. SUFFICES ASSUME NEW k \in keys, k = Key(caller[o], body[o]) PROVE k.of \in revoked'
      BY <1>5 DEF DropToken
    <3>2. k.of = body[o] /\ k.user = caller[o] BY <3>1 DEF Key
    <3>3. sub[body[o]] = caller[o] BY <3>2 DEF AuthIInv, KeysAreStored
    <3>4. QED BY <1>5, <3>2, <3>3 DEF DropToken, OwnToken
  <2>5. \A i \in revoked' \ revoked : i = body[o] /\ sub[i] = caller[o]
    BY <1>5 DEF DropToken, OwnToken
  <2>6. Key(caller[o], body[o]) \notin keys' BY <1>5 DEF DropToken
  <2>7. keys' \subseteq keys /\ revoked \subseteq revoked' /\ UNCHANGED <<sub, delivered, lapsed, page, seen, before>>
    BY <1>5 DEF DropToken, sweep
  <2>8. \A a \in LogoutAlls :
          /\ pc[a] \in {"new", "begin", "scan"} => page[a] = {}
          /\ pc[a] = "last page" => before[a] \cap keys \subseteq page[a]
          /\ pc[a] = "done" => before[a] \cap keys = {}
    BY DEF AuthIInv, SweepsRemember, LogoutAllRevokes
  <2>9. QED BY <2>1, <2>2, <2>3, <2>4, <2>5, <2>6, <2>7, <2>8, KeysShrink
<1>6. ASSUME NEW s \in LogoutAlls, DeletePage(s) PROVE AuthIInv'
  <2>1. \A k \in page[s] : k.of \in Issuers /\ Issued(k.of) /\ k = Key(sub[k.of], k.of)
    <3>1. \A k \in page[s] : k \in Keys /\ Issued(k.of) /\ k.user = sub[k.of]
      BY DEF AuthIInv, TypeOK, SweepsRemember
    <3>2. QED BY <3>1, KeyFacts
  <2>0. PICK p \in {"scan", "done", "failed"} : pc' = [pc EXCEPT ![s] = p]
    BY <1>6 DEF DeletePage, Goto, Replied
  <2>2. \A i \in Issuers : Issued(i)' <=> Issued(i)
    BY <2>0, KindsOfRequests DEF Issued, AuthIInv, TypeOK
  <2>3. \A a \in LogoutAlls : a # s => pc'[a] = pc[a] /\ page'[a] = page[a]
    BY <1>6, KindsOfRequests DEF DeletePage, Goto, Replied, AuthIInv, TypeOK
  <2>4. /\ page'[s] = {} /\ keys' = keys \ page[s]
        /\ pc[s] \in {"page", "last page"} /\ pc'[s] \in {IF pc[s] = "page" THEN "scan" ELSE "done", "failed"}
    BY <1>6, KindsOfRequests DEF DeletePage, Goto, Replied, AuthIInv, TypeOK
  <2>5. revoked' = revoked \cup {k.of : k \in page[s]} BY <1>6 DEF DeletePage
  <2>6. \A i \in revoked' \ revoked : Issued(i) /\ Key(sub[i], i) \notin keys'
    BY <2>1, <2>4, <2>5
  <2>7. UNCHANGED <<sub, delivered, lapsed, seen, before>> BY <1>6 DEF DeletePage
  <2>8. \A a \in LogoutAlls :
          /\ pc[a] \in {"new", "begin", "scan"} => page[a] = {}
          /\ pc[a] = "last page" => before[a] \cap keys \subseteq page[a]
          /\ pc[a] = "done" => before[a] \cap keys = {}
    BY DEF AuthIInv, SweepsRemember, LogoutAllRevokes
  <2>9. \A a \in LogoutAlls :
          /\ page'[a] \subseteq page[a] /\ page[a] \cap keys' \subseteq page'[a]
          /\ pc'[a] \in {"new", "begin", "scan"} => page'[a] = {}
          /\ pc'[a] = "last page" => before[a] \cap keys' \subseteq page'[a]
          /\ pc'[a] = "done" => before[a] \cap keys' = {}
    <3>1. SUFFICES ASSUME NEW a \in LogoutAlls
                   PROVE  /\ page'[a] \subseteq page[a] /\ page[a] \cap keys' \subseteq page'[a]
                          /\ pc'[a] \in {"new", "begin", "scan"} => page'[a] = {}
                          /\ pc'[a] = "last page" => before[a] \cap keys' \subseteq page'[a]
                          /\ pc'[a] = "done" => before[a] \cap keys' = {}
      OBVIOUS
    <3>2. CASE a = s BY <2>4, <2>8, <3>2
    <3>3. CASE a # s BY <2>3, <2>4, <2>8, <3>3
    <3>4. QED BY <3>2, <3>3
  <2>10. \A k \in keys \ keys' : k.of \in revoked' BY <2>4, <2>5
  <2>11. QED BY <2>2, <2>4, <2>5, <2>6, <2>7, <2>9, <2>10, KeysShrink
<1>7. ASSUME NEW j \in Issuers, Lapse(j) PROVE AuthIInv'
  <2>1. UNCHANGED <<pc, sub, keys, delivered, page, seen, before, revoked>> /\ lapsed \subseteq lapsed'
    BY <1>7 DEF Lapse, sweep
  <2>2. \A i \in Issuers : Issued(i)' <=> Issued(i) BY <2>1 DEF Issued
  <2>3. QED BY <2>1, <2>2, KeysShrink DEF AuthIInv, SweepsRemember, LogoutAllRevokes
<1>8. ASSUME NEW j \in keys, ExpireKey(j) PROVE AuthIInv'
  <2>1. /\ UNCHANGED <<pc, sub, lapsed, delivered, page, seen, before, revoked>>
        /\ keys' = keys \ {j} /\ Refresh(j.of) \in lapsed
    BY <1>8 DEF ExpireKey, sweep
  <2>2. \A i \in Issuers : Issued(i)' <=> Issued(i) BY <2>1 DEF Issued
  <2>3. QED BY <2>1, <2>2, KeysShrink DEF AuthIInv, SweepsRemember, LogoutAllRevokes
<1>9. QED BY <1>2, <1>3, <1>4, <1>5, <1>6, <1>7, <1>8, QuietSteps DEF Next

LEMMA AuthInvariance == Spec => []AuthIInv
<1>1. QED BY AuthInitially, AuthStep, PTL DEF Spec

\* Types of every request, token and key, and that nothing is stored for nobody.
THEOREM TokenTypes == Spec => []TypeOK
<1>1. AuthIInv => TypeOK BY DEF AuthIInv
<1>2. QED BY <1>1, AuthInvariance, PTL

\* When logout_all has answered, every refresh key that was there when it began is gone
\* (auth_service.py: SCAN and DEL in turns), whatever other requests do meanwhile.
THEOREM LogoutAllLeavesNoKey == Spec => []LogoutAllRevokes
<1>1. AuthIInv => LogoutAllRevokes BY DEF AuthIInv
<1>2. QED BY <1>1, AuthInvariance, PTL

\* A refresh token a client holds stops working only because it lapsed or because a call
\* of its own user used or revoked it.
THEOREM NobodyElseLogsOut == Spec => []LostForAReason
<1>1. AuthIInv => LostForAReason BY DEF AuthIInv
<1>2. QED BY <1>1, AuthInvariance, PTL

\* A refresh token that was used, logged out or swept is never accepted again.
THEOREM RevokedStaysRefused == Spec => RevokedIsRefused
<1> DEFINE Refused == \A r \in Refreshes : pc[r] = "new" /\ pc'[r] = "delete" => body'[r] \notin revoked
<1>1. AuthIInv /\ [Next]_vars => [Refused]_vars
  <2> SUFFICES ASSUME AuthIInv, Next, NEW r \in Refreshes, pc[r] = "new", pc'[r] = "delete"
               PROVE  body'[r] \notin revoked
    OBVIOUS
  <2>1. CheckToken(r)
    <3> USE KindsOfRequests DEF AuthIInv, TypeOK, Goto, Replied
    <3>1. CASE Accounts BY <3>1 DEF Accounts
    <3>2. CASE \E l \in Logins : Login(l) \/ RefuseLogin(l)
      BY <3>2 DEF Login, RefuseLogin
    <3>3. CASE \E i \in Issuers : StoreToken(i) BY <3>3 DEF StoreToken
    <3>4. CASE \E q \in Refreshes : CheckToken(q) \/ RefuseToken(q) \/ DeleteUsed(q)
      <4>1. PICK q \in Refreshes : CheckToken(q) \/ RefuseToken(q) \/ DeleteUsed(q) BY <3>4
      <4>2. q = r BY <4>1 DEF CheckToken, RefuseToken, DeleteUsed
      <4>3. QED BY <4>1, <4>2 DEF RefuseToken, DeleteUsed
    <3>5. CASE \E q \in Refreshes : LookUpUser(q) BY <3>5 DEF LookUpUser
    <3>6. CASE \E q \in Signed : RefuseCaller(q) BY <3>6 DEF RefuseCaller
    <3>7. CASE \E o \in Logouts : Logout(o) \/ DropToken(o) BY <3>7 DEF Logout, DropToken
    <3>8. CASE \E a \in LogoutAlls : LogoutAll(a) \/ DeletePage(a) BY <3>8 DEF LogoutAll, DeletePage
    <3>9. CASE \E a \in LogoutAlls : Scan(a)
      <4>1. PICK a \in LogoutAlls, p \in {"page", "last page"} : pc' = [pc EXCEPT ![a] = p]
        BY <3>9 DEF Scan
      <4>2. QED BY <4>1
    <3>10. CASE \E q \in Requests : Raise(q) BY <3>10 DEF Raise
    <3>11. CASE (\E i \in Issuers : Lapse(i)) \/ \E k \in keys : ExpireKey(k)
      BY <3>11 DEF Lapse, ExpireKey
    <3>12. QED BY <3>1, <3>2, <3>3, <3>4, <3>5, <3>6, <3>7, <3>8, <3>9, <3>10, <3>11 DEF Next
  <2>2. PICK t \in delivered : Valid(t) /\ body'[r] = t.of
    BY <2>1, KindsOfRequests DEF CheckToken, AuthIInv, TypeOK
  <2>3. t.of \notin revoked BY <2>2 DEF Valid, AuthIInv, RevokedAreGone
  <2>4. QED BY <2>2, <2>3
<1>2. QED BY <1>1, AuthInvariance, PTL DEF Spec, RevokedIsRefused
=============================================================================
