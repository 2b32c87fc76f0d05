------------------------------ MODULE AuthProofs ------------------------------
(***************************************************************************)
(* Theorems about the two machines of the auth-service that other programs *)
(* rely on: AuthLogin, for any handlers, replicas, registrations and       *)
(* bounds, and JwksCache, for any replicas, verifiers, handlers and        *)
(* numbers of keys and tokens.  They share no state.                       *)
(***************************************************************************)
EXTENDS AuthLogin, JwksCache, FiniteSetTheorems, TLAPS

-----------------------------------------------------------------------------
(* AuthLogin: types *)

Bodies == [email : Emails \cup {None}, phone : Phones \cup {None}, pw : Passwords \cup {None},
           token : Tokens \cup {None}, code : Secrets \cup {None}]
Places == {"idle", "select", "insert", "login", "raise", "granted", "incr", "ttl", "code", "proven"}

\* What a request has at each of its handler's steps.
Served ==
    \A w \in Workers :
        /\ pc[w] # "idle" => req[w].email \in Emails
        /\ pc[w] \in {"select", "insert"} => req[w].phone \in Phones \cup {None}
                                             /\ req[w].pw \in Passwords
        /\ pc[w] \in {"incr", "ttl", "code"} => req[w].token \in Tokens

HandlersOK ==
    /\ pc \in [Workers -> Places] /\ req \in [Workers -> Bodies] /\ row \in [Workers -> Rows]
    /\ overtaken \subseteq Workers
    /\ Served

StoresOK ==
    /\ users \in [Emails -> Rows] /\ tokens \subseteq Tokens
    /\ sessions \subseteq [sid : 1 .. MaxSessions, user : Emails, mfa : BOOLEAN]
    /\ IsFiniteSet(sessions)
    /\ counter \in [RateKeys -> Nat] /\ ttl \subseteq RateKeys
    /\ secretsDrawn \in 0 .. MaxSecrets
    /\ wrong \in [Emails -> 0 .. MaxFails]
    /\ admitted \in [RateKeys -> Nat] /\ orphaned \subseteq RateKeys

LoginTypes == StoresOK /\ HandlersOK

LEMMA LoginTypesOK == LoginTypes => TypeOK
  BY DEF LoginTypes, StoresOK, HandlersOK, TypeOK, Bodies, Places

\* The empty request and the missing row, and what the handlers make of a row.
LEMMA EmptyValues ==
  /\ NoRequest \in Bodies /\ NoUser \in Rows
  /\ NoUser.phone = None /\ NoUser.pw = None /\ NoUser.secret = None
  BY BoundAssumption DEF NoRequest, Bodies, NoUser, Rows

LEMMA RowsKept ==
  ASSUME NEW r \in Rows
  PROVE  /\ AfterFailure(r) \in Rows /\ Cleared(r) \in Rows
         /\ Cleared(r).pw = r.pw /\ Cleared(r).phone = r.phone /\ Cleared(r).secret = r.secret
<1>1. r.failed \in 0 .. MaxFails - 1 /\ 0 \in 0 .. MaxFails - 1
  BY BoundAssumption DEF Rows
<1>2. r.failed + 1 < MaxFails => r.failed + 1 \in 0 .. MaxFails - 1
  BY <1>1, BoundAssumption
<1>3. AfterFailure(r) \in Rows
  <2>1. CASE r.failed + 1 >= MaxFails
    BY <1>1, <2>1 DEF Rows, AfterFailure
  <2>2. CASE ~ (r.failed + 1 >= MaxFails)
    <3>1. r.failed + 1 \in 0 .. MaxFails - 1
      BY <1>1, <1>2, <2>2, BoundAssumption
    <3> QED BY <2>2, <3>1 DEF Rows, AfterFailure
  <2> QED BY <2>1, <2>2
<1> QED BY <1>1, <1>3 DEF Rows, Cleared

LEMMA RateKeyType ==
  ASSUME HandlersOK, NEW w \in Workers, pc[w] \in {"incr", "ttl", "code"}
  PROVE  RateKey(w) \in RateKeys
  BY DEF HandlersOK, Served, RateKey, RateKeys, Tokens

\* The three ways in which a handler moves.
LEMMA ReturnOK ==
  ASSUME HandlersOK, NEW w \in Workers, Return(w)
  PROVE  HandlersOK'
  BY EmptyValues DEF HandlersOK, Served, Places, Return, Goto

LEMMA StartOK ==
  ASSUME HandlersOK, NEW w \in Workers, NEW place \in {"select", "login", "incr"},
         NEW r \in Bodies, Start(w, place, r), overtaken' = overtaken,
         r.email \in Emails,
         place = "select" => r.phone \in Phones \cup {None} /\ r.pw \in Passwords,
         place = "incr" => r.token \in Tokens
  PROVE  HandlersOK'
  BY DEF HandlersOK, Served, Places, Start, Goto

LEMMA GotoOK ==
  ASSUME HandlersOK, NEW w \in Workers, NEW place \in Places,
         Goto(w, place), UNCHANGED <<req, overtaken>>, row' \in [Workers -> Rows],
         pc[w] # "idle", place = "insert" => pc[w] = "select",
         place \in {"ttl", "code"} => pc[w] \in {"incr", "ttl"},
         place \notin {"select", "incr"}
  PROVE  HandlersOK'
  BY DEF HandlersOK, Served, Places, Goto

LEMMA LoginInit == Init => LoginTypes
  BY EmptyValues, BoundAssumption, FS_EmptySet
  DEF Init, LoginTypes, StoresOK, HandlersOK, Served, Places

\* Every step leaves the handlers with what their next step needs.
LEMMA HandlersStep == LoginTypes /\ [Next]_vars => HandlersOK'
<1> SUFFICES ASSUME StoresOK, HandlersOK, [Next]_vars PROVE HandlersOK'
  BY DEF LoginTypes
<1>1. ASSUME NEW w \in Workers, Return(w) PROVE HandlersOK'
  BY <1>1, ReturnOK
<1>2. ASSUME NEW w \in Workers, Arrive(w) PROVE HandlersOK'
  <2>1. ASSUME NEW r \in Registrations, Register(w, r) PROVE HandlersOK'
    <3> DEFINE b == [NoRequest EXCEPT !.email = r.email, !.phone = r.phone, !.pw = r.pw]
    <3>1. r.email \in Emails /\ r.phone \in Phones /\ r.pw \in Passwords
      BY DEF Emails, Phones, Passwords
    <3>2. b \in Bodies /\ b.email = r.email /\ b.phone = r.phone /\ b.pw = r.pw
      BY <3>1 DEF Bodies, NoRequest
    <3>3. Start(w, "select", b) /\ overtaken' = overtaken
      BY <2>1 DEF Register, history
    <3> HIDE DEF b
    <3> QED BY <3>1, <3>2, <3>3, StartOK
  <2>2. ASSUME NEW e \in Emails, Enroll(w, e) PROVE HandlersOK'
    BY <2>2 DEF Enroll, HandlersOK, Served, handler
  <2>3. ASSUME NEW e \in Emails, NEW pw \in Passwords, Login(w, e, pw) PROVE HandlersOK'
    <3> DEFINE b == [NoRequest EXCEPT !.email = e, !.pw = pw]
    <3>1. b \in Bodies /\ b.email = e
      BY DEF Bodies, NoRequest
    <3>2. Start(w, "login", b) /\ overtaken' = overtaken
      BY <2>3 DEF Login, history
    <3> HIDE DEF b
    <3> QED BY <3>1, <3>2, StartOK
  <2>4. ASSUME NEW t \in tokens, NEW code \in Secrets, Verify(w, t, code) PROVE HandlersOK'
    <3> DEFINE b == [NoRequest EXCEPT !.email = t.sub, !.token = t, !.code = code]
    <3>1. t \in Tokens /\ t.sub \in Emails
      BY DEF StoresOK, Tokens
    <3>2. b \in Bodies /\ b.email = t.sub /\ b.token = t
      BY <3>1 DEF Bodies, NoRequest
    <3>3. Start(w, "incr", b) /\ overtaken' = overtaken
      BY <2>4 DEF Verify, history
    <3> HIDE DEF b
    <3> QED BY <3>1, <3>2, <3>3, StartOK
  <2> QED BY <1>2, <2>1, <2>2, <2>3, <2>4 DEF Arrive
<1>3. ASSUME NEW w \in Workers, SelectExisting(w) PROVE HandlersOK'
  <2>1. CASE ~ Return(w)
    <3>1. Goto(w, "insert") /\ UNCHANGED <<req, row, overtaken>> /\ pc[w] = "select"
      BY <1>3, <2>1 DEF SelectExisting
    <3> QED BY <3>1, GotoOK DEF Places, HandlersOK
  <2> QED BY <1>1, <2>1
<1>4. ASSUME NEW w \in Workers, CheckPassword(w) PROVE HandlersOK'
  <2>1. CASE ~ Return(w)
    <3>1. pc[w] = "login" /\ req[w].email \in Emails
      BY <1>4 DEF CheckPassword, HandlersOK, Served
    <3> DEFINE r == users[req[w].email]
    <3>2. r \in Rows
      BY <3>1 DEF StoresOK
    <3>3. /\ \E place \in {"raise", "granted"} : Goto(w, place)
          /\ \E x \in {AfterFailure(r), r, Cleared(r)} : row' = [row EXCEPT ![w] = x]
          /\ UNCHANGED <<req, overtaken>>
      BY <1>4, <2>1 DEF CheckPassword
    <3> HIDE DEF r
    <3>4. row' \in [Workers -> Rows]
      BY <3>2, <3>3, RowsKept DEF HandlersOK
    <3> QED BY <3>1, <3>3, <3>4, GotoOK DEF Places
  <2> QED BY <1>1, <2>1
<1>5. ASSUME NEW w \in Workers, CountAttempt(w) PROVE HandlersOK'
  <2>1. CASE ~ Return(w)
    <3>1. /\ pc[w] = "incr" /\ UNCHANGED <<req, row, overtaken>>
          /\ \E place \in {"ttl", "code"} : Goto(w, place)
      BY <1>5, <2>1 DEF CountAttempt
    <3> QED BY <3>1, GotoOK DEF Places, HandlersOK
  <2> QED BY <1>1, <2>1
<1>6. ASSUME NEW w \in Workers, SetTtl(w) PROVE HandlersOK'
  <2>1. pc[w] = "ttl" /\ UNCHANGED <<req, row, overtaken>> /\ Goto(w, "code")
    BY <1>6 DEF SetTtl, history
  <2> QED BY <2>1, GotoOK DEF Places, HandlersOK
<1>7. ASSUME NEW w \in Workers, CheckCode(w) PROVE HandlersOK'
  <2>1. CASE ~ Return(w)
    <3>1. /\ pc[w] = "code" /\ UNCHANGED <<req, overtaken>> /\ Goto(w, "proven")
          /\ row' = [row EXCEPT ![w] = users[req[w].email]]
      BY <1>7, <2>1 DEF CheckCode
    <3>2. row' \in [Workers -> Rows]
      BY <3>1 DEF HandlersOK, Served, StoresOK
    <3> QED BY <3>1, <3>2, GotoOK DEF Places
  <2> QED BY <1>1, <2>1
<1>8. ASSUME NEW w \in Workers, Step(w) \/ Fail(w) PROVE HandlersOK'
  BY <1>1, <1>3, <1>4, <1>5, <1>6, <1>7, <1>8
  DEF Step, RejectBreached, InsertUser, Rollback, GrantLogin, GrantVerified, Fail
<1>9. ASSUME UNCHANGED <<handler, overtaken>> PROVE HandlersOK'
  BY <1>9 DEF handler, HandlersOK, Served
<1> QED BY <1>2, <1>8, <1>9 DEF Next, vars, history, ExpireCounter, ExpireToken

\* The database, Redis and the history keep their types; a session id is the
\* number of sessions, so they stay finitely many.
LEMMA StoresStep == LoginTypes /\ [Next]_vars => StoresOK'
<1> SUFFICES ASSUME StoresOK, HandlersOK, [Next]_vars PROVE StoresOK'
  BY DEF LoginTypes
<1> USE DEF redis, history
<1>1. ASSUME UNCHANGED <<users, tokens, redis, secretsDrawn, wrong, admitted, orphaned>>
      PROVE  StoresOK'
  BY <1>1 DEF StoresOK
<1>2. ASSUME NEW w \in Workers, pc[w] \in {"insert", "login", "granted", "proven"}
      PROVE  req[w].email \in Emails
  BY <1>2 DEF HandlersOK, Served
<1>3. ASSUME NEW w \in Workers, InsertUser(w) PROVE StoresOK'
  <2> DEFINE u == [NoUser EXCEPT !.phone = req[w].phone, !.pw = req[w].pw]
  <2>1. u \in Rows
    BY <1>3, EmptyValues DEF InsertUser, HandlersOK, Served, Rows, NoUser
  <2>2. users' = users \/ users' = [users EXCEPT ![req[w].email] = u]
    BY <1>3 DEF InsertUser
  <2>3. UNCHANGED <<tokens, redis, secretsDrawn, wrong, admitted, orphaned>>
    BY <1>3 DEF InsertUser
  <2> HIDE DEF u
  <2>4. users' \in [Emails -> Rows]
    BY <2>1, <2>2 DEF StoresOK
  <2> QED BY <2>3, <2>4 DEF StoresOK
<1>4. ASSUME NEW w \in Workers, CheckPassword(w) PROVE StoresOK'
  <2>1. wrong' \in [Emails -> 0 .. MaxFails]
    <3>1. \A n \in 0 .. MaxFails : n < MaxFails => n + 1 \in 0 .. MaxFails
      BY BoundAssumption
    <3>2. 0 \in 0 .. MaxFails
      BY BoundAssumption
    <3>3. \/ wrong' = wrong
          \/ wrong' = [wrong EXCEPT ![req[w].email] = IF @ < MaxFails THEN @ + 1 ELSE @]
          \/ wrong' = [wrong EXCEPT ![req[w].email] = 0]
      BY <1>4 DEF CheckPassword
    <3> QED BY <3>1, <3>2, <3>3 DEF StoresOK
  <2>2. UNCHANGED <<users, tokens, redis, secretsDrawn, admitted, orphaned>>
    BY <1>4 DEF CheckPassword
  <2> QED BY <2>1, <2>2 DEF StoresOK
<1>5. ASSUME NEW w \in Workers, NEW mfa \in BOOLEAN, pc[w] \in {"granted", "proven"},
             \/ tokens' = tokens \cup {Token(w, "access")} /\ NewSession(req[w].email, mfa)
             \/ tokens' = tokens \cup {Token(w, "pre-auth")} /\ UNCHANGED sessions,
             users' = users \/ CommitCleared(w),
             UNCHANGED <<counter, ttl, secretsDrawn, wrong, admitted, orphaned>>
      PROVE  StoresOK'
  <2>1. Token(w, "access") \in Tokens /\ Token(w, "pre-auth") \in Tokens
    BY <1>2, <1>5 DEF Token, Tokens, Replicas
  <2>2. users' \in [Emails -> Rows]
    BY <1>2, <1>5, RowsKept DEF CommitCleared, StoresOK
  <2>3. ASSUME NewSession(req[w].email, mfa)
        PROVE  /\ sessions' \subseteq [sid : 1 .. MaxSessions, user : Emails, mfa : BOOLEAN]
               /\ IsFiniteSet(sessions')
    <3>1. Cardinality(sessions) \in Nat
      BY FS_CardinalityType DEF StoresOK
    <3>2. Cardinality(sessions) + 1 \in 1 .. MaxSessions
      BY <2>3, <3>1, BoundAssumption DEF NewSession
    <3> DEFINE s == [sid |-> Cardinality(sessions) + 1, user |-> req[w].email, mfa |-> mfa]
    <3>3. s \in [sid : 1 .. MaxSessions, user : Emails, mfa : BOOLEAN]
      BY <1>2, <1>5, <3>2
    <3>4. sessions' = sessions \cup {s}
      BY <2>3 DEF NewSession
    <3> HIDE DEF s
    <3>5. IsFiniteSet(sessions \cup {s})
      BY FS_AddElement DEF StoresOK
    <3> QED BY <3>3, <3>4, <3>5 DEF StoresOK
  <2> QED BY <1>5, <2>1, <2>2, <2>3 DEF StoresOK
<1>6. ASSUME NEW w \in Workers, GrantLogin(w) \/ GrantVerified(w) PROVE StoresOK'
  <2>1. CASE GrantLogin(w)
    BY <1>5, <2>1 DEF GrantLogin
  <2>2. CASE GrantVerified(w)
    BY <1>5, <2>2 DEF GrantVerified
  <2> QED BY <1>6, <2>1, <2>2
<1>7. ASSUME NEW w \in Workers, CountAttempt(w) \/ SetTtl(w) \/ Fail(w) PROVE StoresOK'
  <2>1. pc[w] \in {"incr", "ttl"} => RateKey(w) \in RateKeys
    BY RateKeyType
  <2>2. CASE CountAttempt(w)
    <3>1. \A n \in Nat : n + 1 \in Nat /\ n + 0 \in Nat
      OBVIOUS
    <3>2. counter' \in [RateKeys -> Nat] /\ admitted' \in [RateKeys -> Nat]
      BY <2>2, <3>1 DEF CountAttempt, StoresOK
    <3> QED BY <2>2, <3>2 DEF CountAttempt, StoresOK
  <2>3. CASE SetTtl(w)
    BY <2>1, <2>3 DEF SetTtl, StoresOK
  <2>4. CASE Fail(w)
    BY <2>1, <2>4 DEF Fail, StoresOK
  <2> QED BY <1>7, <2>2, <2>3, <2>4
<1>8. ASSUME NEW w \in Workers, NEW e \in Emails, Enroll(w, e) PROVE StoresOK'
  <2>1. secretsDrawn + 1 \in Secrets /\ secretsDrawn + 1 \in 0 .. MaxSecrets
    BY <1>8, BoundAssumption DEF Enroll, Secrets, StoresOK
  <2>2. ReplicaOf[w] \in Replicas
    BY DEF Replicas
  <2>3. users' = [users EXCEPT ![e] = [users[e] EXCEPT !.secret = secretsDrawn + 1,
                                                       !.under = ReplicaOf[w]]]
    BY <1>8 DEF Enroll, StoresOK
  <2>4. [users[e] EXCEPT !.secret = secretsDrawn + 1, !.under = ReplicaOf[w]] \in Rows
    BY <2>1, <2>2 DEF StoresOK, Rows
  <2>5. users' \in [Emails -> Rows]
    BY <2>3, <2>4 DEF StoresOK
  <2> QED BY <1>8, <2>1, <2>5 DEF Enroll, StoresOK
<1>9. ASSUME NEW k \in RateKeys, ExpireCounter(k) PROVE StoresOK'
  BY <1>9 DEF ExpireCounter, StoresOK
<1>10. ASSUME NEW t \in tokens, ExpireToken(t) PROVE StoresOK'
  BY <1>10 DEF ExpireToken, StoresOK
<1>11. ASSUME NEW w \in Workers, Arrive(w) PROVE StoresOK'
  BY <1>1, <1>8, <1>11 DEF Arrive, Register, Login, Verify
<1>12. ASSUME NEW w \in Workers, Step(w) PROVE StoresOK'
  BY <1>1, <1>3, <1>4, <1>6, <1>7, <1>12
  DEF Step, RejectBreached, SelectExisting, Rollback, CheckCode
<1>13. CASE UNCHANGED vars
  BY <1>1, <1>13 DEF vars
<1> QED BY <1>7, <1>9, <1>10, <1>11, <1>12, <1>13 DEF Next

LEMMA LoginTypesStep == LoginTypes /\ [Next]_vars => LoginTypes'
  BY HandlersStep, StoresStep DEF LoginTypes

LEMMA LoginTypesInvariant == Spec => []LoginTypes
  BY LoginInit, LoginTypesStep, PTL DEF Spec

\* Every variable of AuthLogin keeps its type: no session beyond the bound, and no
\* token for anyone but a registered address.
THEOREM LoginTypeCorrect == Spec => []TypeOK
  BY LoginTypesOK, LoginTypesInvariant, PTL

-----------------------------------------------------------------------------
(* AuthLogin: accounts and sessions *)

\* An account has a password, and a phone belongs to one account.
Accounts ==
    /\ \A e \in Emails : Exists(e) => users[e].pw # None
    /\ \A d, e \in Emails : users[d].phone = users[e].phone /\ users[d].phone # None => d = e

\* What a handler that is about to start a session has read is still so, except
\* that an enrolment may have overtaken it.
Current ==
    \A w \in Workers : pc[w] \in {"granted", "proven"} =>
        LET u == users[req[w].email] IN
        /\ Exists(req[w].email) /\ row[w].pw = u.pw
        /\ w \notin overtaken => row[w].secret = u.secret
        /\ pc[w] = "granted" => row[w].pw = req[w].pw
        /\ pc[w] = "proven" => row[w].secret # None /\ row[w].secret = req[w].code

LoginInv == LoginTypes /\ Accounts /\ Current

\* What AccountsAreKept says of one step.
AccountsKept ==
    /\ \A e \in Emails : Exists(e) => users'[e].pw = users[e].pw /\ users'[e].phone = users[e].phone
    /\ \A d, e \in Emails : users'[d].phone = users'[e].phone /\ users'[d].phone # None => d = e

\* Rows with the same columns are the same.
LEMMA RowEq ==
  ASSUME NEW r \in Rows, NEW s \in Rows, r.phone = s.phone, r.pw = s.pw, r.failed = s.failed,
         r.locked = s.locked, r.secret = s.secret, r.under = s.under
  PROVE  r = s
  BY DEF Rows

LEMMA ClearedEmpty == Cleared(NoUser) = NoUser
<1>1. NoUser \in Rows /\ Cleared(NoUser) \in Rows
  BY EmptyValues, RowsKept
<1>2. LET c == Cleared(NoUser) IN
      /\ c.phone = NoUser.phone /\ c.pw = NoUser.pw /\ c.failed = NoUser.failed
      /\ c.locked = NoUser.locked /\ c.secret = NoUser.secret /\ c.under = NoUser.under
  BY DEF Cleared, NoUser
<1> QED BY <1>1, <1>2, RowEq

\* The three ways in which accounts change.
LEMMA UsersStep ==
  ASSUME LoginTypes, [Next]_vars
  PROVE  \/ \A e \in Emails : users'[e] \in {users[e], Cleared(users[e])}
         \/ \E w \in Workers, e \in Emails : Enroll(w, e)
         \/ \E w \in Workers : InsertUser(w) /\ users' # users
<1> USE DEF redis, history
<1>1. CASE UNCHANGED users
  BY <1>1
<1>2. ASSUME NEW w \in Workers, GrantLogin(w)
      PROVE  \A e \in Emails : users'[e] \in {users[e], Cleared(users[e])}
  <2>1. users' = [users EXCEPT ![req[w].email] = Cleared(users[req[w].email])]
    BY <1>2 DEF GrantLogin, CommitCleared
  <2> QED BY <2>1 DEF LoginTypes, StoresOK
<1>3. ASSUME ~ UNCHANGED users
      PROVE  \E w \in Workers : GrantLogin(w) \/ InsertUser(w) \/ \E e \in Emails : Enroll(w, e)
  BY <1>3 DEF Next, vars, Arrive, Register, Login, Verify, Step, RejectBreached, SelectExisting,
              CheckPassword, Rollback, CountAttempt, SetTtl, CheckCode, GrantVerified, Fail,
              ExpireCounter, ExpireToken
<1> QED BY <1>1, <1>2, <1>3

\* An INSERT makes one account, of an address that had none and a phone that no
\* account has.
LEMMA InsertStep ==
  ASSUME LoginTypes, Accounts, NEW w \in Workers, InsertUser(w), users' # users
  PROVE  \E n \in Emails :
            /\ ~ Exists(n) /\ users'[n].pw # None
            /\ users'[n].phone = None \/ \A e \in Emails : users[e].phone # users'[n].phone
            /\ \A e \in Emails \ {n} : users'[e] = users[e]
<1> DEFINE n == req[w].email
           u == [NoUser EXCEPT !.phone = req[w].phone, !.pw = req[w].pw]
<1>1. n \in Emails /\ req[w].pw # None
  BY NoneAssumption DEF InsertUser, LoginTypes, HandlersOK, Served
<1>2. /\ ~ Exists(n)
      /\ req[w].phone = None \/ \A e \in Emails : users[e].phone # req[w].phone
      /\ users' = [users EXCEPT ![n] = u]
  BY DEF InsertUser
<1>3. u.phone = req[w].phone /\ u.pw = req[w].pw
  BY DEF NoUser
<1> HIDE DEF u, n
<1>4. users'[n] = u /\ \A e \in Emails \ {n} : users'[e] = users[e]
  BY <1>1, <1>2 DEF LoginTypes, StoresOK
<1> QED BY <1>1, <1>2, <1>3, <1>4 DEF n

LEMMA AccountsStep ==
  ASSUME LoginTypes, Accounts, [Next]_vars
  PROVE  Accounts' /\ AccountsKept
<1>1. ASSUME \A e \in Emails : /\ users'[e].pw = users[e].pw /\ users'[e].phone = users[e].phone
                               /\ users'[e] # NoUser => users[e] # NoUser
      PROVE  Accounts' /\ AccountsKept
  BY <1>1 DEF Accounts, AccountsKept, Exists
<1>2. CASE \A e \in Emails : users'[e] \in {users[e], Cleared(users[e])}
  BY <1>1, <1>2, RowsKept, ClearedEmpty DEF LoginTypes, StoresOK
<1>3. ASSUME NEW w \in Workers, NEW n \in Emails, Enroll(w, n) PROVE Accounts' /\ AccountsKept
  <2>1. users' = [users EXCEPT ![n] = [users[n] EXCEPT !.secret = secretsDrawn + 1,
                                                       !.under = ReplicaOf[w]]]
    BY <1>3 DEF Enroll, LoginTypes, StoresOK
  <2>2. users[n] # NoUser
    BY <1>3 DEF Enroll, Exists
  <2>3. /\ users'[n].pw = users[n].pw /\ users'[n].phone = users[n].phone
        /\ \A e \in Emails \ {n} : users'[e] = users[e]
    BY <2>1 DEF LoginTypes, StoresOK, Rows
  <2> QED BY <1>1, <2>2, <2>3
<1>4. ASSUME NEW w \in Workers, InsertUser(w), users' # users PROVE Accounts' /\ AccountsKept
  <2>1. PICK n \in Emails :
            /\ ~ Exists(n) /\ users'[n].pw # None
            /\ users'[n].phone = None \/ \A e \in Emails : users[e].phone # users'[n].phone
            /\ \A e \in Emails \ {n} : users'[e] = users[e]
    BY <1>4, InsertStep
  <2>2. \A d, e \in Emails : users'[d].phone = users'[e].phone /\ users'[d].phone # None => d = e
    BY <2>1 DEF Accounts
  <2> QED BY <2>1, <2>2 DEF Accounts, AccountsKept, Exists
<1> QED BY <1>2, <1>3, <1>4, UsersStep

\* A handler that is about to start a session has just read the row, or stays as
\* it was; only its own return takes the mark of an enrolment from it.
LEMMA ReadersStep ==
  ASSUME LoginTypes, [Next]_vars, NEW w \in Workers, pc'[w] \in {"granted", "proven"}
  PROVE  \/ CheckPassword(w) \/ CheckCode(w)
         \/ /\ pc'[w] = pc[w] /\ req'[w] = req[w] /\ row'[w] = row[w]
            /\ w \in overtaken => w \in overtaken'
<1> DEFINE Still == /\ pc'[w] = pc[w] /\ req'[w] = req[w] /\ row'[w] = row[w]
                    /\ w \in overtaken => w \in overtaken'
<1> USE DEF LoginTypes, HandlersOK, history
<1>1. CASE UNCHANGED <<pc, req, row>> /\ overtaken \subseteq overtaken'
  BY <1>1
<1>2. ASSUME NEW v \in Workers, Arrive(v) PROVE Still
  BY <1>1, <1>2 DEF Arrive, Register, Login, Verify, Start, Goto, Enroll, handler
<1>3. ASSUME NEW v \in Workers, Return(v) PROVE Still
  BY <1>3 DEF Return, Goto
<1>4. ASSUME NEW v \in Workers, CheckPassword(v) \/ CheckCode(v), v # w PROVE Still
  BY <1>3, <1>4 DEF CheckPassword, CheckCode, Goto
<1>5. ASSUME NEW v \in Workers, SelectExisting(v) \/ CountAttempt(v) \/ SetTtl(v) PROVE Still
  <2>1. CASE Return(v)
    BY <1>3, <2>1
  <2>2. CASE ~ Return(v)
    <3>1. /\ \E place \in {"insert", "ttl", "code"} : Goto(v, place)
          /\ UNCHANGED <<req, row, overtaken>>
      BY <1>5, <2>2 DEF SelectExisting, CountAttempt, SetTtl
    <3> QED BY <3>1 DEF Goto
  <2> QED BY <2>1, <2>2
<1>6. ASSUME NEW v \in Workers, Step(v) \/ Fail(v)
      PROVE  Still \/ CheckPassword(w) \/ CheckCode(w)
  BY <1>3, <1>4, <1>5, <1>6
  DEF Step, RejectBreached, InsertUser, Rollback, GrantLogin, GrantVerified, Fail
<1>7. CASE UNCHANGED vars \/ (\E k \in RateKeys : ExpireCounter(k)) \/ \E t \in tokens : ExpireToken(t)
  BY <1>1, <1>7 DEF vars, handler, ExpireCounter, ExpireToken
<1> QED BY <1>2, <1>6, <1>7 DEF Next

LEMMA CurrentStep == LoginInv /\ [Next]_vars => Current'
<1> SUFFICES ASSUME LoginTypes, Accounts, Current, [Next]_vars,
                    NEW w \in Workers, pc'[w] \in {"granted", "proven"}
             PROVE  LET u == users'[req'[w].email] IN
                    /\ u # NoUser /\ row'[w].pw = u.pw
                    /\ w \notin overtaken' => row'[w].secret = u.secret
                    /\ pc'[w] = "granted" => row'[w].pw = req'[w].pw
                    /\ pc'[w] = "proven" => row'[w].secret # None /\ row'[w].secret = req'[w].code
  BY DEF LoginInv, Current, Exists
<1>1. Accounts' /\ AccountsKept
  BY AccountsStep
<1>2. CASE CheckPassword(w)
  <2> DEFINE r == users[req[w].email]
  <2>1. req[w].email \in Emails /\ pc[w] = "login"
    BY <1>2 DEF CheckPassword, LoginTypes, HandlersOK, Served
  <2>2. r \in Rows
    BY <2>1 DEF LoginTypes, StoresOK
  <2>3. /\ r # NoUser /\ r.pw = req[w].pw
        /\ \E x \in {r, Cleared(r)} : row' = [row EXCEPT ![w] = x]
        /\ UNCHANGED <<users, req>> /\ pc'[w] = "granted"
    BY <1>2 DEF CheckPassword, Exists, Goto, Return, LoginTypes, HandlersOK
  <2> HIDE DEF r
  <2>4. row'[w].pw = r.pw /\ row'[w].secret = r.secret
    BY <2>2, <2>3, RowsKept DEF LoginTypes, HandlersOK
  <2> QED BY <2>3, <2>4 DEF r
<1>3. CASE CheckCode(w)
  <2> DEFINE r == users[req[w].email]
  <2>1. req[w].email \in Emails
    BY <1>3 DEF CheckCode, LoginTypes, HandlersOK, Served
  <2>2. /\ r.secret # None /\ r.secret = req[w].code
        /\ row' = [row EXCEPT ![w] = r]
        /\ UNCHANGED <<users, req>> /\ pc'[w] = "proven"
    BY <1>3 DEF CheckCode, CodeAccepted, Goto, Return, LoginTypes, HandlersOK
  <2>3. row'[w] = r
    BY <2>2 DEF LoginTypes, HandlersOK
  <2>4. r # NoUser
    BY <2>2, EmptyValues
  <2> QED BY <2>2, <2>3, <2>4
<1>4. CASE /\ pc'[w] = pc[w] /\ req'[w] = req[w] /\ row'[w] = row[w]
           /\ w \in overtaken => w \in overtaken'
  <2> DEFINE e == req[w].email
  <2>1. e \in Emails
    BY <1>4 DEF LoginTypes, HandlersOK, Served
  <2>2. /\ users[e] # NoUser /\ row[w].pw = users[e].pw
        /\ w \notin overtaken => row[w].secret = users[e].secret
        /\ pc[w] = "granted" => row[w].pw = req[w].pw
        /\ pc[w] = "proven" => row[w].secret # None /\ row[w].secret = req[w].code
    BY <1>4 DEF Current, Exists
  <2>3. users[e].pw # None
    BY <2>1, <2>2 DEF Accounts, Exists
  <2>4. users'[e].pw = users[e].pw /\ users'[e] # NoUser
    BY <1>1, <2>1, <2>2, <2>3, EmptyValues DEF AccountsKept, Exists
  <2>5. users'[e].secret = users[e].secret \/ w \in overtaken'
    <3>1. CASE \A d \in Emails : users'[d] \in {users[d], Cleared(users[d])}
      BY <2>1, <3>1, RowsKept DEF LoginTypes, StoresOK
    <3>2. ASSUME NEW v \in Workers, NEW n \in Emails, Enroll(v, n)
          PROVE  users'[e].secret = users[e].secret \/ w \in overtaken'
      <4>1. row[w] # NoUser
        BY <2>2, <2>3, EmptyValues
      <4>2. CASE e = n
        BY <3>2, <4>1, <4>2 DEF Enroll
      <4>3. CASE e # n
        BY <2>1, <3>2, <4>3 DEF Enroll, LoginTypes, StoresOK
      <4> QED BY <4>2, <4>3
    <3>3. ASSUME NEW v \in Workers, InsertUser(v), users' # users
          PROVE  users'[e].secret = users[e].secret
      BY <2>1, <2>2, <3>3, InsertStep DEF Exists
    <3> QED BY <3>1, <3>2, <3>3, UsersStep
  <2> QED BY <1>4, <2>2, <2>4, <2>5
<1> QED BY <1>2, <1>3, <1>4, ReadersStep

LEMMA LoginInvInit == Init => LoginInv
  BY LoginInit, EmptyValues DEF Init, LoginInv, Accounts, Current, Exists

LEMMA LoginInvStep == LoginInv /\ [Next]_vars => LoginInv'
  BY LoginTypesStep, AccountsStep, CurrentStep DEF LoginInv

\* Whatever registrations, logins and enrolments race for one address or one phone,
\* an account keeps its phone and password, and a phone belongs to one account.
THEOREM RegistrationsNeverMerge == Spec => AccountsAreKept
<1>1. LoginInv /\ [Next]_vars => [AccountsKept]_vars
  BY AccountsStep DEF LoginInv
<1> QED BY <1>1, LoginInvInit, LoginInvStep, PTL DEF Spec, AccountsAreKept, AccountsKept

LEMMA SessionsStep ==
  ASSUME LoginInv, [Next]_vars, NEW s \in sessions' \ sessions
  PROVE  \E w \in Workers :
            /\ req[w].email = s.user
            /\ \/ w \in overtaken
               \/ ~ s.mfa /\ users[s.user].secret = None /\ req[w].pw = users[s.user].pw
               \/ s.mfa /\ users[s.user].secret # None /\ users[s.user].secret = req[w].code
<1> USE DEF redis, history
<1>1. \E w \in Workers : GrantLogin(w) \/ GrantVerified(w)
  BY DEF Next, vars, Arrive, Register, Login, Verify, Enroll, Step, RejectBreached, SelectExisting,
         InsertUser, CheckPassword, Rollback, CountAttempt, SetTtl, CheckCode, Fail,
         ExpireCounter, ExpireToken
<1>2. ASSUME NEW w \in Workers, GrantLogin(w)
      PROVE  /\ req[w].email = s.user
             /\ w \in overtaken \/ (~ s.mfa /\ users[s.user].secret = None
                                    /\ req[w].pw = users[s.user].pw)
  <2>1. pc[w] = "granted" /\ row[w].secret = None /\ NewSession(req[w].email, FALSE)
    BY <1>2 DEF GrantLogin
  <2>2. s.user = req[w].email /\ ~ s.mfa
    BY <2>1 DEF NewSession
  <2> QED BY <2>1, <2>2 DEF LoginInv, Current
<1>3. ASSUME NEW w \in Workers, GrantVerified(w)
      PROVE  /\ req[w].email = s.user
             /\ w \in overtaken \/ (s.mfa /\ users[s.user].secret # None
                                    /\ users[s.user].secret = req[w].code)
  <2>1. pc[w] = "proven" /\ NewSession(req[w].email, TRUE)
    BY <1>3 DEF GrantVerified
  <2>2. s.user = req[w].email /\ s.mfa
    BY <2>1 DEF NewSession
  <2> QED BY <2>1, <2>2 DEF LoginInv, Current
<1> QED BY <1>1, <1>2, <1>3

\* A session is earned by what the user's row says when it starts: without a second
\* factor only if none is enrolled, with one only by a code of the current secret;
\* an enrolment that overtakes the handler is the one exception.
THEOREM SessionsAreEarned == Spec => SessionsEarned
<1>1. LoginInv /\ [Next]_vars =>
        [\A s \in sessions' \ sessions : \E w \in Workers :
            /\ req[w].email = s.user
            /\ \/ w \in overtaken
               \/ ~ s.mfa /\ users[s.user].secret = None /\ req[w].pw = users[s.user].pw
               \/ s.mfa /\ users[s.user].secret # None /\ users[s.user].secret = req[w].code]_vars
  BY SessionsStep
<1> QED BY <1>1, LoginInvInit, LoginInvStep, PTL DEF Spec, SessionsEarned

-----------------------------------------------------------------------------
(* AuthLogin: the attempt counter *)

\* What was let through under a key is what its counter says, up to the limit.
Counted ==
    \A k \in RateKeys : admitted[k] = IF counter[k] < MaxAttempts THEN counter[k] ELSE MaxAttempts

\* A counter that is not 0 goes away again.
WillExpire(k) == k \in ttl \/ k \in orphaned \/ \E w \in Workers : pc[w] = "ttl" /\ RateKey(w) = k

LEMMA CountedStep == LoginTypes /\ Counted /\ [Next]_vars => Counted'
<1> SUFFICES ASSUME LoginTypes, Counted, [Next]_vars PROVE Counted'
  OBVIOUS
<1> USE DEF redis, history
<1>1. CASE UNCHANGED <<counter, admitted>>
  BY <1>1 DEF Counted
<1>2. ASSUME NEW w \in Workers, CountAttempt(w) PROVE Counted'
  <2> DEFINE k == RateKey(w)
  <2>1. k \in RateKeys
    BY <1>2, RateKeyType DEF CountAttempt, LoginTypes
  <2>2. /\ counter' = [counter EXCEPT ![k] = counter[k] + 1]
        /\ admitted' = [admitted EXCEPT ![k] = @ + (IF counter[k] + 1 > MaxAttempts THEN 0 ELSE 1)]
    BY <1>2 DEF CountAttempt
  <2> HIDE DEF k
  <2>3. /\ counter'[k] = counter[k] + 1
        /\ admitted'[k] = admitted[k] + (IF counter[k] + 1 > MaxAttempts THEN 0 ELSE 1)
        /\ \A x \in RateKeys \ {k} : counter'[x] = counter[x] /\ admitted'[x] = admitted[x]
        /\ counter[k] \in Nat
    BY <2>1, <2>2 DEF LoginTypes, StoresOK
  <2>4. admitted'[k] = IF counter'[k] < MaxAttempts THEN counter'[k] ELSE MaxAttempts
    BY <2>1, <2>3, BoundAssumption DEF Counted
  <2> QED BY <2>3, <2>4 DEF Counted
<1>3. ASSUME NEW k \in RateKeys, ExpireCounter(k) PROVE Counted'
  BY <1>3, BoundAssumption DEF ExpireCounter, Counted, LoginTypes, StoresOK
<1>4. UNCHANGED <<counter, admitted>> \/ (\E w \in Workers : CountAttempt(w))
      \/ (\E k \in RateKeys : ExpireCounter(k))
  BY DEF Next, vars, Arrive, Register, Login, Verify, Enroll, Step, RejectBreached, SelectExisting,
         InsertUser, CheckPassword, Rollback, GrantLogin, SetTtl, CheckCode, GrantVerified, Fail,
         ExpireToken
<1> QED BY <1>1, <1>2, <1>3, <1>4

\* Only the handler that set out to give a key its TTL leaves that step, and then
\* the key has it, or is orphaned.
LEMMA ExpiryStep ==
  LoginTypes /\ (\A k \in RateKeys : counter[k] > 0 => WillExpire(k)) /\ [Next]_vars
    => \A k \in RateKeys : counter'[k] > 0 => WillExpire(k)'
<1> SUFFICES ASSUME LoginTypes, \A k \in RateKeys : counter[k] > 0 => WillExpire(k), [Next]_vars,
                    NEW k \in RateKeys, counter'[k] > 0
             PROVE  WillExpire(k)'
  OBVIOUS
<1> USE DEF redis, history
<1>1. ASSUME counter'[k] = counter[k], ttl \subseteq ttl', orphaned \subseteq orphaned',
             \A w \in Workers : pc[w] = "ttl" => \/ pc'[w] = "ttl" /\ req'[w] = req[w]
                                                \/ RateKey(w) \in ttl' \cup orphaned'
      PROVE  WillExpire(k)'
  BY <1>1 DEF WillExpire, RateKey
<1>2. ASSUME NEW w \in Workers, pc[w] # "ttl", UNCHANGED <<counter, ttl, orphaned>>,
             \A v \in Workers \ {w} : pc'[v] = pc[v] /\ req'[v] = req[v]
      PROVE  WillExpire(k)'
  BY <1>1, <1>2
<1>3. ASSUME NEW w \in Workers, Return(w) \/ \E place \in Places : Goto(w, place) /\ UNCHANGED req
      PROVE  \A v \in Workers \ {w} : pc'[v] = pc[v] /\ req'[v] = req[v]
  BY <1>3 DEF Return, Goto, LoginTypes, HandlersOK
<1>4. ASSUME NEW w \in Workers, Arrive(w) PROVE WillExpire(k)'
  BY <1>2, <1>4 DEF Arrive, Register, Login, Verify, Enroll, Start, Goto, handler,
                    LoginTypes, HandlersOK
<1>5. ASSUME NEW w \in Workers,
             \/ RejectBreached(w) \/ SelectExisting(w) \/ InsertUser(w) \/ CheckPassword(w)
             \/ Rollback(w) \/ GrantLogin(w) \/ CheckCode(w) \/ GrantVerified(w)
      PROVE  WillExpire(k)'
  <2>1. pc[w] # "ttl" /\ UNCHANGED <<counter, ttl, orphaned>>
    BY <1>5 DEF RejectBreached, SelectExisting, InsertUser, CheckPassword, Rollback, GrantLogin,
                CheckCode, GrantVerified
  <2>2. Return(w) \/ \E place \in Places : Goto(w, place) /\ UNCHANGED req
    BY <1>5 DEF RejectBreached, SelectExisting, InsertUser, CheckPassword, Rollback, GrantLogin,
                CheckCode, GrantVerified, Places
  <2> QED BY <1>2, <1>3, <2>1, <2>2
<1>6. ASSUME NEW w \in Workers, CountAttempt(w) PROVE WillExpire(k)'
  <2>1. /\ pc[w] = "incr" /\ UNCHANGED <<ttl, orphaned>> /\ RateKey(w) \in RateKeys
        /\ Return(w) \/ \E place \in Places : Goto(w, place) /\ UNCHANGED req
    BY <1>6, RateKeyType DEF CountAttempt, Places, LoginTypes
  <2>2. \A v \in Workers \ {w} : pc'[v] = pc[v] /\ req'[v] = req[v]
    BY <1>3, <2>1
  <2>3. CASE counter'[k] = counter[k]
    BY <1>1, <2>1, <2>2, <2>3
  <2>4. CASE counter'[k] # counter[k]
    <3>1. k = RateKey(w) /\ counter'[k] = counter[k] + 1 /\ counter[k] \in Nat
      BY <1>6, <2>1, <2>4 DEF CountAttempt, LoginTypes, StoresOK
    <3>2. CASE counter[k] = 0
      <4>1. pc'[w] = "ttl" /\ req'[w] = req[w]
        BY <1>6, <3>1, <3>2, BoundAssumption DEF CountAttempt, Goto, LoginTypes, HandlersOK
      <4> QED BY <3>1, <4>1 DEF WillExpire, RateKey
    <3>3. CASE counter[k] > 0
      BY <2>1, <2>2, <3>3 DEF WillExpire, RateKey
    <3> QED BY <3>1, <3>2, <3>3
  <2> QED BY <2>3, <2>4
<1>7. ASSUME NEW w \in Workers, SetTtl(w) \/ Fail(w) PROVE WillExpire(k)'
  <2>1. Return(w) \/ \E place \in Places : Goto(w, place) /\ UNCHANGED req
    BY <1>7 DEF SetTtl, Fail, Places
  <2>2. \A v \in Workers \ {w} : pc'[v] = pc[v] /\ req'[v] = req[v]
    BY <1>3, <2>1
  <2>3. /\ UNCHANGED counter /\ ttl \subseteq ttl' /\ orphaned \subseteq orphaned'
        /\ pc[w] = "ttl" => RateKey(w) \in ttl' \cup orphaned'
    BY <1>7 DEF SetTtl, Fail
  <2> QED BY <1>1, <2>2, <2>3
<1>8. ASSUME NEW x \in RateKeys, ExpireCounter(x) PROVE WillExpire(k)'
  <2>1. k # x
    BY <1>8 DEF ExpireCounter, LoginTypes, StoresOK
  <2> QED BY <1>8, <2>1 DEF ExpireCounter, WillExpire, RateKey, handler, LoginTypes, StoresOK
<1>9. ASSUME UNCHANGED vars \/ \E t \in tokens : ExpireToken(t) PROVE WillExpire(k)'
  BY <1>1, <1>9 DEF vars, handler, ExpireToken
<1> QED BY <1>4, <1>5, <1>6, <1>7, <1>8, <1>9 DEF Next, Step

\* However many handlers of all replicas count attempts under one key, no more than
\* the limit are let through while its counter lives, and it does not live forever
\* unless a handler died before its EXPIRE.
THEOREM AttemptsAreThrottled == Spec => []AttemptsThrottled
<1> DEFINE Inv == LoginTypes /\ Counted /\ \A k \in RateKeys : counter[k] > 0 => WillExpire(k)
<1>1. Init => Inv
  BY LoginInit, BoundAssumption DEF Init, Counted
<1>2. Inv /\ [Next]_vars => Inv'
  BY LoginTypesStep, CountedStep, ExpiryStep
<1>3. Inv => AttemptsThrottled
  BY BoundAssumption DEF LoginTypes, StoresOK, Counted, AttemptsThrottled, WillExpire
<1> QED BY <1>1, <1>2, <1>3, PTL DEF Spec

-----------------------------------------------------------------------------
(* JwksCache *)

\* Every key set on its way from a key ring to a cache is one that was published.
Published ==
    /\ \A r \in Issuers : Jwks(ring[r]) \in published
    /\ \A h \in Handlers : stage[h] = "apply" => got[h] \in published

KeyInv == JwksTypeOK /\ Published /\ CacheIsOneRing

-----------------------------------------------------------------------------
(* Operators *)

\* What a key ring publishes is a set of kids.
LEMMA JwksType == ASSUME NEW g \in Rings PROVE Jwks(g) \subseteq Kids
  BY KeyAssumption DEF Rings, Jwks, Kids

\* Kids are positive numbers, and the first is one.
LEMMA KidsType == 1 \in Kids /\ \A n \in Kids : n \in Nat /\ (n < MaxKeys => n + 1 \in Kids)
  BY KeyAssumption DEF Kids

-----------------------------------------------------------------------------
(* Types *)

LEMMA JwksTypeInit == JwksInit => JwksTypeOK
  BY KidsType DEF JwksInit, JwksTypeOK, Rings, SignedTokens, NoToken

LEMMA JwksTypeStep == JwksTypeOK /\ [JwksNext]_jwksVars => JwksTypeOK'
<1> SUFFICES ASSUME JwksTypeOK, [JwksNext]_jwksVars PROVE JwksTypeOK'
  OBVIOUS
<1> USE DEF JwksTypeOK, verification, keys
<1>1. ASSUME NEW r \in Issuers, LoadFromVault(r) PROVE JwksTypeOK'
  <2>1. Jwks(vault) \in SUBSET Kids
    BY JwksType
  <2>2. published' \subseteq SUBSET Kids
    BY <1>1, <2>1 DEF LoadFromVault
  <2>3. ring' \in [Issuers -> Rings]
    BY <1>1 DEF LoadFromVault
  <2> QED BY <1>1, <2>2, <2>3 DEF LoadFromVault
<1>2. ASSUME NEW r \in Issuers, BootstrapLocal(r) PROVE JwksTypeOK'
  <2>1. drawn + 1 \in Kids /\ [active |-> drawn + 1, previous |-> NoKid] \in Rings
    BY <1>2, KidsType DEF BootstrapLocal, Rings
  <2> QED BY <1>2, <2>1 DEF BootstrapLocal
<1>3. ASSUME NEW r \in Issuers, NEW typ \in Types, Issue(r, typ) PROVE JwksTypeOK'
  <2>1. [kid |-> ring[r].active, signer |-> ring[r].active, typ |-> typ] \in SignedTokens
    BY <1>3 DEF Rings, SignedTokens
  <2> QED BY <1>3, <2>1 DEF Issue
<1>4. ASSUME RotateVault PROVE JwksTypeOK'
  <2>1. drawn + 1 \in Kids /\ [active |-> drawn + 1, previous |-> vault.active] \in Rings
    BY <1>4, KidsType DEF RotateVault, Rings
  <2> QED BY <1>4, <2>1 DEF RotateVault
<1>5. ASSUME NEW t \in issued, ExpireIssued(t) PROVE JwksTypeOK'
  BY <1>5 DEF ExpireIssued
<1>6. ASSUME NEW h \in Handlers, NEW t \in issued \cup Forged, Receive(h, t) PROVE JwksTypeOK'
  <2>1. t \in SignedTokens
    BY DEF Forged, SignedTokens, Types
  <2> QED BY <1>6, <2>1 DEF Receive
<1>7. ASSUME NEW h \in Handlers, Lookup(h) PROVE JwksTypeOK'
  BY <1>7 DEF Lookup, Decided, Decode
<1>8. ASSUME NEW h \in Handlers, Reply(h) \/ FetchFails(h) PROVE JwksTypeOK'
  BY <1>8 DEF Reply, FetchFails, Decided
<1>9. ASSUME NEW h \in Handlers, NEW r \in Issuers, Fetch(h, r) PROVE JwksTypeOK'
  BY <1>9, JwksType DEF Fetch
<1>10. ASSUME NEW h \in Handlers, Apply(h) PROVE JwksTypeOK'
  <2>1. got[h] \in SUBSET Kids
    OBVIOUS
  <2>2. cache' \in [Verifiers -> SUBSET Kids] /\ fresh' \in [Verifiers -> BOOLEAN]
    BY <1>10, <2>1 DEF Apply
  <2> QED BY <1>10, <2>2 DEF Apply, Decided, Decode
<1>11. ASSUME NEW v \in Verifiers, ExpireCache(v) PROVE JwksTypeOK'
  BY <1>11 DEF ExpireCache
<1>12. CASE UNCHANGED jwksVars
  BY <1>12 DEF jwksVars
<1> QED
  BY <1>1, <1>2, <1>3, <1>4, <1>5, <1>6, <1>7, <1>8, <1>9, <1>10, <1>11, <1>12
  DEF JwksNext, VerifyStep

\* Every variable keeps its type.
THEOREM JwksTypeCorrect == JwksSpec => []JwksTypeOK
  BY JwksTypeInit, JwksTypeStep, PTL DEF JwksSpec

-----------------------------------------------------------------------------
(* The cache *)

LEMMA KeyInit == JwksInit => KeyInv
<1> SUFFICES ASSUME JwksInit PROVE KeyInv
  OBVIOUS
<1>1. Jwks([active |-> 1, previous |-> NoKid]) = {1}
  BY KeyAssumption, KidsType DEF Jwks
<1> QED BY <1>1, JwksTypeInit DEF JwksInit, KeyInv, Published, CacheIsOneRing

\* A published key set stays published; a cache changes only in Apply, to a
\* set that Fetch took from a ring.
LEMMA KeyStep == KeyInv /\ [JwksNext]_jwksVars => KeyInv'
<1> SUFFICES ASSUME KeyInv, [JwksNext]_jwksVars PROVE Published' /\ CacheIsOneRing'
  BY JwksTypeStep DEF KeyInv
<1> USE DEF KeyInv, JwksTypeOK, Published, CacheIsOneRing, verification, keys
<1>1. ASSUME NEW r \in Issuers, LoadFromVault(r) PROVE Published' /\ CacheIsOneRing'
  BY <1>1 DEF LoadFromVault, Jwks
<1>2. ASSUME NEW r \in Issuers, BootstrapLocal(r) PROVE Published' /\ CacheIsOneRing'
  <2> DEFINE g == [active |-> drawn + 1, previous |-> NoKid]
  <2>1. drawn + 1 \in Kids
    BY <1>2, KidsType DEF BootstrapLocal
  <2>2. Jwks(g) = {drawn + 1}
    BY <2>1, KeyAssumption DEF Jwks
  <2>3. ring'[r] = g /\ \A x \in Issuers \ {r} : ring'[x] = ring[x]
    BY <1>2 DEF BootstrapLocal
  <2>4. Jwks(ring'[r]) = {drawn + 1} /\ \A x \in Issuers \ {r} : ring'[x] = ring[x]
    BY <2>2, <2>3
  <2>5. \A x \in Issuers : Jwks(ring'[x]) \in published'
    BY <1>2, <2>4 DEF BootstrapLocal
  <2>6. \A x \in Issuers : Jwks(ring[x])' \in published'
    BY <2>5 DEF Jwks
  <2> QED BY <1>2, <2>6 DEF BootstrapLocal
<1>3. ASSUME UNCHANGED <<ring, published, cache, got>>,
             \A h \in Handlers : stage'[h] = "apply" => stage[h] = "apply"
      PROVE Published' /\ CacheIsOneRing'
  BY <1>3 DEF Jwks
<1>4. ASSUME NEW r \in Issuers, NEW typ \in Types, Issue(r, typ)
      PROVE Published' /\ CacheIsOneRing'
  BY <1>3, <1>4 DEF Issue
<1>5. ASSUME RotateVault \/ (\E t \in issued : ExpireIssued(t)) \/ UNCHANGED jwksVars
      PROVE Published' /\ CacheIsOneRing'
  BY <1>3, <1>5 DEF RotateVault, ExpireIssued, jwksVars
<1>6. ASSUME NEW h \in Handlers, NEW t \in issued \cup Forged, Receive(h, t)
      PROVE Published' /\ CacheIsOneRing'
  BY <1>3, <1>6 DEF Receive
<1>7. ASSUME NEW h \in Handlers, Lookup(h) \/ Reply(h) \/ FetchFails(h)
      PROVE Published' /\ CacheIsOneRing'
  <2>1. /\ UNCHANGED <<ring, published, cache>>
        /\ \A x \in Handlers : stage'[x] = "apply" => stage[x] = "apply" /\ got'[x] = got[x]
    BY <1>7 DEF Lookup, Reply, FetchFails, Decided, Decode
  <2> QED BY <2>1 DEF Jwks
<1>8. ASSUME NEW h \in Handlers, NEW r \in Issuers, Fetch(h, r)
      PROVE Published' /\ CacheIsOneRing'
  BY <1>8 DEF Fetch, Jwks
<1>9. ASSUME NEW h \in Handlers, Apply(h) PROVE Published' /\ CacheIsOneRing'
  <2>1. /\ UNCHANGED <<ring, published>>
        /\ \A x \in Handlers : stage'[x] = "apply" => stage[x] = "apply" /\ got'[x] = got[x]
    BY <1>9 DEF Apply, Decided, Decode
  <2>2. CacheIsOneRing'
    BY <1>9 DEF Apply
  <2> QED BY <2>1, <2>2 DEF Jwks
<1>10. ASSUME NEW v \in Verifiers, ExpireCache(v) PROVE Published' /\ CacheIsOneRing'
  BY <1>3, <1>10 DEF ExpireCache
<1> QED
  BY <1>1, <1>2, <1>4, <1>5, <1>6, <1>7, <1>8, <1>9, <1>10 DEF JwksNext, VerifyStep

\* However the fetches of a process overlap, its cache is the key set of one
\* replica at one moment.
THEOREM CacheConsistent == JwksSpec => []CacheIsOneRing
<1>1. KeyInv => CacheIsOneRing
  BY DEF KeyInv
<1> QED BY <1>1, KeyInit, KeyStep, PTL DEF JwksSpec

-----------------------------------------------------------------------------
(* Retired keys *)

\* A key in reach is in a cache that is fresh or in an answer about to be applied.
LEMMA ReachMember ==
  ASSUME NEW v
  PROVE  \A k : k \in Reach(v) <=> \/ fresh[v] /\ k \in cache[v]
                                  \/ \E h \in Handlers : VerifierOf[h] = v /\ k \in got[h]
  BY ZenonT(30) DEF Reach

LEMMA ReachMemberPrime ==
  ASSUME NEW v
  PROVE  \A k : k \in Reach(v)' <=> \/ fresh'[v] /\ k \in cache'[v]
                                   \/ \E h \in Handlers : VerifierOf[h] = v /\ k \in got'[h]
  BY ZenonT(30) DEF Reach

\* Only Fetch brings a key into a verifier's reach, and it takes it from a ring.
LEMMA ReachStep ==
  ASSUME JwksTypeOK, JwksNext, NEW v \in Verifiers
  PROVE  (Retired \ Reach(v)) \cap Reach(v)' = {}
<1> USE DEF JwksTypeOK, verification, keys
<1>1. ASSUME cache'[v] = cache[v], fresh'[v] => fresh[v],
             \A h \in Handlers : got'[h] \subseteq got[h]
      PROVE  Reach(v)' \subseteq Reach(v)
  BY <1>1, ReachMember, ReachMemberPrime
<1>2. ASSUME NEW r \in Issuers, LoadFromVault(r) \/ BootstrapLocal(r)
      PROVE Reach(v)' \subseteq Reach(v)
  BY <1>1, <1>2 DEF LoadFromVault, BootstrapLocal
<1>3. ASSUME NEW r \in Issuers, NEW typ \in Types, Issue(r, typ)
      PROVE Reach(v)' \subseteq Reach(v)
  BY <1>1, <1>3 DEF Issue
<1>4. ASSUME RotateVault \/ \E t \in issued : ExpireIssued(t)
      PROVE Reach(v)' \subseteq Reach(v)
  BY <1>1, <1>4 DEF RotateVault, ExpireIssued
<1>5. ASSUME NEW h \in Handlers, NEW t \in issued \cup Forged, Receive(h, t)
      PROVE Reach(v)' \subseteq Reach(v)
  BY <1>1, <1>5 DEF Receive
<1>6. ASSUME NEW h \in Handlers, Lookup(h) \/ Reply(h) \/ FetchFails(h)
      PROVE Reach(v)' \subseteq Reach(v)
  BY <1>1, <1>6 DEF Lookup, Reply, FetchFails, Decided
<1>7. ASSUME NEW u \in Verifiers, ExpireCache(u) PROVE Reach(v)' \subseteq Reach(v)
  BY <1>1, <1>7 DEF ExpireCache
<1>8. ASSUME NEW h \in Handlers, Apply(h) PROVE Reach(v)' \subseteq Reach(v)
  <2>1. VerifierOf[h] \in Verifiers
    BY VerifierAssumption
  <2>2. \A x \in Handlers : got'[x] \subseteq got[x]
    BY <1>8 DEF Apply, Decided
  <2>3. CASE VerifierOf[h] = v
    <3>1. cache'[v] = got[h]
      BY <1>8, <2>1, <2>3 DEF Apply
    <3> QED BY <1>8, <2>2, <2>3, <3>1, ReachMember, ReachMemberPrime DEF Apply
  <2>4. CASE VerifierOf[h] # v
    BY <1>1, <1>8, <2>1, <2>2, <2>4 DEF Apply
  <2> QED BY <2>3, <2>4
<1>9. ASSUME NEW h \in Handlers, NEW r \in Issuers, Fetch(h, r)
      PROVE Reach(v)' \subseteq Reach(v) \cup Jwks(ring[r])
  <2>1. got'[h] = Jwks(ring[r]) /\ \A x \in Handlers \ {h} : got'[x] = got[x]
    BY <1>9 DEF Fetch
  <2>2. UNCHANGED <<cache, fresh>>
    BY <1>9 DEF Fetch
  <2>3. ASSUME NEW k, k \in Reach(v)' PROVE k \in Reach(v) \/ k \in Jwks(ring[r])
    <3>1. CASE fresh'[v] /\ k \in cache'[v]
      BY <2>2, <3>1, ReachMember
    <3>2. CASE \E x \in Handlers : VerifierOf[x] = v /\ k \in got'[x]
      <4>1. PICK x \in Handlers : VerifierOf[x] = v /\ k \in got'[x]
        BY <3>2
      <4>2. CASE x = h
        BY <2>1, <4>1, <4>2
      <4>3. CASE x # h
        BY <2>1, <4>1, <4>3, ReachMember
      <4> QED BY <4>2, <4>3
    <3> QED BY <2>3, <3>1, <3>2, ReachMemberPrime
  <2> QED BY <2>3
<1>10. \/ Reach(v)' \subseteq Reach(v)
       \/ \E r \in Issuers : Reach(v)' \subseteq Reach(v) \cup Jwks(ring[r])
  BY <1>2, <1>3, <1>4, <1>5, <1>6, <1>7, <1>8, <1>9 DEF JwksNext, VerifyStep
<1> QED BY <1>10 DEF Retired

\* The two ways to an accepted token decode it with a key in reach.
LEMMA AcceptStep ==
  ASSUME JwksTypeOK, JwksNext, NEW h \in Handlers, stage[h] # "accepted", stage'[h] = "accepted"
  PROVE  /\ token[h] \in issued /\ token[h].signer = token[h].kid
         /\ token[h].kid \in Reach(VerifierOf[h])
         /\ VerifierOf[h] \in TypChecked => token[h].typ = "access"
<1> USE DEF JwksTypeOK, verification, keys
<1>1. ASSUME NEW x \in Handlers, \/ Reply(x) \/ FetchFails(x) \/ (\E r \in Issuers : Fetch(x, r))
                                 \/ (\E t \in issued \cup Forged : Receive(x, t))
      PROVE FALSE
  BY <1>1 DEF Reply, FetchFails, Fetch, Receive, Decided
<1>2. ASSUME UNCHANGED stage PROVE FALSE
  BY <1>2
<1>3. \E x \in Handlers : Lookup(x) \/ Apply(x)
  BY <1>1, <1>2 DEF JwksNext, VerifyStep, LoadFromVault, BootstrapLocal, Issue, RotateVault,
                    ExpireIssued, ExpireCache
<1>4. PICK x \in Handlers : Lookup(x) \/ Apply(x)
  BY <1>3
<1>5. x = h
  BY <1>4 DEF Lookup, Apply, Decided
<1>6. CASE Lookup(h)
  <2>1. /\ fresh[VerifierOf[h]] /\ token[h].kid \in cache[VerifierOf[h]]
        /\ Decode(h) = "accepted"
    <3> DEFINE hit == fresh[VerifierOf[h]] /\ token[h].kid \in cache[VerifierOf[h]]
    <3>1. hit
      BY <1>6 DEF Lookup
    <3>2. Decided(h, Decode(h))
      BY <1>6, <3>1 DEF Lookup
    <3> QED BY <3>1, <3>2 DEF Decided
  <2>2. token[h].kid \in Reach(VerifierOf[h])
    BY <2>1, ReachMember
  <2>3. /\ token[h] \in issued /\ token[h].signer = token[h].kid
        /\ VerifierOf[h] \in TypChecked => token[h].typ = "access"
    BY <2>1 DEF Decode
  <2> QED BY <2>2, <2>3
<1>7. CASE Apply(h)
  <2>1. token[h].kid \in got[h] /\ Decode(h) = "accepted"
    BY <1>7 DEF Apply, Decided
  <2>2. got[h] \subseteq Reach(VerifierOf[h])
    BY ReachMember
  <2>3. /\ token[h] \in issued /\ token[h].signer = token[h].kid
        /\ VerifierOf[h] \in TypChecked => token[h].typ = "access"
    BY <2>1 DEF Decode
  <2> QED BY <2>1, <2>2, <2>3
<1> QED BY <1>4, <1>5, <1>6, <1>7

\* A key that has left every ring, Vault and a verifier's reach never comes back
\* to it, and what a verifier accepts is signed with a key in its reach.
THEOREM RetiredStayRetired == JwksSpec => RetiredKeysStayOut
<1>1. JwksTypeOK /\ [JwksNext]_jwksVars =>
        [/\ \A v \in Verifiers : (Retired \ Reach(v)) \cap Reach(v)' = {}
         /\ \A h \in Handlers :
               stage[h] # "accepted" /\ stage'[h] = "accepted" =>
                  /\ token[h] \in issued /\ token[h].signer = token[h].kid
                  /\ token[h].kid \in Reach(VerifierOf[h])
                  /\ VerifierOf[h] \in TypChecked => token[h].typ = "access"]_jwksVars
  BY ReachStep, AcceptStep
<1> QED BY <1>1, JwksTypeInit, JwksTypeStep, PTL DEF JwksSpec, RetiredKeysStayOut
===============================================================================
