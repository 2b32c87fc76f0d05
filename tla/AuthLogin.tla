------------------------------- MODULE AuthLogin -------------------------------
(***************************************************************************)
(* auth-service: registration, password login, the failed-login counter,   *)
(* MFA enrolment and the second factor with its attempt counter in Redis.  *)
(* A request's SQL runs in one transaction; an exception, HTTPException    *)
(* too, rolls it back.  What a handler read from the user's row it keeps   *)
(* over its awaits.  Each replica has a key that signs tokens and one that *)
(* encrypts MFA secrets; without Vault they differ between replicas.       *)
(***************************************************************************)
EXTENDS Integers, FiniteSets

CONSTANTS Workers,      \* handler slots of all replicas
          ReplicaOf,    \* [Workers -> replicas], standing for the replica's keys
          Registrations,\* bodies of POST /register: email, phone, pw
          Breached,     \* passwords on the HIBP list
          RateKeyOf,    \* [replicas -> first 32 characters of its tokens]
          MaxFails,     \* 5, failed logins until the lock
          MaxAttempts,  \* 10, settings.mfa_verify_max_attempts
          MaxSecrets,   \* bound: enrolments
          MaxSessions,  \* bound: sessions created
          MaxVerifies,  \* bound: attempts counted under one key
          None

Replicas  == {ReplicaOf[w] : w \in Workers}
Emails    == {r.email : r \in Registrations}
Phones    == {r.phone : r \in Registrations}
Passwords == {r.pw : r \in Registrations}
Secrets   == 1 .. MaxSecrets
RateKeys  == {RateKeyOf[r] : r \in Replicas}

ASSUME BoundAssumption == MaxFails \in Nat \ {0} /\ MaxAttempts \in Nat \ {0}
                          /\ MaxSecrets \in Nat /\ MaxSessions \in Nat /\ MaxVerifies \in Nat
ASSUME NoneAssumption  == None \notin Passwords /\ None \notin Secrets

NoUser == [phone |-> None, pw |-> None, failed |-> 0, locked |-> FALSE,
           secret |-> None, under |-> None]
Rows   == [phone : Phones \cup {None}, pw : Passwords \cup {None}, failed : 0 .. MaxFails - 1,
           locked : BOOLEAN, secret : Secrets \cup {None}, under : Replicas \cup {None}]
Tokens == [typ : {"pre-auth", "access"}, sub : Emails, signer : Replicas]
NoRequest == [email |-> None, phone |-> None, pw |-> None, token |-> None, code |-> None]

VARIABLES
    users,          \* [Emails -> Rows], NoUser when there is no row
    tokens,         \* JWTs that clients hold and that have not expired
    sessions,       \* created in Redis: sid, user, mfa
    counter, ttl,   \* Redis mfa:verify:*: counts, and the keys that have a TTL
    secretsDrawn,   \* TOTP secrets drawn so far
    pc, req, row,   \* each handler: its request and the user row it read
    \* history, read only by the properties:
    wrong,          \* [Emails -> failed logins since the last good one, to MaxFails]
    admitted,       \* [RateKeys -> attempts let through since the count was 0]
    overtaken,      \* handlers whose user enrolled after they read the row
    orphaned        \* rate keys whose handler died between INCR and EXPIRE

handler == <<pc, req, row>>
redis   == <<sessions, counter, ttl>>
history == <<wrong, admitted, overtaken, orphaned>>
vars    == <<users, tokens, redis, secretsDrawn, handler, history>>

Exists(e)  == users[e] # NoUser
RateKey(w) == RateKeyOf[req[w].token.signer]

Init ==
    /\ users = [e \in Emails |-> NoUser]
    /\ tokens = {} /\ sessions = {} /\ ttl = {} /\ secretsDrawn = 0
    /\ counter = [k \in RateKeys |-> 0]
    /\ pc = [w \in Workers |-> "idle"]
    /\ req = [w \in Workers |-> NoRequest]
    /\ row = [w \in Workers |-> NoUser]
    /\ wrong = [e \in Emails |-> 0]
    /\ admitted = [k \in RateKeys |-> 0]
    /\ overtaken = {} /\ orphaned = {}

Goto(w, place) == pc' = [pc EXCEPT ![w] = place]

Start(w, place, r) ==
    /\ pc[w] = "idle"
    /\ Goto(w, place)
    /\ req' = [req EXCEPT ![w] = r]
    /\ UNCHANGED row

\* The answer, whatever its status: the handler's locals are gone.
Return(w) ==
    /\ Goto(w, "idle")
    /\ req' = [req EXCEPT ![w] = NoRequest]
    /\ row' = [row EXCEPT ![w] = NoUser]
    /\ overtaken' = overtaken \ {w}

-----------------------------------------------------------------------------
(* POST /register *)

\* A breached password is a 202 that does nothing, unless HIBP is unreachable.
Register(w, r) ==
    /\ Start(w, "select", [NoRequest EXCEPT !.email = r.email, !.phone = r.phone, !.pw = r.pw])
    /\ UNCHANGED <<users, tokens, redis, secretsDrawn, history>>

RejectBreached(w) ==
    /\ pc[w] = "select" /\ req[w].pw \in Breached
    /\ Return(w)
    /\ UNCHANGED <<users, tokens, redis, secretsDrawn, wrong, admitted, orphaned>>

\* by_email; an existing row gives the same 202.
SelectExisting(w) ==
    /\ pc[w] = "select"
    /\ IF Exists(req[w].email) THEN Return(w)
                               ELSE Goto(w, "insert") /\ UNCHANGED <<req, row, overtaken>>
    /\ UNCHANGED <<users, tokens, redis, secretsDrawn, wrong, admitted, orphaned>>

\* Fault: INSERT ... ON CONFLICT DO UPDATE.
UpsertUser(w) ==
    /\ pc[w] = "insert"
    /\ users' = [users EXCEPT ![req[w].email] =
                    [NoUser EXCEPT !.phone = req[w].phone, !.pw = req[w].pw]]
    /\ Return(w)
    /\ UNCHANGED <<tokens, redis, secretsDrawn, wrong, admitted, orphaned>>

\* The INSERT; email and phone are unique, a conflict is a 500.
InsertUser(w) ==
    /\ pc[w] = "insert"
    /\ LET r == req[w]
           conflict == Exists(r.email)
                       \/ (r.phone # None /\ \E e \in Emails : users[e].phone = r.phone)
       IN users' = IF conflict THEN users
                   ELSE [users EXCEPT ![r.email] = [NoUser EXCEPT !.phone = r.phone, !.pw = r.pw]]
    /\ Return(w)
    /\ UNCHANGED <<tokens, redis, secretsDrawn, wrong, admitted, orphaned>>

-----------------------------------------------------------------------------
(* POST /login *)

Login(w, e, pw) ==
    /\ Start(w, "login", [NoRequest EXCEPT !.email = e, !.pw = pw])
    /\ UNCHANGED <<users, tokens, redis, secretsDrawn, history>>

\* Fault: the comparison with the limit is strict.
AfterFailureLate(r) ==
    IF r.failed + 1 > MaxFails THEN [r EXCEPT !.failed = 0, !.locked = TRUE]
                               ELSE [r EXCEPT !.failed = @ + 1]

\* record_login_failure and clear_login_failures, on the row in the transaction.
AfterFailure(r) ==
    IF r.failed + 1 >= MaxFails THEN [r EXCEPT !.failed = 0, !.locked = TRUE]
                                ELSE [r EXCEPT !.failed = @ + 1]
Cleared(r) == [r EXCEPT !.failed = 0, !.locked = FALSE]

\* The select and the password check.  A wrong password writes the failure and
\* raises; no user is a 401, a lock a 423.
CheckPassword(w) ==
    /\ pc[w] = "login"
    /\ LET e == req[w].email
           r == users[e]
       IN \/ /\ ~ Exists(e)
             /\ Return(w) /\ UNCHANGED wrong
          \/ /\ Exists(e) /\ r.pw # req[w].pw
             /\ row' = [row EXCEPT ![w] = AfterFailure(r)]
             /\ Goto(w, "raise")
             /\ wrong' = [wrong EXCEPT ![e] = IF @ < MaxFails THEN @ + 1 ELSE @]
             /\ UNCHANGED <<req, overtaken>>
          \/ /\ Exists(e) /\ r.pw = req[w].pw
             /\ row' = [row EXCEPT ![w] = IF r.locked THEN r ELSE Cleared(r)]
             /\ Goto(w, IF r.locked THEN "raise" ELSE "granted")
             /\ wrong' = [wrong EXCEPT ![e] = 0]
             /\ UNCHANGED <<req, overtaken>>
    /\ UNCHANGED <<users, tokens, redis, secretsDrawn, admitted, orphaned>>

\* The HTTPException leaves the transaction: ROLLBACK, then the 401 or 423.
Rollback(w) ==
    /\ pc[w] = "raise"
    /\ Return(w)
    /\ UNCHANGED <<users, tokens, redis, secretsDrawn, wrong, admitted, orphaned>>

CommitCleared(w) ==
    users' = [users EXCEPT ![req[w].email] = Cleared(@)]

Token(w, typ) == [typ |-> typ, sub |-> req[w].email, signer |-> ReplicaOf[w]]

NewSession(e, mfa) ==
    /\ Cardinality(sessions) < MaxSessions
    /\ sessions' = sessions \cup {[sid |-> Cardinality(sessions) + 1, user |-> e, mfa |-> mfa]}

\* Fault: a secret that this replica cannot read counts as none.
GrantLoginUnreadable(w) ==
    /\ pc[w] = "granted"
    /\ IF row[w].secret # None /\ row[w].under = ReplicaOf[w]
          THEN tokens' = tokens \cup {Token(w, "pre-auth")} /\ UNCHANGED sessions
          ELSE tokens' = tokens \cup {Token(w, "access")} /\ NewSession(req[w].email, FALSE)
    /\ CommitCleared(w)
    /\ Return(w)
    /\ UNCHANGED <<counter, ttl, secretsDrawn, wrong, admitted, orphaned>>

\* The row that was read decides: a pre-auth token, or a session and its tokens.
\* The COMMIT writes the two columns that were cleared.
GrantLogin(w) ==
    /\ pc[w] = "granted"
    /\ IF row[w].secret # None
          THEN tokens' = tokens \cup {Token(w, "pre-auth")} /\ UNCHANGED sessions
          ELSE tokens' = tokens \cup {Token(w, "access")} /\ NewSession(req[w].email, FALSE)
    /\ CommitCleared(w)
    /\ Return(w)
    /\ UNCHANGED <<counter, ttl, secretsDrawn, wrong, admitted, orphaned>>

-----------------------------------------------------------------------------
(* POST /mfa/verify and /mfa/enroll *)

Verify(w, t, code) ==
    /\ Start(w, "incr", [NoRequest EXCEPT !.email = t.sub, !.token = t, !.code = code])
    /\ UNCHANGED <<users, tokens, redis, secretsDrawn, history>>

\* Fault: the limit is one too many.
CountAttemptOffByOne(w) ==
    /\ pc[w] = "incr"
    /\ LET k == RateKey(w)  cnt == counter[k] + 1 IN
          /\ cnt <= MaxVerifies
          /\ counter' = [counter EXCEPT ![k] = cnt]
          /\ admitted' = [admitted EXCEPT ![k] = @ + (IF cnt > MaxAttempts + 1 THEN 0 ELSE 1)]
          /\ IF cnt > MaxAttempts + 1 THEN Return(w)
             ELSE /\ Goto(w, IF cnt = 1 THEN "ttl" ELSE "code")
                  /\ UNCHANGED <<req, row, overtaken>>
    /\ UNCHANGED <<users, tokens, sessions, ttl, secretsDrawn, wrong, orphaned>>

\* INCR; the first attempt goes on to EXPIRE, one over the limit is a 429.
CountAttempt(w) ==
    /\ pc[w] = "incr"
    /\ LET k == RateKey(w)  cnt == counter[k] + 1 IN
          /\ cnt <= MaxVerifies
          /\ counter' = [counter EXCEPT ![k] = cnt]
          /\ admitted' = [admitted EXCEPT ![k] = @ + (IF cnt > MaxAttempts THEN 0 ELSE 1)]
          /\ IF cnt > MaxAttempts THEN Return(w)
             ELSE /\ Goto(w, IF cnt = 1 THEN "ttl" ELSE "code")
                  /\ UNCHANGED <<req, row, overtaken>>
    /\ UNCHANGED <<users, tokens, sessions, ttl, secretsDrawn, wrong, orphaned>>

SetTtl(w) ==
    /\ pc[w] = "ttl"
    /\ ttl' = ttl \cup {RateKey(w)}
    /\ Goto(w, "code")
    /\ UNCHANGED <<users, tokens, sessions, counter, secretsDrawn, req, row, history>>

\* The token must be a pre-auth token of this replica's key and the secret one
\* that this replica's key encrypted (an undecryptable one is a 500).
CodeAccepted(w) ==
    LET t == req[w].token  r == users[req[w].email] IN
    /\ t \in tokens /\ t.signer = ReplicaOf[w] /\ t.typ = "pre-auth"
    /\ r.secret # None /\ r.under = ReplicaOf[w] /\ r.secret = req[w].code

CheckCode(w) ==
    /\ pc[w] = "code"
    /\ IF CodeAccepted(w)
          THEN /\ row' = [row EXCEPT ![w] = users[req[w].email]]
               /\ Goto(w, "proven") /\ UNCHANGED <<req, overtaken>>
          ELSE Return(w)
    /\ UNCHANGED <<users, tokens, redis, secretsDrawn, wrong, admitted, orphaned>>

\* The session and its tokens; nothing to commit.
GrantVerified(w) ==
    /\ pc[w] = "proven"
    /\ NewSession(req[w].email, TRUE)
    /\ tokens' = tokens \cup {Token(w, "access")}
    /\ Return(w)
    /\ UNCHANGED <<users, counter, ttl, secretsDrawn, wrong, admitted, orphaned>>

\* A new secret replaces the old one, without a code of either; the row is read
\* and written in one transaction.
Enroll(w, e) ==
    /\ pc[w] = "idle" /\ Exists(e)
    /\ secretsDrawn < MaxSecrets
    /\ secretsDrawn' = secretsDrawn + 1
    /\ users' = [users EXCEPT ![e].secret = secretsDrawn + 1, ![e].under = ReplicaOf[w]]
    /\ overtaken' = overtaken \cup {v \in Workers : row[v] # NoUser /\ req[v].email = e}
    /\ UNCHANGED <<tokens, redis, handler, wrong, admitted, orphaned>>

-----------------------------------------------------------------------------
(* TTLs and crashes *)

ExpireCounter(k) ==
    /\ k \in ttl
    /\ ttl' = ttl \ {k}
    /\ counter' = [counter EXCEPT ![k] = 0]
    /\ admitted' = [admitted EXCEPT ![k] = 0]
    /\ UNCHANGED <<users, tokens, sessions, secretsDrawn, handler, wrong, overtaken, orphaned>>

ExpireToken(t) ==
    /\ tokens' = tokens \ {t}
    /\ UNCHANGED <<users, redis, secretsDrawn, handler, history>>

\* The pod dies, or the database or Redis fails: a 500 and a rollback.
Fail(w) ==
    /\ pc[w] # "idle"
    /\ orphaned' = orphaned \cup (IF pc[w] = "ttl" THEN {RateKey(w)} ELSE {})
    /\ Return(w)
    /\ UNCHANGED <<users, tokens, redis, secretsDrawn, wrong, admitted>>

-----------------------------------------------------------------------------
Step(w) ==
    \/ RejectBreached(w) \/ SelectExisting(w) \/ InsertUser(w)
    \/ CheckPassword(w) \/ Rollback(w) \/ GrantLogin(w)
    \/ CountAttempt(w) \/ SetTtl(w) \/ CheckCode(w) \/ GrantVerified(w)

Arrive(w) ==
    \/ \E r \in Registrations : Register(w, r)
    \/ \E e \in Emails : Enroll(w, e) \/ \E pw \in Passwords : Login(w, e, pw)
    \/ \E t \in tokens, code \in Secrets : Verify(w, t, code)

Next ==
    \/ \E w \in Workers : Arrive(w) \/ Step(w) \/ Fail(w)
    \/ \E k \in RateKeys : ExpireCounter(k)
    \/ \E t \in tokens : ExpireToken(t)

Spec == Init /\ [][Next]_vars

-----------------------------------------------------------------------------
(* Properties *)

TypeOK ==
    /\ users \in [Emails -> Rows]
    /\ tokens \subseteq Tokens
    /\ sessions \subseteq [sid : 1 .. MaxSessions, user : Emails, mfa : BOOLEAN]
    /\ counter \in [RateKeys -> Nat] /\ ttl \subseteq RateKeys
    /\ secretsDrawn \in 0 .. MaxSecrets
    /\ pc \in [Workers -> {"idle", "select", "insert", "login", "raise", "granted",
                           "incr", "ttl", "code", "proven"}]
    /\ req \in [Workers -> [email : Emails \cup {None}, phone : Phones \cup {None},
                            pw : Passwords \cup {None}, token : Tokens \cup {None},
                            code : Secrets \cup {None}]]
    /\ row \in [Workers -> Rows]
    /\ wrong \in [Emails -> 0 .. MaxFails]
    /\ admitted \in [RateKeys -> Nat]
    /\ overtaken \subseteq Workers /\ orphaned \subseteq RateKeys

\* Registrations that race for one email or one phone, from both replicas, never
\* change or merge accounts: an account keeps its phone and password, and a phone
\* belongs to one account.
AccountsAreKept ==
    [][/\ \A e \in Emails : Exists(e) => users'[e].pw = users[e].pw /\ users'[e].phone = users[e].phone
       /\ \A d, e \in Emails : users'[d].phone = users'[e].phone /\ users'[d].phone # None => d = e]_vars

\* A session without a second factor starts only for a user who is not enrolled,
\* one with it only on a code of the user's current secret; except that an
\* enrolment may overtake a login or a verification that has read the row.
SessionsEarned ==
    [][\A s \in sessions' \ sessions : \E w \in Workers :
          /\ req[w].email = s.user
          /\ \/ w \in overtaken
             \/ ~ s.mfa /\ users[s.user].secret = None /\ req[w].pw = users[s.user].pw
             \/ s.mfa /\ users[s.user].secret # None /\ users[s.user].secret = req[w].code]_vars

\* No more than MaxAttempts codes are let through while a counter lives, whoever
\* increments it, and a counter goes away again: it has a TTL, or its first
\* handler is about to set one, or died before it could.
AttemptsThrottled ==
    \A k \in RateKeys :
        /\ admitted[k] <= MaxAttempts
        /\ counter[k] > 0 => \/ k \in ttl \/ k \in orphaned
                             \/ \E w \in Workers : pc[w] = "ttl" /\ RateKey(w) = k

\* "Account lockout: 5 failed attempts -> 15 min lock"
LockedAfterFailures ==
    \A e \in Emails : wrong[e] >= MaxFails =>
        users[e].locked \/ (\E w \in Workers : pc[w] = "raise" /\ req[w].email = e)
=============================================================================
