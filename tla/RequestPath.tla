---------------------------- MODULE RequestPath ----------------------------
(***************************************************************************)
(* One request on its way through the platform: the gateway's middleware,  *)
(* routing, WAF and token check, the proxied call with its timeout, and    *)
(* the service behind it: token check, step-up gate, OPA query, effect.    *)
(* Two programs share the request: the gateway may have answered 502 while *)
(* the service still works on it, and the token may expire between the two *)
(* checks.  Amounts are in paisa.                                          *)
(***************************************************************************)
EXTENDS Integers, SequencesExt

CONSTANTS Users,
          Requests,     \* requests that clients send, see RequestSpace
          Owner,        \* owner of each account and initiator of each transfer
          AcctNos,      \* 16 random digits of a new account
          Threshold,    \* step_up_threshold_pkr
          PolicyLimit,  \* 10000 of securebank_authz.rego
          MaxAmount,    \* 999_999_999.99
          None

\* The two settings are the same number; the gate may be the stricter one.
ASSUME LimitsAssumption ==
    Threshold \in Nat /\ PolicyLimit \in Nat /\ MaxAmount \in Nat /\ Threshold <= PolicyLimit + 1

\* Path prefix -> upstream
ROUTES == {<< <<"/v1", "/auth">>, "auth" >>, << <<"/v1", "/accounts">>, "account" >>,
           << <<"/v1", "/transactions">>, "transaction" >>,
           << <<"/v1", "/notifications">>, "notification" >>}
ANON_PATH_PREFIXES == {<<"/v1", "/auth", "/register">>, <<"/v1", "/auth", "/login">>,
                       <<"/v1", "/auth", "/mfa", "/verify">>,
                       <<"/v1", "/auth", "/token", "/refresh">>,
                       <<"/v1", "/auth", "/.well-known", "/">>}

\* The handlers whose effects the properties are about, and one anonymous one.
HANDLERS ==
    {[method |-> "POST", path |-> <<"/v1", "/auth", "/login">>, name |-> "login"],
     [method |-> "POST", path |-> <<"/v1", "/auth", "/mfa", "/enroll">>, name |-> "mfa_enroll"],
     [method |-> "GET", path |-> <<"/v1", "/accounts", "/me">>, name |-> "list_mine"],
     [method |-> "POST", path |-> <<"/v1", "/accounts">>, name |-> "create_account"],
     [method |-> "GET", path |-> <<"/v1", "/accounts", "/{id}">>, name |-> "get_account"],
     [method |-> "POST", path |-> <<"/v1", "/accounts", "/{id}", "/credit">>, name |-> "credit"],
     [method |-> "POST", path |-> <<"/v1", "/accounts", "/{id}", "/debit">>, name |-> "debit"],
     [method |-> "POST", path |-> <<"/v1", "/transactions", "/transfer">>, name |-> "transfer"],
     [method |-> "GET", path |-> <<"/v1", "/transactions", "/{id}">>, name |-> "get_tx"],
     [method |-> "GET", path |-> <<"/v1", "/notifications">>, name |-> "inbox"]}
ASSUME NoneAssumption == None \notin Users \cup {h.name : h \in HANDLERS}

Money   == {"credit", "debit", "transfer"}
Queries == {"create_account", "get_account", "credit", "debit", "transfer"}

\* form: what the Authorization header is; kid: "known" to the auth service,
\* "unknown" or "missing"; sound: signature, issuer, audience, required claims.
Tokens == [form : {"none", "malformed", "bearer"},
           kid : {"known", "unknown", "missing"}, sound : BOOLEAN,
           typ : {"access", "refresh", "pre-auth"}, sub : Users,
           roles : SUBSET {"customer", "admin"}, mfa : BOOLEAN]
RequestSpace == [method : {"GET", "POST", "PATCH"}, path : Seq(STRING), item : DOMAIN Owner \cup {None},
                 big : BOOLEAN, hit : BOOLEAN, authz : Tokens,
                 user : Users \cup {None}, amount : Int]
ASSUME RequestsAssumption == Requests \subseteq RequestSpace
ASSUME OwnerAssumption    == Owner \in [DOMAIN Owner -> Users]
ASSUME AcctNosAssumption  == AcctNos \subseteq [1..16 -> 0..9]

resolve_upstream(path) == {r[2] : r \in {x \in ROUTES : IsPrefix(x[1], path)}}
requires_auth(path)    == \A p \in ANON_PATH_PREFIXES : ~ IsPrefix(p, path)

\* The path that httpx sends for upstream + path: it leaves out "." segments and
\* every ".." together with the segment before it.
Sent(path) ==
    FoldLeft(LAMBDA sent, segment : IF segment = "/." THEN sent
                                    ELSE IF segment # "/.." THEN Append(sent, segment)
                                    ELSE IF sent = <<>> THEN sent ELSE Front(sent), <<>>, path)

\* The service is chosen by the path as the client sent it, and a handler of that
\* service by the path that httpx sends.
HandlerOf(r) ==
    {h.name : h \in {x \in HANDLERS : x.method = r.method /\ x.path = Sent(r.path)
                                     /\ resolve_upstream(x.path) = resolve_upstream(r.path)}}
Is(r, names) == HandlerOf(r) \cap names # {}

VARIABLES
    gw,         \* the gateway: screen, authn, send, wait, done
    svc,        \* the upstream: idle, route, verify, input, policy, act
    req,        \* the request
    expired,    \* its token's exp has passed
    user,       \* x-user-id as the gateway forwards it
    answer,     \* status the client got, 0 before
    effect,     \* what the handler did or disclosed, and for whom
    iban        \* the numbers drawn for a new account

vars == <<gw, svc, req, expired, user, answer, effect, iban>>

NoEffect == [did |-> None, by |-> None, item |-> None]

\* Any request arrives.  Bound: one; neither program keeps anything of it here,
\* and what concurrent handlers do to each other is the services' own modules'.
Init ==
    /\ gw = "screen" /\ svc = "idle"
    /\ req \in Requests
    /\ expired = FALSE /\ user = req.user /\ answer = 0
    /\ effect = NoEffect /\ iban = {}

-----------------------------------------------------------------------------
(* The gateway *)

GatewayAnswer(status) == gw' = "done" /\ answer' = status

\* The first check that applies: body limit, methods, routes, WAF; 0 if none.
Refusal(r) ==
    IF r.big THEN 413
    ELSE IF r.method \notin {"GET", "POST", "PUT", "DELETE"} THEN 405
    ELSE IF resolve_upstream(r.path) = {} THEN 404
    ELSE IF r.hit THEN 400 ELSE 0

Screen ==
    /\ gw = "screen"
    /\ \/ Refusal(req) # 0 /\ GatewayAnswer(Refusal(req))
       \/ /\ Refusal(req) = 0
          /\ gw' = IF requires_auth(req.path) THEN "authn" ELSE "send"
          /\ UNCHANGED answer
    /\ UNCHANGED <<svc, req, expired, user, effect, iban>>

HasToken == req.authz.form = "bearer"

\* The key may be missing from the cache and the JWKS endpoint may be down.
TokenGood == HasToken /\ req.authz.kid = "known" /\ req.authz.sound /\ ~ expired

\* Fault: x-user-id is set only when the client sent none.
AuthenticateDefaults ==
    /\ gw = "authn" /\ TokenGood
    /\ gw' = "send" /\ user' = IF user = None THEN req.authz.sub ELSE user
    /\ UNCHANGED <<svc, req, expired, answer, effect, iban>>

\* The identity headers are those of the token, whatever the client sent.
Authenticate ==
    /\ gw = "authn" /\ TokenGood
    /\ gw' = "send" /\ user' = req.authz.sub
    /\ UNCHANGED <<svc, req, expired, answer, effect, iban>>

\* Only PyJWT's errors become a 401: a kid that is missing or unknown is a
\* KeyError, a JWKS endpoint that is down an HTTP error, both end as 500.
AuthenticateFails ==
    /\ gw = "authn"
    /\ \/ (HasToken => req.authz.kid = "known" /\ ~ TokenGood) /\ GatewayAnswer(401)
       \/ HasToken /\ GatewayAnswer(500)
    /\ UNCHANGED <<svc, req, expired, user, effect, iban>>

Send ==
    /\ gw = "send"
    /\ \/ GatewayAnswer(502) /\ UNCHANGED svc
       \/ gw' = "wait" /\ svc' = "route" /\ UNCHANGED answer
    /\ UNCHANGED <<req, expired, user, effect, iban>>

\* Fault: a timeout is reported as the client's error.
GiveUpBlaming ==
    /\ gw = "wait" /\ GatewayAnswer(408)
    /\ UNCHANGED <<svc, req, expired, user, effect, iban>>

\* 10 seconds without an answer; the service goes on.
GiveUp ==
    /\ gw = "wait" /\ GatewayAnswer(502)
    /\ UNCHANGED <<svc, req, expired, user, effect, iban>>

-----------------------------------------------------------------------------
(* The service; its answer is lost when the gateway has given up *)

\* 200 stands for every 2xx.
Reply(status) ==
    /\ svc' = "idle"
    /\ IF gw = "wait" THEN GatewayAnswer(status) ELSE UNCHANGED <<gw, answer>>

AnswerOnly(status) == Reply(status) /\ UNCHANGED <<req, expired, user, effect, iban>>
Proceed(place) == svc' = place /\ UNCHANGED <<gw, answer, req, expired, user, effect, iban>>

\* FastAPI's router; the account and transaction services verify the token.
Route ==
    /\ svc = "route"
    /\ \/ HandlerOf(req) = {} /\ \E s \in {404, 405} : AnswerOnly(s)
       \/ Is(req, {"login", "mfa_enroll", "inbox"}) /\ Proceed("act")
       \/ HandlerOf(req) # {} /\ ~ Is(req, {"login", "mfa_enroll", "inbox"}) /\ Proceed("verify")

\* jwt_dependency
Verify == svc = "verify" /\ TokenGood /\ req.authz.typ = "access" /\ Proceed("input")

VerifyFails ==
    /\ svc = "verify"
    /\ \/ ~ (TokenGood /\ req.authz.typ = "access") /\ AnswerOnly(401)
       \/ \E s \in {401, 500} : AnswerOnly(s)   \* unknown kid, JWKS endpoint down

step_up_required(amount) == amount >= Threshold

\* The gate of transfer.
StepUp == Is(req, {"transfer"}) /\ step_up_required(req.amount) /\ ~ req.authz.mfa

\* Body validation, the step-up gate and the handler's lookups, in this order.
AmountOk(r) == Is(r, Money) => r.amount \in 1..MaxAmount
Found == Is(req, {"get_account", "get_tx"}) => req.item # None
Input ==
    /\ svc = "input"
    /\ \/ ~ AmountOk(req) /\ AnswerOnly(422)
       \/ AmountOk(req) /\ StepUp /\ AnswerOnly(401)
       \/ AmountOk(req) /\ ~ StepUp /\ ~ Found /\ AnswerOnly(404)
       \/ /\ AmountOk(req) /\ ~ StepUp /\ Found
          /\ Proceed(IF Is(req, Queries) THEN "policy" ELSE "act")

\* Fault: the two amount clauses leave the limit itself to neither.
AllowGap(r) ==
    LET can == "customer" \in r.authz.roles IN
    \/ can /\ Is(r, {"get_account"}) /\ Owner[r.item] = r.authz.sub
    \/ can /\ Is(r, {"create_account", "credit", "debit"})
    \/ can /\ Is(r, {"transfer"}) /\ r.amount > 0 /\ r.amount < PolicyLimit
    \/ can /\ Is(r, {"transfer"}) /\ r.amount > PolicyLimit /\ r.authz.mfa
    \/ "admin" \in r.authz.roles /\ Is(r, {"get_account"})

\* securebank.authz
Allow(r) ==
    LET can == "customer" \in r.authz.roles IN
    \/ can /\ Is(r, {"get_account"}) /\ Owner[r.item] = r.authz.sub
    \/ can /\ Is(r, {"create_account", "credit", "debit"})
    \/ can /\ Is(r, {"transfer"}) /\ r.amount > 0 /\ r.amount <= PolicyLimit
    \/ can /\ Is(r, {"transfer"}) /\ r.amount > PolicyLimit /\ r.authz.mfa
    \/ "admin" \in r.authz.roles /\ Is(r, {"get_account"})

\* Fault: an error of the OPA query counts as consent.
AuthorizeFailsOpen ==
    /\ svc = "policy"
    /\ \/ Allow(req) /\ Proceed("act")
       \/ ~ Allow(req) /\ AnswerOnly(403)
       \/ Proceed("act")

\* credit and debit look up their idempotency key before they ask OPA: a replay
\* is answered and moves nothing.
Replay == svc = "policy" /\ Is(req, {"credit", "debit"}) /\ AnswerOnly(200)

\* is_allowed: whatever goes wrong with the query is a denial.
Authorize ==
    /\ svc = "policy"
    /\ \/ Allow(req) /\ Proceed("act")
       \/ AnswerOnly(403)

\* new_iban: the letters of SCBL and PK as two digits each, the account number
\* between them, and the check digits that make the number 1 modulo 97.  The 30
\* digits are taken six at a time: a remainder and six digits fit in 32 bits.
Group(digits, k) ==
    100000 * digits[6 * k - 5] + 10000 * digits[6 * k - 4] + 1000 * digits[6 * k - 3]
    + 100 * digits[6 * k - 2] + 10 * digits[6 * k - 1] + digits[6 * k]
Shift(rest, digits, k) == (1000000 * rest + Group(digits, k)) % 97
Mod97(digits) ==
    Shift(Shift(Shift(Shift(Shift(0, digits, 1), digits, 2), digits, 3), digits, 4), digits, 5)
Rearranged(acct, check) == <<2, 8, 1, 2, 1, 1, 2, 1>> \o acct \o <<2, 5, 2, 0>>
                           \o <<check \div 10, check % 10>>

\* Fault: the complement is taken to 97.
CheckDigits97(acct) == 97 - Mod97(Rearranged(acct, 0))
CheckDigits(acct)   == 98 - Mod97(Rearranged(acct, 0))

\* Who the handler takes the caller for: the header or the verified token.
Caller == IF Is(req, {"mfa_enroll", "inbox"}) THEN user ELSE
          IF Is(req, {"login"}) THEN None ELSE req.authz.sub

\* get_tx shows a transfer to its initiator only.
Discloses == Is(req, {"get_tx"}) => Owner[req.item] = req.authz.sub

\* The handler takes effect; an exception after it (the transaction has been
\* committed, Redis or Kafka fail) is a 500, a broken connection a 502.
Act ==
    /\ svc = "act" /\ Discloses
    /\ Is(req, {"mfa_enroll", "inbox"}) => user # None
    /\ \E h \in HandlerOf(req) : effect' = [did |-> h, by |-> Caller, item |-> req.item]
    /\ IF Is(req, {"create_account"})
       THEN \E acct \in AcctNos : iban' = {[acct |-> acct, check |-> CheckDigits(acct)]}
       ELSE UNCHANGED iban
    /\ \E s \in {200, 500, 502} : Reply(s)
    /\ UNCHANGED <<req, expired, user>>

\* get_tx by another user, no user context, or one of the handlers' own refusals
\* and exceptions before any effect.
ActFails ==
    /\ svc = "act"
    /\ \/ ~ Discloses /\ AnswerOnly(403)
       \/ Is(req, {"mfa_enroll", "inbox"}) /\ user = None /\ AnswerOnly(401)
       \/ \E s \in {400, 401, 404, 409, 500} : AnswerOnly(s)

\* The service's pod dies; the gateway sees a broken connection.
ServiceDies == svc # "idle" /\ AnswerOnly(502)

Expire ==
    /\ (gw # "done" \/ svc # "idle") /\ ~ expired
    /\ expired' = TRUE
    /\ UNCHANGED <<gw, svc, req, user, answer, effect, iban>>

Next ==
    \/ Screen \/ Authenticate \/ AuthenticateFails \/ Send \/ GiveUp
    \/ Route \/ Verify \/ VerifyFails \/ Input \/ Replay \/ Authorize \/ Act \/ ActFails
    \/ ServiceDies \/ Expire

Spec == Init /\ [][Next]_vars

-----------------------------------------------------------------------------
(* Properties *)

TypeOK ==
    /\ gw \in {"screen", "authn", "send", "wait", "done"}
    /\ svc \in {"idle", "route", "verify", "input", "policy", "act"}
    /\ req \in Requests
    /\ expired \in BOOLEAN
    /\ user \in Users \cup {None}
    /\ answer \in {0, 200, 400, 401, 403, 404, 405, 409, 413, 422, 500, 502}
    /\ effect \in [did : {h.name : h \in HANDLERS} \cup {None}, by : Users \cup {None},
                   item : DOMAIN Owner \cup {None}]
    /\ iban \subseteq {[acct |-> a, check |-> CheckDigits(a)] : a \in AcctNos}

\* Money moves only for a customer whose access token was verified, for a valid
\* amount, and from the step-up threshold on only with MFA in the token: also
\* when OPA is down, the gateway gave up, or the token expires on the way.
NoUnearnedMoney ==
    effect.did \in Money =>
        /\ HasToken /\ req.authz.sound /\ req.authz.typ = "access"
        /\ "customer" \in req.authz.roles
        /\ req.amount \in 1..MaxAmount
        /\ effect.did = "transfer" /\ step_up_required(req.amount) => req.authz.mfa

\* The step-up gate and the policy draw one line, though the gate asks for MFA
\* at amounts from the threshold and the policy above it: what the gate lets
\* through, at the boundary too, the policy never refuses a customer.
GatesAgree ==
    svc = "policy" /\ Is(req, {"transfer"}) /\ "customer" \in req.authz.roles => Allow(req)

\* Whoever reads the identity, from the gateway's header or from the token again,
\* acts for the subject of the verified token, whatever x-user-id the client sent
\* and whatever dot segments its path has; mfa_enroll, which has the header only,
\* does so when the gateway asked for a token on the path as it was sent.  And
\* what is disclosed to that subject is his: an account to its owner (or to an
\* admin), a transfer to its initiator.
ServesTheSubject ==
    /\ effect.did \notin {None, "login"} /\ (effect.did = "mfa_enroll" => requires_auth(req.path))
          => HasToken /\ req.authz.sound /\ effect.by = req.authz.sub
    /\ effect.did = "get_tx" => Owner[effect.item] = effect.by
    /\ effect.did = "get_account" => Owner[effect.item] = effect.by \/ "admin" \in req.authz.roles

\* A client that got a 4xx may rely on it: nothing was done and nothing will be
\* done.  (After a 5xx either may be the case.)
RefusalIsFinal ==
    answer \in 400..499 => effect = NoEffect /\ svc = "idle"

\* Every account gets an IBAN that passes the ISO 7064 check (mod 97 = 1), for
\* every remainder its digits can leave, with check digits that fit in two places.
IbanIsValid ==
    \A i \in iban : i.check \in 2..98 /\ Mod97(Rearranged(i.acct, i.check)) = 1
=============================================================================
