--------------------------- MODULE RequestPathProofs ---------------------------
(***************************************************************************)
(* Theorems about RequestPath, for any users, requests, owners, account    *)
(* numbers and limits that satisfy its assumptions.  The invariant follows *)
(* the request: what each of its stations has established still holds at   *)
(* the later ones, since nothing but the token's expiry changes under it,  *)
(* and nothing is done before the last.                                    *)
(***************************************************************************)
EXTENDS RequestPath, SequenceTheorems, TLAPS

\* The handlers that do not verify the token themselves.
Direct == {"login", "mfa_enroll", "inbox"}

\* The gateway has answered 502 if it has answered and the service still works;
\* nothing is done while it works.
Phases ==
    /\ gw \in {"screen", "authn", "send"} => svc = "idle" /\ effect = NoEffect /\ answer = 0
    /\ gw = "wait" => svc # "idle" /\ effect = NoEffect /\ answer = 0
    /\ gw = "done" /\ svc # "idle" => effect = NoEffect /\ answer = 502

\* What the gateway has checked of a request it forwards.
Identified ==
    requires_auth(req.path) /\ (gw = "send" \/ svc # "idle" \/ effect # NoEffect) =>
        HasToken /\ req.authz.sound /\ user = req.authz.sub

\* What the service has checked at each of its places.
Verified == HasToken /\ req.authz.sound /\ req.authz.typ = "access"
Valid    == Verified /\ AmountOk(req) /\ ~ StepUp /\ Found
Cleared  == Is(req, Direct) \/ (Valid /\ (Is(req, Queries) => Allow(req)))

Checked ==
    /\ svc \in {"verify", "input", "policy"} => ~ Is(req, Direct)
    /\ svc = "input"  => Verified
    /\ svc = "policy" => Valid /\ Is(req, Queries)
    /\ svc = "act"    => Cleared

\* What was done was done by the handler of the request, after all the checks.
Justified ==
    effect # NoEffect =>
        /\ effect.did \in HandlerOf(req) /\ effect.by = Caller /\ effect.item = req.item
        /\ Cleared /\ Discloses

PathInv == Phases /\ Identified /\ Checked /\ Justified /\ RefusalIsFinal

-----------------------------------------------------------------------------
(* Routes *)

\* The path segments that routes and anonymous prefixes are made of.
Segments == {"/v1", "/auth", "/login", "/mfa", "/enroll", "/accounts", "/me", "/{id}", "/credit",
             "/debit", "/transactions", "/transfer", "/notifications", "/register", "/verify",
             "/token", "/refresh", "/.well-known", "/"}

\* What tells the handlers apart: length, service and last part of the path.
Row(h, name, len, second, last) ==
    /\ h.name = name /\ h.path \in Seq(Segments)
    /\ Len(h.path) = len /\ h.path[1] = "/v1" /\ h.path[2] = second /\ h.path[len] = last

LEMMA Rows ==
  ASSUME NEW h \in HANDLERS
  PROVE  \/ Row(h, "login", 3, "/auth", "/login")
         \/ Row(h, "mfa_enroll", 4, "/auth", "/enroll") /\ h.path[3] = "/mfa"
         \/ Row(h, "list_mine", 3, "/accounts", "/me")
         \/ Row(h, "create_account", 2, "/accounts", "/accounts")
         \/ Row(h, "get_account", 3, "/accounts", "/{id}")
         \/ Row(h, "credit", 4, "/accounts", "/credit")
         \/ Row(h, "debit", 4, "/accounts", "/debit")
         \/ Row(h, "transfer", 3, "/transactions", "/transfer")
         \/ Row(h, "get_tx", 3, "/transactions", "/{id}")
         \/ Row(h, "inbox", 2, "/notifications", "/notifications")
<1>1. CASE h = [method |-> "POST", path |-> <<"/v1", "/auth", "/login">>, name |-> "login"]
  <2>1. <<"/v1", "/auth", "/login">> \in Seq(Segments)
    BY DEF Segments
  <2> QED BY <1>1, <2>1 DEF Row
<1>2. CASE h = [method |-> "POST", path |-> <<"/v1", "/auth", "/mfa", "/enroll">>, name |-> "mfa_enroll"]
  <2>1. <<"/v1", "/auth", "/mfa", "/enroll">> \in Seq(Segments)
    BY DEF Segments
  <2> QED BY <1>2, <2>1 DEF Row
<1>3. CASE h = [method |-> "GET", path |-> <<"/v1", "/accounts", "/me">>, name |-> "list_mine"]
  <2>1. <<"/v1", "/accounts", "/me">> \in Seq(Segments)
    BY DEF Segments
  <2> QED BY <1>3, <2>1 DEF Row
<1>4. CASE h = [method |-> "POST", path |-> <<"/v1", "/accounts">>, name |-> "create_account"]
  <2>1. <<"/v1", "/accounts">> \in Seq(Segments)
    BY DEF Segments
  <2> QED BY <1>4, <2>1 DEF Row
<1>5. CASE h = [method |-> "GET", path |-> <<"/v1", "/accounts", "/{id}">>, name |-> "get_account"]
  <2>1. <<"/v1", "/accounts", "/{id}">> \in Seq(Segments)
    BY DEF Segments
  <2> QED BY <1>5, <2>1 DEF Row
<1>6. CASE h = [method |-> "POST", path |-> <<"/v1", "/accounts", "/{id}", "/credit">>, name |-> "credit"]
  <2>1. <<"/v1", "/accounts", "/{id}", "/credit">> \in Seq(Segments)
    BY DEF Segments
  <2> QED BY <1>6, <2>1 DEF Row
<1>7. CASE h = [method |-> "POST", path |-> <<"/v1", "/accounts", "/{id}", "/debit">>, name |-> "debit"]
  <2>1. <<"/v1", "/accounts", "/{id}", "/debit">> \in Seq(Segments)
    BY DEF Segments
  <2> QED BY <1>7, <2>1 DEF Row
<1>8. CASE h = [method |-> "POST", path |-> <<"/v1", "/transactions", "/transfer">>, name |-> "transfer"]
  <2>1. <<"/v1", "/transactions", "/transfer">> \in Seq(Segments)
    BY DEF Segments
  <2> QED BY <1>8, <2>1 DEF Row
<1>9. CASE h = [method |-> "GET", path |-> <<"/v1", "/transactions", "/{id}">>, name |-> "get_tx"]
  <2>1. <<"/v1", "/transactions", "/{id}">> \in Seq(Segments)
    BY DEF Segments
  <2> QED BY <1>9, <2>1 DEF Row
<1>10. CASE h = [method |-> "GET", path |-> <<"/v1", "/notifications">>, name |-> "inbox"]
  <2>1. <<"/v1", "/notifications">> \in Seq(Segments)
    BY DEF Segments
  <2> QED BY <1>10, <2>1 DEF Row
<1> QED BY <1>1, <1>2, <1>3, <1>4, <1>5, <1>6, <1>7, <1>8, <1>9, <1>10, Zenon
           DEF HANDLERS

\* No two handlers share a path.
LEMMA OneHandler == \A r : \A m, n \in HandlerOf(r) : m = n
<1> SUFFICES ASSUME NEW g \in HANDLERS, NEW h \in HANDLERS, g.path = h.path
             PROVE  g.name = h.name
  BY DEF HandlerOf
<1> QED BY Rows DEF Row

LEMMA OnlyHandler ==
  ASSUME NEW r, NEW n \in HandlerOf(r), NEW names
  PROVE  Is(r, names) <=> n \in names
  BY OneHandler DEF Is

\* A handler has a name of its own.
LEMMA NameType == \A r : HandlerOf(r) \subseteq {h.name : h \in HANDLERS} /\ None \notin HandlerOf(r)
  BY NoneAssumption DEF HandlerOf

\* Every anonymous prefix lies under /v1/auth.
LEMMA PrefixFacts ==
  ASSUME NEW p \in ANON_PATH_PREFIXES
  PROVE  p \in Seq(Segments) /\ Len(p) \in Nat /\ Len(p) >= 3 /\ p[2] = "/auth"
<1>1. CASE p = <<"/v1", "/auth", "/register">>
  BY <1>1 DEF Segments
<1>2. CASE p = <<"/v1", "/auth", "/login">>
  BY <1>2 DEF Segments
<1>3. CASE p = <<"/v1", "/auth", "/mfa", "/verify">>
  BY <1>3 DEF Segments
<1>4. CASE p = <<"/v1", "/auth", "/token", "/refresh">>
  BY <1>4 DEF Segments
<1>5. CASE p = <<"/v1", "/auth", "/.well-known", "/">>
  BY <1>5 DEF Segments
<1> QED BY <1>1, <1>2, <1>3, <1>4, <1>5 DEF ANON_PATH_PREFIXES

LEMMA PrefixAgrees ==
  ASSUME NEW S, NEW T, NEW p \in Seq(S), NEW t \in Seq(T), IsPrefix(p, t), NEW i \in 1 .. Len(p)
  PROVE  t[i] = p[i]
<1>1. p \in Seq(S \cup T) /\ t \in Seq(S \cup T)
  OBVIOUS
<1> QED BY <1>1 DEF IsPrefix

\* None is not the name of a handler that the properties mention.
LEMMA NoneIsNoHandler == None \notin Money \cup {"get_account", "get_tx"}
<1>1. \A h \in HANDLERS : h.name # None
  BY NoneAssumption
<1>2. None # "credit"
  <2>1. [method |-> "POST", path |-> <<"/v1", "/accounts", "/{id}", "/credit">>, name |-> "credit"] \in HANDLERS
    BY Zenon DEF HANDLERS
  <2> QED BY <1>1, <2>1
<1>3. None # "debit"
  <2>1. [method |-> "POST", path |-> <<"/v1", "/accounts", "/{id}", "/debit">>, name |-> "debit"] \in HANDLERS
    BY Zenon DEF HANDLERS
  <2> QED BY <1>1, <2>1
<1>4. None # "transfer"
  <2>1. [method |-> "POST", path |-> <<"/v1", "/transactions", "/transfer">>, name |-> "transfer"] \in HANDLERS
    BY Zenon DEF HANDLERS
  <2> QED BY <1>1, <2>1
<1>5. None # "get_account"
  <2>1. [method |-> "GET", path |-> <<"/v1", "/accounts", "/{id}">>, name |-> "get_account"] \in HANDLERS
    BY Zenon DEF HANDLERS
  <2> QED BY <1>1, <2>1
<1>6. None # "get_tx"
  <2>1. [method |-> "GET", path |-> <<"/v1", "/transactions", "/{id}">>, name |-> "get_tx"] \in HANDLERS
    BY Zenon DEF HANDLERS
  <2> QED BY <1>1, <2>1
<1> QED BY <1>2, <1>3, <1>4, <1>5, <1>6 DEF Money

\* The gateway asks for a token on every path that it sends to the notification
\* service, whatever httpx makes of the path.
LEMMA InboxRequiresAuth ==
  ASSUME NEW r \in Requests, "inbox" \in HandlerOf(r)
  PROVE  requires_auth(r.path)
<1>1. PICK h \in HANDLERS : h.name = "inbox" /\ resolve_upstream(h.path) = resolve_upstream(r.path)
  BY DEF HandlerOf
<1>2. h.path = <<"/v1", "/notifications">>
  <2>1. /\ h.path \in Seq(Segments) /\ Len(h.path) = 2
        /\ h.path[1] = "/v1" /\ h.path[2] = "/notifications"
    BY <1>1, Rows DEF Row
  <2> QED BY <2>1
<1> DEFINE notifications == <<"/v1", "/notifications">>
<1>3. << notifications, "notification" >> \in ROUTES
  BY Zenon DEF ROUTES
<1>4. IsPrefix(notifications, notifications)
  BY DEF IsPrefix
<1>5. "notification" \in resolve_upstream(r.path)
  BY <1>1, <1>2, <1>3, <1>4 DEF resolve_upstream
<1>6. PICK route \in ROUTES : route[2] = "notification" /\ IsPrefix(route[1], r.path)
  BY <1>5 DEF resolve_upstream
<1>7. route[1] = notifications
  BY <1>6 DEF ROUTES
<1>8. r.path \in Seq(STRING)
  BY RequestsAssumption DEF RequestSpace
<1>9. /\ notifications \in Seq({"/v1", "/notifications"}) /\ 2 \in 1 .. Len(notifications)
      /\ notifications[2] = "/notifications"
  OBVIOUS
<1> HIDE DEF notifications
<1>10. r.path[2] = "/notifications"
  BY <1>6, <1>7, <1>8, <1>9, PrefixAgrees
<1>11. ASSUME NEW p \in ANON_PATH_PREFIXES, IsPrefix(p, r.path) PROVE FALSE
  <2>1. p \in Seq(Segments) /\ Len(p) \in Nat /\ 2 \in 1 .. Len(p) /\ p[2] = "/auth"
    BY PrefixFacts
  <2>2. r.path[2] = p[2]
    BY <1>8, <1>11, <2>1, PrefixAgrees
  <2> QED BY <1>10, <2>1, <2>2
<1> QED BY <1>11 DEF requires_auth

-----------------------------------------------------------------------------
(* Types *)

LEMMA RequestType ==
  ASSUME NEW r \in Requests
  PROVE  /\ r.user \in Users \cup {None} /\ r.item \in DOMAIN Owner \cup {None}
         /\ r.authz.sub \in Users /\ r.amount \in Int
  BY RequestsAssumption DEF RequestSpace, Tokens

LEMMA TypeInit == Init => TypeOK
<1> SUFFICES ASSUME Init PROVE TypeOK
  OBVIOUS
<1>1. user \in Users \cup {None}
  BY RequestType DEF Init
<1> QED BY <1>1 DEF Init, TypeOK, NoEffect

LEMMA TypeStep == TypeOK /\ [Next]_vars => TypeOK'
<1> SUFFICES ASSUME TypeOK, [Next]_vars PROVE TypeOK'
  OBVIOUS
<1> USE DEF TypeOK, GatewayAnswer
<1>1. ASSUME NEW status \in {200, 400, 401, 403, 404, 405, 409, 422, 500, 502}, AnswerOnly(status)
      PROVE  TypeOK'
  BY <1>1 DEF AnswerOnly, Reply
<1>2. ASSUME NEW place \in {"verify", "input", "policy", "act"}, Proceed(place) PROVE TypeOK'
  BY <1>2 DEF Proceed
<1>3. CASE Screen
  <2>1. Refusal(req) \in {0, 400, 404, 405, 413}
    BY DEF Refusal
  <2> QED BY <1>3, <2>1 DEF Screen
<1>4. CASE Authenticate
  BY <1>4, RequestType DEF Authenticate
<1>5. CASE AuthenticateFails
  BY <1>5 DEF AuthenticateFails
<1>6. CASE Send \/ GiveUp
  BY <1>6 DEF Send, GiveUp
<1>7. CASE Route \/ Verify \/ VerifyFails
  BY <1>1, <1>2, <1>7 DEF Route, Verify, VerifyFails
<1>8. CASE Input \/ Replay \/ Authorize
  BY <1>1, <1>2, <1>8 DEF Input, Replay, Authorize
<1>9. CASE Act
  <2>1. Caller \in Users \cup {None}
    BY RequestType DEF Caller
  <2>2. effect' \in [did : {h.name : h \in HANDLERS} \cup {None}, by : Users \cup {None},
                    item : DOMAIN Owner \cup {None}]
    BY <1>9, <2>1, RequestType, NameType DEF Act
  <2>3. iban' \subseteq {[acct |-> a, check |-> CheckDigits(a)] : a \in AcctNos}
    BY <1>9 DEF Act
  <2>4. PICK s \in {200, 500, 502} : Reply(s)
    BY <1>9 DEF Act
  <2> QED BY <1>9, <2>2, <2>3, <2>4 DEF Act, Reply
<1>10. CASE ActFails \/ ServiceDies
  BY <1>1, <1>10 DEF ActFails, ServiceDies
<1>11. CASE Expire
  BY <1>11 DEF Expire
<1>12. CASE UNCHANGED vars
  BY <1>12 DEF vars
<1> QED
  BY <1>3, <1>4, <1>5, <1>6, <1>7, <1>8, <1>9, <1>10, <1>11, <1>12 DEF Next

\* Every variable keeps its type.
THEOREM TypeCorrect == Spec => []TypeOK
  BY TypeInit, TypeStep, PTL DEF Spec

-----------------------------------------------------------------------------
(* The invariant *)

LEMMA PathInit == Init => PathInv
  BY DEF Init, PathInv, Phases, Identified, Checked, Justified, RefusalIsFinal

\* What the checks established does not depend on what changes after them.
LEMMA SameRequest ==
  ASSUME UNCHANGED <<req, user>>
  PROVE  /\ Verified' = Verified /\ Valid' = Valid /\ Cleared' = Cleared
         /\ Caller' = Caller /\ Discloses' = Discloses /\ HasToken' = HasToken
  BY DEF Verified, Valid, Cleared, Caller, Discloses, HasToken, StepUp, Found

\* While the service works nothing has been done, and an answer before its end
\* leaves it so.
LEMMA AnswerStep ==
  ASSUME PathInv, gw \in {"screen", "authn", "send", "wait", "done"}, svc # "idle",
         NEW status, AnswerOnly(status)
  PROVE  PathInv'
<1>1. UNCHANGED <<req, user, effect>> /\ effect = NoEffect /\ svc' = "idle"
  BY DEF PathInv, Phases, AnswerOnly, Reply
<1>2. Phases' /\ RefusalIsFinal'
  BY <1>1 DEF PathInv, Phases, RefusalIsFinal, AnswerOnly, Reply, GatewayAnswer
<1>3. gw' # "send"
  BY DEF PathInv, Phases, AnswerOnly, Reply, GatewayAnswer
<1> QED BY <1>1, <1>2, <1>3 DEF PathInv, Identified, Checked, Justified, NoEffect

\* A step of the service to its next place needs only what is checked there.
LEMMA ProceedStep ==
  ASSUME PathInv, gw \in {"screen", "authn", "send", "wait", "done"}, svc # "idle",
         NEW place, place # "idle", Proceed(place), Checked'
  PROVE  PathInv'
<1>1. UNCHANGED <<gw, req, user, effect, answer>> /\ effect = NoEffect /\ svc' # "idle"
  BY DEF PathInv, Phases, Proceed
<1>2. Phases' /\ RefusalIsFinal'
  BY <1>1 DEF PathInv, Phases, RefusalIsFinal
<1>3. Identified'
  BY <1>1, SameRequest DEF PathInv, Identified
<1>4. Justified'
  BY <1>1 DEF Justified, NoEffect
<1> QED BY <1>2, <1>3, <1>4 DEF PathInv

LEMMA PathStep == TypeOK /\ PathInv /\ [Next]_vars => PathInv'
<1> SUFFICES ASSUME TypeOK, PathInv, [Next]_vars PROVE PathInv'
  OBVIOUS
<1>0. gw \in {"screen", "authn", "send", "wait", "done"}
  BY DEF TypeOK
<1>1. CASE Screen
  <2>1. svc' = "idle" /\ effect' = NoEffect /\ req' = req /\ user' = user
    BY <1>1 DEF Screen, PathInv, Phases
  <2>2. Phases' /\ RefusalIsFinal' /\ Checked' /\ Justified'
    BY <1>1, <2>1 DEF Screen, PathInv, Phases, RefusalIsFinal, Checked, Justified, GatewayAnswer
  <2>3. Identified'
    BY <1>1, <2>1 DEF Screen, Identified, GatewayAnswer
  <2> QED BY <2>2, <2>3 DEF PathInv
<1>2. CASE Authenticate
  <2>1. svc' = "idle" /\ effect' = NoEffect /\ req' = req /\ gw' = "send" /\ answer' = 0
    BY <1>2 DEF Authenticate, PathInv, Phases
  <2>2. Identified'
    BY <1>2, <2>1 DEF Authenticate, Identified, TokenGood, HasToken
  <2> QED BY <2>1, <2>2 DEF PathInv, Phases, RefusalIsFinal, Checked, Justified
<1>3. CASE AuthenticateFails
  <2>1. svc' = "idle" /\ effect' = NoEffect /\ gw' = "done"
    BY <1>3 DEF AuthenticateFails, PathInv, Phases, GatewayAnswer
  <2> QED BY <2>1 DEF PathInv, Phases, RefusalIsFinal, Checked, Justified, Identified
<1>4. CASE Send
  <2>1. /\ effect' = NoEffect /\ UNCHANGED <<req, user>>
        /\ \/ gw' = "done" /\ svc' = "idle" /\ answer' = 502
           \/ gw' = "wait" /\ svc' = "route" /\ answer' = 0
    BY <1>4 DEF Send, PathInv, Phases, GatewayAnswer
  <2>2. Identified'
    BY <1>4, <2>1, SameRequest DEF Send, PathInv, Identified
  <2> QED BY <2>1, <2>2 DEF PathInv, Phases, RefusalIsFinal, Checked, Justified
<1>5. CASE GiveUp
  <2>1. /\ gw = "wait" /\ gw' = "done" /\ answer' = 502 /\ svc # "idle"
        /\ effect = NoEffect /\ UNCHANGED <<svc, effect, req, user>>
    BY <1>5 DEF GiveUp, PathInv, Phases, GatewayAnswer
  <2>2. Identified' /\ Checked'
    BY <2>1, SameRequest DEF PathInv, Identified, Checked
  <2> QED BY <2>1, <2>2 DEF PathInv, Phases, RefusalIsFinal, Justified
<1>6. CASE Route
  <2>1. svc # "idle"
    BY <1>6 DEF Route
  <2>2. ASSUME NEW s, AnswerOnly(s) PROVE PathInv'
    BY <1>0, <2>1, <2>2, AnswerStep
  <2>3. CASE Is(req, Direct) /\ Proceed("act")
    <3>1. Checked'
      BY <2>3, SameRequest DEF Checked, Proceed, Cleared
    <3> QED BY <1>0, <2>1, <2>3, <3>1, ProceedStep
  <2>4. CASE ~ Is(req, Direct) /\ Proceed("verify")
    <3>1. Checked'
      BY <2>4 DEF Checked, Proceed
    <3> QED BY <1>0, <2>1, <2>4, <3>1, ProceedStep
  <2> QED BY <1>6, <2>2, <2>3, <2>4 DEF Route, Direct
<1>7. CASE Verify
  <2>1. svc = "verify" /\ Proceed("input") /\ Verified /\ ~ Is(req, Direct)
    BY <1>7 DEF Verify, TokenGood, Verified, PathInv, Checked
  <2>2. Checked'
    BY <2>1, SameRequest DEF Checked, Proceed
  <2> QED BY <1>0, <2>1, <2>2, ProceedStep
<1>8. CASE VerifyFails \/ Replay \/ ActFails \/ ServiceDies
  <2>1. svc # "idle" /\ \E s \in Int : AnswerOnly(s)
    BY <1>8 DEF VerifyFails, Replay, ActFails, ServiceDies
  <2> QED BY <1>0, <2>1, AnswerStep
<1>9. CASE Input
  <2>1. svc = "input" /\ Verified /\ ~ Is(req, Direct)
    BY <1>9 DEF Input, PathInv, Checked
  <2>2. ASSUME NEW s, AnswerOnly(s) PROVE PathInv'
    BY <1>0, <2>1, <2>2, AnswerStep
  <2>3. CASE /\ AmountOk(req) /\ ~ StepUp /\ Found
             /\ Proceed(IF Is(req, Queries) THEN "policy" ELSE "act")
    <3>1. Checked'
      BY <2>1, <2>3, SameRequest DEF Checked, Proceed, Valid, Cleared
    <3> QED BY <1>0, <2>1, <2>3, <3>1, ProceedStep
  <2> QED BY <1>9, <2>2, <2>3 DEF Input
<1>10. CASE Authorize
  <2>1. svc = "policy" /\ Valid /\ ~ Is(req, Direct)
    BY <1>10 DEF Authorize, PathInv, Checked
  <2>2. CASE AnswerOnly(403)
    BY <1>0, <2>1, <2>2, AnswerStep
  <2>3. CASE Allow(req) /\ Proceed("act")
    <3>1. Checked'
      BY <2>1, <2>3, SameRequest DEF Checked, Proceed, Cleared
    <3> QED BY <1>0, <2>1, <2>3, <3>1, ProceedStep
  <2> QED BY <1>10, <2>2, <2>3 DEF Authorize
<1>11. CASE Act
  <2>1. svc = "act" /\ Cleared /\ Discloses /\ UNCHANGED <<req, user>> /\ effect = NoEffect
    BY <1>0, <1>11 DEF Act, PathInv, Checked, Phases
  <2>2. PICK s \in {200, 500, 502} : Reply(s)
    BY <1>11 DEF Act
  <2>3. svc' = "idle" /\ gw' = "done" /\ answer' \in {200, 500, 502}
    BY <1>0, <2>1, <2>2 DEF Reply, GatewayAnswer, PathInv, Phases
  <2>4. PICK n \in HandlerOf(req) : effect' = [did |-> n, by |-> Caller, item |-> req.item]
    BY <1>11 DEF Act
  <2>5. Identified'
    BY <2>1, SameRequest DEF PathInv, Identified
  <2>6. Justified'
    BY <2>1, <2>4, SameRequest DEF Justified
  <2> QED BY <2>3, <2>5, <2>6 DEF PathInv, Phases, Checked, RefusalIsFinal
<1>12. CASE Expire \/ UNCHANGED vars
  <2>1. UNCHANGED <<gw, svc, req, user, answer, effect>>
    BY <1>12 DEF Expire, vars
  <2> QED BY <2>1, SameRequest
          DEF PathInv, Phases, Identified, Checked, Justified, RefusalIsFinal
<1> QED
  BY <1>1, <1>2, <1>3, <1>4, <1>5, <1>6, <1>7, <1>8, <1>9, <1>10, <1>11, <1>12 DEF Next

LEMMA PathInvariant == Spec => [](TypeOK /\ PathInv)
  BY TypeInit, TypeStep, PathInit, PathStep, PTL DEF Spec

-----------------------------------------------------------------------------
(* The theorems *)

\* A 4xx means that nothing was done and nothing will be done.
THEOREM RefusalsAreFinal == Spec => []RefusalIsFinal
<1>1. PathInv => RefusalIsFinal
  BY DEF PathInv
<1> QED BY <1>1, PathInvariant, PTL

\* Money moves only after token, amount, step-up and policy checks, whatever
\* fails or times out on the way.
THEOREM MoneyIsEarned == Spec => []NoUnearnedMoney
<1>1. TypeOK /\ PathInv => NoUnearnedMoney
  <2> SUFFICES ASSUME TypeOK, PathInv, effect.did \in Money
               PROVE  /\ Verified /\ "customer" \in req.authz.roles
                      /\ req.amount \in 1..MaxAmount
                      /\ effect.did = "transfer" /\ step_up_required(req.amount)
                            => req.authz.mfa
    BY DEF NoUnearnedMoney, Verified
  <2>1. effect # NoEffect
    BY NoneIsNoHandler DEF NoEffect
  <2>2. effect.did \in HandlerOf(req) /\ Cleared
    BY <2>1 DEF PathInv, Justified
  <2>3. /\ ~ Is(req, Direct) /\ Is(req, Queries) /\ Is(req, Money) /\ ~ Is(req, {"get_account"})
        /\ effect.did = "transfer" => Is(req, {"transfer"})
    BY <2>2, OnlyHandler DEF Money, Direct, Queries
  <2>4. Valid /\ Allow(req)
    BY <2>2, <2>3 DEF Cleared
  <2> QED BY <2>3, <2>4 DEF Valid, AmountOk, StepUp, Allow
<1> QED BY <1>1, PathInvariant, PTL

\* Where the gate has let a customer's transfer through, the policy allows it:
\* for every threshold that is at most one above the policy's limit.
THEOREM PolicyFollowsGate == Spec => []GatesAgree
<1>1. TypeOK /\ PathInv => GatesAgree
  <2> SUFFICES ASSUME TypeOK, PathInv, svc = "policy", Is(req, {"transfer"}),
                      "customer" \in req.authz.roles
               PROVE  Allow(req)
    BY DEF GatesAgree
  <2>1. AmountOk(req) /\ ~ StepUp
    BY DEF PathInv, Checked, Valid
  <2>2. req.amount \in 1..MaxAmount
    BY <2>1 DEF AmountOk, Is, Money
  <2>3. req.amount >= Threshold => req.authz.mfa
    BY <2>1 DEF StepUp, step_up_required
  <2> QED BY <2>2, <2>3, LimitsAssumption DEF Allow
<1> QED BY <1>1, PathInvariant, PTL

\* What is done is done for the subject of the verified token (by mfa_enroll when
\* the gateway asked for one), and disclosed to that subject only what is his, or
\* to an admin.
THEOREM SubjectIsServed == Spec => []ServesTheSubject
<1>1. TypeOK /\ PathInv => ServesTheSubject
  <2> SUFFICES ASSUME TypeOK, PathInv, effect.did # None PROVE ServesTheSubject
    BY NoneIsNoHandler DEF ServesTheSubject
  <2>1. effect # NoEffect
    BY DEF NoEffect
  <2>2. /\ effect.did \in HandlerOf(req) /\ effect.by = Caller /\ effect.item = req.item
        /\ Cleared /\ Discloses
    BY <2>1 DEF PathInv, Justified
  <2>3. ASSUME effect.did # "login", effect.did = "mfa_enroll" => requires_auth(req.path)
        PROVE  HasToken /\ req.authz.sound /\ effect.by = req.authz.sub
    <3>1. ~ Is(req, {"login"})
      BY <2>2, <2>3, OnlyHandler
    <3>2. CASE effect.did \in {"mfa_enroll", "inbox"}
      <4>1. requires_auth(req.path)
        BY <2>2, <2>3, <3>2, InboxRequiresAuth DEF TypeOK
      <4>2. HasToken /\ req.authz.sound /\ user = req.authz.sub
        BY <2>1, <4>1 DEF PathInv, Identified
      <4> QED BY <2>2, <3>1, <4>2 DEF Caller
    <3>3. CASE effect.did \notin {"mfa_enroll", "inbox"}
      <4>1. ~ Is(req, Direct) /\ ~ Is(req, {"mfa_enroll", "inbox"})
        BY <2>2, <2>3, <3>3, OnlyHandler DEF Direct
      <4> QED BY <2>2, <3>1, <4>1 DEF Cleared, Valid, Verified, Caller
    <3> QED BY <3>2, <3>3
  <2>4. ASSUME effect.did = "get_tx" PROVE Owner[effect.item] = effect.by
    <3>1. Is(req, {"get_tx"})
      BY <2>2, <2>4, OnlyHandler
    <3> QED BY <2>2, <2>3, <2>4, <3>1 DEF Discloses
  <2>5. ASSUME effect.did = "get_account"
        PROVE  Owner[effect.item] = effect.by \/ "admin" \in req.authz.roles
    <3>1. /\ Is(req, Queries) /\ ~ Is(req, Direct)
          /\ ~ Is(req, {"create_account", "credit", "debit"}) /\ ~ Is(req, {"transfer"})
      BY <2>2, <2>5, OnlyHandler DEF Queries, Direct
    <3>2. Allow(req)
      BY <2>2, <3>1 DEF Cleared
    <3> QED BY <2>2, <2>3, <2>5, <3>1, <3>2 DEF Allow
  <2> QED BY <2>3, <2>4, <2>5 DEF ServesTheSubject
<1> QED BY <1>1, PathInvariant, PTL

-----------------------------------------------------------------------------
(* The IBAN's check digits *)

Digit == 0..9

\* The digits of two numbers written one after the other.
LEMMA Juxtaposed ==
  ASSUME NEW s \in Seq(Digit), NEW t \in Seq(Digit)
  PROVE  /\ s \o t \in Seq(Digit) /\ Len(s \o t) = Len(s) + Len(t)
         /\ \A i \in 1 .. Len(s) : (s \o t)[i] = s[i]
         /\ \A i \in 1 .. Len(t) : (s \o t)[Len(s) + i] = t[i]
  BY ConcatProperties

\* The digits of the number: all but the last two do not depend on the check.
LEMMA Digits ==
  ASSUME NEW a \in [1..16 -> Digit], NEW c \in 0..99
  PROVE  LET s == Rearranged(a, c) IN
         /\ \A i \in 1..28 : s[i] \in Digit /\ s[i] = Rearranged(a, 0)[i]
         /\ s[25] = 2 /\ s[26] = 5 /\ s[27] = 2 /\ s[28] = 0
         /\ s[29] = c \div 10 /\ s[30] = c % 10
<1> DEFINE head == <<2, 8, 1, 2, 1, 1, 2, 1>>
           country == <<2, 5, 2, 0>>
           tail(n) == <<n \div 10, n % 10>>
           front == (head \o a) \o country
<1>1. head \in Seq(Digit) /\ Len(head) = 8
  BY DEF Digit
<1>2. a \in Seq(Digit) /\ Len(a) = 16
  <2>1. a \in Seq(Digit)
    BY SeqDef
  <2> QED BY <2>1
<1>3. /\ country \in Seq(Digit) /\ Len(country) = 4
      /\ country[1] = 2 /\ country[2] = 5 /\ country[3] = 2 /\ country[4] = 0
  BY DEF Digit
<1>4. ASSUME NEW n \in 0..99
      PROVE  /\ tail(n) \in Seq(Digit) /\ Len(tail(n)) = 2
             /\ tail(n)[1] = n \div 10 /\ tail(n)[2] = n % 10
  <2>1. n \div 10 \in Digit /\ n % 10 \in Digit
    BY DEF Digit
  <2> QED BY <2>1
<1>5. \A n \in 0..99 : Rearranged(a, n) = front \o tail(n)
  BY DEF Rearranged
<1> HIDE DEF head, country, tail
<1>6. head \o a \in Seq(Digit) /\ Len(head \o a) = 24
  <2>1. head \o a \in Seq(Digit)
    BY <1>1, <1>2, Juxtaposed
  <2>2. Len(head \o a) = Len(head) + Len(a)
    BY <1>1, <1>2, Juxtaposed
  <2> QED BY <1>1, <1>2, <2>1, <2>2
<1>7. front \in Seq(Digit) /\ Len(front) = 28
  <2>1. front \in Seq(Digit)
    BY <1>3, <1>6, Juxtaposed
  <2>2. Len(front) = Len(head \o a) + Len(country)
    BY <1>3, <1>6, Juxtaposed
  <2> QED BY <1>3, <1>6, <2>1, <2>2
<1>8. front[25] = 2 /\ front[26] = 5 /\ front[27] = 2 /\ front[28] = 0
  <2>1. \A i \in 1 .. Len(country) : front[Len(head \o a) + i] = country[i]
    BY <1>3, <1>6, Juxtaposed
  <2> HIDE DEF front
  <2>2. \A i \in 1..4 : front[24 + i] = country[i]
    BY <1>3, <1>6, <2>1
  <2>3. front[24 + 1] = 2 /\ front[24 + 2] = 5 /\ front[24 + 3] = 2 /\ front[24 + 4] = 0
    BY <1>3, <2>2
  <2> QED BY <2>3
<1>9. \A i \in 1..28 : front[i] \in Digit
  BY <1>7, ElementOfSeq
<1> HIDE DEF front
<1>10. ASSUME NEW n \in 0..99
       PROVE  /\ \A i \in 1..28 : (front \o tail(n))[i] = front[i]
              /\ (front \o tail(n))[29] = tail(n)[1] /\ (front \o tail(n))[30] = tail(n)[2]
  <2> DEFINE s == front \o tail(n)
  <2>1. \A i \in 1 .. Len(front) : s[i] = front[i]
    BY <1>4, <1>7, Juxtaposed
  <2>2. \A i \in 1 .. Len(tail(n)) : s[Len(front) + i] = tail(n)[i]
    BY <1>4, <1>7, Juxtaposed
  <2>3. Len(front) = 28 /\ Len(tail(n)) = 2
    BY <1>4, <1>7
  <2> HIDE DEF s
  <2>4. s[28 + 1] = tail(n)[1] /\ s[28 + 2] = tail(n)[2]
    BY <2>2, <2>3
  <2>5. s[29] = tail(n)[1] /\ s[30] = tail(n)[2] /\ \A i \in 1..28 : s[i] = front[i]
    BY <2>1, <2>3, <2>4
  <2> QED BY <2>5 DEF s
<1>11. ASSUME NEW n \in 0..99
       PROVE  /\ \A i \in 1..28 : Rearranged(a, n)[i] = front[i]
              /\ Rearranged(a, n)[29] = n \div 10 /\ Rearranged(a, n)[30] = n % 10
  <2>1. Rearranged(a, n) = front \o tail(n)
    BY <1>5
  <2>2. tail(n)[1] = n \div 10 /\ tail(n)[2] = n % 10
    BY <1>4
  <2>3. /\ \A i \in 1..28 : (front \o tail(n))[i] = front[i]
        /\ (front \o tail(n))[29] = tail(n)[1] /\ (front \o tail(n))[30] = tail(n)[2]
    BY <1>10
  <2> QED BY <2>1, <2>2, <2>3
<1> DEFINE s == Rearranged(a, c)
<1>12. /\ \A i \in 1..28 : s[i] = front[i] /\ front[i] = Rearranged(a, 0)[i]
       /\ s[29] = c \div 10 /\ s[30] = c % 10
  <2>1. 0 \in 0..99
    OBVIOUS
  <2> QED BY <1>11, <2>1
<1> HIDE DEF s
<1>13. /\ \A i \in 1..28 : s[i] \in Digit /\ s[i] = Rearranged(a, 0)[i]
       /\ s[25] = 2 /\ s[26] = 5 /\ s[27] = 2 /\ s[28] = 0
       /\ s[29] = c \div 10 /\ s[30] = c % 10
  BY <1>8, <1>9, <1>12
<1> QED BY <1>13 DEF s

\* What is missing to 98 makes a number one modulo 97.
LEMMA Complement ==
  ASSUME NEW n \in Nat
  PROVE  98 - (n % 97) \in 2..98 /\ (n + (98 - (n % 97))) % 97 = 1
  BY SMT

\* A number and its two digits.
LEMMA TwoDigits ==
  ASSUME NEW n \in Nat, NEW q \in Nat, NEW r \in Nat, q = n \div 10, r = n % 10
  PROVE  n = 10 * q + r
  BY Z3

\* Six digits are a number, and the same number when they are the same digits.
LEMMA Groups ==
  ASSUME NEW a \in [1..16 -> Digit], NEW c \in 0..99, NEW k \in 1..4
  PROVE  /\ Group(Rearranged(a, c), k) = Group(Rearranged(a, 0), k)
         /\ Group(Rearranged(a, 0), k) \in Nat
<1> DEFINE s == Rearranged(a, c)
           t == Rearranged(a, 0)
<1>1. \A i \in 1..28 : t[i] \in Nat /\ s[i] = t[i]
  <2>1. \A i \in 1..28 : s[i] \in Digit /\ s[i] = t[i]
    BY Digits
  <2> HIDE DEF s, t
  <2>2. Digit \subseteq Nat
    BY DEF Digit
  <2> QED BY <2>1, <2>2
<1>2. 6 * k \in 6..24
  OBVIOUS
<1> HIDE DEF s, t
<1> DEFINE n == 6 * k
<1>3. /\ n \in 1..28 /\ n - 1 \in 1..28 /\ n - 2 \in 1..28
      /\ n - 3 \in 1..28 /\ n - 4 \in 1..28 /\ n - 5 \in 1..28
  BY <1>2
<1> HIDE DEF n
<1>4. /\ t[n] \in Nat /\ t[n - 1] \in Nat /\ t[n - 2] \in Nat
      /\ t[n - 3] \in Nat /\ t[n - 4] \in Nat /\ t[n - 5] \in Nat
      /\ s[n] = t[n] /\ s[n - 1] = t[n - 1] /\ s[n - 2] = t[n - 2]
      /\ s[n - 3] = t[n - 3] /\ s[n - 4] = t[n - 4] /\ s[n - 5] = t[n - 5]
  BY <1>1, <1>3
<1>5. Group(s, k) = Group(t, k) /\ Group(t, k) \in Nat
  BY <1>4 DEF Group, n
<1> QED BY <1>5 DEF s, t

LEMMA LastGroup ==
  ASSUME NEW a \in [1..16 -> Digit], NEW c \in 0..99
  PROVE  Group(Rearranged(a, c), 5) = 252000 + c
<1> DEFINE s == Rearranged(a, c)
<1>1. PICK q \in Nat, r \in Nat : q = c \div 10 /\ r = c % 10
  <2>1. c \div 10 \in Nat /\ c % 10 \in Nat
    OBVIOUS
  <2> QED BY <2>1
<1>2. s[25] = 2 /\ s[26] = 5 /\ s[27] = 2 /\ s[28] = 0 /\ s[29] = q /\ s[30] = r
  BY <1>1, Digits
<1>3. c = 10 * q + r
  BY <1>1, TwoDigits
<1> HIDE DEF s
<1>4. Group(s, 5) = 100000 * s[25] + 10000 * s[26] + 1000 * s[27] + 100 * s[28]
                    + 10 * s[29] + s[30]
  <2>1. 6 * 5 = 30 /\ 30 - 1 = 29 /\ 30 - 2 = 28 /\ 30 - 3 = 27 /\ 30 - 4 = 26 /\ 30 - 5 = 25
    OBVIOUS
  <2> QED BY <2>1 DEF Group
<1>5. Group(s, 5) = 252000 + c
  BY <1>2, <1>3, <1>4
<1> QED BY <1>5 DEF s

LEMMA ShiftType == \A r, s, k : r \in Nat /\ Group(s, k) \in Nat => Shift(r, s, k) \in Nat
  BY DEF Shift

\* The four steps over the account number leave the same remainder whatever the
\* check, and the last step adds the check to it.
LEMMA CheckDigitsFit ==
  ASSUME NEW a \in [1..16 -> Digit]
  PROVE  CheckDigits(a) \in 2..98 /\ Mod97(Rearranged(a, CheckDigits(a))) = 1
<1> DEFINE FirstFour(s) == Shift(Shift(Shift(Shift(0, s, 1), s, 2), s, 3), s, 4)
           rest == FirstFour(Rearranged(a, 0))
           n == 1000000 * rest + 252000
<1>1. rest \in Nat
  <2> DEFINE t == Rearranged(a, 0)
  <2>1. \A k \in 1..4 : Group(t, k) \in Nat
    BY Groups
  <2> HIDE DEF t
  <2>2. \A k \in 1..4, r \in Nat : Shift(r, t, k) \in Nat
    BY <2>1, ShiftType
  <2>3. FirstFour(t) \in Nat
    <3>1. Shift(0, t, 1) \in Nat
      BY <2>2
    <3>2. Shift(Shift(0, t, 1), t, 2) \in Nat
      BY <2>2, <3>1
    <3>3. Shift(Shift(Shift(0, t, 1), t, 2), t, 3) \in Nat
      BY <2>2, <3>2
    <3> QED BY <2>2, <3>3
  <2> QED BY <2>3 DEF t
<1>2. ASSUME NEW c \in 0..99
      PROVE  Mod97(Rearranged(a, c)) = (n + c) % 97
  <2> DEFINE s == Rearranged(a, c)
             t == Rearranged(a, 0)
  <2>1. \A r : \A k \in 1..4 : Shift(r, s, k) = Shift(r, t, k)
    <3>1. \A k \in 1..4 : Group(s, k) = Group(t, k)
      BY Groups
    <3> QED BY <3>1 DEF Shift
  <2>2. Group(s, 5) = 252000 + c
    BY LastGroup
  <2> HIDE DEF s, t
  <2>3. FirstFour(s) = FirstFour(t)
    BY <2>1
  <2>4. Mod97(s) = Shift(FirstFour(s), s, 5)
    BY DEF Mod97
  <2> HIDE DEF FirstFour
  <2>5. Mod97(s) = (1000000 * FirstFour(t) + (252000 + c)) % 97
    BY <2>2, <2>3, <2>4 DEF Shift
  <2>6. rest = FirstFour(t)
    BY DEF t
  <2>7. Mod97(s) = (1000000 * rest + (252000 + c)) % 97
    BY <2>5, <2>6
  <2> HIDE DEF rest
  <2>8. 1000000 * rest + (252000 + c) = n + c
    BY <1>1
  <2> QED BY <2>7, <2>8 DEF s
<1> HIDE DEF rest
<1>3. n \in Nat /\ n + 0 = n
  BY <1>1
<1> HIDE DEF n
<1>4. Mod97(Rearranged(a, 0)) = n % 97
  BY <1>2, <1>3
<1>5. CheckDigits(a) = 98 - (n % 97)
  BY <1>4 DEF CheckDigits
<1>6. CheckDigits(a) \in 2..98 /\ (n + CheckDigits(a)) % 97 = 1
  BY <1>3, <1>5, Complement
<1> QED BY <1>2, <1>6

\* Whatever sixteen digits are drawn, the new account's IBAN passes the check.
THEOREM IbansAreValid == Spec => []IbanIsValid
<1>1. TypeOK => IbanIsValid
  BY AcctNosAssumption, CheckDigitsFit DEF TypeOK, IbanIsValid, Digit
<1> QED BY <1>1, TypeCorrect, PTL
===============================================================================
