---------------------------- MODULE RequestPathMC ----------------------------
(* A small instance of RequestPath for TLC. *)
EXTENDS RequestPath

JWT(kid, sound, typ, roles, mfa) ==
    [form |-> "bearer", kid |-> kid, sound |-> sound, typ |-> typ, sub |-> "ann", roles |-> roles, mfa |-> mfa]

\* ann's tokens; the last four are no access tokens of this issuer.
AnnsTokens == {JWT("known", TRUE, "access", roles, mfa) :
                 roles \in SUBSET {"customer", "admin"}, mfa \in BOOLEAN}
OtherTokens == {JWT("known", TRUE, "pre-auth", {"customer"}, FALSE),
                JWT("known", FALSE, "access", {"customer"}, TRUE),
                JWT("unknown", FALSE, "access", {"customer"}, TRUE),
                JWT("missing", FALSE, "access", {"customer"}, TRUE)}

Request(method, path, item, authz, header, amount) ==
    [method |-> method, path |-> path, item |-> item, big |-> FALSE, hit |-> FALSE,
     authz |-> authz, user |-> header, amount |-> amount]

Headers == {None, "bob"}
NotBearer(form) == [JWT("missing", FALSE, "access", {}, FALSE) EXCEPT !.form = form]
Authz == AnnsTokens \cup OtherTokens \cup {NotBearer("none"), NotBearer("malformed")}

\* Every handler with every token and a client's own x-user-id; amounts around
\* the step-up threshold and the bounds; ids of ann's and bob's and of nothing.
Calls ==
    LET amounts(h) == IF h.name \in Money THEN {0, 1, Threshold - 1, Threshold, Threshold + 1,
                                                MaxAmount, MaxAmount + 1} ELSE {0}
        items(h)   == IF h.name \in {"get_account", "get_tx"} THEN {"ann's", "bob's", None}
                      ELSE {None}
    IN UNION {{Request(h.method, h.path, i, z, u, a) :
                 i \in items(h), z \in Authz, u \in Headers, a \in amounts(h)} : h \in HANDLERS}

\* Requests that the gateway's screen or a service's router ends.
Odd == LET plain == Request("POST", <<"/v1", "/auth", "/login">>, None, NotBearer("none"), None, 0) IN
       {[plain EXCEPT !.big = b, !.hit = t, !.method = m, !.path = p] :
          b, t \in BOOLEAN, m \in {"POST", "PATCH"},
          p \in {<<"/v1", "/auth", "/login">>, <<"/v2">>, <<"/v1", "/auth", "/login", "X">>}}

\* Every handler's path with a dot segment, or with a step into some segment and
\* out of it again.
Dots == {<<"/.">>} \cup {<<h.path[Len(h.path)], "/..">> : h \in HANDLERS}
WithDots(h) == {SubSeq(h.path, 1, i) \o d \o SubSeq(h.path, i + 1, Len(h.path)) :
                  i \in 0 .. Len(h.path), d \in Dots}
Detours ==
    UNION {{Request(h.method, p, "ann's", z, u, Threshold - 1) :
              p \in WithDots(h), u \in Headers,
              z \in {NotBearer("none"), JWT("known", TRUE, "access", {"customer"}, FALSE)}} :
           h \in HANDLERS}

AllRequests == Calls \cup Odd \cup Detours
TwoOwners   == [i \in {"ann's", "bob's"} |-> IF i = "ann's" THEN "ann" ELSE "bob"]

\* Fourteen zeros and two digits: every remainder modulo 97 occurs.
ShortAcctNos == {[i \in 1..16 |-> IF i < 15 THEN 0 ELSE d[i - 14]] : d \in (0..9) \X (0..9)}
=============================================================================
