---------------------------- MODULE RefreshTokens ----------------------------
(***************************************************************************)
(* auth-service: sessions and refresh tokens in Redis.  POST /token/refresh*)
(* runs RefreshTokenStore.rotate and then SessionStore.get; each of them   *)
(* is a get followed later by a set, with other handlers in between.  A    *)
(* login starts a session with the first token of its family; a token is   *)
(* usable by clients once a 200 response has delivered it.  Sessions are   *)
(* stored encrypted under the key of the replica that wrote them, which is *)
(* the same for all replicas only if SB_SESSION_KEY_HEX is set.            *)
(***************************************************************************)
EXTENDS Integers, FiniteSets

CONSTANTS Workers,      \* handler slots of all auth-service replicas
          Keys,         \* session encryption keys
          KeyOf,        \* [Workers -> Keys], the key of the worker's replica
          Sids,         \* session ids, one login each
          MaxTokens,    \* bound: refresh tokens issued
          MaxArrivals   \* bound: refresh requests, repeated ones included

ASSUME BoundAssumption == MaxTokens \in Nat /\ MaxArrivals \in Nat
ASSUME KeyAssumption   == KeyOf \in [Workers -> Keys] /\ "absent" \notin Keys

Tokens == 1 .. MaxTokens        \* random_token(32): never drawn twice
States == {"absent", "live", "used", "compromised"}

VARIABLES
    session,            \* [Sids -> "absent" or the key it is under], sb:sess:*
    token,              \* [Tokens -> States], keys sb:rtk:*
    family,             \* [Tokens -> Sids], the sid part of the value
    issued,             \* tokens drawn so far
    pc, presented, seen, fresh,  \* each refresh handler
    arrivals,           \* refresh requests so far
    \* history, read only by the properties:
    begun,              \* sessions that were created
    delivered,          \* tokens that reached a client
    rotations,          \* [Tokens -> successful refreshes that presented it]
    loggedOut,          \* sessions revoked by logout
    revived,            \* logged out while a refresh was re-writing the session
    excused             \* sessions with overlapping refreshes or reuse of a
                        \* token already marked compromised

handler == <<pc, presented, seen, fresh>>
history == <<begun, delivered, rotations, loggedOut, revived, excused>>
vars    == <<session, token, family, issued, handler, arrivals, history>>

Sid(w)      == family[presented[w]]
InFlight(s) == {w \in Workers : pc[w] # "idle" /\ Sid(w) = s}

Init ==
    /\ session = [s \in Sids |-> "absent"]
    /\ token = [t \in Tokens |-> "absent"]
    /\ \E s \in Sids : family = [t \in Tokens |-> s]
    /\ issued = 0
    /\ pc = [w \in Workers |-> "idle"]
    /\ presented = [w \in Workers |-> 0]
    /\ seen = [w \in Workers |-> "absent"]
    /\ fresh = [w \in Workers |-> 0]
    /\ arrivals = 0
    /\ begun = {} /\ delivered = {} /\ loggedOut = {} /\ revived = {} /\ excused = {}
    /\ rotations = [t \in Tokens |-> 0]

Goto(w, place) == pc' = [pc EXCEPT ![w] = place]

\* RefreshTokenStore.issue
NewToken(s) ==
    /\ issued < MaxTokens
    /\ issued' = issued + 1
    /\ token' = [token EXCEPT ![issued + 1] = "live"]
    /\ family' = [family EXCEPT ![issued + 1] = s]

-----------------------------------------------------------------------------
(* Login, logout and the TTLs *)

\* login or mfa_verify succeeds: SessionStore.create, then the first token.
Login(w, s) ==
    /\ s \notin begun
    /\ begun' = begun \cup {s}
    /\ session' = [session EXCEPT ![s] = KeyOf[w]]
    /\ NewToken(s)
    /\ delivered' = delivered \cup {issued + 1}
    /\ UNCHANGED <<handler, arrivals, rotations, loggedOut, revived, excused>>

\* SessionStore.revoke: the session goes, the family's tokens stay.
Logout(s) ==
    /\ s \in begun
    /\ session' = [session EXCEPT ![s] = "absent"]
    /\ loggedOut' = loggedOut \cup {s}
    /\ revived' = IF \E w \in InFlight(s) : pc[w] = "persist" THEN revived \cup {s}
                                                               ELSE revived
    /\ UNCHANGED <<token, family, issued, handler, arrivals, begun, delivered,
                   rotations, excused>>

\* 15 minutes without a refresh.
ExpireSession(s) ==
    /\ session[s] # "absent"
    /\ session' = [session EXCEPT ![s] = "absent"]
    /\ UNCHANGED <<token, family, issued, handler, arrivals, history>>

\* Seven days after the last write of the key.
ExpireToken(t) ==
    /\ token[t] # "absent"
    /\ token' = [token EXCEPT ![t] = "absent"]
    /\ UNCHANGED <<session, family, issued, handler, arrivals, history>>

-----------------------------------------------------------------------------
(* POST /token/refresh, one action per Redis command *)

Present(w, t) ==
    /\ pc[w] = "idle" /\ arrivals < MaxArrivals
    /\ arrivals' = arrivals + 1
    /\ presented' = [presented EXCEPT ![w] = t]
    /\ Goto(w, "read")
    /\ excused' = IF InFlight(family[t]) # {} \/ token[t] = "compromised"
                  THEN excused \cup {family[t]} ELSE excused
    /\ UNCHANGED <<session, token, family, issued, seen, fresh, begun, delivered,
                   rotations, loggedOut, revived>>

\* redis.get of the token; an unknown or expired one is a 401.
ReadToken(w) ==
    /\ pc[w] = "read"
    /\ seen' = [seen EXCEPT ![w] = token[presented[w]]]
    /\ Goto(w, IF token[presented[w]] = "absent" THEN "idle" ELSE "write")
    /\ UNCHANGED <<session, token, family, issued, presented, fresh, arrivals, history>>

\* state == "used": mark this token's key compromised, answer 401.
BurnToken(w) ==
    /\ pc[w] = "write" /\ seen[w] = "used"
    /\ token' = [token EXCEPT ![presented[w]] = "compromised"]
    /\ Goto(w, "idle")
    /\ UNCHANGED <<session, family, issued, presented, seen, fresh, arrivals, history>>

\* Fault: the old token is left live when a new one is issued.
MarkUsedForgotten(w) ==
    /\ pc[w] = "write" /\ seen[w] # "used"
    /\ Goto(w, "issue")
    /\ UNCHANGED <<session, token, family, issued, presented, seen, fresh, arrivals, history>>

\* Any other state that was read, "compromised" too: mark used and go on.
MarkUsed(w) ==
    /\ pc[w] = "write" /\ seen[w] # "used"
    /\ token' = [token EXCEPT ![presented[w]] = "used"]
    /\ Goto(w, "issue")
    /\ UNCHANGED <<session, family, issued, presented, seen, fresh, arrivals, history>>

IssueNext(w) ==
    /\ pc[w] = "issue"
    /\ NewToken(Sid(w))
    /\ fresh' = [fresh EXCEPT ![w] = issued + 1]
    /\ Goto(w, "session")
    /\ UNCHANGED <<session, presented, seen, arrivals, history>>

\* Fault: the session is re-created from the token's user and sid when missing.
ReadSessionRecreates(w) ==
    /\ pc[w] = "session"
    /\ Goto(w, "persist")
    /\ UNCHANGED <<session, token, family, issued, presented, seen, fresh, arrivals, history>>

\* SessionStore.get, the read; no session is a 401 and the new token is lost.
ReadSession(w) ==
    /\ pc[w] = "session"
    /\ Goto(w, CASE session[Sid(w)] = "absent" -> "idle"
                 [] session[Sid(w)] = KeyOf[w] -> "persist"
                 [] OTHER                      -> "discard")
    /\ UNCHANGED <<session, token, family, issued, presented, seen, fresh, arrivals, history>>

\* SessionStore.get, a session it cannot decrypt is deleted; 401.
DiscardSession(w) ==
    /\ pc[w] = "discard"
    /\ session' = [session EXCEPT ![Sid(w)] = "absent"]
    /\ Goto(w, "idle")
    /\ UNCHANGED <<token, family, issued, presented, seen, fresh, arrivals, history>>

\* SessionStore.get, the sliding re-write of what it read; then the 200, which
\* may not reach the client.
PersistSession(w) ==
    /\ pc[w] = "persist"
    /\ session' = [session EXCEPT ![Sid(w)] = KeyOf[w]]
    /\ \E got \in {{}, {fresh[w]}} : delivered' = delivered \cup got
    /\ rotations' = [rotations EXCEPT ![presented[w]] = @ + 1]
    /\ Goto(w, "idle")
    /\ UNCHANGED <<token, family, issued, presented, seen, fresh, arrivals, begun,
                   loggedOut, revived, excused>>

\* Redis fails or the pod dies.
Fail(w) ==
    /\ pc[w] # "idle"
    /\ Goto(w, "idle")
    /\ UNCHANGED <<session, token, family, issued, presented, seen, fresh, arrivals, history>>

-----------------------------------------------------------------------------
Step(w) ==
    \/ ReadToken(w) \/ BurnToken(w) \/ MarkUsed(w) \/ IssueNext(w)
    \/ ReadSession(w) \/ DiscardSession(w) \/ PersistSession(w)

Next ==
    \/ \E s \in Sids : Logout(s) \/ ExpireSession(s) \/ \E w \in Workers : Login(w, s)
    \/ \E t \in 1 .. issued : ExpireToken(t)
    \/ \E w \in Workers : Step(w) \/ Fail(w) \/ \E t \in delivered : Present(w, t)

Spec == Init /\ [][Next]_vars

-----------------------------------------------------------------------------
(* Properties *)

TypeOK ==
    /\ session \in [Sids -> {"absent"} \cup Keys]
    /\ token \in [Tokens -> States]
    /\ family \in [Tokens -> Sids]
    /\ issued \in 0 .. MaxTokens
    /\ pc \in [Workers -> {"idle", "read", "write", "issue", "session", "persist", "discard"}]
    /\ presented \in [Workers -> 0 .. MaxTokens]
    /\ seen \in [Workers -> States]
    /\ fresh \in [Workers -> 0 .. MaxTokens]
    /\ arrivals \in Nat
    /\ begun \subseteq Sids /\ loggedOut \subseteq Sids
    /\ revived \subseteq Sids /\ excused \subseteq Sids
    /\ delivered \subseteq 1 .. issued
    /\ rotations \in [Tokens -> Nat]

\* The refresh tokens of a session form one chain: while its refreshes do not
\* overlap and no compromised token comes back, at most one token that a client
\* has is live and each was rotated at most once, whatever fails or expires.
OneLiveToken ==
    \A s \in Sids \ excused :
        /\ \A t, u \in delivered :
              family[t] = s /\ family[u] = s /\ token[t] = "live" /\ token[u] = "live" => t = u
        /\ \A t \in delivered : family[t] = s => rotations[t] <= 1

\* A logged-out session never comes back and yields no further refresh, unless a
\* refresh had read the session before the logout and re-writes it after.
LogoutIsFinal ==
    \A s \in loggedOut \ revived :
        session[s] = "absent" /\ ~ \E w \in InFlight(s) : pc[w] = "persist"
=============================================================================
