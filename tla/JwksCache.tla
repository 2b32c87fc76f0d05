------------------------------- MODULE JwksCache -------------------------------
(***************************************************************************)
(* Signing keys and their verification.  Each auth-service replica has a   *)
(* key ring: loaded from Vault when it starts, or one ephemeral key if     *)
(* Vault is not configured or the load fails.  The services and the        *)
(* gateway verify tokens with a JWKSCache per process, filled from the     *)
(* JWKS endpoint of whichever replica answers and replaced as a whole; a   *)
(* fetch is an await, so several handlers of a process may be in it at     *)
(* once and an older answer may be applied last.  A kid is the fingerprint *)
(* of its key: key and kid are one number here.                            *)
(***************************************************************************)
EXTENDS Integers, FiniteSets

CONSTANTS Issuers,          \* of auth-service
          Verifiers,        \* processes that verify tokens
          TypChecked,       \* those of them that compare typ: not the gateway
          Handlers,         \* handler slots of the verifiers
          VerifierOf,       \* [Handlers -> Verifiers]
          VaultConfigured,  \* VAULT_ADDR is set
          VaultMayFail,     \* Vault may be unreachable when a replica starts
          MaxKeys,          \* bound: keys drawn
          MaxTokens,        \* bound: unexpired tokens at one time
          NoKid

Kids         == 1 .. MaxKeys
Types        == {"access", "pre-auth"}
Rings        == [active : Kids, previous : Kids \cup {NoKid}]
SignedTokens == [kid : Kids, signer : Kids \cup {NoKid}, typ : Types]
NoToken      == [kid |-> NoKid, signer |-> NoKid, typ |-> NoKid]

ASSUME KeyAssumption      == MaxKeys \in Nat \ {0} /\ MaxTokens \in Nat /\ NoKid \notin Kids
ASSUME VerifierAssumption == VerifierOf \in [Handlers -> Verifiers]

VARIABLES
    vault,             \* KV path auth/keys
    ring,              \* [Issuers -> Rings]
    drawn,             \* keys drawn so far
    issued,            \* tokens signed and not expired
    cache, fresh,      \* each verifier: kids it holds, time is before _exp
    stage, token, got, \* each handler: its step, its token, the JWKS answer to apply
    published          \* history: every JWKS a replica has had

verification == <<stage, token, got>>
keys         == <<vault, ring, drawn, published>>
jwksVars     == <<keys, issued, cache, fresh, verification>>

\* KeyRing.jwks
Jwks(g) == {g.active, g.previous} \ {NoKid}

JwksInit ==
    /\ vault = [active |-> 1, previous |-> NoKid]
    /\ ring = [r \in Issuers |-> vault]
    /\ drawn = 1
    /\ published = {{1}}
    /\ issued = {}
    /\ cache = [v \in Verifiers |-> {}]
    /\ fresh = [v \in Verifiers |-> FALSE]
    /\ stage = [h \in Handlers |-> "idle"]
    /\ token = [h \in Handlers |-> NoToken]
    /\ got = [h \in Handlers |-> {}]

-----------------------------------------------------------------------------
(* auth-service: key rings and tokens *)

\* keyring_from_env and load_from_vault: a replica (re)starts and takes over
\* Vault's pair.
LoadFromVault(r) ==
    /\ VaultConfigured
    /\ ring' = [ring EXCEPT ![r] = vault]
    /\ published' = published \cup {Jwks(vault)}
    /\ UNCHANGED <<vault, drawn, issued, cache, fresh, verification>>

\* bootstrap_local: no Vault, or any exception while loading from it.
BootstrapLocal(r) ==
    /\ ~ VaultConfigured \/ VaultMayFail
    /\ drawn < MaxKeys
    /\ drawn' = drawn + 1
    /\ ring' = [ring EXCEPT ![r] = [active |-> drawn + 1, previous |-> NoKid]]
    /\ published' = published \cup {{drawn + 1}}
    /\ UNCHANGED <<vault, issued, cache, fresh, verification>>

\* An operator rotates the pair in Vault; running replicas do not see it.
RotateVault ==
    /\ drawn < MaxKeys
    /\ drawn' = drawn + 1
    /\ vault' = [active |-> drawn + 1, previous |-> vault.active]
    /\ UNCHANGED <<ring, published, issued, cache, fresh, verification>>

Issue(r, typ) ==
    /\ Cardinality(issued) < MaxTokens
    /\ issued' = issued \cup {[kid |-> ring[r].active, signer |-> ring[r].active, typ |-> typ]}
    /\ UNCHANGED <<keys, cache, fresh, verification>>

ExpireIssued(t) ==
    /\ issued' = issued \ {t}
    /\ UNCHANGED <<keys, cache, fresh, verification>>

-----------------------------------------------------------------------------
(* A verifier *)

\* A request with a token that a replica signed, or that claims a kid.
Receive(h, t) ==
    /\ stage[h] = "idle"
    /\ stage' = [stage EXCEPT ![h] = "lookup"]
    /\ token' = [token EXCEPT ![h] = t]
    /\ UNCHANGED <<keys, issued, cache, fresh, got>>

\* The verdict.  The handler stops there only to go on with an accepted token or
\* to answer "unknown kid"; any other answer ends it.
Decided(h, verdict) ==
    /\ stage' = [stage EXCEPT ![h] = verdict]
    /\ got' = [got EXCEPT ![h] = {}]
    /\ token' = [token EXCEPT ![h] = IF verdict = "idle" THEN NoToken ELSE @]

Reply(h) ==
    /\ stage[h] \in {"accepted", "unknown kid"}
    /\ Decided(h, "idle")
    /\ UNCHANGED <<keys, issued, cache, fresh>>

\* jwt.decode and the typ comparison.
Decode(h) ==
    LET t == token[h] IN
    IF t.signer = t.kid /\ t \in issued /\ (VerifierOf[h] \in TypChecked => t.typ = "access")
    THEN "accepted" ELSE "idle"

\* Fault: a cached kid is used whatever its age.
LookupIgnoresAge(h) ==
    /\ stage[h] = "lookup"
    /\ LET v == VerifierOf[h] IN
       IF token[h].kid \in cache[v]
          THEN Decided(h, Decode(h))
          ELSE stage' = [stage EXCEPT ![h] = "fetch"] /\ UNCHANGED <<token, got>>
    /\ UNCHANGED <<keys, issued, cache, fresh>>

\* JWKSCache.get up to the await.
Lookup(h) ==
    /\ stage[h] = "lookup"
    /\ LET v == VerifierOf[h] IN
       IF fresh[v] /\ token[h].kid \in cache[v]
          THEN Decided(h, Decode(h))
          ELSE stage' = [stage EXCEPT ![h] = "fetch"] /\ UNCHANGED <<token, got>>
    /\ UNCHANGED <<keys, issued, cache, fresh>>

\* The JWKS endpoint of some replica answers.
Fetch(h, r) ==
    /\ stage[h] = "fetch"
    /\ got' = [got EXCEPT ![h] = Jwks(ring[r])]
    /\ stage' = [stage EXCEPT ![h] = "apply"]
    /\ UNCHANGED <<keys, issued, cache, fresh, token>>

\* No answer, or none with status 200: the exception is no KeyError and no
\* PyJWTError, the request ends with a 500.
FetchFails(h) ==
    /\ stage[h] \in {"fetch", "apply"}
    /\ Decided(h, "idle")
    /\ UNCHANGED <<keys, issued, cache, fresh>>

\* Fault: the answer is merged into the cache.
ApplyMerges(h) ==
    /\ stage[h] = "apply"
    /\ LET v == VerifierOf[h] IN
          /\ cache' = [cache EXCEPT ![v] = @ \cup got[h]]
          /\ fresh' = [fresh EXCEPT ![v] = TRUE]
    /\ Decided(h, IF token[h].kid \in got[h] THEN Decode(h) ELSE "unknown kid")
    /\ UNCHANGED <<keys, issued>>

\* The answer replaces the cache, however old it is; the kid is looked up again.
Apply(h) ==
    /\ stage[h] = "apply"
    /\ LET v == VerifierOf[h] IN
          /\ cache' = [cache EXCEPT ![v] = got[h]]
          /\ fresh' = [fresh EXCEPT ![v] = TRUE]
    /\ Decided(h, IF token[h].kid \in got[h] THEN Decode(h) ELSE "unknown kid")
    /\ UNCHANGED <<keys, issued>>

\* 300 seconds after the last _refresh.
ExpireCache(v) ==
    /\ fresh[v]
    /\ fresh' = [fresh EXCEPT ![v] = FALSE]
    /\ UNCHANGED <<keys, issued, cache, verification>>

-----------------------------------------------------------------------------
Forged == [kid : Kids, signer : {NoKid}, typ : {"access"}]

VerifyStep(h) ==
    Lookup(h) \/ Reply(h) \/ Apply(h) \/ FetchFails(h) \/ \E r \in Issuers : Fetch(h, r)

JwksNext ==
    \/ \E r \in Issuers : LoadFromVault(r) \/ BootstrapLocal(r)
                           \/ \E typ \in Types : Issue(r, typ)
    \/ RotateVault
    \/ \E t \in issued : ExpireIssued(t)
    \/ \E h \in Handlers : VerifyStep(h) \/ \E t \in issued \cup Forged : Receive(h, t)
    \/ \E v \in Verifiers : ExpireCache(v)

JwksSpec == JwksInit /\ [][JwksNext]_jwksVars

-----------------------------------------------------------------------------
(* Properties *)

JwksTypeOK ==
    /\ vault \in Rings /\ ring \in [Issuers -> Rings]
    /\ drawn \in Kids
    /\ published \subseteq SUBSET Kids
    /\ issued \subseteq SignedTokens
    /\ cache \in [Verifiers -> SUBSET Kids] /\ fresh \in [Verifiers -> BOOLEAN]
    /\ stage \in [Handlers -> {"idle", "lookup", "fetch", "apply", "accepted", "unknown kid"}]
    /\ token \in [Handlers -> SignedTokens \cup {NoToken}]
    /\ got \in [Handlers -> SUBSET Kids]

\* A verifier's cache is at every time the whole key set of one replica at one
\* moment, never a mixture of two answers, though fetches of its handlers overlap.
CacheIsOneRing == \A v \in Verifiers : cache[v] \in published \cup {{}}

\* The keys that v may still verify with, or be about to cache.
Reach(v) == (IF fresh[v] THEN cache[v] ELSE {})
            \cup UNION {got[h] : h \in {x \in Handlers : VerifierOf[x] = v}}
Retired  == {k \in 1 .. drawn : k \notin Jwks(vault) /\ \A r \in Issuers : k \notin Jwks(ring[r])}

\* A key that no replica and not Vault holds any more, and that is out of a
\* verifier's reach, never comes back to it; and a verifier accepts only unexpired
\* tokens signed by the key they name, within its reach, by services only access.
RetiredKeysStayOut ==
    [][/\ \A v \in Verifiers : (Retired \ Reach(v)) \cap Reach(v)' = {}
       /\ \A h \in Handlers :
             stage[h] # "accepted" /\ stage'[h] = "accepted" =>
                /\ token[h] \in issued /\ token[h].signer = token[h].kid
                /\ token[h].kid \in Reach(VerifierOf[h])
                /\ VerifierOf[h] \in TypChecked => token[h].typ = "access"]_jwksVars
=============================================================================
