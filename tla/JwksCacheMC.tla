----------------------------- MODULE JwksCacheMC -----------------------------
(* Small instances of JwksCache for TLC. *)
EXTENDS JwksCache, TLC

CONSTANTS h1, h2, h3, service, gateway

\* Two handlers of one service process and one of the gateway.
Processes == [h \in Handlers |-> IF h = h3 THEN gateway ELSE service]

Same == Permutations(Issuers) \cup Permutations(Handlers \ {h3})
=============================================================================
