--------------------------- MODULE RefreshTokensMC ---------------------------
(* Small instances of RefreshTokens for TLC. *)
EXTENDS RefreshTokens, TLC

CONSTANTS w1, w2, w3, k1, k2

\* SB_SESSION_KEY_HEX is set: all replicas have one key.
SharedKey == [w \in Workers |-> k1]

\* It is not, and each replica drew its own key when it started: w1 and w2 are
\* handlers of one replica, w3 of the other.
TwoReplicas == [w \in Workers |-> IF w = w3 THEN k2 ELSE k1]

SameReplica == Permutations(Workers \ {w3})
=============================================================================
