----------------------------- MODULE AuthLoginMC -----------------------------
(* Small instances of AuthLogin for TLC. *)
EXTENDS AuthLogin

CONSTANTS w1, w2, r1, r2

\* Without Vault every replica has keys of its own; the first 32 characters of a
\* token reach into the kid, so the counters are per replica as well.
TwoReplicas == [w \in Workers |-> IF w = w1 THEN r1 ELSE r2]
KidPrefix   == [r \in {r1, r2} |-> r]

Body(e, ph, pw) == [email |-> e, phone |-> ph, pw |-> pw]

\* Two accounts that want one phone, and retries of each.
Rivals == {Body("ann", "111", "pw1"), Body("bob", "111", "pw2")}
Single == {Body("ann", "111", "pw1"), Body("ann", "111", "pw2")}

\* The replicas have the same code: they may be swapped, with their handlers.
SwapReplicas == {[x \in {w1, w2, r1, r2} |->
                    CASE x = w1 -> w2 [] x = w2 -> w1 [] x = r1 -> r2 [] x = r2 -> r1]}
=============================================================================
