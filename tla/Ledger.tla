------------------------------- MODULE Ledger -------------------------------
(***************************************************************************)
(* What the account database promises, without workers, locks or Redis:    *)
(* every change of an account is one atomic credit or debit of an active   *)
(* account, it counts one version, and no balance leaves 0 .. MaxBalance   *)
(* (the range of numeric(18,2) that the code's debit check leaves).        *)
(***************************************************************************)
EXTENDS Integers

CONSTANTS Accounts,     \* the account rows that may come to exist
          Amounts,      \* the amounts a request may carry
          MaxBalance    \* the largest value of the balance column

VARIABLES opened, frozen, balance, version

vars == <<opened, frozen, balance, version>>

Init ==
    /\ opened = {}
    /\ frozen = {}
    /\ balance = [a \in Accounts |-> 0]
    /\ version = [a \in Accounts |-> 0]

Open(a) ==
    /\ a \notin opened
    /\ opened' = opened \cup {a}
    /\ UNCHANGED <<frozen, balance, version>>

Freeze(a) ==
    /\ a \in opened \ frozen
    /\ frozen' = frozen \cup {a}
    /\ UNCHANGED <<opened, balance, version>>

\* One committed posting moves the balance by delta and counts a version.
Post(a, delta) ==
    /\ a \in opened \ frozen
    /\ balance[a] + delta \in 0 .. MaxBalance
    /\ balance' = [balance EXCEPT ![a] = @ + delta]
    /\ version' = [version EXCEPT ![a] = @ + 1]
    /\ UNCHANGED <<opened, frozen>>

Next ==
    \E a \in Accounts :
        \/ Open(a)
        \/ Freeze(a)
        \/ \E x \in Amounts : Post(a, x) \/ Post(a, -x)

Spec == Init /\ [][Next]_vars
=============================================================================
