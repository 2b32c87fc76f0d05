---------------------------- MODULE FraudWindowsMC ----------------------------
(* A small instance of FraudWindows for TLC. *)
EXTENDS FraudWindows, TLC

CONSTANT payee

\* All transfers go to one destination: destinations do not affect one another.
OnePayee == [t \in Transfers |-> payee]

Same == Permutations(Workers) \cup Permutations(Transfers)
=============================================================================
