--------------------------- MODULE AccountLedgerMC ---------------------------
(* Small instances of AccountLedger for TLC. *)
EXTENDS AccountLedger, TLC

Handlers == Permutations(Workers)
=============================================================================
