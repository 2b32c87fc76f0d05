-------------------------- MODULE TransferIntakeMC --------------------------
(* Small instances of TransferIntake for TLC. *)
EXTENDS TransferIntake, TLC

Handlers == Permutations(Workers)
=============================================================================
