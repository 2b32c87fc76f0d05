---------------------------- MODULE SoarPlaybooks ----------------------------
(* What soar-service runs for which rule. *)
EXTENDS Sequences

Playbooks == {"PB-001", "PB-002", "PB-003", "PB-004", "PB-005", "PB-006", "PB-007", "PB-008"}

\* Rule -> playbooks
DISPATCH(rule) ==
    CASE rule = "cred-stuffing"                              -> <<"PB-001", "PB-006">>
      [] rule = "jwt-anomaly"                                -> <<"PB-002", "PB-001">>
      [] rule \in {"memory-corruption", "container-escape"}  -> <<"PB-007", "PB-004">>
      [] rule = "dns-exfiltration"                           -> <<"PB-008">>
      [] rule = "rbac-privilege-escalation"                  -> <<"PB-005">>
      [] rule = "fraud-ml"                                   -> <<"PB-003", "PB-006">>
      [] OTHER                                               -> <<>>
=============================================================================
