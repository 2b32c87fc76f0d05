------------------------------ MODULE TriageMC ------------------------------
(* A small instance of Triage for TLC. *)
EXTENDS Triage

AllRules == {"cred-stuffing", "jwt-anomaly", "memory-corruption", "container-escape",
             "dns-exfiltration", "rbac-privilege-escalation", "fraud-ml", "new-rule"}
AllHints == Severities \cup {"urgent"}
SomeReplies == [severity : {"info", "critical", "severe"}, playbook : {"PB-001"}]
=============================================================================
