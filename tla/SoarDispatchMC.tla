---------------------------- MODULE SoarDispatchMC ----------------------------
(* Small instances of SoarDispatch for TLC. *)
EXTENDS SoarDispatch, TLC

Alert(source, signed, rule, fields) ==
    [source |-> source, signed |-> signed, rule |-> rule, rawNs |-> None,
     ns |-> fields[1], pod |-> fields[2], user |-> fields[3], ip |-> fields[4],
     account |-> fields[5], binding |-> fields[6]]

\* An escalation through a binding of one namespace; its reports share one dedupe key.
Escalation == Alert("qradar", TRUE, "rbac-privilege-escalation",
                    <<"ns1", None, None, None, None, "b1">>)
Escape   == Alert("falco", FALSE, "Container Escape", <<"ns1", "pod1", None, None, None, None>>)
Stuffing(signed) == Alert("qradar", signed, "cred-stuffing", <<None, None, None, "ip1", None, None>>)
Fraud    == Alert("ml", FALSE, "unused", <<None, None, "user1", None, "acct1", None>>)
Exfiltration == Alert("qradar", TRUE, "dns-exfiltration", <<None, None, None, None, None, None>>)

MixedAlerts   == {Escalation, Escape, Stuffing(TRUE), Stuffing(FALSE)}
RetryAlerts   == {Exfiltration, Fraud}

FalcoSlug == [r \in {a.rule : a \in Alerts} |->
                IF r = "Container Escape" THEN "container-escape" ELSE r]

AnyHandler == Permutations(Workers)
=============================================================================
