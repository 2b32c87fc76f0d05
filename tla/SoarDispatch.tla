----------------------------- MODULE SoarDispatch -----------------------------
(***************************************************************************)
(* soar-service: a webhook turns an alert into an offense, claims its      *)
(* dedupe key in Redis (SET NX EX 300) and runs the playbooks of its rule  *)
(* one after the other, catching what each of them raises.  The two        *)
(* replicas share Redis and the cluster; a playbook that makes two calls   *)
(* can be interleaved with the other replica between them, and any call    *)
(* may fail before or after it took effect.                                *)
(***************************************************************************)
EXTENDS Integers, Sequences, SoarPlaybooks

CONSTANTS Workers,      \* handler slots of all replicas
          Alerts,       \* webhook bodies with their signature check's outcome
          Slug,         \* falco's rule names to rule ids: spaces to dashes, lower case
          Nodes,        \* cluster nodes
          DefaultNs,    \* the namespace "default"
          AppNs,        \* the namespace "securebank-app"
          None          \* an absent field

ASSUME AlertsAssumption ==
    \A a \in Alerts : /\ DOMAIN a = {"source", "signed", "rule", "rawNs", "ns", "pod", "user",
                                     "ip", "account", "binding"}
                     /\ a.source \in {"qradar", "falco", "ml"}

\* The fields a playbook returns early without.
Needs(pb) ==
    CASE pb = "PB-001"              -> {"ip"}
      [] pb = "PB-003"              -> {"account"}
      [] pb \in {"PB-004", "PB-007"} -> {"pod", "ns"}
      [] pb = "PB-005"              -> {"binding"}
      [] pb = "PB-006"              -> {"user"}
      [] OTHER                      -> {}

\* The three webhooks' views of a body; ns and pod of a falco alert are those
\* of its output_fields, so its raw namespace is absent.
Offense(a) ==
    CASE a.source = "qradar" -> [a EXCEPT !.rawNs = a.ns]
      [] a.source = "falco"  -> [a EXCEPT !.rule = Slug[a.rule], !.user = None, !.ip = None,
                                          !.account = None, !.rawNs = None]
      [] a.source = "ml"     -> [a EXCEPT !.rule = "fraud-ml", !.ns = None, !.pod = None,
                                          !.ip = None, !.rawNs = None]

\* Absent fields hash as the empty string: the key is what is left, in order.
\* The binding, the offense id and the severity are no part of it.
DedupeKey(o) == SelectSeq(<<o.source, o.rule, o.ns, o.pod, o.user, o.ip, o.account>>,
                          LAMBDA piece : piece # None)

NoOffense  == [source |-> None, signed |-> FALSE, rule |-> None, rawNs |-> None, ns |-> None,
               pod |-> None, user |-> None, ip |-> None, account |-> None, binding |-> None]
Offenses   == {Offense(a) : a \in Alerts}
DedupeKeys == {DedupeKey(o) : o \in Offenses}

HasFields(o, pb) == \A f \in Needs(pb) : o[f] # None
PodOf(o)     == <<o.ns, o.pod>>
BindingOf(o) == <<IF o.rawNs = None THEN DefaultNs ELSE o.rawNs, o.binding>>
NsOf(o)      == IF o.ns = None THEN AppNs ELSE o.ns
Pods         == {PodOf(o) : o \in {x \in Offenses : HasFields(x, "PB-004")}}
Bindings     == {BindingOf(o) : o \in Offenses}
Platforms    == [host : [Pods -> Nodes \cup {None}], quarantined : SUBSET (Pods \X Nodes),
                 cordoned : SUBSET Nodes, isolated : SUBSET {NsOf(o) : o \in Offenses},
                 bindings : SUBSET Bindings, clusterBindings : SUBSET {b[2] : b \in Bindings}]
Running(o, pb)   == \E i \in DOMAIN DISPATCH(o.rule) : DISPATCH(o.rule)[i] = pb

VARIABLES
    dryRun,         \* settings.dry_run
    dedupe,         \* keys soar:dedupe:* that are set
    denied,         \* keys gw:deny:ip:* that are set
    k8s,            \* host of each pod (None: no such pod), labelled pod instances,
                    \* cordoned nodes, namespaces without egress, bindings
    pc, off, node, results,     \* each handler; node is what pb_004 read
    \* history, read only by the properties:
    claims,         \* dispatches begun under a key since it was last absent
    hosted          \* [Pods -> nodes that hosted the pod]

handler == <<pc, off, node, results>>
history == <<claims, hosted>>
vars    == <<dryRun, dedupe, denied, k8s, handler, history>>

Init ==
    /\ dryRun \in BOOLEAN
    /\ dedupe = {} /\ denied = {}
    /\ \E host \in [Pods -> Nodes \cup {None}] :
          /\ k8s = [host |-> host, quarantined |-> {}, cordoned |-> {}, isolated |-> {},
                    bindings |-> Bindings, clusterBindings |-> {b[2] : b \in Bindings}]
          /\ hosted = [p \in Pods |-> {host[p]}]
    /\ pc = [w \in Workers |-> "idle"]
    /\ off = [w \in Workers |-> NoOffense]
    /\ node = [w \in Workers |-> None]
    /\ results = [w \in Workers |-> <<>>]
    /\ claims = [k \in DedupeKeys |-> 0]

Goto(w, place) == pc' = [pc EXCEPT ![w] = place]

\* The handler ends, its locals are gone.
Return(w) ==
    /\ Goto(w, "idle")
    /\ off' = [off EXCEPT ![w] = NoOffense]
    /\ node' = [node EXCEPT ![w] = None]
    /\ results' = [results EXCEPT ![w] = <<>>]

-----------------------------------------------------------------------------
(* The webhooks and _run *)

\* Fault: the signature is not checked.
ReceiveUnverified(w, a) ==
    /\ pc[w] = "idle"
    /\ off' = [off EXCEPT ![w] = Offense(a)]
    /\ Goto(w, "claim")
    /\ UNCHANGED <<dryRun, dedupe, denied, k8s, node, results, claims, hosted>>

\* A qradar body without a valid signature is a 401 that changes nothing.
Receive(w, a) ==
    /\ pc[w] = "idle"
    /\ a.source = "qradar" => a.signed
    /\ off' = [off EXCEPT ![w] = Offense(a)]
    /\ Goto(w, "claim")
    /\ UNCHANGED <<dryRun, dedupe, denied, k8s, node, results, claims, hosted>>

\* Fault: SET without NX, so every report is dispatched.
ClaimAlways(w) ==
    /\ pc[w] = "claim"
    /\ LET k == DedupeKey(off[w]) IN
          /\ dedupe' = dedupe \cup {k}
          /\ claims' = [claims EXCEPT ![k] = @ + 1]
          /\ Goto(w, "play")
    /\ UNCHANGED <<dryRun, denied, k8s, off, node, results, hosted>>

\* SET NX EX 300; a key that is there is "deduplicated".
Claim(w) ==
    /\ pc[w] = "claim"
    /\ LET k == DedupeKey(off[w]) IN
       \/ /\ k \in dedupe
          /\ Return(w)
          /\ UNCHANGED <<dedupe, claims>>
       \/ /\ k \notin dedupe
          /\ dedupe' = dedupe \cup {k}
          /\ claims' = [claims EXCEPT ![k] = @ + 1]
          /\ Goto(w, "play")
          /\ UNCHANGED <<off, node, results>>
    /\ UNCHANGED <<dryRun, denied, k8s, hosted>>

Plays(w)    == DISPATCH(off[w].rule)
Current(w)  == Plays(w)[Len(results[w]) + 1]
Playing(w, place) == pc[w] = place /\ Len(results[w]) < Len(Plays(w))

\* Fault: a playbook that fails ends the dispatch.
ReportStops(w, ok) ==
    /\ results' = [results EXCEPT ![w] =
                      IF ok THEN Append(@, [playbook |-> Current(w), success |-> ok]) ELSE <<>>]
    /\ Goto(w, IF ok THEN "play" ELSE "idle")

\* The loop of dispatch: whatever a playbook returns or raises is one result,
\* and the next playbook follows.
Report(w, ok) ==
    /\ results' = [results EXCEPT ![w] = Append(@, [playbook |-> Current(w), success |-> ok])]
    /\ Goto(w, "play")

\* All playbooks have run: the answer.
Answer(w) ==
    /\ pc[w] = "play" /\ Len(results[w]) = Len(Plays(w))
    /\ Return(w)
    /\ UNCHANGED <<dryRun, dedupe, denied, k8s, history>>

-----------------------------------------------------------------------------
(* The playbooks; ok is FALSE when the call raised although it took effect *)

Begin(w, pb) == Playing(w, "play") /\ Current(w) = pb /\ HasFields(off[w], pb)

SkipPlaybook(w) ==
    /\ Playing(w, "play") /\ ~ HasFields(off[w], Current(w))
    /\ Report(w, FALSE)
    /\ UNCHANGED <<dryRun, dedupe, denied, k8s, off, node, history>>

\* In a dry run only pb_004 calls anything, the others report success.
PretendPlaybook(w) ==
    /\ Playing(w, "play") /\ HasFields(off[w], Current(w))
    /\ dryRun /\ Current(w) # "PB-004"
    /\ Report(w, TRUE)
    /\ UNCHANGED <<dryRun, dedupe, denied, k8s, off, node, history>>

\* Fault: an exception is recorded as a success.
CallFailsSilently(w) ==
    /\ Playing(w, "play") /\ HasFields(off[w], Current(w))
    /\ ~ dryRun /\ Current(w) # "PB-005"
    /\ Report(w, TRUE)
    /\ UNCHANGED <<dryRun, dedupe, denied, k8s, off, node, history>>

\* A call raises before it took effect, dispatch records the exception.  The
\* POSTs of PB-002, PB-003 and PB-006 always do: no service has their routes.
CallFails(w) ==
    /\ Playing(w, "play") /\ HasFields(off[w], Current(w))
    /\ ~ dryRun /\ Current(w) # "PB-005"
    /\ Report(w, FALSE)
    /\ UNCHANGED <<dryRun, dedupe, denied, k8s, off, node, history>>

BlockIp(w) ==
    /\ Begin(w, "PB-001") /\ ~ dryRun
    /\ denied' = denied \cup {off[w].ip}
    /\ \E ok \in BOOLEAN : Report(w, ok)
    /\ UNCHANGED <<dryRun, dedupe, k8s, off, node, history>>

\* pb_004, read_namespaced_pod: the node the pod is on now.
ResolvePod(w) ==
    /\ Begin(w, "PB-004")
    /\ LET n == k8s.host[PodOf(off[w])] IN
       \/ n = None /\ Report(w, FALSE) /\ UNCHANGED node
       \/ n # None /\ Goto(w, "patch") /\ node' = [node EXCEPT ![w] = n]
          /\ UNCHANGED results
    /\ UNCHANGED <<dryRun, dedupe, denied, k8s, off, history>>

\* pb_004, patch_node: the pod may have moved since.
CordonNode(w) ==
    /\ Playing(w, "patch")
    /\ \E ok, done \in BOOLEAN :
          /\ IF dryRun THEN ok /\ ~ done ELSE ok => done
          /\ k8s' = IF done THEN [k8s EXCEPT !.cordoned = @ \cup {node[w]}] ELSE k8s
          /\ Report(w, ok)
    /\ UNCHANGED <<dryRun, dedupe, denied, off, node, history>>

\* pb_005, delete_namespaced_role_binding; any exception leads to the cluster's.
DeleteBinding(w) ==
    /\ Begin(w, "PB-005") /\ ~ dryRun
    /\ LET b == BindingOf(off[w]) IN
       \/ /\ b \in k8s.bindings
          /\ k8s' = [k8s EXCEPT !.bindings = @ \ {b}]
          /\ Report(w, TRUE)
       \/ /\ \E gone \in {{}, {b}} : k8s' = [k8s EXCEPT !.bindings = @ \ gone]
          /\ Goto(w, "cluster") /\ UNCHANGED results
    /\ UNCHANGED <<dryRun, dedupe, denied, off, node, history>>

\* pb_005, delete_cluster_role_binding of the same name.
DeleteClusterBinding(w) ==
    /\ Playing(w, "cluster")
    /\ LET b == off[w].binding IN
       \/ /\ b \in k8s.clusterBindings
          /\ k8s' = [k8s EXCEPT !.clusterBindings = @ \ {b}]
          /\ \E ok \in BOOLEAN : Report(w, ok)
       \/ UNCHANGED k8s /\ Report(w, FALSE)
    /\ UNCHANGED <<dryRun, dedupe, denied, off, node, history>>

QuarantinePod(w) ==
    /\ Begin(w, "PB-007") /\ ~ dryRun
    /\ LET p == PodOf(off[w]) IN
          /\ k8s.host[p] # None
          /\ k8s' = [k8s EXCEPT !.quarantined = @ \cup {<<p, k8s.host[p]>>}]
    /\ \E ok \in BOOLEAN : Report(w, ok)
    /\ UNCHANGED <<dryRun, dedupe, denied, off, node, history>>

\* A policy that exists already (409) is fine.
EgressQuarantine(w) ==
    /\ Begin(w, "PB-008") /\ ~ dryRun
    /\ k8s' = [k8s EXCEPT !.isolated = @ \cup {NsOf(off[w])}]
    /\ \E ok \in BOOLEAN : Report(w, ok)
    /\ UNCHANGED <<dryRun, dedupe, denied, off, node, history>>

-----------------------------------------------------------------------------
(* Crashes, TTLs and the cluster *)

\* The pod dies, or Redis fails while the key is being claimed (500).
Crash(w) ==
    /\ pc[w] # "idle"
    /\ Return(w)
    /\ UNCHANGED <<dryRun, dedupe, denied, k8s, history>>

\* 300 seconds after the claim; a dispatch may still be running.
ExpireKey(k) ==
    /\ k \in dedupe
    /\ dedupe' = dedupe \ {k}
    /\ claims' = [claims EXCEPT ![k] = 0]
    /\ UNCHANGED <<dryRun, denied, k8s, handler, hosted>>

\* One hour after the block; a dispatch lasts seconds.
ExpireDeny(ip) ==
    /\ ip \in denied
    /\ \A w \in Workers : off[w].ip = ip => pc[w] = "idle"
    /\ denied' = denied \ {ip}
    /\ UNCHANGED <<dryRun, dedupe, k8s, handler, history>>

\* The scheduler replaces a pod, on any node or on none.
MovePod(p, n) ==
    /\ k8s' = [k8s EXCEPT !.host[p] = n]
    /\ hosted' = [hosted EXCEPT ![p] = @ \cup {n}]
    /\ UNCHANGED <<dryRun, dedupe, denied, handler, claims>>

Playbook(w) ==
    \/ SkipPlaybook(w) \/ PretendPlaybook(w) \/ CallFails(w) \/ BlockIp(w)
    \/ ResolvePod(w) \/ CordonNode(w) \/ DeleteBinding(w) \/ DeleteClusterBinding(w)
    \/ QuarantinePod(w) \/ EgressQuarantine(w)

Step(w) == Claim(w) \/ Playbook(w) \/ Answer(w)

Next ==
    \/ \E w \in Workers : Step(w) \/ Crash(w) \/ \E a \in Alerts : Receive(w, a)
    \/ \E k \in DedupeKeys : ExpireKey(k)
    \/ \E ip \in denied : ExpireDeny(ip)
    \/ \E p \in Pods, n \in Nodes \cup {None} : MovePod(p, n)

Spec == Init /\ [][Next]_vars

\* Every started call ends or times out, and Redis drops a key in time.
FairSpec == Spec /\ (\A w \in Workers : WF_vars(Step(w)))
                 /\ (\A k \in DedupeKeys : WF_vars(ExpireKey(k)))

-----------------------------------------------------------------------------
(* Properties *)

TypeOK ==
    /\ dryRun \in BOOLEAN
    /\ dedupe \subseteq DedupeKeys
    /\ denied \subseteq {o.ip : o \in Offenses}
    /\ k8s \in Platforms
    /\ pc \in [Workers -> {"idle", "claim", "play", "patch", "cluster"}]
    /\ off \in [Workers -> Offenses \cup {NoOffense}]
    /\ node \in [Workers -> Nodes \cup {None}]
    /\ results \in [Workers -> Seq([playbook : Playbooks, success : BOOLEAN])]
    /\ claims \in [DedupeKeys -> Nat]
    /\ hosted \in [Pods -> SUBSET (Nodes \cup {None})]

\* Whichever replica gets the report and whoever crashes, the playbooks of an
\* offense are begun at most once between two expiries of its key.
OneDispatchPerWindow == \A k \in DedupeKeys : claims[k] = IF k \in dedupe THEN 1 ELSE 0

\* The offenses in dispatch that a playbook may take effect for.
Due(pb) == {o \in {off[w] : w \in Workers} : /\ ~ dryRun /\ Running(o, pb) /\ HasFields(o, pb)
                                             /\ o.source = "qradar" => o.signed}

\* The platform changes only for an offense in dispatch that came signed or from
\* inside, whose rule lists the playbook, at the address, binding, namespace or
\* pod it names, or a node that hosted this pod; never in a dry run.
EffectsJustified ==
    [][/\ denied' \ denied \subseteq {o.ip : o \in Due("PB-001")}
       /\ \A n \in k8s'.cordoned \ k8s.cordoned :
             \E o \in Due("PB-004") : n \in hosted[PodOf(o)]
       /\ k8s.bindings \ k8s'.bindings \subseteq {BindingOf(o) : o \in Due("PB-005")}
       /\ k8s.clusterBindings \ k8s'.clusterBindings \subseteq {o.binding : o \in Due("PB-005")}
       /\ \A q \in k8s'.quarantined \ k8s.quarantined :
             q[2] \in hosted[q[1]] /\ \E o \in Due("PB-007") : q[1] = PodOf(o)
       /\ k8s'.isolated \ k8s.isolated \subseteq {NsOf(o) : o \in Due("PB-008")}]_vars

\* What the playbook that reported success was for holds in the platform.
Achieved(w, pb) ==
    CASE pb = "PB-001" -> off[w].ip \in denied
      [] pb = "PB-004" -> node[w] \in k8s.cordoned
      [] pb = "PB-005" -> BindingOf(off[w]) \notin k8s.bindings
                          \/ off[w].binding \notin k8s.clusterBindings
      [] pb = "PB-007" -> \E q \in k8s.quarantined : q[1] = PodOf(off[w])
      [] pb = "PB-008" -> NsOf(off[w]) \in k8s.isolated
      [] OTHER         -> FALSE

\* A success that an answer will report is real, though calls time out after
\* taking effect and the other replica works on the same objects: except in a
\* dry run the address is denied, the node that was read is cordoned, a binding
\* of that name is gone.  No success is ever reported for PB-002, 003 and 006.
ReportIsTrue ==
    \A w \in Workers : ~ dryRun /\ pc[w] \in {"play", "patch", "cluster"} =>
        \A i \in DOMAIN results[w] :
            results[w][i].success => Achieved(w, results[w][i].playbook)

\* An offense that is reported again and again has its whole playbook list run
\* to the end again and again once handlers stop crashing: a failed playbook
\* does not stop the next, and a crashed dispatch blocks its key for a time only.
Answered(k) == \E w \in Workers : /\ DedupeKey(off[w]) = k
                                  /\ pc[w] = "play" /\ Len(results[w]) = Len(Plays(w))
EveryPlaybookRuns ==
    \A a \in Alerts :
        /\ []<><<\E w \in Workers : Receive(w, a)>>_vars
        /\ <>[][\A w \in Workers : ~ Crash(w)]_vars
        => []<>Answered(DedupeKey(Offense(a)))
=============================================================================
