------------------------------ MODULE SoarProofs ------------------------------
(***************************************************************************)
(* Theorems about the two users of SoarPlaybooks.  SoarDispatch, for any   *)
(* handlers, alerts, rules and nodes: what a playbook does rests on what   *)
(* its handler still holds at each of its calls, which are the admitted    *)
(* offense, the current playbook, and for PB-004 the node that was read,   *)
(* which hosted the pod though it may no longer.  Triage, for any rules,   *)
(* replies, amounts, drifts and numbers of slices.  They share no state.   *)
(***************************************************************************)
EXTENDS SoarDispatch, Triage, TLAPS

\* A handler at work has an offense that came signed or from inside.
Admitted ==
    \A w \in Workers : pc[w] # "idle" =>
        off[w] \in Offenses /\ (off[w].source = "qradar" => off[w].signed)

At(w, pb) == Len(results[w]) < Len(Plays(w)) /\ Current(w) = pb /\ HasFields(off[w], pb)

\* The second calls of PB-004 and PB-005.
MidPlaybook ==
    \A w \in Workers :
        /\ pc[w] = "patch" => At(w, "PB-004") /\ node[w] \in Nodes /\ node[w] \in hosted[PodOf(off[w])]
        /\ pc[w] = "cluster" => At(w, "PB-005") /\ ~ dryRun

HostsRecorded == \A p \in Pods : k8s.host[p] \in hosted[p]

DispatchInv == TypeOK /\ Admitted /\ MidPlaybook /\ HostsRecorded

-----------------------------------------------------------------------------
(* Operators *)

LEMMA EmptyList == \A S : <<>> \in Seq(S)
  OBVIOUS

\* Every rule has a list of playbooks.
LEMMA DispatchType == ASSUME NEW rule PROVE DISPATCH(rule) \in Seq(Playbooks)
<1>1. /\ <<"PB-001", "PB-006">> \in Seq(Playbooks) /\ <<"PB-002", "PB-001">> \in Seq(Playbooks)
      /\ <<"PB-007", "PB-004">> \in Seq(Playbooks) /\ <<"PB-003", "PB-006">> \in Seq(Playbooks)
  BY DEF Playbooks
<1>2. <<"PB-008">> \in Seq(Playbooks) /\ <<"PB-005">> \in Seq(Playbooks) /\ <<>> \in Seq(Playbooks)
  BY DEF Playbooks
<1> QED BY <1>1, <1>2 DEF DISPATCH

\* The current playbook is one that the offense's rule lists.
LEMMA CurrentType ==
  ASSUME NEW w \in Workers, Len(results[w]) \in Nat, Len(results[w]) < Len(Plays(w))
  PROVE  Current(w) \in Playbooks /\ Running(off[w], Current(w))
<1>1. Plays(w) \in Seq(Playbooks)
  BY DispatchType DEF Plays
<1>2. Len(results[w]) + 1 \in DOMAIN Plays(w)
  BY <1>1
<1> QED BY <1>1, <1>2 DEF Current, Running, Plays

\* No webhook changes the source of a body or whether it was signed.
LEMMA OffenseKeeps ==
  ASSUME NEW a \in Alerts
  PROVE  Offense(a).source = a.source /\ Offense(a).signed = a.signed
<1>1. CASE a.source = "qradar"
  BY <1>1, AlertsAssumption DEF Offense
<1>2. CASE a.source = "falco"
  BY <1>2, AlertsAssumption DEF Offense
<1>3. CASE a.source = "ml"
  BY <1>3, AlertsAssumption DEF Offense
<1> QED BY <1>1, <1>2, <1>3, AlertsAssumption

LEMMA PodType ==
  ASSUME NEW o \in Offenses, HasFields(o, "PB-004") \/ HasFields(o, "PB-007")
  PROVE  PodOf(o) \in Pods
<1>1. HasFields(o, "PB-004")
  BY DEF HasFields, Needs
<1> QED BY <1>1 DEF Pods

\* Each effect on the platform leaves a platform with the same pods.
Keeps(k, m) == m \in Platforms /\ m.host = k.host

LEMMA PlatformType ==
  ASSUME NEW k \in Platforms, NEW m,
         \/ m = k
         \/ \E n \in Nodes : m = [k EXCEPT !.cordoned = @ \cup {n}]
         \/ \E b : m = [k EXCEPT !.bindings = @ \ b]
         \/ \E b : m = [k EXCEPT !.clusterBindings = @ \ b]
         \/ \E q \in Pods \X Nodes : m = [k EXCEPT !.quarantined = @ \cup {q}]
         \/ \E o \in Offenses : m = [k EXCEPT !.isolated = @ \cup {NsOf(o)}]
  PROVE  Keeps(k, m)
<1> DEFINE Spaces == {NsOf(o) : o \in Offenses}
           Names  == {b[2] : b \in Bindings}
<1>1. \A o \in Offenses : NsOf(o) \in Spaces
  OBVIOUS
<1> HIDE DEF Spaces, Names
<1>2. Platforms = [host : [Pods -> Nodes \cup {None}], quarantined : SUBSET (Pods \X Nodes),
                   cordoned : SUBSET Nodes, isolated : SUBSET Spaces,
                   bindings : SUBSET Bindings, clusterBindings : SUBSET Names]
  BY DEF Platforms, Spaces, Names
<1> USE DEF Keeps
<1>3. ASSUME NEW n \in Nodes, m = [k EXCEPT !.cordoned = @ \cup {n}] PROVE Keeps(k, m)
  BY <1>2, <1>3
<1>4. ASSUME NEW b, m = [k EXCEPT !.bindings = @ \ b] PROVE Keeps(k, m)
  BY <1>2, <1>4
<1>5. ASSUME NEW b, m = [k EXCEPT !.clusterBindings = @ \ b] PROVE Keeps(k, m)
  BY <1>2, <1>5
<1>6. ASSUME NEW q \in Pods \X Nodes, m = [k EXCEPT !.quarantined = @ \cup {q}] PROVE Keeps(k, m)
  BY <1>2, <1>6
<1>7. ASSUME NEW o \in Offenses, m = [k EXCEPT !.isolated = @ \cup {NsOf(o)}] PROVE Keeps(k, m)
  BY <1>1, <1>2, <1>7
<1> HIDE DEF Keeps
<1> QED BY <1>3, <1>4, <1>5, <1>6, <1>7 DEF Keeps

LEMMA HostType ==
  ASSUME NEW k \in Platforms
  PROVE  k.host \in [Pods -> Nodes \cup {None}]
  BY DEF Platforms

LEMMA MoveType ==
  ASSUME NEW k \in Platforms, NEW p \in Pods, NEW n \in Nodes \cup {None}
  PROVE  [k EXCEPT !.host[p] = n] \in Platforms
  BY DEF Platforms

LEMMA KeyType == \A o \in Offenses : DedupeKey(o) \in DedupeKeys
  BY DEF DedupeKeys

-----------------------------------------------------------------------------
(* The invariant *)

LEMMA InvInit == Init => DispatchInv
<1> SUFFICES ASSUME Init PROVE DispatchInv
  OBVIOUS
<1>1. PICK host \in [Pods -> Nodes \cup {None}] :
        /\ k8s = [host |-> host, quarantined |-> {}, cordoned |-> {}, isolated |-> {},
                  bindings |-> Bindings, clusterBindings |-> {b[2] : b \in Bindings}]
        /\ hosted = [p \in Pods |-> {host[p]}]
  BY DEF Init
<1>2. TypeOK
  BY <1>1 DEF Init, TypeOK, Platforms
<1>3. HostsRecorded
  BY <1>1 DEF HostsRecorded
<1> QED BY <1>2, <1>3 DEF Init, DispatchInv, Admitted, MidPlaybook

\* A handler's own step keeps the invariant if it does so for the handler itself.
LEMMA HandlerStep ==
  ASSUME DispatchInv, NEW w \in Workers, UNCHANGED <<dryRun, hosted>>, TypeOK',
         k8s'.host = k8s.host,
         \A v \in Workers \ {w} : /\ pc'[v] = pc[v] /\ off'[v] = off[v]
                                  /\ node'[v] = node[v] /\ results'[v] = results[v],
         pc'[w] # "idle" =>
            off'[w] \in Offenses /\ (off'[w].source = "qradar" => off'[w].signed),
         pc'[w] = "patch" => At(w, "PB-004")' /\ node'[w] \in Nodes /\ node'[w] \in hosted[PodOf(off'[w])],
         pc'[w] = "cluster" => At(w, "PB-005")' /\ ~ dryRun
  PROVE  DispatchInv'
<1>1. \A v \in Workers \ {w}, pb \in Playbooks : At(v, pb)' <=> At(v, pb)
  BY DEF At, Plays, Current
<1>2. "PB-004" \in Playbooks /\ "PB-005" \in Playbooks
  BY DEF Playbooks
<1>3. Admitted'
  BY DEF DispatchInv, Admitted
<1>4. MidPlaybook'
  <2> SUFFICES ASSUME NEW v \in Workers
               PROVE  /\ pc'[v] = "patch" => At(v, "PB-004")' /\ node'[v] \in Nodes
                                              /\ node'[v] \in hosted'[PodOf(off'[v])]
                      /\ pc'[v] = "cluster" => At(v, "PB-005")' /\ ~ dryRun'
    BY DEF MidPlaybook, PodOf
  <2>1. CASE v = w
    BY <2>1
  <2>2. CASE v # w
    BY <1>1, <1>2, <2>2 DEF DispatchInv, MidPlaybook
  <2> QED BY <2>1, <2>2
<1>5. HostsRecorded'
  BY DEF DispatchInv, HostsRecorded
<1> QED BY <1>3, <1>4, <1>5 DEF DispatchInv

\* What Report adds to the results is a result.
LEMMA ReportType ==
  ASSUME TypeOK, NEW w \in Workers, Len(results[w]) < Len(Plays(w)), NEW ok \in BOOLEAN,
         Report(w, ok)
  PROVE  /\ results' \in [Workers -> Seq([playbook : Playbooks, success : BOOLEAN])]
         /\ pc' \in [Workers -> {"idle", "claim", "play", "patch", "cluster"}]
         /\ pc'[w] = "play"
         /\ \A v \in Workers \ {w} : pc'[v] = pc[v] /\ results'[v] = results[v]
<1>1. results[w] \in Seq([playbook : Playbooks, success : BOOLEAN])
  BY DEF TypeOK
<1>2. [playbook |-> Current(w), success |-> ok] \in [playbook : Playbooks, success : BOOLEAN]
  BY <1>1, CurrentType
<1>3. Append(results[w], [playbook |-> Current(w), success |-> ok])
        \in Seq([playbook : Playbooks, success : BOOLEAN])
  BY <1>1, <1>2
<1> QED BY <1>3 DEF Report, Goto, TypeOK

\* A step that ends with Report and changes only the platform.
LEMMA ReportStep ==
  ASSUME DispatchInv, NEW w \in Workers, pc[w] # "idle", Len(results[w]) < Len(Plays(w)),
         NEW ok \in BOOLEAN, Report(w, ok), UNCHANGED <<dryRun, dedupe, off, node, claims, hosted>>,
         denied' \subseteq {o.ip : o \in Offenses}, Keeps(k8s, k8s')
  PROVE  DispatchInv'
<1>1. TypeOK
  BY DEF DispatchInv
<1>2. TypeOK'
  BY <1>1, ReportType DEF TypeOK, Keeps
<1>3. /\ pc'[w] = "play"
      /\ \A v \in Workers \ {w} : pc'[v] = pc[v] /\ results'[v] = results[v]
  BY <1>1, ReportType
<1>4. off'[w] \in Offenses /\ (off'[w].source = "qradar" => off'[w].signed)
  BY DEF DispatchInv, Admitted
<1> QED BY <1>2, <1>3, <1>4, HandlerStep DEF Keeps

LEMMA InvStep == DispatchInv /\ [Next]_vars => DispatchInv'
<1> SUFFICES ASSUME DispatchInv, [Next]_vars PROVE DispatchInv'
  OBVIOUS
<1>0. TypeOK /\ Admitted
  BY DEF DispatchInv
<1>1. ASSUME NEW w \in Workers, NEW a \in Alerts, Receive(w, a) PROVE DispatchInv'
  <2>1. Offense(a) \in Offenses /\ (Offense(a).source = "qradar" => Offense(a).signed)
    BY <1>1, OffenseKeeps DEF Receive, Offenses
  <2>2. TypeOK'
    <3>1. off' \in [Workers -> Offenses \cup {NoOffense}]
      BY <1>0, <1>1, <2>1 DEF Receive, TypeOK
    <3>2. pc' \in [Workers -> {"idle", "claim", "play", "patch", "cluster"}]
      BY <1>0, <1>1 DEF Receive, Goto, TypeOK
    <3>3. UNCHANGED <<dryRun, dedupe, denied, k8s, node, results, claims, hosted>>
      BY <1>1 DEF Receive
    <3> QED BY <1>0, <3>1, <3>2, <3>3 DEF TypeOK
  <2>3. off'[w] = Offense(a) /\ pc'[w] = "claim"
    BY <1>0, <1>1 DEF Receive, Goto, TypeOK
  <2>4. /\ UNCHANGED <<dryRun, hosted, k8s>>
        /\ \A v \in Workers \ {w} : /\ pc'[v] = pc[v] /\ off'[v] = off[v]
                                    /\ node'[v] = node[v] /\ results'[v] = results[v]
    BY <1>0, <1>1 DEF Receive, Goto, TypeOK
  <2> QED BY <2>1, <2>2, <2>3, <2>4, HandlerStep
<1>2. ASSUME NEW w \in Workers, Return(w), UNCHANGED <<dryRun, denied, k8s, hosted>>,
             dedupe' \subseteq DedupeKeys, claims' \in [DedupeKeys -> Nat]
      PROVE  DispatchInv'
  <2>1. TypeOK'
    <3>1. results' \in [Workers -> Seq([playbook : Playbooks, success : BOOLEAN])]
      <4> DEFINE Results == Seq([playbook : Playbooks, success : BOOLEAN])
      <4>1. results \in [Workers -> Results]
        BY <1>0 DEF TypeOK
      <4> HIDE DEF Results
      <4>2. <<>> \in Results
        BY EmptyList DEF Results
      <4>3. results' \in [Workers -> Results]
        BY <1>2, <4>1, <4>2 DEF Return
      <4> QED BY <4>3 DEF Results
    <3>2. off' \in [Workers -> Offenses \cup {NoOffense}] /\ node' \in [Workers -> Nodes \cup {None}]
      BY <1>0, <1>2 DEF Return, TypeOK
    <3>3. pc' \in [Workers -> {"idle", "claim", "play", "patch", "cluster"}]
      BY <1>0, <1>2 DEF Return, Goto, TypeOK
    <3> QED BY <1>0, <1>2, <3>1, <3>2, <3>3 DEF TypeOK
  <2>2. /\ pc'[w] = "idle"
        /\ \A v \in Workers \ {w} : /\ pc'[v] = pc[v] /\ off'[v] = off[v]
                                    /\ node'[v] = node[v] /\ results'[v] = results[v]
    BY <1>0, <1>2 DEF Return, Goto, TypeOK
  <2> QED BY <1>2, <2>1, <2>2, HandlerStep
<1>3. ASSUME NEW w \in Workers, Claim(w) PROVE DispatchInv'
  <2> DEFINE k == DedupeKey(off[w])
  <2>1. off[w] \in Offenses /\ (off[w].source = "qradar" => off[w].signed)
    BY <1>0, <1>3 DEF Claim, Admitted
  <2>2. CASE Return(w) /\ UNCHANGED <<dedupe, claims>>
    BY <1>0, <1>2, <1>3, <2>2 DEF Claim, TypeOK
  <2>3. CASE /\ dedupe' = dedupe \cup {k} /\ claims' = [claims EXCEPT ![k] = @ + 1]
             /\ Goto(w, "play") /\ UNCHANGED <<off, node, results>>
    <3>1. k \in DedupeKeys
      BY <2>1, KeyType
    <3>2. TypeOK'
      <4>1. pc' \in [Workers -> {"idle", "claim", "play", "patch", "cluster"}]
        BY <1>0, <2>3 DEF Goto, TypeOK
      <4>2. dedupe' \subseteq DedupeKeys /\ claims' \in [DedupeKeys -> Nat]
        BY <1>0, <2>3, <3>1 DEF TypeOK
      <4>3. UNCHANGED <<dryRun, denied, k8s, off, node, results, hosted>>
        BY <1>3, <2>3 DEF Claim
      <4> QED BY <1>0, <4>1, <4>2, <4>3 DEF TypeOK
    <3>3. pc'[w] = "play" /\ \A v \in Workers \ {w} : pc'[v] = pc[v]
      BY <1>0, <2>3 DEF Goto, TypeOK
    <3>4. UNCHANGED <<dryRun, hosted, k8s>>
      BY <1>3 DEF Claim
    <3> QED BY <2>1, <2>3, <3>2, <3>3, <3>4, HandlerStep
  <2> QED BY <1>3, <2>2, <2>3 DEF Claim
<1>4. ASSUME NEW w \in Workers, Answer(w) \/ Crash(w) PROVE DispatchInv'
  BY <1>0, <1>2, <1>4 DEF Answer, Crash, history, TypeOK
<1>5. ASSUME NEW w \in Workers, SkipPlaybook(w) \/ PretendPlaybook(w) \/ CallFails(w)
      PROVE  DispatchInv'
  <2>1. \E ok \in BOOLEAN : Report(w, ok)
    BY <1>5 DEF SkipPlaybook, PretendPlaybook, CallFails
  <2> QED BY <1>0, <1>5, <2>1, PlatformType, ReportStep
          DEF SkipPlaybook, PretendPlaybook, CallFails, Playing, history, TypeOK
<1>6. ASSUME NEW w \in Workers, BlockIp(w) PROVE DispatchInv'
  <2>1. off[w] \in Offenses
    BY <1>0, <1>6 DEF BlockIp, Begin, Playing, Admitted
  <2>2. denied' \subseteq {o.ip : o \in Offenses}
    BY <1>0, <1>6, <2>1 DEF BlockIp, TypeOK
  <2> QED BY <1>0, <1>6, <2>2, PlatformType, ReportStep DEF BlockIp, Begin, Playing, history, TypeOK
<1>7. ASSUME NEW w \in Workers, ResolvePod(w) PROVE DispatchInv'
  <2> DEFINE n == k8s.host[PodOf(off[w])]
  <2>1. Begin(w, "PB-004") /\ UNCHANGED <<dryRun, dedupe, denied, k8s, off, history>>
    BY <1>7 DEF ResolvePod
  <2>2. /\ off[w] \in Offenses /\ (off[w].source = "qradar" => off[w].signed)
        /\ At(w, "PB-004") /\ PodOf(off[w]) \in Pods
    BY <1>0, <2>1, PodType DEF Begin, Playing, Admitted, At
  <2>3. n \in Nodes \cup {None} /\ n \in hosted[PodOf(off[w])]
    BY <1>0, <2>2, HostType DEF DispatchInv, HostsRecorded, TypeOK
  <2>4. CASE Report(w, FALSE) /\ UNCHANGED node
    BY <1>0, <2>1, <2>4, PlatformType, ReportStep DEF Begin, Playing, history, TypeOK
  <2>5. CASE /\ n # None /\ Goto(w, "patch") /\ node' = [node EXCEPT ![w] = n]
             /\ UNCHANGED results
    <3>1. TypeOK'
      BY <1>0, <2>1, <2>3, <2>5 DEF Goto, history, TypeOK
    <3>2. /\ node'[w] = n /\ pc'[w] = "patch"
          /\ \A v \in Workers \ {w} : pc'[v] = pc[v] /\ node'[v] = node[v]
      BY <1>0, <2>5 DEF Goto, TypeOK
    <3>3. At(w, "PB-004")'
      BY <2>1, <2>2, <2>5 DEF At, Plays, Current
    <3> QED BY <2>1, <2>2, <2>3, <2>5, <3>1, <3>2, <3>3, HandlerStep DEF history
  <2> QED BY <1>7, <2>4, <2>5 DEF ResolvePod
<1>8. ASSUME NEW w \in Workers, CordonNode(w) PROVE DispatchInv'
  <2>1. node[w] \in Nodes
    BY <1>8 DEF CordonNode, Playing, DispatchInv, MidPlaybook
  <2>2. k8s' = k8s \/ k8s' = [k8s EXCEPT !.cordoned = @ \cup {node[w]}]
    BY <1>8 DEF CordonNode
  <2>3. Keeps(k8s, k8s')
    BY <1>0, <2>1, <2>2, PlatformType DEF TypeOK
  <2>4. PICK ok \in BOOLEAN : Report(w, ok)
    BY <1>8 DEF CordonNode
  <2> QED BY <1>0, <1>8, <2>3, <2>4, ReportStep DEF CordonNode, Playing, history, TypeOK
<1>9. ASSUME NEW w \in Workers, DeleteBinding(w) PROVE DispatchInv'
  <2> DEFINE b == BindingOf(off[w])
  <2>1. /\ Begin(w, "PB-005") /\ ~ dryRun
        /\ UNCHANGED <<dryRun, dedupe, denied, off, node, history>>
    BY <1>9 DEF DeleteBinding
  <2>2. /\ off[w] \in Offenses /\ (off[w].source = "qradar" => off[w].signed)
        /\ At(w, "PB-005")
    BY <1>0, <2>1 DEF Begin, Playing, Admitted, At
  <2>3. \E gone \in {{}, {b}} : k8s' = [k8s EXCEPT !.bindings = @ \ gone]
    BY <1>9 DEF DeleteBinding
  <2>4. Keeps(k8s, k8s')
    BY <1>0, <2>3, PlatformType DEF TypeOK
  <2>5. CASE Report(w, TRUE)
    BY <1>0, <2>1, <2>4, <2>5, ReportStep DEF Begin, Playing, history, TypeOK
  <2>6. CASE Goto(w, "cluster") /\ UNCHANGED results
    <3>1. TypeOK'
      BY <1>0, <2>1, <2>4, <2>6 DEF Goto, history, TypeOK, Keeps
    <3>2. pc'[w] = "cluster" /\ \A v \in Workers \ {w} : pc'[v] = pc[v]
      BY <1>0, <2>6 DEF Goto, TypeOK
    <3>3. At(w, "PB-005")'
      BY <2>1, <2>2, <2>6 DEF At, Plays, Current
    <3> QED BY <2>1, <2>2, <2>4, <2>6, <3>1, <3>2, <3>3, HandlerStep DEF history, Keeps
  <2> QED BY <1>9, <2>5, <2>6 DEF DeleteBinding
<1>10. ASSUME NEW w \in Workers, DeleteClusterBinding(w) PROVE DispatchInv'
  <2>1. k8s' = k8s \/ k8s' = [k8s EXCEPT !.clusterBindings = @ \ {off[w].binding}]
    BY <1>10 DEF DeleteClusterBinding
  <2>2. Keeps(k8s, k8s')
    BY <1>0, <2>1, PlatformType DEF TypeOK
  <2>3. \E ok \in BOOLEAN : Report(w, ok)
    BY <1>10 DEF DeleteClusterBinding
  <2> QED BY <1>0, <1>10, <2>2, <2>3, ReportStep DEF DeleteClusterBinding, Playing, history, TypeOK
<1>11. ASSUME NEW w \in Workers, QuarantinePod(w) PROVE DispatchInv'
  <2> DEFINE p == PodOf(off[w])
  <2>1. p \in Pods
    BY <1>0, <1>11, PodType DEF QuarantinePod, Begin, Playing, Admitted
  <2>2. /\ k8s.host[p] \in Nodes
        /\ k8s' = [k8s EXCEPT !.quarantined = @ \cup {<<p, k8s.host[p]>>}]
    BY <1>0, <1>11, <2>1, HostType DEF QuarantinePod, TypeOK
  <2>3. Keeps(k8s, k8s')
    BY <1>0, <2>1, <2>2, PlatformType DEF TypeOK
  <2> QED BY <1>0, <1>11, <2>3, ReportStep DEF QuarantinePod, Begin, Playing, history, TypeOK
<1>12. ASSUME NEW w \in Workers, EgressQuarantine(w) PROVE DispatchInv'
  <2>1. off[w] \in Offenses
    BY <1>0, <1>12 DEF EgressQuarantine, Begin, Playing, Admitted
  <2>2. k8s' = [k8s EXCEPT !.isolated = @ \cup {NsOf(off[w])}]
    BY <1>12 DEF EgressQuarantine
  <2>3. Keeps(k8s, k8s')
    BY <1>0, <2>1, <2>2, PlatformType DEF TypeOK
  <2> QED BY <1>0, <1>12, <2>3, ReportStep DEF EgressQuarantine, Begin, Playing, history, TypeOK
<1>13. ASSUME NEW k \in DedupeKeys, ExpireKey(k) PROVE DispatchInv'
  BY <1>13 DEF ExpireKey, handler, DispatchInv, TypeOK, Admitted, MidPlaybook, HostsRecorded,
               At, Plays, Current, PodOf
<1>14. ASSUME NEW ip \in denied, ExpireDeny(ip) PROVE DispatchInv'
  BY <1>14 DEF ExpireDeny, handler, history, DispatchInv, TypeOK, Admitted, MidPlaybook,
               HostsRecorded, At, Plays, Current, PodOf
<1>15. ASSUME NEW p \in Pods, NEW n \in Nodes \cup {None}, MovePod(p, n) PROVE DispatchInv'
  <2>1. TypeOK'
    BY <1>0, <1>15, MoveType DEF MovePod, handler, TypeOK
  <2>2. UNCHANGED <<dryRun, pc, off, node, results>>
    BY <1>15 DEF MovePod, handler
  <2>3. \A q \in Pods : hosted[q] \subseteq hosted'[q] /\ k8s'.host[q] \in hosted'[q]
    BY <1>0, <1>15 DEF MovePod, TypeOK, DispatchInv, HostsRecorded
  <2>4. \A w \in Workers : pc[w] = "patch" => PodOf(off[w]) \in Pods
    BY <1>0, PodType DEF DispatchInv, MidPlaybook, At, Admitted
  <2>5. Admitted'
    BY <1>0, <2>2 DEF Admitted
  <2>6. MidPlaybook'
    BY <2>2, <2>3, <2>4 DEF DispatchInv, MidPlaybook, At, Plays, Current, PodOf
  <2> QED BY <2>1, <2>3, <2>5, <2>6 DEF DispatchInv, HostsRecorded
<1>16. CASE UNCHANGED vars
  BY <1>16 DEF vars, handler, history, DispatchInv, TypeOK, Admitted, MidPlaybook,
               HostsRecorded, At, Plays, Current, PodOf
<1> QED
  BY <1>1, <1>3, <1>4, <1>5, <1>6, <1>7, <1>8, <1>9, <1>10, <1>11, <1>12, <1>13, <1>14, <1>15,
     <1>16 DEF Next, Step, Playbook

LEMMA Invariant == Spec => []DispatchInv
  BY InvInit, InvStep, PTL DEF Spec

\* Every variable keeps its type.
THEOREM TypeCorrect == Spec => []TypeOK
<1>1. DispatchInv => TypeOK
  BY DEF DispatchInv
<1> QED BY <1>1, Invariant, PTL

-----------------------------------------------------------------------------
(* One dispatch per key *)

\* However handlers and crashes interleave, a key that is set stands for one
\* dispatch, and one that is not for none.
THEOREM KeysClaimedOnce == Spec => []OneDispatchPerWindow
<1>1. Init => OneDispatchPerWindow
  BY DEF Init, OneDispatchPerWindow
<1>2. DispatchInv /\ OneDispatchPerWindow /\ [Next]_vars => OneDispatchPerWindow'
  <2> SUFFICES ASSUME DispatchInv, OneDispatchPerWindow, [Next]_vars PROVE OneDispatchPerWindow'
    OBVIOUS
  <2>1. ASSUME NEW w \in Workers, Claim(w) PROVE OneDispatchPerWindow'
    <3>1. TypeOK /\ DedupeKey(off[w]) \in DedupeKeys
      BY <2>1, KeyType DEF Claim, DispatchInv, Admitted
    <3> QED BY <2>1, <3>1 DEF Claim, OneDispatchPerWindow, TypeOK
  <2>2. ASSUME NEW k \in DedupeKeys, ExpireKey(k) PROVE OneDispatchPerWindow'
    BY <2>2 DEF ExpireKey, OneDispatchPerWindow, DispatchInv, TypeOK
  <2>3. CASE UNCHANGED <<dedupe, claims>>
    BY <2>3 DEF OneDispatchPerWindow
  <2>4. ASSUME NEW w \in Workers, Playbook(w) PROVE UNCHANGED <<dedupe, claims>>
    BY <2>4 DEF Playbook, SkipPlaybook, PretendPlaybook, CallFails, BlockIp, ResolvePod, CordonNode,
                DeleteBinding, DeleteClusterBinding, QuarantinePod, EgressQuarantine, history
  <2> QED BY <2>1, <2>2, <2>3, <2>4
          DEF Next, Step, Answer, Crash, Receive, ExpireDeny, MovePod, history, vars
<1> QED BY <1>1, <1>2, Invariant, PTL DEF Spec

-----------------------------------------------------------------------------
(* Effects *)

\* An admitted offense at a playbook of its rule is one to take effect for.
LEMMA DueMember ==
  ASSUME DispatchInv, NEW w \in Workers, pc[w] # "idle", ~ dryRun, NEW pb \in Playbooks,
         At(w, pb)
  PROVE  off[w] \in Due(pb)
<1>1. Len(results[w]) \in Nat
  BY DEF DispatchInv, TypeOK
<1>2. Running(off[w], pb)
  BY <1>1, CurrentType DEF At
<1> QED BY <1>2 DEF DispatchInv, Admitted, At, Due

OnlyDueEffects ==
    /\ denied' \ denied \subseteq {o.ip : o \in Due("PB-001")}
    /\ \A n \in k8s'.cordoned \ k8s.cordoned :
          \E o \in Due("PB-004") : n \in hosted[PodOf(o)]
    /\ k8s.bindings \ k8s'.bindings \subseteq {BindingOf(o) : o \in Due("PB-005")}
    /\ k8s.clusterBindings \ k8s'.clusterBindings \subseteq {o.binding : o \in Due("PB-005")}
    /\ \A q \in k8s'.quarantined \ k8s.quarantined :
          q[2] \in hosted[q[1]] /\ \E o \in Due("PB-007") : q[1] = PodOf(o)
    /\ k8s'.isolated \ k8s.isolated \subseteq {NsOf(o) : o \in Due("PB-008")}

\* Each action takes its one effect for the offense of its handler.
LEMMA EffectStep == DispatchInv /\ [Next]_vars => OnlyDueEffects \/ UNCHANGED vars
<1> SUFFICES ASSUME DispatchInv, [Next]_vars PROVE OnlyDueEffects \/ UNCHANGED vars
  OBVIOUS
<1>0. k8s \in Platforms /\ Playbooks = {"PB-001", "PB-002", "PB-003", "PB-004", "PB-005",
                                        "PB-006", "PB-007", "PB-008"}
  BY DEF DispatchInv, TypeOK, Playbooks
<1>1. ASSUME NEW w \in Workers, NEW pb \in Playbooks, Begin(w, pb), ~ dryRun
      PROVE  off[w] \in Due(pb)
  BY <1>1, DueMember DEF Begin, Playing, At
<1>2. ASSUME denied' \subseteq denied, UNCHANGED k8s PROVE OnlyDueEffects
  BY <1>2 DEF OnlyDueEffects
<1>3. ASSUME NEW w \in Workers, BlockIp(w) PROVE OnlyDueEffects
  <2>1. off[w] \in Due("PB-001")
    BY <1>0, <1>1, <1>3 DEF BlockIp
  <2> QED BY <1>3, <2>1 DEF BlockIp, OnlyDueEffects
<1>4. ASSUME NEW w \in Workers, CordonNode(w) PROVE OnlyDueEffects
  <2>1. CASE UNCHANGED k8s
    BY <1>2, <1>4, <2>1 DEF CordonNode, OnlyDueEffects
  <2>2. CASE ~ dryRun /\ k8s' = [k8s EXCEPT !.cordoned = @ \cup {node[w]}]
    <3>1. At(w, "PB-004") /\ node[w] \in hosted[PodOf(off[w])] /\ pc[w] # "idle"
      BY <1>4 DEF CordonNode, Playing, DispatchInv, MidPlaybook
    <3>2. off[w] \in Due("PB-004")
      BY <1>0, <2>2, <3>1, DueMember
    <3>3. k8s'.cordoned = k8s.cordoned \cup {node[w]}
      BY <1>0, <2>2 DEF Platforms
    <3>4. /\ k8s'.bindings = k8s.bindings /\ k8s'.clusterBindings = k8s.clusterBindings
          /\ k8s'.quarantined = k8s.quarantined /\ k8s'.isolated = k8s.isolated
          /\ denied' = denied
      BY <1>4, <2>2 DEF CordonNode
    <3> QED BY <3>1, <3>2, <3>3, <3>4 DEF OnlyDueEffects
  <2> QED BY <1>4, <2>1, <2>2 DEF CordonNode
<1>5. ASSUME NEW w \in Workers, DeleteBinding(w) PROVE OnlyDueEffects
  <2> DEFINE b == BindingOf(off[w])
  <2>1. off[w] \in Due("PB-005")
    BY <1>0, <1>1, <1>5 DEF DeleteBinding
  <2>2. PICK gone \in {{}, {b}} : k8s' = [k8s EXCEPT !.bindings = @ \ gone]
    BY <1>5 DEF DeleteBinding
  <2>3. k8s'.bindings = k8s.bindings \ gone
    BY <1>0, <2>2 DEF Platforms
  <2>4. /\ k8s'.cordoned = k8s.cordoned /\ k8s'.clusterBindings = k8s.clusterBindings
        /\ k8s'.quarantined = k8s.quarantined /\ k8s'.isolated = k8s.isolated
        /\ denied' = denied
    BY <1>5, <2>2 DEF DeleteBinding
  <2>5. k8s.bindings \ k8s'.bindings \subseteq {b}
    BY <2>2, <2>3
  <2> QED BY <2>1, <2>4, <2>5 DEF OnlyDueEffects
<1>6. ASSUME NEW w \in Workers, DeleteClusterBinding(w) PROVE OnlyDueEffects
  <2>1. CASE UNCHANGED k8s
    BY <1>2, <1>6, <2>1 DEF DeleteClusterBinding, OnlyDueEffects
  <2>2. CASE k8s' = [k8s EXCEPT !.clusterBindings = @ \ {off[w].binding}]
    <3>1. off[w] \in Due("PB-005")
      BY <1>0, <1>6, DueMember DEF DeleteClusterBinding, Playing, DispatchInv, MidPlaybook
    <3>2. k8s'.clusterBindings = k8s.clusterBindings \ {off[w].binding}
      BY <1>0, <2>2 DEF Platforms
    <3>3. /\ k8s'.cordoned = k8s.cordoned /\ k8s'.bindings = k8s.bindings
          /\ k8s'.quarantined = k8s.quarantined /\ k8s'.isolated = k8s.isolated
          /\ denied' = denied
      BY <1>6, <2>2 DEF DeleteClusterBinding
    <3>4. k8s.clusterBindings \ k8s'.clusterBindings \subseteq {off[w].binding}
      BY <3>2
    <3> QED BY <3>1, <3>3, <3>4 DEF OnlyDueEffects
  <2> QED BY <1>6, <2>1, <2>2 DEF DeleteClusterBinding
<1>7. ASSUME NEW w \in Workers, QuarantinePod(w) PROVE OnlyDueEffects
  <2> DEFINE p == PodOf(off[w])
             q == <<p, k8s.host[p]>>
  <2>1. off[w] \in Due("PB-007")
    BY <1>0, <1>1, <1>7 DEF QuarantinePod
  <2>2. p \in Pods
    BY <1>7, PodType DEF QuarantinePod, Begin, Playing, DispatchInv, Admitted
  <2>3. k8s.host[p] \in hosted[p]
    BY <2>2 DEF DispatchInv, HostsRecorded
  <2>4. k8s' = [k8s EXCEPT !.quarantined = @ \cup {q}]
    BY <1>7 DEF QuarantinePod
  <2>5. k8s'.quarantined = k8s.quarantined \cup {q}
    BY <1>0, <2>4 DEF Platforms
  <2>6. /\ k8s'.cordoned = k8s.cordoned /\ k8s'.bindings = k8s.bindings
        /\ k8s'.clusterBindings = k8s.clusterBindings /\ k8s'.isolated = k8s.isolated
        /\ denied' = denied
    BY <1>7, <2>4 DEF QuarantinePod
  <2>7. \A x \in k8s'.quarantined \ k8s.quarantined : x[1] = p /\ x[2] = k8s.host[p]
    BY <2>5
  <2> QED BY <2>1, <2>3, <2>6, <2>7 DEF OnlyDueEffects
<1>8. ASSUME NEW w \in Workers, EgressQuarantine(w) PROVE OnlyDueEffects
  <2>1. off[w] \in Due("PB-008")
    BY <1>0, <1>1, <1>8 DEF EgressQuarantine
  <2>2. k8s' = [k8s EXCEPT !.isolated = @ \cup {NsOf(off[w])}]
    BY <1>8 DEF EgressQuarantine
  <2>3. k8s'.isolated = k8s.isolated \cup {NsOf(off[w])}
    BY <1>0, <2>2 DEF Platforms
  <2>4. /\ k8s'.cordoned = k8s.cordoned /\ k8s'.bindings = k8s.bindings
        /\ k8s'.clusterBindings = k8s.clusterBindings /\ k8s'.quarantined = k8s.quarantined
        /\ denied' = denied
    BY <1>8, <2>2 DEF EgressQuarantine
  <2> QED BY <2>1, <2>3, <2>4 DEF OnlyDueEffects
<1>9. ASSUME NEW p \in Pods, NEW n \in Nodes \cup {None}, MovePod(p, n) PROVE OnlyDueEffects
  <2>1. /\ k8s'.cordoned = k8s.cordoned /\ k8s'.bindings = k8s.bindings
        /\ k8s'.clusterBindings = k8s.clusterBindings /\ k8s'.quarantined = k8s.quarantined
        /\ k8s'.isolated = k8s.isolated /\ denied' = denied
    BY <1>0, <1>9 DEF MovePod
  <2> QED BY <2>1 DEF OnlyDueEffects
<1>10. ASSUME NEW w \in Workers, SkipPlaybook(w) \/ PretendPlaybook(w) \/ CallFails(w) \/ ResolvePod(w)
                                \/ Claim(w) \/ Answer(w) \/ Crash(w) \/ \E a \in Alerts : Receive(w, a)
       PROVE OnlyDueEffects
  <2>1. UNCHANGED <<k8s, denied>>
    BY <1>10 DEF SkipPlaybook, PretendPlaybook, CallFails, ResolvePod, Claim, Answer, Crash, Receive
  <2> QED BY <1>2, <2>1
<1>11. ASSUME (\E k \in DedupeKeys : ExpireKey(k)) \/ (\E ip \in denied : ExpireDeny(ip))
       PROVE OnlyDueEffects
  <2>1. denied' \subseteq denied /\ UNCHANGED k8s
    BY <1>11 DEF ExpireKey, ExpireDeny
  <2> QED BY <1>2, <2>1
<1> QED
  BY <1>3, <1>4, <1>5, <1>6, <1>7, <1>8, <1>9, <1>10, <1>11 DEF Next, Step, Playbook

\* Whatever handlers, crashes and moving pods do, an effect is taken only for an
\* admitted offense whose rule lists the playbook, and on what the offense names.
THEOREM EffectsAreDue == Spec => EffectsJustified
<1>1. DispatchInv /\ [Next]_vars => [OnlyDueEffects]_vars
  BY EffectStep
<1> QED BY <1>1, Invariant, PTL DEF Spec, EffectsJustified, OnlyDueEffects

-----------------------------------------------------------------------------
(* Reports *)

\* Results are those of the list's first playbooks, in its order.
InOrder ==
    \A w \in Workers :
        /\ pc[w] \in {"idle", "claim"} => results[w] = <<>>
        /\ Len(results[w]) <= Len(Plays(w))
        /\ \A i \in DOMAIN results[w] : results[w][i].playbook = Plays(w)[i]

ReportInv == InOrder /\ ReportIsTrue

\* ReportIsTrue of one handler.
TrueOf(w) ==
    ~ dryRun /\ pc[w] \in {"play", "patch", "cluster"} =>
        \A i \in DOMAIN results[w] :
            results[w][i].success => Achieved(w, results[w][i].playbook)

\* No playbook takes back what another has achieved.
Grew ==
    /\ k8s.cordoned \subseteq k8s'.cordoned /\ k8s.quarantined \subseteq k8s'.quarantined
    /\ k8s.isolated \subseteq k8s'.isolated
    /\ k8s'.bindings \subseteq k8s.bindings /\ k8s'.clusterBindings \subseteq k8s.clusterBindings

\* No list names a playbook twice.
LEMMA DispatchDistinct ==
  ASSUME NEW rule
  PROVE  \A i, j \in DOMAIN DISPATCH(rule) : DISPATCH(rule)[i] = DISPATCH(rule)[j] => i = j
<1> DEFINE Distinct(s) == \A i, j \in DOMAIN s : s[i] = s[j] => i = j
<1>1. /\ Distinct(<<"PB-001", "PB-006">>) /\ Distinct(<<"PB-002", "PB-001">>)
      /\ Distinct(<<"PB-007", "PB-004">>) /\ Distinct(<<"PB-003", "PB-006">>)
      /\ Distinct(<<"PB-008">>) /\ Distinct(<<"PB-005">>) /\ Distinct(<<>>)
  OBVIOUS
<1> HIDE DEF Distinct
<1>2. Distinct(DISPATCH(rule))
  BY <1>1 DEF DISPATCH
<1> QED BY <1>2 DEF Distinct

LEMMA StillAchieved ==
  ASSUME NEW w \in Workers, NEW pb, Achieved(w, pb), Grew, off'[w] = off[w],
         off[w].ip \in denied => off[w].ip \in denied',
         pb = "PB-004" => node'[w] = node[w]
  PROVE  Achieved(w, pb)'
  BY DEF Achieved, Grew, BindingOf, PodOf, NsOf

\* A handler's own step keeps the reports true if it does so for the handler.
LEMMA ReportHandlerStep ==
  ASSUME DispatchInv, ReportInv, NEW w \in Workers, UNCHANGED dryRun, Grew, denied \subseteq denied',
         \A v \in Workers \ {w} : /\ pc'[v] = pc[v] /\ off'[v] = off[v]
                                  /\ node'[v] = node[v] /\ results'[v] = results[v],
         pc'[w] \in {"idle", "claim"} => results'[w] = <<>>,
         Len(results'[w]) <= Len(Plays(w)'),
         \A i \in DOMAIN results'[w] : results'[w][i].playbook = Plays(w)'[i],
         TrueOf(w)'
  PROVE  ReportInv'
<1>1. InOrder'
  BY DEF ReportInv, InOrder, Plays
<1>2. ASSUME NEW v \in Workers PROVE TrueOf(v)'
  <2>1. CASE v = w
    BY <2>1
  <2>2. CASE v # w
    <3>1. TrueOf(v)
      BY DEF ReportInv, ReportIsTrue, TrueOf
    <3> QED BY <2>2, <3>1, StillAchieved DEF TrueOf
  <2> QED BY <2>1, <2>2
<1> QED BY <1>1, <1>2 DEF ReportInv, ReportIsTrue, TrueOf

\* A step that ends with Report: what it adds must be true.
LEMMA ReportTrueStep ==
  ASSUME DispatchInv, ReportInv, NEW w \in Workers, pc[w] \in {"play", "patch", "cluster"},
         Len(results[w]) < Len(Plays(w)), NEW ok \in BOOLEAN, Report(w, ok),
         UNCHANGED <<dryRun, off, node>>, Grew, denied \subseteq denied',
         NEW pb, pb = Current(w), ~ dryRun /\ ok => Achieved(w, pb)'
  PROVE  ReportInv'
<1> DEFINE entry == [playbook |-> Current(w), success |-> ok]
<1>1. TypeOK /\ results[w] \in Seq([playbook : Playbooks, success : BOOLEAN])
  BY DEF DispatchInv, TypeOK
<1>2. /\ pc'[w] = "play"
      /\ \A v \in Workers \ {w} : pc'[v] = pc[v] /\ results'[v] = results[v]
  BY <1>1, ReportType
<1>3. results'[w] = Append(results[w], entry)
  BY <1>1 DEF Report, TypeOK
<1>4. Plays(w)' = Plays(w) /\ Len(Plays(w)) \in Nat
  BY DispatchType DEF Plays
<1> HIDE DEF entry
<1>5. /\ Len(results'[w]) = Len(results[w]) + 1 /\ DOMAIN results'[w] = 1 .. Len(results[w]) + 1
      /\ \A i \in DOMAIN results[w] : results'[w][i] = results[w][i]
      /\ results'[w][Len(results[w]) + 1] = entry
      /\ \A i \in DOMAIN results'[w] : i \in DOMAIN results[w] \/ i = Len(results[w]) + 1
      /\ Len(results[w]) \in Nat
  BY <1>1, <1>3
<1>6. entry.playbook = Current(w) /\ entry.success = ok
  BY DEF entry
<1>7. \A i \in DOMAIN results'[w] : results'[w][i].playbook = Plays(w)'[i]
  BY <1>4, <1>5, <1>6 DEF ReportInv, InOrder, Current
<1>8. TrueOf(w)'
  <2> SUFFICES ASSUME ~ dryRun, NEW i \in DOMAIN results'[w], results'[w][i].success,
                      NEW play, play = results'[w][i].playbook
               PROVE  Achieved(w, play)'
    BY DEF TrueOf, Achieved
  <2>1. CASE i \in DOMAIN results[w]
    <3>1. Achieved(w, play)
      BY <1>5, <2>1 DEF ReportInv, ReportIsTrue, Achieved
    <3> QED BY <3>1, StillAchieved
  <2>2. CASE i = Len(results[w]) + 1
    <3>1. play = pb /\ ok
      BY <1>5, <1>6, <2>2
    <3> QED BY <3>1
  <2> QED BY <1>5, <2>1, <2>2
<1>9. Len(results'[w]) <= Len(Plays(w)')
  BY <1>4, <1>5
<1> QED BY <1>2, <1>7, <1>8, <1>9, ReportHandlerStep

LEMMA PlatformGrew ==
  ASSUME k8s \in Platforms,
         \/ k8s' = k8s
         \/ \E p, n : k8s' = [k8s EXCEPT !.host[p] = n]
         \/ \E n : k8s' = [k8s EXCEPT !.cordoned = @ \cup n]
         \/ \E b : k8s' = [k8s EXCEPT !.bindings = @ \ b]
         \/ \E b : k8s' = [k8s EXCEPT !.clusterBindings = @ \ b]
         \/ \E q : k8s' = [k8s EXCEPT !.quarantined = @ \cup q]
         \/ \E n : k8s' = [k8s EXCEPT !.isolated = @ \cup n]
  PROVE  Grew
<1> DEFINE Spaces == {NsOf(o) : o \in Offenses}
           Names  == {b[2] : b \in Bindings}
<1> HIDE DEF Spaces, Names
<1>1. Platforms = [host : [Pods -> Nodes \cup {None}], quarantined : SUBSET (Pods \X Nodes),
                   cordoned : SUBSET Nodes, isolated : SUBSET Spaces,
                   bindings : SUBSET Bindings, clusterBindings : SUBSET Names]
  BY DEF Platforms, Spaces, Names
<1> USE DEF Grew
<1>2. ASSUME NEW p, NEW n, k8s' = [k8s EXCEPT !.host[p] = n] PROVE Grew
  BY <1>1, <1>2
<1>3. ASSUME NEW n, k8s' = [k8s EXCEPT !.cordoned = @ \cup n] PROVE Grew
  BY <1>1, <1>3
<1>4. ASSUME NEW b, k8s' = [k8s EXCEPT !.bindings = @ \ b] PROVE Grew
  BY <1>1, <1>4
<1>5. ASSUME NEW b, k8s' = [k8s EXCEPT !.clusterBindings = @ \ b] PROVE Grew
  BY <1>1, <1>5
<1>6. ASSUME NEW q, k8s' = [k8s EXCEPT !.quarantined = @ \cup q] PROVE Grew
  BY <1>1, <1>6
<1>7. ASSUME NEW n, k8s' = [k8s EXCEPT !.isolated = @ \cup n] PROVE Grew
  BY <1>1, <1>7
<1> QED BY <1>2, <1>3, <1>4, <1>5, <1>6, <1>7

LEMMA ReportInvStep == DispatchInv /\ ReportInv /\ [Next]_vars => ReportInv'
<1> SUFFICES ASSUME DispatchInv, ReportInv, [Next]_vars PROVE ReportInv'
  OBVIOUS
<1>0. TypeOK /\ k8s \in Platforms
  BY DEF DispatchInv, TypeOK
\* A handler that begins or ends has no results.
<1>1. ASSUME NEW w \in Workers, NEW a \in Alerts, Receive(w, a) PROVE ReportInv'
  <2>1. pc[w] = "idle" /\ pc'[w] = "claim" /\ results'[w] = <<>>
    BY <1>0, <1>1 DEF Receive, Goto, TypeOK, ReportInv, InOrder
  <2>2. /\ UNCHANGED <<dryRun, denied, k8s>>
        /\ \A v \in Workers \ {w} : /\ pc'[v] = pc[v] /\ off'[v] = off[v]
                                    /\ node'[v] = node[v] /\ results'[v] = results[v]
    BY <1>0, <1>1 DEF Receive, Goto, TypeOK
  <2>3. Len(Plays(w)') \in Nat
    BY DispatchType DEF Plays
  <2> QED BY <1>0, <2>1, <2>2, <2>3, PlatformGrew, ReportHandlerStep DEF TrueOf
<1>2. ASSUME NEW w \in Workers, Return(w), UNCHANGED <<dryRun, denied, k8s>> PROVE ReportInv'
  <2>1. /\ pc'[w] = "idle" /\ results'[w] = <<>>
        /\ \A v \in Workers \ {w} : /\ pc'[v] = pc[v] /\ off'[v] = off[v]
                                    /\ node'[v] = node[v] /\ results'[v] = results[v]
    BY <1>0, <1>2 DEF Return, Goto, TypeOK
  <2>2. Len(Plays(w)') \in Nat
    BY DispatchType DEF Plays
  <2> QED BY <1>0, <1>2, <2>1, <2>2, PlatformGrew, ReportHandlerStep DEF TrueOf
<1>3. ASSUME NEW w \in Workers, Claim(w) PROVE ReportInv'
  <2>1. CASE Return(w)
    BY <1>2, <1>3, <2>1 DEF Claim
  <2>2. CASE Goto(w, "play") /\ UNCHANGED <<off, node, results>>
    <3>1. results'[w] = <<>> /\ pc'[w] = "play" /\ \A v \in Workers \ {w} : pc'[v] = pc[v]
      BY <1>0, <1>3, <2>2 DEF Claim, Goto, TypeOK, ReportInv, InOrder
    <3>2. Len(Plays(w)') \in Nat
      BY DispatchType DEF Plays
    <3>3. UNCHANGED <<dryRun, denied, k8s>>
      BY <1>3 DEF Claim
    <3> QED BY <1>0, <2>2, <3>1, <3>2, <3>3, PlatformGrew, ReportHandlerStep DEF TrueOf
  <2> QED BY <1>3, <2>1, <2>2 DEF Claim
<1>4. ASSUME NEW w \in Workers, Answer(w) \/ Crash(w) PROVE ReportInv'
  BY <1>2, <1>4 DEF Answer, Crash
\* The playbooks: an answer of TRUE comes with the effect it stands for.
<1>5. ASSUME NEW w \in Workers, SkipPlaybook(w) \/ PretendPlaybook(w) \/ CallFails(w)
      PROVE  ReportInv'
  <2>1. PICK ok \in BOOLEAN : Report(w, ok) /\ (~ dryRun => ~ ok)
    BY <1>5 DEF SkipPlaybook, PretendPlaybook, CallFails
  <2> QED BY <1>0, <1>5, <2>1, PlatformGrew, ReportTrueStep
          DEF SkipPlaybook, PretendPlaybook, CallFails, Playing
<1>6. ASSUME NEW w \in Workers, BlockIp(w) PROVE ReportInv'
  <2>1. Current(w) = "PB-001" /\ off[w].ip \in denied' /\ UNCHANGED off
    BY <1>6 DEF BlockIp, Begin
  <2>2. Achieved(w, "PB-001")'
    BY <2>1 DEF Achieved
  <2> QED BY <1>0, <1>6, <2>1, <2>2, PlatformGrew, ReportTrueStep DEF BlockIp, Begin, Playing
<1>7. ASSUME NEW w \in Workers, ResolvePod(w) PROVE ReportInv'
  <2> DEFINE n == k8s.host[PodOf(off[w])]
  <2>1. /\ Current(w) = "PB-004" /\ pc[w] = "play" /\ Len(results[w]) < Len(Plays(w))
        /\ UNCHANGED <<dryRun, denied, k8s, off>>
    BY <1>7 DEF ResolvePod, Begin, Playing
  <2>2. Grew
    BY <1>0, <2>1, PlatformGrew
  <2>3. CASE Report(w, FALSE) /\ UNCHANGED node
    BY <2>1, <2>2, <2>3, ReportTrueStep
  <2>4. CASE Goto(w, "patch") /\ node' = [node EXCEPT ![w] = n] /\ UNCHANGED results
    <3>1. /\ pc'[w] = "patch"
          /\ \A v \in Workers \ {w} : pc'[v] = pc[v] /\ node'[v] = node[v]
      BY <1>0, <2>4 DEF Goto, TypeOK
    <3>2. \A i \in DOMAIN results[w] : results[w][i].playbook # "PB-004"
      <4>1. Plays(w) \in Seq(Playbooks) /\ results[w] \in Seq([playbook : Playbooks, success : BOOLEAN])
        BY <1>0, DispatchType DEF Plays, TypeOK
      <4>2. \A i \in DOMAIN results[w] : /\ i \in DOMAIN Plays(w) /\ i # Len(results[w]) + 1
                                         /\ Len(results[w]) + 1 \in DOMAIN Plays(w)
        BY <2>1, <4>1
      <4>3. \A i \in DOMAIN results[w] : Plays(w)[i] # Current(w)
        BY <4>2, DispatchDistinct DEF Plays, Current
      <4> QED BY <2>1, <4>3 DEF ReportInv, InOrder
    <3>3. TrueOf(w)'
      <4> SUFFICES ASSUME ~ dryRun, NEW i \in DOMAIN results[w], results[w][i].success,
                          NEW play, play = results[w][i].playbook
                   PROVE  Achieved(w, play)'
        BY <2>1, <2>4 DEF TrueOf, Achieved
      <4>1. Achieved(w, play)
        BY <2>1 DEF ReportInv, ReportIsTrue
      <4> QED BY <2>1, <2>2, <3>2, <4>1, StillAchieved
    <3>4. /\ Len(results'[w]) <= Len(Plays(w)')
          /\ \A i \in DOMAIN results'[w] : results'[w][i].playbook = Plays(w)'[i]
      BY <2>1, <2>4 DEF ReportInv, InOrder, Plays
    <3> QED BY <2>1, <2>2, <2>4, <3>1, <3>3, <3>4, ReportHandlerStep
  <2> QED BY <1>7, <2>3, <2>4 DEF ResolvePod
<1>8. ASSUME NEW w \in Workers, CordonNode(w) PROVE ReportInv'
  <2>1. PICK ok, done \in BOOLEAN :
          /\ ~ dryRun /\ ok => done
          /\ k8s' = IF done THEN [k8s EXCEPT !.cordoned = @ \cup {node[w]}] ELSE k8s
          /\ Report(w, ok)
    BY <1>8 DEF CordonNode
  <2>2. /\ pc[w] = "patch" /\ Len(results[w]) < Len(Plays(w)) /\ Current(w) = "PB-004"
        /\ UNCHANGED <<dryRun, denied, off, node>>
    BY <1>8 DEF CordonNode, Playing, DispatchInv, MidPlaybook, At
  <2>3. Grew
    BY <1>0, <2>1, PlatformGrew
  <2>4. ~ dryRun /\ ok => node[w] \in k8s'.cordoned
    BY <1>0, <2>1 DEF Platforms
  <2>5. ~ dryRun /\ ok => Achieved(w, "PB-004")'
    BY <2>2, <2>4 DEF Achieved
  <2> QED BY <2>1, <2>2, <2>3, <2>5, ReportTrueStep
<1>9. ASSUME NEW w \in Workers, DeleteBinding(w) PROVE ReportInv'
  <2> DEFINE b == BindingOf(off[w])
  <2>1. /\ Current(w) = "PB-005" /\ pc[w] = "play" /\ Len(results[w]) < Len(Plays(w))
        /\ UNCHANGED <<dryRun, denied, off, node>>
    BY <1>9 DEF DeleteBinding, Begin, Playing
  <2>2. Grew
    BY <1>0, <1>9, PlatformGrew DEF DeleteBinding
  <2>3. CASE k8s' = [k8s EXCEPT !.bindings = @ \ {b}] /\ Report(w, TRUE)
    <3>1. b \notin k8s'.bindings
      BY <1>0, <2>3 DEF Platforms
    <3>2. Achieved(w, "PB-005")'
      BY <2>1, <3>1 DEF Achieved, BindingOf
    <3> QED BY <2>1, <2>2, <2>3, <3>2, ReportTrueStep
  <2>4. CASE Goto(w, "cluster") /\ UNCHANGED results
    <3>1. pc'[w] = "cluster" /\ \A v \in Workers \ {w} : pc'[v] = pc[v]
      BY <1>0, <2>4 DEF Goto, TypeOK
    <3>2. TrueOf(w)'
      <4> SUFFICES ASSUME ~ dryRun, NEW i \in DOMAIN results[w], results[w][i].success,
                          NEW play, play = results[w][i].playbook
                   PROVE  Achieved(w, play)'
        BY <2>1, <2>4 DEF TrueOf, Achieved
      <4>1. Achieved(w, play)
        BY <2>1 DEF ReportInv, ReportIsTrue
      <4> QED BY <2>1, <2>2, <4>1, StillAchieved
    <3>3. /\ Len(results'[w]) <= Len(Plays(w)')
          /\ \A i \in DOMAIN results'[w] : results'[w][i].playbook = Plays(w)'[i]
      BY <2>1, <2>4 DEF ReportInv, InOrder, Plays
    <3> QED BY <2>1, <2>2, <2>4, <3>1, <3>2, <3>3, ReportHandlerStep
  <2> QED BY <1>9, <2>3, <2>4 DEF DeleteBinding
<1>10. ASSUME NEW w \in Workers, DeleteClusterBinding(w) PROVE ReportInv'
  <2> DEFINE b == off[w].binding
  <2>1. /\ pc[w] = "cluster" /\ Len(results[w]) < Len(Plays(w)) /\ Current(w) = "PB-005"
        /\ UNCHANGED <<dryRun, denied, off, node>>
    BY <1>10 DEF DeleteClusterBinding, Playing, DispatchInv, MidPlaybook, At
  <2>2. Grew
    BY <1>0, <1>10, PlatformGrew DEF DeleteClusterBinding
  <2>3. CASE UNCHANGED k8s /\ Report(w, FALSE)
    BY <2>1, <2>2, <2>3, ReportTrueStep
  <2>4. CASE k8s' = [k8s EXCEPT !.clusterBindings = @ \ {b}] /\ \E ok \in BOOLEAN : Report(w, ok)
    <3>1. b \notin k8s'.clusterBindings
      BY <1>0, <2>4 DEF Platforms
    <3>2. Achieved(w, "PB-005")'
      BY <2>1, <3>1 DEF Achieved
    <3> QED BY <2>1, <2>2, <2>4, <3>2, ReportTrueStep
  <2> QED BY <1>10, <2>3, <2>4 DEF DeleteClusterBinding
<1>11. ASSUME NEW w \in Workers, QuarantinePod(w) PROVE ReportInv'
  <2> DEFINE p == PodOf(off[w])
             q == <<p, k8s.host[p]>>
  <2>1. /\ Current(w) = "PB-007" /\ pc[w] = "play" /\ Len(results[w]) < Len(Plays(w))
        /\ UNCHANGED <<dryRun, denied, off, node>>
        /\ k8s' = [k8s EXCEPT !.quarantined = @ \cup {q}]
        /\ \E ok \in BOOLEAN : Report(w, ok)
    BY <1>11 DEF QuarantinePod, Begin, Playing
  <2>2. Grew
    BY <1>0, <2>1, PlatformGrew
  <2>3. q \in k8s'.quarantined /\ q[1] = p
    BY <1>0, <2>1 DEF Platforms
  <2>4. Achieved(w, "PB-007")'
    BY <2>1, <2>3 DEF Achieved, PodOf
  <2> QED BY <2>1, <2>2, <2>4, ReportTrueStep
<1>12. ASSUME NEW w \in Workers, EgressQuarantine(w) PROVE ReportInv'
  <2>1. /\ Current(w) = "PB-008" /\ pc[w] = "play" /\ Len(results[w]) < Len(Plays(w))
        /\ UNCHANGED <<dryRun, denied, off, node>>
        /\ k8s' = [k8s EXCEPT !.isolated = @ \cup {NsOf(off[w])}]
        /\ \E ok \in BOOLEAN : Report(w, ok)
    BY <1>12 DEF EgressQuarantine, Begin, Playing
  <2>2. Grew
    BY <1>0, <2>1, PlatformGrew
  <2>3. NsOf(off[w]) \in k8s'.isolated
    BY <1>0, <2>1 DEF Platforms
  <2>4. Achieved(w, "PB-008")'
    BY <2>1, <2>3 DEF Achieved, NsOf
  <2> QED BY <2>1, <2>2, <2>4, ReportTrueStep
\* The rest leaves the handlers alone.
<1>13. ASSUME UNCHANGED <<dryRun, handler>>, Grew,
              \A w \in Workers : pc[w] # "idle" /\ off[w].ip \in denied => off[w].ip \in denied'
       PROVE  ReportInv'
  <2>1. InOrder'
    BY <1>13 DEF handler, ReportInv, InOrder, Plays
  <2>2. ASSUME NEW w \in Workers, ~ dryRun, pc[w] \in {"play", "patch", "cluster"},
               NEW i \in DOMAIN results[w], results[w][i].success,
               NEW play, play = results[w][i].playbook
        PROVE  Achieved(w, play)'
    <3>1. Achieved(w, play)
      BY <2>2 DEF ReportInv, ReportIsTrue
    <3> QED BY <1>13, <2>2, <3>1, StillAchieved DEF handler
  <2>3. ReportIsTrue'
    BY <1>13, <2>2 DEF handler, ReportIsTrue, Achieved
  <2> QED BY <2>1, <2>3 DEF ReportInv
<1>14. ASSUME NEW k \in DedupeKeys, ExpireKey(k) PROVE ReportInv'
  BY <1>0, <1>13, <1>14, PlatformGrew DEF ExpireKey
<1>15. ASSUME NEW ip \in denied, ExpireDeny(ip) PROVE ReportInv'
  BY <1>0, <1>13, <1>15, PlatformGrew DEF ExpireDeny
<1>16. ASSUME NEW p \in Pods, NEW n \in Nodes \cup {None}, MovePod(p, n) PROVE ReportInv'
  <2>1. Grew
    BY <1>0, <1>16, PlatformGrew DEF MovePod
  <2> QED BY <1>13, <1>16, <2>1 DEF MovePod
<1>17. CASE UNCHANGED vars
  BY <1>0, <1>13, <1>17, PlatformGrew DEF vars
<1> QED
  BY <1>1, <1>3, <1>4, <1>5, <1>6, <1>7, <1>8, <1>9, <1>10, <1>11, <1>12, <1>14, <1>15, <1>16,
     <1>17 DEF Next, Step, Playbook

\* A success in an answer is true of the platform, whichever calls failed after
\* taking effect and whatever the other handlers did since.
THEOREM ReportsAreTrue == Spec => []ReportIsTrue
<1>1. Init => ReportInv
  <2> SUFFICES ASSUME Init PROVE ReportInv
    OBVIOUS
  <2>1. \A w \in Workers : results[w] = <<>> /\ pc[w] = "idle"
    BY DEF Init
  <2>2. \A w \in Workers : Len(Plays(w)) \in Nat
    BY DispatchType DEF Plays
  <2> QED BY <2>1, <2>2 DEF ReportInv, InOrder, ReportIsTrue
<1>2. DispatchInv /\ ReportInv /\ [Next]_vars => ReportInv'
  BY ReportInvStep
<1>3. ReportInv => ReportIsTrue
  BY DEF ReportInv
<1> QED BY <1>1, <1>2, <1>3, Invariant, PTL DEF Spec

-----------------------------------------------------------------------------
(* Triage: severities *)

\* A severity's index is its place in the order.
LEMMA IndexType == ASSUME NEW s \in Severities PROVE Index(s) \in 0..4
<1>1. \E i \in 1..5 : order[i] = s
  BY DEF Severities
<1>2. (CHOOSE i \in 1..5 : order[i] = s) \in 1..5
  BY <1>1
<1> QED BY <1>2 DEF Index

\* The bump keeps a severity a severity and lowers neither of the two.
LEMMA BumpRaises ==
  ASSUME NEW s \in Severities, NEW hint \in Severities \cup {NoHint}
  PROVE  /\ Bump(s, hint) \in Severities
         /\ Index(s) <= Index(Bump(s, hint))
         /\ hint # NoHint => Index(hint) <= Index(Bump(s, hint))
  BY IndexType DEF Bump

-----------------------------------------------------------------------------
(* Triage: the answers *)

\* A probe belongs to a scoring request; against the stub, one of at most twice
\* the stub's limit has evaded in every slice so far.
Probing ==
    /\ probing => req.kind = "score"
    /\ req.kind = "score" => req.amount \in Nat /\ req.drift \in Nat
    /\ probing /\ stub /\ req.amount <= 20000 => evaded = tried

TriageInv == TriageTypeOK /\ Probing /\ NeverLowered /\ SuggestionRuns /\ DangerIsReported

\* The table names, for each rule, the playbook that the SOAR runs first.
LEMMA TablesAgree ==
  ASSUME NEW rule
  PROVE  IF DISPATCH(rule) = <<>> THEN Narratives(rule).playbook = "PB-000-manual"
         ELSE Narratives(rule).playbook = DISPATCH(rule)[1]
  BY DEF DISPATCH, Narratives

LEMMA TriageInitInv == TriageInit => TriageInv
<1> SUFFICES ASSUME TriageInit PROVE TriageInv
  OBVIOUS
<1>1. /\ req.kind = "none" /\ answer.status = 0 /\ probing = FALSE
      /\ tried = 0 /\ evaded = 0 /\ llm \in BOOLEAN /\ stub \in BOOLEAN
  BY DEF TriageInit, NoAnswer, NoRequest
<1>2. 0 \in 0..NSlices /\ 0 \in 0..0
  BY SlicesAssumption
<1>3. TriageTypeOK
  BY <1>1, <1>2 DEF TriageTypeOK, Triaged, Scored
<1> QED BY <1>1, <1>3 DEF TriageInv, Probing, NeverLowered, SuggestionRuns, DangerIsReported,
                           Triaged, Scored

\* A triage is answered from one explanation and one hint.
LEMMA TriageRequestStep ==
  ASSUME TriageInv, NEW rule, NEW hint, TriageRequest(rule, hint) \/ TriageFails(rule, hint)
  PROVE  TriageInv'
<1>1. /\ ~ probing /\ UNCHANGED <<llm, stub, probing, tried, evaded>>
      /\ req' = [kind |-> "triage", rule |-> rule, hint |-> hint]
  BY DEF TriageRequest, TriageFails
<1>2. CASE answer' = [status |-> 500]
  BY <1>1, <1>2 DEF TriageInv, TriageTypeOK, Probing, NeverLowered, SuggestionRuns,
                    DangerIsReported, Triaged, Scored
<1>3. CASE answer' # [status |-> 500]
  <2>1. PICK e \in Explanations(rule) :
            /\ e.severity \in Severities /\ hint \in Severities \cup {NoHint}
            /\ answer' = [status |-> 200, given |-> e.severity, playbook |-> e.playbook,
                          severity |-> Bump(e.severity, hint),
                          triage_score |-> Score(Bump(e.severity, hint))]
    BY <1>3 DEF TriageRequest, TriageFails
  <2>2. ~ llm => answer'.playbook = Narratives(rule).playbook
    BY <2>1 DEF Explanations
  <2>3. SuggestionRuns'
    BY <1>1, <2>2, TablesAgree DEF SuggestionRuns, Triaged
  <2> DEFINE b == Bump(e.severity, hint)
  <2>4. /\ b \in Severities /\ Index(b) \in 0..4 /\ Index(e.severity) <= Index(b)
        /\ hint # NoHint => Index(hint) <= Index(b)
    BY <2>1, BumpRaises, IndexType
  <2>5. /\ answer'.status = 200 /\ answer'.given = e.severity /\ answer'.severity = b
        /\ answer'.triage_score = Index(b)
    BY <2>1 DEF Score
  <2> HIDE DEF b
  <2>6. NeverLowered' /\ TriageTypeOK'
    BY <1>1, <2>4, <2>5 DEF TriageInv, NeverLowered, TriageTypeOK, Triaged, Scored
  <2> QED BY <1>1, <2>3, <2>6 DEF TriageInv, Probing, DangerIsReported, Scored
<1> QED BY <1>2, <1>3

\* A verdict never calls a drift robust that raises the alarm, nor a probe that
\* always evaded anything but a reason to retrain.
LEMMA VerdictWarns ==
  ASSUME NEW escaped \in 0..NSlices, NEW drift \in Nat
  PROVE  /\ Verdict(escaped, drift) \in {"robust", "watch", "retrain-now"}
         /\ drift > 200 => Verdict(escaped, drift) # "robust"
         /\ escaped = NSlices => Verdict(escaped, drift) = "retrain-now"
  BY SlicesAssumption DEF Verdict

\* No slice of such a transfer is above the stub's limit.
LEMMA NoFlag ==
  ASSUME NEW amount \in Nat, amount <= 20000, NEW divisor \in 2..8
  PROVE  ~ Flags(amount, divisor)
  BY DEF Flags

LEMMA SliceStep == TriageInv /\ Slice => TriageInv'
<1> SUFFICES ASSUME TriageInv, Slice PROVE TriageInv'
  OBVIOUS
<1>1. /\ probing /\ tried < NSlices /\ tried' = tried + 1
      /\ UNCHANGED <<llm, stub, probing, req, answer>>
      /\ evaded' = evaded \/ evaded' = evaded + 1
  BY DEF Slice
<1>2. stub /\ req.amount <= 20000 => evaded' = evaded + 1
  BY <1>1, NoFlag DEF Slice, TriageInv, Probing
<1>3. TriageTypeOK'
  BY <1>1, SlicesAssumption DEF TriageInv, TriageTypeOK, Triaged, Scored
<1>4. Probing'
  BY <1>1, <1>2 DEF TriageInv, Probing
<1> QED BY <1>1, <1>3, <1>4 DEF TriageInv, NeverLowered, SuggestionRuns, DangerIsReported,
                                Triaged, Scored

LEMMA ScoreStep ==
  ASSUME TriageInv, NEW amount \in Amounts,
         ScoreRefused(amount) \/ \E drift \in Drifts : ScoreRequest(amount, drift)
  PROVE  TriageInv'
<1>1. CASE ScoreRefused(amount)
  BY <1>1, DriftAssumption
  DEF ScoreRefused, TriageInv, TriageTypeOK, Probing, NeverLowered, SuggestionRuns,
      DangerIsReported, Triaged, Scored
<1>2. ASSUME NEW drift \in Drifts, ScoreRequest(amount, drift) PROVE TriageInv'
  BY <1>2, DriftAssumption, SlicesAssumption
  DEF ScoreRequest, NoAnswer, TriageInv, TriageTypeOK, Probing, NeverLowered, SuggestionRuns,
      DangerIsReported, Triaged, Scored
<1> QED BY <1>1, <1>2

LEMMA VerdictStep == TriageInv /\ ReportVerdict => TriageInv'
<1> SUFFICES ASSUME TriageInv, ReportVerdict PROVE TriageInv'
  OBVIOUS
<1> DEFINE v == Verdict(evaded, req.drift)
<1>1. /\ probing /\ tried = NSlices /\ ~ probing' /\ probing' = FALSE
      /\ answer' = [status |-> 200, psi_alarm |-> req.drift > 200, verdict |-> v]
      /\ UNCHANGED <<llm, stub, req, tried, evaded>>
  BY DEF ReportVerdict
<1>2. /\ req.kind = "score" /\ req.drift \in Nat /\ evaded \in 0..NSlices
      /\ stub /\ req.amount <= 20000 => evaded = NSlices
  BY <1>1 DEF TriageInv, TriageTypeOK, Probing
<1>3. /\ v \in {"robust", "watch", "retrain-now"}
      /\ req.drift > 200 => v # "robust"
      /\ evaded = NSlices => v = "retrain-now"
  BY <1>2, VerdictWarns
<1> HIDE DEF v
<1>4. answer'.status = 200 /\ answer'.verdict = v /\ (answer'.psi_alarm => req.drift > 200)
  BY <1>1
<1>5. UNCHANGED <<llm, stub, req, tried, evaded>> /\ probing' = FALSE
  BY <1>1
<1>6. TriageTypeOK' /\ Probing'
  <2>1. ~ Triaged' /\ probing' = FALSE
    BY <1>2, <1>5 DEF Triaged
  <2>2. answer'.verdict \in {"robust", "watch", "retrain-now"} /\ answer'.status = 200
    BY <1>3, <1>4
  <2>3. llm' \in BOOLEAN /\ stub' \in BOOLEAN /\ probing' \in BOOLEAN
    BY <1>5 DEF TriageInv, TriageTypeOK
  <2>4. tried' \in 0..NSlices /\ evaded' \in 0..tried'
    BY <1>5 DEF TriageInv, TriageTypeOK
  <2>5. TriageTypeOK'
    BY <2>1, <2>2, <2>3, <2>4, Zenon DEF TriageTypeOK
  <2> QED BY <1>5, <2>1, <2>5 DEF TriageInv, Probing
<1>7. DangerIsReported'
  BY <1>2, <1>3, <1>4, <1>5 DEF DangerIsReported, Scored
<1> QED BY <1>2, <1>5, <1>6, <1>7 DEF TriageInv, NeverLowered, SuggestionRuns, Triaged

LEMMA TriageStep == TriageInv /\ [TriageNext]_triageVars => TriageInv'
<1>1. TriageInv /\ UNCHANGED triageVars => TriageInv'
  BY DEF triageVars, TriageInv, TriageTypeOK, Probing, NeverLowered, SuggestionRuns,
         DangerIsReported, Triaged, Scored
<1> QED BY <1>1, TriageRequestStep, ScoreStep, SliceStep, VerdictStep DEF TriageNext

LEMMA TriageInvariant == TriageSpec => []TriageInv
  BY TriageInitInv, TriageStep, PTL DEF TriageSpec

\* Every answer has the fields and values of its kind.
THEOREM TriageTypeCorrect == TriageSpec => []TriageTypeOK
<1>1. TriageInv => TriageTypeOK
  BY DEF TriageInv
<1> QED BY <1>1, TriageInvariant, PTL

\* Whatever rules, hints and answers of a language model there are, the severity is
\* at least the backend's and at least the hint, and the score agrees with it.
THEOREM SeverityNeverLowered == TriageSpec => []NeverLowered
<1>1. TriageInv => NeverLowered
  BY DEF TriageInv
<1> QED BY <1>1, TriageInvariant, PTL

\* For every rule, one the tables do not know too, the agent suggests what the SOAR
\* runs first, or to act by hand when it runs nothing.
THEOREM SuggestionsRun == TriageSpec => []SuggestionRuns
<1>1. TriageInv => SuggestionRuns
  BY DEF TriageInv
<1> QED BY <1>1, TriageInvariant, PTL

\* For any number of slices and any drift, an alarm is never accompanied by "robust",
\* and a transfer too small for the stub to notice in any slice is "retrain-now".
THEOREM DangersAreReported == TriageSpec => []DangerIsReported
<1>1. TriageInv => DangerIsReported
  BY DEF TriageInv
<1> QED BY <1>1, TriageInvariant, PTL
===============================================================================
