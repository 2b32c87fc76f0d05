--------------------------- MODULE EventPipeline ---------------------------
(***************************************************************************)
(* The Kafka side of SecureBank: SecureConsumer.stream with its manual     *)
(* commit after each message, the fraud worker that turns transfer events  *)
(* into alerts, and the two loops of the notification service, whose       *)
(* replicas share the inboxes in Redis.  Events are keyed by transfer, so  *)
(* those of one user are spread over the partitions; a loop consumes one   *)
(* partition for one group.  A process may be killed and started again,    *)
(* here or as another replica, and begins at the offset committed last.    *)
(***************************************************************************)
EXTENDS Integers, Sequences, FiniteSets

CONSTANTS Partitions,   \* of each topic (both have six)
          Processes,    \* each the set of <<group, partition>> whose loops it runs
          Cap,          \* entries an inbox keeps (ltrim 0 99 keeps 100)
          MaxEvents,    \* bound: transfer events published
          MaxLosses     \* bound: kills and failed starts of a process

Groups == {"fraud", "notify_tx", "notify_alert"}
Source == [g \in Groups |-> IF g = "notify_alert" THEN "alerts" ELSE "tx"]
Queues == {"tx", "alerts"} \X Partitions

\* Replicas of fraud detection run its group's loops, those of the notification
\* service the loops of both of its groups.  A process that owns several
\* partitions of a topic handles their messages one after the other, which are
\* some of the orders that its loops may take here.
Loops == UNION Processes

ASSUME LoopAssumption  == Loops \subseteq Groups \X Partitions /\ IsFiniteSet(Loops)
ASSUME BoundAssumption == Cap \in Nat \ {0} /\ MaxEvents \in Nat /\ MaxLosses \in Nat

\* valid: the envelope's version and HMAC verify under the consumer's key.
Messages == [tx : Nat, valid : BOOLEAN]

Places  == {"down", "absent", "poll", "handle", "alert", "trim", "commit", "dead"}
Running == {"poll", "handle", "alert", "trim", "commit"}

VARIABLES
    topic,              \* [topic and partition -> log of messages]
    committed,          \* [loop -> offset stored in Kafka]
    place,              \* [loop -> where it is]
    pos,                \* [loop -> messages the iterator has handed out]
    inbox,              \* sb:notif:{user} of the one user, newest first
    published,          \* transfer events published so far
    losses,             \* kills and failed starts so far
    \* history, read only by the properties:
    finished,           \* [loop -> offsets whose handler ran to its end]
    dropped,            \* [loop -> offsets skipped or whose handler raised]
    audited,            \* transactions with a "fraud.alert" audit line
    pushed,             \* every entry pushed to the inbox, newest first
    untrimmed           \* handlers lost before their ltrim, since the last one

logs    == <<topic, published>>
offsets == <<finished, dropped>>
redis   == <<inbox, pushed, untrimmed>>
vars    == <<logs, committed, place, pos, losses, offsets, audited, redis>>

Log(l) == topic[<<Source[l[1]], l[2]>>]
Msg(l) == Log(l)[pos[l]]

Init ==
    /\ topic = [q \in Queues |-> <<>>]
    /\ committed = [l \in Loops |-> 0]
    /\ place = [l \in Loops |-> "down"]
    /\ pos = [l \in Loops |-> 0]
    /\ inbox = <<>> /\ pushed = <<>> /\ untrimmed = 0
    /\ published = 0 /\ losses = 0
    /\ finished = [l \in Loops |-> {}]
    /\ dropped = [l \in Loops |-> {}]
    /\ audited = {}

Goto(l, p) == place' = [place EXCEPT ![l] = p]

\* History: some of these loops go away between lpush and ltrim.
LeaveTrim(s) ==
    /\ untrimmed' = untrimmed + Cardinality({l \in s : place[l] = "trim"})
    /\ UNCHANGED <<inbox, pushed>>

-----------------------------------------------------------------------------
(* Processes and the broker *)

\* The transaction service publishes; the envelope may not verify here when the
\* two pods were given different HMAC keys.  The event's key picks a partition.
PublishTransfer(p, valid) ==
    /\ published < MaxEvents
    /\ published' = published + 1
    /\ topic' = [topic EXCEPT ![<<"tx", p>>] = Append(@, [tx |-> published', valid |-> valid])]
    /\ UNCHANGED <<committed, place, pos, losses, offsets, audited, redis>>

\* init_state: all consumers of the process start, or none is kept.
Start(s) ==
    /\ \A l \in s : place[l] = "down"
    /\ \/ /\ place' = [l \in Loops |-> IF l \in s THEN "poll" ELSE place[l]]
          /\ UNCHANGED losses
       \/ /\ losses < MaxLosses /\ losses' = losses + 1
          /\ place' = [l \in Loops |-> IF l \in s THEN "absent" ELSE place[l]]
    /\ pos' = [l \in Loops |-> IF l \in s THEN committed[l] ELSE pos[l]]
    /\ UNCHANGED <<logs, committed, offsets, audited, redis>>

\* The pod dies or is replaced; the position since the last commit is forgotten.
Kill(s) ==
    /\ losses < MaxLosses
    /\ \A l \in s : place[l] # "down"
    /\ place' = [l \in Loops |-> IF l \in s THEN "down" ELSE place[l]]
    /\ losses' = losses + 1
    /\ LeaveTrim(s)
    /\ UNCHANGED <<logs, committed, pos, offsets, audited>>

-----------------------------------------------------------------------------
(* SecureConsumer.stream *)

\* Fault: the offset is stored when the message is fetched (auto-commit).
PollCommits(l) ==
    /\ place[l] = "poll" /\ pos[l] < Len(Log(l))
    /\ pos' = [pos EXCEPT ![l] = @ + 1]
    /\ committed' = [committed EXCEPT ![l] = pos[l] + 1]
    /\ IF Log(l)[pos[l] + 1].valid
       THEN Goto(l, "handle") /\ UNCHANGED dropped
       ELSE Goto(l, "commit") /\ dropped' = [dropped EXCEPT ![l] = @ \cup {pos[l] + 1}]
    /\ UNCHANGED <<logs, losses, finished, audited, redis>>

\* Fault: a message that does not verify is skipped without a commit.
PollSkipUncommitted(l) ==
    /\ place[l] = "poll" /\ pos[l] < Len(Log(l))
    /\ pos' = [pos EXCEPT ![l] = @ + 1]
    /\ IF Log(l)[pos[l] + 1].valid
       THEN Goto(l, "handle") /\ UNCHANGED dropped
       ELSE Goto(l, "poll") /\ dropped' = [dropped EXCEPT ![l] = @ \cup {pos[l] + 1}]
    /\ UNCHANGED <<logs, committed, losses, finished, audited, redis>>

\* Fault: the envelope is handed over unverified.
PollUnverified(l) ==
    /\ place[l] = "poll" /\ pos[l] < Len(Log(l))
    /\ pos' = [pos EXCEPT ![l] = @ + 1]
    /\ Goto(l, "handle")
    /\ UNCHANGED <<logs, committed, losses, offsets, audited, redis>>

\* async for msg: a message that does not verify is skipped, not handed over.
Poll(l) ==
    /\ place[l] = "poll" /\ pos[l] < Len(Log(l))
    /\ pos' = [pos EXCEPT ![l] = @ + 1]
    /\ IF Log(l)[pos[l] + 1].valid
       THEN Goto(l, "handle") /\ UNCHANGED dropped
       ELSE Goto(l, "commit") /\ dropped' = [dropped EXCEPT ![l] = @ \cup {pos[l] + 1}]
    /\ UNCHANGED <<logs, committed, losses, finished, audited, redis>>

\* self._consumer.commit(): everything handed out so far is done.
Commit(l) ==
    /\ place[l] = "commit"
    /\ committed' = [committed EXCEPT ![l] = pos[l]]
    /\ Goto(l, "poll")
    /\ UNCHANGED <<logs, pos, losses, offsets, audited, redis>>

\* commit() raises, as after a rebalance; nothing in stream or in the worker
\* loops catches it, the loop's task ends and its process lives on.
CommitFails(l) ==
    /\ place[l] = "commit"
    /\ Goto(l, "dead")
    /\ UNCHANGED <<logs, committed, pos, losses, offsets, audited, redis>>

-----------------------------------------------------------------------------
(* Handlers; what one of them raises is logged and then committed over *)

Finish(l) ==
    /\ Goto(l, "commit")
    /\ finished' = [finished EXCEPT ![l] = @ \cup {pos[l]}]
    /\ UNCHANGED <<committed, pos, losses, dropped>>

GiveUp(l) ==
    /\ Goto(l, "commit")
    /\ dropped' = [dropped EXCEPT ![l] = @ \cup {pos[l]}]
    /\ UNCHANGED <<committed, pos, losses, finished>>

GoOn(l, p) == Goto(l, p) /\ UNCHANGED <<committed, pos, losses, offsets>>

\* Fault: a message whose handler raised is tried again at once.
HandlerRaisesRetry(l) ==
    /\ place[l] \in {"handle", "alert", "trim"}
    /\ GoOn(l, "handle")
    /\ LeaveTrim({l})
    /\ UNCHANGED <<logs, audited>>

HandlerRaises(l) ==
    /\ place[l] \in {"handle", "alert", "trim"}
    /\ GiveUp(l)
    /\ LeaveTrim({l})
    /\ UNCHANGED <<logs, audited>>

\* fraud handle: features, then a verdict that is below the threshold.
ScoreNormal(l) ==
    /\ place[l] = "handle"
    /\ Finish(l)
    /\ UNCHANGED <<logs, audited, redis>>

\* The verdict is an anomaly: the audit line comes before the alert event.
ScoreAnomaly(l) ==
    /\ place[l] = "handle"
    /\ audited' = audited \cup {Msg(l).tx}
    /\ GoOn(l, "alert")
    /\ UNCHANGED <<logs, redis>>

\* The alert is stored, with the transfer's key and so in the partition of the
\* same number, in an envelope of its own; send_and_wait may raise all the same.
SendAlert(l, valid) ==
    /\ place[l] = "alert"
    /\ topic' = [topic EXCEPT ![<<"alerts", l[2]>>] = Append(@, [tx |-> Msg(l).tx, valid |-> valid])]
    /\ Finish(l) \/ GiveUp(l)
    /\ UNCHANGED <<published, audited, redis>>

\* Fault: the entry is appended at the end that ltrim cuts off.
PushNotificationOldest(l) ==
    /\ place[l] = "handle"
    /\ inbox' = Append(inbox, Msg(l).tx)
    /\ pushed' = <<Msg(l).tx>> \o pushed
    /\ GoOn(l, "trim")
    /\ UNCHANGED <<logs, audited, untrimmed>>

\* handle_tx: lpush, and after another await ltrim and the audit line.
PushNotification(l) ==
    /\ place[l] = "handle"
    /\ inbox' = <<Msg(l).tx>> \o inbox
    /\ pushed' = <<Msg(l).tx>> \o pushed
    /\ GoOn(l, "trim")
    /\ UNCHANGED <<logs, audited, untrimmed>>

\* ltrim, and the audit line; either may raise after the trim took effect.
TrimInbox(l) ==
    /\ place[l] = "trim"
    /\ inbox' = IF Len(inbox) > Cap THEN SubSeq(inbox, 1, Cap) ELSE inbox
    /\ untrimmed' = 0
    /\ Finish(l) \/ GiveUp(l)
    /\ UNCHANGED <<logs, audited, pushed>>

\* handle_alert only writes an audit line.
NotifyAlert(l) ==
    /\ place[l] = "handle"
    /\ Finish(l)
    /\ UNCHANGED <<logs, audited, redis>>

-----------------------------------------------------------------------------
Handle(l) ==
    \/ HandlerRaises(l)
    \/ /\ l[1] = "fraud"
       /\ \/ ScoreNormal(l) \/ ScoreAnomaly(l)
          \/ \E valid \in BOOLEAN : SendAlert(l, valid)
    \/ l[1] = "notify_tx" /\ (PushNotification(l) \/ TrimInbox(l))
    \/ l[1] = "notify_alert" /\ NotifyAlert(l)

Step(l) == Poll(l) \/ Handle(l) \/ Commit(l)

Next ==
    \/ \E p \in Partitions, valid \in BOOLEAN : PublishTransfer(p, valid)
    \/ \E s \in Processes : Start(s) \/ Kill(s)
    \/ \E l \in Loops : Step(l) \/ CommitFails(l)

Spec == Init /\ [][Next]_vars

\* A loop that can go on does; a process that is down is started again.
FairSpec ==
    /\ Spec
    /\ \A l \in Loops : WF_vars(Step(l))
    /\ \A s \in Processes : WF_vars(Start(s))

-----------------------------------------------------------------------------
(* Properties *)

TypeOK ==
    /\ topic \in [Queues -> Seq(Messages)]
    /\ committed \in [Loops -> Nat]
    /\ place \in [Loops -> Places]
    /\ pos \in [Loops -> Nat]
    /\ inbox \in Seq(Nat) /\ pushed \in Seq(Nat) /\ untrimmed \in Nat
    /\ published \in Nat /\ losses \in Nat
    /\ finished \in [Loops -> SUBSET Nat]
    /\ dropped \in [Loops -> SUBSET Nat]
    /\ audited \subseteq Nat

\* No committed offset jumps over a message: each one below it was handled to
\* the end, or given up in the open (unverifiable, or its handler raised),
\* wherever processes died and loops ended.
NothingSkipped ==
    \A l \in Loops : 1 .. committed[l] \subseteq finished[l] \cup dropped[l]

\* A restart sees at most one message of a partition again, the one after the
\* committed offset: nothing beyond it was ever handled, a skipped message moves
\* the offset too.
RedeliveryIsLocal ==
    \A l \in Loops : finished[l] \cup dropped[l] \subseteq 1 .. committed[l] + 1

\* Every alert comes from a transfer event of its partition that verified, and
\* its audit line was written before it.
AlertsAreGrounded ==
    \A p \in Partitions : \A i \in 1 .. Len(topic[<<"alerts", p>>]) :
        LET t == topic[<<"alerts", p>>][i].tx IN
        /\ t \in audited
        /\ \E j \in 1 .. Len(topic[<<"tx", p>>]) :
              topic[<<"tx", p>>][j].valid /\ topic[<<"tx", p>>][j].tx = t

\* However the replicas' pushes and trims interleave and wherever a handler is
\* lost, the inbox is the newest entries pushed, no fewer than Cap of them, and
\* longer only by the handlers between push and trim and those lost there since
\* the last trim; a transfer whose handler ended without an exception was pushed.
InboxIsNewest ==
    /\ Len(inbox) <= Len(pushed) /\ inbox = SubSeq(pushed, 1, Len(inbox))
    /\ Len(inbox) >= Cap \/ inbox = pushed
    /\ Len(inbox) <= Cap + Cardinality({l \in Loops : place[l] = "trim"}) + untrimmed
    /\ \A l \in Loops : l[1] = "notify_tx" =>
          \A i \in finished[l] : \E k \in 1 .. Len(pushed) : pushed[k] = Log(l)[i].tx

\* A loop that is alive from some time on commits everything published: neither
\* a message that does not verify nor a handler that raises blocks it.
Drained ==
    \A l \in Loops :
        <>[](place[l] \in Running) => <>[](committed[l] = Len(Log(l)))
=============================================================================
