----------------------------- MODULE FraudWindows -----------------------------
(***************************************************************************)
(* fraud-detection-service: the three windows of one user in Redis that a  *)
(* transfer's features come from.  Two replicas handle transfers of one    *)
(* user at the same time (the topic's key is the transaction), each Redis  *)
(* command of handle() is a step of its own, a handler that raises is      *)
(* logged and its message committed over, one that dies leaves its message *)
(* to be delivered again.  What the verdict does with the features, and    *)
(* the alert, are EventPipeline's.                                         *)
(***************************************************************************)
EXTENDS Integers, FiniteSets, Sequences

CONSTANTS Workers,      \* consumers of the group
          Transfers,    \* transfers of one user
          DstOf,        \* [Transfers -> destinations]
          Hour, Day,    \* the lengths of the velocity windows, in ticks
          Cap,          \* 101, amounts that ltrim keeps
          MaxClock,     \* bound: ticks
          MaxLosses,    \* bound: handlers that die or raise
          None

Destinations == {DstOf[t] : t \in Transfers}
Times        == 0 .. MaxClock

ASSUME WindowAssumption == /\ Hour \in Nat /\ Day \in Nat /\ Hour + 1 < Day
                           /\ Cap \in Nat \ {0} /\ MaxClock \in Nat /\ MaxLosses \in Nat
ASSUME TransfersAssumption == IsFiniteSet(Transfers) /\ IsFiniteSet(Workers)
ASSUME NoneAssumption   == None \notin Times /\ None \notin Transfers

VARIABLES
    clock,
    velocity,       \* zset sb:velocity:<user>, [Transfers -> score], None when absent
    amounts,        \* list sb:amounts:<user>, newest first; an amount is its transfer
    seen, seenTtl,  \* set sb:dst:<user>, and whether the key has a TTL
    committed,      \* transfers whose offset is committed
    pc, tx, now,    \* each handler: its transfer and its ts
    features,       \* each handler: what it has read so far
    \* history, read only by the properties:
    pushed,         \* every amount pushed, newest first
    losses,         \* the handlers that died or raised: transfer and step of each
    before,         \* each handler: scores of the transfers scored before it began
    orphaned        \* a handler was lost before it could give the seen-key a TTL

redis   == <<velocity, amounts, seen, seenTtl>>
handler == <<pc, tx, now, features>>
history == <<pushed, losses, before, orphaned>>
vars    == <<clock, redis, committed, handler, history>>

NoFeatures == [v1 |-> 0, v24 |-> 0]
Places     == {"idle", "zadd", "zrem", "zcount 1h", "zcount 24h", "lpush", "ltrim",
               "sismember", "sadd", "expire", "score"}

Init ==
    /\ clock = 0
    /\ velocity = [t \in Transfers |-> None]
    /\ amounts = <<>> /\ seen = {} /\ seenTtl = FALSE
    /\ committed = {}
    /\ pc = [w \in Workers |-> "idle"]
    /\ tx = [w \in Workers |-> None]
    /\ now = [w \in Workers |-> 0]
    /\ features = [w \in Workers |-> NoFeatures]
    /\ pushed = <<>> /\ losses = <<>> /\ orphaned = FALSE
    /\ before = [w \in Workers |-> {}]

Goto(w, from, to) == pc[w] = from /\ pc' = [pc EXCEPT ![w] = to]
LostAt(t, places)  == \E i \in DOMAIN losses : losses[i][1] = t /\ losses[i][2] \in places
Read(w, feature, value) == features' = [features EXCEPT ![w][feature] = value]

-----------------------------------------------------------------------------
(* handle(), one step per Redis command *)

\* A transfer that is not committed and that no live handler has.
Deliver(w, t) ==
    /\ Goto(w, "idle", "zadd")
    /\ t \notin committed /\ \A v \in Workers : tx[v] # t
    /\ tx' = [tx EXCEPT ![w] = t]
    /\ now' = [now EXCEPT ![w] = clock]
    /\ before' = [before EXCEPT ![w] = {u \in committed : ~ LostAt(u, {"score"})
                                             /\ velocity[u] # None /\ velocity[u] >= clock - Hour}]
    /\ UNCHANGED <<clock, redis, committed, features, pushed, losses, orphaned>>

AddVelocity(w) ==
    /\ Goto(w, "zadd", "zrem")
    /\ velocity' = [velocity EXCEPT ![tx[w]] = now[w]]
    /\ UNCHANGED <<clock, amounts, seen, seenTtl, committed, tx, now, features, history>>

\* Fault: everything older than an hour is removed.
PruneVelocityHour(w) ==
    /\ Goto(w, "zrem", "zcount 1h")
    /\ velocity' = [t \in Transfers |->
                        IF velocity[t] # None /\ velocity[t] <= now[w] - Hour THEN None ELSE velocity[t]]
    /\ UNCHANGED <<clock, amounts, seen, seenTtl, committed, tx, now, features, history>>

\* zremrangebyscore 0 one_day, both ends included.
PruneVelocity(w) ==
    /\ Goto(w, "zrem", "zcount 1h")
    /\ velocity' = [t \in Transfers |->
                        IF velocity[t] # None /\ velocity[t] <= now[w] - Day THEN None ELSE velocity[t]]
    /\ UNCHANGED <<clock, amounts, seen, seenTtl, committed, tx, now, features, history>>

\* zcount, both ends included.
Count(w, length) ==
    Cardinality({t \in Transfers : velocity[t] # None /\ velocity[t] \in now[w] - length .. now[w]})

CountHour(w) ==
    /\ Goto(w, "zcount 1h", "zcount 24h")
    /\ Read(w, "v1", Count(w, Hour))
    /\ UNCHANGED <<clock, redis, committed, tx, now, history>>

CountDay(w) ==
    /\ Goto(w, "zcount 24h", "lpush")
    /\ Read(w, "v24", Count(w, Day))
    /\ UNCHANGED <<clock, redis, committed, tx, now, history>>

PushAmount(w) ==
    /\ Goto(w, "lpush", "ltrim")
    /\ amounts' = <<tx[w]>> \o amounts
    /\ pushed' = <<tx[w]>> \o pushed
    /\ UNCHANGED <<clock, velocity, seen, seenTtl, committed, tx, now, features,
                   losses, before, orphaned>>

\* Fault: the oldest amounts are kept.
TrimAmountsOldest(w) ==
    /\ Goto(w, "ltrim", "sismember")
    /\ amounts' = IF Len(amounts) > Cap THEN SubSeq(amounts, Len(amounts) - Cap + 1, Len(amounts))
                                        ELSE amounts
    /\ UNCHANGED <<clock, velocity, seen, seenTtl, committed, tx, now, features, history>>

\* And lrange, for the z-score.
TrimAmounts(w) ==
    /\ Goto(w, "ltrim", "sismember")
    /\ amounts' = IF Len(amounts) > Cap THEN SubSeq(amounts, 1, Cap) ELSE amounts
    /\ UNCHANGED <<clock, velocity, seen, seenTtl, committed, tx, now, features, history>>

\* sismember answers 0 or 1, and neither is the False that the code compares it
\* with: is_new_dst is False whatever the set holds.
LookUpDestination(w) ==
    /\ Goto(w, "sismember", "sadd")
    /\ UNCHANGED <<clock, redis, committed, tx, now, features, history>>

RememberDestination(w) ==
    /\ Goto(w, "sadd", "expire")
    /\ seen' = seen \cup {DstOf[tx[w]]}
    /\ UNCHANGED <<clock, velocity, amounts, seenTtl, committed, tx, now, features, history>>

\* Fault: the TTL is given for a new destination only.
RefreshTtlIfNew(w) ==
    /\ Goto(w, "expire", "score")
    /\ UNCHANGED <<clock, redis, committed, tx, now, features, history>>

\* EXPIRE does nothing when the key is gone by now.
RefreshTtl(w) ==
    /\ Goto(w, "expire", "score")
    /\ seenTtl' = (seen # {})
    /\ orphaned' = FALSE
    /\ UNCHANGED <<clock, velocity, amounts, seen, committed, tx, now, features,
                   pushed, losses, before>>

Leave(w) ==
    /\ tx' = [tx EXCEPT ![w] = None]
    /\ now' = [now EXCEPT ![w] = 0]
    /\ features' = [features EXCEPT ![w] = NoFeatures]
    /\ before' = [before EXCEPT ![w] = {}]

\* The verdict, and the offset is committed.
Score(w) ==
    /\ Goto(w, "score", "idle")
    /\ committed' = committed \cup {tx[w]}
    /\ Leave(w)
    /\ UNCHANGED <<clock, redis, pushed, losses, orphaned>>

-----------------------------------------------------------------------------
(* Failures, TTLs and time *)

\* A Redis command raises: worker.error is logged and the offset committed; or
\* the pod dies, and the message comes again.
Lose(w) ==
    /\ pc[w] # "idle"
    /\ Len(losses) < MaxLosses
    /\ \E c \in {committed, committed \cup {tx[w]}} : committed' = c
    /\ losses' = Append(losses, <<tx[w], pc[w]>>)
    /\ orphaned' = (orphaned \/ (pc[w] = "expire" /\ ~ seenTtl))
    /\ pc' = [pc EXCEPT ![w] = "idle"]
    /\ Leave(w)
    /\ UNCHANGED <<clock, redis, pushed>>

\* 90 days after the last expire, between any two commands.
ExpireSeen ==
    /\ seenTtl
    /\ seen' = {} /\ seenTtl' = FALSE
    /\ UNCHANGED <<clock, velocity, amounts, committed, handler, history>>

\* A handler ends within a tick: it would lose its partition otherwise.
Tick ==
    /\ clock < MaxClock
    /\ \A w \in Workers : pc[w] # "idle" => now[w] = clock
    /\ clock' = clock + 1
    /\ UNCHANGED <<redis, committed, handler, history>>

-----------------------------------------------------------------------------
Step(w) ==
    \/ AddVelocity(w) \/ PruneVelocity(w) \/ CountHour(w) \/ CountDay(w)
    \/ PushAmount(w) \/ TrimAmounts(w)
    \/ LookUpDestination(w) \/ RememberDestination(w) \/ RefreshTtl(w) \/ Score(w)

Next ==
    \/ \E w \in Workers : Step(w) \/ Lose(w) \/ \E t \in Transfers : Deliver(w, t)
    \/ ExpireSeen \/ Tick

Spec == Init /\ [][Next]_vars

-----------------------------------------------------------------------------
(* Properties *)

TypeOK ==
    /\ clock \in Times
    /\ velocity \in [Transfers -> Times \cup {None}]
    /\ amounts \in Seq(Transfers) /\ pushed \in Seq(Transfers)
    /\ seen \subseteq Destinations /\ seenTtl \in BOOLEAN /\ orphaned \in BOOLEAN
    /\ committed \subseteq Transfers
    /\ pc \in [Workers -> Places]
    /\ tx \in [Workers -> Transfers \cup {None}]
    /\ now \in [Workers -> Times]
    /\ features \in [Workers -> [v1 : Nat, v24 : Nat]]
    /\ losses \in Seq(Transfers \X Places)
    /\ before \in [Workers -> SUBSET Transfers]

\* The velocities a transfer is scored with count itself, and every transfer of
\* the hour before it that was scored when it began, whatever another replica
\* adds and prunes in between and however often a transfer was delivered.
VelocityCountsAll ==
    \A w \in Workers : pc[w] = "score" =>
        LET recent == before[w] \cup {tx[w]} IN
        /\ Cardinality(recent) <= features[w].v1
        /\ Cardinality(recent) <= features[w].v24

\* The list is at all times the newest amounts that were pushed, no fewer than
\* Cap of them, and longer only by pushes whose handler has not trimmed yet or
\* was lost before it could.
AmountsAreNewest ==
    LET untrimmed == {w \in Workers : pc[w] = "ltrim"} IN
    /\ Len(amounts) <= Len(pushed) /\ amounts = SubSeq(pushed, 1, Len(amounts))
    /\ Len(amounts) >= Cap \/ amounts = pushed
    /\ Len(amounts) <= Cap + Cardinality(untrimmed)
                           + Cardinality({i \in DOMAIN losses : losses[i][2] = "ltrim"})

\* The set of known destinations has a TTL at all times, unless a handler is
\* between sadd and expire or was lost there while it had none, and nothing has
\* set one since; so it lapses, whichever replicas add to it while it does.
DestinationsLapse ==
    seen # {} => seenTtl \/ orphaned \/ \E w \in Workers : pc[w] = "expire"
=============================================================================
