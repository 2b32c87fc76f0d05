--------------------------- MODULE FraudWindowsProofs ---------------------------
(***************************************************************************)
(* Theorems about FraudWindows, for any replicas, transfers, lengths of    *)
(* the windows and numbers of losses.                                      *)
(***************************************************************************)
EXTENDS FraudWindows, FiniteSetTheorems, SequenceTheorems, TLAPS

\* A handler has a transfer exactly while it is at work.
Busy == \A w \in Workers : pc[w] # "idle" <=> tx[w] \in Transfers

TypeInv == TypeOK /\ Busy

Features == [v1 : Nat, v24 : Nat]

-----------------------------------------------------------------------------
(* Operators *)

LEMMA CountType == ASSUME NEW w, NEW length PROVE Count(w, length) \in Nat
<1> DEFINE S == {t \in Transfers : velocity[t] # None /\ velocity[t] \in now[w] - length .. now[w]}
<1>1. IsFiniteSet(S)
  BY TransfersAssumption, FS_Subset, S \in SUBSET Transfers
<1> QED BY <1>1, FS_CardinalityType DEF Count

LEMMA Lengths == Hour \in Nat /\ Day \in Nat /\ Hour <= Hour /\ Hour <= Day
  BY WindowAssumption

\* Pushing one amount.
LEMMA Pushed ==
  ASSUME NEW s \in Seq(Transfers), NEW t \in Transfers
  PROVE  /\ <<t>> \o s \in Seq(Transfers)
         /\ Len(<<t>> \o s) = Len(s) + 1
         /\ \A i \in 1 .. Len(s) + 1 : (<<t>> \o s)[i] = IF i = 1 THEN t ELSE s[i - 1]
<1> DEFINE one == <<t>>
<1>1. one \in Seq(Transfers) /\ Len(one) = 1 /\ one[1] = t
  OBVIOUS
<1>2. Len(s) \in Nat
  BY LenProperties
<1> HIDE DEF one
<1>3. /\ one \o s \in Seq(Transfers) /\ Len(one \o s) = Len(one) + Len(s)
      /\ \A i \in 1 .. Len(one) + Len(s) : (one \o s)[i] = IF i <= Len(one) THEN one[i] ELSE s[i - Len(one)]
  BY <1>1, ConcatProperties, Zenon
<1>4. ASSUME NEW i \in 1 .. Len(s) + 1 PROVE (one \o s)[i] = IF i = 1 THEN t ELSE s[i - 1]
  BY <1>1, <1>2, <1>3
<1> QED BY <1>1, <1>2, <1>3, <1>4 DEF one

\* Keeping the first amounts.
LEMMA Kept ==
  ASSUME NEW s \in Seq(Transfers), NEW n \in 0 .. Len(s)
  PROVE  /\ SubSeq(s, 1, n) \in Seq(Transfers)
         /\ Len(SubSeq(s, 1, n)) = n
         /\ \A i \in 1 .. n : SubSeq(s, 1, n)[i] = s[i]
<1>1. Len(s) \in Nat /\ \A i \in 1 .. n : s[i] \in Transfers
  BY LenProperties, ElementOfSeq
<1> QED BY <1>1, SubSeqProperties

\* ltrim keeps at most Cap amounts, the newest.
LEMMA TrimKeeps ==
  ASSUME NEW s \in Seq(Transfers)
  PROVE  LET t == IF Len(s) > Cap THEN SubSeq(s, 1, Cap) ELSE s IN
         /\ t \in Seq(Transfers)
         /\ Len(t) = IF Len(s) > Cap THEN Cap ELSE Len(s)
         /\ \A i \in 1 .. Len(t) : t[i] = s[i]
<1>1. Len(s) \in Nat
  BY LenProperties
<1>2. Len(s) > Cap => Cap \in 0 .. Len(s)
  BY <1>1, WindowAssumption
<1> QED BY <1>1, <1>2, Kept

-----------------------------------------------------------------------------
(* Types *)

LEMMA TypeInit == Init => TypeInv
<1> SUFFICES ASSUME Init PROVE TypeInv
  OBVIOUS
<1>1. \A S : <<>> \in Seq(S)
  BY EmptySeq
<1>2. /\ amounts \in Seq(Transfers) /\ pushed \in Seq(Transfers)
      /\ losses \in Seq(Transfers \X Places)
  BY <1>1 DEF Init
<1>3. features \in [Workers -> Features]
  BY DEF Init, NoFeatures, Features
<1>4. Busy /\ pc \in [Workers -> Places] /\ tx \in [Workers -> Transfers \cup {None}]
  BY NoneAssumption DEF Init, Busy, Places
<1>5. /\ clock \in Times /\ now \in [Workers -> Times]
      /\ velocity \in [Transfers -> Times \cup {None}]
  BY WindowAssumption DEF Init, Times
<1> QED BY <1>2, <1>3, <1>4, <1>5 DEF Init, TypeInv, TypeOK, Features

\* A handler that goes on from one place to the next keeps its transfer.
LEMMA GoesOn ==
  ASSUME TypeInv, NEW w \in Workers, NEW from, NEW to \in Places,
         from # "idle", to # "idle", Goto(w, from, to), UNCHANGED tx
  PROVE  /\ Busy' /\ pc' \in [Workers -> Places] /\ tx' \in [Workers -> Transfers \cup {None}]
         /\ tx[w] \in Transfers
  BY DEF TypeInv, TypeOK, Busy, Goto

\* What is read keeps the type of the features.
LEMMA ReadType ==
  ASSUME TypeOK, NEW w \in Workers, NEW n \in Nat,
         Read(w, "v1", n) \/ Read(w, "v24", n)
  PROVE  features' \in [Workers -> Features]
<1>1. features \in [Workers -> Features]
  BY DEF TypeOK, Features
<1>2. ASSUME NEW f \in Features
      PROVE  [f EXCEPT !["v1"] = n] \in Features /\ [f EXCEPT !["v24"] = n] \in Features
  BY DEF Features
<1> QED BY <1>1, <1>2 DEF Read

\* A handler that leaves is idle, with no transfer.
LEMMA LeavesType ==
  ASSUME TypeInv, NEW w \in Workers, Leave(w), pc' = [pc EXCEPT ![w] = "idle"]
  PROVE  /\ Busy' /\ pc' \in [Workers -> Places] /\ tx' \in [Workers -> Transfers \cup {None}]
         /\ now' \in [Workers -> Times]
         /\ before' \in [Workers -> SUBSET Transfers] /\ features' \in [Workers -> Features]
<1>1. Busy' /\ pc' \in [Workers -> Places] /\ tx' \in [Workers -> Transfers \cup {None}]
  BY NoneAssumption DEF TypeInv, TypeOK, Busy, Leave, Places
<1>2. now' \in [Workers -> Times]
  BY WindowAssumption DEF TypeInv, TypeOK, Leave, Times
<1>3. before' \in [Workers -> SUBSET Transfers]
  BY DEF TypeInv, TypeOK, Leave
<1>4. features' \in [Workers -> Features]
  BY DEF TypeInv, TypeOK, Leave, NoFeatures, Features
<1> QED BY <1>1, <1>2, <1>3, <1>4

LEMMA TickType == ASSUME TypeOK, Tick PROVE clock' \in Times
<1>1. clock \in Times /\ clock < MaxClock /\ clock' = clock + 1
  BY DEF TypeOK, Tick
<1> QED BY <1>1, WindowAssumption DEF Times

LEMMA TypeStep == TypeInv /\ [Next]_vars => TypeInv'
<1> SUFFICES ASSUME TypeInv, [Next]_vars PROVE TypeInv'
  OBVIOUS
<1>p. {"zadd", "zrem", "zcount 1h", "zcount 24h", "lpush", "ltrim", "sismember",
       "sadd", "expire", "score"} \subseteq Places
  BY DEF Places
<1> USE <1>p DEF TypeInv, TypeOK, handler, redis, history, Features
<1>1. ASSUME NEW w \in Workers, NEW t \in Transfers, Deliver(w, t) PROVE TypeInv'
  <2>1. before' \in [Workers -> SUBSET Transfers]
    <3>1. {u \in committed : ~ LostAt(u, {"score"}) /\ velocity[u] # None
                                /\ velocity[u] >= clock - Hour} \in SUBSET Transfers
      OBVIOUS
    <3> QED BY <1>1, <3>1 DEF Deliver
  <2>2. now' \in [Workers -> Times]
    BY <1>1 DEF Deliver
  <2>3. Busy' /\ pc' \in [Workers -> Places] /\ tx' \in [Workers -> Transfers \cup {None}]
    BY <1>1 DEF Deliver, Goto, Busy
  <2> QED BY <1>1, <2>1, <2>2, <2>3 DEF Deliver
<1>2. ASSUME NEW w \in Workers, AddVelocity(w) PROVE TypeInv'
  <2>1. Busy' /\ pc' \in [Workers -> Places] /\ tx' \in [Workers -> Transfers \cup {None}]
    BY <1>2, GoesOn DEF AddVelocity
  <2> QED BY <1>2, <2>1 DEF AddVelocity
<1>3. ASSUME NEW w \in Workers, PruneVelocity(w) PROVE TypeInv'
  <2>1. velocity' \in [Transfers -> Times \cup {None}]
    BY <1>3 DEF PruneVelocity
  <2>2. Busy' /\ pc' \in [Workers -> Places] /\ tx' \in [Workers -> Transfers \cup {None}]
    BY <1>3, GoesOn DEF PruneVelocity
  <2> QED BY <1>3, <2>1, <2>2 DEF PruneVelocity
<1>4. ASSUME NEW w \in Workers, CountHour(w) \/ CountDay(w) PROVE TypeInv'
  <2>1. Count(w, Hour) \in Nat /\ Count(w, Day) \in Nat
    BY CountType
  <2>2. features' \in [Workers -> Features]
    BY <1>4, <2>1, ReadType DEF CountHour, CountDay
  <2>3. Busy' /\ pc' \in [Workers -> Places] /\ tx' \in [Workers -> Transfers \cup {None}]
    BY <1>4, GoesOn DEF CountHour, CountDay
  <2> QED BY <1>4, <2>2, <2>3 DEF CountHour, CountDay
<1>5. ASSUME NEW w \in Workers, PushAmount(w) PROVE TypeInv'
  <2>1. /\ Busy' /\ pc' \in [Workers -> Places] /\ tx' \in [Workers -> Transfers \cup {None}]
        /\ tx[w] \in Transfers
    BY <1>5, GoesOn DEF PushAmount
  <2>2. amounts' \in Seq(Transfers) /\ pushed' \in Seq(Transfers)
    BY <1>5, <2>1, Pushed DEF PushAmount
  <2> QED BY <1>5, <2>1, <2>2 DEF PushAmount
<1>6. ASSUME NEW w \in Workers, TrimAmounts(w) PROVE TypeInv'
  <2>1. amounts' \in Seq(Transfers)
    BY <1>6, TrimKeeps DEF TrimAmounts
  <2>2. Busy' /\ pc' \in [Workers -> Places] /\ tx' \in [Workers -> Transfers \cup {None}]
    BY <1>6, GoesOn DEF TrimAmounts
  <2> QED BY <1>6, <2>1, <2>2 DEF TrimAmounts
<1>7. ASSUME NEW w \in Workers, LookUpDestination(w) PROVE TypeInv'
  <2>1. Busy' /\ pc' \in [Workers -> Places] /\ tx' \in [Workers -> Transfers \cup {None}]
    BY <1>7, GoesOn DEF LookUpDestination
  <2> QED BY <1>7, <2>1 DEF LookUpDestination
<1>8. ASSUME NEW w \in Workers, RememberDestination(w) \/ RefreshTtl(w) PROVE TypeInv'
  <2>1. /\ Busy' /\ pc' \in [Workers -> Places] /\ tx' \in [Workers -> Transfers \cup {None}]
        /\ tx[w] \in Transfers
    BY <1>8, GoesOn DEF RememberDestination, RefreshTtl
  <2>2. seen' \subseteq Destinations /\ seenTtl' \in BOOLEAN /\ orphaned' \in BOOLEAN
    BY <1>8, <2>1 DEF RememberDestination, RefreshTtl, Destinations
  <2> QED BY <1>8, <2>1, <2>2 DEF RememberDestination, RefreshTtl
<1>9. ASSUME NEW w \in Workers, Score(w) PROVE TypeInv'
  <2>1. tx[w] \in Transfers
    BY <1>9 DEF Score, Goto, Busy
  <2>2. committed' \subseteq Transfers
    BY <1>9, <2>1 DEF Score
  <2>3. Leave(w) /\ pc' = [pc EXCEPT ![w] = "idle"]
    BY <1>9 DEF Score, Goto
  <2> QED BY <1>9, <2>2, <2>3, LeavesType DEF Score
<1>10. ASSUME NEW w \in Workers, Lose(w) PROVE TypeInv'
  <2>1. tx[w] \in Transfers
    BY <1>10 DEF Lose, Busy
  <2>2. losses' \in Seq(Transfers \X Places)
    BY <1>10, <2>1, AppendProperties DEF Lose
  <2>3. committed' \subseteq Transfers
    <3>1. committed' = committed \/ committed' = committed \cup {tx[w]}
      BY <1>10 DEF Lose
    <3> QED BY <2>1, <3>1
  <2>4. orphaned' \in BOOLEAN
    BY <1>10 DEF Lose
  <2> QED BY <1>10, <2>2, <2>3, <2>4, LeavesType DEF Lose
<1>11. CASE ExpireSeen
  BY <1>11 DEF ExpireSeen, Busy
<1>12. CASE Tick
  <2>1. clock' \in Times
    BY <1>12, TickType
  <2> QED BY <1>12, <2>1 DEF Tick, Busy
<1>13. CASE UNCHANGED vars
  BY <1>13 DEF vars, Busy
<1> QED BY <1>1, <1>2, <1>3, <1>4, <1>5, <1>6, <1>7, <1>8, <1>9, <1>10, <1>11, <1>12, <1>13
  DEF Next, Step

\* The variables keep their types: a handler of handle() has a transfer at every step.
THEOREM TypeCorrect == Spec => []TypeOK
<1>1. TypeInv => TypeOK
  BY DEF TypeInv
<1> QED BY <1>1, TypeInit, TypeStep, PTL DEF Spec

-----------------------------------------------------------------------------
(* The velocities *)

\* A live handler is at most one tick behind, and no other has its transfer.
OnTime ==
    /\ \A w \in Workers : tx[w] \in Transfers =>
          /\ now[w] <= clock /\ clock <= now[w] + 1
          /\ tx[w] \notin committed
    /\ \A v, w \in Workers : tx[v] \in Transfers /\ tx[v] = tx[w] => v = w
    /\ \A t \in Transfers : velocity[t] # None => velocity[t] <= clock

\* The score of a transfer is in the hour before now[w].
InHour(w, t) == velocity[t] \in now[w] - Hour .. now[w]

\* What a handler must count is still there, whatever the others prune.
Recent ==
    \A w \in Workers : tx[w] \in Transfers =>
        /\ \A u \in before[w] : u \in committed /\ velocity[u] # None /\ InHour(w, u)
        /\ pc[w] # "zadd" => velocity[tx[w]] = now[w]

\* What has been counted is at least what had to be.
Counted ==
    \A w \in Workers :
        LET recent == before[w] \cup {tx[w]} IN
        /\ pc[w] \in Places \ {"idle", "zadd", "zrem", "zcount 1h"}
              => Cardinality(recent) <= features[w].v1
        /\ pc[w] \in Places \ {"idle", "zadd", "zrem", "zcount 1h", "zcount 24h"}
              => Cardinality(recent) <= features[w].v24

WindowInv == TypeInv /\ OnTime /\ Recent /\ Counted

\* Times are numbers, and no number is None.
LEMMA TimesType == ASSUME TypeOK PROVE
    /\ clock \in Nat
    /\ \A w \in Workers : now[w] \in Nat /\ now[w] # None
    /\ \A t \in Transfers : velocity[t] # None => velocity[t] \in Nat
  BY NoneAssumption, WindowAssumption DEF TypeOK, Times

\* The steps that neither write the velocities nor take or leave a transfer.
LEMMA Idles ==
  ASSUME TypeInv, NEW w \in Workers,
         \/ CountHour(w) \/ CountDay(w) \/ PushAmount(w) \/ TrimAmounts(w)
         \/ LookUpDestination(w) \/ RememberDestination(w) \/ RefreshTtl(w)
  PROVE  /\ UNCHANGED <<clock, velocity, committed, tx, now, before>>
         /\ \A v \in Workers : pc'[v] # "zadd" => pc[v] # "zadd"
<1> USE DEF history, redis, TypeInv, TypeOK, Goto
<1>1. CASE CountHour(w) \/ CountDay(w)
  BY <1>1 DEF CountHour, CountDay
<1>2. CASE PushAmount(w) \/ TrimAmounts(w)
  BY <1>2 DEF PushAmount, TrimAmounts
<1>3. CASE LookUpDestination(w) \/ RememberDestination(w) \/ RefreshTtl(w)
  BY <1>3 DEF LookUpDestination, RememberDestination, RefreshTtl
<1> QED BY <1>1, <1>2, <1>3

\* What a handler that leaves leaves alone.
LEMMA Leaves ==
  ASSUME TypeInv, NEW w \in Workers, Score(w) \/ Lose(w)
  PROVE  /\ UNCHANGED <<clock, velocity>>
         /\ committed \subseteq committed' /\ committed' \subseteq committed \cup {tx[w]}
         /\ tx'[w] = None /\ pc'[w] = "idle" /\ before'[w] = {}
         /\ \A v \in Workers \ {w} :
               /\ tx'[v] = tx[v] /\ pc'[v] = pc[v] /\ now'[v] = now[v]
               /\ before'[v] = before[v] /\ features'[v] = features[v]
         /\ tx[w] \in Transfers
<1> USE DEF TypeInv, TypeOK, redis
<1>1. Leave(w) /\ pc' = [pc EXCEPT ![w] = "idle"] /\ UNCHANGED <<clock, velocity>>
  BY DEF Score, Lose, Goto
<1>2. committed' = committed \/ committed' = committed \cup {tx[w]}
  BY DEF Score, Lose
<1>3. tx[w] \in Transfers
  BY DEF Score, Lose, Goto, Busy
<1> QED BY <1>1, <1>2, <1>3 DEF Leave, NoFeatures

LEMMA InHourAfter ==
  ASSUME TypeOK, NEW w \in Workers, NEW t, InHour(w, t) PROVE velocity[t] >= now[w] - Hour
<1>1. now[w] \in Nat
  BY TimesType
<1> QED BY <1>1, WindowAssumption DEF InHour

LEMMA OnTimeStep == TypeInv /\ OnTime /\ [Next]_vars => OnTime'
<1> SUFFICES ASSUME TypeInv, OnTime, [Next]_vars PROVE OnTime'
  OBVIOUS
<1>t. /\ clock \in Nat /\ \A w \in Workers : now[w] \in Nat /\ now[w] # None
      /\ \A t \in Transfers : velocity[t] # None => velocity[t] \in Nat
  BY TimesType DEF TypeInv
<1>5. ASSUME NEW w \in Workers, Score(w) \/ Lose(w) PROVE OnTime'
  BY <1>t, <1>5, Leaves, NoneAssumption DEF OnTime
<1> USE <1>t, NoneAssumption DEF TypeInv, TypeOK, Busy, OnTime, handler, redis, history
<1>1. ASSUME NEW w \in Workers, NEW t \in Transfers, Deliver(w, t) PROVE OnTime'
  BY <1>1 DEF Deliver
<1>2. ASSUME NEW w \in Workers, AddVelocity(w) PROVE OnTime'
  BY <1>2 DEF AddVelocity
<1>3. ASSUME NEW w \in Workers, PruneVelocity(w) PROVE OnTime'
  BY <1>3 DEF PruneVelocity
<1>4. ASSUME NEW w \in Workers,
             \/ CountHour(w) \/ CountDay(w) \/ PushAmount(w) \/ TrimAmounts(w)
             \/ LookUpDestination(w) \/ RememberDestination(w) \/ RefreshTtl(w)
      PROVE  OnTime'
  <2>1. UNCHANGED <<clock, velocity, committed, tx, now>>
    BY <1>4, Idles
  <2> QED BY <2>1
<1>6. CASE ExpireSeen \/ UNCHANGED vars
  BY <1>6 DEF ExpireSeen, vars
<1>7. CASE Tick
  BY <1>7 DEF Tick
<1> QED BY <1>1, <1>2, <1>3, <1>4, <1>5, <1>6, <1>7 DEF Next, Step

LEMMA RecentStep == TypeInv /\ OnTime /\ Recent /\ [Next]_vars => Recent'
<1> SUFFICES ASSUME TypeInv, OnTime, Recent, [Next]_vars PROVE Recent'
  OBVIOUS
<1>t. /\ clock \in Nat /\ \A w \in Workers : now[w] \in Nat /\ now[w] # None
      /\ \A t \in Transfers : velocity[t] # None => velocity[t] \in Nat
  BY TimesType DEF TypeInv
<1>5. ASSUME NEW w \in Workers, Score(w) \/ Lose(w) PROVE Recent'
  BY <1>t, <1>5, Leaves, NoneAssumption DEF Recent, InHour
<1> USE <1>t, NoneAssumption, WindowAssumption
    DEF TypeInv, TypeOK, Busy, OnTime, Recent, InHour, handler, redis, history
<1>1. ASSUME NEW w \in Workers, NEW t \in Transfers, Deliver(w, t) PROVE Recent'
  BY <1>1 DEF Deliver, Goto
<1>2. ASSUME NEW w \in Workers, AddVelocity(w) PROVE Recent'
  BY <1>2 DEF AddVelocity, Goto
<1>3. ASSUME NEW w \in Workers, PruneVelocity(w) PROVE Recent'
  <2>1. /\ UNCHANGED <<clock, committed, tx, now, before>>
        /\ pc[w] # "zadd" /\ pc' = [pc EXCEPT ![w] = "zcount 1h"]
    BY <1>3 DEF PruneVelocity, Goto
  <2>2. now[w] <= clock
    BY <1>3 DEF PruneVelocity, Goto
  <2>3. \A t \in Transfers : velocity[t] # None /\ velocity[t] > now[w] - Day
                                  => velocity'[t] = velocity[t]
    <3>1. \A t \in Transfers : velocity'[t] =
             IF velocity[t] # None /\ velocity[t] <= now[w] - Day THEN None ELSE velocity[t]
      BY <1>3 DEF PruneVelocity
    <3>2. \A t \in Transfers : velocity[t] # None /\ velocity[t] > now[w] - Day
                                  => ~ (velocity[t] <= now[w] - Day)
      BY <1>t, WindowAssumption
    <3> QED BY <3>1, <3>2
  <2>4. ASSUME NEW v \in Workers, tx[v] \in Transfers, NEW t \in Transfers,
               velocity[t] # None, velocity[t] >= now[v] - Hour
        PROVE  velocity'[t] = velocity[t]
    <3>1. clock <= now[v] + 1 /\ now[v] \in Nat /\ now[w] \in Nat /\ velocity[t] \in Nat
      BY <2>4
    <3>2. velocity[t] > now[w] - Day
      BY <2>2, <2>4, <3>1
    <3> QED BY <2>3, <2>4, <3>2
  <2>5. ASSUME NEW v \in Workers, tx'[v] \in Transfers, NEW u \in before'[v]
        PROVE  u \in committed' /\ velocity'[u] # None /\ InHour(v, u)'
    <3>1. u \in committed /\ u \in Transfers /\ velocity[u] # None /\ InHour(v, u)
      BY <2>1, <2>5
    <3>4. tx[v] \in Transfers
      BY <2>1, <2>5
    <3>5. velocity[u] >= now[v] - Hour
      BY InHourAfter, <3>1
    <3>2. velocity'[u] = velocity[u]
      BY <2>4, <3>1, <3>4, <3>5
    <3> QED BY <2>1, <3>1, <3>2
  <2>6. ASSUME NEW v \in Workers, tx'[v] \in Transfers, pc'[v] # "zadd"
        PROVE  velocity'[tx'[v]] = now'[v]
    <3>1. pc[v] # "zadd" /\ tx[v] \in Transfers
      BY <2>1, <2>6
    <3>2. velocity[tx[v]] = now[v] /\ now[v] # None /\ now[v] \in Nat /\ now[v] >= now[v] - Hour
      BY <3>1
    <3> QED BY <2>1, <2>4, <3>1, <3>2
  <2> QED BY <2>5, <2>6
<1>4. ASSUME NEW w \in Workers,
             \/ CountHour(w) \/ CountDay(w) \/ PushAmount(w) \/ TrimAmounts(w)
             \/ LookUpDestination(w) \/ RememberDestination(w) \/ RefreshTtl(w)
      PROVE  Recent'
  <2>1. /\ UNCHANGED <<clock, velocity, committed, tx, now, before>>
        /\ \A v \in Workers : pc'[v] # "zadd" => pc[v] # "zadd"
    BY <1>4, Idles
  <2> QED BY <2>1
<1>6. CASE ExpireSeen \/ UNCHANGED vars
  BY <1>6 DEF ExpireSeen, vars
<1>7. CASE Tick
  BY <1>7 DEF Tick
<1> QED BY <1>1, <1>2, <1>3, <1>4, <1>5, <1>6, <1>7 DEF Next, Step

\* A handler that counts a window of at least an hour counts all it must.
LEMMA CountsRecent ==
  ASSUME TypeInv, OnTime, Recent, NEW w \in Workers, NEW length \in Nat, Hour <= length,
         tx[w] \in Transfers, pc[w] # "zadd"
  PROVE  Cardinality(before[w] \cup {tx[w]}) <= Count(w, length)
<1> DEFINE S == {t \in Transfers : velocity[t] # None /\ velocity[t] \in now[w] - length .. now[w]}
<1>t. /\ now[w] \in Nat /\ now[w] # None
      /\ \A t \in Transfers : velocity[t] # None => velocity[t] \in Nat
  BY TimesType DEF TypeInv
<1>1. before[w] \cup {tx[w]} \subseteq S
  BY <1>t, WindowAssumption DEF TypeInv, TypeOK, Recent, InHour
<1>2. IsFiniteSet(S)
  BY TransfersAssumption, FS_Subset, S \in SUBSET Transfers
<1> QED BY <1>1, <1>2, FS_Subset DEF Count

LEMMA CountedStep == WindowInv /\ [Next]_vars => Counted'
<1> SUFFICES ASSUME WindowInv, [Next]_vars PROVE Counted'
  OBVIOUS
<1> USE DEF WindowInv, TypeInv, TypeOK, Busy, Counted, handler, redis, history, Places
<1>1. ASSUME NEW w \in Workers, NEW t \in Transfers, Deliver(w, t) PROVE Counted'
  BY <1>1 DEF Deliver, Goto
<1>2. ASSUME NEW w \in Workers, AddVelocity(w) \/ PruneVelocity(w) PROVE Counted'
  BY <1>2 DEF AddVelocity, PruneVelocity, Goto
<1>3. ASSUME NEW w \in Workers, CountHour(w) PROVE Counted'
  <2>1. Cardinality(before[w] \cup {tx[w]}) <= Count(w, Hour)
    <3>1. tx[w] \in Transfers /\ pc[w] # "zadd"
      BY <1>3 DEF CountHour, Goto
    <3>2. Hour \in Nat /\ Day \in Nat /\ Hour <= Hour /\ Hour <= Day
      BY Lengths
    <3>3. TypeInv /\ OnTime /\ Recent
      OBVIOUS
    <3> HIDE DEF WindowInv, TypeInv
    <3> QED BY <3>1, <3>2, <3>3, CountsRecent
  <2>2. /\ features'[w].v1 = Count(w, Hour)
        /\ \A v \in Workers \ {w} : features'[v] = features[v]
    BY <1>3 DEF CountHour, Read
  <2>3. /\ pc[w] = "zcount 1h" /\ pc' = [pc EXCEPT ![w] = "zcount 24h"]
        /\ UNCHANGED <<tx, before>>
    BY <1>3 DEF CountHour, Goto
  <2> QED BY <2>1, <2>2, <2>3
<1>4. ASSUME NEW w \in Workers, CountDay(w) PROVE Counted'
  <2>1. Cardinality(before[w] \cup {tx[w]}) <= Count(w, Day)
    <3>1. tx[w] \in Transfers /\ pc[w] # "zadd"
      BY <1>4 DEF CountDay, Goto
    <3>2. Hour \in Nat /\ Day \in Nat /\ Hour <= Hour /\ Hour <= Day
      BY Lengths
    <3>3. TypeInv /\ OnTime /\ Recent
      OBVIOUS
    <3> HIDE DEF WindowInv, TypeInv
    <3> QED BY <3>1, <3>2, <3>3, CountsRecent
  <2>2. /\ features'[w].v1 = features[w].v1 /\ features'[w].v24 = Count(w, Day)
        /\ \A v \in Workers \ {w} : features'[v] = features[v]
    BY <1>4 DEF CountDay, Read
  <2>3. /\ pc[w] = "zcount 24h" /\ pc' = [pc EXCEPT ![w] = "lpush"]
        /\ UNCHANGED <<tx, before>>
    BY <1>4 DEF CountDay, Goto
  <2> QED BY <2>1, <2>2, <2>3
<1>5. ASSUME NEW w \in Workers,
             \/ PushAmount(w) \/ TrimAmounts(w)
             \/ LookUpDestination(w) \/ RememberDestination(w) \/ RefreshTtl(w)
      PROVE  Counted'
  <2>1. UNCHANGED <<tx, before>>
    BY <1>5, Idles
  <2>2. UNCHANGED features
    BY <1>5 DEF PushAmount, TrimAmounts, LookUpDestination, RememberDestination, RefreshTtl
  <2>3. /\ pc[w] \in {"lpush", "ltrim", "sismember", "sadd", "expire"}
        /\ \A v \in Workers \ {w} : pc'[v] = pc[v]
    BY <1>5 DEF PushAmount, TrimAmounts, LookUpDestination, RememberDestination, RefreshTtl, Goto
  <2> QED BY <2>1, <2>2, <2>3
<1>6. ASSUME NEW w \in Workers, Score(w) \/ Lose(w) PROVE Counted'
  BY <1>6, Leaves
<1>7. CASE ExpireSeen \/ Tick \/ UNCHANGED vars
  BY <1>7 DEF ExpireSeen, Tick, vars
<1> QED BY <1>1, <1>2, <1>3, <1>4, <1>5, <1>6, <1>7 DEF Next, Step

LEMMA WindowInit == Init => WindowInv
<1> SUFFICES ASSUME Init PROVE WindowInv
  OBVIOUS
<1>1. TypeInv
  BY TypeInit
<1> QED BY <1>1, NoneAssumption DEF Init, WindowInv, OnTime, Recent, Counted

\* The velocities of a transfer count every transfer of the hour that was scored
\* before its handler began, whatever the other replicas add and prune.
THEOREM NothingUncounted == Spec => []VelocityCountsAll
<1>1. WindowInv => VelocityCountsAll
  BY DEF WindowInv, Counted, VelocityCountsAll, Places
<1>2. WindowInv /\ [Next]_vars => WindowInv'
  BY TypeStep, OnTimeStep, RecentStep, CountedStep DEF WindowInv
<1> QED BY <1>1, <1>2, WindowInit, PTL DEF Spec

-----------------------------------------------------------------------------
(* Known destinations *)

\* No handler steps from sadd but into expire, and none leaves expire but by
\* setting the TTL or by being lost.
LEMMA LapseStep == TypeInv /\ DestinationsLapse /\ [Next]_vars => DestinationsLapse'
<1> SUFFICES ASSUME TypeInv, DestinationsLapse, [Next]_vars PROVE DestinationsLapse'
  OBVIOUS
<1>f. pc \in [Workers -> Places]
  BY DEF TypeInv, TypeOK
<1> USE DEF DestinationsLapse, Goto, redis, history
<1>1. ASSUME NEW w \in Workers, NEW t \in Transfers, Deliver(w, t) PROVE DestinationsLapse'
  BY <1>f, <1>1 DEF Deliver
<1>2. ASSUME NEW w \in Workers, AddVelocity(w) \/ PruneVelocity(w) PROVE DestinationsLapse'
  BY <1>f, <1>2 DEF AddVelocity, PruneVelocity
<1>3. ASSUME NEW w \in Workers, CountHour(w) \/ CountDay(w) PROVE DestinationsLapse'
  BY <1>f, <1>3 DEF CountHour, CountDay
<1>4. ASSUME NEW w \in Workers, PushAmount(w) \/ TrimAmounts(w) PROVE DestinationsLapse'
  BY <1>f, <1>4 DEF PushAmount, TrimAmounts
<1>5. ASSUME NEW w \in Workers, LookUpDestination(w) PROVE DestinationsLapse'
  BY <1>f, <1>5 DEF LookUpDestination
<1>6. ASSUME NEW w \in Workers, RememberDestination(w) PROVE DestinationsLapse'
  <2>1. pc'[w] = "expire"
    BY <1>f, <1>6 DEF RememberDestination
  <2> QED BY <2>1
<1>7. ASSUME NEW w \in Workers, RefreshTtl(w) PROVE DestinationsLapse'
  BY <1>7 DEF RefreshTtl
<1>8. ASSUME NEW w \in Workers, Score(w) PROVE DestinationsLapse'
  BY <1>f, <1>8 DEF Score
<1>9. ASSUME NEW w \in Workers, Lose(w) PROVE DestinationsLapse'
  <2>1. /\ UNCHANGED <<seen, seenTtl>> /\ pc' = [pc EXCEPT ![w] = "idle"]
        /\ orphaned \/ (pc[w] = "expire" /\ ~ seenTtl) => orphaned'
    BY <1>9 DEF Lose
  <2> QED BY <1>f, <2>1
<1>10. CASE ExpireSeen
  BY <1>10 DEF ExpireSeen
<1>11. CASE Tick \/ UNCHANGED vars
  BY <1>11 DEF Tick, vars, handler
<1> QED BY <1>1, <1>2, <1>3, <1>4, <1>5, <1>6, <1>7, <1>8, <1>9, <1>10, <1>11 DEF Next, Step

\* The known destinations are never kept for good, but after a handler that was
\* lost before its expire and until the next one's.
THEOREM DestinationsAreForgotten == Spec => []DestinationsLapse
<1>1. Init => TypeInv /\ DestinationsLapse
  BY TypeInit DEF Init, DestinationsLapse
<1>2. (TypeInv /\ DestinationsLapse) /\ [Next]_vars => (TypeInv /\ DestinationsLapse)'
  BY TypeStep, LapseStep
<1> QED BY <1>1, <1>2, PTL DEF Spec

-----------------------------------------------------------------------------
(* The amounts *)

Untrimmed == {w \in Workers : pc[w] = "ltrim"}
LostTrims == {i \in DOMAIN losses : losses[i][2] = "ltrim"}

\* The list and the history of pushes agree entry by entry.
Newest ==
    /\ Len(amounts) <= Len(pushed)
    /\ \A i \in 1 .. Len(amounts) : amounts[i] = pushed[i]
    /\ Len(amounts) >= Cap \/ Len(amounts) = Len(pushed)

Bounded == Len(amounts) <= Cap + Cardinality(Untrimmed) + Cardinality(LostTrims)

AmountsInv == TypeInv /\ Newest /\ Bounded

\* Only finitely many handlers are at work and were lost.
LEMMA Finite ==
  ASSUME TypeOK
  PROVE  /\ IsFiniteSet(Untrimmed) /\ Cardinality(Untrimmed) \in Nat
         /\ IsFiniteSet(LostTrims) /\ Cardinality(LostTrims) \in Nat
         /\ Len(amounts) \in Nat /\ Len(pushed) \in Nat /\ Cap \in Nat \ {0}
<1>1. IsFiniteSet(Untrimmed)
  BY TransfersAssumption, FS_Subset, Untrimmed \in SUBSET Workers DEF Untrimmed
<1>2. IsFiniteSet(LostTrims)
  <2>1. losses \in Seq(Transfers \X Places)
    BY DEF TypeOK
  <2>2. Len(losses) \in Nat /\ DOMAIN losses = 1 .. Len(losses)
    BY <2>1, LenProperties
  <2>3. IsFiniteSet(1 .. Len(losses))
    BY <2>2, FS_Interval
  <2>4. LostTrims \in SUBSET (1 .. Len(losses))
    BY <2>2 DEF LostTrims
  <2> QED BY <2>3, <2>4, FS_Subset
<1>3. Len(amounts) \in Nat /\ Len(pushed) \in Nat
  BY LenProperties DEF TypeOK
<1> QED BY <1>1, <1>2, <1>3, FS_CardinalityType, WindowAssumption

\* The loss of a handler is one entry more.
Appended(w) ==
    /\ Len(losses) \in Nat /\ DOMAIN losses = 1 .. Len(losses) /\ DOMAIN losses' = 1 .. Len(losses) + 1
    /\ \A i \in 1 .. Len(losses) : losses'[i] = losses[i]
    /\ losses'[Len(losses) + 1][1] = tx[w] /\ losses'[Len(losses) + 1][2] = pc[w]

LEMMA AppendIsNext == ASSUME TypeInv, NEW w \in Workers, Lose(w) PROVE Appended(w)
<1> DEFINE e == <<tx[w], pc[w]>>
<1>1. losses \in Seq(Transfers \X Places) /\ losses' = Append(losses, e)
  BY DEF TypeInv, TypeOK, Lose
<1>2. e \in Transfers \X Places /\ e[1] = tx[w] /\ e[2] = pc[w]
  BY DEF TypeInv, TypeOK, Busy, Lose
<1> HIDE DEF e
<1>3. /\ losses' \in Seq(Transfers \X Places) /\ Len(losses') = Len(losses) + 1
      /\ \A i \in 1 .. Len(losses) : losses'[i] = losses[i]
      /\ losses'[Len(losses) + 1] = e
  BY <1>1, <1>2, AppendProperties
<1> QED BY <1>1, <1>2, <1>3, LenProperties DEF Appended

\* Steps that touch neither the list nor who has to trim it.
LEMMA AmountsSame ==
  ASSUME Newest, Bounded, UNCHANGED <<amounts, pushed, losses>>,
         \A w \in Workers : pc'[w] = "ltrim" <=> pc[w] = "ltrim"
  PROVE  Newest' /\ Bounded'
<1>1. Untrimmed' = Untrimmed
  BY DEF Untrimmed
<1>2. LostTrims' = LostTrims
  BY DEF LostTrims
<1> QED BY <1>1, <1>2 DEF Newest, Bounded

LEMMA PushKeeps ==
  ASSUME AmountsInv, NEW w \in Workers, PushAmount(w) PROVE Newest' /\ Bounded'
<1>1. /\ tx[w] \in Transfers /\ amounts \in Seq(Transfers) /\ pushed \in Seq(Transfers)
      /\ amounts' = <<tx[w]>> \o amounts /\ pushed' = <<tx[w]>> \o pushed /\ losses' = losses
      /\ pc[w] = "lpush" /\ pc' = [pc EXCEPT ![w] = "ltrim"] /\ pc \in [Workers -> Places]
  BY DEF AmountsInv, TypeInv, TypeOK, Busy, PushAmount, Goto
<1>2. /\ Len(amounts') = Len(amounts) + 1 /\ Len(pushed') = Len(pushed) + 1
      /\ \A i \in 1 .. Len(amounts) + 1 : amounts'[i] = IF i = 1 THEN tx[w] ELSE amounts[i - 1]
      /\ \A i \in 1 .. Len(pushed) + 1 : pushed'[i] = IF i = 1 THEN tx[w] ELSE pushed[i - 1]
  BY <1>1, Pushed
<1>3. /\ IsFiniteSet(Untrimmed) /\ Cardinality(Untrimmed) \in Nat /\ Cardinality(LostTrims) \in Nat
      /\ Len(amounts) \in Nat /\ Len(pushed) \in Nat /\ Cap \in Nat \ {0}
  BY Finite DEF AmountsInv, TypeInv
<1>4. /\ Len(amounts) <= Len(pushed) /\ \A i \in 1 .. Len(amounts) : amounts[i] = pushed[i]
      /\ Len(amounts) >= Cap \/ Len(amounts) = Len(pushed)
      /\ Len(amounts) <= Cap + Cardinality(Untrimmed) + Cardinality(LostTrims)
  BY DEF AmountsInv, Newest, Bounded
<1>5. Newest'
  <2>1. ASSUME NEW i \in 1 .. Len(amounts) + 1 PROVE amounts'[i] = pushed'[i]
    <3>1. CASE i = 1
      BY <1>2, <1>3, <3>1
    <3>2. CASE i # 1
      <4>1. i - 1 \in 1 .. Len(amounts) /\ i \in 1 .. Len(pushed) + 1
        BY <1>3, <1>4, <3>2
      <4> QED BY <1>2, <1>4, <3>2, <4>1
    <3> QED BY <3>1, <3>2
  <2> QED BY <1>2, <1>3, <1>4, <2>1 DEF Newest
<1>6. Bounded'
  <2>1. Untrimmed' = Untrimmed \cup {w} /\ w \notin Untrimmed
    BY <1>1 DEF Untrimmed
  <2>2. Cardinality(Untrimmed') = Cardinality(Untrimmed) + 1
    BY <1>3, <2>1, FS_AddElement
  <2>3. LostTrims' = LostTrims
    BY <1>1 DEF LostTrims
  <2> QED BY <1>2, <1>3, <1>4, <2>2, <2>3 DEF Bounded
<1> QED BY <1>5, <1>6

LEMMA TrimKeepsNewest ==
  ASSUME AmountsInv, NEW w \in Workers, TrimAmounts(w) PROVE Newest' /\ Bounded'
<1>1. /\ amounts \in Seq(Transfers) /\ UNCHANGED <<pushed, losses>>
      /\ amounts' = IF Len(amounts) > Cap THEN SubSeq(amounts, 1, Cap) ELSE amounts
  BY DEF AmountsInv, TypeInv, TypeOK, TrimAmounts, history
<1>2. /\ Len(amounts') = IF Len(amounts) > Cap THEN Cap ELSE Len(amounts)
      /\ \A i \in 1 .. Len(amounts') : amounts'[i] = amounts[i]
  BY <1>1, TrimKeeps
<1>3. Len(amounts) \in Nat /\ Len(pushed) \in Nat /\ Cap \in Nat \ {0}
  BY Finite DEF AmountsInv, TypeInv
<1>4. Cardinality(Untrimmed') \in Nat /\ Cardinality(LostTrims') \in Nat
  <2>1. Untrimmed' \subseteq Untrimmed /\ LostTrims' = LostTrims
    BY <1>1 DEF AmountsInv, TypeInv, TypeOK, TrimAmounts, Goto, Untrimmed, LostTrims
  <2> QED BY <2>1, Finite, FS_Subset, FS_CardinalityType DEF AmountsInv, TypeInv
<1>5. Newest'
  BY <1>1, <1>2, <1>3 DEF AmountsInv, Newest
<1>6. Bounded'
  BY <1>2, <1>3, <1>4 DEF Bounded
<1> QED BY <1>5, <1>6

LEMMA LoseKeeps ==
  ASSUME AmountsInv, NEW w \in Workers, Lose(w) PROVE Newest' /\ Bounded'
<1>1. /\ pc \in [Workers -> Places] /\ pc' = [pc EXCEPT ![w] = "idle"]
      /\ UNCHANGED <<amounts, pushed>> /\ losses \in Seq(Transfers \X Places)
      /\ tx[w] \in Transfers /\ losses' = Append(losses, <<tx[w], pc[w]>>)
  BY DEF AmountsInv, TypeInv, TypeOK, Busy, Lose, redis
<1>2. Appended(w)
  BY AppendIsNext DEF AmountsInv
<1>3. /\ IsFiniteSet(Untrimmed) /\ Cardinality(Untrimmed) \in Nat
      /\ IsFiniteSet(LostTrims) /\ Cardinality(LostTrims) \in Nat
      /\ Len(amounts) \in Nat /\ Cap \in Nat \ {0}
  BY Finite DEF AmountsInv, TypeInv
<1>4. Newest'
  BY <1>1 DEF AmountsInv, Newest
<1>5. CASE pc[w] = "ltrim"
  <2>1. Untrimmed' = Untrimmed \ {w} /\ w \in Untrimmed
    BY <1>1, <1>5 DEF Untrimmed
  <2>2. Cardinality(Untrimmed') = Cardinality(Untrimmed) - 1
    BY <1>3, <2>1, FS_RemoveElement
  <2>3. LostTrims' = LostTrims \cup {Len(losses) + 1} /\ Len(losses) + 1 \notin LostTrims
    BY <1>2, <1>5 DEF LostTrims, Appended
  <2>4. Cardinality(LostTrims') = Cardinality(LostTrims) + 1
    BY <1>3, <2>3, FS_AddElement
  <2>5. Bounded'
    BY <1>1, <1>3, <2>2, <2>4 DEF AmountsInv, Bounded
  <2> QED BY <1>4, <2>5
<1>6. CASE pc[w] # "ltrim"
  <2>1. Untrimmed' = Untrimmed
    BY <1>1, <1>6 DEF Untrimmed
  <2>2. LostTrims' = LostTrims
    BY <1>2, <1>6 DEF LostTrims, Appended
  <2>3. Bounded'
    BY <1>1, <2>1, <2>2 DEF AmountsInv, Bounded
  <2> QED BY <1>4, <2>3
<1> QED BY <1>5, <1>6

LEMMA AmountsStep == AmountsInv /\ [Next]_vars => AmountsInv'
<1> SUFFICES ASSUME AmountsInv, [Next]_vars PROVE Newest' /\ Bounded'
  BY TypeStep DEF AmountsInv
<1>f. pc \in [Workers -> Places] /\ Newest /\ Bounded
  BY DEF AmountsInv, TypeInv, TypeOK
<1>1. ASSUME NEW w \in Workers, NEW t \in Transfers, Deliver(w, t) PROVE Newest' /\ Bounded'
  BY <1>f, <1>1, AmountsSame DEF Deliver, Goto, redis
<1>2. ASSUME NEW w \in Workers, AddVelocity(w) \/ PruneVelocity(w) PROVE Newest' /\ Bounded'
  BY <1>f, <1>2, AmountsSame DEF AddVelocity, PruneVelocity, Goto, history
<1>3. ASSUME NEW w \in Workers, CountHour(w) \/ CountDay(w) PROVE Newest' /\ Bounded'
  BY <1>f, <1>3, AmountsSame DEF CountHour, CountDay, Goto, history, redis
<1>4. ASSUME NEW w \in Workers, PushAmount(w) PROVE Newest' /\ Bounded'
  BY <1>4, PushKeeps
<1>5. ASSUME NEW w \in Workers, TrimAmounts(w) PROVE Newest' /\ Bounded'
  BY <1>5, TrimKeepsNewest
<1>6. ASSUME NEW w \in Workers,
             LookUpDestination(w) \/ RememberDestination(w) \/ RefreshTtl(w)
      PROVE  Newest' /\ Bounded'
  BY <1>f, <1>6, AmountsSame
  DEF LookUpDestination, RememberDestination, RefreshTtl, Goto, history, redis
<1>7. ASSUME NEW w \in Workers, Score(w) PROVE Newest' /\ Bounded'
  BY <1>f, <1>7, AmountsSame DEF Score, Goto, redis
<1>8. ASSUME NEW w \in Workers, Lose(w) PROVE Newest' /\ Bounded'
  BY <1>8, LoseKeeps
<1>9. CASE ExpireSeen \/ Tick \/ UNCHANGED vars
  BY <1>f, <1>9, AmountsSame DEF ExpireSeen, Tick, vars, handler, history, redis
<1> QED BY <1>1, <1>2, <1>3, <1>4, <1>5, <1>6, <1>7, <1>8, <1>9 DEF Next, Step

LEMMA AmountsInit == Init => AmountsInv
<1> SUFFICES ASSUME Init PROVE AmountsInv
  OBVIOUS
<1>1. TypeInv
  BY TypeInit
<1>2. /\ Cardinality(Untrimmed) \in Nat /\ Cardinality(LostTrims) \in Nat /\ Cap \in Nat \ {0}
      /\ amounts = pushed /\ Len(amounts) = 0
  BY <1>1, Finite DEF TypeInv, Init
<1> QED BY <1>1, <1>2 DEF AmountsInv, Newest, Bounded

\* The list of amounts is always a prefix of everything pushed, newest first, at
\* least Cap long once it could be, and over Cap only by who has not trimmed.
THEOREM AmountsStayNewest == Spec => []AmountsAreNewest
<1>1. AmountsInv => AmountsAreNewest
  <2> SUFFICES ASSUME AmountsInv PROVE AmountsAreNewest
    OBVIOUS
  <2>1. /\ amounts \in Seq(Transfers) /\ pushed \in Seq(Transfers)
        /\ Len(amounts) \in Nat /\ Len(pushed) \in Nat
    BY LenProperties DEF AmountsInv, TypeInv, TypeOK
  <2>2. Len(amounts) \in 0 .. Len(pushed)
    BY <2>1 DEF AmountsInv, Newest
  <2>3. amounts = SubSeq(pushed, 1, Len(amounts))
    BY <2>1, <2>2, Kept, SeqEqual DEF AmountsInv, Newest
  <2>4. Len(amounts) >= Cap \/ amounts = pushed
    BY <2>1, SeqEqual DEF AmountsInv, Newest
  <2> QED BY <2>2, <2>3, <2>4
      DEF AmountsInv, Newest, Bounded, Untrimmed, LostTrims, AmountsAreNewest
<1> QED BY <1>1, AmountsInit, AmountsStep, PTL DEF Spec
=============================================================================
