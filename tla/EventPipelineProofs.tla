------------------------ MODULE EventPipelineProofs ------------------------
(***************************************************************************)
(* Theorems about EventPipeline for any partitions, processes, number of   *)
(* events and losses and any inbox cap.  The offsets rest on the commit    *)
(* after every message: the position is at the committed offset while a    *)
(* loop polls and one past it while the message is handled, and every      *)
(* restart goes back to that offset.                                       *)
(***************************************************************************)
EXTENDS EventPipeline, SequenceTheorems, FiniteSetTheorems, TLAPS

\* The variables that the offset argument reads keep their types.
OffsetTypes ==
    /\ place \in [Loops -> Places]
    /\ pos \in [Loops -> Nat]
    /\ committed \in [Loops -> Nat]
    /\ finished \in [Loops -> SUBSET Nat]
    /\ dropped \in [Loops -> SUBSET Nat]

\* Where a loop's position stands relative to its committed offset.
Aligned(l) ==
    /\ place[l] = "poll" => pos[l] = committed[l]
    /\ place[l] \in {"handle", "alert", "trim", "commit"} => pos[l] = committed[l] + 1
    /\ place[l] = "commit" => pos[l] \in finished[l] \cup dropped[l]

OffsetInv ==
    /\ OffsetTypes
    /\ \A l \in Loops : Aligned(l)
    /\ NothingSkipped
    /\ RedeliveryIsLocal

\* A loop's part of OffsetInv holds on when its variables do.
Kept(l) ==
    /\ place'[l] = place[l] /\ pos'[l] = pos[l] /\ committed'[l] = committed[l]
    /\ finished'[l] = finished[l] /\ dropped'[l] = dropped[l]

LoopOK(l) ==
    /\ Aligned(l)
    /\ 1 .. committed[l] \subseteq finished[l] \cup dropped[l]
    /\ finished[l] \cup dropped[l] \subseteq 1 .. committed[l] + 1

LEMMA PerLoop == OffsetInv <=> OffsetTypes /\ \A l \in Loops : LoopOK(l)
  BY DEF OffsetInv, LoopOK, NothingSkipped, RedeliveryIsLocal

\* A step of one loop leaves the other loops' part alone.
LEMMA OneLoop ==
  ASSUME OffsetInv, NEW l \in Loops, OffsetTypes', LoopOK(l)',
         \A m \in Loops \ {l} : Kept(m)
  PROVE  OffsetInv'
<1>1. \A m \in Loops \ {l} : LoopOK(m)'
  BY PerLoop DEF LoopOK, Aligned, Kept
<1> QED
  BY <1>1, PerLoop DEF OffsetInv, LoopOK, NothingSkipped, RedeliveryIsLocal

\* What any step of a handler does to its loop.
Handled(l) ==
    /\ place[l] \in {"handle", "alert", "trim"}
    /\ pos' = pos /\ committed' = committed /\ losses' = losses
    /\ \/ /\ place' = [place EXCEPT ![l] = "commit"]
          /\ \/ /\ finished' = [finished EXCEPT ![l] = @ \cup {pos[l]}]
                /\ dropped' = dropped
             \/ /\ dropped' = [dropped EXCEPT ![l] = @ \cup {pos[l]}]
                /\ finished' = finished
       \/ /\ place' \in {[place EXCEPT ![l] = "alert"], [place EXCEPT ![l] = "trim"]}
          /\ UNCHANGED <<finished, dropped>>

LEMMA HandlersHandle == ASSUME NEW l \in Loops, Handle(l) PROVE Handled(l)
<1> USE DEF Handled, Finish, GiveUp, GoOn, Goto, offsets
<1>1. CASE HandlerRaises(l)
  BY <1>1 DEF HandlerRaises
<1>2. CASE ScoreNormal(l) \/ ScoreAnomaly(l) \/ NotifyAlert(l)
  BY <1>2 DEF ScoreNormal, ScoreAnomaly, NotifyAlert
<1>3. CASE \E valid \in BOOLEAN : SendAlert(l, valid)
  BY <1>3 DEF SendAlert
<1>4. CASE PushNotification(l) \/ TrimInbox(l)
  BY <1>4 DEF PushNotification, TrimInbox
<1> QED BY <1>1, <1>2, <1>3, <1>4 DEF Handle

LEMMA OffsetStep == OffsetInv /\ [Next]_vars => OffsetInv'
<1> SUFFICES ASSUME OffsetInv, [Next]_vars PROVE OffsetInv'
  OBVIOUS
<1> USE DEF offsets, logs, Goto, Kept, OffsetTypes, Places
<1>0. OffsetTypes /\ \A l \in Loops : LoopOK(l)
  BY PerLoop
<1>1. ASSUME NEW p \in Partitions, NEW valid \in BOOLEAN, PublishTransfer(p, valid)
      PROVE  OffsetInv'
  BY <1>1 DEF PublishTransfer, OffsetInv, Aligned, NothingSkipped, RedeliveryIsLocal
<1>2. ASSUME NEW s \in Processes, Start(s) \/ Kill(s) PROVE OffsetInv'
  <2>1. OffsetTypes' /\ UNCHANGED <<committed, finished, dropped>>
    BY <1>0, <1>2 DEF Start, Kill
  <2>2. ASSUME NEW l \in Loops PROVE LoopOK(l)'
    BY <1>0, <1>2, <2>1 DEF Start, Kill, LoopOK, Aligned
  <2> QED BY <2>1, <2>2 DEF OffsetInv, LoopOK, NothingSkipped, RedeliveryIsLocal
<1>3. ASSUME NEW l \in Loops, Poll(l) PROVE OffsetInv'
  <2>1. OffsetTypes'
    <3>1. pos' = [pos EXCEPT ![l] = @ + 1] /\ UNCHANGED <<committed, finished>>
      BY <1>3 DEF Poll
    <3>2. place' = [place EXCEPT ![l] = "handle"] \/ place' = [place EXCEPT ![l] = "commit"]
      BY <1>3 DEF Poll
    <3>3. dropped' = dropped \/ dropped' = [dropped EXCEPT ![l] = @ \cup {pos[l] + 1}]
      BY <1>3 DEF Poll
    <3> QED BY <1>0, <3>1, <3>2, <3>3
  <2>2. LoopOK(l)'
    BY <1>0, <1>3 DEF Poll, LoopOK, Aligned
  <2>3. \A m \in Loops \ {l} : Kept(m)
    BY <1>0, <1>3 DEF Poll
  <2> QED BY <2>1, <2>2, <2>3, OneLoop
<1>4. ASSUME NEW l \in Loops, Commit(l) \/ CommitFails(l) PROVE OffsetInv'
  <2>1. OffsetTypes'
    BY <1>0, <1>4 DEF Commit, CommitFails
  <2>2. LoopOK(l)'
    <3>1. CASE Commit(l)
      BY <1>0, <3>1 DEF Commit, LoopOK, Aligned
    <3>2. CASE CommitFails(l)
      BY <1>0, <3>2 DEF CommitFails, LoopOK, Aligned
    <3> QED BY <1>4, <3>1, <3>2
  <2>3. \A m \in Loops \ {l} : Kept(m)
    BY <1>0, <1>4 DEF Commit, CommitFails
  <2> QED BY <2>1, <2>2, <2>3, OneLoop
<1>5. ASSUME NEW l \in Loops, Handle(l) PROVE OffsetInv'
  <2>1. Handled(l)
    BY <1>5, HandlersHandle
  <2>2. OffsetTypes'
    BY <1>0, <2>1 DEF Handled
  <2>3. LoopOK(l)'
    BY <1>0, <2>1 DEF Handled, LoopOK, Aligned
  <2>4. \A m \in Loops \ {l} : Kept(m)
    BY <1>0, <2>1 DEF Handled
  <2> QED BY <2>2, <2>3, <2>4, OneLoop
<1>6. CASE UNCHANGED vars
  BY <1>6 DEF vars, OffsetInv, Aligned, NothingSkipped, RedeliveryIsLocal
<1> QED
  BY <1>1, <1>2, <1>3, <1>4, <1>5, <1>6 DEF Next, Step

LEMMA OffsetsCorrect == Spec => []OffsetInv
<1>1. Init => OffsetInv
  BY DEF Init, OffsetInv, OffsetTypes, Places, Aligned, NothingSkipped, RedeliveryIsLocal
<1> QED
  BY <1>1, OffsetStep, PTL DEF Spec

\* For any number of kills and failed commits, no committed offset jumps over a
\* message that was neither handled nor given up in the open.
THEOREM NoMessageSkipped == Spec => []NothingSkipped
<1>1. OffsetInv => NothingSkipped
  BY DEF OffsetInv
<1> QED
  BY <1>1, OffsetsCorrect, PTL

\* For any number of kills and failed commits, only the message of a partition
\* after its committed offset can reach a handler a second time.
THEOREM RedeliveryLocal == Spec => []RedeliveryIsLocal
<1>1. OffsetInv => RedeliveryIsLocal
  BY DEF OffsetInv
<1> QED
  BY <1>1, OffsetsCorrect, PTL

-----------------------------------------------------------------------------
(* The logs only grow *)

\* No position, committed or finished offset is beyond the end of its log.
WithinLog ==
    \A l \in Loops :
        /\ committed[l] <= Len(Log(l)) /\ pos[l] <= Len(Log(l))
        /\ finished[l] \subseteq 1 .. Len(Log(l))

LogInv ==
    /\ topic \in [Queues -> Seq(Messages)]
    /\ published \in Nat
    /\ WithinLog

\* Each loop consumes one of the logs.
LEMMA LoopShape ==
  \A l \in Loops : /\ l[1] \in Groups /\ l[2] \in Partitions
                   /\ <<Source[l[1]], l[2]>> \in Queues
                   /\ <<"tx", l[2]>> \in Queues /\ <<"alerts", l[2]>> \in Queues
  BY LoopAssumption DEF Queues, Source, Groups

\* The message in a handler's hands is one of its log.
LEMMA InHand ==
  ASSUME OffsetInv, LogInv, NEW l \in Loops, place[l] \in {"handle", "alert", "trim"}
  PROVE  pos[l] \in 1 .. Len(Log(l)) /\ Msg(l) \in Messages /\ Msg(l).tx \in Nat
<1>1. Log(l) \in Seq(Messages) /\ Len(Log(l)) \in Nat
  BY LoopShape, LenProperties DEF LogInv, Log
<1>2. pos[l] \in 1 .. Len(Log(l))
  BY <1>1 DEF OffsetInv, OffsetTypes, Aligned, LogInv, WithinLog
<1>3. Msg(l) \in Messages
  BY <1>1, <1>2, ElementOfSeq DEF Msg
<1> QED BY <1>2, <1>3 DEF Messages

\* A step appends at most one message to one log.
Appended ==
    \/ topic' = topic
    \/ \E q \in Queues, m \in Messages : topic' = [topic EXCEPT ![q] = Append(@, m)]

LEMMA StepsAppend ==
  ASSUME OffsetInv, LogInv, [Next]_vars
  PROVE  Appended /\ published' \in Nat
<1> USE DEF Appended
<1>0. published \in Nat
  BY DEF LogInv
<1>1. ASSUME NEW p \in Partitions, NEW valid \in BOOLEAN, PublishTransfer(p, valid)
      PROVE  Appended /\ published' \in Nat
  <2> DEFINE m == [tx |-> published + 1, valid |-> valid]
  <2>1. m \in Messages /\ <<"tx", p>> \in Queues
    BY <1>0 DEF Messages, Queues
  <2>2. topic' = [topic EXCEPT ![<<"tx", p>>] = Append(@, m)] /\ published' = published + 1
    BY <1>1 DEF PublishTransfer
  <2>3. Appended
    <3> HIDE DEF m
    <3> QED BY <2>1, <2>2, Zenon
  <2>4. published' \in Nat
    BY <1>0, <2>2
  <2> QED BY <2>3, <2>4
<1>2. ASSUME NEW l \in Loops, NEW valid \in BOOLEAN, SendAlert(l, valid)
      PROVE  Appended /\ published' \in Nat
  <2> DEFINE m == [tx |-> Msg(l).tx, valid |-> valid]
  <2>1. m \in Messages /\ <<"alerts", l[2]>> \in Queues
    BY <1>2, InHand, LoopShape DEF SendAlert, Messages
  <2>2. topic' = [topic EXCEPT ![<<"alerts", l[2]>>] = Append(@, m)] /\ published' = published
    BY <1>2 DEF SendAlert
  <2>3. Appended
    <3> HIDE DEF m
    <3> QED BY <2>1, <2>2, Zenon
  <2> QED BY <1>0, <2>2, <2>3
<1>3. ASSUME NEW s \in Processes, Start(s) \/ Kill(s) PROVE Appended /\ published' \in Nat
  BY <1>0, <1>3 DEF Start, Kill, logs
<1>4. ASSUME NEW l \in Loops, Poll(l) \/ Commit(l) \/ CommitFails(l)
      PROVE  Appended /\ published' \in Nat
  BY <1>0, <1>4 DEF Poll, Commit, CommitFails, logs
<1>5. ASSUME NEW l \in Loops,
             \/ HandlerRaises(l) \/ ScoreNormal(l) \/ ScoreAnomaly(l)
             \/ PushNotification(l) \/ TrimInbox(l) \/ NotifyAlert(l)
      PROVE  Appended /\ published' \in Nat
  BY <1>0, <1>5
     DEF HandlerRaises, ScoreNormal, ScoreAnomaly, PushNotification, TrimInbox, NotifyAlert, logs
<1>6. CASE UNCHANGED vars
  BY <1>0, <1>6 DEF vars, logs
<1> QED
  BY <1>1, <1>2, <1>3, <1>4, <1>5, <1>6 DEF Next, Step, Handle

\* What was in a log stays in its place.
Grown(log, longer) ==
    /\ longer \in Seq(Messages) /\ Len(log) \in Nat /\ Len(longer) \in Nat
    /\ Len(log) <= Len(longer)
    /\ \A i \in 1 .. Len(log) : longer[i] = log[i]

LEMMA LogsGrow ==
  ASSUME OffsetInv, LogInv, [Next]_vars
  PROVE  /\ topic' \in [Queues -> Seq(Messages)]
         /\ \A q \in Queues : Grown(topic[q], topic'[q])
<1>1. topic \in [Queues -> Seq(Messages)]
  BY DEF LogInv
<1>2. ASSUME NEW log \in Seq(Messages)
      PROVE  Grown(log, log) /\ \A m \in Messages : Grown(log, Append(log, m))
  BY LenProperties, AppendProperties DEF Grown
<1>3. CASE topic' = topic
  BY <1>1, <1>2, <1>3
<1>4. ASSUME NEW q \in Queues, NEW m \in Messages, topic' = [topic EXCEPT ![q] = Append(@, m)]
      PROVE  /\ topic' \in [Queues -> Seq(Messages)]
             /\ \A r \in Queues : Grown(topic[r], topic'[r])
  <2>1. \A r \in Queues : Grown(topic[r], topic'[r])
    BY <1>1, <1>2, <1>4
  <2>2. topic' \in [Queues -> Seq(Messages)]
    BY <1>1, <1>4, AppendProperties
  <2> QED BY <2>1, <2>2
<1> QED BY <1>3, <1>4, StepsAppend DEF Appended

\* A loop's log, and the messages in it that it speaks of, stay what they are.
LEMMA LogGrows ==
  ASSUME OffsetInv, LogInv, [Next]_vars, NEW l \in Loops
  PROVE  /\ Grown(Log(l), Log(l)')
         /\ \A i \in finished[l] : Log(l)'[i] = Log(l)[i]
         /\ pos[l] \in 1 .. Len(Log(l)) /\ pos'[l] = pos[l] => Msg(l)' = Msg(l)
<1>1. Grown(Log(l), Log(l)')
  BY LogsGrow, LoopShape DEF Log
<1> QED BY <1>1 DEF Grown, Msg, LogInv, WithinLog

LEMMA LogStep == OffsetInv /\ LogInv /\ [Next]_vars => LogInv'
<1> SUFFICES ASSUME OffsetInv, LogInv, [Next]_vars PROVE WithinLog'
  BY LogsGrow, StepsAppend DEF LogInv
<1>0. \A l \in Loops :
        /\ committed[l] <= Len(Log(l)) /\ pos[l] <= Len(Log(l))
        /\ finished[l] \subseteq 1 .. Len(Log(l))
        /\ Len(Log(l)) \in Nat /\ Len(Log(l))' \in Nat /\ Len(Log(l)) <= Len(Log(l))'
        /\ committed[l] \in Nat /\ pos[l] \in Nat
        /\ place[l] \in {"handle", "alert", "trim"} => pos[l] \in 1 .. Len(Log(l))
  BY LogGrows, InHand DEF Grown, LogInv, WithinLog, OffsetInv, OffsetTypes
<1> USE <1>0 DEF WithinLog, logs, offsets, Goto
<1>1. CASE UNCHANGED <<committed, pos, finished>>
  BY <1>1
<1>2. ASSUME NEW s \in Processes, Start(s) PROVE WithinLog'
  BY <1>2 DEF Start
<1>3. ASSUME NEW l \in Loops, Poll(l) PROVE WithinLog'
  BY <1>3 DEF Poll, OffsetInv, OffsetTypes
<1>4. ASSUME NEW l \in Loops, Commit(l) PROVE WithinLog'
  BY <1>4 DEF Commit, OffsetInv, OffsetTypes
<1>5. ASSUME NEW l \in Loops, Handle(l) PROVE WithinLog'
  <2>1. Handled(l)
    BY <1>5, HandlersHandle
  <2>2. /\ UNCHANGED <<committed, pos>>
        /\ finished' = finished \/ finished' = [finished EXCEPT ![l] = @ \cup {pos[l]}]
        /\ pos[l] \in 1 .. Len(Log(l))
    BY <2>1 DEF Handled
  <2>3. \A m \in Loops : finished'[m] \subseteq 1 .. Len(Log(m))
    BY <2>2 DEF OffsetInv, OffsetTypes
  <2> QED BY <2>2, <2>3
<1>6. ASSUME NEW p \in Partitions, NEW valid \in BOOLEAN, PublishTransfer(p, valid)
      PROVE  WithinLog'
  BY <1>1, <1>6 DEF PublishTransfer
<1>7. ASSUME NEW s \in Processes, Kill(s) PROVE WithinLog'
  BY <1>1, <1>7 DEF Kill
<1>8. ASSUME NEW l \in Loops, CommitFails(l) PROVE WithinLog'
  BY <1>1, <1>8 DEF CommitFails
<1>9. CASE UNCHANGED vars
  BY <1>1, <1>9 DEF vars
<1> QED
  BY <1>2, <1>3, <1>4, <1>5, <1>6, <1>7, <1>8, <1>9 DEF Next, Step

-----------------------------------------------------------------------------
(* Where alerts come from *)

\* A transfer with an audit line and a verified event in the log of transfers.
Grounded(t, log, lines) ==
    t \in lines /\ \E j \in 1 .. Len(log) : log[j].valid /\ log[j].tx = t

\* A handler's message verified, and is audited when its alert is about to go out.
Verified(l) ==
    /\ place[l] \in {"handle", "alert"} => Msg(l).valid
    /\ place[l] = "alert" => Msg(l).tx \in audited

AlertInv == AlertsAreGrounded /\ \A l \in Loops : Verified(l)

LEMMA GroundedIs ==
  AlertsAreGrounded <=> \A p \in Partitions : \A i \in 1 .. Len(topic[<<"alerts", p>>]) :
                            Grounded(topic[<<"alerts", p>>][i].tx, topic[<<"tx", p>>], audited)
  BY DEF AlertsAreGrounded, Grounded

\* What is grounded stays so, as logs grow and audit lines stay.
LEMMA StaysGrounded ==
  ASSUME OffsetInv, LogInv, [Next]_vars, audited \subseteq audited',
         NEW p \in Partitions, NEW t, Grounded(t, topic[<<"tx", p>>], audited)
  PROVE  Grounded(t, topic'[<<"tx", p>>], audited')
<1>1. Grown(topic[<<"tx", p>>], topic'[<<"tx", p>>])
  BY LogsGrow DEF Queues
<1> QED BY <1>1 DEF Grounded, Grown

\* The logs of alerts that no step appends to.
LEMMA AlertsStay ==
  ASSUME OffsetInv, LogInv, AlertsAreGrounded, [Next]_vars, audited \subseteq audited',
         NEW p \in Partitions, topic'[<<"alerts", p>>] = topic[<<"alerts", p>>]
  PROVE  \A i \in 1 .. Len(topic'[<<"alerts", p>>]) :
            Grounded(topic'[<<"alerts", p>>][i].tx, topic'[<<"tx", p>>], audited')
  BY StaysGrounded, GroundedIs

\* A loop whose place and position stay keeps a verified message.
LEMMA StaysVerified ==
  ASSUME OffsetInv, LogInv, [Next]_vars, audited \subseteq audited',
         NEW l \in Loops, Verified(l), place'[l] = place[l], pos'[l] = pos[l]
  PROVE  Verified(l)'
<1>1. CASE place[l] \in {"handle", "alert"}
  <2>1. Msg(l)' = Msg(l)
    BY <1>1, InHand, LogGrows
  <2> QED BY <2>1 DEF Verified
<1> QED BY <1>1 DEF Verified

LEMMA AlertStep == OffsetInv /\ LogInv /\ AlertInv /\ [Next]_vars => AlertInv'
<1> SUFFICES ASSUME OffsetInv, LogInv, AlertInv, [Next]_vars PROVE AlertInv'
  OBVIOUS
<1>0. OffsetTypes /\ AlertsAreGrounded /\ \A l \in Loops : Verified(l)
  BY DEF OffsetInv, AlertInv
<1>a. ASSUME audited \subseteq audited',
             \A p \in Partitions : topic'[<<"alerts", p>>] = topic[<<"alerts", p>>]
      PROVE  AlertsAreGrounded'
  BY <1>0, <1>a, AlertsStay DEF AlertsAreGrounded, Grounded
<1> USE DEF OffsetTypes, logs, offsets, Goto, Finish, GiveUp, GoOn
<1>1. ASSUME NEW p \in Partitions, NEW valid \in BOOLEAN, PublishTransfer(p, valid)
      PROVE  AlertInv'
  <2>1. /\ \A r \in Partitions : topic'[<<"alerts", r>>] = topic[<<"alerts", r>>]
        /\ UNCHANGED <<place, pos, audited>>
    BY <1>1 DEF PublishTransfer, LogInv, Queues
  <2> QED BY <1>0, <1>a, <2>1, StaysVerified DEF AlertInv
<1>2. ASSUME NEW s \in Processes, Start(s) \/ Kill(s) PROVE AlertInv'
  <2>1. /\ UNCHANGED <<topic, audited>>
        /\ \A l \in Loops : \/ place'[l] \in {"poll", "absent", "down"}
                            \/ place'[l] = place[l] /\ pos'[l] = pos[l]
    BY <1>0, <1>2 DEF Start, Kill
  <2>2. \A l \in Loops : Verified(l)'
    BY <1>0, <2>1, StaysVerified DEF Verified
  <2> QED BY <1>a, <2>1, <2>2 DEF AlertInv
<1>3. ASSUME NEW l \in Loops, Poll(l) PROVE AlertInv'
  <2>1. /\ UNCHANGED <<topic, audited>>
        /\ \A m \in Loops \ {l} : place'[m] = place[m] /\ pos'[m] = pos[m]
    BY <1>0, <1>3 DEF Poll
  <2>2. Verified(l)'
    BY <1>0, <1>3 DEF Poll, Verified, Msg, Log
  <2> QED BY <1>0, <1>a, <2>1, <2>2, StaysVerified DEF AlertInv
<1>4. ASSUME NEW l \in Loops, Commit(l) \/ CommitFails(l) PROVE AlertInv'
  <2>1. /\ UNCHANGED <<topic, audited>> /\ place'[l] \in {"poll", "dead"}
        /\ \A m \in Loops \ {l} : place'[m] = place[m] /\ pos'[m] = pos[m]
    BY <1>0, <1>4 DEF Commit, CommitFails
  <2> QED BY <1>0, <1>a, <2>1, StaysVerified DEF AlertInv, Verified
<1>5. ASSUME NEW l \in Loops,
             \/ HandlerRaises(l) \/ ScoreNormal(l)
             \/ PushNotification(l) \/ TrimInbox(l) \/ NotifyAlert(l)
      PROVE  AlertInv'
  <2>1. /\ UNCHANGED <<topic, audited>> /\ place'[l] \in {"trim", "commit"}
        /\ \A m \in Loops \ {l} : place'[m] = place[m] /\ pos'[m] = pos[m]
    BY <1>0, <1>5
       DEF HandlerRaises, ScoreNormal, PushNotification, TrimInbox, NotifyAlert
  <2> QED BY <1>0, <1>a, <2>1, StaysVerified DEF AlertInv, Verified
<1>6. ASSUME NEW l \in Loops, ScoreAnomaly(l) PROVE AlertInv'
  <2>1. /\ topic' = topic /\ pos' = pos /\ audited' = audited \cup {Msg(l).tx}
        /\ place[l] = "handle" /\ \A m \in Loops \ {l} : place'[m] = place[m]
    BY <1>0, <1>6 DEF ScoreAnomaly
  <2>2. Verified(l)'
    BY <1>0, <2>1 DEF Verified, Msg, Log
  <2> QED BY <1>0, <1>a, <2>1, <2>2, StaysVerified DEF AlertInv
<1>7. ASSUME NEW l \in Loops, l[1] = "fraud", NEW valid \in BOOLEAN, SendAlert(l, valid)
      PROVE  AlertInv'
  <2> DEFINE a == [tx |-> Msg(l).tx, valid |-> valid]
             q == <<"alerts", l[2]>>
  <2>1. /\ topic' = [topic EXCEPT ![q] = Append(@, a)]
        /\ place[l] = "alert" /\ place'[l] = "commit" /\ UNCHANGED <<pos, audited>>
        /\ \A m \in Loops \ {l} : place'[m] = place[m]
    BY <1>0, <1>7 DEF SendAlert
  <2>2. l[2] \in Partitions /\ q \in Queues /\ topic[q] \in Seq(Messages)
    BY LoopShape DEF LogInv
  <2>3. Grounded(a.tx, topic'[<<"tx", l[2]>>], audited')
    <3>1. Log(l) = topic[<<"tx", l[2]>>] /\ pos[l] \in 1 .. Len(Log(l))
      BY <1>7, <2>1, InHand DEF Log, Source, Groups
    <3>2. Grounded(a.tx, topic[<<"tx", l[2]>>], audited)
      BY <1>0, <2>1, <3>1 DEF Verified, Msg, Grounded
    <3> QED BY <2>1, <2>2, <3>2, StaysGrounded
  <2>4. \A i \in 1 .. Len(topic'[q]) : Grounded(topic'[q][i].tx, topic'[<<"tx", l[2]>>], audited')
    <3>1. a \in Messages
      BY <2>1, InHand DEF Messages
    <3>2. /\ Len(topic'[q]) = Len(topic[q]) + 1 /\ topic'[q][Len(topic[q]) + 1] = a
          /\ \A i \in 1 .. Len(topic[q]) : topic'[q][i] = topic[q][i]
          /\ Len(topic[q]) \in Nat
      BY <2>1, <2>2, <3>1, AppendProperties, LenProperties DEF LogInv
    <3>3. \A i \in 1 .. Len(topic[q]) : Grounded(topic[q][i].tx, topic'[<<"tx", l[2]>>], audited')
      BY <1>0, <2>1, <2>2, StaysGrounded, GroundedIs
    <3>4. ASSUME NEW i \in 1 .. Len(topic'[q])
          PROVE  Grounded(topic'[q][i].tx, topic'[<<"tx", l[2]>>], audited')
      <4>1. i \in 1 .. Len(topic[q]) \/ i = Len(topic[q]) + 1
        BY <3>2
      <4> QED BY <2>3, <3>2, <3>3, <4>1
    <3> QED BY <3>4
  <2>5. \A p \in Partitions \ {l[2]} : topic'[<<"alerts", p>>] = topic[<<"alerts", p>>]
    BY <2>1 DEF LogInv, Queues
  <2>6. AlertsAreGrounded'
    <3>1. ASSUME NEW p \in Partitions
          PROVE  \A i \in 1 .. Len(topic'[<<"alerts", p>>]) :
                    Grounded(topic'[<<"alerts", p>>][i].tx, topic'[<<"tx", p>>], audited')
      <4>1. CASE p = l[2]
        BY <2>4, <4>1
      <4>2. CASE p # l[2]
        BY <1>0, <2>1, <2>5, <4>2, AlertsStay
      <4> QED BY <4>1, <4>2
    <3> QED BY <3>1 DEF AlertsAreGrounded, Grounded
  <2> QED BY <1>0, <2>1, <2>6, StaysVerified DEF AlertInv, Verified
<1>8. CASE UNCHANGED vars
  BY <1>0, <1>a, <1>8, StaysVerified DEF vars, AlertInv
<1> QED
  BY <1>1, <1>2, <1>3, <1>4, <1>5, <1>6, <1>7, <1>8 DEF Next, Step, Handle

LEMMA LogsCorrect == Spec => [](OffsetInv /\ LogInv)
<1>1. Init => LogInv
  BY LoopShape DEF Init, LogInv, WithinLog, Log
<1> QED
  BY <1>1, OffsetsCorrect, LogStep, PTL DEF Spec

\* No alert reaches the notification service that does not stem from a verified
\* transfer event of its partition with an audit line, whatever is redelivered,
\* lost, or sent although the handler raised.
THEOREM AlertsGrounded == Spec => []AlertsAreGrounded
<1>1. Init => AlertInv
  BY LoopShape DEF Init, AlertInv, AlertsAreGrounded, Verified, Queues
<1>2. AlertInv => AlertsAreGrounded
  BY DEF AlertInv
<1> QED
  BY <1>1, <1>2, LogsCorrect, AlertStep, PTL DEF Spec

-----------------------------------------------------------------------------
(* The inbox *)

\* Pushing one entry.
LEMMA Pushing ==
  ASSUME NEW s \in Seq(Nat), NEW x \in Nat
  PROVE  /\ <<x>> \o s \in Seq(Nat)
         /\ Len(<<x>> \o s) = Len(s) + 1 /\ Len(s) \in Nat
         /\ \A i \in 1 .. Len(s) + 1 : (<<x>> \o s)[i] = IF i = 1 THEN x ELSE s[i - 1]
<1> DEFINE one == <<x>>
<1>1. one \in Seq(Nat) /\ Len(one) = 1 /\ one[1] = x
  OBVIOUS
<1>2. Len(s) \in Nat
  BY LenProperties
<1> HIDE DEF one
<1>3. /\ one \o s \in Seq(Nat) /\ Len(one \o s) = Len(one) + Len(s)
      /\ \A i \in 1 .. Len(one) + Len(s) : (one \o s)[i] = IF i <= Len(one) THEN one[i] ELSE s[i - Len(one)]
  BY <1>1, ConcatProperties, Zenon
<1>4. ASSUME NEW i \in 1 .. Len(s) + 1 PROVE (one \o s)[i] = IF i = 1 THEN x ELSE s[i - 1]
  BY <1>1, <1>2, <1>3
<1> QED BY <1>1, <1>2, <1>3, <1>4 DEF one

\* Keeping the first entries.
LEMMA Keeping ==
  ASSUME NEW s \in Seq(Nat), NEW n \in 0 .. Len(s)
  PROVE  /\ SubSeq(s, 1, n) \in Seq(Nat)
         /\ Len(SubSeq(s, 1, n)) = n
         /\ \A i \in 1 .. n : SubSeq(s, 1, n)[i] = s[i]
<1>1. Len(s) \in Nat /\ \A i \in 1 .. n : s[i] \in Nat
  BY LenProperties, ElementOfSeq
<1> QED BY <1>1, SubSeqProperties

Trimming == {l \in Loops : place[l] = "trim"}

\* The list and the history of pushes agree entry by entry.
Newest ==
    /\ Len(inbox) <= Len(pushed)
    /\ \A i \in 1 .. Len(inbox) : inbox[i] = pushed[i]
    /\ Len(inbox) >= Cap \/ Len(inbox) = Len(pushed)

Bounded == Len(inbox) <= Cap + Cardinality(Trimming) + untrimmed

Entered(x) == \E k \in 1 .. Len(pushed) : pushed[k] = x

\* What a notification loop has handled, and what it is about to trim, was pushed.
Announced(l) ==
    l[1] = "notify_tx" =>
        /\ \A i \in finished[l] : Entered(Log(l)[i].tx)
        /\ place[l] = "trim" => Entered(Msg(l).tx)

InboxTypes == inbox \in Seq(Nat) /\ pushed \in Seq(Nat) /\ untrimmed \in Nat

InboxInv == InboxTypes /\ Newest /\ Bounded /\ \A l \in Loops : Announced(l)

LEMMA Finite ==
  ASSUME InboxTypes
  PROVE  /\ IsFiniteSet(Trimming) /\ Cardinality(Trimming) \in Nat
         /\ Len(inbox) \in Nat /\ Len(pushed) \in Nat /\ Cap \in Nat \ {0}
<1>1. IsFiniteSet(Trimming)
  BY LoopAssumption, FS_Subset, Trimming \in SUBSET Loops DEF Trimming
<1> QED BY <1>1, FS_CardinalityType, LenProperties, BoundAssumption DEF InboxTypes

\* Steps that touch neither the list nor who has to trim it.
LEMMA InboxSame ==
  ASSUME InboxInv, UNCHANGED redis, \A l \in Loops : place'[l] = "trim" <=> place[l] = "trim"
  PROVE  InboxTypes' /\ Newest' /\ Bounded'
<1>1. Trimming' = Trimming
  BY DEF Trimming
<1> QED BY <1>1 DEF InboxInv, InboxTypes, Newest, Bounded, redis

\* Handlers that go away between push and trim are remembered.
LEMMA InboxLeft ==
  ASSUME InboxInv, NEW s \in SUBSET Loops, LeaveTrim(s),
         \A l \in Loops : place'[l] = "trim" <=> place[l] = "trim" /\ l \notin s
  PROVE  InboxTypes' /\ Newest' /\ Bounded'
<1> DEFINE gone == {l \in s : place[l] = "trim"}
<1>1. /\ IsFiniteSet(Trimming) /\ Cardinality(Trimming) \in Nat
      /\ Len(inbox) \in Nat /\ Cap \in Nat
  BY Finite DEF InboxInv
<1>2. Trimming' = Trimming \ gone /\ Trimming \cap gone = gone
  BY DEF Trimming
<1>3. /\ IsFiniteSet(gone) /\ Cardinality(gone) \in Nat
      /\ Cardinality(Trimming') = Cardinality(Trimming) - Cardinality(gone)
  <2>1. IsFiniteSet(gone)
    BY <1>1, <1>2, FS_Subset
  <2> QED BY <1>1, <1>2, <2>1, FS_Difference, FS_CardinalityType
<1>4. untrimmed' = untrimmed + Cardinality(gone) /\ UNCHANGED <<inbox, pushed>>
  BY DEF LeaveTrim
<1>5. InboxTypes' /\ Newest'
  BY <1>3, <1>4 DEF InboxInv, InboxTypes, Newest
<1>6. Bounded'
  BY <1>1, <1>3, <1>4 DEF InboxInv, InboxTypes, Bounded
<1> QED BY <1>5, <1>6

LEMMA InboxPushed ==
  ASSUME InboxInv, OffsetInv, LogInv, NEW l \in Loops, PushNotification(l)
  PROVE  /\ InboxTypes' /\ Newest' /\ Bounded'
         /\ Entered(Msg(l).tx)' /\ \A x \in Nat : Entered(x) => Entered(x)'
<1> DEFINE y == Msg(l).tx
<1>1. /\ y \in Nat /\ inbox' = <<y>> \o inbox /\ pushed' = <<y>> \o pushed
      /\ place[l] = "handle" /\ place' = [place EXCEPT ![l] = "trim"]
      /\ untrimmed' = untrimmed /\ UNCHANGED <<topic, pos>>
  BY InHand DEF PushNotification, GoOn, Goto, logs
<1>2. Msg(l)' = Msg(l)
  BY <1>1 DEF Msg, Log
<1> HIDE DEF y
<1>3. InboxTypes /\ Newest /\ Bounded /\ place \in [Loops -> Places]
  BY DEF InboxInv, OffsetInv, OffsetTypes
<1>4. /\ Len(inbox') = Len(inbox) + 1 /\ Len(pushed') = Len(pushed) + 1
      /\ inbox' \in Seq(Nat) /\ pushed' \in Seq(Nat)
      /\ \A i \in 1 .. Len(inbox) + 1 : inbox'[i] = IF i = 1 THEN y ELSE inbox[i - 1]
      /\ \A i \in 1 .. Len(pushed) + 1 : pushed'[i] = IF i = 1 THEN y ELSE pushed[i - 1]
  BY <1>1, <1>3, Pushing DEF InboxTypes
<1>5. /\ IsFiniteSet(Trimming) /\ Cardinality(Trimming) \in Nat
      /\ Len(inbox) \in Nat /\ Len(pushed) \in Nat /\ Cap \in Nat \ {0}
  BY <1>3, Finite
<1>6. Newest'
  <2>1. ASSUME NEW i \in 1 .. Len(inbox) + 1 PROVE inbox'[i] = pushed'[i]
    <3>1. CASE i = 1
      BY <1>4, <1>5, <3>1
    <3>2. CASE i # 1
      <4>1. i - 1 \in 1 .. Len(inbox) /\ i \in 1 .. Len(pushed) + 1
        BY <1>3, <1>5, <3>2 DEF Newest
      <4> QED BY <1>3, <1>4, <3>2, <4>1 DEF Newest
    <3> QED BY <3>1, <3>2
  <2> QED BY <1>3, <1>4, <1>5, <2>1 DEF Newest
<1>7. Bounded'
  <2>1. Trimming' = Trimming \cup {l} /\ l \notin Trimming
    BY <1>1, <1>3 DEF Trimming
  <2>2. Cardinality(Trimming') = Cardinality(Trimming) + 1
    BY <1>5, <2>1, FS_AddElement
  <2> QED BY <1>1, <1>3, <1>4, <1>5, <2>2 DEF Bounded, InboxTypes
<1>8. Entered(Msg(l).tx)'
  <2>1. 1 \in 1 .. Len(pushed') /\ pushed'[1] = y
    BY <1>4, <1>5
  <2>2. y = Msg(l)'.tx
    BY <1>2 DEF y
  <2> QED BY <2>1, <2>2 DEF Entered
<1>9. ASSUME NEW x \in Nat, Entered(x) PROVE Entered(x)'
  <2>1. PICK k \in 1 .. Len(pushed) : pushed[k] = x
    BY <1>9 DEF Entered
  <2>2. k + 1 \in 1 .. Len(pushed') /\ pushed'[k + 1] = x
    BY <1>4, <1>5, <2>1
  <2> QED BY <2>2 DEF Entered
<1>10. InboxTypes'
  BY <1>1, <1>3, <1>4 DEF InboxTypes
<1> QED BY <1>6, <1>7, <1>8, <1>9, <1>10

LEMMA InboxTrims ==
  ASSUME InboxInv, OffsetInv, NEW l \in Loops, TrimInbox(l)
  PROVE  InboxTypes' /\ Newest' /\ Bounded'
<1>1. /\ InboxTypes /\ Newest /\ pushed' = pushed /\ untrimmed' = 0
      /\ inbox' = IF Len(inbox) > Cap THEN SubSeq(inbox, 1, Cap) ELSE inbox
  BY DEF InboxInv, TrimInbox
<1>2. /\ IsFiniteSet(Trimming) /\ Len(inbox) \in Nat /\ Len(pushed) \in Nat
      /\ Cap \in Nat \ {0}
  BY <1>1, Finite
<1>3. /\ inbox' \in Seq(Nat) /\ Len(inbox') = IF Len(inbox) > Cap THEN Cap ELSE Len(inbox)
      /\ \A i \in 1 .. Len(inbox') : inbox'[i] = inbox[i]
  <2>1. Len(inbox) > Cap => Cap \in 0 .. Len(inbox)
    BY <1>2
  <2> QED BY <1>1, <1>2, <2>1, Keeping DEF InboxTypes
<1>4. Cardinality(Trimming') \in Nat
  <2>1. Trimming' \subseteq Trimming
    BY DEF Trimming, TrimInbox, Finish, GiveUp, Goto, OffsetInv, OffsetTypes
  <2> QED BY <1>2, <2>1, FS_Subset, FS_CardinalityType
<1>5. Newest'
  BY <1>1, <1>2, <1>3 DEF Newest
<1>6. Bounded'
  BY <1>1, <1>2, <1>3, <1>4 DEF Bounded
<1> QED BY <1>1, <1>3, <1>5, <1>6 DEF InboxTypes

\* What a loop has handled stays announced as its log and the pushes grow.
LEMMA StaysEntered ==
  ASSUME OffsetInv, LogInv, [Next]_vars, NEW l \in Loops, l[1] = "notify_tx", Announced(l),
         \A x \in Nat : Entered(x) => Entered(x)', NEW i \in finished[l]
  PROVE  Entered(Log(l)[i].tx)'
<1>1. Log(l)'[i] = Log(l)[i]
  BY LogGrows
<1>2. Log(l)[i].tx \in Nat
  <2>1. Log(l) \in Seq(Messages)
    BY LoopShape DEF LogInv, Log
  <2>2. Log(l)[i] \in Messages
    BY <2>1, ElementOfSeq DEF LogInv, WithinLog
  <2> QED BY <2>2 DEF Messages
<1>3. \E k \in 1 .. Len(pushed') : pushed'[k] = Log(l)[i].tx
  BY <1>2 DEF Announced, Entered
<1> QED BY <1>1, <1>3 DEF Entered

\* A loop that finishes nothing keeps its messages announced.
LEMMA StaysAnnounced ==
  ASSUME OffsetInv, LogInv, [Next]_vars, NEW l \in Loops, Announced(l),
         \A x \in Nat : Entered(x) => Entered(x)',
         finished'[l] = finished[l],
         place'[l] = "trim" => place[l] = "trim" /\ pos'[l] = pos[l]
  PROVE  Announced(l)'
<1> SUFFICES ASSUME l[1] = "notify_tx" PROVE Announced(l)'
  BY DEF Announced
<1>1. \A i \in finished[l] : Entered(Log(l)[i].tx)'
  BY StaysEntered
<1>2. ASSUME place'[l] = "trim" PROVE Entered(Msg(l).tx)'
  <2>1. Msg(l)' = Msg(l) /\ Msg(l).tx \in Nat
    BY <1>2, InHand, LogGrows
  <2>2. Entered(Msg(l).tx)
    BY <1>2 DEF Announced
  <2>3. \E k \in 1 .. Len(pushed') : pushed'[k] = Msg(l).tx
    BY <2>1, <2>2 DEF Entered
  <2> QED BY <2>1, <2>3 DEF Entered
<1> QED BY <1>1, <1>2 DEF Announced

LEMMA InboxStep == OffsetInv /\ LogInv /\ InboxInv /\ [Next]_vars => InboxInv'
<1> SUFFICES ASSUME OffsetInv, LogInv, InboxInv, [Next]_vars PROVE InboxInv'
  OBVIOUS
<1>0. OffsetTypes /\ \A l \in Loops : Announced(l)
  BY DEF OffsetInv, InboxInv
<1>a. pushed' = pushed => \A x \in Nat : Entered(x) => Entered(x)'
  BY DEF Entered
<1>b. \* the loops announce nothing new and the redis variables are as they were
      ASSUME UNCHANGED redis, \A l \in Loops : place'[l] = "trim" <=> place[l] = "trim",
             \A l \in Loops : \/ l[1] # "notify_tx"
                              \/ /\ finished'[l] = finished[l]
                                 /\ place'[l] = "trim" => pos'[l] = pos[l]
      PROVE  InboxInv'
  <2>1. \A l \in Loops : Announced(l)'
    BY <1>0, <1>a, <1>b, StaysAnnounced DEF Announced, redis
  <2> QED BY <1>b, <2>1, InboxSame DEF InboxInv
<1> USE DEF OffsetTypes, offsets, Goto, Finish, GiveUp, GoOn
<1>1. ASSUME NEW p \in Partitions, NEW valid \in BOOLEAN, PublishTransfer(p, valid)
      PROVE  InboxInv'
  BY <1>0, <1>b, <1>1 DEF PublishTransfer
<1>2. ASSUME NEW s \in Processes, Start(s) PROVE InboxInv'
  BY <1>0, <1>b, <1>2 DEF Start
<1>3. ASSUME NEW l \in Loops, Poll(l) \/ Commit(l) \/ CommitFails(l) PROVE InboxInv'
  <2>1. /\ UNCHANGED <<redis, finished>>
        /\ \A m \in Loops : place'[m] = "trim" <=> place[m] = "trim"
        /\ \A m \in Loops : place'[m] = "trim" => pos'[m] = pos[m]
    BY <1>0, <1>3 DEF Poll, Commit, CommitFails
  <2> QED BY <1>b, <2>1
<1>4. ASSUME NEW l \in Loops,
             \/ /\ l[1] = "fraud"
                /\ \/ ScoreNormal(l) \/ ScoreAnomaly(l)
                   \/ \E valid \in BOOLEAN : SendAlert(l, valid)
             \/ l[1] = "notify_alert" /\ NotifyAlert(l)
      PROVE  InboxInv'
  <2>1. /\ UNCHANGED redis /\ l[1] # "notify_tx" /\ pos' = pos
        /\ \A m \in Loops \ {l} : finished'[m] = finished[m]
        /\ \A m \in Loops : place'[m] = "trim" <=> place[m] = "trim"
    BY <1>0, <1>4 DEF ScoreNormal, ScoreAnomaly, SendAlert, NotifyAlert
  <2> QED BY <1>b, <2>1
<1>5. ASSUME NEW s \in Processes, Kill(s) PROVE InboxInv'
  <2>1. s \in SUBSET Loops
    BY DEF Loops
  <2>2. /\ LeaveTrim(s) /\ UNCHANGED <<pos, finished>>
        /\ \A l \in Loops : place'[l] = "trim" <=> place[l] = "trim" /\ l \notin s
    BY <1>0, <1>5 DEF Kill
  <2>3. \A l \in Loops : Announced(l)'
    BY <1>0, <1>a, <2>2, StaysAnnounced DEF LeaveTrim
  <2> QED BY <2>1, <2>2, <2>3, InboxLeft DEF InboxInv
<1>6. ASSUME NEW l \in Loops, HandlerRaises(l) PROVE InboxInv'
  <2>1. /\ LeaveTrim({l}) /\ UNCHANGED <<pos, finished>>
        /\ \A m \in Loops : place'[m] = "trim" <=> place[m] = "trim" /\ m \notin {l}
    BY <1>0, <1>6 DEF HandlerRaises
  <2>2. \A m \in Loops : Announced(m)'
    BY <1>0, <1>a, <2>1, StaysAnnounced DEF LeaveTrim
  <2> QED BY <2>1, <2>2, InboxLeft DEF InboxInv
<1>7. ASSUME NEW l \in Loops, PushNotification(l) PROVE InboxInv'
  <2>1. /\ InboxTypes' /\ Newest' /\ Bounded'
        /\ Entered(Msg(l).tx)' /\ \A x \in Nat : Entered(x) => Entered(x)'
    BY <1>7, InboxPushed
  <2>2. /\ UNCHANGED <<finished, pos>> /\ place[l] = "handle"
        /\ \A m \in Loops \ {l} : place'[m] = place[m]
    BY <1>0, <1>7 DEF PushNotification
  <2>3. Announced(l)'
    <3>1. l[1] = "notify_tx" => \A i \in finished[l] : Entered(Log(l)[i].tx)'
      BY <1>0, <2>1, StaysEntered
    <3> QED BY <2>1, <2>2, <3>1 DEF Announced
  <2>4. \A m \in Loops \ {l} : Announced(m)'
    BY <1>0, <2>1, <2>2, StaysAnnounced
  <2> QED BY <2>1, <2>3, <2>4 DEF InboxInv
<1>8. ASSUME NEW l \in Loops, l[1] = "notify_tx", TrimInbox(l) PROVE InboxInv'
  <2>1. /\ UNCHANGED <<pushed, pos, topic>> /\ place[l] = "trim" /\ place'[l] = "commit"
        /\ finished' = finished \/ finished' = [finished EXCEPT ![l] = @ \cup {pos[l]}]
        /\ \A m \in Loops \ {l} : place'[m] = place[m]
    BY <1>0, <1>8 DEF TrimInbox, logs
  <2>2. Announced(l)'
    <3>1. \A i \in finished[l] \cup {pos[l]} : Entered(Log(l)[i].tx)
      BY <1>0, <1>8, <2>1 DEF Announced, Msg
    <3>2. finished'[l] \subseteq finished[l] \cup {pos[l]}
      BY <1>0, <2>1
    <3> QED BY <2>1, <3>1, <3>2 DEF Announced, Entered, Log
  <2>3. \A m \in Loops \ {l} : Announced(m)'
    <3>1. \A m \in Loops \ {l} : finished'[m] = finished[m]
      BY <1>0, <2>1
    <3> QED BY <1>0, <1>a, <2>1, <3>1, StaysAnnounced
  <2> QED BY <1>8, <2>2, <2>3, InboxTrims DEF InboxInv
<1>9. CASE UNCHANGED vars
  BY <1>b, <1>9 DEF vars
<1> QED
  BY <1>1, <1>2, <1>3, <1>4, <1>5, <1>6, <1>7, <1>8, <1>9 DEF Next, Step, Handle

LEMMA InboxCorrect == Spec => []InboxInv
<1>1. Init => InboxInv
  <2> SUFFICES ASSUME Init PROVE InboxInv
    OBVIOUS
  <2>1. /\ inbox = <<>> /\ pushed = <<>> /\ Len(inbox) = 0 /\ Len(pushed) = 0
        /\ InboxTypes /\ untrimmed = 0
    BY EmptySeq DEF Init, InboxTypes
  <2>2. Newest /\ Bounded
    BY <2>1, Finite DEF Newest, Bounded
  <2> QED BY <2>1, <2>2 DEF Init, InboxInv, Announced
<1> QED
  BY <1>1, LogsCorrect, InboxStep, PTL DEF Spec

\* For any cap, partitions and replicas: however pushes and trims interleave and
\* wherever a handler is lost, the inbox is the newest entries pushed, at least
\* Cap of them, over it only by those between push and trim or lost there since
\* the last trim, and what was handled to the end was pushed.
THEOREM InboxStaysNewest == Spec => []InboxIsNewest
<1>1. InboxInv => InboxIsNewest
  <2> SUFFICES ASSUME InboxInv PROVE InboxIsNewest
    OBVIOUS
  <2>1. /\ inbox \in Seq(Nat) /\ pushed \in Seq(Nat)
        /\ Len(inbox) \in Nat /\ Len(pushed) \in Nat
    BY LenProperties DEF InboxInv, InboxTypes
  <2>2. Len(inbox) \in 0 .. Len(pushed)
    BY <2>1 DEF InboxInv, Newest
  <2>3. inbox = SubSeq(pushed, 1, Len(inbox))
    BY <2>1, <2>2, Keeping, SeqEqual DEF InboxInv, Newest
  <2>4. Len(inbox) >= Cap \/ inbox = pushed
    BY <2>1, SeqEqual DEF InboxInv, Newest
  <2>5. \A l \in Loops : l[1] = "notify_tx" =>
            \A i \in finished[l] : \E k \in 1 .. Len(pushed) : pushed[k] = Log(l)[i].tx
    BY DEF InboxInv, Announced, Entered
  <2> QED BY <2>2, <2>3, <2>4, <2>5 DEF InboxInv, Bounded, Trimming, InboxIsNewest
<1> QED
  BY <1>1, InboxCorrect, PTL

-----------------------------------------------------------------------------
(* The types *)

\* The variables that no other invariant speaks of.
CountsOK == losses \in Nat /\ audited \subseteq Nat

LEMMA CountsStep == OffsetInv /\ LogInv /\ CountsOK /\ [Next]_vars => CountsOK'
<1> SUFFICES ASSUME OffsetInv, LogInv, CountsOK, [Next]_vars PROVE CountsOK'
  OBVIOUS
<1> USE DEF CountsOK, Finish, GiveUp, GoOn
<1>1. ASSUME NEW l \in Loops, ScoreAnomaly(l) PROVE CountsOK'
  BY <1>1, InHand DEF ScoreAnomaly
<1>2. ASSUME NEW p \in Partitions, NEW valid \in BOOLEAN, PublishTransfer(p, valid)
      PROVE  CountsOK'
  BY <1>2 DEF PublishTransfer
<1>3. ASSUME NEW s \in Processes, Start(s) \/ Kill(s) PROVE CountsOK'
  <2>1. audited' = audited
    BY <1>3 DEF Start, Kill
  <2>2. losses' = losses \/ losses' = losses + 1
    BY <1>3 DEF Start, Kill
  <2> QED BY <2>1, <2>2
<1>4. ASSUME NEW l \in Loops, Poll(l) \/ Commit(l) \/ CommitFails(l) PROVE CountsOK'
  BY <1>4 DEF Poll, Commit, CommitFails
<1>5. ASSUME NEW l \in Loops, Handle(l), ~ ScoreAnomaly(l) PROVE CountsOK'
  <2>1. losses' = losses
    BY <1>5, HandlersHandle DEF Handled
  <2>2. audited' = audited
    BY <1>5 DEF Handle, HandlerRaises, ScoreNormal, SendAlert, PushNotification, TrimInbox,
                NotifyAlert
  <2> QED BY <2>1, <2>2
<1>6. CASE UNCHANGED vars
  BY <1>6 DEF vars
<1> QED BY <1>1, <1>2, <1>3, <1>4, <1>5, <1>6 DEF Next, Step

\* Every variable keeps its type: logs of messages, offsets, an inbox of ids.
THEOREM TypeCorrect == Spec => []TypeOK
<1>1. Init => CountsOK
  BY DEF Init, CountsOK
<1>2. OffsetInv /\ LogInv /\ InboxInv /\ CountsOK => TypeOK
  BY DEF TypeOK, OffsetInv, OffsetTypes, LogInv, InboxInv, InboxTypes, CountsOK
<1> QED
  BY <1>1, <1>2, CountsStep, LogsCorrect, InboxCorrect, PTL DEF Spec
=============================================================================
