------------------------ MODULE TransferIntakeProofs ------------------------
(***************************************************************************)
(* Theorems about TransferIntake for any set of workers, users, keys and   *)
(* amounts.  Each handler owns the id it drew, so a row, an event and a    *)
(* receipt with that id can only come from it; and the unique index lets   *)
(* one insert of a key be pending or committed at a time.                  *)
(***************************************************************************)
EXTENDS TransferIntake, TLAPS

\* What a request carries.
LEMMA RequestType ==
  \A r \in Requests : r.user \in Users /\ r.token \in Tokens /\ r.amount \in Amounts
  BY DEF Requests

\* The bound on arrivals is a natural number, ids are naturals.
LEMMA IdsType == MaxArrivals \in Nat /\ Ids \subseteq Nat
  BY BoundAssumption DEF Ids

\* A busy handler's id is one of the ids drawn so far, and no other busy handler
\* has it.
IdInv ==
    /\ TypeOK
    /\ \A w \in Workers : pc[w] # "idle" => txid[w] \in 1 .. arrivals
    /\ \A v, w \in Workers :
          pc[v] # "idle" /\ pc[w] # "idle" /\ txid[v] = txid[w] => v = w

LEMMA IdStep == IdInv /\ [Next]_vars => IdInv'
<1> SUFFICES ASSUME IdInv, [Next]_vars PROVE IdInv'
  OBVIOUS
<1> USE IdsType DEF IdInv, TypeOK, Goto, handler, history
<1>1. ASSUME NEW w \in Workers, NEW r \in Requests, Arrive(w, r) PROVE IdInv'
  BY <1>1 DEF Arrive
<1>2. ASSUME NEW w \in Workers, StepUpGate(w) \/ Authorize(w) PROVE IdInv'
  BY <1>2 DEF StepUpGate, Authorize
<1>3. ASSUME NEW w \in Workers, Flush(w) PROVE IdInv'
  <2>1. txid[w] \in Ids
    BY <1>3 DEF Flush, Ids
  <2> QED BY <1>3, <2>1 DEF Flush
<1>4. ASSUME NEW w \in Workers, FlushDuplicate(w) PROVE IdInv'
  BY <1>4 DEF FlushDuplicate
<1>5. ASSUME NEW w \in Workers, Commit(w) PROVE IdInv'
  <2>1. Row(w) \in Rows
    BY <1>5, RequestType DEF Commit, Row, Rows, Ids
  <2> QED BY <1>5, <2>1 DEF Commit
<1>6. ASSUME NEW w \in Workers,
             Publish(w) \/ PublishUnacknowledged(w) \/ PublishSkipped(w) \/ Fail(w)
      PROVE IdInv'
  <2>1. pc[w] # "idle" /\ txid[w] \in Ids /\ Receipt(w) \in [req : Requests, id : Ids]
    BY <1>6 DEF Publish, PublishUnacknowledged, PublishSkipped, Fail, Ids, Receipt
  <2>2. events' \in [Ids -> Nat]
    BY <1>6, <2>1 DEF Publish, PublishUnacknowledged, PublishSkipped, Fail
  <2> QED BY <1>6, <2>1, <2>2 DEF Publish, PublishUnacknowledged, PublishSkipped, Fail
<1>7. ASSUME NEW w \in Workers, Restart(w) PROVE IdInv'
  BY <1>7 DEF Restart
<1>8. CASE UNCHANGED vars
  BY <1>8 DEF vars
<1> QED
  BY <1>1, <1>2, <1>3, <1>4, <1>5, <1>6, <1>7, <1>8 DEF Next, Step

\* Every variable keeps its type: ids drawn, rows, receipts, event counts.
THEOREM TypeCorrect == Spec => []TypeOK
<1>1. Init => IdInv
  BY IdsType DEF Init, IdInv, TypeOK
<1>2. IdInv => TypeOK
  BY DEF IdInv
<1> QED
  BY <1>1, <1>2, IdStep, PTL DEF Spec

-----------------------------------------------------------------------------
(* One row per key *)

\* While an insert is pending, no other row of its key is pending or committed.
KeyInv ==
    /\ OneRowPerKey
    /\ \A w \in Workers : pc[w] = "commit" => ~KeyTaken(w) /\ ~KeyPending(w)

LEMMA KeyStep == IdInv /\ KeyInv /\ [Next]_vars => KeyInv'
<1> SUFFICES ASSUME IdInv, KeyInv, [Next]_vars PROVE KeyInv'
  OBVIOUS
<1> USE DEF IdInv, TypeOK, KeyInv, OneRowPerKey, KeyTaken, KeyPending, SameKey,
            Goto, handler, history
<1>1. ASSUME NEW w \in Workers, NEW r \in Requests, Arrive(w, r) PROVE KeyInv'
  BY <1>1 DEF Arrive
<1>2. ASSUME NEW w \in Workers,
             \/ StepUpGate(w) \/ Authorize(w) \/ FlushDuplicate(w) \/ Publish(w)
             \/ PublishUnacknowledged(w) \/ PublishSkipped(w) \/ Fail(w) \/ Restart(w)
      PROVE KeyInv'
  BY <1>2 DEF StepUpGate, Authorize, FlushDuplicate, Publish,
              PublishUnacknowledged, PublishSkipped, Fail, Restart
<1>3. ASSUME NEW w \in Workers, Flush(w) PROVE KeyInv'
  BY <1>3 DEF Flush
<1>4. ASSUME NEW w \in Workers, Commit(w) PROVE KeyInv'
  <2>1. /\ pc[w] = "commit" /\ pc' = [pc EXCEPT ![w] = "publish"]
        /\ rows' = rows \cup {Row(w)} /\ req' = req
        /\ Row(w).user = req[w].user /\ Row(w).token = req[w].token
    BY <1>4 DEF Commit, Row
  <2>2. OneRowPerKey'
    BY <2>1
  <2>3. ASSUME NEW v \in Workers, pc'[v] = "commit"
        PROVE ~KeyTaken(v)' /\ ~KeyPending(v)'
    <3>1. v # w /\ pc[v] = "commit"
      BY <2>1, <2>3
    <3>2. ~SameKey(Row(w), req[v])
      BY <2>1, <3>1
    <3> QED BY <2>1, <3>1, <3>2
  <2> QED BY <2>2, <2>3
<1>5. CASE UNCHANGED vars
  BY <1>5 DEF vars
<1> QED
  BY <1>1, <1>2, <1>3, <1>4, <1>5 DEF Next, Step

\* An idempotency key is accepted once, on whatever replicas its duplicates run.
THEOREM KeyAcceptedOnce == Spec => []OneRowPerKey
<1>1. Init => IdInv /\ KeyInv
  BY IdsType DEF Init, IdInv, TypeOK, KeyInv, OneRowPerKey
<1>2. KeyInv => OneRowPerKey
  BY DEF KeyInv
<1> QED
  BY <1>1, <1>2, IdStep, KeyStep, PTL DEF Spec

-----------------------------------------------------------------------------
(* Events and receipts match the rows *)

Stored(i) == \E r \in rows : r.id = i

\* Ids not drawn yet have left no trace; a handler that has not committed has
\* neither row nor event; one that is publishing has the row and no event yet.
EventInv ==
    /\ EventsMatchRows
    /\ \A i \in Ids : i > arrivals => ~Stored(i)
    /\ \A w \in Workers : pc[w] \notin {"idle", "publish"} => ~Stored(txid[w])
    /\ \A w \in Workers : pc[w] = "publish" => Row(w) \in rows /\ events[txid[w]] = 0

LEMMA EventStep == IdInv /\ EventInv /\ [Next]_vars => EventInv'
<1> SUFFICES ASSUME IdInv, EventInv, [Next]_vars PROVE EventInv'
  OBVIOUS
<1> USE IdsType DEF IdInv, TypeOK, EventInv, EventsMatchRows, Stored, Goto, handler, history
<1>1. ASSUME NEW w \in Workers, NEW r \in Requests, Arrive(w, r) PROVE EventInv'
  <2>1. /\ UNCHANGED <<rows, events>> /\ arrivals' = arrivals + 1
        /\ pc' = [pc EXCEPT ![w] = "gate"] /\ txid' = [txid EXCEPT ![w] = arrivals + 1]
        /\ req' = [req EXCEPT ![w] = r] /\ arrivals + 1 \in Ids
    BY <1>1 DEF Arrive, Ids
  <2> QED BY <2>1 DEF Row
<1>2. ASSUME NEW w \in Workers,
             StepUpGate(w) \/ Authorize(w) \/ Flush(w) \/ FlushDuplicate(w) \/ Restart(w)
      PROVE EventInv'
  BY <1>2 DEF StepUpGate, Authorize, Flush, FlushDuplicate, Restart, Row
<1>3. ASSUME NEW w \in Workers, Commit(w) PROVE EventInv'
  <2>1. /\ pc[w] = "commit" /\ pc' = [pc EXCEPT ![w] = "publish"]
        /\ rows' = rows \cup {Row(w)} /\ Row(w).id = txid[w]
        /\ UNCHANGED <<events, req, txid, arrivals>>
    BY <1>3 DEF Commit, Row
  <2>2. txid[w] \in Ids /\ txid[w] <= arrivals /\ events[txid[w]] = 0
    BY <2>1 DEF Ids
  <2>3. \A i \in Ids : Stored(i)' <=> Stored(i) \/ i = txid[w]
    BY <2>1
  <2>4. \A v \in Workers : Row(v)' = Row(v)
    BY <2>1 DEF Row
  <2>5. EventsMatchRows'
    BY <2>1, <2>2, <2>3
  <2>6. \A v \in Workers : v # w /\ pc[v] # "idle" => txid[v] # txid[w] /\ txid[v] \in Ids
    BY <2>1 DEF Ids
  <2>7. \A v \in Workers : pc'[v] \notin {"idle", "publish"} => ~Stored(txid[v])'
    BY <2>1, <2>3, <2>6
  <2>8. \A v \in Workers : pc'[v] = "publish" => Row(v)' \in rows' /\ events'[txid'[v]] = 0
    BY <2>1, <2>2, <2>4
  <2> QED BY <2>1, <2>2, <2>3, <2>5, <2>7, <2>8
<1>4. ASSUME NEW w \in Workers, Publish(w) \/ PublishUnacknowledged(w) PROVE EventInv'
  <2>1. /\ pc[w] = "publish" /\ pc' = [pc EXCEPT ![w] = "idle"]
        /\ events' = [events EXCEPT ![txid[w]] = @ + 1]
        /\ UNCHANGED <<rows, req, txid, arrivals>>
    BY <1>4 DEF Publish, PublishUnacknowledged
  <2>2. txid[w] \in Ids /\ events[txid[w]] = 0 /\ Stored(txid[w])
    <3>1. txid[w] \in Ids
      BY <2>1 DEF Ids
    <3>2. Row(w) \in rows /\ Row(w).id = txid[w]
      BY <2>1 DEF Row
    <3> QED BY <2>1, <3>1, <3>2
  <2>3. \A v \in Workers : v # w /\ pc[v] # "idle" => txid[v] # txid[w]
    BY <2>1
  <2> QED BY <2>1, <2>2, <2>3 DEF Row
<1>5. ASSUME NEW w \in Workers, PublishSkipped(w) \/ Fail(w) PROVE EventInv'
  BY <1>5 DEF PublishSkipped, Fail, Row
<1>6. CASE UNCHANGED vars
  BY <1>6 DEF vars, Row
<1> QED
  BY <1>1, <1>2, <1>3, <1>4, <1>5, <1>6 DEF Next, Step

\* The topic shows no transfer twice and none that is not committed.
THEOREM EventsAreOfRows == Spec => []EventsMatchRows
<1>1. Init => IdInv /\ EventInv
  BY IdsType DEF Init, IdInv, TypeOK, EventInv, EventsMatchRows, Stored
<1>2. EventInv => EventsMatchRows
  BY DEF EventInv
<1> QED
  BY <1>1, <1>2, IdStep, EventStep, PTL DEF Spec

\* A committed row has its event, or a handler that is about to publish it, or
\* it is counted as lost.
LEMMA ExplainedStep ==
  IdInv /\ EventInv /\ MissingEventExplained /\ [Next]_vars => MissingEventExplained'
<1> SUFFICES ASSUME IdInv, EventInv, MissingEventExplained, [Next]_vars
             PROVE  MissingEventExplained'
  OBVIOUS
<1> USE DEF MissingEventExplained, Goto, handler, history
<1>0. /\ pc \in [Workers -> {"idle", "gate", "authz", "flush", "commit", "publish"}]
      /\ txid \in [Workers -> Nat] /\ rows \subseteq Rows
      /\ events \in [Ids -> Nat]
  BY DEF IdInv, TypeOK
<1>1. ASSUME NEW w \in Workers, NEW r \in Requests, Arrive(w, r)
      PROVE MissingEventExplained'
  BY <1>0, <1>1 DEF Arrive
<1>2. ASSUME NEW w \in Workers,
             StepUpGate(w) \/ Authorize(w) \/ Flush(w) \/ FlushDuplicate(w) \/ Restart(w)
      PROVE MissingEventExplained'
  BY <1>0, <1>2 DEF StepUpGate, Authorize, Flush, FlushDuplicate, Restart
<1>3. ASSUME NEW w \in Workers, Commit(w) PROVE MissingEventExplained'
  BY <1>0, <1>3 DEF Commit, Row
<1>4. ASSUME NEW w \in Workers, Publish(w) \/ PublishUnacknowledged(w)
      PROVE MissingEventExplained'
  <2>1. /\ pc[w] = "publish" /\ pc' = [pc EXCEPT ![w] = "idle"]
        /\ events' = [events EXCEPT ![txid[w]] = @ + 1]
        /\ UNCHANGED <<rows, txid, lost>>
    BY <1>4 DEF Publish, PublishUnacknowledged
  <2>2. events[txid[w]] = 0 /\ txid[w] \in Ids
    BY <2>1, IdsType DEF EventInv, IdInv, TypeOK, Ids
  <2>3. \A r \in rows : r.id \in Ids
    BY <1>0 DEF Rows
  <2> QED BY <1>0, <2>1, <2>2, <2>3
<1>5. ASSUME NEW w \in Workers, PublishSkipped(w) \/ Fail(w)
      PROVE MissingEventExplained'
  BY <1>0, <1>5 DEF PublishSkipped, Fail
<1>6. CASE UNCHANGED vars
  BY <1>6 DEF vars
<1> QED
  BY <1>1, <1>2, <1>3, <1>4, <1>5, <1>6 DEF Next, Step

\* A committed transfer lacks its event only before its handler has published, or
\* after a pod without a producer, a failed send or a death took it away.
THEOREM LossesAreNamed == Spec => []MissingEventExplained
<1>1. Init => IdInv /\ EventInv /\ MissingEventExplained
  BY IdsType DEF Init, IdInv, TypeOK, EventInv, EventsMatchRows, Stored,
                 MissingEventExplained
<1> QED
  BY <1>1, IdStep, EventStep, ExplainedStep, PTL DEF Spec

-----------------------------------------------------------------------------
(* Answers *)

\* From its flush on a handler has the audit line under its id, so that a 202
\* names a row with a line.
AnswerInv ==
    /\ ReceiptsMatchRows
    /\ \A w \in Workers : pc[w] \in {"commit", "publish"} => txid[w] \in audited

LEMMA AnswerStep == IdInv /\ EventInv /\ AnswerInv /\ [Next]_vars => AnswerInv'
<1> SUFFICES ASSUME IdInv, EventInv, AnswerInv, [Next]_vars PROVE AnswerInv'
  OBVIOUS
<1> USE DEF AnswerInv, ReceiptsMatchRows, Goto, handler, history
<1>0. /\ pc \in [Workers -> {"idle", "gate", "authz", "flush", "commit", "publish"}]
      /\ txid \in [Workers -> Nat]
  BY DEF IdInv, TypeOK
<1>1. ASSUME NEW w \in Workers, NEW r \in Requests, Arrive(w, r) PROVE AnswerInv'
  BY <1>0, <1>1 DEF Arrive
<1>2. ASSUME NEW w \in Workers,
             \/ StepUpGate(w) \/ Authorize(w) \/ Flush(w) \/ FlushDuplicate(w)
             \/ Commit(w) \/ PublishUnacknowledged(w) \/ Fail(w) \/ Restart(w)
      PROVE AnswerInv'
  BY <1>0, <1>2 DEF StepUpGate, Authorize, Flush, FlushDuplicate, Commit,
                    PublishUnacknowledged, Fail, Restart
<1>3. ASSUME NEW w \in Workers, Publish(w) \/ PublishSkipped(w) PROVE AnswerInv'
  <2>1. /\ pc[w] = "publish" /\ pc' = [pc EXCEPT ![w] = "idle"]
        /\ receipts' = receipts \cup {Receipt(w)}
        /\ UNCHANGED <<rows, txid, audited>>
    BY <1>3 DEF Publish, PublishSkipped
  <2>2. /\ Row(w) \in rows /\ txid[w] \in audited
        /\ Row(w).id = txid[w] /\ Row(w).amount = req[w].amount
        /\ SameKey(Row(w), req[w])
        /\ Receipt(w).id = txid[w] /\ Receipt(w).req = req[w]
    BY <2>1 DEF EventInv, Row, SameKey, Receipt
  <2> QED BY <1>0, <2>1, <2>2
<1>4. CASE UNCHANGED vars
  BY <1>4 DEF vars
<1> QED
  BY <1>1, <1>2, <1>3, <1>4 DEF Next, Step

\* A 202 is never another caller's: it names a committed, audited row with the
\* caller's own key and amount.
THEOREM AnswersNameOwnRow == Spec => []ReceiptsMatchRows
<1>1. Init => IdInv /\ EventInv /\ AnswerInv
  BY IdsType DEF Init, IdInv, TypeOK, EventInv, EventsMatchRows, Stored, AnswerInv,
                 ReceiptsMatchRows
<1>2. AnswerInv => ReceiptsMatchRows
  BY DEF AnswerInv
<1> QED
  BY <1>1, <1>2, IdStep, EventStep, AnswerStep, PTL DEF Spec
=============================================================================
