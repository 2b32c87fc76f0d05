--------------------------- MODULE TransferIntake ---------------------------
(***************************************************************************)
(* transaction-service: POST /v1/transactions/transfer.  A handler passes  *)
(* the step-up gate and OPA, inserts the transaction under the unique      *)
(* constraint (initiator, idempotency key), commits, and only then         *)
(* publishes the event to Kafka, if its pod has a producer at all.  The    *)
(* insert and the publication are two transactions with no outbox between. *)
(***************************************************************************)
EXTENDS Integers

CONSTANTS Workers,      \* handler slots, each on a replica of its own
          Users,        \* initiators (the JWT's sub)
          Tokens,       \* values of idempotency_key
          Amounts,      \* transfer amounts
          Threshold,    \* settings.step_up_threshold_pkr
          MaxArrivals   \* bound: requests that arrive, retries included

ASSUME AmountsAssumption == Amounts \subseteq Nat \ {0}
ASSUME BoundAssumption   == Threshold \in Nat /\ MaxArrivals \in Nat

Requests == [user : Users, token : Tokens, amount : Amounts, mfa : BOOLEAN]
Ids      == 1 .. MaxArrivals      \* uuid4 of each attempt, never drawn twice
Rows     == [id : Ids, user : Users, token : Tokens, amount : Amounts]

VARIABLES
    rows,               \* committed rows of the transactions table
    events,             \* copies of each transaction's event in the topic
    producer,           \* whether the worker's pod has a Kafka producer
    pc, req, txid,      \* each handler: place, payload, id of its new row
    arrivals,           \* requests received so far
    \* history, read only by the properties:
    audited,            \* ids with a "transfer.accepted" audit line
    receipts,           \* 202 answers: request and transaction id
    lost                \* committed ids whose handler ended before publishing

handler == <<pc, req, txid>>
history == <<audited, receipts, lost>>
vars    == <<rows, events, producer, handler, arrivals, history>>

SameKey(r, s) == r.user = s.user /\ r.token = s.token

Row(w) == [id |-> txid[w], user |-> req[w].user, token |-> req[w].token,
           amount |-> req[w].amount]

\* Fault: the constraint is on the whole row instead of initiator and key.
KeyTakenSameAmount(w) ==
    \E r \in rows : SameKey(r, req[w]) /\ r.amount = req[w].amount

KeyTaken(w) == \E r \in rows : SameKey(r, req[w])

\* Fault: handlers queue for the key before they have inserted it.
KeyPendingEarly(w) ==
    \E v \in Workers \ {w} : pc[v] \in {"flush", "commit"} /\ SameKey(req[v], req[w])

\* Another transaction has inserted the key and not ended yet.
KeyPending(w) == \E v \in Workers \ {w} : pc[v] = "commit" /\ SameKey(req[v], req[w])

Init ==
    /\ rows = {}
    /\ events = [i \in Ids |-> 0]
    /\ producer \in [Workers -> BOOLEAN]
    /\ pc = [w \in Workers |-> "idle"]
    /\ \E r \in Requests : req = [w \in Workers |-> r]
    /\ txid = [w \in Workers |-> 0]
    /\ arrivals = 0
    /\ audited = {} /\ receipts = {} /\ lost = {}

Goto(w, place) == pc' = [pc EXCEPT ![w] = place]

-----------------------------------------------------------------------------
(* transfer, one action per await *)

Arrive(w, r) ==
    /\ pc[w] = "idle" /\ arrivals < MaxArrivals
    /\ Goto(w, "gate")
    /\ req' = [req EXCEPT ![w] = r]
    /\ txid' = [txid EXCEPT ![w] = arrivals + 1]
    /\ arrivals' = arrivals + 1
    /\ UNCHANGED <<rows, events, producer, history>>

StepUpRequired(r) == r.amount >= Threshold

\* 401 "step-up MFA required", or on to OPA.
StepUpGate(w) ==
    /\ pc[w] = "gate"
    /\ Goto(w, IF StepUpRequired(req[w]) /\ ~req[w].mfa THEN "idle" ELSE "authz")
    /\ UNCHANGED <<rows, events, producer, req, txid, arrivals, history>>

\* OPA decides; then the risk score is computed, which changes nothing here.
Authorize(w) ==
    /\ pc[w] = "authz"
    /\ \E place \in {"flush", "idle"} : Goto(w, place)
    /\ UNCHANGED <<rows, events, producer, req, txid, arrivals, history>>

\* INSERT at flush: PostgreSQL makes it wait for a pending insert of the same
\* key; a free key is taken and the audit line written before the commit.
Flush(w) ==
    /\ pc[w] = "flush" /\ ~KeyPending(w) /\ ~KeyTaken(w)
    /\ audited' = audited \cup {txid[w]}
    /\ Goto(w, "commit")
    /\ UNCHANGED <<rows, events, producer, req, txid, arrivals, receipts, lost>>

\* Fault: a duplicate answers 202 with the id it drew itself.
FlushDuplicateFreshId(w) ==
    /\ pc[w] = "flush" /\ ~KeyPending(w) /\ KeyTaken(w)
    /\ receipts' = receipts \cup {[req |-> req[w], id |-> txid[w]]}
    /\ Goto(w, "idle")
    /\ UNCHANGED <<rows, events, producer, req, txid, arrivals, audited, lost>>

\* Fault: the duplicate goes on to publish the event again.
FlushDuplicatePublishes(w) ==
    /\ pc[w] = "flush" /\ ~KeyPending(w) /\ KeyTaken(w)
    /\ Goto(w, "publish")
    /\ UNCHANGED <<rows, events, producer, req, txid, arrivals, history>>

\* The unique constraint fails the flush.  rollback() closes the transaction of
\* the surrounding begin() block, so the select that should fetch the prior row
\* raises InvalidRequestError and the caller gets a 500.
FlushDuplicate(w) ==
    /\ pc[w] = "flush" /\ ~KeyPending(w) /\ KeyTaken(w)
    /\ Goto(w, "idle")
    /\ UNCHANGED <<rows, events, producer, req, txid, arrivals, audited, receipts, lost>>

\* Fault: the handler answers after the commit and leaves publishing to nobody.
CommitForgetsEvent(w) ==
    /\ pc[w] = "commit"
    /\ rows' = rows \cup {Row(w)}
    /\ Goto(w, "idle")
    /\ UNCHANGED <<events, producer, req, txid, arrivals, history>>

Commit(w) ==
    /\ pc[w] = "commit"
    /\ rows' = rows \cup {Row(w)}
    /\ Goto(w, "publish")
    /\ UNCHANGED <<events, producer, req, txid, arrivals, history>>

Receipt(w) == [req |-> req[w], id |-> txid[w]]

\* producer.send waits for the acknowledgement of all replicas; then the 202.
Publish(w) ==
    /\ pc[w] = "publish" /\ producer[w]
    /\ events' = [events EXCEPT ![txid[w]] = @ + 1]
    /\ receipts' = receipts \cup {Receipt(w)}
    /\ Goto(w, "idle")
    /\ UNCHANGED <<rows, producer, req, txid, arrivals, audited, lost>>

\* The brokers have the event but the acknowledgement does not come in time.
PublishUnacknowledged(w) ==
    /\ pc[w] = "publish" /\ producer[w]
    /\ events' = [events EXCEPT ![txid[w]] = @ + 1]
    /\ Goto(w, "idle")
    /\ UNCHANGED <<rows, producer, req, txid, arrivals, history>>

\* `if state.producer` is false: the 202 goes out without an event.
PublishSkipped(w) ==
    /\ pc[w] = "publish" /\ ~producer[w]
    /\ receipts' = receipts \cup {Receipt(w)}
    /\ lost' = lost \cup {txid[w]}
    /\ Goto(w, "idle")
    /\ UNCHANGED <<rows, events, producer, req, txid, arrivals, audited>>

\* An await raises or the pod dies; an open transaction is rolled back.
Fail(w) ==
    /\ pc[w] # "idle"
    /\ lost' = IF pc[w] = "publish" THEN lost \cup {txid[w]} ELSE lost
    /\ Goto(w, "idle")
    /\ UNCHANGED <<rows, events, producer, req, txid, arrivals, audited, receipts>>

\* The pod starts again: it has a producer if Kafka answers at that moment.
Restart(w) ==
    /\ pc[w] = "idle"
    /\ \E up \in BOOLEAN : producer' = [producer EXCEPT ![w] = up]
    /\ UNCHANGED <<rows, events, handler, arrivals, history>>

-----------------------------------------------------------------------------
Step(w) ==
    \/ StepUpGate(w) \/ Authorize(w) \/ Flush(w) \/ FlushDuplicate(w) \/ Commit(w)
    \/ Publish(w) \/ PublishUnacknowledged(w) \/ PublishSkipped(w)

Next ==
    \E w \in Workers :
        Step(w) \/ Fail(w) \/ Restart(w) \/ \E r \in Requests : Arrive(w, r)

Spec == Init /\ [][Next]_vars

\* The event loop resumes every handler whose await has ended.
FairSpec == Spec /\ \A w \in Workers : WF_vars(Step(w))

-----------------------------------------------------------------------------
(* Properties *)

TypeOK ==
    /\ rows \subseteq Rows
    /\ events \in [Ids -> Nat]
    /\ producer \in [Workers -> BOOLEAN]
    /\ pc \in [Workers -> {"idle", "gate", "authz", "flush", "commit", "publish"}]
    /\ req \in [Workers -> Requests]
    /\ txid \in [Workers -> Nat]
    /\ arrivals \in 0 .. MaxArrivals
    /\ audited \subseteq Ids /\ lost \subseteq Ids
    /\ receipts \subseteq [req : Requests, id : Ids]

\* A client's idempotency key is accepted once, on whatever replicas its
\* duplicates run and wherever each of them fails.
OneRowPerKey == \A r, s \in rows : SameKey(r, s) => r = s

\* The topic shows a transfer once and only if its row is committed, so the
\* consumers never act on a rolled-back or repeated transfer of the intake.
EventsMatchRows ==
    \A i \in Ids : events[i] <= (IF \E r \in rows : r.id = i THEN 1 ELSE 0)

\* A committed transfer without an event is one whose handler is about to
\* publish, or one that was lost: a pod without a producer or a failed publish.
MissingEventExplained ==
    \A r \in rows :
        \/ events[r.id] = 1
        \/ r.id \in lost
        \/ \E w \in Workers : pc[w] = "publish" /\ txid[w] = r.id

\* A 202 names a committed row that carries the caller's own key and amount, and
\* its audit line exists.
ReceiptsMatchRows ==
    \A rc \in receipts :
        /\ rc.id \in audited
        /\ \E r \in rows : r.id = rc.id /\ SameKey(r, rc.req) /\ r.amount = rc.req.amount

\* Every handler ends, also one that waits for a concurrent insert of its key.
Answered == \A w \in Workers : pc[w] # "idle" ~> pc[w] = "idle"
=============================================================================
