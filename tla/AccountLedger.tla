---------------------------- MODULE AccountLedger ----------------------------
(***************************************************************************)
(* account-service: concurrent credit and debit requests against the       *)
(* accounts table.  A handler first asks Redis whether the idempotency key *)
(* was used, then OPA, then runs one database transaction under the row    *)
(* lock of SELECT ... FOR UPDATE, and writes the Redis key only after the  *)
(* commit.  A worker is one handler invocation slot of any replica; it may *)
(* fail (exception, cancelled request, killed pod) at every await.         *)
(***************************************************************************)
EXTENDS Integers

CONSTANTS Workers,      \* handler slots of all replicas together
          Accounts,     \* account ids that requests name
          Tokens,       \* values of the client's idempotency_key
          Amounts,      \* values of amount
          MaxBalance,   \* largest value of numeric(18,2)
          MaxArrivals,  \* bound: requests that arrive, retries included
          NoWorker      \* the holder of a free row lock

ASSUME AmountsAssumption == Amounts \subseteq Nat \ {0}
ASSUME BoundAssumption   == MaxBalance \in Nat /\ MaxArrivals \in Nat
ASSUME HolderAssumption  == NoWorker \notin Workers

Requests == [op : {"credit", "debit"}, acct : Accounts,
             token : Tokens, amount : Amounts]

\* f"idemp:{op}:{account_id}:{idempotency_key}": the amount is not part of it.
IdemKeys == [op : {"credit", "debit"}, acct : Accounts, token : Tokens]
Key(r)   == [op |-> r.op, acct |-> r.acct, token |-> r.token]

VARIABLES
    opened, frozen, balance, version,   \* the accounts table, committed rows
    holder,                             \* row lock of each account
    marked,                             \* idempotency keys present in Redis
    pc, req, copy,                      \* each handler: place, payload, ORM row
    arrivals,                           \* requests received so far
    \* history, read only by the properties:
    posted,                             \* requests whose posting committed
    applied,                            \* commits under each key
    audited,                            \* "success" audit lines of each key
    answers,                            \* 200 responses: request and balance
    excused                             \* keys that met a race, a loss or expiry

table   == <<opened, frozen, balance, version>>
handler == <<pc, req, copy>>
history == <<posted, applied, audited, answers, excused>>
vars    == <<table, holder, marked, handler, arrivals, history>>

Acct(w) == req[w].acct

InFlight(k) == {w \in Workers : pc[w] # "idle" /\ Key(req[w]) = k}

Init ==
    /\ opened = {} /\ frozen = {}
    /\ balance = [a \in Accounts |-> 0]
    /\ version = [a \in Accounts |-> 0]
    /\ holder = [a \in Accounts |-> NoWorker]
    /\ marked = {}
    /\ pc = [w \in Workers |-> "idle"]
    /\ \E r \in Requests : req = [w \in Workers |-> r]
    /\ copy = [w \in Workers |-> [balance |-> 0, version |-> 0]]
    /\ arrivals = 0
    /\ posted = {} /\ answers = {} /\ excused = {}
    /\ applied = [k \in IdemKeys |-> 0]
    /\ audited = [k \in IdemKeys |-> 0]

-----------------------------------------------------------------------------
(* Account rows *)

\* create_account: one transaction inserts an active row with balance 0.
CreateAccount(a) ==
    /\ a \notin opened
    /\ opened' = opened \cup {a}
    /\ UNCHANGED <<frozen, balance, version, holder, marked, handler,
                   arrivals, history>>

\* An operator's UPDATE of status: it waits for the row lock like any writer.
Freeze(a) ==
    /\ a \in opened \ frozen
    /\ holder[a] = NoWorker
    /\ frozen' = frozen \cup {a}
    /\ UNCHANGED <<opened, balance, version, holder, marked, handler,
                   arrivals, history>>

-----------------------------------------------------------------------------
(* _mutate, one action per await *)

\* A request, possibly a client's retry of an earlier one, reaches a worker.
Arrive(w, r) ==
    /\ pc[w] = "idle" /\ arrivals < MaxArrivals
    /\ pc' = [pc EXCEPT ![w] = "check"]
    /\ req' = [req EXCEPT ![w] = r]
    /\ arrivals' = arrivals + 1
    /\ excused' = IF InFlight(Key(r)) = {} THEN excused
                                           ELSE excused \cup {Key(r)}
    /\ UNCHANGED <<table, holder, marked, copy, posted, applied, audited, answers>>

\* Fault: the answer of redis.get is ignored.
CheckKeyIgnored(w) ==
    /\ pc[w] = "check"
    /\ pc' = [pc EXCEPT ![w] = "authz"]
    /\ UNCHANGED <<table, holder, marked, req, copy, arrivals, history>>

\* redis.get(idemp_key)
CheckKey(w) ==
    /\ pc[w] = "check"
    /\ pc' = [pc EXCEPT ![w] = IF Key(req[w]) \in marked THEN "replay" ELSE "authz"]
    /\ UNCHANGED <<table, holder, marked, req, copy, arrivals, history>>

\* The key is known: answer with the account's current state, without a lock.
Replay(w) ==
    /\ pc[w] = "replay" /\ Acct(w) \in opened
    /\ answers' = answers \cup {[req |-> req[w], balance |-> balance[Acct(w)]]}
    /\ pc' = [pc EXCEPT ![w] = "idle"]
    /\ UNCHANGED <<table, holder, marked, req, copy, arrivals,
                   posted, applied, audited, excused>>

\* Fault: the key is written before the transaction instead of after it.
AuthorizeMarksKey(w) ==
    /\ pc[w] = "authz"
    /\ pc' = [pc EXCEPT ![w] = "lock"]
    /\ marked' = marked \cup {Key(req[w])}
    /\ UNCHANGED <<table, holder, req, copy, arrivals, history>>

Authorize(w) ==
    /\ pc[w] = "authz"
    /\ pc' = [pc EXCEPT ![w] = "lock"]
    /\ UNCHANGED <<table, holder, marked, req, copy, arrivals, history>>

Forbid(w) ==
    /\ pc[w] = "authz"
    /\ pc' = [pc EXCEPT ![w] = "idle"]
    /\ UNCHANGED <<table, holder, marked, req, copy, arrivals, history>>

NotFound(w) ==
    /\ pc[w] = "lock" /\ Acct(w) \notin opened
    /\ pc' = [pc EXCEPT ![w] = "idle"]
    /\ UNCHANGED <<table, holder, marked, req, copy, arrivals, history>>

\* Fault: the row is read without FOR UPDATE.
LockRowNoWait(w) ==
    /\ pc[w] = "lock" /\ Acct(w) \in opened
    /\ copy' = [copy EXCEPT ![w] = [balance |-> balance[Acct(w)],
                                    version |-> version[Acct(w)]]]
    /\ pc' = [pc EXCEPT ![w] = "apply"]
    /\ UNCHANGED <<table, holder, marked, req, arrivals, history>>

\* s.get(..., with_for_update=True): wait for the row lock, then read the row.
LockRow(w) ==
    /\ pc[w] = "lock" /\ Acct(w) \in opened
    /\ holder[Acct(w)] = NoWorker
    /\ holder' = [holder EXCEPT ![Acct(w)] = w]
    /\ copy' = [copy EXCEPT ![w] = [balance |-> balance[Acct(w)],
                                    version |-> version[Acct(w)]]]
    /\ pc' = [pc EXCEPT ![w] = "apply"]
    /\ UNCHANGED <<table, marked, req, arrivals, history>>

\* The value the ORM row takes: credit adds, debit subtracts.
NewBalance(w) ==
    IF req[w].op = "credit" THEN copy[w].balance + req[w].amount
                            ELSE copy[w].balance - req[w].amount

\* Fault: the debit's balance check is missing.
AdmissibleNoFunds(w) ==
    /\ Acct(w) \notin frozen
    /\ NewBalance(w) <= MaxBalance

\* Status check, the debit's balance check, and the column's range at flush.
Admissible(w) ==
    /\ Acct(w) \notin frozen
    /\ req[w].op = "debit" => copy[w].balance >= req[w].amount
    /\ NewBalance(w) <= MaxBalance

\* Fault: the audit line is left to the code after the commit.
ApplyNoAudit(w) ==
    /\ pc[w] = "apply" /\ Admissible(w)
    /\ copy' = [copy EXCEPT ![w] = [balance |-> NewBalance(w),
                                    version |-> @.version + 1]]
    /\ pc' = [pc EXCEPT ![w] = "commit"]
    /\ UNCHANGED <<table, holder, marked, req, arrivals, history>>

\* Change the ORM row, flush, emit the audit line; all before the commit.
Apply(w) ==
    /\ pc[w] = "apply" /\ Admissible(w)
    /\ copy' = [copy EXCEPT ![w] = [balance |-> NewBalance(w),
                                    version |-> @.version + 1]]
    /\ audited' = [audited EXCEPT ![Key(req[w])] = @ + 1]
    /\ pc' = [pc EXCEPT ![w] = "commit"]
    /\ UNCHANGED <<table, holder, marked, req, arrivals, posted, applied, answers, excused>>

\* The locks of a transaction go with it, however it ends.
Release(w) == [a \in Accounts |-> IF holder[a] = w THEN NoWorker ELSE holder[a]]

\* Fault: the session is left open when the request is refused.
RefuseKeepsLock(w) ==
    /\ pc[w] = "apply" /\ ~Admissible(w)
    /\ pc' = [pc EXCEPT ![w] = "idle"]
    /\ UNCHANGED <<table, holder, marked, req, copy, arrivals, history>>

\* 409, 400 or a failing flush: the exception rolls the transaction back.
Refuse(w) ==
    /\ pc[w] = "apply" /\ ~Admissible(w)
    /\ holder' = Release(w)
    /\ pc' = [pc EXCEPT ![w] = "idle"]
    /\ UNCHANGED <<table, marked, req, copy, arrivals, history>>

\* The ORM writes the row's values, not increments; the lock goes with commit.
Commit(w) ==
    /\ pc[w] = "commit"
    /\ balance' = [balance EXCEPT ![Acct(w)] = copy[w].balance]
    /\ version' = [version EXCEPT ![Acct(w)] = copy[w].version]
    /\ holder' = Release(w)
    /\ posted' = posted \cup {req[w]}
    /\ applied' = [applied EXCEPT ![Key(req[w])] = @ + 1]
    /\ pc' = [pc EXCEPT ![w] = "mark"]
    /\ UNCHANGED <<opened, frozen, marked, req, copy, arrivals, audited, answers, excused>>

\* redis.set(idemp_key, "1", ex=24h), then the 200 response.
MarkKey(w) ==
    /\ pc[w] = "mark"
    /\ marked' = marked \cup {Key(req[w])}
    /\ answers' = answers \cup {[req |-> req[w], balance |-> copy[w].balance]}
    /\ pc' = [pc EXCEPT ![w] = "idle"]
    /\ UNCHANGED <<table, holder, req, copy, arrivals, posted, applied, audited, excused>>

\* An await raises or the pod dies: an open transaction is rolled back, what
\* was committed or printed stays, the caller gets a 5xx or nothing.
Fail(w) ==
    /\ pc[w] # "idle"
    /\ holder' = Release(w)
    /\ excused' = IF pc[w] = "mark" THEN excused \cup {Key(req[w])} ELSE excused
    /\ pc' = [pc EXCEPT ![w] = "idle"]
    /\ UNCHANGED <<table, marked, req, copy, arrivals, posted, applied, audited, answers>>

\* ex=24*3600 elapses, or Redis evicts or loses the key.
ExpireKey(k) ==
    /\ k \in marked
    /\ marked' = marked \ {k}
    /\ excused' = excused \cup {k}
    /\ UNCHANGED <<table, holder, handler, arrivals, posted, applied, audited, answers>>

-----------------------------------------------------------------------------
Step(w) ==
    \/ CheckKey(w) \/ Replay(w) \/ Authorize(w) \/ Forbid(w) \/ NotFound(w)
    \/ LockRow(w) \/ Apply(w) \/ Refuse(w) \/ Commit(w) \/ MarkKey(w)

Next ==
    \/ \E a \in Accounts : CreateAccount(a) \/ Freeze(a)
    \/ \E w \in Workers : Step(w) \/ Fail(w) \/ \E r \in Requests : Arrive(w, r)
    \/ \E k \in IdemKeys : ExpireKey(k)

Spec == Init /\ [][Next]_vars

\* The event loop resumes every handler; PostgreSQL queues the waiters of a row
\* lock in order, so a handler that the lock keeps becoming free for gets it.
Fairness == \A w \in Workers : WF_vars(Step(w)) /\ SF_vars(LockRow(w))

FairSpec == Spec /\ Fairness

-----------------------------------------------------------------------------
(* Properties *)

TypeOK ==
    /\ opened \subseteq Accounts /\ frozen \subseteq Accounts
    /\ balance \in [Accounts -> Int]
    /\ version \in [Accounts -> Nat]
    /\ holder \in [Accounts -> Workers \cup {NoWorker}]
    /\ marked \subseteq IdemKeys
    /\ pc \in [Workers -> {"idle", "check", "replay", "authz", "lock",
                           "apply", "commit", "mark"}]
    /\ req \in [Workers -> Requests]
    /\ copy \in [Workers -> [balance : Int, version : Nat]]
    /\ arrivals \in Nat
    /\ posted \subseteq Requests
    /\ applied \in [IdemKeys -> Nat]
    /\ audited \in [IdemKeys -> Nat]
    /\ answers \subseteq [req : Requests, balance : Int]
    /\ excused \subseteq IdemKeys

\* The integrity check the SRD asks of the database, CHECK (balance >= 0), which
\* the migration does not contain: the locked check-then-write of _mutate keeps
\* every committed balance in the column's range by itself.
NeverOverdrawn == \A a \in Accounts : balance[a] \in 0 .. MaxBalance

\* A key is applied twice only if a duplicate arrived while the first was in
\* flight, the worker was lost between commit and redis.set, or the key left
\* Redis: sequential retries of a request that ran to its end are absorbed.
AppliedOnceUnlessExcused == \A k \in IdemKeys \ excused : applied[k] <= 1

\* A 200 answer, first or replayed, is given only when a posting under the
\* request's key has been committed; no key is remembered for a rolled-back one.
SuccessIsDurable ==
    \A ans \in answers : \E r \in posted : Key(r) = Key(ans.req)

\* Every committed posting has its audit line even if the worker dies right
\* after the commit, because the line is emitted before it.
AuditCoversCommits == \A k \in IdemKeys : applied[k] <= audited[k]

\* Every request handled ends: row locks are always given back and no handler
\* waits for ever on another.
Answered == \A w \in Workers : pc[w] # "idle" ~> pc[w] = "idle"

\* Each commit is one atomic posting of the abstract ledger, whatever other
\* handlers, failures and expiries do in between: no update is lost or torn.
L == INSTANCE Ledger WITH Accounts <- Accounts, Amounts <- Amounts,
                         MaxBalance <- MaxBalance, opened <- opened,
                         frozen <- frozen, balance <- balance, version <- version
LedgerSpec == L!Spec
=============================================================================
