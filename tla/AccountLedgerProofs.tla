------------------------- MODULE AccountLedgerProofs -------------------------
(***************************************************************************)
(* Theorems about AccountLedger for any set of workers, accounts, tokens   *)
(* and amounts.  The argument rests on the row lock: while a handler holds *)
(* it, the ORM's copy of the row is the committed row (LockInv), so that   *)
(* the absolute values the commit writes are one posting on top of it.     *)
(***************************************************************************)
EXTENDS AccountLedger, TLAPS

\* A request's idempotency key is one of the keys.
LEMMA KeyType == \A r \in Requests : Key(r) \in IdemKeys
  BY DEF Requests, IdemKeys, Key

\* What a request carries.
LEMMA RequestType ==
  \A r \in Requests : /\ r.acct \in Accounts
                      /\ r.op \in {"credit", "debit"}
                      /\ r.amount \in Amounts
                      /\ r.amount \in Int /\ r.amount > 0
<1> SUFFICES ASSUME NEW r \in Requests
             PROVE /\ r.acct \in Accounts
                   /\ r.op \in {"credit", "debit"}
                   /\ r.amount \in Amounts
                   /\ r.amount \in Int /\ r.amount > 0
  OBVIOUS
<1>1. r.acct \in Accounts /\ r.op \in {"credit", "debit"} /\ r.amount \in Amounts
  BY DEF Requests
<1>2. \A x \in Amounts : x \in Int /\ x > 0
  BY AmountsAssumption
<1> QED
  BY <1>1, <1>2

\* Every variable keeps its type: the versions stay natural numbers, only known
\* accounts are locked, only known keys are remembered.
THEOREM TypeCorrect == Spec => []TypeOK
<1>1. Init => TypeOK
  BY DEF Init, TypeOK
<1>2. TypeOK /\ [Next]_vars => TypeOK'
  <2> SUFFICES ASSUME TypeOK, [Next]_vars PROVE TypeOK'
    OBVIOUS
  <2> USE AmountsAssumption, KeyType DEF TypeOK, table, handler, history
  <2>1. ASSUME NEW a \in Accounts, CreateAccount(a) PROVE TypeOK'
    BY <2>1 DEF CreateAccount
  <2>2. ASSUME NEW a \in Accounts, Freeze(a) PROVE TypeOK'
    BY <2>2 DEF Freeze
  <2>3. ASSUME NEW w \in Workers, NEW r \in Requests, Arrive(w, r) PROVE TypeOK'
    BY <2>3 DEF Arrive
  <2>4. ASSUME NEW w \in Workers, CheckKey(w) PROVE TypeOK'
    BY <2>4 DEF CheckKey
  <2>5. ASSUME NEW w \in Workers, Replay(w) PROVE TypeOK'
    BY <2>5 DEF Replay, Acct, Requests
  <2>6. ASSUME NEW w \in Workers, Authorize(w) \/ Forbid(w) \/ NotFound(w) PROVE TypeOK'
    BY <2>6 DEF Authorize, Forbid, NotFound
  <2>7. ASSUME NEW w \in Workers, LockRow(w) PROVE TypeOK'
    BY <2>7 DEF LockRow, Acct, Requests
  <2>8. ASSUME NEW w \in Workers, Apply(w) PROVE TypeOK'
    <3>1. req[w] \in Requests /\ req[w].amount \in Int
      BY RequestType
    <3>2. NewBalance(w) \in Int
      BY <3>1 DEF NewBalance
    <3>3. copy' \in [Workers -> [balance : Int, version : Nat]]
      BY <2>8, <3>2 DEF Apply
    <3>4. audited' \in [IdemKeys -> Nat]
      BY <2>8, <3>1 DEF Apply
    <3> QED BY <2>8, <3>3, <3>4 DEF Apply
  <2>9. ASSUME NEW w \in Workers, Refuse(w) PROVE TypeOK'
    BY <2>9 DEF Refuse, Release
  <2>10. ASSUME NEW w \in Workers, Commit(w) PROVE TypeOK'
    <3>1. Acct(w) \in Accounts /\ Key(req[w]) \in IdemKeys
      BY RequestType DEF Acct
    <3>2. copy[w].balance \in Int /\ copy[w].version \in Nat
      OBVIOUS
    <3>3. balance' \in [Accounts -> Int] /\ version' \in [Accounts -> Nat]
      BY <2>10, <3>1, <3>2 DEF Commit
    <3>4. applied' \in [IdemKeys -> Nat]
      BY <2>10, <3>1 DEF Commit
    <3>5. holder' \in [Accounts -> Workers \cup {NoWorker}]
      BY <2>10 DEF Commit, Release
    <3> QED BY <2>10, <3>3, <3>4, <3>5 DEF Commit
  <2>11. ASSUME NEW w \in Workers, MarkKey(w) PROVE TypeOK'
    BY <2>11 DEF MarkKey
  <2>12. ASSUME NEW w \in Workers, Fail(w) PROVE TypeOK'
    BY <2>12 DEF Fail, Release
  <2>13. ASSUME NEW k \in IdemKeys, ExpireKey(k) PROVE TypeOK'
    BY <2>13 DEF ExpireKey
  <2>14. CASE UNCHANGED vars
    BY <2>14 DEF vars
  <2> QED
    BY <2>1, <2>2, <2>3, <2>4, <2>5, <2>6, <2>7, <2>8, <2>9, <2>10, <2>11,
       <2>12, <2>13, <2>14 DEF Next, Step
<1> QED
  BY <1>1, <1>2, PTL DEF Spec

-----------------------------------------------------------------------------
(* The row lock and the copy it protects *)

\* A handler between its locked read and its commit holds the row lock, and its
\* copy is the committed row (before the change) or one posting on top of it.
LockInv ==
    /\ NeverOverdrawn
    /\ \A w \in Workers :
        /\ pc[w] \in {"apply", "commit"} =>
              holder[Acct(w)] = w /\ Acct(w) \in opened
        /\ pc[w] = "apply" =>
              copy[w].balance = balance[Acct(w)] /\ copy[w].version = version[Acct(w)]
        /\ pc[w] = "commit" =>
              /\ Acct(w) \notin frozen
              /\ copy[w].balance \in 0 .. MaxBalance
              /\ copy[w].version = version[Acct(w)] + 1
              /\ \/ copy[w].balance = balance[Acct(w)] + req[w].amount
                 \/ copy[w].balance = balance[Acct(w)] + (-req[w].amount)

\* Steps that neither take nor give a lock of a handler that is past its read,
\* nor touch the rows, keep LockInv.
LEMMA LockInvFrame ==
  ASSUME TypeOK, LockInv, NEW w \in Workers,
         UNCHANGED <<table, copy>>,
         holder' = holder \/ holder' = Release(w),
         \A v \in Workers \ {w} : pc'[v] = pc[v] /\ req'[v] = req[v],
         pc'[w] \notin {"apply", "commit"}
  PROVE  LockInv'
<1>1. NeverOverdrawn'
  BY DEF LockInv, NeverOverdrawn, table
<1>2. ASSUME NEW v \in Workers, v # w, pc[v] \in {"apply", "commit"}
      PROVE  holder'[Acct(v)] = v
  <2>1. Acct(v) \in Accounts /\ holder[Acct(v)] = v
    BY <1>2, RequestType DEF LockInv, TypeOK, Acct
  <2> QED BY <1>2, <2>1 DEF Release, TypeOK
<1>3. \A v \in Workers \ {w} : Acct(v)' = Acct(v)
  BY DEF Acct
<1> QED
  BY <1>1, <1>2, <1>3 DEF LockInv, table

LEMMA LockInvStep == TypeOK /\ LockInv /\ [Next]_vars => LockInv'
<1> SUFFICES ASSUME TypeOK, LockInv, [Next]_vars PROVE LockInv'
  OBVIOUS
<1> USE DEF handler, history
<1>1. ASSUME NEW a \in Accounts, CreateAccount(a) PROVE LockInv'
  BY <1>1 DEF CreateAccount, LockInv, NeverOverdrawn, Acct, TypeOK
<1>2. ASSUME NEW a \in Accounts, Freeze(a) PROVE LockInv'
  <2>1. \A w \in Workers : pc[w] = "commit" => Acct(w) # a
    BY <1>2, HolderAssumption DEF Freeze, LockInv
  <2> QED BY <1>2, <2>1 DEF Freeze, LockInv, NeverOverdrawn, Acct, TypeOK
<1>3. ASSUME NEW w \in Workers, NEW r \in Requests, Arrive(w, r) PROVE LockInv'
  BY <1>3, LockInvFrame DEF Arrive, TypeOK
<1>4. ASSUME NEW w \in Workers,
             \/ CheckKey(w) \/ Replay(w) \/ Authorize(w) \/ Forbid(w)
             \/ NotFound(w) \/ Refuse(w) \/ MarkKey(w) \/ Fail(w)
      PROVE LockInv'
  <2>1. /\ UNCHANGED <<table, copy>>
        /\ holder' = holder \/ holder' = Release(w)
        /\ \A v \in Workers \ {w} : pc'[v] = pc[v] /\ req'[v] = req[v]
        /\ pc'[w] \notin {"apply", "commit"}
    BY <1>4 DEF TypeOK, CheckKey, Replay, Authorize, Forbid, NotFound, Refuse, MarkKey, Fail
  <2> QED BY <2>1, LockInvFrame
<1>5. ASSUME NEW w \in Workers, LockRow(w) PROVE LockInv'
  <2>1. Acct(w) \in Accounts
    BY RequestType DEF Acct, TypeOK
  <2>2. \A v \in Workers : v # w /\ pc[v] \in {"apply", "commit"} => Acct(v) # Acct(w)
    BY <1>5, HolderAssumption DEF LockRow, LockInv
  <2>3. \A v \in Workers : Acct(v)' = Acct(v)
    BY <1>5 DEF LockRow, Acct
  <2>4. NeverOverdrawn'
    BY <1>5 DEF LockRow, LockInv, NeverOverdrawn, table
  <2> QED BY <1>5, <2>1, <2>2, <2>3, <2>4 DEF LockRow, LockInv, TypeOK, table
<1>6. ASSUME NEW w \in Workers, Apply(w) PROVE LockInv'
  <2>1. /\ Acct(w) \in Accounts
        /\ req[w].op \in {"credit", "debit"}
        /\ req[w].amount \in Int /\ req[w].amount > 0
    BY RequestType DEF Acct, TypeOK
  <2>2. /\ balance[Acct(w)] \in 0 .. MaxBalance
        /\ copy[w].balance = balance[Acct(w)]
        /\ copy[w].version = version[Acct(w)]
        /\ holder[Acct(w)] = w /\ Acct(w) \in opened
    BY <1>6, <2>1 DEF Apply, LockInv, NeverOverdrawn
  <2>3. /\ NewBalance(w) \in 0 .. MaxBalance
        /\ \/ NewBalance(w) = balance[Acct(w)] + req[w].amount
           \/ NewBalance(w) = balance[Acct(w)] + (-req[w].amount)
    BY <1>6, <2>1, <2>2, BoundAssumption DEF Apply, Admissible, NewBalance
  <2>4. /\ copy'[w].balance = NewBalance(w)
        /\ copy'[w].version = version[Acct(w)] + 1
        /\ \A v \in Workers \ {w} : copy'[v] = copy[v] /\ pc'[v] = pc[v]
        /\ pc'[w] = "commit" /\ Acct(w) \notin frozen
        /\ UNCHANGED <<opened, frozen, balance, version, holder, req>>
    BY <1>6, <2>2 DEF Apply, Admissible, TypeOK, table
  <2>5. \A v \in Workers : Acct(v)' = Acct(v)
    BY <2>4 DEF Acct
  <2>6. NeverOverdrawn'
    BY <2>4 DEF LockInv, NeverOverdrawn
  <2> QED BY <2>2, <2>3, <2>4, <2>5, <2>6 DEF LockInv
<1>7. ASSUME NEW w \in Workers, Commit(w) PROVE LockInv'
  <2>1. Acct(w) \in Accounts /\ copy[w].balance \in 0 .. MaxBalance /\ holder[Acct(w)] = w
    BY <1>7, RequestType DEF Commit, LockInv, Acct, TypeOK
  <2>2. NeverOverdrawn'
    BY <1>7, <2>1 DEF Commit, LockInv, NeverOverdrawn, TypeOK
  <2>3. ASSUME NEW v \in Workers, v # w, pc[v] \in {"apply", "commit"}
        PROVE /\ Acct(v) \in Accounts /\ Acct(v) # Acct(w)
              /\ holder'[Acct(v)] = v
              /\ balance'[Acct(v)] = balance[Acct(v)]
              /\ version'[Acct(v)] = version[Acct(v)]
    <3>1. Acct(v) \in Accounts /\ holder[Acct(v)] = v
      BY <2>3, RequestType DEF LockInv, Acct, TypeOK
    <3> QED BY <1>7, <2>1, <2>3, <3>1 DEF Commit, Release, TypeOK
  <2>4. \A v \in Workers : Acct(v)' = Acct(v)
    BY <1>7 DEF Commit, Acct
  <2>5. /\ pc'[w] = "mark" /\ \A v \in Workers \ {w} : pc'[v] = pc[v]
        /\ UNCHANGED <<opened, frozen, copy, req>>
    BY <1>7 DEF Commit, TypeOK
  <2> QED BY <2>2, <2>3, <2>4, <2>5 DEF LockInv
<1>8. ASSUME NEW k \in IdemKeys, ExpireKey(k) PROVE LockInv'
  BY <1>8 DEF ExpireKey, LockInv, NeverOverdrawn, Acct, table
<1>9. CASE UNCHANGED vars
  BY <1>9 DEF vars, table, LockInv, NeverOverdrawn, Acct
<1> QED
  BY <1>1, <1>2, <1>3, <1>4, <1>5, <1>6, <1>7, <1>8, <1>9 DEF Next, Step

LEMMA LockCorrect == Spec => []LockInv
<1>1. Init => LockInv
  BY BoundAssumption DEF Init, LockInv, NeverOverdrawn
<1> QED
  BY <1>1, LockInvStep, TypeCorrect, PTL DEF Spec

\* No committed balance is negative or leaves the column's range, in whatever
\* order credits, debits, retries and failures of _mutate interleave.
THEOREM BalanceInRange == Spec => []NeverOverdrawn
<1>1. LockInv => NeverOverdrawn
  BY DEF LockInv
<1> QED
  BY <1>1, LockCorrect, PTL

-----------------------------------------------------------------------------
(* The transactions implement the abstract ledger *)

\* A commit is one posting of the abstract ledger, every other step of a
\* handler is invisible to it: no interleaving loses or tears an update.
THEOREM ImplementsLedger == Spec => LedgerSpec
<1>1. Init => L!Init
  BY DEF Init, L!Init
<1>2. TypeOK /\ LockInv /\ LockInv' /\ [Next]_vars => [L!Next]_(L!vars)
  <2> SUFFICES ASSUME TypeOK, LockInv, LockInv', [Next]_vars
               PROVE  L!Next \/ UNCHANGED table
    BY DEF L!vars, table
  <2>1. ASSUME NEW a \in Accounts, CreateAccount(a) PROVE L!Next
    BY <2>1 DEF CreateAccount, L!Next, L!Open
  <2>2. ASSUME NEW a \in Accounts, Freeze(a) PROVE L!Next
    BY <2>2 DEF Freeze, L!Next, L!Freeze
  <2>3. ASSUME NEW w \in Workers, NEW r \in Requests, Arrive(w, r) PROVE UNCHANGED table
    BY <2>3 DEF Arrive
  <2>4. ASSUME NEW w \in Workers, Step(w), ~Commit(w) PROVE UNCHANGED table
    BY <2>4 DEF Step, CheckKey, Replay, Authorize, Forbid, NotFound, LockRow,
                Apply, Refuse, MarkKey
  <2>5. ASSUME NEW w \in Workers, Fail(w) PROVE UNCHANGED table
    BY <2>5 DEF Fail
  <2>6. ASSUME NEW w \in Workers, Commit(w) PROVE L!Next
    <3> DEFINE a == Acct(w)
               x == req[w].amount
    <3>1. a \in Accounts /\ x \in Amounts /\ x \in Int
      BY RequestType DEF Acct, TypeOK
    <3>2. /\ a \in opened \ frozen
          /\ copy[w].balance \in 0 .. MaxBalance
          /\ copy[w].version = version[a] + 1
      BY <2>6 DEF Commit, LockInv
    <3>3. /\ balance' = [balance EXCEPT ![a] = copy[w].balance]
          /\ version' = [version EXCEPT ![a] = copy[w].version]
          /\ UNCHANGED <<opened, frozen>>
      BY <2>6 DEF Commit
    <3>4. CASE copy[w].balance = balance[a] + x
      <4>1. L!Post(a, x)
        BY <3>2, <3>3, <3>4 DEF L!Post
      <4> QED BY <3>1, <4>1 DEF L!Next
    <3>5. CASE copy[w].balance = balance[a] + (-x)
      <4>1. L!Post(a, -x)
        BY <3>2, <3>3, <3>5 DEF L!Post
      <4> QED BY <3>1, <4>1 DEF L!Next
    <3> QED BY <2>6, <3>4, <3>5 DEF Commit, LockInv
  <2>7. ASSUME NEW k \in IdemKeys, ExpireKey(k) PROVE UNCHANGED table
    BY <2>7 DEF ExpireKey
  <2>8. CASE UNCHANGED vars
    BY <2>8 DEF vars, table
  <2> QED
    BY <2>1, <2>2, <2>3, <2>4, <2>5, <2>6, <2>7, <2>8 DEF Next
<1> QED
  BY <1>1, <1>2, TypeCorrect, LockCorrect, PTL DEF Spec, LedgerSpec, L!Spec

-----------------------------------------------------------------------------
(* When a key is applied once *)

Working(w) == pc[w] \in {"authz", "lock", "apply", "commit"}

\* While no race, loss or expiry excused a key: one handler at most is busy with
\* it; if it was applied, its mark is in Redis or on its way there; and a handler
\* that got past redis.get runs before any commit under the key.
OnceFor(k) ==
    /\ applied[k] <= 1
    /\ \A v, w \in InFlight(k) : v = w
    /\ applied[k] # 0 => k \in marked \/ \E w \in InFlight(k) : pc[w] = "mark"
    /\ \A w \in InFlight(k) : Working(w) => applied[k] = 0

OnceInv == \A k \in IdemKeys \ excused : OnceFor(k)

LEMMA OnceStep == TypeOK /\ OnceInv /\ [Next]_vars => OnceInv'
<1> SUFFICES ASSUME TypeOK, OnceInv, [Next]_vars,
                    NEW k \in IdemKeys, k \notin excused'
             PROVE  OnceFor(k)'
  BY DEF OnceInv
<1>0. k \notin excused
  BY DEF Next, CreateAccount, Freeze, Step, CheckKey, Replay, Authorize, Forbid,
         NotFound, LockRow, Apply, Refuse, Commit, MarkKey, Fail, Arrive,
         ExpireKey, vars, history
<1>1. OnceFor(k) /\ applied[k] \in Nat
  BY <1>0 DEF OnceInv, TypeOK
<1> USE DEF OnceFor, InFlight, Working, handler, history
<1>2. ASSUME NEW a \in Accounts, CreateAccount(a) \/ Freeze(a) PROVE OnceFor(k)'
  BY <1>1, <1>2 DEF CreateAccount, Freeze
<1>3. ASSUME NEW w \in Workers, NEW r \in Requests, Arrive(w, r) PROVE OnceFor(k)'
  <2>1. /\ pc[w] = "idle" /\ pc' = [pc EXCEPT ![w] = "check"]
        /\ req' = [req EXCEPT ![w] = r]
        /\ UNCHANGED <<marked, applied>>
        /\ Key(r) = k => InFlight(k) = {}
    BY <1>3 DEF Arrive
  <2> QED BY <1>1, <2>1 DEF TypeOK
<1>4. ASSUME NEW w \in Workers, CheckKey(w) PROVE OnceFor(k)'
  BY <1>1, <1>4 DEF CheckKey, TypeOK
<1>5. ASSUME NEW w \in Workers,
             Replay(w) \/ Forbid(w) \/ NotFound(w) \/ Refuse(w)
      PROVE OnceFor(k)'
  BY <1>1, <1>5 DEF Replay, Forbid, NotFound, Refuse, TypeOK
<1>6. ASSUME NEW w \in Workers, Authorize(w) \/ LockRow(w) \/ Apply(w)
      PROVE OnceFor(k)'
  BY <1>1, <1>6 DEF Authorize, LockRow, Apply, TypeOK
<1>7. ASSUME NEW w \in Workers, Commit(w) PROVE OnceFor(k)'
  <2>1. /\ pc[w] = "commit" /\ pc' = [pc EXCEPT ![w] = "mark"]
        /\ UNCHANGED <<marked, req>>
        /\ applied' = [applied EXCEPT ![Key(req[w])] = @ + 1]
    BY <1>7 DEF Commit
  <2>2. CASE Key(req[w]) = k
    <3>1. w \in InFlight(k) /\ applied[k] = 0
      BY <1>1, <2>1, <2>2
    <3>2. applied'[k] = 1
      BY <2>1, <2>2, <3>1 DEF TypeOK
    <3>3. w \in InFlight(k)' /\ pc'[w] = "mark" /\ InFlight(k)' = InFlight(k)
      BY <2>1, <2>2 DEF TypeOK
    <3>4. \A v \in InFlight(k) : v = w
      BY <1>1, <3>1
    <3> QED BY <3>2, <3>3, <3>4, <2>1
  <2>3. CASE Key(req[w]) # k
    <3>1. applied'[k] = applied[k]
      BY <2>1, <2>3 DEF TypeOK
    <3>2. \A v \in Workers : Key(req[v]) = k => pc'[v] = pc[v]
      BY <2>1, <2>3 DEF TypeOK
    <3>3. InFlight(k)' = InFlight(k)
      BY <2>1, <3>2
    <3> QED BY <1>1, <2>1, <3>1, <3>2, <3>3
  <2> QED BY <2>2, <2>3
<1>8. ASSUME NEW w \in Workers, MarkKey(w) PROVE OnceFor(k)'
  BY <1>1, <1>8 DEF MarkKey, TypeOK
<1>9. ASSUME NEW w \in Workers, Fail(w) PROVE OnceFor(k)'
  <2>1. pc[w] = "mark" => Key(req[w]) # k
    BY <1>9 DEF Fail
  <2> QED BY <1>1, <1>9, <2>1 DEF Fail, TypeOK
<1>10. ASSUME NEW j \in IdemKeys, ExpireKey(j) PROVE OnceFor(k)'
  BY <1>1, <1>10 DEF ExpireKey
<1>11. CASE UNCHANGED vars
  BY <1>1, <1>11 DEF vars
<1> QED
  BY <1>2, <1>3, <1>4, <1>5, <1>6, <1>7, <1>8, <1>9, <1>10, <1>11 DEF Next, Step

\* Sequential retries move money once: a second posting under a key needs an
\* overlapping duplicate, a worker lost after its commit, or a key gone from Redis.
THEOREM AppliedOnce == Spec => []AppliedOnceUnlessExcused
<1>1. Init => OnceInv
  BY DEF Init, OnceInv, OnceFor, InFlight
<1>2. OnceInv => AppliedOnceUnlessExcused
  BY DEF OnceInv, OnceFor, AppliedOnceUnlessExcused
<1> QED
  BY <1>1, <1>2, OnceStep, TypeCorrect, PTL DEF Spec

-----------------------------------------------------------------------------
(* What a 200 answer tells the caller *)

\* There is a committed posting under key k.
Posted(k) == \E r \in posted : Key(r) = k

\* A key in Redis, a handler about to replay and one about to write the key all
\* have a committed posting behind them.
DurableInv ==
    /\ SuccessIsDurable
    /\ \A k \in marked : Posted(k)
    /\ \A w \in Workers : pc[w] \in {"replay", "mark"} => Posted(Key(req[w]))

LEMMA DurableStep == TypeOK /\ DurableInv /\ [Next]_vars => DurableInv'
<1> SUFFICES ASSUME TypeOK, DurableInv, [Next]_vars PROVE DurableInv'
  OBVIOUS
<1> USE DEF DurableInv, SuccessIsDurable, Posted, handler, history
<1>1. ASSUME NEW a \in Accounts, CreateAccount(a) \/ Freeze(a) PROVE DurableInv'
  BY <1>1 DEF CreateAccount, Freeze
<1>2. ASSUME NEW w \in Workers, NEW r \in Requests, Arrive(w, r) PROVE DurableInv'
  BY <1>2 DEF Arrive, TypeOK
<1>3. ASSUME NEW w \in Workers, CheckKey(w) PROVE DurableInv'
  BY <1>3 DEF CheckKey, TypeOK
<1>4. ASSUME NEW w \in Workers, Replay(w) PROVE DurableInv'
  BY <1>4 DEF Replay, TypeOK
<1>5. ASSUME NEW w \in Workers,
             \/ Authorize(w) \/ Forbid(w) \/ NotFound(w)
             \/ LockRow(w) \/ Apply(w) \/ Refuse(w) \/ Fail(w)
      PROVE DurableInv'
  BY <1>5 DEF Authorize, Forbid, NotFound, LockRow, Apply, Refuse, Fail, TypeOK
<1>6. ASSUME NEW w \in Workers, Commit(w) PROVE DurableInv'
  BY <1>6 DEF Commit, TypeOK
<1>7. ASSUME NEW w \in Workers, MarkKey(w) PROVE DurableInv'
  BY <1>7 DEF MarkKey, TypeOK
<1>8. ASSUME NEW k \in IdemKeys, ExpireKey(k) PROVE DurableInv'
  BY <1>8 DEF ExpireKey
<1>9. CASE UNCHANGED vars
  BY <1>9 DEF vars
<1> QED
  BY <1>1, <1>2, <1>3, <1>4, <1>5, <1>6, <1>7, <1>8, <1>9 DEF Next, Step

\* A 200 answer, replayed ones included, is backed by a committed posting under
\* the request's idempotency key.
THEOREM AnswersAreBacked == Spec => []SuccessIsDurable
<1>1. Init => DurableInv
  BY DEF Init, DurableInv, SuccessIsDurable
<1>2. DurableInv => SuccessIsDurable
  BY DEF DurableInv
<1> QED
  BY <1>1, <1>2, DurableStep, TypeCorrect, PTL DEF Spec

-----------------------------------------------------------------------------
(* Audit lines *)

\* The handler that is about to commit has written a line that no earlier commit
\* of its key accounts for; the row lock admits one such handler per key.
AuditInv ==
    /\ AuditCoversCommits
    /\ \A w \in Workers :
          pc[w] = "commit" => applied[Key(req[w])] < audited[Key(req[w])]

LEMMA AuditStep == TypeOK /\ LockInv /\ AuditInv /\ [Next]_vars => AuditInv'
<1> SUFFICES ASSUME TypeOK, LockInv, AuditInv, [Next]_vars PROVE AuditInv'
  OBVIOUS
<1> USE KeyType DEF AuditInv, AuditCoversCommits, handler, history
<1>0. /\ applied \in [IdemKeys -> Nat] /\ audited \in [IdemKeys -> Nat]
      /\ req \in [Workers -> Requests]
      /\ pc \in [Workers -> {"idle", "check", "replay", "authz", "lock",
                             "apply", "commit", "mark"}]
  BY DEF TypeOK
<1>1. ASSUME NEW a \in Accounts, CreateAccount(a) \/ Freeze(a) PROVE AuditInv'
  BY <1>1 DEF CreateAccount, Freeze
<1>2. ASSUME NEW w \in Workers, NEW r \in Requests, Arrive(w, r) PROVE AuditInv'
  BY <1>0, <1>2 DEF Arrive
<1>3. ASSUME NEW w \in Workers,
             \/ CheckKey(w) \/ Replay(w) \/ Authorize(w) \/ Forbid(w) \/ NotFound(w)
             \/ LockRow(w) \/ Refuse(w) \/ MarkKey(w) \/ Fail(w)
      PROVE AuditInv'
  BY <1>0, <1>3 DEF CheckKey, Replay, Authorize, Forbid, NotFound, LockRow, Refuse,
                    MarkKey, Fail
<1>4. ASSUME NEW w \in Workers, Apply(w) PROVE AuditInv'
  BY <1>0, <1>4 DEF Apply
<1>5. ASSUME NEW w \in Workers, Commit(w) PROVE AuditInv'
  <2> DEFINE k == Key(req[w])
  <2>1. /\ pc[w] = "commit" /\ pc' = [pc EXCEPT ![w] = "mark"]
        /\ applied' = [applied EXCEPT ![k] = @ + 1]
        /\ UNCHANGED <<audited, req>>
    BY <1>5 DEF Commit
  <2>2. k \in IdemKeys /\ applied[k] < audited[k]
    BY <1>0, <2>1
  <2>3. AuditCoversCommits'
    BY <1>0, <2>1, <2>2
  <2>4. ASSUME NEW v \in Workers, pc'[v] = "commit" PROVE Key(req[v]) # k
    <3>1. v # w /\ pc[v] = "commit"
      BY <1>0, <2>1, <2>4
    <3>2. holder[Acct(v)] = v /\ holder[Acct(w)] = w
      BY <2>1, <3>1 DEF LockInv
    <3>3. Acct(v) # Acct(w)
      BY <3>1, <3>2
    <3> QED BY <3>3 DEF Acct, Key
  <2> QED BY <1>0, <2>1, <2>3, <2>4
<1>6. ASSUME NEW k \in IdemKeys, ExpireKey(k) PROVE AuditInv'
  BY <1>6 DEF ExpireKey
<1>7. CASE UNCHANGED vars
  BY <1>7 DEF vars
<1> QED
  BY <1>1, <1>2, <1>3, <1>4, <1>5, <1>6, <1>7 DEF Next, Step

\* Every committed posting has an audit line of its own, also when its worker is
\* lost right after the commit.
THEOREM CommitsAreAudited == Spec => []AuditCoversCommits
<1>1. Init => AuditInv
  BY DEF Init, AuditInv, AuditCoversCommits
<1>2. AuditInv => AuditCoversCommits
  BY DEF AuditInv
<1> QED
  BY <1>1, <1>2, AuditStep, TypeCorrect, LockCorrect, PTL DEF Spec
=============================================================================
