# SecureBank in TLA+

SecureBank is a set of Python (FastAPI) services that share PostgreSQL, Redis,
Kafka and OPA. What makes it correct or incorrect is not arithmetic but what
happens *between* its commands: every `await` lets another handler run, every
service has several replicas, any of them may die at any await, and no operation
spans two stores atomically. These modules model the services at exactly that
grain (one action per await that can observe or change shared state), check them
with TLC on small instances, and prove the main safety results with TLAPS for every
value of the constants.

Paths below are relative to the repository's own `src/` (so `shared/...` is
`src/shared/securebank_shared/...`, and services are `src/<service>/app/...`).

## 1. Inventory

| component | state it keeps | operations | hard behaviour | modules |
|---|---|---|---|---|
| api-gateway | WAF and routing tables, a JWKS cache | proxy one request | answers 502 while the service goes on; checks the token at another time than the service, and the path before httpx normalises it | RequestPath |
| auth-service | Redis sessions, refresh tokens, throttles; PostgreSQL users; signing keys in memory | register, login, MFA enrol and verify, refresh, logout, jwks | read-then-write rotation; rows read before an await and used after it; counters in a rolled-back transaction; keys that differ per replica | AuthLogin, RefreshTokens, JwksCache (partly) |
| token verification (`shared/jwt_dep.py`, `auth-service/keys.py`) | key set cached per process, a key ring per auth replica | get, refresh, verify | fetches that overlap and are applied in another order; replicas with different rings | JwksCache |
| account-service | PostgreSQL `accounts` (balance, version, status); Redis `idemp:*` for 24 h | create, credit, debit, list, get | duplicates and retries race; the row lock; commit and key write in two stores | AccountLedger, RequestPath |
| transaction-service | PostgreSQL `transactions`, unique (initiator, key); a Kafka producer fixed at startup | transfer, get | retry on a taken key; commit and publish in two stores; lost producers | TransferIntake, RequestPath |
| kafka messaging (`shared/kafka.py`) | topics of six partitions, committed offset and position per group and partition | send, stream with manual commit | redelivery, unverifiable envelopes, a commit that raises | EventPipeline |
| fraud-detection-service | Redis windows `sb:velocity:*`, `sb:amounts:*`, `sb:dst:*`; group offset | one worker loop | replicas interleave command by command; redelivery; a step that fails after others | EventPipeline, FraudWindows (partly) |
| notification-service | Redis list `sb:notif:*`; offsets of two groups | two worker loops, list | push and trim are two commands, and two replicas share each inbox | EventPipeline, RequestPath |
| soar-service | Redis `soar:dedupe:*` (300 s) and `gw:deny:ip:*`; acts on Kubernetes | three webhooks, eight playbooks | the dedupe key is set before the work and kept on failure; playbooks of two calls; calls that time out after they took effect | SoarDispatch |
| ai-security-agent | none | explain, triage, review, adversarial score | two thresholds on one number; a table that must agree with SOAR's | Triage (partly) |
| OPA policies (`k8s/policies/opa`) | none | decide | the policy and the code draw the same line twice | RequestPath (partly) |
| other shared code | none | crypto, Vault client, middleware, settings | wrappers of libraries | RequestPath (partly) |
| audit log (`shared/audit.py`) | last hash per process | emit | none: one lock, no await inside | not modelled |
| frontend client (`frontend/app.js`) | token pair in memory | call with refresh on 401, transfer, logout | parallel calls refresh with one token; a new idempotency key per submit | not modelled, environment of the others |
| deployment, monitoring, memory-safety demo | n/a | n/a | configuration or separate programs | not modelled |

How they interact. The client calls the gateway, the gateway checks the token, writes
the caller's id into a header and forwards to one service; the service checks the
token again with its own key cache and asks OPA (fail-closed) before it acts. A
transfer is committed by the transaction service and announced on Kafka; fraud
detection and notification consume that topic as independent groups; fraud detection
publishes alerts that notification consumes. SOAR is called by webhooks of the
monitoring (QRadar, Falco, an ML hook), not by the services. Accounts are *not*
moved by a transfer: credit and debit are separate calls, so the ledger and the
intake share no state in this code. Redis holds the state that replicas share but is
never in one transaction with PostgreSQL or Kafka.

What makes each correct: no request does what its verified token does not earn,
and a refusal is final; the ledger never loses an update, never overdraws and absorbs
retries; the intake accepts a key once and announces what it accepted; the
pipeline never skips a message and repeats at most one; the fraud windows count what
happened; the refresh tokens of a session form one chain and a logout ends it; a
session is earned by the factors its account asks for; a key that was retired
everywhere does not come back; SOAR works on an offense once per window and reports
what is true. `PROJECT.json` lists the hazards line by line with the property
that watches each.

## 2. Modules

### Ledger, AccountLedger: `account-service/routes_accounts.py`

`Ledger` is the abstract promise: an account is opened, frozen, or moved by one
atomic posting that keeps its balance in `0 .. MaxBalance` and counts a version.
`AccountLedger` is the code. A worker slot runs `_mutate`:

| action | code |
|---|---|
| `Arrive` | a credit or debit request, or a client's retry, is routed to a replica |
| `CheckKey`, `Replay` | `redis.get(idemp_key)`; if set, answer with the current row |
| `Authorize`, `Forbid` | OPA |
| `LockRow`, `NotFound` | `s.get(..., with_for_update=True)`: wait, then read the row into `copy` |
| `Apply`, `Refuse` | status, funds and column-range checks, new balance, flush, audit line |
| `Commit` | end of `async with s.begin()`: the ORM writes the absolute values of `copy` |
| `MarkKey` | `redis.set(idemp_key, ex=24h)` and the 200 |
| `Fail` | exception, cancellation or death at any of these places; an open transaction is rolled back |
| `CreateAccount`, `ExpireKey`, `Freeze` | the account's insert; the key's end; an operator's status change |

`Freeze` is external: no code writes `status`, but `_mutate` tests it. The history
variables (`posted`, `applied`, `audited`, `answers`, `excused`) are never read by
an action. `excused` collects the keys that met one of the three things the code
does not guard against: an overlapping duplicate, a worker lost between commit and
`redis.set`, a key that left Redis.

### TransferIntake: `transaction-service/routes_transfers.py`

`Arrive`, `StepUpGate`, `Authorize`, `Flush` / `FlushDuplicate`, `Commit`,
`Publish` / `PublishUnacknowledged` / `PublishSkipped`, `Fail`, and `Restart` of
a pod, which decides once whether it has a Kafka producer. `KeyPending` is
PostgreSQL's wait for another transaction's uncommitted entry in the unique index.
`FlushDuplicate` is what the library does with the code's duplicate branch: inside
`async with s.begin()` the code calls `s.rollback()`, which closes the block's
transaction, so the `s.execute` that follows raises `InvalidRequestError` and the
caller gets a 500; the prior row is not returned.

### EventPipeline: `shared/kafka.py` and both workers

Each of the two topics has partitions; an event goes to the one its key picks, and
the key is the transfer, so one user's transfers are spread over the partitions and
`PublishTransfer` is free to choose. A *loop* consumes one partition for one
group, a *process* is the set of loops of one replica: the two notification replicas
have loops of both groups, on different partitions, and push to and trim one inbox
in Redis, command by command. (One process that owns several partitions takes
their messages in turn, which is one of the orders that its loops may run in.) `Poll`
hands out the next message, or skips one whose version or HMAC does not verify;
the handler's actions follow (`ScoreNormal`, `ScoreAnomaly`, `SendAlert`,
`PushNotification`, `TrimInbox`, `NotifyAlert`); what any of them raises is logged
and committed over (`HandlerRaises`), also when what it did took effect: `SendAlert`
and `TrimInbox` end in `Finish` or `GiveUp`. `Commit` is `stream`'s commit after each
message. `Kill` and `Start` are those of a process: a killed one begins again, here
or as its successor, at the committed offsets. A failed start leaves `absent` for
the process's life; a commit that raises ends the loop (`CommitFails`, place
`dead`) while the process stays up. The verdict on a transfer is a free choice, and
so is whether an alert's envelope verifies at its consumers. `pushed` and `untrimmed`
are history.

### RefreshTokens: `shared/sessions.py`, `auth-service/routes_auth.py`

`POST /token/refresh` one Redis command at a time: `ReadToken`, then `BurnToken`
(reuse, 401) or `MarkUsed`, `IssueNext`, `ReadSession`, then `PersistSession` (the
sliding re-write, and the 200 whose token may or may not reach the client) or
`DiscardSession` (a session that this replica's key cannot decrypt is deleted).
`Login`, `Logout`, the two TTLs and `Fail` surround it. A session's value is the
key it is encrypted under; `KeyOf` gives each handler the key of its replica, which
is one key only if `SB_SESSION_KEY_HEX` is set. Clients present the tokens they
were given, old ones too.

### AuthLogin: `auth-service/routes_auth.py`

Registration, login and the second factor. Handlers of several replicas run at
once; `ReplicaOf` gives each its replica, which stands for the replica's keys.

| action | code |
|---|---|
| `Register`, `RejectBreached` | a body arrives; a password on the HIBP list is a 202 that does nothing (unless HIBP cannot be reached) |
| `SelectExisting`, `InsertUser` | the `select` for the email, then the `INSERT` under both unique indexes (a conflict is a 500) |
| `Login`, `CheckPassword` | the row is read, lock and password are tested; a wrong one records the failure in the open transaction |
| `Rollback` | the HTTPException leaves `async with s.begin()`: what the failure recorded is undone |
| `GrantLogin` | the cleared counters are committed; then a session, or a pre-auth token if the row *that was read* is enrolled |
| `Verify`, `CountAttempt`, `SetTtl` | `INCR` and `EXPIRE` of the attempt counter as two commands; beyond the limit 429 |
| `CheckCode`, `GrantVerified` | token, row and code are checked, with the keys of this replica; then the session |
| `Enroll` | a new secret for the caller, encrypted with this replica's key |
| `ExpireCounter`, `ExpireToken`, `Fail` | the TTLs; an exception or death at any await |

The counter's key is the first 32 characters of the token, which are equal for all
tokens one replica signs: `RateKeyOf`.

### JwksCache: `auth-service/keys.py`, `shared/jwt_dep.py`

Each auth replica has a ring: `LoadFromVault` or `BootstrapLocal` when it starts.
`RotateVault` is external (an operator's script). `Issue` signs with the active key.
A verifying process has a cache that its handlers fill: `Lookup` (the key is there
and fresh, or a fetch begins), `Fetch` (some replica answers with its ring),
`Apply` (the answer replaces the cache, in whatever order answers arrive),
`FetchFails`, and `Reply`; `Decode` is the check of signature and type. `ExpireCache` is the TTL.
A kid is the fingerprint of its key, so a number stands for both; a forged token
names a kid that no key of the ring signed it with.

### FraudWindows: `fraud-detection-service/worker.py`

The Redis windows of one user, one action per command of `handle`: `AddVelocity`,
`PruneVelocity`, `CountHour`, `CountDay`, `PushAmount`, `TrimAmounts`,
`LookUpDestination`, `RememberDestination`, `RefreshTtl`, `Score`. `Deliver` hands
a transfer that is not committed and in no live handler's hands to any replica;
`Lose` is a death (the transfer comes again) or an exception (it is committed over)
at any command; `Tick` advances the clock, but a live handler is at most one tick
behind it; `ExpireSeen`, the TTL of the known destinations, may fall between any two
commands. `LookUpDestination` reads and learns nothing: the client answers 0 or 1, and
neither `is False` (section 7).

### SoarPlaybooks, SoarDispatch: `soar-service/main.py`, `playbooks.py`

`SoarPlaybooks` is the table from rule to playbooks. In `SoarDispatch`, `Receive` is
a webhook: the signature check (for QRadar only), the offense built from the body;
`Claim` is `SET NX EX 300` (a duplicate ends there); then the playbooks of the rule
run one after the other. A playbook without its fields (`SkipPlaybook`) and a call
that raises before it took effect (`CallFails`; PB-002, PB-003 and PB-006 always do,
no service has the routes they call) report a failure and the next playbook starts;
in a dry run all but PB-004 report success without a call (`PretendPlaybook`).
`BlockIp`, `ResolvePod` then `CordonNode`, `DeleteBinding` then
`DeleteClusterBinding`, `QuarantinePod`, `EgressQuarantine` are the calls that take
effect, each of which may still be reported as failed (it timed out). `Answer`,
`Crash`, `ExpireKey`, `ExpireDeny` and `MovePod` (external) surround them.

### RequestPath: one request through gateway and service

Two programs share one request: `gw` is where the gateway is, `svc` where the service
is. Gateway: `Screen` (body limit, WAF, routing), `Authenticate`, `Send`, `GiveUp`
(the ten-second timeout: 502, and the service goes on). Service: `Route`, `Verify`,
`Input` (validation, step-up, existence), `Replay` (an idempotency key's
answer), `Authorize` (OPA: `Allow` is the policy `securebank.authz`), `Act`,
`ActFails`, `ServiceDies`. `Expire`: the token's end may fall between any two
of these. The gateway matches the path as it was sent; the handler is found by `Sent`,
the path after httpx has removed its dot segments, at the service the former chose
(`HandlerOf`). The rows of `HANDLERS` are the account, transaction and notification
services' handlers and, of the auth service's, `login` and `mfa_enroll`: `register`,
`mfa_verify`, `refresh`, `logout` and the key set are in `AuthLogin`, `RefreshTokens` and
`JwksCache` only (that `logout` takes its session from a header of the gateway's is in
none of them). What handlers do to the stores is in the modules above,
here `effect` records that it was done and for whom. The IBAN of a new
account is computed (`CheckDigits`, ISO 7064).

### Triage: `ai-security-agent`

`TriageRequest` answers `/triage` by the table or by a language model's JSON and
raises the severity to the hint; `ScoreRequest`, `Slice` and `Report` are
`/adversarial/score`: one probe per slice, then `Verdict` from the evasion rate and the
drift. `SoarPlaybooks` is shared with `SoarDispatch`.

The `...MC` modules name symmetry sets, key assignments and the sets of requests,
alerts and registrations. The `...Proofs` modules hold the theorems: one for each
specification, save that `AuthProofs` is about `AuthLogin` and `JwksCache` and `SoarProofs`
about `SoarDispatch` and `Triage`; the second of each pair prefixes its names
(`JwksSpec`, `TriageSpec`) so that one module can extend both. Operators with
the comment `Fault:` are mutated forms of the action after them; no
specification uses them, they exist to show that the properties react to such a bug.

## 3. Runs

| run | instance | what it shows |
|---|---|---|
| `account_ledger` | 2 workers, 1 account, 1 key value, amounts 1 and 2, balances to 3, 3 arrivals; 99 414 states | `NeverOverdrawn`, `AppliedOnceUnlessExcused`, `SuccessIsDurable`, `AuditCoversCommits`, refinement of `Ledger`, and that every handler ends |
| `transfer_intake` | 2 workers, 2 users, 1 key value, amounts 1 and 2 (2 needs step-up), 2 arrivals; 110 208 states | `OneRowPerKey`, `EventsMatchRows`, `MissingEventExplained`, `ReceiptsMatchRows`, every handler ends |
| `event_pipeline` | 2 transfers, 3 partitions, one fraud and two notification processes, inbox of 1, 1 kill or failed start, any failed commits; 236 774 states | `NothingSkipped`, `RedeliveryIsLocal`, `AlertsAreGrounded`, `InboxIsNewest`, `Drained` |
| `fraud_windows` | 2 workers, 3 transfers of one user to one destination, hour 1 and day 3 of 3 ticks, list of 2, 1 loss; 3 470 719 states | `VelocityCountsAll`, `AmountsAreNewest`, `DestinationsLapse` |
| `refresh_tokens` | 2 handlers of one replica and 1 of another with another key, 1 session, 4 tokens, 3 refreshes; 218 375 states | `OneLiveToken`, `LogoutIsFinal` |
| `auth_login` | 1 handler on each of 2 replicas with keys of their own, two accounts that want one phone, 1 enrolment, 1 session, 2 attempts at a limit of 1; 1 468 409 states | `AttemptsThrottled`, `AccountsAreKept`, `SessionsEarned` |
| `login_lockout` | 1 handler, 1 account, the code's limit of 5 | *violated*: `LockedAfterFailures`, "Account lockout: 5 failed attempts → 15 min lock" (`docs/01_SRD.md:35`); each failure's count is rolled back with its 401 |
| `jwks_cache` | 2 auth replicas, one verifying service with 2 handlers, 3 keys, 1 live token, Vault that may fail; 1 095 424 states | `CacheIsOneRing`, `RetiredKeysStayOut` |
| `soar_dispatch` | 2 handlers; an escalation, whose reports share a dedupe key, an escape, a signed and an unsigned credential stuffing; 1 node; 166 232 states | `OneDispatchPerWindow`, `ReportIsTrue`, `EffectsJustified` |
| `soar_retry` | 2 handlers, an exfiltration and a fraud alert (whose two playbooks always fail), fairness; 836 states | `EveryPlaybookRuns` |
| `request_path` | every handler × every kind of token × an `x-user-id` of the client's × amounts at the boundaries, every path with a dot segment or a step into a segment and back, and what the screen refuses; 66 740 states | `NoUnearnedMoney`, `GatesAgree`, `ServesTheSubject`, `RefusalIsFinal`, `IbanIsValid` |
| `triage` | every rule, hint and three replies of a model; drifts at each threshold and one past it; 10 slices; 14 678 states | `NeverLowered`, `SuggestionRuns`, `DangerIsReported` |

`TypeOK` (`TriageTypeOK`) is also an invariant of `auth_login` and `triage`. That
each of the ten specifications keeps its types is a theorem.

Why these bounds are enough to mean something. Two handlers are what every race
here needs (a handler observes only the shared state, not who changed it), and
three arrivals allow a request, its overlapping duplicate, and a later retry.
One account and one key value make every request collide; credit and debit are two
keys of it. A balance limit of 3 with amounts 1 and 2 meets both ends of the
column. Two arrivals with two users suffice for the intake's collisions, as the
workers are two. An inbox of 1 overflows at the second message; a list of 2 amounts at
the third. Of the pipeline's three partitions one has fraud detection and its alerts, and
one each a loop of the two notification replicas: the two share the inbox, and a message in
a partition without a loop of a group is one that group has not got to. One kill or failed
start, with failed commits besides, shows each process at each place once. Three refreshes and four tokens allow a rotation, a replay of the old token
and a rotation of the new one. Three keys are the ring's two and one that retires.
Three ticks are one more than the hour's window and as many as the day's. Two
attempts at a limit of one are one too many. The requests of `request_path` do not
meet each other, so one at a time is all of them; its largest amount is 15 000
rupees instead of 999 999 999.99 as TLC's integers have 32 bits, and the steps of
`NSlices` are 10 instead of 50 because the code's fractions (0.2 and 0.4 of the
slices) are whole at 10. The safety results do not rest on the bounds: section 5.

`CHECK_DEADLOCK FALSE` stands where arrivals, events or the clock are bounded or
where one request is the whole behaviour (`account_ledger`, `transfer_intake`,
`event_pipeline`, `fraud_windows`, `request_path`), so the model may come to rest;
the code then waits for requests.

The passing properties are the strongest ones that hold *beside* what section 7
lists: each names the exact circumstance (`excused`, `lost`, `revived`,
`overtaken`, `orphaned`, `untrimmed`, `losses`) in which the code gives less than it says, and
shows that nothing else does.

## 4. Fairness

`FairSpec` is used for liveness only. Each handler's next step is weakly fair: an
await on Redis, OPA, PostgreSQL, Kafka or Kubernetes ends, with a result or an
exception, and the event loop resumes the handler. Fairness is over the disjunction of a
handler's ordinary steps, so no outcome of a choice is forced (OPA may always
refuse, a handler may always raise). `LockRow` is strongly fair because PostgreSQL
queues the waiters of a row lock. A process that is down is started again
(Kubernetes), which is the fairness of `Start` in the pipeline. Redis drops an expired
key in time, which is the fairness of `ExpireKey` in `SoarDispatch`. Nothing is
assumed of clients, kills or logouts, nor that a loop that is `absent` or `dead` comes
back, because nothing in the code restarts it: `Drained` speaks of groups whose loop
stays alive, and `EveryPlaybookRuns` of an offense that is reported again and again
by a source that outlives the crashes.

## 5. Proofs

All of them hold for any sets of workers, accounts, users, tokens, sessions, keys,
alerts and requests, and any bounds. The assumptions are the named `ASSUME`s of
the modules: amounts are positive, bounds are natural numbers, `NoWorker` is no worker,
`KeyOf` and `VerifierOf` are functions on the handlers, `Cap` is positive, the hour and a
tick are shorter than the day, the step-up threshold is at most one above the
policy's limit, account numbers are sixteen digits, a language model's reply has two
strings. Workers may be infinitely many, save in `FraudWindows`, which
counts sets of transfers and handlers, and in `EventPipeline`, which counts loops.

**AccountLedgerProofs.** `BalanceInRange` is not inductive: `Commit` writes the
absolute values of `copy`. The strengthening says that the holder of a row lock
is the one handler past `LockRow` on that account and that its `copy` is the
committed row (at `apply`) or one admissible posting on top of it (at `commit`).
The same invariant gives `ImplementsLedger`: `Commit` is `Post`, `CreateAccount` is
`Open`, `Freeze` is `Freeze` (it cannot fall between check and commit, for it
waits for the lock), and every other step leaves the ledger's variables alone.
`AppliedOnce` needs that, for a key that is not excused, at most one handler is in
flight and a committed posting is either marked or about to be.
`AnswersAreBacked` needs that every marked key and every handler at `mark` or
`replay` stands for a committed posting. `CommitsAreAudited` needs that a handler at
`commit` has a line no earlier commit of its key accounts for, and the row lock
again: two handlers at `commit` are on different accounts, so on different keys.

**TransferIntakeProofs.** `KeyAcceptedOnce` rests on the unique index: at most one
handler is between flush and commit with a key, and none while a row has it.
`EventsAreOfRows` rests on ids: a busy handler's id belongs to it alone, has no
event before it publishes, and at `publish` its row is committed. The same
invariant gives `LossesAreNamed` and, with the audit line that is there from the
flush on, `AnswersNameOwnRow`.

**EventPipelineProofs.** `NoMessageSkipped` and `RedeliveryLocal` come from
`Aligned`: a polling loop's position is its committed offset, a handling loop's
is one past it, and at `commit` that message is finished or dropped. `AlertsGrounded`
needs that a handler's current message is a verified one of the log, and audited
once it is at `alert`. `InboxStaysNewest` is about all loops at once: the inbox agrees
with the history of pushes entry by entry (`Newest`), a push of one loop and a trim of
another both keep that, and each entry over the cap is owed by a loop at `trim` or by
one that was lost there (`Bounded`); that a finished transfer was pushed (`Announced`)
needs that no position is beyond its log, so that the message in a handler's hands stays the
same while logs grow. The facts about concatenation and subsequences are the library's.

**RefreshTokensProofs.** `RotationIsAChain`, the hardest: for a session without
overlap, the handler that has decided to rotate holds the only live token a
client has, and from its mark to its answer there is none (`Holds`); this needs
that fresh tokens are undelivered and distinct (`Provenance`). `LogoutEnds` needs
only that a handler which reaches `persist` read the session before.

**AuthProofs, AuthLogin.** `LoginTypes` adds to the types what a request has at each of
its handler's steps (`Served`) and that the sessions are finitely many, without which
the next session's number would be no number. `AccountsAreKept` and `SessionsEarned` rest
on one invariant. `Accounts`: an existing account has a password, and no phone is in two
rows; only `InsertUser` writes a phone, and it tests the unique index in the step in
which it writes. `Current`: what a handler between its last read and its session has
read (the row at `granted` and `proven`) still has the account's password, and its
secret too unless the handler is `overtaken`: of the writers of a row, `InsertUser` only
makes new ones, `CommitCleared` changes neither column, and `Enroll` marks every
handler that it overtakes. `AttemptsThrottled` needs `Counted`, the number let through is
the counter cut off at the limit, so that a counter that expires takes the number with it,
and that only the handler at `ttl` can leave a counter without its expiry (`ExpiryStep`).

**AuthProofs, JwksCache.** `CacheConsistent`: `KeyInv` adds to the types that every
answer in a handler's hands, like every cache, is a key set some replica published
(`Published`); `Apply` replaces, so no mixture arises. `RetiredStayRetired` needs that
a replica's ring is below `drawn` and that a fetch returns keys of a ring, which a
retired key is not in.

**SoarProofs, SoarDispatch.** `DispatchInv`: an offense in dispatch was admitted (`Admitted`),
a handler between the two calls of PB-004 or PB-005 is at that playbook of its
list (`MidPlaybook`), and a node a pod is on or was seen on is recorded
(`HostsRecorded`). `EffectsAreDue` follows action by action. `KeysClaimedOnce` is
`SET NX` and expiry in step. `ReportsAreTrue` adds that the results are those of the
list's first playbooks (`InOrder`): the list names none twice, so the node PB-004 read
is not read again after its success, and no playbook takes back what another achieved
(`Grew`).

**SoarProofs, Triage.** `SuggestionRuns` is about two tables that two services keep
separately: `TablesAgree` compares them at every rule, the unknown ones included.
`NeverLowered` is `BumpRaises`, a lemma about the order of the severities. For
`DangerIsReported` the inductive part is `Probing`: against the stub, a transfer of at
most 20 000 has evaded in every slice tried so far, as no slice of it is above the
stub's limit (`SliceStep`); a full probe is then all evasions, and `VerdictWarns` bounds
the verdict for any number of slices and any drift.

**FraudWindowsProofs.** Three invariants. `WindowInv`: a live handler's clock reading is
at most a tick old (`OnTime`), a transfer it must count has a score no older
(`Recent`), and each count it has read includes them (`Counted`). Pruning by the
other replica is harmless because an hour and a tick are shorter than the day it prunes
by. `DestinationsLapse` is inductive with the types: `sadd` leads to `expire`, which only the TTL or a
loss that is recorded leads out of. `AmountsInv`: the list is a prefix of the pushes (`Newest`) and what it has
beyond its cap is owed by handlers or losses (`Bounded`).

**RequestPathProofs.** `PathInv` states for each place of gateway and service what the
stations before it have established: whose token it was (`Identified`), what was
checked (`Checked`), what an effect rests on (`Justified`), and that a 4xx leaves
the service idle and without effect (`RefusalIsFinal`). Each later station preserves it
because `req` does not change, and expiry only takes tokens away. For the handlers that
verify the token themselves the subject follows from that (`Cleared`); for the inbox from
the gateway, as no anonymous prefix leads to its service (`InboxRequiresAuth`), whatever
`Sent` makes of the path, of which the proofs use nothing. `IbanIsValid` is
arithmetic: a number of thirty digits is reduced modulo 97 in five groups of six, the
first four of which do not depend on the check digits (`Digits`, `Groups`), and the last
adds them to a remainder (`LastGroup`); so the complement to 98 that was computed with
zeros in their place leaves 1 (`Complement`, `CheckDigitsFit`).

The theorem on types is `TypeCorrect` in each of these modules (`LoginTypeCorrect`,
`JwksTypeCorrect`, `TriageTypeCorrect` for the specifications that share one). Every safety
property that a passing run checks is a theorem. Only model-checked are the liveness
properties (`Answered` of the ledger and of the intake, `Drained`, `EveryPlaybookRuns`),
since liveness under fairness is beyond this prover. The strengthened invariants of the
proofs were checked with TLC before they were proved.

## 6. Abstractions

* Amounts and balances are small integers for `Numeric(18,2)`; its range is
  `0 .. MaxBalance` below and above. Payload fields that no check reads are gone.
* OPA's answer (outside `RequestPath`, which has the policy), the fraud verdict and
  the HMAC check are free choices, so the results hold for all policies, models and
  key distributions.
* A failure is `Fail`, `Lose`, `Crash` or `HandlerRaises` at any await. PostgreSQL,
  Redis and Kafka themselves are reliable single objects: a Redis failover that
  forgets writes is the key expiry of the models.
* Ids and tokens are numbers counted up: `uuid4` and `random_token(32)` do not
  collide.
* In the service modules a user's role and MFA state are part of the request, as
  they are claims of a JWT; `RequestPath` checks the claims.
* A signature is the number of the key that made it, a ciphertext the key it is
  readable with.
* Time is an expiry that may happen at any moment, save in `FraudWindows`, where the
  windows' lengths matter and a clock ticks.
* Rates and drift are in thousandths.
* A partition has one loop per group at a time. While a rebalance moves it, the old owner's
  handler may still be at work on a message that the new owner gets again; here a
  loop's successor starts only after it was killed.

## 7. Seen in the code

What the code does in spite of a doc, a comment or a reasonable expectation. The first
is a run, the others are named exceptions of the properties or lie outside them.

* The failed-login counter is written in the transaction that the following
  `HTTPException` rolls back (`routes_auth.py` 94-99): run `login_lockout`.
* Two overlapping requests with one idempotency key both post: the key is read
  before the posting and written after it (`routes_accounts.py` 113, 145). `excused`.
* The ledger's replay compares keys only: a used key with another amount is answered
  200 and nothing is posted for it (`routes_accounts.py` 111-118). `SuccessIsDurable`
  therefore speaks of a posting under the same key.
* The retry of a committed transfer is a 500, not the prior row
  (`routes_transfers.py` 68-78, comment "Idempotent retry - fetch the prior record.").
* A pod that starts without Kafka accepts transfers for its whole life and publishes
  none of them (`transaction-service/state.py` 55). `lost`.
* A consumer that could not start is not tried again, and one whose commit raised is
  dead while the process reports health (`shared/kafka.py` 165).
* An alert whose send fails is committed over (`fraud-detection-service/worker.py` 88).
* Two overlapping refreshes of one token both succeed (`sessions.py` 122); after a reuse
  is detected the family's next token still refreshes, and the token that was marked
  compromised is accepted the third time. These sessions are
  the `excused` of `OneLiveToken`.
* A refresh that read the session before a logout writes it back after it
  (`sessions.py` 75-80): the exception `revived` of `LogoutIsFinal`.
* Keys per replica: without `SB_SESSION_KEY_HEX` a refresh on the other replica
  deletes the session (`sessions.py` 73-74); without `SB_FIELD_ENC_KEY_HEX` an
  account created on one replica cannot be read on the other (`account-service/state.py`
  38); an MFA secret neither (`auth-service/state.py` 44).
* "Zero-downtime" rotation (`keys.py` 4-6) is not: a ring is loaded at startup only, so
  after a restart of one replica its tokens are unknown to a cache that gets the other's
  set. The manifest sets `SB_VAULT_ADDR` (`k8s/apps/auth-service.yaml:39`), the key
  ring reads `VAULT_ADDR` (`keys.py:111`): each replica then has a key of its own.
* The MFA attempt counter's key is the first 32 characters of a token, which are the
  same for every user (`routes_auth.py:162`): ten codes per window for all.
* A registration with a taken phone is a 500, not the "same unified 202 response"
  (`routes_auth.py:69`).
* PB-005 repeated after it succeeded deletes the cluster binding of the same name
  (`playbooks.py` 143-156). `ReportIsTrue` allows either.
* The services have no route for PB-002, PB-003 and PB-006, so no account is
  "auto-frozen by SOAR" (`docs/09_live_demo_runbook.md:150`); and nothing reads the
  `gw:deny:ip:*` that PB-001 writes.
* The dedupe key has neither binding nor offense id: two escalations in one namespace
  are one offense for five minutes.
* `is False` on `sismember` (`fraud-detection-service/worker.py:52`): redis-py (`redis>=5.0`)
  answers 0 or 1, so no destination is ever new and the feature is constant.
* The gateway decides by the path it received whether a token is needed
  (`api-gateway/routing.py:30`), and httpx removes dot segments from the one it sends
  (`main.py:110-117`): the two may name different handlers of one service. It matters to
  `mfa_enroll` (`routes_auth.py:230`), which reads `x-user-id` and verifies no token;
  `ServesTheSubject` speaks of it only where the gateway required one.
* The comment "caller must own the source account" (`routes_transfers.py:37`, and line 6 of
  `securebank_authz.rego`): neither the handler nor the policy compares an owner, and no
  property here says a transfer's source is the caller's.
* A token whose kid is missing or unknown is a `KeyError` in the gateway, and so a 500;
  a JWKS endpoint that is down likewise, there and in the services: `AuthenticateFails`
  and `VerifyFails` have them.
* `adversarial.py:19` says a drift above 0.2 means retraining; the verdict uses 0.25.
  `risk.py:5` says `amount > threshold`, the code `>=`.
* The `CHECK (balance >= 0)` of the SRD is not in the migration; `BalanceInRange`
  shows that the code alone keeps it.
* The browser draws a new idempotency key per submit (`app.js:497`) and refreshes
  concurrently (`app.js:447`): both are environment to the models.

## 8. Not modelled

* The frontend: rendering, a demo mode and a fetch wrapper. What it may send is less
  than what the free environments of the models send.
* The audit chain: one lock, no await inside it, a new chain per process; no
  interleaving reaches it. Audit lines that a property needs are kept as history by the
  module of the service.
* Deployment (manifests, Terraform, gatekeeper, kyverno, CI) and monitoring: configuration;
  the models take from them how many replicas there are and which secrets are set.
* The log anomaly endpoint, the isolation forest, the fallback's exponentials and the
  population stability index: numeric code without state; their results are free or given.
* `/review`'s regular expressions, `/explain` (the first half of `/triage`), the texts
  of narratives and notifications.
* The `slowapi` limits and the HIBP cache (libraries and an outside service),
  `revoke_all_for_user` and `SecureConsumer.run` (no caller), the policies
  `clark_wilson` and `bell_lapadula` (queried by no service).
* The memory-safety demo: a separate program.
