# Verification of the secure payment gateway

TLA+ models of the gateway's core, the TLC configurations that check them on
small instances, and TLAPS proofs of the results that matter most. Paths are
relative to the repository; line numbers of every modelled definition are in
`PROJECT.json` under `map`.

## 1. Inventory

The gateway is one Go process (any number of replicas may share the stores)
that serves HTTP with Gin, keeps its tables in PostgreSQL and short-lived state
in Redis. There is no in-memory state shared between requests: every interaction
between two requests goes through a table, a row lock or a Redis key.

| Component | State it keeps | Operations | Correct when |
|---|---|---|---|
| Payment service (`internal/service/payment_service.go`) | locals of a call | ProcessPayment, ProcessRefund, ProcessTopup | one charge per reference, one refund per payment, no overdraft, every change of a balance has its row, an answer is committed |
| Payment tables (`internal/adapter/storage/postgres/{wallet,transaction,idempotency}_repo.go`) | `wallets`, `transactions`, `idempotency_logs`, row locks | FOR UPDATE, UPDATE, INSERT, COMMIT, ROLLBACK | locks protect read-modify-write; the key is a primary key |
| Idempotency cache (`internal/adapter/storage/redis/idempotency_cache.go`) | key -> response, 24 h | Get, Set | never contradicts the log; losing it is harmless |
| Webhook delivery (`internal/service/webhook_service.go`) | a goroutine per event, `webhook_delivery_logs` | EnqueueWebhook, deliverWithRetries | log is truthful, acknowledged events are not sent again, a delivery settles |
| Merchant accounts (`internal/service/{auth,merchant}_service.go`) | `merchants`, `wallets` | Register, Login, UpdateWebhookURL, RotateKeys, GetProfile | unique names, answered registrations are complete, keys stay with their merchant |
| Request authentication (`internal/adapter/http/middleware/middleware.go`, `nonce_store.go`, `token_service.go`) | Redis nonces (120 s) | HMACAuth, JWTAuth | a signed request passes within its time window, and again only for the two reasons `SecondPassExplained` names |
| Rate limiting (`middleware/ratelimit.go`, `ratelimit_store.go`) | Redis counters | Allow | at most the limit per window while Redis works |
| Reporting (`reporting_service.go`, `dashboard_handler.go`) | none | GetDashboardStats, ListTransactions, GetWalletBalance | figures agree with the ledger |
| Audit log (`audit_service.go`, `middleware/audit.go`) | `audit_logs` | Log | only writes that had their effect are recorded |
| Cryptography (`encryption_service.go`, `hash_service.go`, `signature_service.go`) | none | pure functions | out of scope |
| Start-up, configuration, logging, health, Swagger | none | wiring | out of scope |

How they interact. A request first passes HMACAuth (payments, refunds) or
JWTAuth (top-ups, dashboard, merchant settings), or neither (registration,
login), then the rate limiter of its endpoint group, then a handler that
validates the body and calls one service. After a payment, refund or top-up
returned OK the handler calls `EnqueueWebhook`, which reads the merchant and
starts a goroutine; the audit middleware starts another one after a 2xx. The
payment service asks Redis first, then `idempotency_logs`, then opens one
database transaction, locks one wallet row, writes, commits, and writes Redis last.

What is hard here: two calls with one key both missing cache and log; refund
checks made before any lock; the encrypted balance as a read-modify-write; a
commit whose answer is lost; a process that dies between the commit and what
follows it; accounts written by statements that each commit alone; events that
live only in goroutines, keep what they read of the merchant and arrive in any
order; two clocks, whole seconds for timestamps and windows and Redis' own for
nonces and counters; a list read in two queries while rows commit. `hazards` in
`PROJECT.json` lists them at their lines.

## 2. Modules

| Module | Models | Kind |
|---|---|---|
| `Ledger` | what the payment service promises: entries booked at one instant, answers about booked entries | abstract specification |
| `PaymentService` | the three operations, their tables, locks and cache | component |
| `MCPaymentService` | workloads for TLC | instances |
| `PaymentServiceProofs` | theorems about `PaymentService` | proofs |
| `SumTheorems` | facts about sums over finite sets and about remainders | lemmas |
| `WebhookDelivery` | EnqueueWebhook and the delivery goroutine (TLC runs it directly) | component |
| `WebhookDeliveryProofs` | theorems about `WebhookDelivery` | proofs |
| `MerchantAccounts` | registration, login, URL update, key rotation | component |
| `MCMerchantAccounts` | instances for TLC | instances |
| `MerchantAccountsProofs` | theorems about `MerchantAccounts` | proofs |
| `RequestGuard` | HMACAuth, JWTAuth, nonce store, rate limiter, over a clock | component |
| `MCRequestGuard` | the requests for TLC | instances |
| `RequestGuardProofs` | theorems about `RequestGuard` | proofs |
| `Reporting` | statistics, balance and paged list; EXTENDS `PaymentService`, whose steps interleave with the walk | composition |
| `MCReporting` | workload and filters for TLC | instances |
| `ReportingProofs` | theorems about `Reporting` | proofs |
| `Gateway` | handlers of writes with webhooks and audit log; INSTANCEs `Ledger` and `WebhookDelivery` | composition |
| `MCGateway` | workload for TLC | instances |
| `GatewayProofs` | theorems about `Gateway` | proofs |

Definitions whose comment starts with "Slip:" are plausible mistakes in the
definition that follows them. They are used by no specification: replacing the
definition by its slip shows that a property notices the mistake (`mutants` in
`PROJECT.json` pairs them).

### PaymentService

One action is one round trip to PostgreSQL or Redis, since any other call may
run between two of them. `pc[r]` names the next one:
`cacheGet`, `logGet`, `find`, `exists`, `lock`, `persist`, `commit`, `cacheSet`
for a refund; a payment skips `find` and `exists`, a top-up starts at `lock`.

* `balance`, `txns`, `idempLog` are the committed tables. Writes made inside the
  transaction are invisible to others until COMMIT, so `Persist` only decides
  whether they succeed and `Commit` makes them appear together, including the
  original's REVERSED status and the log entry. A unique-index insert that meets
  an uncommitted duplicate waits for it (`KeyPending`, behaviour of PostgreSQL).
* `walletLock` is SELECT ... FOR UPDATE. `Return` releases it, as the deferred
  Rollback does on every path.
* `orig` and `seen` are the locals `origTx` and `currentBalance`: what a call has
  read and may be stale.
* Amounts and balances are integers of a given width (`Half` stands for 2^63) and
  additions wrap as Go's do. Encryption of a balance is a bijection that may fail
  (`EncryptionFailure`); signature, IP, timestamps and extra data are left out.
* Keys are tuples: references match `[a-zA-Z0-9_.-]+`, so `m:ref` and
  `m:refund:ref` never coincide. Generated references (`REFUND-`, `TOPUP-`) do
  live in the name space of client references, which `RefundRef` and `TopupRef` express.
* Faults: Redis unavailable, a statement or commit failing without effect, a
  commit that took effect and whose answer is lost, encryption failing, the
  process dying, a cache entry expiring.

The handlers already refuse amounts that are not positive; the service checks
again, and the instances exercise that check as the service's unit tests do.

Left out: the error path of `unmarshalCachedTransaction`. What it decodes is the
JSON that `json.Marshal` made of the same struct in `ProcessPayment` or
`ProcessRefund`; nothing else writes those keys and rows.

A refund looks its original up by merchant and reference, of whatever type
(docs/logic/CORE_TRANSACTION.md:74 has a filter on PAYMENT). A client reference that
equals a generated one may thus be refused with PAY_006; `RefusalsAreTrue` says that this and an
earlier refund are the only reasons, and `payments_live` has such a lookup.

With one wallet per merchant, which is all that Register creates, two calls with
one key lock the same row, so `KeyPending` never holds when it is asked: the row
lock has made the second call wait before. The proofs cover it for any wallets.

### WebhookDelivery

A delivery is a goroutine with its in-memory log record (`mem`), its row
(`row`, absent if the insert failed), the POSTs that arrived (`posts`) and
whether a 2xx was read (`acked`). A timeout is a failed attempt whose POST may
have arrived. `SaveRetry` is `persistLog` and the loop's decision to sleep and
post again or to give up. Payload, signature and the lengths of the intervals
are left out. A delivery makes `Retries + 1` attempts, six with the five intervals of the
code, and `LogTellsTheTruth` takes that number from the code. The documents say
five, which `webhook_attempts` refutes.

### MerchantAccounts

One action per statement, each of which commits by itself. A pair of keys is
named after the call that drew it. `Update` writes every column of the row the
call has read, which is what `merchantRepo.Update` does. A statement's answer may
be lost after it took effect. `RegistrationComplete` speaks of registrations that
were answered with keys. Others may leave a merchant without a wallet behind, whose
name is taken (auth_service.go:43 promises both): the two inserts are
two commits, and the property says only that nobody is told of success. A token is represented by the merchant it names.
HTML escaping of text fields by `dto.SanitizeStruct` is left out: a URL is a model value.

### RequestGuard

An attempt is one delivery of a request; a client or a proxy may deliver the
same one again. `pc[a]` names its next round trip: `lookup` (the merchant),
`nonce` (SET NX), `verify` (decrypt, read the body, compare), `incr`, `expire`.
Tokens and open routes enter at `incr`. Time is counted in ticks, `Second` of
them to a second: `Unix` truncates as the code does, Redis does not. `nonces`
and `counters` hold the expiry of each key. What the guards decide from is kept:
whole seconds on both sides of the drift, a TTL of twice the drift
(`TimeAssumption`), a nonce consumed before the signature is compared, errors of
Redis that let a request through, INCR and EXPIRE as two commands of which the
second may fail or never be sent. `sender` is the merchant, by which nonces are
kept; `caller` is what `extractIdentifier` returns, by which requests are
counted: the access key of the header if there is one (open routes and tokens do
not check it, and a merchant that rotates its keys is a new caller), else the
merchant of the token, else the address. `stored` and `granted` are histories.

What the nonce check does not promise. A request passes it again when Redis
fails the later attempt, at any time, and at the edge of the drift even if
nothing fails. `SecondPassExplained` says that there is no third way. Either way the
handler runs twice, against what the repository's README says (README.md:216);
`replay_at_edge` shows it without any fault. `WindowLimit` speaks of
requests that a working limiter admitted. Those that pass on a Redis error are
uncounted: the in-memory fallback of docs/logic/SECURITY_FLOW.md:63 does not exist.

The limiter counts in fixed windows; docs/logic/SECURITY_FLOW.md:48 calls it a sliding
window. Around a boundary two limits may pass, so `WindowLimit` speaks of one
window. One clock serves the process and Redis; skew between replicas, loss of Redis' data
and resending of commands by the Redis client (which could refuse a fresh nonce
after a lost answer) are left out.

### Reporting

`walk` is a client that reads a merchant's list from the first page to the last:
a count and a page per request, in no transaction, with commits in between.
`created` is created_at. It is read under the wallet's row lock, so rows
commit in its order, but two may share an instant and then have no order. The
queries of statistics and balance are single statements, hence operators;
`Stats` is an error when a sum does not fit the int64 it is scanned into.

### Gateway

A write from its handler to its last trace. `Book`, `Confirm` and `Reject` are
the service, as the abstract `Ledger` allows and `PaymentService` implements, for
one merchant; `Enqueue` is EnqueueWebhook with what it read of that merchant
(`event`); `Deliver` is a step of `WebhookDelivery` and records the POSTs the
endpoint sees (`sent`); `InsertAudit` is the goroutine of the audit middleware.

`ReadMerchant` and `UpdateMerchant` are the two statements of UpdateWebhookURL
and of RotateKeys. The first copies the row, the second writes all of it back
(`RowToWrite`), over whatever was written in between, so old pairs of URL and secret
come back. A secret is named by the call that drew it. `inForce` is the
history of the row since a call began. `InsertMerchant` and `InsertWallet` are
the two inserts of Register, `Login` is a login, both of users other than that
merchant, and `ServiceError` is any failure of these services without effect.
`MerchantAccounts` has the details of names, passwords and keys that the audit
log does not depend on.

## 3. Runs

| Run | Expect | Instance | Question |
|---|---|---|---|
| `payments` | pass | 4 calls, 1 merchant, int64 = -4..3, all faults | all safety properties and the refinement of `Ledger` |
| `payments_live` | pass | 3 calls, 2 merchants, 8 kinds of arguments, all faults, fair | are business errors true and free of side effects, is a wallet ever overdrawn or richer than its funds, does every call return |
| `duplicate_payment` | violation | 2 equal payments | is the loser of the race answered with the first result |
| `webhooks` | pass | 2 deliveries, 3 attempts, all faults, fair | is the log truthful, does a delivery settle |
| `webhook_lost` | violation | crash, fair | is every event posted |
| `webhook_attempts` | violation | 1 delivery, 5 intervals, no fault | are there at most five attempts |
| `merchants` | pass | 3 calls, 2 merchants, 3 names, all faults | unique names, complete registrations, own keys, earned tokens |
| `rotate_lost_update` | violation | 2 calls, no fault | does a URL update leave the keys alone |
| `guard` | pass | 2 attempts, 10 requests, 4 s of 2 ticks, drift 1 s, window 2 s, all faults | when can a request pass a second time, was a refused nonce used, is a window within its limit |
| `replay_at_edge` | violation | 1 request twice, no fault | is a request admitted once |
| `gateway` | pass | 3 calls (payment, refund, URL update, rotation, register, login), 2 attempts per event, database, cryptography and process failing | are events and audit entries true, do URL and secret of a POST belong together |
| `reporting` | pass | 3 calls, 2 merchants, int64 = -4..3, pages of 1 and 2 | do the figures explain the balance, does a walk miss a row |

Why the bounds are enough. Four calls on one key are a payment, its duplicate
and two competing refunds, or a payment, a refund, a duplicate and a top-up: every pair of
operations races, and a third call observes the result. The
width of int64 in `payments` is so small that the top-up workload overflows, so wrapping
takes part in every property of that run. `payments_live` has a width that nothing overflows,
which `BalanceWithinFunds` needs. Three attempts per delivery have a first, a
middle and a last one. Two accounts and three calls contain every race of two
calls on one account with a third call as witness. Calls are interchangeable,
so runs of safety properties use symmetry; runs with liveness do not.

In `guard`, four seconds with a drift of one let a timestamp pass from one second before it
to one after, and its nonce expire within the run; a limit of one and windows of two
seconds let a counter begin, be exceeded, expire and begin again. Three calls and pages of one and two give a walk a
first, a middle and a last page with commits between its queries; the width of int64 there is
such that the sum of the top-ups may not fit.
Three calls in `gateway` are a payment, its replay and its refund, or a payment whose event is
posted twice while a URL update and a rotation overlap in either order, or two registrations of one
name and a login. A top-up, which differs from a payment only in that it is
never replayed, and timeouts of deliveries, which `webhooks` has, are left out
of that instance.

Violation runs show where the code departs from what a document, a comment or a
test says; each has an entry under `findings`.

Fairness. `FairSpec` of `PaymentService` assumes weak fairness of each call's
next step: goroutines are scheduled, PostgreSQL and Redis answer or fail within
the context's life, and a free row lock is granted. `FairSpec` of
`WebhookDelivery` assumes the same of delivery goroutines; the HTTP client has a
10 s timeout and sleeps end. Nothing is assumed of arrivals, faults,
expiry or crashes.

## 4. Proofs

`PaymentServiceProofs` proves for any number of calls, merchants, wallets,
currencies and references, any width of int64 and any set of faults:

| Theorem | Statement |
|---|---|
| `Invariance` | `Spec => []IInv` |
| `TypeCorrect` | `Spec => []TypeOK` |
| `PaymentsChargedOnce` | `Spec => []ChargedOnce` |
| `PaymentsRefundedOnce` | `Spec => []RefundedOnce` |
| `LogIsComplete` | `Spec => []LogMatchesRows` |
| `CacheAgreesWithLog` | `Spec => []CacheMatchesLog` |
| `RefusalsHold` | `Spec => []RefusalsAreTrue` |
| `LocksProtectBalances` | `Spec => []LockProtectsBalance` |
| `AnswersAreCommitted` | `Spec => []AnswersCommitted` |
| `ChangesAreBooked` | `Spec => EveryChangeIsBooked` |
| `HistoryKept` | `Spec => HistoryIsKept` |
| `ServiceImplementsLedger` | `Spec => ImplementsLedger` |
| `BalancesAreSums` | `Spec => []BalanceIsLedgerSum` |
| `BalancesWithinFunds` | `Spec => []BalanceWithinFunds` |

Assumptions: `ConstantsAssumption` (the constants have their types),
`InputsAssumption` (only a refund may omit its amount, which is how the request
types are declared) and `NoneAssumption` (nil is none of the values it
is compared with). TLC evaluates all three in every run of `MCPaymentService`.

The argument. `ChargedOnce` and `RefundedOnce` are not inductive: both calls of
a race have passed every check. What stops the second one is the primary key, so the
invariant says that a call about to commit owns its key (`KeyReserved`) and that
the log is exactly the committed rows under their keys (`LogMatchesRows`);
a second row of one key would then overwrite a log entry. A refund acts on an
original read without a lock; `OriginalFound` says that only the status of that
row may have changed since, and `LogMatchesRows` with `KeyReserved` that no refund of it
exists at the commit, so by `RefundedOnce` it is not yet REVERSED.
`LockProtectsBalance` keeps the balance that was read equal to the committed
one until the commit, `ArgumentsChecked` that a payment fits into it, and
`RowFollowsCall` ties a call to the row it made, from which
`AnswersCommitted` follows. `IInv` is the conjunction; each conjunct has a lemma
named ...Step. The lemmas `TablesStep`, `RowsKept` and `StepCases` reduce the
fifteen actions to the few that matter to a conjunct.

*Sums.* `BalanceIsLedgerSum` and `BalanceWithinFunds` speak of sums over sets of rows, which
the library defines by recursion. `SumTheorems` proves what is needed of them
(a sum exists, is an integer, may be taken in any order, splits over disjoint
sets) with the argument of the smallest counterexample: a
statement that fails of some finite set fails of a smallest one, and removing an
element contradicts that. That rests on the library's well-founded orderings,
which have no operator parameter. `FinitelyMany` says that only finitely many rows have
committed, since a step adds at most one; the set of calls itself may be
infinite. `WrapAdd` says that wrapping once at the end is wrapping after every addition.
tests/integration/concurrency_test.go:266 says that a "balance must never go negative". It does
when a top-up leaves the range of int64 (payment_service.go:379 adds without a bound, and the run
`payments` wraps). `BalanceWithinFunds` is what holds of the claim: as
long as opening balance and top-ups together fit int64, a balance is neither negative nor
more than they are. It needs both ends at once: a refund is covered by the
payment it reverses, of which it is the only one (`RefundsCovered`, from `RefundedOnce`), so the
exact sum never exceeds the funds and does not wrap; and a payment fits the
balance, which is then the exact sum, so that stays non-negative
(`NotOverdrawn`).

The other components have a proof module each, built the same way, for any
number of calls, deliveries or attempts and any set of faults.

| Module | Theorem | Statement |
|---|---|---|
| `WebhookDeliveryProofs` | `DeliveryInvariance` | `Spec => []IInv` |
| | `DeliveryTypeCorrect` | `Spec => []TypeOK` |
| | `LogIsTruthful` | `Spec => []LogTellsTheTruth` |
| | `DeliveriesMoveForward` | `Spec => DeliveryMovesForward` |
| `MerchantAccountsProofs` | `AccountsInvariance` | `Spec => []IInv` |
| | `AccountsTypeCorrect` | `Spec => []TypeOK` |
| | `NamesAreUnique` | `Spec => []UsernamesUnique` |
| | `RegistrationsComplete` | `Spec => []RegistrationComplete` |
| | `KeysStayWithMerchant` | `Spec => []KeysBelongToMerchant` |
| | `TokensEarned` | `Spec => []TokensAreEarned` |
| `RequestGuardProofs` | `GuardInvariance` | `Spec => []IInv` |
| | `GuardTypeCorrect` | `Spec => []TypeOK` |
| | `LimitHolds` | `Spec => []WindowLimit` |
| | `RefusedNonceWasUsed` | `Spec => []NonceRefusalIsTrue` |
| | `SecondPassHasAReason` | `Spec => SecondPassExplained` |
| `GatewayProofs` | `GatewayInvariance` | `Spec => []IInv` |
| | `PostsTellOfBookings` | `Spec => []PostsAreBooked` |
| | `URLMatchesSecret` | `Spec => []URLAndSecretBelongTogether` |
| | `AuditIsTrue` | `Spec => []AuditTellsTheTruth` |
| | `GatewayImplementsLedger` | `Spec => ledger!LSpec` |
| | `GatewayImplementsDelivery` | `Spec => delivery!Spec` |
| | `GatewayLogIsTruthful` | `Spec => []delivery!LogTellsTheTruth` |
| | `GatewayDeliveriesMoveForward` | `Spec => delivery!DeliveryMovesForward` |
| `ReportingProofs` | `ReportingInvariance` | `RSpec => []RInv` |
| | `NoRowIsMissed` | `RSpec => []NothingMissed` |
| | `StatsAreExplained` | `RSpec => []StatsReconcile` |

*Deliveries*, for any number of retries. The row lags behind the goroutine's
record, so the truth of the row needs what the record says at each step
(`RecordFollowsStep`) and that a row is an earlier state of the record and final
only when the goroutine has ended (`RowIsEarlierRecord`). From these follow the
log's truthfulness and that an acknowledged event is not sent again. Assumptions:
`WebhookAssumption`, and nil is no record (`NoneAssumption`).

*Accounts.* The copy of a row that a call writes back whole may be stale in its
keys and its URL. `CopyIsOfRow` says it is still a copy of that merchant's row,
`KeysAreDrawn` that keys in rows and in copies were drawn by received
calls, so that freshly drawn ones are nobody's; together they keep keys with their merchant.
`RowFollowsCall` and the unique index keep names unique and registrations complete.
Assumptions: `AccountsAssumption` (the merchants that exist at the start have
distinct names) and `NoneAssumption`.

*Guards*, for any drift, window and length of a second in ticks. An attempt
that has come to the nonce check found its timestamp within the drift
(`AttemptFollowsStep`), and a nonce whose SET NX took effect, answered or not, is
kept for the TTL from then on (`NoncesAreKept`). So an attempt that finds it
gone comes a TTL later, and as the TTL is twice the drift, the first one came at the
early edge of the accepted seconds, which with the errors of Redis is
`SecondPassExplained`. A counter expires no earlier than a second after its window
(`CountersOutlastWindow`), and until then has counted every grant
(`GrantsAreCounted`), which bounds the grants by the limit. Assumptions:
`TimeAssumption` (its core is `NonceTTL = 2 * Drift`, as the constants of the
middleware say) and `MessagesAssumption` (types; a JWT always has an expiry).

*Gateway.* `CallOK` says of one call what its answer, its event, its delivery
and its audit goroutine have in common, and of a URL update or rotation that was answered
that its row was in force, `SentOK` that a POST carries the event
of its call, `Typed` what the variables hold. The steps of the ledger and of the deliveries are used
through what they promise: an entry changes nothing but its status, and a
delivery moves no step of another. The gateway implements both of its parts. For
the ledger this says little, as `Book`, `Confirm` and `Reject` are conjunctions with its own
actions. For the deliveries it needs an argument: with `url` read as
`hook # None`, a write of the merchant's row is `UpdateWebhookURL` when it adds or removes the URL,
be it by a rotation that writes an old one back, and a stutter otherwise,
a crash of the process is a crash of the deliveries only when some are under
way (`CrashOfDeliveries`, from `Typed`), and `Enqueue` and `Deliver` are the steps they name.
The theorems of `WebhookDeliveryProofs` are then instantiated and carry over. Both refinements were
checked with TLC on the instance of `gateway` first. Assumptions: `GatewayAssumption` (types, and
nil is no call, URL, entry, event or answer) and `DeliveryAssumption` (those of
`WebhookDelivery`, for the instance).

*Reporting*, for any number of rows, page size and filter. As the dashboard only
reads, the theorems of `PaymentService` carry over. The statistics split the
rows of a merchant's wallet into top-ups, refunds, payments that stand and payments that were
refunded (`WalletRows`), and the sums over the four parts (`SumOfParts`) are the figures. For the
list, `Rank` says that a row with an instant of its own stands behind exactly the
rows that are newer, whatever order the query gives to rows of one instant.
While nothing drops out of the list their number only grows, so a row that was not
shown is never above the next page (`NotPassed`); a short page, or the
last of as many pages as the rows counted need (`PagesRoundUp`), then leaves none
behind. Assumption: `ReportingAssumption` (types; wallets are in VND, the only
currency in which Register opens one; the default page size is within the
limit). That a row that commits gets the latest time is not needed.

Each `IInv`, and `RInv`, was checked with TLC on the instance of its component's run before it
was proved, and TLC evaluates every assumption in those runs.

Only model-checked: liveness (`EveryCallReturns`, `DeliverySettles`), which this
prover does not do, and the five violations, which are counterexamples.

## 5. Plan

Done: all components with state of their own are modelled, the two compositions
(`Reporting` over `PaymentService`, `Gateway` over `Ledger` and
`WebhookDelivery`) are checked, and every safety property that a passing run
checks is proved, as is that `Gateway` implements the parts it composes.

Left, in order of worth:

1. Clock skew between replicas in `RequestGuard`: each attempt with a clock of
   its own within a bound, and `SecondPassExplained` with that bound in its edge.
2. `RequestGuard` in front of `Gateway`. They share no state but the merchant's
   status, so the composition is expected to add little.

Not modelled, and not planned: cryptography (AES-GCM, Argon2id and HMAC are pure
functions of libraries; that they fail is modelled where a caller reacts to it),
validation and sanitising of single fields (no state: a body binds or it does
not), start-up, configuration, logging, health checks and Swagger (wiring and
I/O; the shutdown, which does not wait for goroutines, is a crash of
`WebhookDelivery`), response headers and wording, generated mocks.
