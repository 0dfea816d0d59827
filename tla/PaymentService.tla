---------------------------- MODULE PaymentService ----------------------------
(***************************************************************************)
(* The money-moving core of the gateway: ProcessPayment, ProcessRefund and *)
(* ProcessTopup of internal/service/payment_service.go, together with the  *)
(* tables and the Redis cache they work on.  Every service call is a       *)
(* process; one action is one round trip to PostgreSQL or Redis, because   *)
(* between two of them any other call may run.                             *)
(***************************************************************************)
EXTENDS Integers, FiniteSetsExt

CONSTANTS
    Requests,        \* service calls; a call's id also names the row it creates (its uuid)
    Inputs,          \* what callers ask for, a subset of Call
    Merchants,
    Currencies,
    Wallets,         \* the rows of table wallets, <<merchant, currency>>
    OpeningBalance,  \* their balances when the modelled window opens
    Refs,            \* reference ids stored in table transactions
    ClientRefs,      \* those that a client may send
    RefundRef,       \* ClientRefs -> Refs, "REFUND-" + reference
    TopupRef,        \* Requests -> Refs, the reference the clock gives a top-up
    Half,            \* 2^63: int64 ranges over -Half .. Half-1
    Faults,          \* which failures may happen in this instance
    None             \* nil

-----------------------------------------------------------------------------
(* Data types of internal/core/domain. *)

Ops == {"payment", "refund", "topup"}
Int64 == -Half .. (Half - 1)

\* Go's int64 addition wraps around.
Wrap(x) == ((x + Half) % (2 * Half)) - Half

Call == [op : Ops, merchant : Merchants, currency : Currencies,
         ref : ClientRefs, amount : Int64 \cup {None}]

TransactionType == {"PAYMENT", "REFUND", "TOPUP"}
TransactionStatus == {"PENDING", "SUCCESS", "FAILED", "REVERSED"}

Transaction == [id : Requests, type : TransactionType, merchant : Merchants,
                wallet : Wallets, ref : Refs, amount : Int64,
                status : TransactionStatus, orig : Requests \cup {None}]

Keys == Merchants \X {"payment", "refund"} \X ClientRefs

\* "m:ref" and "m:refund:ref"; a reference has no ':', so the two never meet.
BuildIdempotencyKey(m, ref) == <<m, "payment", ref>>

\* Slip: a refund is keyed like the payment it refunds.
SharedIdempotencyKey(m, ref) == <<m, "payment", ref>>
BuildRefundIdempotencyKey(m, ref) == <<m, "refund", ref>>

ErrorCodes == {"PAY_001", "PAY_002", "PAY_003", "PAY_004", "PAY_006",
               "PAY_007", "SYS_001", "SYS_003"}
Reply == [code : ErrorCodes \cup {"OK"}, txn : Transaction \cup {None}]
FaultKinds == {"cache", "db", "crypto", "commit", "crash"}

ASSUME ConstantsAssumption ==
    /\ Half \in Nat \ {0}
    /\ Wallets \subseteq Merchants \X Currencies
    /\ OpeningBalance \in [Wallets -> 0 .. (Half - 1)]
    /\ ClientRefs \subseteq Refs
    /\ RefundRef \in [ClientRefs -> Refs]
    /\ TopupRef \in [Requests -> Refs]
    /\ Faults \subseteq FaultKinds

ASSUME InputsAssumption ==
    /\ Inputs \subseteq Call
    /\ \A c \in Inputs : c.op # "refund" => c.amount # None

ASSUME NoneAssumption ==
    /\ None \notin Requests
    /\ None \notin Int64
    /\ None \notin Call
    /\ None \notin Transaction
    /\ None \notin Reply

-----------------------------------------------------------------------------
VARIABLES
    balance,     \* wallets.encrypted_balance, committed, decrypted
    txns,        \* table transactions: id -> row, committed
    idempLog,    \* table idempotency_logs: key -> response_json, committed
    cache,       \* Redis: key -> cached response
    walletLock,  \* SELECT ... FOR UPDATE: wallet -> the call holding its row
    pc,          \* call -> the next round trip it makes
    req,         \* call -> its arguments
    orig,        \* call -> origTx, as read outside the database transaction
    seen,        \* call -> currentBalance, as read under the row lock
    reply        \* call -> what it returned

vars == <<balance, txns, idempLog, cache, walletLock, pc, req, orig, seen, reply>>

InTx == {"persist", "commit"}
Working == {"cacheGet", "logGet", "find", "exists", "lock", "cacheSet",
            "return", "commitError"} \cup InTx
PCs == {"idle", "done", "dead"} \cup Working

Init ==
    /\ balance = OpeningBalance
    /\ txns = [r \in Requests |-> None]
    /\ idempLog = [k \in Keys |-> None]
    /\ cache = [k \in Keys |-> None]
    /\ walletLock = [w \in Wallets |-> None]
    /\ pc = [r \in Requests |-> "idle"]
    /\ req = [r \in Requests |-> None]
    /\ orig = [r \in Requests |-> None]
    /\ seen = [r \in Requests |-> 0]
    /\ reply = [r \in Requests |-> None]

-----------------------------------------------------------------------------
(* What a call computes from its arguments and from what it has read. *)

Op(r) == req[r].op

Key(r) == IF Op(r) = "refund"
            THEN BuildRefundIdempotencyKey(req[r].merchant, req[r].ref)
            ELSE BuildIdempotencyKey(req[r].merchant, req[r].ref)

\* A refund goes to the wallet of the original payment.
WalletOf(r) == IF Op(r) = "refund" THEN orig[r].wallet
                                   ELSE <<req[r].merchant, req[r].currency>>

\* A refund without an amount is a full refund.
AmountOf(r) == IF Op(r) = "refund" /\ req[r].amount = None
                 THEN orig[r].amount ELSE req[r].amount

\* Slip: a refund debits the wallet once more.
DebitedByRefund(r) == IF Op(r) = "topup" THEN Wrap(seen[r] + AmountOf(r))
                                         ELSE Wrap(seen[r] - AmountOf(r))
NewBalance(r) == IF Op(r) = "payment" THEN Wrap(seen[r] - AmountOf(r))
                                      ELSE Wrap(seen[r] + AmountOf(r))

TypeOf(r) == CASE Op(r) = "payment" -> "PAYMENT"
               [] Op(r) = "refund"  -> "REFUND"
               [] Op(r) = "topup"   -> "TOPUP"

ReferenceOf(r) == CASE Op(r) = "payment" -> req[r].ref
                    [] Op(r) = "refund"  -> RefundRef[req[r].ref]
                    [] Op(r) = "topup"   -> TopupRef[r]

NewTransaction(r) ==
    [id |-> r, type |-> TypeOf(r), merchant |-> req[r].merchant,
     wallet |-> WalletOf(r), ref |-> ReferenceOf(r), amount |-> AmountOf(r),
     status |-> "SUCCESS",
     orig |-> IF Op(r) = "refund" THEN orig[r].id ELSE None]

IsRefundable(t) == t.type = "PAYMENT" /\ t.status = "SUCCESS"

\* Rows that GetByReference may return: any type, in no order.
ByReference(m, ref) ==
    {id \in Requests : txns[id] # None /\ txns[id].merchant = m /\ txns[id].ref = ref}

\* Slip: the query compares the row's own id, and forgets the type.
RowExists(id) == \E s \in Requests : /\ txns[s] # None
                                     /\ txns[s].id = id
                                     /\ txns[s].status # "FAILED"
RefundExists(id) ==
    \E s \in Requests : /\ txns[s] # None
                        /\ txns[s].type = "REFUND"
                        /\ txns[s].orig = id
                        /\ txns[s].status # "FAILED"

\* Slip: the original is marked FAILED.
MarkedFailed(t) == [t EXCEPT !.status = "FAILED"]
\* UpdateStatus of the original payment.
Reversed(t) == [t EXCEPT !.status = "REVERSED"]

\* Slip: only payments are logged.
LogOfPaymentsOnly(r) == IF Op(r) # "payment" THEN idempLog
                        ELSE [idempLog EXCEPT ![Key(r)] = NewTransaction(r)]
\* The insert of the response under its key; top-ups have none.
LogWith(r) == IF Op(r) = "topup" THEN idempLog
              ELSE [idempLog EXCEPT ![Key(r)] = NewTransaction(r)]

\* Slip: the row is read again when it is cached, and may be REVERSED by then.
CachedRow(r) == txns[r]
\* Slip: the id of the transaction is cached in place of the response.
CachedId(r) == r
\* What is cached is the response that was logged.
CachedResponse(r) == NewTransaction(r)

\* Slip: the wallet is read without FOR UPDATE.
ReadUnlocked(w) == TRUE
\* FOR UPDATE waits while another transaction holds the row.
RowIsFree(w) == walletLock[w] = None

\* Slip: the balance is not compared with the amount.
FundsUnchecked(r, w) == FALSE
InsufficientFunds(r, w) == Op(r) = "payment" /\ balance[w] < AmountOf(r)

-----------------------------------------------------------------------------
(* Control. *)

Goto(r, label) == pc' = [pc EXCEPT ![r] = label]

\* Slip: the deferred Rollback is missing.
KeepLocks(rs) == walletLock
\* Deferred Rollback, and the end of the database session in a crash.
Unlocked(rs) == [w \in Wallets |-> IF walletLock[w] \in rs THEN None ELSE walletLock[w]]

\* Return: the locals die, the deferred Rollback ends the transaction.
Return(r, code, txn) ==
    /\ Goto(r, "done")
    /\ reply' = [reply EXCEPT ![r] = [code |-> code, txn |-> txn]]
    /\ orig' = [orig EXCEPT ![r] = None]
    /\ seen' = [seen EXCEPT ![r] = 0]
    /\ walletLock' = Unlocked({r})

Fail(r, code) == Return(r, code, None)

Receive(r, c) ==
    /\ pc[r] = "idle"
    /\ req' = [req EXCEPT ![r] = c]
    /\ IF c.op # "refund" /\ c.amount <= 0
         THEN Fail(r, "PAY_002")
         ELSE /\ Goto(r, IF c.op = "topup" THEN "lock" ELSE "cacheGet")
              /\ UNCHANGED <<orig, seen, reply, walletLock>>
    /\ UNCHANGED <<balance, txns, idempLog, cache>>

\* Layer 1.  A Redis error falls through to the database.
CacheGet(r) ==
    /\ pc[r] = "cacheGet"
    /\ \/ /\ cache[Key(r)] # None
          /\ Return(r, "OK", cache[Key(r)])
       \/ /\ cache[Key(r)] = None \/ "cache" \in Faults
          /\ Goto(r, "logGet")
          /\ UNCHANGED <<orig, seen, reply, walletLock>>
    /\ UNCHANGED <<balance, txns, idempLog, cache, req>>

\* Layer 2.
LogGet(r) ==
    /\ pc[r] = "logGet"
    /\ IF idempLog[Key(r)] # None
         THEN Return(r, "OK", idempLog[Key(r)])
         ELSE /\ Goto(r, IF Op(r) = "refund" THEN "find" ELSE "lock")
              /\ UNCHANGED <<orig, seen, reply, walletLock>>
    /\ UNCHANGED <<balance, txns, idempLog, cache, req>>

FindOriginal(r) ==
    /\ pc[r] = "find"
    /\ LET found == ByReference(req[r].merchant, req[r].ref)
       IN  \/ found = {} /\ Fail(r, "PAY_004")
           \/ \E id \in found :
                 IF IsRefundable(txns[id])
                   THEN /\ orig' = [orig EXCEPT ![r] = txns[id]]
                        /\ Goto(r, "exists")
                        /\ UNCHANGED <<seen, reply, walletLock>>
                   ELSE Fail(r, "PAY_006")
    /\ UNCHANGED <<balance, txns, idempLog, cache, req>>

CheckRefundExists(r) ==
    /\ pc[r] = "exists"
    /\ LET amount == req[r].amount
       IN  CASE RefundExists(orig[r].id) -> Fail(r, "PAY_003")
             [] ~RefundExists(orig[r].id) /\ amount # None /\ amount <= 0 ->
                  Fail(r, "PAY_002")
             [] ~RefundExists(orig[r].id) /\ amount # None /\ amount > orig[r].amount ->
                  Fail(r, "PAY_007")
             [] OTHER -> /\ Goto(r, "lock")
                         /\ UNCHANGED <<orig, seen, reply, walletLock>>
    /\ UNCHANGED <<balance, txns, idempLog, cache, req>>

\* SELECT ... FOR UPDATE waits for the holder, then reads the committed row.
LockWallet(r) ==
    /\ pc[r] = "lock"
    /\ LET w == WalletOf(r)
       IN  \/ w \notin Wallets /\ Fail(r, "PAY_004")
           \/ /\ w \in Wallets
              /\ RowIsFree(w)
              /\ IF InsufficientFunds(r, w)
                   THEN Fail(r, "PAY_001")
                   ELSE /\ walletLock' = [walletLock EXCEPT ![w] = r]
                        /\ seen' = [seen EXCEPT ![r] = balance[w]]
                        /\ Goto(r, "persist")
                        /\ UNCHANGED <<orig, reply>>
    /\ UNCHANGED <<balance, txns, idempLog, cache, req>>

\* Slip: idempotency_logs without its primary key.
KeyNeverTaken(k) == FALSE
\* idempotency_logs.key is the primary key.
KeyTaken(k) == idempLog[k] # None

\* An insert of a key that another transaction has inserted and not yet
\* committed waits for that transaction.
KeyPending(r) == \E s \in Requests \ {r} : /\ pc[s] = "commit"
                                           /\ Op(s) # "topup"
                                           /\ Key(s) = Key(r)

\* UpdateBalance, Create, UpdateStatus and the insert of the key, inside the
\* transaction; nobody else sees them before Commit.
Persist(r) ==
    /\ pc[r] = "persist"
    /\ \/ /\ Op(r) # "topup" /\ ~KeyPending(r) /\ KeyTaken(Key(r))
          /\ Fail(r, "SYS_001")
       \/ /\ Op(r) = "topup" \/ (~KeyPending(r) /\ ~KeyTaken(Key(r)))
          /\ Goto(r, "commit")
          /\ UNCHANGED <<orig, seen, reply, walletLock>>
    /\ UNCHANGED <<balance, txns, idempLog, cache, req>>

\* The rows of the transaction appear at once and its row locks go.  With a
\* "commit" fault the answer of a commit that took effect is lost.
Commit(r) ==
    /\ pc[r] = "commit"
    /\ balance' = [balance EXCEPT ![WalletOf(r)] = NewBalance(r)]
    /\ txns' = [id \in Requests |->
                  IF id = r THEN NewTransaction(r)
                  ELSE IF Op(r) = "refund" /\ id = orig[r].id
                         THEN Reversed(txns[id])
                         ELSE txns[id]]
    /\ idempLog' = LogWith(r)
    /\ walletLock' = Unlocked({r})
    /\ \/ Goto(r, IF Op(r) = "topup" THEN "return" ELSE "cacheSet")
       \/ "commit" \in Faults /\ Goto(r, "commitError")
    /\ UNCHANGED <<cache, req, orig, seen, reply>>

\* Best effort: a Redis error is logged and ignored.
CacheSet(r) ==
    /\ pc[r] = "cacheSet"
    /\ \/ cache' = [cache EXCEPT ![Key(r)] = CachedResponse(r)]
       \/ "cache" \in Faults /\ UNCHANGED cache
    /\ Return(r, "OK", NewTransaction(r))
    /\ UNCHANGED <<balance, txns, idempLog, req>>

ReturnTopup(r) ==
    /\ pc[r] = "return"
    /\ Return(r, "OK", NewTransaction(r))
    /\ UNCHANGED <<balance, txns, idempLog, cache, req>>

ReturnCommitError(r) ==
    /\ pc[r] = "commitError"
    /\ Fail(r, "SYS_001")
    /\ UNCHANGED <<balance, txns, idempLog, cache, req>>

\* A statement, or a commit, that fails without taking effect.
DatabaseError(r) ==
    /\ "db" \in Faults
    /\ pc[r] \in {"logGet", "find", "exists", "lock"} \cup InTx
    /\ Fail(r, "SYS_001")
    /\ UNCHANGED <<balance, txns, idempLog, cache, req>>

\* Decrypt fails as soon as the wallet was read and locked, before the funds are
\* compared, or Encrypt fails after that.
EncryptionFailure(r) ==
    /\ "crypto" \in Faults
    /\ \/ pc[r] = "lock" /\ WalletOf(r) \in Wallets /\ RowIsFree(WalletOf(r))
       \/ pc[r] = "persist"
    /\ Fail(r, "SYS_003")
    /\ UNCHANGED <<balance, txns, idempLog, cache, req>>

\* The process dies: its calls never answer, the database rolls back what
\* they had not committed.  Tables and Redis survive.
Crash ==
    /\ "crash" \in Faults
    /\ \E r \in Requests : pc[r] \in Working
    /\ LET gone == {r \in Requests : pc[r] \in Working}
       IN  /\ pc' = [r \in Requests |-> IF r \in gone THEN "dead" ELSE pc[r]]
           /\ orig' = [r \in Requests |-> IF r \in gone THEN None ELSE orig[r]]
           /\ seen' = [r \in Requests |-> IF r \in gone THEN 0 ELSE seen[r]]
           /\ walletLock' = Unlocked(gone)
    /\ UNCHANGED <<balance, txns, idempLog, cache, req, reply>>

\* The TTL of a cached response elapses.
CacheExpire(k) ==
    /\ cache[k] # None
    /\ cache' = [cache EXCEPT ![k] = None]
    /\ UNCHANGED <<balance, txns, idempLog, walletLock, pc, req, orig, seen, reply>>

\* Every call of the instance has ended.
Quiescent ==
    /\ \A r \in Requests : pc[r] \in {"done", "dead"}
    /\ UNCHANGED vars

-----------------------------------------------------------------------------
Step(r) ==
    \/ CacheGet(r)
    \/ LogGet(r)
    \/ FindOriginal(r)
    \/ CheckRefundExists(r)
    \/ LockWallet(r)
    \/ Persist(r)
    \/ Commit(r)
    \/ CacheSet(r)
    \/ ReturnTopup(r)
    \/ ReturnCommitError(r)

Next ==
    \/ \E r \in Requests, c \in Inputs : Receive(r, c)
    \/ \E r \in Requests : Step(r) \/ DatabaseError(r) \/ EncryptionFailure(r)
    \/ Crash
    \/ \E k \in Keys : CacheExpire(k)
    \/ Quiescent

Spec == Init /\ [][Next]_vars

\* A call that can go on does: its goroutine is scheduled, Redis and
\* PostgreSQL answer (or fail), and PostgreSQL grants a free row lock.
FairSpec == Spec /\ \A r \in Requests : WF_vars(Step(r))

-----------------------------------------------------------------------------
(* Correctness. *)

Rows == {id \in Requests : txns[id] # None}
OfType(type) == {id \in Rows : txns[id].type = type}

\* A row as it was when its transaction committed.
AsCreated(t) == [t EXCEPT !.status = "SUCCESS"]

\* The key under which a row's call stored its response.
KeyOfRow(t) == IF t.type = "REFUND"
                 THEN BuildRefundIdempotencyKey(t.merchant, txns[t.orig].ref)
                 ELSE BuildIdempotencyKey(t.merchant, t.ref)

Signed(t) == IF t.type = "PAYMENT" THEN -t.amount ELSE t.amount

\* What every row did to its wallet, and the rows of a wallet.
Amounts == [id \in Rows |-> txns[id].amount]
Effects == [id \in Rows |-> Signed(txns[id])]
BookedOn(w) == {id \in Rows : txns[id].wallet = w}

\* All that was ever put into a wallet: its opening balance and its top-ups.
ToppedUp(w) == {id \in BookedOn(w) : txns[id].type = "TOPUP"}
PutIn(w) == OpeningBalance[w] + SumFunctionOnSet(Amounts, ToppedUp(w))

TypeOK ==
    /\ balance \in [Wallets -> Int64]
    /\ txns \in [Requests -> Transaction \cup {None}]
    /\ idempLog \in [Keys -> Transaction \cup {None}]
    /\ cache \in [Keys -> Transaction \cup {None}]
    /\ walletLock \in [Wallets -> Requests \cup {None}]
    /\ pc \in [Requests -> PCs]
    /\ req \in [Requests -> Inputs \cup {None}]
    /\ orig \in [Requests -> Transaction \cup {None}]
    /\ seen \in [Requests -> Int64]
    /\ reply \in [Requests -> Reply \cup {None}]
    /\ \A r \in Requests : (req[r] = None) <=> (pc[r] = "idle")

\* However many calls carry the same reference, however they interleave, fail
\* and are retried, a merchant is charged once per reference.
ChargedOnce ==
    \A s, t \in OfType("PAYMENT") :
        txns[s].merchant = txns[t].merchant /\ txns[s].ref = txns[t].ref => s = t

\* A payment is refunded at most once, to the wallet that paid, never for more
\* than it took, and is REVERSED exactly when its refund exists, although the
\* refund looked at the payment before it took any lock.
RefundedOnce ==
    /\ \A s, t \in OfType("REFUND") : txns[s].orig = txns[t].orig => s = t
    /\ \A s \in OfType("REFUND") :
          LET o == txns[s].orig
          IN  /\ o \in OfType("PAYMENT")
              /\ txns[o].status = "REVERSED"
              /\ txns[s].wallet = txns[o].wallet
              /\ txns[s].amount \in 1 .. txns[o].amount
    /\ \A o \in Rows : txns[o].status = "REVERSED" =>
          \E s \in OfType("REFUND") : txns[s].orig = o

\* The idempotency log holds exactly the payments and refunds that committed,
\* each under its own key and as it was created: no orphan and no missing entry
\* whatever failed half-way.
LogMatchesRows ==
    /\ \A k \in Keys : idempLog[k] # None =>
          LET t == idempLog[k]
          IN  /\ t.id \in Rows
              /\ t = AsCreated(txns[t.id])
              /\ t.type # "TOPUP"
              /\ KeyOfRow(t) = k
    /\ \A id \in Rows : txns[id].type # "TOPUP" =>
          idempLog[KeyOfRow(txns[id])] = AsCreated(txns[id])

\* Redis never answers what the database would not: a cached response is the
\* one in the log, although it is written after the lock is gone and entries
\* expire at any time.
CacheMatchesLog == \A k \in Keys : cache[k] # None => cache[k] = idempLog[k]

\* A row lock is held by the call that is inside its transaction on that wallet
\* and by nobody else, and what the holder read is still the committed balance.
LockProtectsBalance ==
    /\ \A w \in Wallets : walletLock[w] # None =>
          /\ pc[walletLock[w]] \in InTx
          /\ WalletOf(walletLock[w]) = w
    /\ \A r \in Requests : pc[r] \in InTx =>
          /\ walletLock[WalletOf(r)] = r
          /\ seen[r] = balance[WalletOf(r)]

\* A call that answers OK answers with a committed row that is what was asked
\* for: same merchant, same operation and, but for top-ups, same key.
AnswersCommitted ==
    \A r \in Requests :
        reply[r] # None /\ reply[r].code = "OK" =>
            LET t == reply[r].txn
            IN  /\ t # None
                /\ t.id \in Rows
                /\ t = AsCreated(txns[t.id])
                /\ t.type = TypeOf(r)
                /\ t.merchant = req[r].merchant
                /\ IF t.type = "TOPUP" THEN t.id = r ELSE KeyOfRow(t) = Key(r)

\* A refusal is true when it is given, although what it rests on was read
\* without a lock: PAY_003 only when that payment has a refund, PAY_006 only when
\* the payment has been refunded or a refund or top-up carries the reference
\* (the lookup ignores the type), and no business error after money moved.
RefusalsAreTrue ==
    \A r \in Requests :
        reply[r] # None =>
            /\ reply[r].code = "PAY_003" =>
                  \E s \in OfType("REFUND") :
                     /\ txns[s].merchant = req[r].merchant
                     /\ txns[txns[s].orig].ref = req[r].ref
            /\ reply[r].code = "PAY_006" =>
                  \E id \in ByReference(req[r].merchant, req[r].ref) :
                     ~IsRefundable(txns[id])
            /\ reply[r].code \notin {"OK", "SYS_001"} => txns[r] = None

\* Every wallet holds its opening balance plus the top-ups and refunds and minus
\* the payments recorded on it (modulo int64): no update is ever lost.
BalanceIsLedgerSum ==
    \A w \in Wallets :
        balance[w] = Wrap(OpeningBalance[w] + SumFunctionOnSet(Effects, BookedOn(w)))

\* As long as what was put into a wallet fits int64, no interleaving of payments
\* overdraws it, and no interleaving of refunds gives back more than was paid.
BalanceWithinFunds ==
    \A w \in Wallets : PutIn(w) < Half => balance[w] \in 0 .. PutIn(w)

ChangeIsBooked ==
    \A w \in Wallets :
        \/ /\ balance'[w] = balance[w]
           /\ \A id \in Requests \ Rows : txns'[id] # None => txns'[id].wallet # w
        \/ \E id \in Requests \ Rows :
              /\ txns'[id] # None
              /\ txns'[id].wallet = w
              /\ balance'[w] = Wrap(balance[w] + Signed(txns'[id]))
              /\ txns'[id].type = "PAYMENT" =>
                    txns'[id].amount \in 1 .. balance[w] /\ balance'[w] >= 0
              /\ \A s \in Requests \ Rows : txns'[s] # None => s = id

\* A balance changes only by the amount of the one row that the same commit
\* adds, and a payment is taken only from funds that are there.
EveryChangeIsBooked == [][ChangeIsBooked]_vars

OnlyReversals ==
    /\ \A id \in Rows :
          \/ txns'[id] = txns[id]
          \/ /\ IsRefundable(txns[id])
             /\ txns'[id] = [txns[id] EXCEPT !.status = "REVERSED"]
    /\ \A k \in Keys : idempLog[k] # None => idempLog'[k] = idempLog[k]

\* Rows and log entries are never removed or rewritten: the only change to a
\* committed row is that a payment becomes REVERSED, once.
HistoryIsKept == [][OnlyReversals]_vars

\* The service implements the ledger: a commit books its row, a return answers,
\* and every other step (cache, log, locks, expiry, crash) is invisible.
ledger == INSTANCE Ledger WITH Ids <- Requests, Rows <- Transaction,
                               Opening <- OpeningBalance, entries <- txns, answer <- reply
ImplementsLedger == ledger!LSpec

\* "all idempotent requests should return success": a call whose reference has
\* been charged is given that result, not an internal error.
DuplicateReturnsPrevious ==
    \A r \in Requests :
        reply[r] # None /\ Op(r) = "payment" /\ KeyTaken(Key(r)) =>
            reply[r].code # "SYS_001"

\* Every call is answered, unless the process dies under it: nobody waits for
\* ever for a wallet row or for a pending key.
EveryCallReturns ==
    \A r \in Requests : (pc[r] # "idle") ~> (pc[r] \in {"done", "dead"})

-----------------------------------------------------------------------------
(* The inductive invariant: the properties above and what they rest on. *)

PreCommit == {"idle", "cacheGet", "logGet", "find", "exists", "lock"} \cup InTx
Applied == {"cacheSet", "return", "commitError"}

\* A committed row carries its own id, a positive amount and a status that its
\* type allows; a refund belongs to the merchant of its payment.
RowsWellFormed ==
    \A id \in Rows :
        /\ txns[id].id = id
        /\ txns[id].amount >= 1
        /\ txns[id].status \in {"SUCCESS", "REVERSED"}
        /\ txns[id].status = "REVERSED" => txns[id].type = "PAYMENT"
        /\ txns[id].type = "PAYMENT" => txns[id].ref \in ClientRefs
        /\ txns[id].type = "REFUND" =>
              /\ txns[id].orig \in OfType("PAYMENT")
              /\ txns[txns[id].orig].merchant = txns[id].merchant

\* The locals of a call that is under way: which arguments passed the checks.
ArgumentsChecked ==
    \A r \in Requests :
        /\ pc[r] \in Working /\ Op(r) # "refund" => req[r].amount >= 1
        /\ pc[r] \in {"cacheGet", "logGet", "cacheSet"} => Op(r) # "topup"
        /\ pc[r] = "return" => Op(r) = "topup"
        /\ pc[r] \in {"find", "exists"} => Op(r) = "refund"
        /\ pc[r] \in InTx \cup Applied => WalletOf(r) \in Wallets
        /\ pc[r] \in InTx /\ Op(r) = "payment" => AmountOf(r) <= seen[r]

\* The original that a refund has read is a payment of that merchant and
\* reference; only its status may have changed since.
OriginalFound ==
    \A r \in Requests :
        pc[r] \in {"exists", "lock"} \cup InTx \cup Applied /\ Op(r) = "refund" =>
            /\ orig[r] # None
            /\ orig[r].id \in OfType("PAYMENT")
            /\ orig[r] = AsCreated(txns[orig[r].id])
            /\ orig[r].merchant = req[r].merchant
            /\ orig[r].ref = req[r].ref
            /\ pc[r] # "exists" => AmountOf(r) \in 1 .. orig[r].amount

\* A call has a row exactly from its commit on, and the row is what it computed.
RowFollowsCall ==
    \A r \in Requests :
        /\ pc[r] \in PreCommit => txns[r] = None
        /\ pc[r] \in Applied => /\ txns[r] # None
                                /\ AsCreated(txns[r]) = NewTransaction(r)
        /\ pc[r] = "cacheSet" => idempLog[Key(r)] = NewTransaction(r)
        /\ reply[r] # None <=> pc[r] = "done"

\* A call that is about to commit is the only one with its key.
KeyReserved ==
    \A r \in Requests :
        pc[r] = "commit" /\ Op(r) # "topup" => ~KeyTaken(Key(r)) /\ ~KeyPending(r)

IInv ==
    /\ TypeOK
    /\ RowsWellFormed
    /\ ArgumentsChecked
    /\ OriginalFound
    /\ RowFollowsCall
    /\ KeyReserved
    /\ LockProtectsBalance
    /\ LogMatchesRows
    /\ RefundedOnce
    /\ CacheMatchesLog
    /\ AnswersCommitted

=============================================================================
