------------------------- MODULE PaymentServiceProofs -------------------------
(***************************************************************************)
(* Proofs about PaymentService, for any number of calls, merchants,        *)
(* wallets and references.  The argument: the primary key of               *)
(* idempotency_logs makes a call that is about to commit the only one with *)
(* its key (KeyReserved); a committed payment or refund owns its log entry *)
(* for good (LogMatchesRows); so a second charge, or a second refund of    *)
(* one payment, would need a key that is taken.  The row lock keeps what a *)
(* call has read of its wallet true until it commits (LockProtectsBalance).*)
(***************************************************************************)
EXTENDS PaymentService, SumTheorems, TLAPS

\* int64 arithmetic stays within int64.
LEMMA WrapRange == \A x \in Int : Wrap(x) \in Int64
  <1> SUFFICES ASSUME NEW x \in Int PROVE Wrap(x) \in Int64
    OBVIOUS
  <1>1. Half \in Nat /\ Half > 0
    BY ConstantsAssumption
  <1>2. (x + Half) % (2 * Half) \in 0 .. (2 * Half - 1)
    BY <1>1
  <1> QED
    BY <1>1, <1>2 DEF Wrap, Int64

\* int64 arithmetic is exact where nothing overflows.
LEMMA WrapIdentity == \A x \in Int64 : Wrap(x) = x
  <1> SUFFICES ASSUME NEW x \in Int64 PROVE Wrap(x) = x
    OBVIOUS
  <1>1. Half \in Nat /\ Half > 0
    BY ConstantsAssumption
  <1>2. x \in Int /\ x + Half \in 0 .. (2 * Half - 1)
    BY <1>1 DEF Int64
  <1>3. (x + Half) % (2 * Half) = x + Half
    BY <1>1, <1>2
  <1> QED
    BY <1>1, <1>2, <1>3 DEF Wrap

-----------------------------------------------------------------------------
\* A call that has been received has the arguments and the key of a call.
LEMMA CallTyped ==
  ASSUME TypeOK, NEW r \in Requests, pc[r] # "idle"
  PROVE  /\ req[r] \in Call
         /\ Op(r) \in Ops
         /\ Op(r) # "refund" => req[r].amount \in Int64
         /\ Key(r) \in Keys
  <1>1. req[r] \in Inputs
    BY DEF TypeOK
  <1>2. req[r] \in Call
    BY <1>1, InputsAssumption
  <1>3. Op(r) \in Ops /\ (Op(r) # "refund" => req[r].amount \in Int64)
    BY <1>1, <1>2, InputsAssumption DEF Call, Op
  <1>4. Key(r) \in Keys
    BY <1>2 DEF Call, Key, Keys, BuildIdempotencyKey, BuildRefundIdempotencyKey
  <1> QED
    BY <1>2, <1>3, <1>4

\* A refund that has found its original has a wallet and a positive amount.
LEMMA OriginalTyped ==
  ASSUME IInv, NEW r \in Requests,
         pc[r] \in {"exists", "lock"} \cup InTx \cup Applied, Op(r) = "refund"
  PROVE  /\ orig[r] \in Transaction
         /\ WalletOf(r) \in Wallets
         /\ pc[r] # "exists" => AmountOf(r) \in Int64 /\ AmountOf(r) >= 1
  <1>1. orig[r] \in Transaction
    BY DEF IInv, TypeOK, OriginalFound
  <1>2. orig[r].amount \in Int64 /\ WalletOf(r) \in Wallets
    BY <1>1 DEF Transaction, WalletOf
  <1>3. pc[r] # "exists" => AmountOf(r) \in 1 .. orig[r].amount
    BY DEF IInv, OriginalFound
  <1> QED
    BY <1>1, <1>2, <1>3, ConstantsAssumption DEF Int64

\* What a call inside its transaction, or past it, computes is a proper row, balance
\* and key.
LEMMA NewRowTyped ==
  ASSUME IInv, NEW r \in Requests, pc[r] \in InTx \cup Applied
  PROVE  /\ WalletOf(r) \in Wallets
         /\ AmountOf(r) \in Int64 /\ AmountOf(r) >= 1
         /\ NewTransaction(r) \in Transaction
         /\ NewBalance(r) \in Int64
         /\ Key(r) \in Keys
  <1>0. pc[r] # "idle" /\ pc[r] \in Working /\ TypeOK
    BY DEF InTx, Applied, Working, IInv
  <1>1. /\ req[r] \in Call /\ Op(r) \in Ops /\ Key(r) \in Keys
        /\ Op(r) # "refund" => req[r].amount \in Int64
    BY <1>0, CallTyped
  <1>2. WalletOf(r) \in Wallets
    BY DEF IInv, ArgumentsChecked
  <1>3. AmountOf(r) \in Int64 /\ AmountOf(r) >= 1
    <2>1. CASE Op(r) = "refund"
      BY <2>1, OriginalTyped DEF InTx, Applied
    <2>2. CASE Op(r) # "refund"
      BY <2>2, <1>0, <1>1 DEF IInv, ArgumentsChecked, AmountOf
    <2> QED
      BY <2>1, <2>2
  <1>4. ReferenceOf(r) \in Refs
    BY <1>1, ConstantsAssumption DEF ReferenceOf, Call, Ops
  <1>5. TypeOf(r) \in TransactionType
    BY <1>1 DEF TypeOf, Ops, TransactionType
  <1>6. (IF Op(r) = "refund" THEN orig[r].id ELSE None) \in Requests \cup {None}
    BY OriginalTyped DEF Transaction
  <1>7. req[r].merchant \in Merchants
    BY <1>1 DEF Call
  <1>8. NewTransaction(r) \in Transaction
    BY <1>2, <1>3, <1>4, <1>5, <1>6, <1>7 DEF NewTransaction, Transaction, TransactionStatus
  <1>9. NewBalance(r) \in Int64
    <2>1. seen[r] \in Int /\ AmountOf(r) \in Int
      BY <1>3, ConstantsAssumption DEF IInv, TypeOK, Int64
    <2> QED
      BY <2>1, WrapRange DEF NewBalance
  <1> QED
    BY <1>1, <1>2, <1>3, <1>8, <1>9

-----------------------------------------------------------------------------
\* Dropping row locks leaves a well-typed lock table.
LEMMA UnlockedTyped ==
  ASSUME TypeOK, NEW rs
  PROVE  Unlocked(rs) \in [Wallets -> Requests \cup {None}]
  BY DEF TypeOK, Unlocked

\* Returning from a call keeps the types of everything it touches.
LEMMA ReturnTyped ==
  ASSUME TypeOK, NEW r \in Requests, NEW code \in ErrorCodes \cup {"OK"},
         NEW txn \in Transaction \cup {None}, Return(r, code, txn)
  PROVE  /\ pc' \in [Requests -> PCs]
         /\ walletLock' \in [Wallets -> Requests \cup {None}]
         /\ orig' \in [Requests -> Transaction \cup {None}]
         /\ seen' \in [Requests -> Int64]
         /\ reply' \in [Requests -> Reply \cup {None}]
         /\ \A s \in Requests : pc'[s] = IF s = r THEN "done" ELSE pc[s]
  <1>1. 0 \in Int64
    BY ConstantsAssumption DEF Int64
  <1>2. [code |-> code, txn |-> txn] \in Reply
    BY DEF Reply
  <1> QED
    BY <1>1, <1>2, UnlockedTyped DEF TypeOK, Return, Goto, PCs

\* Returning an error keeps the types of everything it touches.
LEMMA FailTyped ==
  ASSUME TypeOK, NEW r \in Requests, NEW code \in ErrorCodes, Fail(r, code)
  PROVE  /\ pc' \in [Requests -> PCs]
         /\ walletLock' \in [Wallets -> Requests \cup {None}]
         /\ orig' \in [Requests -> Transaction \cup {None}]
         /\ seen' \in [Requests -> Int64]
         /\ reply' \in [Requests -> Reply \cup {None}]
         /\ \A s \in Requests : pc'[s] = IF s = r THEN "done" ELSE pc[s]
  <1>1. Return(r, code, None) /\ code \in ErrorCodes \cup {"OK"}
    BY DEF Fail
  <1> HIDE DEF Return
  <1> QED
    BY <1>1, ReturnTyped

\* Every step keeps the type invariant.
LEMMA TypeStep ==
  ASSUME IInv, [Next]_vars
  PROVE  TypeOK'
  <1>0. TypeOK
    BY DEF IInv
  <1>1. ASSUME NEW r \in Requests, NEW c \in Inputs, Receive(r, c)
        PROVE  TypeOK'
    <2>1. req' \in [Requests -> Inputs \cup {None}] /\ req'[r] # None
      BY <1>0, <1>1, InputsAssumption, NoneAssumption DEF Receive, TypeOK
    <2>2. CASE c.op # "refund" /\ c.amount <= 0
      BY <1>0, <1>1, <2>1, <2>2, FailTyped DEF Receive, TypeOK, ErrorCodes
    <2>3. CASE ~(c.op # "refund" /\ c.amount <= 0)
      BY <1>0, <1>1, <2>1, <2>3 DEF Receive, TypeOK, Goto, PCs, Working
    <2> QED
      BY <2>2, <2>3
  <1>2. ASSUME NEW r \in Requests, CacheGet(r)
        PROVE  TypeOK'
    <2>1. pc[r] # "idle" /\ Key(r) \in Keys
      BY <1>0, <1>2, CallTyped DEF CacheGet
    <2>2. CASE Return(r, "OK", cache[Key(r)])
      BY <1>0, <1>2, <2>1, <2>2, ReturnTyped DEF CacheGet, TypeOK
    <2>3. CASE Goto(r, "logGet") /\ UNCHANGED <<orig, seen, reply, walletLock>>
      BY <1>0, <1>2, <2>1, <2>3 DEF CacheGet, TypeOK, Goto, PCs, Working
    <2> QED
      BY <1>2, <2>2, <2>3 DEF CacheGet
  <1>3. ASSUME NEW r \in Requests, LogGet(r)
        PROVE  TypeOK'
    <2>1. pc[r] # "idle" /\ Key(r) \in Keys
      BY <1>0, <1>3, CallTyped DEF LogGet
    <2>2. CASE Return(r, "OK", idempLog[Key(r)])
      BY <1>0, <1>3, <2>1, <2>2, ReturnTyped DEF LogGet, TypeOK
    <2>3. CASE UNCHANGED <<orig, seen, reply, walletLock>> /\ idempLog[Key(r)] = None
      BY <1>0, <1>3, <2>1, <2>3 DEF LogGet, TypeOK, Goto, PCs, Working
    <2> QED
      BY <1>3, <2>2, <2>3 DEF LogGet
  <1>4. ASSUME NEW r \in Requests, FindOriginal(r)
        PROVE  TypeOK'
    <2>1. CASE Fail(r, "PAY_004") \/ Fail(r, "PAY_006")
      BY <1>0, <1>4, <2>1, FailTyped DEF FindOriginal, TypeOK, ErrorCodes
    <2>2. CASE \E id \in ByReference(req[r].merchant, req[r].ref) :
                  /\ orig' = [orig EXCEPT ![r] = txns[id]]
                  /\ Goto(r, "exists")
                  /\ UNCHANGED <<seen, reply, walletLock>>
      BY <1>0, <1>4, <2>2 DEF FindOriginal, TypeOK, ByReference, Goto, PCs, Working
    <2> QED
      BY <1>4, <2>1, <2>2 DEF FindOriginal
  <1>5. ASSUME NEW r \in Requests, CheckRefundExists(r)
        PROVE  TypeOK'
    <2>1. CASE Fail(r, "PAY_003") \/ Fail(r, "PAY_002") \/ Fail(r, "PAY_007")
      BY <1>0, <1>5, <2>1, FailTyped DEF CheckRefundExists, TypeOK, ErrorCodes
    <2>2. CASE Goto(r, "lock") /\ UNCHANGED <<orig, seen, reply, walletLock>>
      BY <1>0, <1>5, <2>2 DEF CheckRefundExists, TypeOK, Goto, PCs, Working
    <2> QED
      BY <1>5, <2>1, <2>2 DEF CheckRefundExists
  <1>6. ASSUME NEW r \in Requests, LockWallet(r)
        PROVE  TypeOK'
    <2>1. CASE Fail(r, "PAY_004") \/ Fail(r, "PAY_001")
      BY <1>0, <1>6, <2>1, FailTyped DEF LockWallet, TypeOK, ErrorCodes
    <2>2. CASE /\ WalletOf(r) \in Wallets
               /\ walletLock' = [walletLock EXCEPT ![WalletOf(r)] = r]
               /\ seen' = [seen EXCEPT ![r] = balance[WalletOf(r)]]
               /\ Goto(r, "persist")
               /\ UNCHANGED <<orig, reply>>
      BY <1>0, <1>6, <2>2 DEF LockWallet, TypeOK, Goto, PCs, Working, InTx
    <2> QED
      BY <1>6, <2>1, <2>2 DEF LockWallet
  <1>7. ASSUME NEW r \in Requests, Persist(r)
        PROVE  TypeOK'
    <2>1. CASE Fail(r, "SYS_001")
      BY <1>0, <1>7, <2>1, FailTyped DEF Persist, TypeOK, ErrorCodes
    <2>2. CASE Goto(r, "commit") /\ UNCHANGED <<orig, seen, reply, walletLock>>
      BY <1>0, <1>7, <2>2 DEF Persist, TypeOK, Goto, PCs, Working, InTx
    <2> QED
      BY <1>7, <2>1, <2>2 DEF Persist
  <1>8. ASSUME NEW r \in Requests, Commit(r)
        PROVE  TypeOK'
    <2>1. /\ WalletOf(r) \in Wallets /\ NewTransaction(r) \in Transaction
          /\ NewBalance(r) \in Int64 /\ Key(r) \in Keys
      BY <1>8, NewRowTyped DEF Commit, InTx
    <2>2. balance' \in [Wallets -> Int64]
      BY <1>0, <1>8, <2>1 DEF Commit, TypeOK
    <2>3. txns' \in [Requests -> Transaction \cup {None}]
      <3>1. ASSUME NEW id \in Requests, Op(r) = "refund", id = orig[r].id
            PROVE  Reversed(txns[id]) \in Transaction
        <4>1. txns[id] \in Transaction
          BY <1>0, <1>8, <3>1 DEF IInv, TypeOK, OriginalFound, Commit, InTx, OfType, Rows
        <4> QED
          BY <4>1 DEF Reversed, Transaction, TransactionStatus
      <3> QED
        BY <1>0, <1>8, <2>1, <3>1 DEF Commit, TypeOK
    <2>4. idempLog' \in [Keys -> Transaction \cup {None}]
      BY <1>0, <1>8, <2>1 DEF Commit, TypeOK, LogWith
    <2>5. /\ pc' \in [Requests -> PCs]
          /\ \A s \in Requests : (pc'[s] = "idle") <=> (pc[s] = "idle")
      BY <1>0, <1>8 DEF Commit, TypeOK, Goto, PCs, Working
    <2>6. walletLock' \in [Wallets -> Requests \cup {None}]
      BY <1>0, <1>8, UnlockedTyped DEF Commit
    <2> QED
      BY <1>0, <1>8, <2>2, <2>3, <2>4, <2>5, <2>6 DEF Commit, TypeOK
  <1>9. ASSUME NEW r \in Requests, CacheSet(r)
        PROVE  TypeOK'
    <2>1. NewTransaction(r) \in Transaction /\ Key(r) \in Keys
      BY <1>9, NewRowTyped DEF CacheSet, Applied
    <2>2. cache' \in [Keys -> Transaction \cup {None}]
      BY <1>0, <1>9, <2>1 DEF CacheSet, TypeOK, CachedResponse
    <2>3. Return(r, "OK", NewTransaction(r)) /\ pc[r] = "cacheSet"
      BY <1>9 DEF CacheSet
    <2> QED
      BY <1>0, <1>9, <2>1, <2>2, <2>3, ReturnTyped DEF CacheSet, TypeOK
  <1>10. ASSUME NEW r \in Requests, ReturnTopup(r)
         PROVE  TypeOK'
    <2>1. NewTransaction(r) \in Transaction
      BY <1>10, NewRowTyped DEF ReturnTopup, Applied
    <2> QED
      BY <1>0, <1>10, <2>1, ReturnTyped DEF ReturnTopup, TypeOK
  <1>11. ASSUME NEW r \in Requests,
                ReturnCommitError(r) \/ DatabaseError(r) \/ EncryptionFailure(r)
         PROVE  TypeOK'
    <2>1. /\ pc[r] # "idle"
          /\ Fail(r, "SYS_001") \/ Fail(r, "SYS_003")
          /\ UNCHANGED <<balance, txns, idempLog, cache, req>>
      BY <1>11 DEF ReturnCommitError, DatabaseError, EncryptionFailure, InTx
    <2> QED
      BY <1>0, <2>1, FailTyped DEF TypeOK, ErrorCodes
  <1>12. CASE Crash
    <2>1. 0 \in Int64
      BY ConstantsAssumption DEF Int64
    <2> QED
      BY <1>0, <1>12, <2>1, UnlockedTyped DEF Crash, TypeOK, PCs, Working, InTx
  <1>13. ASSUME NEW k \in Keys, CacheExpire(k)
         PROVE  TypeOK'
    BY <1>0, <1>13 DEF CacheExpire, TypeOK
  <1>14. CASE UNCHANGED vars
    BY <1>0, <1>14 DEF vars, TypeOK
  <1> QED
    BY <1>1, <1>2, <1>3, <1>4, <1>5, <1>6, <1>7, <1>8, <1>9, <1>10, <1>11, <1>12,
       <1>13, <1>14 DEF Next, Step, Quiescent

-----------------------------------------------------------------------------
TablesKept == balance' = balance /\ txns' = txns /\ idempLog' = idempLog

\* Only Commit changes the tables.
LEMMA TablesStep ==
  ASSUME [Next]_vars
  PROVE  TablesKept \/ \E r \in Requests : Commit(r)
  BY DEF Next, Step, Quiescent, vars, TablesKept, Receive, CacheGet, LogGet, FindOriginal,
         CheckRefundExists, LockWallet, Persist, CacheSet, ReturnTopup, ReturnCommitError,
         DatabaseError, EncryptionFailure, Crash, CacheExpire

\* A commit adds one row that was not there, reverses at most the refund's original,
\* and logs the row unless it is a top-up.
LEMMA CommitFacts ==
  ASSUME IInv, NEW r \in Requests, Commit(r)
  PROVE  /\ r \notin Rows
         /\ NewTransaction(r) \in Transaction
         /\ txns' = [id \in Requests |->
                       IF id = r THEN NewTransaction(r)
                       ELSE IF Op(r) = "refund" /\ id = orig[r].id
                              THEN Reversed(txns[id]) ELSE txns[id]]
         /\ Op(r) \in Ops
         /\ Key(r) \in Keys
         /\ Op(r) = "refund" =>
              /\ orig[r].id \in OfType("PAYMENT")
              /\ txns[orig[r].id].status = "SUCCESS"
              /\ orig[r] = txns[orig[r].id]
              /\ txns[orig[r].id].merchant = req[r].merchant
              /\ txns[orig[r].id].ref = req[r].ref
              /\ AmountOf(r) \in 1 .. txns[orig[r].id].amount
  <1>1. pc[r] = "commit" /\ TypeOK
    BY DEF Commit, IInv
  <1>2. NewTransaction(r) \in Transaction
    BY <1>1, NewRowTyped DEF InTx
  <1>3. r \notin Rows
    BY <1>1 DEF IInv, RowFollowsCall, PreCommit, InTx, Rows
  <1>4. Op(r) \in Ops /\ Key(r) \in Keys
    BY <1>1, CallTyped
  <1>5. ASSUME Op(r) = "refund"
        PROVE  /\ orig[r].id \in OfType("PAYMENT")
               /\ txns[orig[r].id].status = "SUCCESS"
               /\ orig[r] = txns[orig[r].id]
               /\ txns[orig[r].id].merchant = req[r].merchant
               /\ txns[orig[r].id].ref = req[r].ref
               /\ AmountOf(r) \in 1 .. txns[orig[r].id].amount
    <2> DEFINE o == orig[r].id
    <2>1. /\ o \in OfType("PAYMENT")
          /\ orig[r] = AsCreated(txns[o])
          /\ orig[r].merchant = req[r].merchant
          /\ orig[r].ref = req[r].ref
          /\ AmountOf(r) \in 1 .. orig[r].amount
      BY <1>1, <1>5 DEF IInv, OriginalFound, InTx
    <2>2. o \in Rows /\ txns[o] \in Transaction
      BY <1>1, <2>1 DEF OfType, Rows, TypeOK
    <2>3. /\ txns[o].merchant = req[r].merchant
          /\ txns[o].ref = req[r].ref
          /\ txns[o].amount = orig[r].amount
      BY <2>1, <2>2 DEF AsCreated, Transaction
    <2>4. txns[o].status # "REVERSED"
      <3>1. SUFFICES ASSUME txns[o].status = "REVERSED" PROVE FALSE
        OBVIOUS
      <3>2. PICK s \in OfType("REFUND") : txns[s].orig = o
        BY <2>2, <3>1 DEF IInv, RefundedOnce
      <3>3. s \in Rows /\ txns[s].type = "REFUND" /\ txns[s] \in Transaction
        BY <1>1, <3>2 DEF OfType, Rows, TypeOK
      <3>4. txns[s].merchant = txns[o].merchant
        BY <3>2, <3>3 DEF IInv, RowsWellFormed
      <3>5. KeyOfRow(txns[s]) = Key(r)
        BY <1>5, <2>3, <3>2, <3>3, <3>4 DEF KeyOfRow, Key
      <3>6. idempLog[Key(r)] = AsCreated(txns[s])
        BY <3>3, <3>5 DEF IInv, LogMatchesRows
      <3>7. AsCreated(txns[s]) \in Transaction
        BY <3>3 DEF AsCreated, Transaction, TransactionStatus
      <3>8. idempLog[Key(r)] = None
        BY <1>1, <1>5 DEF IInv, KeyReserved, KeyTaken
      <3> QED
        BY <3>6, <3>7, <3>8, NoneAssumption
    <2>5. txns[o].status = "SUCCESS"
      BY <2>2, <2>4 DEF IInv, RowsWellFormed
    <2>6. orig[r] = txns[o]
      BY <2>1, <2>2, <2>5 DEF AsCreated, Transaction
    <2> QED
      BY <2>1, <2>3, <2>5, <2>6
  <1> QED
    BY <1>2, <1>3, <1>4, <1>5 DEF Commit

\* A committed row stays, and nothing of it but its status ever changes.
LEMMA RowsKept ==
  ASSUME IInv, [Next]_vars, NEW id \in Rows
  PROVE  /\ id \in Rows'
         /\ txns[id] \in Transaction
         /\ txns'[id] = txns[id] \/ txns'[id] = Reversed(txns[id])
         /\ AsCreated(txns'[id]) = AsCreated(txns[id])
         /\ txns'[id].id = txns[id].id
         /\ txns'[id].type = txns[id].type
         /\ txns'[id].merchant = txns[id].merchant
         /\ txns'[id].wallet = txns[id].wallet
         /\ txns'[id].ref = txns[id].ref
         /\ txns'[id].amount = txns[id].amount
         /\ txns'[id].orig = txns[id].orig
  <1>1. id \in Requests /\ txns[id] \in Transaction
    BY DEF IInv, TypeOK, Rows
  <1>2. txns'[id] = txns[id] \/ txns'[id] = Reversed(txns[id])
    <2>1. CASE TablesKept
      BY <2>1 DEF TablesKept
    <2>2. CASE \E r \in Requests : Commit(r)
      BY <1>1, <2>2, CommitFacts
    <2> QED
      BY <2>1, <2>2, TablesStep
  <1>3. Reversed(txns[id]) \in Transaction
    BY <1>1 DEF Reversed, Transaction, TransactionStatus
  <1>4. id \in Rows'
    BY <1>1, <1>2, <1>3, NoneAssumption DEF Rows
  <1>5. AsCreated(Reversed(txns[id])) = AsCreated(txns[id])
    BY <1>1 DEF AsCreated, Reversed, Transaction
  <1>6. /\ Reversed(txns[id]).id = txns[id].id
        /\ Reversed(txns[id]).type = txns[id].type
        /\ Reversed(txns[id]).merchant = txns[id].merchant
        /\ Reversed(txns[id]).wallet = txns[id].wallet
        /\ Reversed(txns[id]).ref = txns[id].ref
        /\ Reversed(txns[id]).amount = txns[id].amount
        /\ Reversed(txns[id]).orig = txns[id].orig
    BY <1>1 DEF Reversed, Transaction
  <1> QED
    BY <1>1, <1>2, <1>4, <1>5, <1>6

\* Every step keeps the rows well-formed.
LEMMA RowsStep ==
  ASSUME IInv, [Next]_vars
  PROVE  RowsWellFormed'
  <1>1. CASE TablesKept
    BY <1>1 DEF TablesKept, IInv, RowsWellFormed, Rows, OfType
  <1>2. ASSUME NEW r \in Requests, Commit(r)
        PROVE  RowsWellFormed'
    <2>1. SUFFICES ASSUME NEW id \in Rows'
                   PROVE  /\ txns'[id].id = id
                          /\ txns'[id].amount >= 1
                          /\ txns'[id].status \in {"SUCCESS", "REVERSED"}
                          /\ txns'[id].status = "REVERSED" => txns'[id].type = "PAYMENT"
                          /\ txns'[id].type = "PAYMENT" => txns'[id].ref \in ClientRefs
                          /\ txns'[id].type = "REFUND" =>
                                /\ txns'[id].orig \in OfType("PAYMENT")'
                                /\ txns'[txns'[id].orig].merchant = txns'[id].merchant
      BY DEF RowsWellFormed
    <2>2. CASE id = r
      <3>1. txns'[r] = NewTransaction(r)
        BY <1>2, CommitFacts
      <3>2. AmountOf(r) >= 1
        BY <1>2, NewRowTyped DEF Commit, InTx
      <3>3. Op(r) \in Ops /\ req[r] \in Call
        BY <1>2, CallTyped DEF Commit, IInv
      <3>4. Op(r) = "payment" => req[r].ref \in ClientRefs
        BY <3>3 DEF Call
      <3>5. Op(r) = "refund" =>
              /\ orig[r].id \in OfType("PAYMENT")'
              /\ txns'[orig[r].id].merchant = req[r].merchant
        BY <1>2, CommitFacts, RowsKept DEF OfType, Rows
      <3> QED
        BY <2>2, <3>1, <3>2, <3>3, <3>4, <3>5 DEF NewTransaction, TypeOf, ReferenceOf, Ops
    <2>3. CASE id # r
      <3>1. id \in Rows
        BY <1>2, <2>1, <2>3, CommitFacts DEF Rows, IInv, OfType
      <3>2. txns[id].type = "REFUND" => txns[id].orig \in OfType("PAYMENT")'
        <4> SUFFICES ASSUME txns[id].type = "REFUND"
                     PROVE  txns[id].orig \in OfType("PAYMENT")'
          OBVIOUS
        <4>1. txns[id].orig \in OfType("PAYMENT")
          BY <3>1 DEF IInv, RowsWellFormed
        <4> QED
          BY <4>1, RowsKept DEF OfType
      <3>3. txns[id].type = "REFUND" =>
              txns'[txns[id].orig].merchant = txns[txns[id].orig].merchant
        BY <3>1, RowsKept DEF IInv, RowsWellFormed, OfType
      <3>4. txns'[id].status \in {"SUCCESS", "REVERSED"}
        <4>1. txns[id] \in Transaction /\ txns[id].status \in {"SUCCESS", "REVERSED"}
          BY <3>1, RowsKept DEF IInv, RowsWellFormed
        <4>2. Reversed(txns[id]).status = "REVERSED"
          BY <4>1 DEF Reversed, Transaction
        <4> QED
          BY <3>1, <4>1, <4>2, RowsKept
      <3>5. txns'[id].status = "REVERSED" => txns[id].type = "PAYMENT"
        <4>1. CASE txns'[id] = txns[id]
          BY <3>1, <4>1 DEF IInv, RowsWellFormed
        <4>2. CASE txns'[id] # txns[id]
          BY <1>2, <2>3, <3>1, <4>2, CommitFacts DEF OfType, Rows
        <4> QED
          BY <4>1, <4>2
      <3> QED
        BY <3>1, <3>2, <3>3, <3>4, <3>5, RowsKept DEF IInv, RowsWellFormed
    <2> QED
      BY <2>2, <2>3
  <1> QED
    BY <1>1, <1>2, TablesStep

\* A committed payment or refund owns the log entry of its key.
LEMMA CommittedKey ==
  ASSUME IInv, NEW id \in Rows, txns[id].type # "TOPUP"
  PROVE  /\ KeyOfRow(txns[id]) \in Keys
         /\ idempLog[KeyOfRow(txns[id])] = AsCreated(txns[id])
         /\ KeyTaken(KeyOfRow(txns[id]))
         /\ KeyOfRow(AsCreated(txns[id])) = KeyOfRow(txns[id])
  <1>1. txns[id] \in Transaction
    BY DEF IInv, TypeOK, Rows
  <1>2. txns[id].type = "REFUND" => txns[txns[id].orig] \in Transaction
    BY DEF IInv, RowsWellFormed, OfType, Rows, TypeOK
  <1>3. KeyOfRow(txns[id]) \in Keys
    <2>1. CASE txns[id].type = "REFUND"
      BY <1>1, <2>1 DEF IInv, RowsWellFormed, OfType, Transaction, KeyOfRow, Keys,
                        BuildRefundIdempotencyKey
    <2>2. CASE txns[id].type = "PAYMENT"
      BY <1>1, <2>2 DEF IInv, RowsWellFormed, Transaction, KeyOfRow, Keys, BuildIdempotencyKey
    <2> QED
      BY <1>1, <2>1, <2>2 DEF Transaction, TransactionType
  <1>4. idempLog[KeyOfRow(txns[id])] = AsCreated(txns[id])
    BY DEF IInv, LogMatchesRows
  <1>5. AsCreated(txns[id]) \in Transaction
    BY <1>1 DEF AsCreated, Transaction, TransactionStatus
  <1>6. KeyOfRow(AsCreated(txns[id])) = KeyOfRow(txns[id])
    BY <1>1 DEF KeyOfRow, AsCreated, Transaction
  <1> QED
    BY <1>3, <1>4, <1>5, <1>6, NoneAssumption DEF KeyTaken

\* The key of a committed row never changes.
LEMMA KeyKept ==
  ASSUME IInv, [Next]_vars, NEW id \in Rows, txns[id].type # "TOPUP"
  PROVE  /\ KeyOfRow(txns[id])' = KeyOfRow(txns[id])
         /\ KeyOfRow(AsCreated(txns[id]))' = KeyOfRow(txns[id])
  <1>1. txns[id].type = "REFUND" => txns[id].orig \in Rows
    BY DEF IInv, RowsWellFormed, OfType
  <1>2. txns[id].type = "REFUND" => txns'[txns[id].orig].ref = txns[txns[id].orig].ref
    BY <1>1, RowsKept
  <1>3. KeyOfRow(txns[id])' = KeyOfRow(txns[id])
    BY <1>2, RowsKept DEF KeyOfRow
  <1>4. AsCreated(txns'[id]) = AsCreated(txns[id]) /\ txns[id] \in Transaction
    BY RowsKept
  <1>5. KeyOfRow(AsCreated(txns[id]))' = KeyOfRow(txns[id])
    BY <1>2, <1>4 DEF KeyOfRow, AsCreated, Transaction
  <1> QED
    BY <1>3, <1>5

\* Every step keeps the log and the rows in agreement.
LEMMA LogStep ==
  ASSUME IInv, [Next]_vars
  PROVE  LogMatchesRows'
  <1>1. CASE TablesKept
    BY <1>1 DEF TablesKept, IInv, LogMatchesRows, Rows, KeyOfRow
  <1>2. ASSUME NEW r \in Requests, Commit(r)
        PROVE  LogMatchesRows'
    <2> DEFINE new == NewTransaction(r)
    <2>1. /\ r \notin Rows /\ r \in Rows' /\ txns'[r] = new /\ new \in Transaction
          /\ Op(r) \in Ops /\ Key(r) \in Keys
      BY <1>2, CommitFacts, NoneAssumption DEF Rows
    <2>2. /\ new.id = r /\ new.status = "SUCCESS" /\ AsCreated(new) = new
          /\ (new.type = "TOPUP") <=> (Op(r) = "topup")
      BY <2>1 DEF NewTransaction, AsCreated, TypeOf, Ops
    <2>3. Op(r) # "topup" => KeyOfRow(txns[r])' = Key(r)
      <3>1. CASE Op(r) = "payment"
        BY <2>1, <3>1 DEF KeyOfRow, Key, NewTransaction, TypeOf, ReferenceOf
      <3>2. CASE Op(r) = "refund"
        <4>1. txns'[orig[r].id].ref = req[r].ref
          BY <1>2, <3>2, CommitFacts, RowsKept DEF OfType
        <4> QED
          BY <2>1, <3>2, <4>1 DEF KeyOfRow, Key, NewTransaction, TypeOf
      <3> QED
        BY <2>1, <3>1, <3>2 DEF Ops
    <2>4. \A id \in Rows' : id = r \/ id \in Rows
      BY <1>2, CommitFacts, NoneAssumption DEF Rows, OfType
    <2>5. idempLog' = IF Op(r) = "topup" THEN idempLog
                      ELSE [idempLog EXCEPT ![Key(r)] = new]
      BY <1>2 DEF Commit, LogWith
    <2>6. Op(r) # "topup" => idempLog[Key(r)] = None
      BY <1>2 DEF IInv, KeyReserved, KeyTaken, Commit
    <2>7. ASSUME NEW k \in Keys, idempLog'[k] # None
          PROVE  /\ idempLog'[k].id \in Rows'
                 /\ idempLog'[k] = AsCreated(txns[idempLog[k].id])'
                 /\ idempLog'[k].type # "TOPUP"
                 /\ KeyOfRow(idempLog[k])' = k
      <3>1. CASE Op(r) # "topup" /\ k = Key(r)
        <4>1. idempLog'[k] = new
          BY <2>1, <2>5, <3>1 DEF IInv, TypeOK
        <4> QED
          BY <2>1, <2>2, <2>3, <3>1, <4>1 DEF KeyOfRow
      <3>2. CASE ~(Op(r) # "topup" /\ k = Key(r))
        <4>1. idempLog'[k] = idempLog[k] /\ idempLog[k] # None
          BY <2>5, <2>7, <3>2 DEF IInv, TypeOK
        <4>2. PICK id \in Rows : /\ id = idempLog[k].id
                                /\ idempLog[k] = AsCreated(txns[id])
                                /\ idempLog[k].type # "TOPUP"
                                /\ KeyOfRow(idempLog[k]) = k
          BY <4>1 DEF IInv, LogMatchesRows
        <4>3. txns[id] \in Transaction /\ txns[id].type = idempLog[k].type
          BY <4>2, RowsKept DEF AsCreated, Transaction
        <4>4. KeyOfRow(txns[id]) = k
          BY <4>2, <4>3, CommittedKey
        <4>5. AsCreated(txns'[id]) = idempLog'[k] /\ id \in Rows'
          BY <4>1, <4>2, RowsKept
        <4>6. KeyOfRow(AsCreated(txns[id]))' = k
          BY <4>2, <4>3, <4>4, KeyKept
        <4> QED
          BY <4>1, <4>2, <4>5, <4>6 DEF KeyOfRow
      <3> QED
        BY <3>1, <3>2
    <2>8. ASSUME NEW id \in Rows', txns'[id].type # "TOPUP"
          PROVE  idempLog'[KeyOfRow(txns[id])'] = AsCreated(txns'[id])
      <3>1. CASE id = r
        BY <2>1, <2>2, <2>3, <2>5, <2>8, <3>1 DEF IInv, TypeOK
      <3>2. CASE id # r
        <4>1. id \in Rows /\ txns[id].type # "TOPUP"
          BY <2>4, <2>8, <3>2, RowsKept
        <4> DEFINE k == KeyOfRow(txns[id])
        <4>2. /\ k \in Keys /\ idempLog[k] = AsCreated(txns[id]) /\ idempLog[k] # None
          BY <4>1, CommittedKey DEF KeyTaken
        <4>3. idempLog'[k] = idempLog[k]
          BY <2>5, <2>6, <4>2 DEF IInv, TypeOK
        <4> QED
          BY <4>1, <4>2, <4>3, KeyKept, RowsKept
      <3> QED
        BY <3>1, <3>2
    <2> QED
      BY <2>7, <2>8 DEF LogMatchesRows
  <1> QED
    BY <1>1, <1>2, TablesStep

\* Every step keeps refunds unique: a second refund of a payment would need the key
\* that the first one took.
LEMMA RefundStep ==
  ASSUME IInv, [Next]_vars
  PROVE  RefundedOnce'
  <1>1. CASE TablesKept
    BY <1>1 DEF TablesKept, IInv, RefundedOnce, Rows, OfType
  <1>2. ASSUME NEW r \in Requests, Commit(r)
        PROVE  RefundedOnce'
    <2>1. /\ r \notin Rows /\ r \in Rows' /\ txns'[r] = NewTransaction(r)
          /\ Op(r) \in Ops
      BY <1>2, CommitFacts, NoneAssumption DEF Rows
    <2>2. \A id \in Rows' : id = r \/ id \in Rows
      BY <1>2, CommitFacts, NoneAssumption DEF Rows, OfType
    <2>3. \A type \in TransactionType : \A id \in OfType(type)' : id = r \/ id \in OfType(type)
      BY <2>2, RowsKept DEF OfType
    <2>4. r \in OfType("REFUND")' <=> Op(r) = "refund"
      BY <2>1 DEF OfType, NewTransaction, TypeOf, Ops
    <2>5. \A id \in OfType("REFUND") : id \in OfType("REFUND")' /\ txns'[id].orig = txns[id].orig
      BY RowsKept DEF OfType
    <2>6. Op(r) = "refund" =>
            /\ txns'[r].orig = orig[r].id
            /\ orig[r].id \in OfType("PAYMENT")
            /\ txns[orig[r].id].status = "SUCCESS"
      BY <1>2, <2>1, CommitFacts DEF NewTransaction
    <2>7. Op(r) = "refund" => \A s \in OfType("REFUND") : txns[s].orig # orig[r].id
      BY <2>6 DEF IInv, RefundedOnce
    <2>8. \A s, t \in OfType("REFUND")' : txns'[s].orig = txns'[t].orig => s = t
      BY <2>3, <2>4, <2>5, <2>6, <2>7 DEF IInv, RefundedOnce, TransactionType
    <2>9. ASSUME NEW s \in OfType("REFUND")'
          PROVE  LET o == txns'[s].orig
                 IN  /\ o \in OfType("PAYMENT")'
                     /\ txns'[o].status = "REVERSED"
                     /\ txns'[s].wallet = txns'[o].wallet
                     /\ txns'[s].amount \in 1 .. txns'[o].amount
      <3>1. CASE s = r
        <4>1. Op(r) = "refund"
          BY <2>4, <2>9, <3>1
        <4> DEFINE o == orig[r].id
        <4>2. o \in OfType("PAYMENT") /\ o \in OfType("PAYMENT")' /\ o # r
          BY <2>1, <2>6, <4>1, RowsKept DEF OfType
        <4>3. txns[o] \in Transaction /\ txns'[o] = Reversed(txns[o])
          BY <1>2, <4>1, <4>2, CommitFacts, RowsKept DEF OfType, Rows
        <4>4. txns'[o].status = "REVERSED"
          BY <4>3 DEF Reversed, Transaction
        <4>5. txns'[r].wallet = txns[o].wallet /\ txns'[r].amount \in 1 .. txns[o].amount
          BY <1>2, <2>1, <4>1, CommitFacts DEF NewTransaction, WalletOf
        <4>6. txns'[o].wallet = txns[o].wallet /\ txns'[o].amount = txns[o].amount
          BY <4>2, RowsKept DEF OfType
        <4> QED
          BY <2>6, <3>1, <4>1, <4>2, <4>4, <4>5, <4>6
      <3>2. CASE s # r
        <4>1. s \in OfType("REFUND")
          BY <2>3, <3>2 DEF TransactionType
        <4> DEFINE o == txns[s].orig
        <4>2. /\ o \in OfType("PAYMENT")
              /\ txns[o].status = "REVERSED"
              /\ txns[s].wallet = txns[o].wallet
              /\ txns[s].amount \in 1 .. txns[o].amount
          BY <4>1 DEF IInv, RefundedOnce
        <4>3. /\ s \in Rows /\ o \in Rows
          BY <4>1, <4>2 DEF OfType
        <4>4. txns'[o].status = "REVERSED"
          BY <4>2, <4>3, RowsKept DEF Reversed, Transaction
        <4> QED
          BY <4>2, <4>3, <4>4, RowsKept DEF OfType
      <3> QED
        BY <3>1, <3>2
    <2>10. ASSUME NEW o \in Rows', txns'[o].status = "REVERSED"
           PROVE  \E s \in OfType("REFUND")' : txns'[s].orig = o
      <3>1. CASE o = r
        BY <2>1, <2>10, <3>1 DEF NewTransaction
      <3>2. CASE o # r /\ txns'[o] = txns[o]
        <4>1. PICK s \in OfType("REFUND") : txns[s].orig = o
          BY <2>2, <2>10, <3>2 DEF IInv, RefundedOnce
        <4> QED
          BY <2>5, <4>1
      <3>3. CASE o # r /\ txns'[o] # txns[o]
        <4>1. Op(r) = "refund" /\ o = orig[r].id
          BY <1>2, <3>3, CommitFacts DEF Rows
        <4> QED
          BY <2>4, <2>6, <4>1
      <3> QED
        BY <3>1, <3>2, <3>3
    <2> QED
      BY <2>8, <2>9, <2>10 DEF RefundedOnce
  <1> QED
    BY <1>1, <1>2, TablesStep

\* A log entry, once there, is never overwritten.
LEMMA LogKept ==
  ASSUME IInv, [Next]_vars, NEW k \in Keys, idempLog[k] # None
  PROVE  idempLog'[k] = idempLog[k]
  <1>1. CASE TablesKept
    BY <1>1 DEF TablesKept
  <1>2. ASSUME NEW r \in Requests, Commit(r)
        PROVE  idempLog'[k] = idempLog[k]
    BY <1>2 DEF IInv, TypeOK, KeyReserved, KeyTaken, Commit, LogWith
  <1> QED
    BY <1>1, <1>2, TablesStep

\* Every step keeps the cache in agreement with the log.
LEMMA CacheStep ==
  ASSUME IInv, [Next]_vars
  PROVE  CacheMatchesLog'
  <1>0. TypeOK /\ CacheMatchesLog
    BY DEF IInv
  <1>1. CASE UNCHANGED cache
    BY <1>0, <1>1, LogKept DEF CacheMatchesLog
  <1>2. ASSUME NEW r \in Requests, CacheSet(r)
        PROVE  CacheMatchesLog'
    <2>1. idempLog' = idempLog /\ pc[r] = "cacheSet" /\ Key(r) \in Keys
      BY <1>0, <1>2, CallTyped DEF CacheSet
    <2>2. idempLog[Key(r)] = NewTransaction(r)
      BY <2>1 DEF IInv, RowFollowsCall
    <2> QED
      BY <1>0, <1>2, <2>1, <2>2 DEF CacheSet, CachedResponse, CacheMatchesLog, TypeOK
  <1>3. ASSUME NEW k \in Keys, CacheExpire(k)
        PROVE  CacheMatchesLog'
    BY <1>0, <1>3 DEF CacheExpire, CacheMatchesLog, TypeOK
  <1> QED
    BY <1>1, <1>2, <1>3 DEF Next, Step, Quiescent, vars, Receive, CacheGet, LogGet,
         FindOriginal, CheckRefundExists, LockWallet, Persist, Commit, ReturnTopup,
         ReturnCommitError, DatabaseError, EncryptionFailure, Crash

-----------------------------------------------------------------------------
(* What a step does to the locals of the calls. *)

OnlyCall(r) ==
    \A s \in Requests \ {r} :
        /\ pc'[s] = pc[s] /\ req'[s] = req[s] /\ orig'[s] = orig[s]
        /\ seen'[s] = seen[s] /\ reply'[s] = reply[s]

Kept(r) == req'[r] = req[r] /\ orig'[r] = orig[r] /\ reply'[r] = reply[r]

Admitted(r) ==
    /\ pc[r] = "idle" /\ pc'[r] \in {"cacheGet", "lock"}
    /\ req'[r].op # "refund" => req'[r].amount >= 1
    /\ (pc'[r] = "lock") <=> (req'[r].op = "topup")
    /\ reply'[r] = reply[r] /\ walletLock' = walletLock /\ TablesKept

Missed(r) ==
    /\ pc[r] \in {"cacheGet", "logGet"}
    /\ \/ pc'[r] = "logGet"
       \/ pc'[r] = "find" /\ Op(r) = "refund"
       \/ pc'[r] = "lock" /\ Op(r) # "refund"
    /\ Kept(r) /\ walletLock' = walletLock /\ TablesKept

Found(r) ==
    /\ pc[r] = "find" /\ pc'[r] = "exists"
    /\ req'[r] = req[r] /\ reply'[r] = reply[r]
    /\ \E id \in ByReference(req[r].merchant, req[r].ref) :
          IsRefundable(txns[id]) /\ orig'[r] = txns[id]
    /\ walletLock' = walletLock /\ TablesKept

Checked(r) ==
    /\ pc[r] = "exists" /\ pc'[r] = "lock" /\ Kept(r)
    /\ req[r].amount # None => req[r].amount \in 1 .. orig[r].amount
    /\ walletLock' = walletLock /\ TablesKept

Locked(r) ==
    /\ pc[r] = "lock" /\ pc'[r] = "persist" /\ Kept(r)
    /\ WalletOf(r) \in Wallets
    /\ walletLock[WalletOf(r)] = None
    /\ walletLock' = [walletLock EXCEPT ![WalletOf(r)] = r]
    /\ seen'[r] = balance[WalletOf(r)]
    /\ Op(r) = "payment" => balance[WalletOf(r)] >= AmountOf(r)
    /\ TablesKept

Persisted(r) ==
    /\ pc[r] = "persist" /\ pc'[r] = "commit" /\ Kept(r) /\ seen'[r] = seen[r]
    /\ Op(r) = "topup" \/ (~KeyPending(r) /\ ~KeyTaken(Key(r)))
    /\ walletLock' = walletLock /\ TablesKept

Committed(r) ==
    /\ Commit(r)
    /\ pc'[r] \in Applied /\ (pc'[r] = "cacheSet" => Op(r) # "topup")
    /\ pc'[r] = "return" => Op(r) = "topup"
    /\ Kept(r) /\ walletLock' = Unlocked({r})

Ended(r) ==
    /\ pc'[r] = "done" /\ reply'[r] # None
    /\ walletLock' = Unlocked({r}) /\ TablesKept

\* Returning ends the one call that returns and nothing else.
LEMMA ReturnEnds ==
  ASSUME TypeOK, NEW r \in Requests, NEW code \in ErrorCodes \cup {"OK"},
         NEW txn \in Transaction \cup {None}, Return(r, code, txn), TablesKept,
         \A s \in Requests \ {r} : req'[s] = req[s]
  PROVE  OnlyCall(r) /\ Ended(r)
  <1>1. [code |-> code, txn |-> txn] # None
    BY NoneAssumption DEF Reply
  <1> QED
    BY <1>1 DEF TypeOK, Return, Goto, OnlyCall, Ended

\* Returning an error ends the one call that returns and nothing else.
LEMMA FailEnds ==
  ASSUME TypeOK, NEW r \in Requests, NEW code \in ErrorCodes, Fail(r, code), TablesKept,
         \A s \in Requests \ {r} : req'[s] = req[s]
  PROVE  OnlyCall(r) /\ Ended(r)
  <1>1. Return(r, code, None)
    BY DEF Fail
  <1> QED
    BY <1>1, ReturnEnds

CallMoves(r) ==
    /\ OnlyCall(r)
    /\ \/ Admitted(r) \/ Missed(r) \/ Found(r) \/ Checked(r) \/ Locked(r)
       \/ Persisted(r) \/ Committed(r) \/ Ended(r)

\* The steps of the service seen from its calls: nothing moves, the process dies, or
\* one call moves.
LEMMA StepCases ==
  ASSUME IInv, [Next]_vars
  PROVE  \/ UNCHANGED <<balance, txns, idempLog, walletLock, pc, req, orig, seen, reply>>
         \/ Crash
         \/ \E r \in Requests : CallMoves(r)
  <1>0. TypeOK
    BY DEF IInv
  <1>1. ASSUME NEW r \in Requests, NEW c \in Inputs, Receive(r, c)
        PROVE  CallMoves(r)
    <2>1. TablesKept /\ \A s \in Requests \ {r} : req'[s] = req[s]
      BY <1>0, <1>1 DEF Receive, TablesKept, TypeOK
    <2>2. CASE Fail(r, "PAY_002")
      BY <1>0, <2>1, <2>2, FailEnds DEF ErrorCodes, CallMoves
    <2>3. CASE ~(c.op # "refund" /\ c.amount <= 0)
      <3>1. c \in Call /\ (c.op # "refund" => c.amount \in Int64)
        BY InputsAssumption DEF Call
      <3>2. c.op # "refund" => c.amount >= 1
        BY <2>3, <3>1, ConstantsAssumption DEF Int64
      <3> QED
        BY <1>0, <1>1, <2>1, <2>3, <3>2
        DEF Receive, Goto, TypeOK, OnlyCall, Admitted, CallMoves
    <2> QED
      BY <1>1, <2>2, <2>3 DEF Receive
  <1>2. ASSUME NEW r \in Requests, CacheGet(r)
        PROVE  CallMoves(r)
    <2>1. pc[r] # "idle" /\ Key(r) \in Keys /\ TablesKept /\ req' = req
      BY <1>0, <1>2, CallTyped DEF CacheGet, TablesKept
    <2>2. CASE Return(r, "OK", cache[Key(r)])
      BY <1>0, <2>1, <2>2, ReturnEnds DEF TypeOK, CallMoves
    <2>3. CASE Goto(r, "logGet") /\ UNCHANGED <<orig, seen, reply, walletLock>>
      BY <1>0, <1>2, <2>1, <2>3 DEF CacheGet, TypeOK, Goto, OnlyCall, Missed, Kept, CallMoves
    <2> QED
      BY <1>2, <2>2, <2>3 DEF CacheGet
  <1>3. ASSUME NEW r \in Requests, LogGet(r)
        PROVE  CallMoves(r)
    <2>1. pc[r] # "idle" /\ Key(r) \in Keys /\ TablesKept /\ req' = req
      BY <1>0, <1>3, CallTyped DEF LogGet, TablesKept
    <2>2. CASE Return(r, "OK", idempLog[Key(r)])
      BY <1>0, <2>1, <2>2, ReturnEnds DEF TypeOK, CallMoves
    <2>3. CASE UNCHANGED <<orig, seen, reply, walletLock>> /\ idempLog[Key(r)] = None
      BY <1>0, <1>3, <2>1, <2>3 DEF LogGet, TypeOK, Goto, OnlyCall, Missed, Kept, CallMoves
    <2> QED
      BY <1>3, <2>2, <2>3 DEF LogGet
  <1>4. ASSUME NEW r \in Requests, FindOriginal(r)
        PROVE  CallMoves(r)
    <2>1. TablesKept /\ req' = req
      BY <1>4 DEF FindOriginal, TablesKept
    <2>2. CASE Fail(r, "PAY_004") \/ Fail(r, "PAY_006")
      BY <1>0, <2>1, <2>2, FailEnds DEF ErrorCodes, CallMoves
    <2>3. CASE \E id \in ByReference(req[r].merchant, req[r].ref) :
                  /\ IsRefundable(txns[id])
                  /\ orig' = [orig EXCEPT ![r] = txns[id]]
                  /\ Goto(r, "exists")
                  /\ UNCHANGED <<seen, reply, walletLock>>
      BY <1>0, <1>4, <2>1, <2>3
      DEF FindOriginal, TypeOK, Goto, OnlyCall, Found, CallMoves
    <2> QED
      BY <1>4, <2>2, <2>3 DEF FindOriginal
  <1>5. ASSUME NEW r \in Requests, CheckRefundExists(r)
        PROVE  CallMoves(r)
    <2>1. TablesKept /\ req' = req /\ pc[r] = "exists"
      BY <1>5 DEF CheckRefundExists, TablesKept
    <2>2. CASE Fail(r, "PAY_003") \/ Fail(r, "PAY_002") \/ Fail(r, "PAY_007")
      BY <1>0, <2>1, <2>2, FailEnds DEF ErrorCodes, CallMoves
    <2>3. CASE /\ ~(req[r].amount # None /\ req[r].amount <= 0)
               /\ ~(req[r].amount # None /\ req[r].amount > orig[r].amount)
               /\ Goto(r, "lock") /\ UNCHANGED <<orig, seen, reply, walletLock>>
      <3>1. Op(r) = "refund"
        BY <2>1 DEF IInv, ArgumentsChecked
      <3>2. orig[r].amount \in Int64
        BY <2>1, <3>1, OriginalTyped DEF Transaction
      <3>3. req[r].amount # None => req[r].amount \in Int64
        BY <1>0, <2>1, CallTyped DEF Call
      <3>4. req[r].amount # None => req[r].amount \in 1 .. orig[r].amount
        BY <2>3, <3>2, <3>3, ConstantsAssumption DEF Int64
      <3> QED
        BY <1>0, <2>1, <2>3, <3>4 DEF TypeOK, Goto, OnlyCall, Checked, Kept, CallMoves
    <2> QED
      BY <1>5, <2>2, <2>3 DEF CheckRefundExists
  <1>6. ASSUME NEW r \in Requests, LockWallet(r)
        PROVE  CallMoves(r)
    <2>1. TablesKept /\ req' = req /\ pc[r] = "lock"
      BY <1>6 DEF LockWallet, TablesKept
    <2>2. CASE Fail(r, "PAY_004") \/ Fail(r, "PAY_001")
      BY <1>0, <2>1, <2>2, FailEnds DEF ErrorCodes, CallMoves
    <2>3. CASE /\ WalletOf(r) \in Wallets
               /\ walletLock[WalletOf(r)] = None
               /\ ~InsufficientFunds(r, WalletOf(r))
               /\ walletLock' = [walletLock EXCEPT ![WalletOf(r)] = r]
               /\ seen' = [seen EXCEPT ![r] = balance[WalletOf(r)]]
               /\ Goto(r, "persist")
               /\ UNCHANGED <<orig, reply>>
      <3>1. Op(r) = "payment" => AmountOf(r) \in Int64
        BY <1>0, <2>1, CallTyped DEF AmountOf
      <3>2. Op(r) = "payment" => balance[WalletOf(r)] >= AmountOf(r)
        BY <1>0, <2>3, <3>1, ConstantsAssumption DEF TypeOK, Int64, InsufficientFunds
      <3> QED
        BY <1>0, <2>1, <2>3, <3>2 DEF TypeOK, Goto, OnlyCall, Locked, Kept, CallMoves
    <2> QED
      BY <1>6, <2>2, <2>3 DEF LockWallet, RowIsFree
  <1>7. ASSUME NEW r \in Requests, Persist(r)
        PROVE  CallMoves(r)
    <2>1. TablesKept /\ req' = req /\ pc[r] = "persist"
      BY <1>7 DEF Persist, TablesKept
    <2>2. CASE Fail(r, "SYS_001")
      BY <1>0, <2>1, <2>2, FailEnds DEF ErrorCodes, CallMoves
    <2>3. CASE /\ Op(r) = "topup" \/ (~KeyPending(r) /\ ~KeyTaken(Key(r)))
               /\ Goto(r, "commit") /\ UNCHANGED <<orig, seen, reply, walletLock>>
      BY <1>0, <2>1, <2>3 DEF TypeOK, Goto, OnlyCall, Persisted, Kept, CallMoves
    <2> QED
      BY <1>7, <2>2, <2>3 DEF Persist
  <1>8. ASSUME NEW r \in Requests, Commit(r)
        PROVE  CallMoves(r)
    BY <1>0, <1>8 DEF Commit, TypeOK, Goto, OnlyCall, Committed, Kept, Applied, CallMoves
  <1>9. ASSUME NEW r \in Requests, CacheSet(r) \/ ReturnTopup(r)
        PROVE  CallMoves(r)
    <2>1. /\ Return(r, "OK", NewTransaction(r)) /\ TablesKept /\ req' = req
          /\ pc[r] \in InTx \cup Applied
      BY <1>9 DEF CacheSet, ReturnTopup, TablesKept, Applied
    <2>2. NewTransaction(r) \in Transaction
      BY <2>1, NewRowTyped
    <2> QED
      BY <1>0, <2>1, <2>2, ReturnEnds DEF CallMoves
  <1>10. ASSUME NEW r \in Requests,
                ReturnCommitError(r) \/ DatabaseError(r) \/ EncryptionFailure(r)
         PROVE  CallMoves(r)
    <2>1. /\ Fail(r, "SYS_001") \/ Fail(r, "SYS_003")
          /\ TablesKept /\ req' = req
      BY <1>10 DEF ReturnCommitError, DatabaseError, EncryptionFailure, TablesKept
    <2> QED
      BY <1>0, <2>1, FailEnds DEF ErrorCodes, CallMoves
  <1> QED
    BY <1>1, <1>2, <1>3, <1>4, <1>5, <1>6, <1>7, <1>8, <1>9, <1>10
    DEF Next, Step, Quiescent, vars, CacheExpire

\* What a call computes depends on its own locals only.
LEMMA SameCall ==
  ASSUME NEW s \in Requests, req'[s] = req[s], orig'[s] = orig[s]
  PROVE  /\ Op(s)' = Op(s) /\ Key(s)' = Key(s) /\ WalletOf(s)' = WalletOf(s)
         /\ AmountOf(s)' = AmountOf(s) /\ NewTransaction(s)' = NewTransaction(s)
         /\ TypeOf(s)' = TypeOf(s)
  BY DEF Op, Key, WalletOf, AmountOf, NewTransaction, TypeOf, ReferenceOf

\* A crash ends the working calls, drops their locks and leaves the tables alone.
LEMMA CrashFacts ==
  ASSUME TypeOK, Crash
  PROVE  /\ TablesKept /\ req' = req /\ reply' = reply
         /\ \A s \in Requests :
               \/ pc'[s] = "dead" /\ pc[s] \in Working
               \/ pc'[s] = pc[s] /\ pc[s] \notin Working /\ orig'[s] = orig[s]
         /\ walletLock' = Unlocked({r \in Requests : pc[r] \in Working})
  BY DEF Crash, TablesKept, TypeOK

\* Every step keeps the locals of the calls checked.
LEMMA ArgumentsStep ==
  ASSUME IInv, [Next]_vars
  PROVE  ArgumentsChecked'
  <1>0. TypeOK /\ ArgumentsChecked
    BY DEF IInv
  <1>1. CASE UNCHANGED <<balance, txns, idempLog, walletLock, pc, req, orig, seen, reply>>
    BY <1>0, <1>1 DEF ArgumentsChecked, Op, WalletOf, AmountOf
  <1>2. CASE Crash
    BY <1>0, <1>2, CrashFacts DEF ArgumentsChecked, Op, WalletOf, AmountOf, Working, InTx, Applied
  <1>3. ASSUME NEW r \in Requests, CallMoves(r)
        PROVE  ArgumentsChecked'
    <2> SUFFICES ASSUME NEW s \in Requests
                 PROVE  /\ pc'[s] \in Working /\ Op(s)' # "refund" => req'[s].amount >= 1
                        /\ pc'[s] \in {"cacheGet", "logGet", "cacheSet"} => Op(s)' # "topup"
                        /\ pc'[s] = "return" => Op(s)' = "topup"
                        /\ pc'[s] \in {"find", "exists"} => Op(s)' = "refund"
                        /\ pc'[s] \in InTx \cup Applied => WalletOf(s)' \in Wallets
                        /\ pc'[s] \in InTx /\ Op(s)' = "payment" => AmountOf(s)' <= seen'[s]
      BY DEF ArgumentsChecked
    <2>1. CASE s # r
      BY <1>0, <1>3, <2>1, SameCall DEF CallMoves, OnlyCall, ArgumentsChecked
    <2>2. CASE s = r
      <3>1. CASE Admitted(r)
        BY <2>2, <3>1 DEF Admitted, Op, InTx, Applied
      <3>2. CASE Missed(r) \/ Checked(r) \/ Found(r)
        <4>1. /\ req'[r] = req[r] /\ Op(r)' = Op(r)
              /\ pc[r] \in Working
              /\ pc'[r] \in {"logGet", "lock", "find", "exists"}
              /\ pc'[r] \in {"find", "exists"} => Op(r) = "refund"
              /\ pc'[r] = "logGet" => Op(r) # "topup"
          BY <1>0, <3>2 DEF Missed, Checked, Found, Kept, Op, ArgumentsChecked, Working
        <4> QED
          BY <1>0, <2>2, <4>1 DEF ArgumentsChecked, InTx, Applied
      <3>3. CASE Locked(r)
        <4>1. Op(r) = "payment" => AmountOf(r) \in Int64 /\ AmountOf(r) <= balance[WalletOf(r)]
          BY <1>0, <3>3, CallTyped, ConstantsAssumption DEF Locked, AmountOf, TypeOK, Int64
        <4> QED
          BY <1>0, <2>2, <3>3, <4>1, SameCall
          DEF Locked, Kept, ArgumentsChecked, Working, InTx, Applied
      <3>4. CASE Persisted(r)
        BY <1>0, <2>2, <3>4, SameCall
        DEF Persisted, Kept, ArgumentsChecked, Working, InTx, Applied
      <3>5. CASE Committed(r)
        BY <1>0, <2>2, <3>5, SameCall
        DEF Committed, Commit, Kept, ArgumentsChecked, Working, InTx, Applied
      <3>6. CASE Ended(r)
        BY <2>2, <3>6 DEF Ended, Working, InTx, Applied
      <3> QED
        BY <1>3, <3>1, <3>2, <3>3, <3>4, <3>5, <3>6 DEF CallMoves
    <2> QED
      BY <2>1, <2>2
  <1> QED
    BY <1>1, <1>2, <1>3, StepCases

\* Every step keeps what a refund has read of its original true but for the status.
LEMMA OriginalStep ==
  ASSUME IInv, [Next]_vars
  PROVE  OriginalFound'
  <1>0. TypeOK /\ OriginalFound
    BY DEF IInv
  <1>1. CASE UNCHANGED <<balance, txns, idempLog, walletLock, pc, req, orig, seen, reply>>
    BY <1>0, <1>1 DEF OriginalFound, Op, AmountOf, OfType, Rows
  <1>2. CASE Crash
    BY <1>0, <1>2, CrashFacts DEF OriginalFound, Op, Working, InTx, Applied
  <1>3. ASSUME NEW r \in Requests, CallMoves(r)
        PROVE  OriginalFound'
    <2> SUFFICES ASSUME NEW s \in Requests, Op(s)' = "refund",
                        pc'[s] \in {"exists", "lock"} \cup InTx \cup Applied
                 PROVE  /\ orig'[s] # None
                        /\ orig'[s].id \in OfType("PAYMENT")'
                        /\ orig'[s] = AsCreated(txns[orig[s].id])'
                        /\ orig'[s].merchant = req'[s].merchant
                        /\ orig'[s].ref = req'[s].ref
                        /\ pc'[s] # "exists" => AmountOf(s)' \in 1 .. orig'[s].amount
      BY DEF OriginalFound
    <2>1. ASSUME pc[s] \in {"exists", "lock"} \cup InTx \cup Applied, Op(s) = "refund",
                 orig'[s] = orig[s], req'[s] = req[s],
                 pc'[s] # "exists" => AmountOf(s) \in 1 .. orig[s].amount
          PROVE  /\ orig'[s] # None
                 /\ orig'[s].id \in OfType("PAYMENT")'
                 /\ orig'[s] = AsCreated(txns[orig[s].id])'
                 /\ orig'[s].merchant = req'[s].merchant
                 /\ orig'[s].ref = req'[s].ref
                 /\ pc'[s] # "exists" => AmountOf(s)' \in 1 .. orig'[s].amount
      <3>1. PICK o \in Rows : o = orig[s].id /\ txns[o].type = "PAYMENT"
        BY <1>0, <2>1 DEF OriginalFound, OfType
      <3>2. o \in OfType("PAYMENT")' /\ AsCreated(txns'[o]) = AsCreated(txns[o])
        BY <3>1, RowsKept DEF OfType
      <3>3. AsCreated(txns[orig[s].id])' = AsCreated(txns'[o])
        BY <2>1, <3>1 DEF AsCreated
      <3> QED
        BY <1>0, <2>1, <3>1, <3>2, <3>3, SameCall DEF OriginalFound
    <2>2. CASE s # r
      BY <1>0, <1>3, <2>1, <2>2, SameCall DEF CallMoves, OnlyCall, OriginalFound
    <2>3. CASE s = r
      <3>1. CASE Admitted(r) \/ Ended(r)
        BY <2>3, <3>1 DEF Admitted, Ended, Op, InTx, Applied
      <3>2. CASE Missed(r)
        BY <2>3, <3>2, SameCall DEF Missed, Kept, InTx, Applied
      <3>3. CASE Found(r)
        <4>1. PICK id \in ByReference(req[r].merchant, req[r].ref) :
                 IsRefundable(txns[id]) /\ orig'[r] = txns[id]
          BY <3>3 DEF Found
        <4>2. id \in Rows /\ txns[id].type = "PAYMENT" /\ txns[id].status = "SUCCESS"
              /\ txns[id] \in Transaction /\ txns[id].id = id /\ txns' = txns
          BY <1>0, <3>3, <4>1
          DEF ByReference, IsRefundable, Rows, TypeOK, IInv, RowsWellFormed, Found, TablesKept
        <4>3. AsCreated(txns[id]) = txns[id]
          BY <4>2 DEF AsCreated, Transaction
        <4>4. AsCreated(txns[orig[r].id])' = AsCreated(txns[id])
          BY <4>1, <4>2 DEF AsCreated
        <4>5. id \in OfType("PAYMENT")'
          BY <4>2 DEF OfType, Rows
        <4> QED
          BY <2>3, <3>3, <4>1, <4>2, <4>3, <4>4, <4>5, NoneAssumption DEF Found, ByReference
      <3>4. CASE Checked(r)
        <4>1. Op(r) = "refund" /\ orig'[r] = orig[r] /\ req'[r] = req[r]
          BY <2>3, <3>4 DEF Checked, Kept, Op
        <4>2. orig[r].id \in Rows /\ orig[r] = AsCreated(txns[orig[r].id])
          BY <1>0, <3>4, <4>1 DEF OriginalFound, Checked, OfType
        <4>3. txns[orig[r].id].amount >= 1 /\ txns[orig[r].id] \in Transaction
          BY <1>0, <4>2 DEF IInv, RowsWellFormed, Rows, TypeOK
        <4>4. orig[r].amount >= 1 /\ orig[r].amount \in Int
          BY <4>2, <4>3, ConstantsAssumption DEF AsCreated, Transaction, Int64
        <4>5. AmountOf(r) \in 1 .. orig[r].amount
          BY <3>4, <4>1, <4>4 DEF Checked, AmountOf
        <4> QED
          BY <2>1, <2>3, <3>4, <4>1, <4>5 DEF Checked
      <3>5. CASE Locked(r) \/ Persisted(r) \/ Committed(r)
        <4>1. /\ pc[r] \in {"lock"} \cup InTx \cup Applied /\ pc[r] # "exists"
              /\ orig'[r] = orig[r] /\ req'[r] = req[r]
          BY <3>5 DEF Locked, Persisted, Committed, Commit, Kept, InTx, Applied
        <4>2. Op(r) = "refund"
          BY <2>3, <4>1, SameCall
        <4> QED
          BY <1>0, <2>1, <2>3, <4>1, <4>2 DEF OriginalFound
      <3> QED
        BY <1>3, <3>1, <3>2, <3>3, <3>4, <3>5 DEF CallMoves
    <2> QED
      BY <2>2, <2>3
  <1> QED
    BY <1>1, <1>2, <1>3, StepCases

\* Every step keeps the rows in step with the calls that make them.
LEMMA RowCallStep ==
  ASSUME IInv, [Next]_vars
  PROVE  RowFollowsCall'
  <1>0. TypeOK /\ RowFollowsCall
    BY DEF IInv
  <1>1. CASE UNCHANGED <<balance, txns, idempLog, walletLock, pc, req, orig, seen, reply>>
    BY <1>0, <1>1, SameCall DEF RowFollowsCall, AsCreated
  <1>2. CASE Crash
    BY <1>0, <1>2, CrashFacts DEF RowFollowsCall, TablesKept, Working, PreCommit, InTx, Applied
  <1>3. ASSUME NEW r \in Requests, CallMoves(r)
        PROVE  RowFollowsCall'
    <2> SUFFICES ASSUME NEW s \in Requests
                 PROVE  /\ pc'[s] \in PreCommit => txns'[s] = None
                        /\ pc'[s] \in Applied =>
                             txns'[s] # None /\ AsCreated(txns[s])' = NewTransaction(s)'
                        /\ pc'[s] = "cacheSet" => idempLog'[Key(s)'] = NewTransaction(s)'
                        /\ (reply'[s] # None) <=> (pc'[s] = "done")
      BY DEF RowFollowsCall
    <2>1. CASE s # r
      <3>1. /\ pc'[s] = pc[s] /\ reply'[s] = reply[s]
            /\ Key(s)' = Key(s) /\ NewTransaction(s)' = NewTransaction(s)
        BY <1>3, <2>1, SameCall DEF CallMoves, OnlyCall
      <3>2. txns[s] = None /\ pc[s] \in PreCommit => txns'[s] = None
        <4>1. CASE TablesKept
          BY <4>1 DEF TablesKept
        <4>2. CASE \E q \in Requests : Commit(q)
          <5>1. PICK q \in Requests : Commit(q)
            BY <4>2
          <5>2. q = r
            BY <1>0, <1>3, <5>1
            DEF CallMoves, OnlyCall, Commit, Goto, TypeOK
          <5>3. ASSUME Op(r) = "refund", s = orig[r].id PROVE txns[s] # None
            BY <5>1, <5>2, <5>3, CommitFacts DEF OfType, Rows
          <5> QED
            BY <2>1, <5>1, <5>2, <5>3, CommitFacts
        <4> QED
          BY <4>1, <4>2, TablesStep
      <3>3. pc[s] \in Applied => txns'[s] # None /\ AsCreated(txns[s])' = NewTransaction(s)
        <4> SUFFICES ASSUME pc[s] \in Applied
                     PROVE  txns'[s] # None /\ AsCreated(txns[s])' = NewTransaction(s)
          OBVIOUS
        <4>1. s \in Rows /\ AsCreated(txns[s]) = NewTransaction(s)
          BY <1>0 DEF RowFollowsCall, Rows
        <4>2. s \in Rows' /\ AsCreated(txns'[s]) = AsCreated(txns[s])
          BY <4>1, RowsKept
        <4> QED
          BY <4>1, <4>2 DEF Rows
      <3>4. pc[s] = "cacheSet" => idempLog'[Key(s)] = NewTransaction(s)
        <4> SUFFICES ASSUME pc[s] = "cacheSet"
                     PROVE  idempLog'[Key(s)] = NewTransaction(s)
          OBVIOUS
        <4>1. Key(s) \in Keys /\ NewTransaction(s) \in Transaction
          BY NewRowTyped DEF Applied
        <4>2. idempLog[Key(s)] = NewTransaction(s) /\ idempLog[Key(s)] # None
          BY <1>0, <4>1, NoneAssumption DEF RowFollowsCall
        <4> QED
          BY <4>1, <4>2, LogKept
      <3> QED
        BY <1>0, <3>1, <3>2, <3>3, <3>4 DEF RowFollowsCall
    <2>2. CASE s = r
      <3>1. CASE Admitted(r) \/ Missed(r) \/ Found(r) \/ Checked(r) \/ Locked(r) \/ Persisted(r)
        <4>1. /\ pc[r] \in PreCommit /\ pc'[r] \in PreCommit /\ reply'[r] = reply[r]
              /\ pc[r] # "done" /\ pc'[r] # "done" /\ txns' = txns
          BY <3>1 DEF Admitted, Missed, Found, Checked, Locked, Persisted, Kept, TablesKept,
                      PreCommit, InTx
        <4> QED
          BY <1>0, <2>2, <4>1 DEF RowFollowsCall, PreCommit, Applied, InTx
      <3>2. CASE Committed(r)
        <4>1. /\ Commit(r) /\ pc[r] = "commit" /\ pc'[r] \in Applied /\ reply'[r] = reply[r]
              /\ req'[r] = req[r] /\ orig'[r] = orig[r]
              /\ pc'[r] = "cacheSet" => Op(r) # "topup"
          BY <3>2 DEF Committed, Commit, Kept
        <4>2. /\ txns'[r] = NewTransaction(r) /\ NewTransaction(r) \in Transaction
              /\ Key(r) \in Keys
          BY <4>1, CommitFacts
        <4>3. AsCreated(NewTransaction(r)) = NewTransaction(r)
          BY <4>2 DEF AsCreated, NewTransaction
        <4>4. AsCreated(txns[r])' = NewTransaction(r)'
          BY <4>1, <4>2, <4>3, SameCall DEF AsCreated
        <4>5. pc'[r] = "cacheSet" => idempLog'[Key(r)'] = NewTransaction(r)'
          BY <1>0, <4>1, <4>2, SameCall DEF Commit, LogWith, TypeOK
        <4>6. pc'[r] \notin PreCommit /\ pc'[r] # "done" /\ txns'[r] # None
          BY <4>1, <4>2, NoneAssumption DEF Applied, PreCommit, InTx
        <4> QED
          BY <1>0, <2>2, <4>1, <4>4, <4>5, <4>6 DEF RowFollowsCall
      <3>3. CASE Ended(r)
        BY <2>2, <3>3 DEF Ended, PreCommit, InTx, Applied
      <3> QED
        BY <1>3, <3>1, <3>2, <3>3 DEF CallMoves
    <2> QED
      BY <2>1, <2>2
  <1> QED
    BY <1>1, <1>2, <1>3, StepCases

\* Every step keeps a call that is about to commit alone with its key.
LEMMA KeyStep ==
  ASSUME IInv, [Next]_vars
  PROVE  KeyReserved'
  <1>0. TypeOK /\ KeyReserved
    BY DEF IInv
  <1>1. CASE UNCHANGED <<balance, txns, idempLog, walletLock, pc, req, orig, seen, reply>>
    BY <1>0, <1>1, SameCall DEF KeyReserved, KeyTaken, KeyPending
  <1>2. CASE Crash
    BY <1>0, <1>2, CrashFacts DEF KeyReserved, Working, InTx
  <1>3. ASSUME NEW r \in Requests, CallMoves(r)
        PROVE  KeyReserved'
    <2>1. \A s \in Requests \ {r} : /\ pc'[s] = pc[s] /\ Op(s)' = Op(s) /\ Key(s)' = Key(s)
      BY <1>3, SameCall DEF CallMoves, OnlyCall
    <2>2. CASE Persisted(r)
      <3>1. Op(r)' = Op(r) /\ Key(r)' = Key(r) /\ idempLog' = idempLog
        BY <2>2, SameCall DEF Persisted, Kept, TablesKept
      <3>2. pc'[r] = "commit" /\ (Op(r) = "topup" \/ (~KeyPending(r) /\ ~KeyTaken(Key(r))))
        BY <2>2 DEF Persisted
      <3> QED
        BY <1>0, <2>1, <3>1, <3>2 DEF KeyReserved, KeyTaken, KeyPending
    <2>3. CASE Committed(r)
      <3>1. pc[r] = "commit" /\ pc'[r] # "commit"
        BY <2>3 DEF Committed, Commit, Applied
      <3>2. ASSUME NEW s \in Requests \ {r}, pc[s] = "commit", Op(s) # "topup"
            PROVE  idempLog'[Key(s)] = None
        <4>1. idempLog[Key(s)] = None /\ ~KeyPending(s) /\ Key(s) \in Keys
          BY <1>0, <3>2, CallTyped DEF KeyReserved, KeyTaken
        <4>2. Op(r) # "topup" => Key(r) # Key(s)
          BY <3>1, <4>1 DEF KeyPending
        <4> QED
          BY <1>0, <2>3, <4>1, <4>2 DEF Committed, Commit, LogWith, TypeOK
      <3> QED
        BY <1>0, <2>1, <3>1, <3>2 DEF KeyReserved, KeyTaken, KeyPending
    <2>4. CASE ~Persisted(r) /\ ~Committed(r)
      <3>1. pc'[r] # "commit" /\ idempLog' = idempLog
        BY <1>3, <2>4 DEF CallMoves, Admitted, Missed, Found, Checked, Locked, Ended, TablesKept
      <3> QED
        BY <1>0, <2>1, <3>1 DEF KeyReserved, KeyTaken, KeyPending
    <2> QED
      BY <2>2, <2>3, <2>4
  <1> QED
    BY <1>1, <1>2, <1>3, StepCases

\* Every step keeps the row locks exclusive and what their holders read current.
LEMMA LockStep ==
  ASSUME IInv, [Next]_vars
  PROVE  LockProtectsBalance'
  <1>0. TypeOK /\ LockProtectsBalance
    BY DEF IInv
  <1>1. CASE UNCHANGED <<balance, txns, idempLog, walletLock, pc, req, orig, seen, reply>>
    BY <1>0, <1>1 DEF LockProtectsBalance, WalletOf, Op
  <1>2. CASE Crash
    <2>1. \A s \in Requests : pc'[s] \notin InTx
      BY <1>0, <1>2, CrashFacts DEF Working, InTx
    <2>2. \A w \in Wallets : walletLock'[w] = None
      BY <1>0, <1>2, CrashFacts DEF LockProtectsBalance, Unlocked, TypeOK, Working, InTx
    <2> QED
      BY <2>1, <2>2 DEF LockProtectsBalance
  <1>3. ASSUME NEW r \in Requests, CallMoves(r)
        PROVE  LockProtectsBalance'
    <2>1. \A s \in Requests \ {r} : /\ pc'[s] = pc[s] /\ WalletOf(s)' = WalletOf(s)
                                    /\ seen'[s] = seen[s]
      BY <1>3, SameCall DEF CallMoves, OnlyCall
    <2>2. \A s \in Requests : pc[s] \in InTx => WalletOf(s) \in Wallets
      BY NewRowTyped
    <2>3. CASE Locked(r)
      <3> DEFINE w == WalletOf(r)
      <3>1. /\ pc[r] = "lock" /\ pc'[r] = "persist" /\ w \in Wallets /\ walletLock[w] = None
            /\ walletLock' = [walletLock EXCEPT ![w] = r] /\ seen'[r] = balance[w]
            /\ WalletOf(r)' = w /\ balance' = balance
        BY <2>3, SameCall DEF Locked, Kept, TablesKept
      <3>2. \A s \in Requests \ {r} : pc[s] \in InTx => WalletOf(s) # w
        BY <1>0, <3>1, NoneAssumption DEF LockProtectsBalance
      <3>3. \A v \in Wallets : walletLock[v] # None => walletLock[v] \in Requests \ {r}
        BY <1>0, <3>1 DEF LockProtectsBalance, TypeOK, InTx
      <3>4. ASSUME NEW v \in Wallets, walletLock'[v] # None
            PROVE  pc'[walletLock'[v]] \in InTx /\ WalletOf(walletLock[v])' = v
        <4>1. CASE v = w
          BY <1>0, <3>1, <4>1 DEF TypeOK, InTx, WalletOf, Op
        <4>2. CASE v # w
          <5>1. PICK h \in Requests \ {r} : walletLock[v] = h /\ walletLock'[v] = h
            BY <1>0, <3>1, <3>3, <3>4, <4>2 DEF TypeOK
          <5>2. pc[h] \in InTx /\ WalletOf(h) = v
            BY <1>0, <5>1, NoneAssumption DEF LockProtectsBalance
          <5>3. pc'[h] \in InTx /\ WalletOf(h)' = v
            BY <2>1, <5>2
          <5> QED
            BY <5>1, <5>3 DEF WalletOf, Op
        <4> QED
          BY <4>1, <4>2
      <3>5. ASSUME NEW s \in Requests, pc'[s] \in InTx
            PROVE  walletLock'[WalletOf(s)'] = s /\ seen'[s] = balance'[WalletOf(s)']
        <4>1. CASE s = r
          BY <1>0, <3>1, <4>1 DEF TypeOK
        <4>2. CASE s # r
          BY <1>0, <2>1, <2>2, <3>1, <3>2, <3>5, <4>2 DEF TypeOK, LockProtectsBalance
        <4> QED
          BY <4>1, <4>2
      <3> QED
        BY <3>4, <3>5 DEF LockProtectsBalance
    <2>4. CASE Persisted(r)
      <3>1. /\ pc[r] \in InTx /\ pc'[r] \in InTx /\ WalletOf(r)' = WalletOf(r)
            /\ seen'[r] = seen[r] /\ walletLock' = walletLock /\ balance' = balance
        BY <2>4, SameCall DEF Persisted, Kept, TablesKept, InTx
      <3>2. \A s \in Requests : /\ pc'[s] \in InTx <=> pc[s] \in InTx
                                /\ WalletOf(s)' = WalletOf(s) /\ seen'[s] = seen[s]
        BY <2>1, <3>1
      <3>3. ASSUME NEW v \in Wallets, walletLock'[v] # None
            PROVE  pc'[walletLock'[v]] \in InTx /\ WalletOf(walletLock[v])' = v
        <4>1. PICK h \in Requests : walletLock[v] = h /\ walletLock'[v] = h
          BY <1>0, <3>1, <3>3 DEF TypeOK
        <4>2. pc'[h] \in InTx /\ WalletOf(h)' = v
          BY <1>0, <3>2, <4>1, NoneAssumption DEF LockProtectsBalance
        <4> QED
          BY <4>1, <4>2 DEF WalletOf, Op
      <3> QED
        BY <1>0, <3>1, <3>2, <3>3 DEF LockProtectsBalance
    <2>5. CASE Committed(r) \/ Ended(r)
      <3>1. pc'[r] \notin InTx /\ walletLock' = Unlocked({r})
        BY <2>5 DEF Committed, Ended, Applied, InTx
      <3>2. \A v \in Wallets : walletLock'[v] = IF walletLock[v] = r THEN None ELSE walletLock[v]
        BY <3>1 DEF Unlocked
      <3>3. \A s \in Requests \ {r} : pc[s] \in InTx => balance'[WalletOf(s)] = balance[WalletOf(s)]
        <4>1. CASE Ended(r)
          BY <4>1 DEF Ended, TablesKept
        <4>2. CASE Committed(r)
          <5>1. pc[r] \in InTx /\ balance' = [balance EXCEPT ![WalletOf(r)] = NewBalance(r)]
            BY <4>2 DEF Committed, Commit, InTx
          <5>2. \A s \in Requests \ {r} : pc[s] \in InTx => WalletOf(s) # WalletOf(r)
            BY <1>0, <5>1 DEF LockProtectsBalance
          <5> QED
            BY <1>0, <2>2, <5>1, <5>2 DEF TypeOK
        <4> QED
          BY <2>5, <4>1, <4>2
      <3>4. ASSUME NEW v \in Wallets, walletLock'[v] # None
            PROVE  pc'[walletLock'[v]] \in InTx /\ WalletOf(walletLock[v])' = v
        <4>1. PICK h \in Requests \ {r} : walletLock[v] = h /\ walletLock'[v] = h
          BY <1>0, <3>2, <3>4 DEF TypeOK
        <4>2. pc'[h] \in InTx /\ WalletOf(h)' = v
          BY <1>0, <2>1, <4>1, NoneAssumption DEF LockProtectsBalance
        <4> QED
          BY <4>1, <4>2 DEF WalletOf, Op
      <3>5. ASSUME NEW s \in Requests, pc'[s] \in InTx
            PROVE  walletLock'[WalletOf(s)'] = s /\ seen'[s] = balance'[WalletOf(s)']
        BY <1>0, <2>1, <2>2, <3>1, <3>2, <3>3, <3>5 DEF LockProtectsBalance
      <3> QED
        BY <3>4, <3>5 DEF LockProtectsBalance
    <2>6. CASE Admitted(r) \/ Missed(r) \/ Found(r) \/ Checked(r)
      <3>1. pc[r] \notin InTx /\ pc'[r] \notin InTx /\ walletLock' = walletLock /\ balance' = balance
        BY <2>6 DEF Admitted, Missed, Found, Checked, TablesKept, InTx
      <3>2. ASSUME NEW v \in Wallets, walletLock'[v] # None
            PROVE  pc'[walletLock'[v]] \in InTx /\ WalletOf(walletLock[v])' = v
        <4>1. PICK h \in Requests \ {r} : walletLock[v] = h /\ walletLock'[v] = h
          BY <1>0, <3>1, <3>2 DEF TypeOK, LockProtectsBalance
        <4>2. pc'[h] \in InTx /\ WalletOf(h)' = v
          BY <1>0, <2>1, <4>1, NoneAssumption DEF LockProtectsBalance
        <4> QED
          BY <4>1, <4>2 DEF WalletOf, Op
      <3> QED
        BY <1>0, <2>1, <3>1, <3>2 DEF LockProtectsBalance
    <2> QED
      BY <1>3, <2>3, <2>4, <2>5, <2>6 DEF CallMoves
  <1> QED
    BY <1>1, <1>2, <1>3, StepCases

\* An OK answer is an earlier one, one out of the log, or the call's own row.
LEMMA AnswerSources ==
  ASSUME IInv, [Next]_vars, NEW s \in Requests, reply'[s] # None, reply'[s].code = "OK"
  PROVE  \/ reply[s] # None /\ reply'[s] = reply[s] /\ req'[s] = req[s]
         \/ /\ req'[s] = req[s] /\ TablesKept
            /\ \/ /\ pc[s] \in {"cacheGet", "logGet"}
                  /\ idempLog[Key(s)] # None
                  /\ reply'[s].txn = idempLog[Key(s)]
               \/ /\ pc[s] \in {"cacheSet", "return"}
                  /\ reply'[s].txn = NewTransaction(s)
  <1> DEFINE Goal == \/ reply[s] # None /\ reply'[s] = reply[s] /\ req'[s] = req[s]
                     \/ /\ req'[s] = req[s] /\ TablesKept
                        /\ \/ /\ pc[s] \in {"cacheGet", "logGet"}
                              /\ idempLog[Key(s)] # None
                              /\ reply'[s].txn = idempLog[Key(s)]
                           \/ /\ pc[s] \in {"cacheSet", "return"}
                              /\ reply'[s].txn = NewTransaction(s)
  <1>0. TypeOK
    BY DEF IInv
  <1>1. ASSUME reply'[s] = reply[s]
        PROVE  Goal
    <2>1. pc[s] = "done"
      BY <1>1 DEF IInv, RowFollowsCall
    <2>2. req'[s] = req[s]
      BY <1>0, <2>1 DEF TypeOK, Next, Step, Quiescent, vars, Receive, CacheGet, LogGet,
         FindOriginal, CheckRefundExists, LockWallet, Persist, Commit, CacheSet, ReturnTopup,
         ReturnCommitError, DatabaseError, EncryptionFailure, Crash, CacheExpire
    <2> QED
      BY <1>1, <2>2
  <1>2. ASSUME NEW r \in Requests, NEW code \in ErrorCodes, Fail(r, code)
        PROVE  reply'[s] = reply[s]
    BY <1>0, <1>2 DEF TypeOK, Fail, Return, ErrorCodes
  <1>3. ASSUME NEW r \in Requests, NEW t, Return(r, "OK", t), s # r
        PROVE  reply'[s] = reply[s]
    BY <1>0, <1>3 DEF TypeOK, Return
  <1>4. ASSUME NEW t, Return(s, "OK", t)
        PROVE  reply'[s].txn = t
    BY <1>0, <1>4 DEF TypeOK, Return
  <1>5. ASSUME NEW r \in Requests, CacheGet(r)
        PROVE  Goal
    <2>1. CASE Return(r, "OK", cache[Key(r)]) /\ cache[Key(r)] # None
      <3>1. Key(r) \in Keys
        BY <1>0, <1>5, CallTyped DEF CacheGet
      <3>2. cache[Key(r)] = idempLog[Key(r)]
        BY <2>1, <3>1 DEF IInv, CacheMatchesLog
      <3> QED
        BY <1>1, <1>3, <1>4, <1>5, <2>1, <3>2 DEF CacheGet, TablesKept
    <2>2. CASE UNCHANGED reply
      BY <1>1, <2>2
    <2> QED
      BY <1>5, <2>1, <2>2 DEF CacheGet
  <1>6. ASSUME NEW r \in Requests, LogGet(r)
        PROVE  Goal
    BY <1>1, <1>3, <1>4, <1>6 DEF LogGet, TablesKept
  <1>7. ASSUME NEW r \in Requests, CacheSet(r) \/ ReturnTopup(r)
        PROVE  Goal
    BY <1>1, <1>3, <1>4, <1>7 DEF CacheSet, ReturnTopup, TablesKept
  <1>8. ASSUME NEW r \in Requests, NEW c \in Inputs, Receive(r, c)
        PROVE  Goal
    BY <1>1, <1>2, <1>8 DEF Receive, ErrorCodes
  <1>9. ASSUME NEW r \in Requests,
               \/ FindOriginal(r) \/ CheckRefundExists(r) \/ LockWallet(r) \/ Persist(r)
        PROVE  Goal
    <2>1. UNCHANGED reply \/ \E code \in ErrorCodes : Fail(r, code)
      BY <1>9 DEF FindOriginal, CheckRefundExists, LockWallet, Persist, ErrorCodes
    <2> QED
      BY <1>1, <1>2, <2>1
  <1>10. ASSUME NEW r \in Requests,
               \/ ReturnCommitError(r) \/ DatabaseError(r) \/ EncryptionFailure(r)
         PROVE  Goal
    BY <1>1, <1>2, <1>10
    DEF ReturnCommitError, DatabaseError, EncryptionFailure, ErrorCodes
  <1>11. CASE UNCHANGED reply
    BY <1>1, <1>11
  <1> QED
    BY <1>5, <1>6, <1>7, <1>8, <1>9, <1>10, <1>11
    DEF Next, Step, Quiescent, vars, Commit, Crash, CacheExpire

\* Every step keeps the OK answers committed.
LEMMA AnswerStep ==
  ASSUME IInv, [Next]_vars
  PROVE  AnswersCommitted'
  <1>0. TypeOK /\ AnswersCommitted
    BY DEF IInv
  <1> SUFFICES ASSUME NEW s \in Requests, reply'[s] # None, reply'[s].code = "OK"
               PROVE  LET t == reply'[s].txn
                      IN  /\ t # None
                          /\ t.id \in Rows'
                          /\ t = AsCreated(txns'[t.id])
                          /\ t.type = TypeOf(s)'
                          /\ t.merchant = req'[s].merchant
                          /\ IF t.type = "TOPUP" THEN t.id = s ELSE KeyOfRow(reply[s].txn)' = Key(s)'
    BY DEF AnswersCommitted, AsCreated
  <1>1. ASSUME NEW id \in Rows, req'[s] = req[s], reply'[s].txn = AsCreated(txns[id]),
               txns[id].type = TypeOf(s), txns[id].merchant = req[s].merchant,
               IF txns[id].type = "TOPUP" THEN id = s ELSE KeyOfRow(txns[id]) = Key(s)
        PROVE  LET t == reply'[s].txn
               IN  /\ t # None
                   /\ t.id \in Rows'
                   /\ t = AsCreated(txns'[t.id])
                   /\ t.type = TypeOf(s)'
                   /\ t.merchant = req'[s].merchant
                   /\ IF t.type = "TOPUP" THEN t.id = s ELSE KeyOfRow(reply[s].txn)' = Key(s)'
    <2>1. /\ id \in Rows' /\ AsCreated(txns'[id]) = AsCreated(txns[id])
          /\ txns[id] \in Transaction
      BY RowsKept
    <2>2. txns[id].id = id
      BY DEF IInv, RowsWellFormed
    <2> DEFINE t == AsCreated(txns[id])
    <2>3. t.id = id /\ t.type = txns[id].type /\ t.merchant = txns[id].merchant /\ t \in Transaction
      BY <2>1, <2>2 DEF AsCreated, Transaction, TransactionStatus
    <2>4. TypeOf(s)' = TypeOf(s) /\ Key(s)' = Key(s)
      BY <1>1 DEF TypeOf, Key, Op
    <2>5. txns[id].type # "TOPUP" => KeyOfRow(reply[s].txn)' = KeyOfRow(txns[id])
      <3>1. txns[id].type # "TOPUP" => KeyOfRow(AsCreated(txns[id]))' = KeyOfRow(txns[id])
        BY KeyKept
      <3> QED
        BY <1>1, <2>1, <3>1 DEF KeyOfRow
    <2> QED
      BY <1>1, <2>1, <2>3, <2>4, <2>5, NoneAssumption
  <1>2. CASE reply[s] # None /\ reply'[s] = reply[s] /\ req'[s] = req[s]
    <2>1. PICK id \in Rows : /\ id = reply[s].txn.id
                             /\ reply[s].txn = AsCreated(txns[id])
                             /\ reply[s].txn.type = TypeOf(s)
                             /\ reply[s].txn.merchant = req[s].merchant
                             /\ IF reply[s].txn.type = "TOPUP" THEN id = s
                                ELSE KeyOfRow(reply[s].txn) = Key(s)
      BY <1>0, <1>2 DEF AnswersCommitted
    <2>2. txns[id] \in Transaction
      BY RowsKept
    <2>3. txns[id].type = reply[s].txn.type /\ txns[id].merchant = reply[s].txn.merchant
      BY <2>1, <2>2 DEF AsCreated, Transaction
    <2>4. txns[id].type # "TOPUP" => KeyOfRow(reply[s].txn) = KeyOfRow(txns[id])
      BY <2>1, CommittedKey
    <2> QED
      BY <1>1, <1>2, <2>1, <2>3, <2>4
  <1>3. CASE /\ req'[s] = req[s]
             /\ pc[s] \in {"cacheGet", "logGet"}
             /\ idempLog[Key(s)] # None
             /\ reply'[s].txn = idempLog[Key(s)]
    <2>1. Key(s) \in Keys /\ Op(s) \in Ops /\ Op(s) # "topup" /\ req[s] \in Call
      BY <1>0, <1>3, CallTyped DEF IInv, ArgumentsChecked
    <2>2. PICK id \in Rows : /\ idempLog[Key(s)] = AsCreated(txns[id])
                             /\ idempLog[Key(s)].type # "TOPUP"
                             /\ KeyOfRow(idempLog[Key(s)]) = Key(s)
      BY <1>3, <2>1 DEF IInv, LogMatchesRows
    <2>3. txns[id] \in Transaction
      BY RowsKept
    <2>4. txns[id].type = idempLog[Key(s)].type
      BY <2>2, <2>3 DEF AsCreated, Transaction
    <2>5. KeyOfRow(txns[id]) = Key(s)
      BY <2>2, <2>4, CommittedKey
    <2>6. txns[id].merchant = req[s].merchant /\ txns[id].type = TypeOf(s)
      BY <2>1, <2>2, <2>3, <2>4, <2>5
      DEF KeyOfRow, Key, BuildIdempotencyKey, BuildRefundIdempotencyKey, Transaction,
          TransactionType, TypeOf, Ops
    <2> QED
      BY <1>1, <1>3, <2>2, <2>4, <2>5, <2>6
  <1>4. CASE /\ req'[s] = req[s]
             /\ pc[s] \in {"cacheSet", "return"}
             /\ reply'[s].txn = NewTransaction(s)
    <2>1. s \in Rows /\ AsCreated(txns[s]) = NewTransaction(s)
      BY <1>4 DEF IInv, RowFollowsCall, Rows, Applied
    <2>2. txns[s] \in Transaction
      BY <2>1, RowsKept
    <2>3. txns[s].type = TypeOf(s) /\ txns[s].merchant = req[s].merchant
      BY <2>1, <2>2 DEF AsCreated, NewTransaction, Transaction
    <2>4. Op(s) \in Ops /\ Key(s) \in Keys /\ NewTransaction(s) \in Transaction
      BY <1>0, <1>4, CallTyped, NewRowTyped DEF Applied
    <2>5. CASE pc[s] = "return"
      <3>1. txns[s].type = "TOPUP"
        BY <2>3, <2>5 DEF IInv, ArgumentsChecked, TypeOf
      <3> QED
        BY <1>1, <1>4, <2>1, <2>3, <3>1
    <2>6. CASE pc[s] = "cacheSet"
      <3>1. txns[s].type # "TOPUP"
        BY <2>3, <2>4, <2>6 DEF IInv, ArgumentsChecked, TypeOf, Ops
      <3>2. idempLog[Key(s)] = NewTransaction(s) /\ idempLog[Key(s)] # None
        BY <2>4, <2>6, NoneAssumption DEF IInv, RowFollowsCall
      <3>3. KeyOfRow(NewTransaction(s)) = Key(s)
        BY <2>4, <3>2 DEF IInv, LogMatchesRows
      <3>4. KeyOfRow(txns[s]) = Key(s)
        BY <2>1, <3>1, <3>3, CommittedKey
      <3> QED
        BY <1>1, <1>4, <2>1, <2>3, <3>1, <3>4
    <2> QED
      BY <1>4, <2>5, <2>6
  <1> QED
    BY <1>2, <1>3, <1>4, AnswerSources

-----------------------------------------------------------------------------
(* The theorems. *)

\* The inductive invariant holds when the window opens.
LEMMA InitInvariant == Init => IInv
  <1> SUFFICES ASSUME Init PROVE IInv
    OBVIOUS
  <1>1. TypeOK
    <2>1. 0 \in Int64 /\ OpeningBalance \in [Wallets -> Int64]
      BY ConstantsAssumption DEF Int64
    <2> QED
      BY <2>1 DEF Init, TypeOK, PCs
  <1>2. Rows = {} /\ \A type : OfType(type) = {}
    BY DEF Init, Rows, OfType
  <1>3. RowsWellFormed /\ RefundedOnce
    BY <1>2 DEF RowsWellFormed, RefundedOnce
  <1>4. ArgumentsChecked /\ OriginalFound /\ KeyReserved
    BY DEF Init, ArgumentsChecked, OriginalFound, KeyReserved, Working, InTx, Applied
  <1>5. RowFollowsCall /\ AnswersCommitted
    BY DEF Init, RowFollowsCall, AnswersCommitted, Applied
  <1>6. LockProtectsBalance
    BY DEF Init, LockProtectsBalance, InTx
  <1>7. LogMatchesRows /\ CacheMatchesLog
    BY <1>2 DEF Init, LogMatchesRows, CacheMatchesLog
  <1> QED
    BY <1>1, <1>3, <1>4, <1>5, <1>6, <1>7 DEF IInv

\* The inductive invariant is kept by every step.
LEMMA StepInvariant == IInv /\ [Next]_vars => IInv'
  <1> SUFFICES ASSUME IInv, [Next]_vars PROVE IInv'
    OBVIOUS
  <1>1. TypeOK' /\ RowsWellFormed' /\ ArgumentsChecked' /\ OriginalFound'
    BY TypeStep, RowsStep, ArgumentsStep, OriginalStep
  <1>2. RowFollowsCall' /\ KeyReserved' /\ LockProtectsBalance' /\ LogMatchesRows'
    BY RowCallStep, KeyStep, LockStep, LogStep
  <1>3. RefundedOnce' /\ CacheMatchesLog' /\ AnswersCommitted'
    BY RefundStep, CacheStep, AnswerStep
  <1> QED
    BY <1>1, <1>2, <1>3 DEF IInv

\* The inductive invariant holds in every reachable state of the service, for
\* any number of calls, merchants, wallets and references and any faults.
THEOREM Invariance == Spec => []IInv
  <1>1. Init => IInv
    BY InitInvariant
  <1>2. IInv /\ [Next]_vars => IInv'
    BY StepInvariant
  <1> QED
    BY <1>1, <1>2, PTL DEF Spec

\* Every variable of the service keeps its type.
THEOREM TypeCorrect == Spec => []TypeOK
  <1>1. IInv => TypeOK
    BY DEF IInv
  <1> QED
    BY <1>1, Invariance, PTL

\* Two payments of one merchant and reference are one: they share a log entry.
LEMMA KeyedByReference ==
  ASSUME IInv, NEW s \in OfType("PAYMENT"), NEW t \in OfType("PAYMENT"),
         txns[s].merchant = txns[t].merchant, txns[s].ref = txns[t].ref
  PROVE  s = t
  <1>1. /\ s \in Rows /\ t \in Rows /\ txns[s] \in Transaction /\ txns[t] \in Transaction
        /\ txns[s].type = "PAYMENT" /\ txns[t].type = "PAYMENT"
    BY DEF OfType, Rows, IInv, TypeOK
  <1>2. KeyOfRow(txns[s]) = KeyOfRow(txns[t])
    BY <1>1 DEF KeyOfRow
  <1>3. AsCreated(txns[s]) = AsCreated(txns[t])
    BY <1>1, <1>2, CommittedKey
  <1>4. txns[s].id = txns[t].id
    BY <1>1, <1>3 DEF AsCreated, Transaction
  <1> QED
    BY <1>1, <1>4 DEF IInv, RowsWellFormed

\* ProcessPayment charges a merchant at most once per reference.
THEOREM PaymentsChargedOnce == Spec => []ChargedOnce
  <1>1. IInv => ChargedOnce
    BY KeyedByReference DEF ChargedOnce
  <1> QED
    BY <1>1, Invariance, PTL

\* ProcessRefund gives a payment back at most once and never more than it took,
\* and a payment is REVERSED exactly when it was refunded.
THEOREM PaymentsRefundedOnce == Spec => []RefundedOnce
  <1>1. IInv => RefundedOnce
    BY DEF IInv
  <1> QED
    BY <1>1, Invariance, PTL

\* The log holds exactly the payments and refunds that committed, each under
\* its key.
THEOREM LogIsComplete == Spec => []LogMatchesRows
  <1>1. IInv => LogMatchesRows
    BY DEF IInv
  <1> QED
    BY <1>1, Invariance, PTL

\* Redis never answers what the log would not.
THEOREM CacheAgreesWithLog == Spec => []CacheMatchesLog
  <1>1. IInv => CacheMatchesLog
    BY DEF IInv
  <1> QED
    BY <1>1, Invariance, PTL

\* Between SELECT ... FOR UPDATE and COMMIT nobody else changes the balance that
\* the call has read.
THEOREM LocksProtectBalances == Spec => []LockProtectsBalance
  <1>1. IInv => LockProtectsBalance
    BY DEF IInv
  <1> QED
    BY <1>1, Invariance, PTL

\* A call that returns a transaction returns a committed one of its own key.
THEOREM AnswersAreCommitted == Spec => []AnswersCommitted
  <1>1. IInv => AnswersCommitted
    BY DEF IInv
  <1> QED
    BY <1>1, Invariance, PTL

\* A commit changes its wallet by the signed amount of its row, and a payment by no
\* more than is there.
LEMMA CommitMovesMoney ==
  ASSUME IInv, NEW r \in Requests, Commit(r)
  PROVE  /\ WalletOf(r) \in Wallets
         /\ balance' = [balance EXCEPT ![WalletOf(r)] = NewBalance(r)]
         /\ NewBalance(r) = Wrap(balance[WalletOf(r)] + Signed(NewTransaction(r)))
         /\ AmountOf(r) \in Int /\ AmountOf(r) >= 1 /\ balance[WalletOf(r)] \in Int
         /\ Op(r) = "payment" =>
              /\ AmountOf(r) \in 1 .. balance[WalletOf(r)]
              /\ NewBalance(r) = balance[WalletOf(r)] - AmountOf(r)
              /\ NewBalance(r) >= 0
  <1> DEFINE w == WalletOf(r)
  <1>1. pc[r] = "commit" /\ pc[r] \in InTx /\ TypeOK
    BY DEF Commit, IInv, InTx
  <1>2. /\ w \in Wallets /\ AmountOf(r) \in Int64 /\ AmountOf(r) >= 1
        /\ Op(r) \in Ops
    BY <1>1, NewRowTyped, CallTyped
  <1>3. seen[r] = balance[w] /\ balance[w] \in Int64
    BY <1>1, <1>2 DEF IInv, LockProtectsBalance, TypeOK
  <1>4. Half \in Nat /\ AmountOf(r) \in Int /\ balance[w] \in Int
    BY <1>2, <1>3, ConstantsAssumption DEF Int64
  <1>5. NewBalance(r) = Wrap(balance[w] + Signed(NewTransaction(r)))
    <2>1. Signed(NewTransaction(r)) = IF Op(r) = "payment" THEN -AmountOf(r) ELSE AmountOf(r)
      BY <1>2 DEF Signed, NewTransaction, TypeOf, Ops
    <2>2. balance[w] + (-AmountOf(r)) = balance[w] - AmountOf(r)
      BY <1>4
    <2> QED
      BY <1>3, <2>1, <2>2 DEF NewBalance
  <1>6. ASSUME Op(r) = "payment"
        PROVE  /\ AmountOf(r) \in 1 .. balance[w]
               /\ NewBalance(r) = balance[w] - AmountOf(r)
               /\ NewBalance(r) >= 0
    <2>1. AmountOf(r) <= balance[w]
      BY <1>1, <1>3, <1>6 DEF IInv, ArgumentsChecked
    <2>2. balance[w] - AmountOf(r) \in Int64 /\ balance[w] - AmountOf(r) >= 0
      BY <1>2, <1>3, <1>4, <2>1 DEF Int64
    <2> QED
      BY <1>2, <1>3, <1>4, <1>6, <2>1, <2>2, WrapIdentity DEF NewBalance
  <1> QED
    BY <1>2, <1>4, <1>5, <1>6 DEF Commit

\* What a step does to balances, and the row it adds.
LEMMA ChangeStep ==
  ASSUME IInv, [Next]_vars
  PROVE  ChangeIsBooked
  <1>1. CASE TablesKept
    BY <1>1 DEF TablesKept, ChangeIsBooked, Rows
  <1>2. ASSUME NEW r \in Requests, Commit(r)
        PROVE  ChangeIsBooked
    <2> DEFINE w == WalletOf(r)
    <2>1. /\ r \in Requests \ Rows /\ txns'[r] = NewTransaction(r) /\ txns'[r] # None
          /\ NewTransaction(r).wallet = w /\ NewTransaction(r).amount = AmountOf(r)
          /\ NewTransaction(r).type = "PAYMENT" => Op(r) = "payment"
      <3>1. /\ r \in Requests \ Rows /\ txns'[r] = NewTransaction(r) /\ txns'[r] # None
            /\ Op(r) \in Ops
        BY <1>2, CommitFacts, NoneAssumption
      <3> QED
        BY <3>1 DEF NewTransaction, TypeOf, Ops
    <2>2. \A s \in Requests \ Rows : txns'[s] # None => s = r
      BY <1>2, CommitFacts DEF Rows, OfType
    <2>3. \A v \in Wallets : v # w => balance'[v] = balance[v]
      BY <1>2, CommitMovesMoney DEF IInv, TypeOK
    <2>4. balance'[w] = NewBalance(r)
      BY <1>2, CommitMovesMoney DEF IInv, TypeOK
    <2>5. ASSUME NEW v \in Wallets
          PROVE  \/ /\ balance'[v] = balance[v]
                    /\ \A id \in Requests \ Rows : txns'[id] # None => txns'[id].wallet # v
                 \/ \E id \in Requests \ Rows :
                       /\ txns'[id] # None
                       /\ txns'[id].wallet = v
                       /\ balance'[v] = Wrap(balance[v] + Signed(txns'[id]))
                       /\ txns'[id].type = "PAYMENT" =>
                             txns'[id].amount \in 1 .. balance[v] /\ balance'[v] >= 0
                       /\ \A s \in Requests \ Rows : txns'[s] # None => s = id
      <3>1. CASE v # w
        BY <2>1, <2>2, <2>3, <3>1
      <3>2. CASE v = w
        BY <1>2, <2>1, <2>2, <2>4, <3>2, CommitMovesMoney
      <3> QED
        BY <3>1, <3>2
    <2> QED
      BY <2>5 DEF ChangeIsBooked
  <1> QED
    BY <1>1, <1>2, TablesStep

\* Money moves only as part of a commit that records it, and a payment never
\* overdraws a wallet.
THEOREM ChangesAreBooked == Spec => EveryChangeIsBooked
  BY ChangeStep, Invariance, PTL DEF Spec, EveryChangeIsBooked

\* What a step does to rows and log entries that are there.
LEMMA HistoryStep ==
  ASSUME IInv, [Next]_vars
  PROVE  OnlyReversals
  <1>1. ASSUME NEW id \in Rows, txns'[id] # txns[id]
        PROVE  IsRefundable(txns[id]) /\ txns'[id] = [txns[id] EXCEPT !.status = "REVERSED"]
    <2>1. PICK r \in Requests : Commit(r)
      BY <1>1, TablesStep DEF TablesKept
    <2>2. Op(r) = "refund" /\ id = orig[r].id /\ txns'[id] = Reversed(txns[id])
      BY <1>1, <2>1, CommitFacts DEF Rows
    <2> QED
      BY <2>1, <2>2, CommitFacts DEF Reversed, IsRefundable, OfType
  <1> QED
    BY <1>1, LogKept DEF OnlyReversals

\* Committed rows and log entries are final, but for the one status change of a
\* refunded payment.
THEOREM HistoryKept == Spec => HistoryIsKept
  BY HistoryStep, Invariance, PTL DEF Spec, HistoryIsKept

-----------------------------------------------------------------------------
(* Refusals. *)

\* A business error is given before the call commits; what PAY_003 and PAY_006
\* say was read in the very step that answers.
LEMMA RefusalSources ==
  ASSUME IInv, [Next]_vars, NEW s \in Requests,
         reply'[s] # reply[s], reply'[s].code \notin {"OK", "SYS_001"}
  PROVE  /\ TablesKept /\ pc[s] \in PreCommit
         /\ reply'[s].code = "PAY_003" =>
               pc[s] = "exists" /\ RefundExists(orig[s].id) /\ req' = req
         /\ reply'[s].code = "PAY_006" =>
               /\ req' = req
               /\ \E id \in ByReference(req[s].merchant, req[s].ref) : ~IsRefundable(txns[id])
  <1> DEFINE Goal ==
         /\ TablesKept /\ pc[s] \in PreCommit
         /\ reply'[s].code = "PAY_003" =>
               pc[s] = "exists" /\ RefundExists(orig[s].id) /\ req' = req
         /\ reply'[s].code = "PAY_006" =>
               /\ req' = req
               /\ \E id \in ByReference(req[s].merchant, req[s].ref) : ~IsRefundable(txns[id])
  <1>0. reply \in [Requests -> Reply \cup {None}]
    BY DEF IInv, TypeOK
  <1>1. ASSUME NEW r \in Requests, NEW code, NEW t, Return(r, code, t)
        PROVE  r = s /\ reply'[s].code = code /\ code \notin {"OK", "SYS_001"}
    BY <1>0, <1>1 DEF Return
  <1>2. ASSUME NEW r \in Requests, NEW code, Fail(r, code)
        PROVE  r = s /\ reply'[s].code = code /\ code \notin {"OK", "SYS_001"}
    BY <1>1, <1>2 DEF Fail
  <1>3. ASSUME NEW r \in Requests, NEW c \in Inputs, Receive(r, c)
        PROVE  Goal
    <2>1. Fail(r, "PAY_002") /\ pc[r] = "idle" /\ TablesKept
      BY <1>3 DEF Receive, TablesKept
    <2> QED
      BY <1>2, <2>1 DEF PreCommit
  <1>4. ASSUME NEW r \in Requests, FindOriginal(r)
        PROVE  Goal
    <2>1. /\ pc[r] = "find" /\ TablesKept /\ req' = req
          /\ \/ Fail(r, "PAY_004")
             \/ /\ Fail(r, "PAY_006")
                /\ \E id \in ByReference(req[r].merchant, req[r].ref) : ~IsRefundable(txns[id])
      BY <1>4 DEF FindOriginal, TablesKept
    <2>2. CASE Fail(r, "PAY_004")
      BY <1>2, <2>1, <2>2 DEF PreCommit
    <2>3. CASE Fail(r, "PAY_006")
      <3>1. r = s /\ reply'[s].code = "PAY_006"
        BY <1>2, <2>3
      <3>2. ~Fail(r, "PAY_004")
        BY <1>2, <3>1
      <3> QED
        BY <2>1, <3>1, <3>2 DEF PreCommit
    <2> QED
      BY <2>1, <2>2, <2>3
  <1>5. ASSUME NEW r \in Requests, CheckRefundExists(r)
        PROVE  Goal
    <2>1. /\ pc[r] = "exists" /\ TablesKept /\ req' = req
          /\ \/ Fail(r, "PAY_003") /\ RefundExists(orig[r].id)
             \/ Fail(r, "PAY_002")
             \/ Fail(r, "PAY_007")
      BY <1>5 DEF CheckRefundExists, TablesKept
    <2>2. CASE Fail(r, "PAY_003") /\ RefundExists(orig[r].id)
      BY <1>2, <2>1, <2>2 DEF PreCommit
    <2>3. CASE Fail(r, "PAY_002")
      BY <1>2, <2>1, <2>3 DEF PreCommit
    <2>4. CASE Fail(r, "PAY_007")
      BY <1>2, <2>1, <2>4 DEF PreCommit
    <2> QED
      BY <2>1, <2>2, <2>3, <2>4
  <1>6. ASSUME NEW r \in Requests, LockWallet(r)
        PROVE  Goal
    <2>1. /\ pc[r] = "lock" /\ TablesKept
          /\ Fail(r, "PAY_004") \/ Fail(r, "PAY_001")
      BY <1>6 DEF LockWallet, TablesKept
    <2> QED
      BY <1>2, <2>1 DEF PreCommit
  <1>7. ASSUME NEW r \in Requests, EncryptionFailure(r)
        PROVE  Goal
    <2>1. pc[r] \in {"lock", "persist"} /\ TablesKept /\ Fail(r, "SYS_003")
      BY <1>7 DEF EncryptionFailure, TablesKept
    <2> QED
      BY <1>2, <2>1 DEF PreCommit, InTx
  <1>8. ASSUME NEW r \in Requests,
               \/ CacheGet(r) \/ LogGet(r) \/ Persist(r) \/ CacheSet(r)
               \/ ReturnTopup(r) \/ ReturnCommitError(r) \/ DatabaseError(r)
        PROVE  FALSE
    <2>1. \/ reply' = reply \/ Fail(r, "SYS_001")
          \/ \E t : Return(r, "OK", t)
      BY <1>8 DEF CacheGet, LogGet, Persist, CacheSet, ReturnTopup, ReturnCommitError,
         DatabaseError
    <2> QED
      BY <1>1, <1>2, <2>1
  <1> QED
    BY <1>3, <1>4, <1>5, <1>6, <1>7, <1>8
    DEF Next, Step, Quiescent, vars, Commit, Crash, CacheExpire

\* A row that cannot be refunded never becomes refundable, and a row of a
\* reference keeps it.
LEMMA RowsStayRefused ==
  ASSUME IInv, [Next]_vars, NEW m, NEW ref, NEW id \in ByReference(m, ref),
         ~IsRefundable(txns[id])
  PROVE  id \in ByReference(m, ref)' /\ ~IsRefundable(txns'[id])
  <1>1. id \in Rows /\ txns[id].merchant = m /\ txns[id].ref = ref
    BY DEF ByReference, Rows
  <1>2. /\ id \in Rows' /\ txns[id] \in Transaction
        /\ txns'[id].merchant = m /\ txns'[id].ref = ref
        /\ txns'[id] = txns[id] \/ txns'[id] = Reversed(txns[id])
    BY <1>1, RowsKept
  <1>3. Reversed(txns[id]).status = "REVERSED"
    BY <1>2 DEF Reversed, Transaction
  <1> QED
    BY <1>2, <1>3 DEF ByReference, Rows, IsRefundable

\* A refund of a reference stays one.
LEMMA RefundsStay ==
  ASSUME IInv, [Next]_vars, NEW s \in OfType("REFUND")
  PROVE  /\ s \in OfType("REFUND")'
         /\ txns'[s].merchant = txns[s].merchant
         /\ txns'[txns'[s].orig].ref = txns[txns[s].orig].ref
  <1>1. s \in Rows /\ txns[s].type = "REFUND" /\ txns[s].orig \in Rows
    BY DEF OfType, IInv, RowsWellFormed
  <1> QED
    BY <1>1, RowsKept DEF OfType

\* Every step keeps the refusals true.
LEMMA RefusalStep ==
  ASSUME IInv, [Next]_vars, RefusalsAreTrue
  PROVE  RefusalsAreTrue'
  <1> SUFFICES ASSUME NEW r \in Requests, reply'[r] # None
               PROVE  /\ reply'[r].code = "PAY_003" =>
                            \E s \in OfType("REFUND")' :
                               /\ txns'[s].merchant = req'[r].merchant
                               /\ txns'[txns'[s].orig].ref = req'[r].ref
                      /\ reply'[r].code = "PAY_006" =>
                            \E id \in ByReference(req[r].merchant, req[r].ref)' :
                               ~IsRefundable(txns'[id])
                      /\ reply'[r].code \notin {"OK", "SYS_001"} => txns'[r] = None
    BY DEF RefusalsAreTrue, IsRefundable
  <1>1. CASE reply'[r] = reply[r]
    <2>1. pc[r] = "done" /\ reply[r] # None
      BY <1>1 DEF IInv, RowFollowsCall
    <2>2. req'[r] = req[r]
      BY <2>1 DEF IInv, TypeOK, Next, Step, Quiescent, vars, Receive, CacheGet, LogGet,
         FindOriginal, CheckRefundExists, LockWallet, Persist, Commit, CacheSet, ReturnTopup,
         ReturnCommitError, DatabaseError, EncryptionFailure, Crash, CacheExpire
    <2>3. ASSUME reply[r].code = "PAY_003"
          PROVE  \E s \in OfType("REFUND")' : /\ txns'[s].merchant = req[r].merchant
                                              /\ txns'[txns'[s].orig].ref = req[r].ref
      <3>1. PICK s \in OfType("REFUND") : /\ txns[s].merchant = req[r].merchant
                                          /\ txns[txns[s].orig].ref = req[r].ref
        BY <2>1, <2>3 DEF RefusalsAreTrue
      <3> QED
        BY <3>1, RefundsStay
    <2>4. ASSUME reply[r].code = "PAY_006"
          PROVE  \E id \in ByReference(req[r].merchant, req[r].ref)' : ~IsRefundable(txns'[id])
      <3>1. PICK id \in ByReference(req[r].merchant, req[r].ref) : ~IsRefundable(txns[id])
        BY <2>1, <2>4 DEF RefusalsAreTrue
      <3>2. id \in Rows /\ txns[id].merchant = req[r].merchant /\ txns[id].ref = req[r].ref
        BY <3>1 DEF ByReference, Rows
      <3>3. id \in Rows' /\ ~IsRefundable(txns'[id])
            /\ txns'[id].merchant = req[r].merchant /\ txns'[id].ref = req[r].ref
        BY <3>1, <3>2, RowsKept, RowsStayRefused
      <3> QED
        BY <2>2, <3>3 DEF ByReference, Rows
    <2>5. ASSUME reply[r].code \notin {"OK", "SYS_001"}
          PROVE  txns'[r] = None
      <3>1. txns[r] = None
        BY <2>1, <2>5 DEF RefusalsAreTrue
      <3>2. CASE TablesKept
        BY <3>1, <3>2 DEF TablesKept
      <3>3. ASSUME NEW c \in Requests, Commit(c)
            PROVE  txns'[r] = None
        <4>1. c # r
          BY <2>1, <3>3 DEF Commit
        <4>2. Op(c) = "refund" => orig[c].id # r
          BY <3>1, <3>3, CommitFacts DEF OfType, Rows
        <4> QED
          BY <3>1, <3>3, <4>1, <4>2, CommitFacts
      <3> QED
        BY <3>2, <3>3, TablesStep
    <2> QED
      BY <1>1, <2>2, <2>3, <2>4, <2>5
  <1>2. CASE reply'[r] # reply[r] /\ reply'[r].code \notin {"OK", "SYS_001"}
    <2>1. /\ TablesKept /\ pc[r] \in PreCommit
          /\ reply'[r].code = "PAY_003" =>
                pc[r] = "exists" /\ RefundExists(orig[r].id) /\ req' = req
          /\ reply'[r].code = "PAY_006" =>
                /\ req' = req
                /\ \E id \in ByReference(req[r].merchant, req[r].ref) : ~IsRefundable(txns[id])
      BY <1>2, RefusalSources
    <2>2. txns'[r] = None
      BY <2>1 DEF TablesKept, IInv, RowFollowsCall
    <2>3. ASSUME reply'[r].code = "PAY_003"
          PROVE  \E s \in OfType("REFUND")' : /\ txns'[s].merchant = req'[r].merchant
                                              /\ txns'[txns'[s].orig].ref = req'[r].ref
      <3>1. PICK s \in Requests : /\ txns[s] # None /\ txns[s].type = "REFUND"
                                  /\ txns[s].orig = orig[r].id
        BY <2>1, <2>3 DEF RefundExists
      <3>2. pc[r] = "exists" /\ Op(r) = "refund" /\ req' = req /\ txns' = txns
        BY <2>1, <2>3 DEF IInv, ArgumentsChecked, TablesKept
      <3>3. /\ orig[r] = AsCreated(txns[orig[r].id]) /\ orig[r].id \in Rows
            /\ orig[r].merchant = req[r].merchant /\ orig[r].ref = req[r].ref
        BY <3>2 DEF IInv, OriginalFound, OfType
      <3>4. txns[orig[r].id].ref = req[r].ref /\ txns[orig[r].id].merchant = req[r].merchant
        <4>1. txns[orig[r].id] \in Transaction
          BY <3>3 DEF IInv, TypeOK, Rows
        <4> QED
          BY <3>3, <4>1 DEF AsCreated, Transaction
      <3>5. s \in Rows /\ txns[s].merchant = txns[orig[r].id].merchant
        BY <3>1 DEF IInv, RowsWellFormed, Rows
      <3> QED
        BY <3>1, <3>2, <3>4, <3>5 DEF OfType, Rows
    <2>4. ASSUME reply'[r].code = "PAY_006"
          PROVE  \E id \in ByReference(req[r].merchant, req[r].ref)' : ~IsRefundable(txns'[id])
      BY <2>1, <2>4 DEF TablesKept, ByReference
    <2> QED
      BY <2>2, <2>3, <2>4
  <1>3. CASE reply'[r].code \in {"OK", "SYS_001"}
    BY <1>3
  <1> QED
    BY <1>1, <1>2, <1>3

\* A refund is refused as a duplicate only if the payment has a refund, and as
\* not eligible only if the reference names something that is not, although
\* both were read without a lock; and a business error never follows a commit.
THEOREM RefusalsHold == Spec => []RefusalsAreTrue
  <1>1. Init => RefusalsAreTrue
    BY DEF Init, RefusalsAreTrue
  <1>2. IInv /\ [Next]_vars /\ RefusalsAreTrue => RefusalsAreTrue'
    BY RefusalStep
  <1> QED
    BY <1>1, <1>2, Invariance, PTL DEF Spec

-----------------------------------------------------------------------------
(* Refinement of the abstract ledger. *)

\* A step answers at most one caller, and not in the step that moves money.
LEMMA ReplyCases ==
  ASSUME IInv, [Next]_vars
  PROVE  \/ reply' = reply
         \/ \E r \in Requests :
               /\ TablesKept /\ reply[r] = None
               /\ \/ \E code \in ErrorCodes :
                        reply' = [reply EXCEPT ![r] = [code |-> code, txn |-> None]]
                  \/ \E t : reply' = [reply EXCEPT ![r] = [code |-> "OK", txn |-> t]]
  <1>1. ASSUME NEW r \in Requests, NEW code \in ErrorCodes, Fail(r, code)
        PROVE  reply' = [reply EXCEPT ![r] = [code |-> code, txn |-> None]]
    BY <1>1 DEF Fail, Return
  <1>2. ASSUME NEW r \in Requests, NEW t, Return(r, "OK", t)
        PROVE  reply' = [reply EXCEPT ![r] = [code |-> "OK", txn |-> t]]
    BY <1>2 DEF Return
  <1>3. ASSUME NEW r \in Requests, reply[r] # None PROVE pc[r] = "done"
    BY <1>3 DEF IInv, RowFollowsCall
  <1>4. ASSUME NEW r \in Requests, NEW c \in Inputs, Receive(r, c)
        PROVE  /\ TablesKept /\ reply[r] = None
               /\ reply' = reply \/ \E code \in ErrorCodes : Fail(r, code)
    BY <1>3, <1>4 DEF Receive, TablesKept, ErrorCodes
  <1>5. ASSUME NEW r \in Requests,
               \/ FindOriginal(r) \/ CheckRefundExists(r) \/ LockWallet(r) \/ Persist(r)
        PROVE  /\ TablesKept /\ reply[r] = None
               /\ reply' = reply \/ \E code \in ErrorCodes : Fail(r, code)
    BY <1>3, <1>5
    DEF FindOriginal, CheckRefundExists, LockWallet, Persist, TablesKept, ErrorCodes
  <1>6. ASSUME NEW r \in Requests,
               \/ ReturnCommitError(r) \/ DatabaseError(r) \/ EncryptionFailure(r)
        PROVE  /\ TablesKept /\ reply[r] = None
               /\ \E code \in ErrorCodes : Fail(r, code)
    BY <1>3, <1>6
    DEF ReturnCommitError, DatabaseError, EncryptionFailure, TablesKept, ErrorCodes, InTx
  <1>7. ASSUME NEW r \in Requests, CacheGet(r) \/ LogGet(r) \/ CacheSet(r) \/ ReturnTopup(r)
        PROVE  /\ TablesKept /\ reply[r] = None
               /\ reply' = reply \/ \E t : Return(r, "OK", t)
    BY <1>3, <1>7 DEF CacheGet, LogGet, CacheSet, ReturnTopup, TablesKept
  <1> QED
    BY <1>1, <1>2, <1>4, <1>5, <1>6, <1>7
    DEF Next, Step, Quiescent, vars, Commit, Crash, CacheExpire

\* A commit is a step of the abstract ledger that books the row.
LEMMA CommitBooks ==
  ASSUME IInv, [Next]_vars, NEW r \in Requests, Commit(r)
  PROVE  ledger!Book(r)
  <1> DEFINE new == NewTransaction(r)
  <1>1. /\ r \notin Rows /\ txns[r] = None /\ txns'[r] = new /\ new \in Transaction
        /\ Op(r) \in Ops /\ Key(r) \in Keys /\ TypeOK
    BY CommitFacts DEF Rows, IInv
  <1>2. reply[r] = None /\ reply' = reply
    BY DEF Commit, IInv, RowFollowsCall
  <1>3. /\ new.id = r /\ new.status = "SUCCESS" /\ new.wallet = WalletOf(r)
        /\ new.amount = AmountOf(r) /\ new.type = TypeOf(r)
        /\ new.merchant = req[r].merchant /\ new.ref = ReferenceOf(r)
        /\ new.orig = IF Op(r) = "refund" THEN orig[r].id ELSE None
    BY DEF NewTransaction
  <1>4. balance' = [balance EXCEPT ![new.wallet] = NewBalance(r)]
    BY <1>3, CommitMovesMoney
  <1>5. ledger!Booked = Rows
    BY DEF ledger!Booked, Rows
  <1>6. CASE Op(r) = "payment"
    <2>1. new.type = "PAYMENT" /\ new.ref = req[r].ref
      BY <1>3, <1>6 DEF TypeOf, ReferenceOf
    <2>2. ASSUME NEW o \in Rows, txns[o].type = "PAYMENT",
                 txns[o].merchant = new.merchant, txns[o].ref = new.ref
          PROVE  FALSE
      <3>1. KeyOfRow(txns[o]) = Key(r)
        BY <1>3, <1>6, <2>1, <2>2 DEF KeyOfRow, Key
      <3>2. KeyTaken(Key(r))
        BY <2>2, <3>1, CommittedKey
      <3> QED
        BY <1>6, <3>2 DEF IInv, KeyReserved, Commit
    <2>3. new.amount \in 1 .. balance[new.wallet]
      BY <1>3, <1>6, CommitMovesMoney
    <2>4. balance' = [balance EXCEPT ![new.wallet] = @ - new.amount]
      BY <1>3, <1>4, <1>6, CommitMovesMoney
    <2>5. txns' = [txns EXCEPT ![r] = new]
      BY <1>1, <1>6, CommitFacts DEF TypeOK
    <2>6. ledger!BookPayment(r, new)
      BY <1>5, <2>1, <2>2, <2>3, <2>4, <2>5 DEF ledger!BookPayment
    <2> QED
      BY <1>1, <1>2, <1>3, <2>6 DEF ledger!Book
  <1>7. CASE Op(r) = "refund"
    <2> DEFINE o == orig[r].id
    <2>1. /\ new.type = "REFUND" /\ new.orig = o
      BY <1>3, <1>7 DEF TypeOf
    <2>2. /\ o \in Rows /\ o \in Requests /\ txns[o].type = "PAYMENT" /\ txns[o].status = "SUCCESS"
          /\ txns[o].merchant = new.merchant /\ new.amount \in 1 .. txns[o].amount
          /\ txns[o] \in Transaction /\ o # r
      BY <1>1, <1>3, <1>7, CommitFacts DEF OfType, Rows, TypeOK
    <2>3. txns[o].wallet = new.wallet
      BY <1>3, <1>7, CommitFacts DEF WalletOf
    <2>4. balance' = [balance EXCEPT ![new.wallet] = ledger!WrapAround(@ + new.amount)]
      <3>1. Signed(new) = new.amount
        BY <2>1 DEF Signed
      <3> QED
        BY <1>3, <1>4, <3>1, CommitMovesMoney DEF ledger!WrapAround, Wrap
    <2>5. txns' = [txns EXCEPT ![r] = new, ![o].status = "REVERSED"]
      <3>1. Reversed(txns[o]) = [txns[o] EXCEPT !.status = "REVERSED"]
        BY DEF Reversed
      <3>2. txns' = [id \in Requests |-> IF id = r THEN new
                                         ELSE IF id = o THEN Reversed(txns[id]) ELSE txns[id]]
        BY <1>7, CommitFacts
      <3> QED
        BY <1>1, <2>2, <3>1, <3>2 DEF TypeOK
    <2>6. ledger!BookRefund(r, new)
      BY <1>5, <2>1, <2>2, <2>3, <2>4, <2>5 DEF ledger!BookRefund
    <2> QED
      BY <1>1, <1>2, <1>3, <2>6 DEF ledger!Book
  <1>8. CASE Op(r) = "topup"
    <2>1. new.type = "TOPUP" /\ Signed(new) = new.amount /\ new.amount > 0
      BY <1>3, <1>8, CommitMovesMoney DEF TypeOf, Signed
    <2>2. balance' = [balance EXCEPT ![new.wallet] = ledger!WrapAround(@ + new.amount)]
      BY <1>3, <1>4, <2>1, CommitMovesMoney DEF ledger!WrapAround, Wrap
    <2>3. txns' = [txns EXCEPT ![r] = new]
      BY <1>1, <1>8, CommitFacts DEF TypeOK
    <2>4. ledger!BookTopup(r, new)
      BY <2>1, <2>2, <2>3 DEF ledger!BookTopup
    <2> QED
      BY <1>1, <1>2, <1>3, <2>4 DEF ledger!Book
  <1> QED
    BY <1>1, <1>6, <1>7, <1>8 DEF Ops

\* The payment service implements the abstract ledger: locks, cache, log,
\* retries, faults and crashes never show in what is booked or answered.
THEOREM ServiceImplementsLedger == Spec => ImplementsLedger
  <1>1. Init => ledger!LInit
    BY DEF Init, ledger!LInit
  <1>2. ASSUME IInv, IInv', [Next]_vars
        PROVE  [ledger!LNext]_(ledger!lvars)
    <2>1. ASSUME NEW r \in Requests, Commit(r)
          PROVE  ledger!LNext
      BY <1>2, <2>1, CommitBooks DEF ledger!LNext
    <2>2. CASE TablesKept /\ reply' = reply
      BY <2>2 DEF TablesKept, ledger!lvars
    <2>3. ASSUME NEW r \in Requests, NEW code \in ErrorCodes, TablesKept, reply[r] = None,
                 reply' = [reply EXCEPT ![r] = [code |-> code, txn |-> None]]
          PROVE  ledger!LNext
      BY <2>3 DEF ledger!LNext, ledger!Reject, TablesKept, ErrorCodes
    <2>4. ASSUME NEW r \in Requests, NEW t, TablesKept, reply[r] = None, reply' # reply,
                 reply' = [reply EXCEPT ![r] = [code |-> "OK", txn |-> t]]
          PROVE  ledger!LNext
      <3>1. reply'[r] = [code |-> "OK", txn |-> t] /\ reply'[r] # None
        BY <1>2, <2>4 DEF IInv, TypeOK
      <3>2. PICK o \in Rows : t = AsCreated(txns[o])
        <4>1. Rows' = Rows /\ txns' = txns
          BY <2>4 DEF Rows, TablesKept
        <4>2. reply'[r].code = "OK" /\ reply'[r].txn = t
          BY <3>1
        <4>3. t.id \in Rows' /\ t = AsCreated(txns[t.id])'
          <5>1. AnswersCommitted'
            BY <1>2 DEF IInv
          <5> QED
            BY <3>1, <4>2, <5>1 DEF AnswersCommitted, AsCreated
        <4> QED
          BY <4>1, <4>3 DEF AsCreated
      <3>3. o \in ledger!Booked
        BY <3>2 DEF ledger!Booked, Rows
      <3>4. ledger!Confirm(r)
        BY <2>4, <3>2, <3>3 DEF ledger!Confirm, TablesKept, AsCreated
      <3> QED
        BY <3>4 DEF ledger!LNext
    <2> QED
      BY <1>2, <2>1, <2>2, <2>3, <2>4, TablesStep, ReplyCases
  <1> QED
    BY <1>1, <1>2, Invariance, PTL DEF Spec, ImplementsLedger, ledger!LSpec

-----------------------------------------------------------------------------
(* Balances as sums. *)

\* Wrapping once at the end is the same as wrapping after every addition.
LEMMA WrapAdd ==
  ASSUME NEW x \in Int, NEW y \in Int
  PROVE  Wrap(Wrap(x) + y) = Wrap(x + y)
  <1>1. PICK m \in Nat : m = 2 * Half /\ m > 0
    BY ConstantsAssumption
  <1>2. Half \in Int /\ x + Half \in Int /\ x + y + Half \in Int
    BY ConstantsAssumption
  <1>3. PICK r \in Int : r = (x + Half) % m
    BY <1>1, <1>2
  <1>4. Congruent(x + Half, r, m)
    BY <1>1, <1>2, <1>3, RemainderCongruent
  <1>5. PICK k \in Int : x + Half = m * k + r
    BY <1>4 DEF Congruent
  <1>6. m * k \in Int
    OBVIOUS
  <1>7. Wrap(x) = r - Half
    BY <1>1, <1>3 DEF Wrap
  <1>8. (Wrap(x) + y) + Half = (x + y + Half) - m * k
    BY <1>2, <1>5, <1>6, <1>7
  <1>9. ((x + y + Half) - m * k) % m = (x + y + Half) % m
    BY <1>1, <1>2, RemainderKept
  <1> QED
    BY <1>1, <1>8, <1>9 DEF Wrap

\* What the rows of a wallet did to it are integers, and the rows that are there
\* keep their wallet and their effect.
LEMMA EffectsTyped ==
  ASSUME TypeOK
  PROVE  \A id \in Rows : Effects[id] \in Int /\ Effects[id] = Signed(txns[id])
  <1> SUFFICES ASSUME NEW id \in Rows
               PROVE  Effects[id] \in Int /\ Effects[id] = Signed(txns[id])
    OBVIOUS
  <1>1. txns[id] \in Transaction
    BY DEF TypeOK, Rows
  <1>2. txns[id].amount \in Int
    BY <1>1, ConstantsAssumption DEF Transaction, Int64
  <1> QED
    BY <1>2 DEF Effects, Signed

LEMMA EffectsKept ==
  ASSUME OnlyReversals, TypeOK, TypeOK'
  PROVE  /\ Rows \subseteq Rows'
         /\ SameOn(Effects', Effects, Rows)
         /\ \A id \in Rows : txns'[id].wallet = txns[id].wallet
  <1>1. ASSUME NEW id \in Rows
        PROVE  /\ id \in Rows'
               /\ Signed(txns'[id]) = Signed(txns[id])
               /\ txns'[id].wallet = txns[id].wallet
    <2>1. txns[id] \in Transaction
      BY DEF TypeOK, Rows
    <2>2. \/ txns'[id] = txns[id]
          \/ txns'[id] = [txns[id] EXCEPT !.status = "REVERSED"]
      BY DEF OnlyReversals
    <2>3. /\ txns'[id] \in Transaction
          /\ txns'[id].type = txns[id].type /\ txns'[id].amount = txns[id].amount
          /\ txns'[id].wallet = txns[id].wallet
      BY <2>1, <2>2 DEF Transaction, TransactionStatus
    <2>4. id \in Rows'
      BY <2>3, NoneAssumption DEF Rows
    <2> QED
      BY <2>3, <2>4 DEF Signed
  <1>2. \A id \in Rows : Effects[id] = Signed(txns[id])
    BY EffectsTyped
  <1>3. \A id \in Rows' : Effects'[id] = Signed(txns'[id])
    BY DEF Effects
  <1> QED
    BY <1>1, <1>2, <1>3 DEF SameOn

\* Only finitely many rows have committed at any time.
FinitelyMany == IsFiniteSet(Rows)

\* A step adds at most one row.
LEMMA FiniteStep ==
  ASSUME FinitelyMany, TypeOK', ChangeIsBooked
  PROVE  FinitelyMany'
  <1>1. CASE Rows' \subseteq Rows
    BY <1>1, FS_Subset DEF FinitelyMany
  <1>2. CASE ~(Rows' \subseteq Rows)
    <2>1. PICK s \in Rows' : s \notin Rows
      BY <1>2
    <2>2. s \in Requests \ Rows /\ txns'[s] \in Transaction /\ txns'[s] # None
      BY <2>1 DEF Rows, TypeOK
    <2>3. txns'[s].wallet \in Wallets
      BY <2>2 DEF Transaction
    <2>4. \A u \in Requests \ Rows : txns'[u] # None => u = s
      BY <2>2, <2>3 DEF ChangeIsBooked
    <2>5. Rows' \subseteq Rows \cup {s}
      BY <2>4 DEF Rows
    <2>6. IsFiniteSet(Rows \cup {s})
      BY FS_AddElement DEF FinitelyMany
    <2> QED
      BY <2>5, <2>6, FS_Subset DEF FinitelyMany
  <1> QED
    BY <1>1, <1>2

\* What a step does to a wallet and to the sum of its rows.
LEMMA SumStep ==
  ASSUME TypeOK, TypeOK', FinitelyMany, ChangeIsBooked, OnlyReversals, NEW w \in Wallets
  PROVE  /\ SumFunctionOnSet(Effects, BookedOn(w)) \in Int
         /\ \/ /\ balance'[w] = balance[w]
               /\ BookedOn(w)' = BookedOn(w)
               /\ SumFunctionOnSet(Effects', BookedOn(w)') = SumFunctionOnSet(Effects, BookedOn(w))
            \/ \E id \in Rows' \ Rows :
                  /\ BookedOn(w)' = BookedOn(w) \cup {id}
                  /\ Signed(txns'[id]) \in Int
                  /\ balance'[w] = Wrap(balance[w] + Signed(txns'[id]))
                  /\ txns'[id].type = "PAYMENT" => txns'[id].amount \in 1 .. balance[w]
                  /\ SumFunctionOnSet(Effects', BookedOn(w)') =
                       SumFunctionOnSet(Effects, BookedOn(w)) + Signed(txns'[id])
  <1> DEFINE B == BookedOn(w)
             Sum == SumFunctionOnSet(Effects, B)
  <1>1. B \subseteq Rows /\ IsFiniteSet(B) /\ BookedOn(w)' \subseteq Rows'
    BY FS_Subset DEF BookedOn, FinitelyMany
  <1>2. SameOn(Effects', Effects, B) /\ \A id \in B : Effects[id] \in Int
    BY <1>1, EffectsKept, EffectsTyped DEF SameOn
  <1>3. Sum \in Int /\ SumFunctionOnSet(Effects', B) = Sum
    BY <1>1, <1>2, SumType, SumCongruence
  <1>4. \A id \in Rows' : Effects'[id] \in Int /\ Effects'[id] = Signed(txns'[id])
    <2> SUFFICES ASSUME NEW id \in Rows'
                 PROVE  Effects'[id] \in Int /\ Effects'[id] = Signed(txns'[id])
      OBVIOUS
    <2>1. txns'[id] \in Transaction
      BY DEF TypeOK, Rows
    <2>2. txns'[id].amount \in Int
      BY <2>1, ConstantsAssumption DEF Transaction, Int64
    <2> QED
      BY <2>2 DEF Effects, Signed
  <1>5. \A id \in Rows : id \in Rows' /\ txns'[id].wallet = txns[id].wallet
    BY EffectsKept
  <1>6. CASE /\ balance'[w] = balance[w]
             /\ \A id \in Requests \ Rows : txns'[id] # None => txns'[id].wallet # w
    <2>1. BookedOn(w)' = B
      BY <1>5, <1>6 DEF BookedOn, Rows
    <2> QED
      BY <1>3, <1>6, <2>1
  <1>7. CASE \E id \in Requests \ Rows :
                /\ txns'[id] # None
                /\ txns'[id].wallet = w
                /\ balance'[w] = Wrap(balance[w] + Signed(txns'[id]))
                /\ txns'[id].type = "PAYMENT" =>
                      txns'[id].amount \in 1 .. balance[w] /\ balance'[w] >= 0
                /\ \A s \in Requests \ Rows : txns'[s] # None => s = id
    <2>1. PICK id \in Requests \ Rows :
                /\ txns'[id] # None
                /\ txns'[id].wallet = w
                /\ balance'[w] = Wrap(balance[w] + Signed(txns'[id]))
                /\ txns'[id].type = "PAYMENT" => txns'[id].amount \in 1 .. balance[w]
                /\ \A s \in Requests \ Rows : txns'[s] # None => s = id
      BY <1>7
    <2>2. BookedOn(w)' = B \cup {id} /\ id \notin B /\ id \in Rows'
      BY <1>5, <2>1 DEF BookedOn, Rows
    <2>3. Signed(txns'[id]) \in Int /\ Effects'[id] = Signed(txns'[id])
      BY <1>4, <2>2
    <2>4. \A y \in B \cup {id} : Effects'[y] \in Int
      BY <1>1, <1>4, <2>2
    <2>5. SumFunctionOnSet(Effects', B \cup {id}) = Signed(txns'[id]) + Sum
      BY <1>1, <1>3, <2>2, <2>3, <2>4, SumAdd
    <2> HIDE DEF Sum
    <2>6. Signed(txns'[id]) + Sum = Sum + Signed(txns'[id])
      BY <1>3, <2>3
    <2>7. SumFunctionOnSet(Effects', BookedOn(w)') = Sum + Signed(txns'[id])
      BY <2>2, <2>5, <2>6
    <2>8. id \in Rows' \ Rows
      BY <2>2
    <2> QED
      BY <1>3, <2>1, <2>2, <2>3, <2>7, <2>8 DEF Sum
  <1> QED
    BY <1>6, <1>7 DEF ChangeIsBooked

\* The balance of a wallet and the sum of its rows change together.
LEMMA BalanceStep ==
  ASSUME TypeOK, TypeOK', FinitelyMany, ChangeIsBooked, OnlyReversals, BalanceIsLedgerSum
  PROVE  BalanceIsLedgerSum'
  <1> SUFFICES ASSUME NEW w \in Wallets
               PROVE  balance'[w] =
                        Wrap(OpeningBalance[w] + SumFunctionOnSet(Effects', BookedOn(w)'))
    BY DEF BalanceIsLedgerSum
  <1>1. PICK sum \in Int : sum = SumFunctionOnSet(Effects, BookedOn(w))
    BY SumStep
  <1>2. balance[w] = Wrap(OpeningBalance[w] + sum) /\ OpeningBalance[w] \in Int
    BY <1>1, ConstantsAssumption DEF BalanceIsLedgerSum
  <1>3. CASE /\ balance'[w] = balance[w]
             /\ SumFunctionOnSet(Effects', BookedOn(w)') = sum
    BY <1>2, <1>3
  <1>4. CASE \E e \in Int : /\ balance'[w] = Wrap(balance[w] + e)
                            /\ SumFunctionOnSet(Effects', BookedOn(w)') = sum + e
    <2>1. PICK e \in Int : /\ balance'[w] = Wrap(balance[w] + e)
                           /\ SumFunctionOnSet(Effects', BookedOn(w)') = sum + e
      BY <1>4
    <2>2. balance'[w] = Wrap((OpeningBalance[w] + sum) + e)
      <3>1. PICK x \in Int : x = OpeningBalance[w] + sum
        BY <1>2
      <3>2. Wrap(Wrap(x) + e) = Wrap(x + e)
        BY WrapAdd
      <3> QED
        BY <1>2, <2>1, <3>1, <3>2
    <2>3. (OpeningBalance[w] + sum) + e = OpeningBalance[w] + (sum + e)
      BY <1>2
    <2> QED
      BY <2>1, <2>2, <2>3
  <1>5. \/ /\ balance'[w] = balance[w]
           /\ SumFunctionOnSet(Effects', BookedOn(w)') = SumFunctionOnSet(Effects, BookedOn(w))
        \/ \E e \in Int :
              /\ balance'[w] = Wrap(balance[w] + e)
              /\ SumFunctionOnSet(Effects', BookedOn(w)') =
                   SumFunctionOnSet(Effects, BookedOn(w)) + e
    BY SumStep
  <1> QED
    BY <1>1, <1>3, <1>4, <1>5

\* Both hold in every reachable state.
LEMMA SumsInvariance == Spec => [](FinitelyMany /\ BalanceIsLedgerSum)
  <1>1. Init => FinitelyMany /\ BalanceIsLedgerSum
    <2> SUFFICES ASSUME Init PROVE FinitelyMany /\ BalanceIsLedgerSum
      OBVIOUS
    <2>1. Rows = {}
      BY DEF Init, Rows
    <2>2. \A w \in Wallets : BookedOn(w) = {} /\ OpeningBalance[w] \in Int64
      BY <2>1, ConstantsAssumption DEF BookedOn, Int64
    <2>3. ASSUME NEW w \in Wallets
          PROVE  balance[w] = Wrap(OpeningBalance[w] + SumFunctionOnSet(Effects, BookedOn(w)))
      <3>1. SumFunctionOnSet(Effects, BookedOn(w)) = 0
        BY <2>2, SumEmpty
      <3>2. OpeningBalance[w] + 0 = OpeningBalance[w]
        BY <2>2, ConstantsAssumption DEF Int64
      <3>3. Wrap(OpeningBalance[w]) = OpeningBalance[w]
        BY <2>2, WrapIdentity
      <3> QED
        BY <3>1, <3>2, <3>3 DEF Init
    <2> QED
      BY <2>1, <2>3, FS_EmptySet DEF FinitelyMany, BalanceIsLedgerSum
  <1>2. IInv /\ IInv' /\ FinitelyMany /\ BalanceIsLedgerSum /\ [Next]_vars
          => (FinitelyMany /\ BalanceIsLedgerSum)'
    <2> SUFFICES ASSUME IInv, IInv', FinitelyMany, BalanceIsLedgerSum, [Next]_vars
                 PROVE  FinitelyMany' /\ BalanceIsLedgerSum'
      OBVIOUS
    <2>1. TypeOK /\ TypeOK'
      BY DEF IInv
    <2>2. ChangeIsBooked /\ OnlyReversals
      BY ChangeStep, HistoryStep
    <2>3. FinitelyMany'
      BY <2>1, <2>2, FiniteStep
    <2> QED
      BY <2>1, <2>2, <2>3, BalanceStep
  <1> QED
    BY <1>1, <1>2, Invariance, PTL DEF Spec

\* Every balance is the opening balance and what the rows of the wallet add up to,
\* modulo int64, whatever interleaves and fails: no update is lost and none is
\* made twice.
THEOREM BalancesAreSums == Spec => []BalanceIsLedgerSum
  BY SumsInvariance, PTL

-----------------------------------------------------------------------------
(* Balances and funds. *)

\* The rows of a wallet besides its top-ups: refunds, payments that stand, and
\* payments that were refunded.
Refunds(w) == {id \in BookedOn(w) : txns[id].type = "REFUND"}
Paid(w) == {id \in BookedOn(w) : txns[id].type = "PAYMENT" /\ txns[id].status = "SUCCESS"}
PaidBack(w) == {id \in BookedOn(w) : txns[id].status = "REVERSED"}

\* There is no other row.
LEMMA WalletRows ==
  ASSUME IInv, FinitelyMany, NEW w
  PROVE  /\ BookedOn(w) = ((ToppedUp(w) \cup Refunds(w)) \cup Paid(w)) \cup PaidBack(w)
         /\ ToppedUp(w) \cap Refunds(w) = {}
         /\ (ToppedUp(w) \cup Refunds(w)) \cap Paid(w) = {}
         /\ ((ToppedUp(w) \cup Refunds(w)) \cup Paid(w)) \cap PaidBack(w) = {}
         /\ \A ids \in SUBSET BookedOn(w) : IsFiniteSet(ids)
         /\ \A id \in BookedOn(w) : /\ Amounts[id] = txns[id].amount
                                    /\ Amounts[id] \in Int /\ Amounts[id] >= 1
  <1>1. \A id \in Rows : /\ txns[id].type \in TransactionType
                         /\ txns[id].amount \in Int /\ txns[id].amount >= 1
                         /\ txns[id].status \in {"SUCCESS", "REVERSED"}
                         /\ txns[id].status = "REVERSED" => txns[id].type = "PAYMENT"
    <2> SUFFICES ASSUME NEW id \in Rows
                 PROVE  /\ txns[id].type \in TransactionType
                        /\ txns[id].amount \in Int
                        /\ txns[id].amount >= 1
                        /\ txns[id].status \in {"SUCCESS", "REVERSED"}
                        /\ txns[id].status = "REVERSED" => txns[id].type = "PAYMENT"
      OBVIOUS
    <2>1. txns[id] \in Transaction
      BY DEF IInv, TypeOK, Rows
    <2>2. txns[id].type \in TransactionType /\ txns[id].amount \in Int
      BY <2>1, ConstantsAssumption DEF Transaction, Int64
    <2> QED
      BY <2>2 DEF IInv, RowsWellFormed
  <1>2. /\ ToppedUp(w) \cap Refunds(w) = {}
        /\ (ToppedUp(w) \cup Refunds(w)) \cap Paid(w) = {}
    BY DEF ToppedUp, Refunds, Paid
  <1>3. ((ToppedUp(w) \cup Refunds(w)) \cup Paid(w)) \cap PaidBack(w) = {}
    BY <1>1 DEF ToppedUp, Refunds, Paid, PaidBack, BookedOn
  <1>4. BookedOn(w) = ((ToppedUp(w) \cup Refunds(w)) \cup Paid(w)) \cup PaidBack(w)
    BY <1>1 DEF ToppedUp, Refunds, Paid, PaidBack, BookedOn, TransactionType
  <1>5. BookedOn(w) \subseteq Rows
    BY DEF BookedOn
  <1>6. \A ids \in SUBSET BookedOn(w) : IsFiniteSet(ids)
    BY <1>5, FS_Subset DEF FinitelyMany
  <1>7. \A id \in BookedOn(w) : /\ Amounts[id] = txns[id].amount
                                /\ Amounts[id] \in Int /\ Amounts[id] >= 1
    BY <1>1, <1>5 DEF Amounts
  <1> QED
    BY <1>2, <1>3, <1>4, <1>6, <1>7

\* What was refunded is at most what the refunded payments took: every refund has a
\* payment of its own, and every refunded payment a refund.
LEMMA RefundsCovered ==
  ASSUME IInv, FinitelyMany, NEW w
  PROVE  SumFunctionOnSet(Amounts, Refunds(w)) <= SumFunctionOnSet(Amounts, PaidBack(w))
  <1> DEFINE h == [id \in Refunds(w) |-> txns[id].orig]
  <1>1. /\ Refunds(w) \subseteq BookedOn(w) /\ PaidBack(w) \subseteq BookedOn(w)
        /\ Refunds(w) \subseteq OfType("REFUND")
    BY DEF Refunds, PaidBack, BookedOn, OfType
  <1>2. \A id \in Refunds(w) : h[id] = txns[id].orig
    OBVIOUS
  <1>3. \A s \in Refunds(w) : /\ txns[s].orig \in PaidBack(w)
                              /\ txns[s].amount <= txns[txns[s].orig].amount
    <2> SUFFICES ASSUME NEW s \in Refunds(w)
                 PROVE  /\ txns[s].orig \in PaidBack(w)
                        /\ txns[s].amount <= txns[txns[s].orig].amount
      OBVIOUS
    <2>1. /\ txns[s].orig \in OfType("PAYMENT")
          /\ txns[txns[s].orig].status = "REVERSED"
          /\ txns[s].wallet = txns[txns[s].orig].wallet
          /\ txns[s].amount \in 1 .. txns[txns[s].orig].amount
      BY <1>1 DEF IInv, RefundedOnce
    <2>2. txns[s].orig \in PaidBack(w)
      BY <2>1 DEF PaidBack, Refunds, BookedOn, OfType
    <2> QED
      BY <1>1, <2>1, <2>2, WalletRows
  <1>4. \A o \in PaidBack(w) : \E s \in Refunds(w) : txns[s].orig = o
    <2> SUFFICES ASSUME NEW o \in PaidBack(w)
                 PROVE  \E s \in Refunds(w) : txns[s].orig = o
      OBVIOUS
    <2>1. PICK s \in OfType("REFUND") : txns[s].orig = o
      BY DEF IInv, RefundedOnce, PaidBack, BookedOn
    <2>2. txns[s].wallet = txns[o].wallet
      BY <2>1 DEF IInv, RefundedOnce
    <2> QED
      BY <2>1, <2>2 DEF Refunds, PaidBack, BookedOn, OfType
  <1>5. {h[x] : x \in Refunds(w)} = PaidBack(w)
    BY <1>2, <1>3, <1>4
  <1>6. \A x, y \in Refunds(w) : h[x] = h[y] => x = y
    BY <1>1, <1>2 DEF IInv, RefundedOnce
  <1>7. /\ \A x \in Refunds(w) : h[x] \in PaidBack(w) /\ Amounts[x] \in Int
        /\ \A y \in PaidBack(w) : Amounts[y] \in Int
    BY <1>1, <1>2, <1>3, WalletRows
  <1>8. \A x \in Refunds(w) : Amounts[x] <= Amounts[h[x]]
    BY <1>1, <1>2, <1>3, WalletRows
  <1>9. IsFiniteSet(Refunds(w)) /\ IsFiniteSet(PaidBack(w))
    BY <1>1, WalletRows
  <1> HIDE DEF h
  <1>10. SumFunctionOnSet(Amounts, Refunds(w)) <=
           SumFunctionOnSet(Amounts, {h[x] : x \in Refunds(w)})
    BY <1>6, <1>7, <1>8, <1>9, SumPartners
  <1> QED
    BY <1>5, <1>10

\* The rows of a wallet add up by parts.
LEMMA SumOfParts ==
  ASSUME IInv, FinitelyMany, NEW w
  PROVE  LET T(ids) == SumFunctionOnSet(Amounts, ids)
         IN  /\ T(ToppedUp(w)) \in Int /\ T(Refunds(w)) \in Int
             /\ T(Paid(w)) \in Int /\ T(PaidBack(w)) \in Int
             /\ T(Paid(w)) >= 0
             /\ SumFunctionOnSet(Effects, BookedOn(w)) =
                  T(ToppedUp(w)) + T(Refunds(w)) - T(Paid(w)) - T(PaidBack(w))
  <1> DEFINE S(ids) == SumFunctionOnSet(Effects, ids)
             T(ids) == SumFunctionOnSet(Amounts, ids)
  <1>1. /\ BookedOn(w) \subseteq Rows
        /\ ToppedUp(w) \subseteq BookedOn(w) /\ Refunds(w) \subseteq BookedOn(w)
        /\ Paid(w) \subseteq BookedOn(w) /\ PaidBack(w) \subseteq BookedOn(w)
    BY DEF ToppedUp, Refunds, Paid, PaidBack, BookedOn
  <1>2. \A id \in BookedOn(w) : Effects[id] \in Int /\ Effects[id] = Signed(txns[id])
    BY <1>1, EffectsTyped DEF IInv
  <1>3. \A id \in BookedOn(w) : /\ Amounts[id] \in Int /\ Amounts[id] >= 1
                                /\ Amounts[id] = txns[id].amount
    BY WalletRows
  <1>4. /\ IsFiniteSet(ToppedUp(w)) /\ IsFiniteSet(Refunds(w)) /\ IsFiniteSet(Paid(w))
        /\ IsFiniteSet(PaidBack(w)) /\ IsFiniteSet(ToppedUp(w) \cup Refunds(w))
        /\ IsFiniteSet((ToppedUp(w) \cup Refunds(w)) \cup Paid(w))
    <2>1. \A ids \in SUBSET BookedOn(w) : IsFiniteSet(ids)
      BY WalletRows
    <2> QED
      BY <1>1, <2>1
  <1>5. S(BookedOn(w)) = S((ToppedUp(w) \cup Refunds(w)) \cup Paid(w)) + S(PaidBack(w))
    <2>1. S(((ToppedUp(w) \cup Refunds(w)) \cup Paid(w)) \cup PaidBack(w)) =
             S((ToppedUp(w) \cup Refunds(w)) \cup Paid(w)) + S(PaidBack(w))
      BY <1>1, <1>2, <1>4, WalletRows, SumUnion
    <2> QED
      BY <2>1, WalletRows
  <1>6. S((ToppedUp(w) \cup Refunds(w)) \cup Paid(w)) = S(ToppedUp(w) \cup Refunds(w)) + S(Paid(w))
    BY <1>1, <1>2, <1>4, WalletRows, SumUnion
  <1>7. S(ToppedUp(w) \cup Refunds(w)) = S(ToppedUp(w)) + S(Refunds(w))
    BY <1>1, <1>2, <1>4, WalletRows, SumUnion
  <1>8. S(ToppedUp(w)) = T(ToppedUp(w)) /\ S(Refunds(w)) = T(Refunds(w))
    <2>1. SameOn(Effects, Amounts, ToppedUp(w)) /\ SameOn(Effects, Amounts, Refunds(w))
      BY <1>1, <1>2, <1>3 DEF SameOn, Signed, ToppedUp, Refunds
    <2>2. /\ \A x \in ToppedUp(w) : Amounts[x] \in Int
          /\ \A x \in Refunds(w) : Amounts[x] \in Int
      BY <1>1, <1>3
    <2> QED
      BY <1>4, <2>1, <2>2, SumCongruence
  <1>9. S(Paid(w)) = -T(Paid(w)) /\ S(PaidBack(w)) = -T(PaidBack(w))
    <2>1. /\ \A x \in Paid(w) : Amounts[x] \in Int /\ Effects[x] = -Amounts[x]
          /\ \A x \in PaidBack(w) : Amounts[x] \in Int /\ Effects[x] = -Amounts[x]
      <3>1. \A x \in Paid(w) \cup PaidBack(w) : x \in Rows /\ txns[x].type = "PAYMENT"
        BY <1>1 DEF Paid, PaidBack, IInv, RowsWellFormed
      <3> QED
        BY <1>1, <1>2, <1>3, <3>1 DEF Signed
    <2> QED
      BY <1>4, <2>1, SumNegate
  <1>10. /\ T(ToppedUp(w)) \in Int /\ T(Refunds(w)) \in Int /\ T(Paid(w)) \in Int
         /\ T(PaidBack(w)) \in Int
    <2>1. /\ \A x \in ToppedUp(w) : Amounts[x] \in Int
          /\ \A x \in Refunds(w) : Amounts[x] \in Int
          /\ \A x \in Paid(w) : Amounts[x] \in Int
          /\ \A x \in PaidBack(w) : Amounts[x] \in Int
      BY <1>1, <1>3
    <2> QED
      BY <1>4, <2>1, SumType
  <1>11. T(Paid(w)) >= 0
    <2>1. \A x \in Paid(w) : Amounts[x] \in Int /\ Amounts[x] >= 0
      BY <1>1, <1>3
    <2> QED
      BY <1>4, <2>1, SumNonNegative
  <1> HIDE DEF S, T
  <1>12. S(BookedOn(w)) = T(ToppedUp(w)) + T(Refunds(w)) - T(Paid(w)) - T(PaidBack(w))
    BY <1>5, <1>6, <1>7, <1>8, <1>9, <1>10
  <1> QED
    BY <1>10, <1>11, <1>12 DEF S, T

\* Funds are never taken out of the reckoning.
LEMMA FundsStep ==
  ASSUME IInv, IInv', FinitelyMany, FinitelyMany', OnlyReversals, NEW w \in Wallets
  PROVE  PutIn(w) \in Int /\ PutIn(w)' \in Int /\ PutIn(w) <= PutIn(w)'
  <1> DEFINE old == ToppedUp(w)
             new == ToppedUp(w)' \ ToppedUp(w)
  <1>1. old \subseteq Rows /\ ToppedUp(w)' \subseteq Rows'
    BY DEF ToppedUp, BookedOn
  <1>2. ASSUME NEW id \in Rows
        PROVE  /\ id \in Rows' /\ txns'[id].wallet = txns[id].wallet
               /\ txns'[id].type = txns[id].type /\ txns'[id].amount = txns[id].amount
    <2>1. txns[id] \in Transaction
      BY DEF IInv, TypeOK, Rows
    <2>2. \/ txns'[id] = txns[id]
          \/ txns'[id] = [txns[id] EXCEPT !.status = "REVERSED"]
      BY DEF OnlyReversals
    <2>3. txns'[id] \in Transaction
      BY <2>1, <2>2 DEF Transaction, TransactionStatus
    <2> QED
      BY <2>1, <2>2, <2>3, NoneAssumption DEF Transaction, Rows
  <1>3. /\ \A id \in Rows : Amounts[id] = txns[id].amount
        /\ \A id \in Rows' : Amounts'[id] = txns'[id].amount
    BY DEF Amounts
  <1>4. ASSUME NEW id \in Rows' PROVE txns'[id].amount \in Int /\ txns'[id].amount >= 0
    <2>1. txns'[id] \in Transaction
      BY DEF IInv, TypeOK, Rows
    <2>2. txns'[id].amount \in Int
      BY <2>1, ConstantsAssumption DEF Transaction, Int64
    <2>3. txns'[id].amount >= 1
      BY DEF IInv, RowsWellFormed
    <2> QED
      BY <2>2, <2>3
  <1>5. old \subseteq ToppedUp(w)'
    BY <1>2 DEF ToppedUp, BookedOn
  <1>6. /\ old \cup new = ToppedUp(w)' /\ old \cap new = {}
        /\ old \subseteq Rows' /\ new \subseteq Rows'
    BY <1>1, <1>5
  <1>7. IsFiniteSet(old) /\ IsFiniteSet(new)
    BY <1>6, FS_Subset DEF FinitelyMany
  <1>8. \A id \in old \cup new : Amounts'[id] \in Int /\ Amounts'[id] >= 0
    BY <1>3, <1>4, <1>6
  <1>9. SameOn(Amounts', Amounts, old) /\ \A id \in old : Amounts[id] \in Int
    BY <1>1, <1>2, <1>3, <1>8 DEF SameOn
  <1> HIDE DEF old, new
  <1>10. SumFunctionOnSet(Amounts', old \cup new) =
           SumFunctionOnSet(Amounts', old) + SumFunctionOnSet(Amounts', new)
    BY <1>6, <1>7, <1>8, SumUnion
  <1>11. SumFunctionOnSet(Amounts', old) = SumFunctionOnSet(Amounts, old)
    BY <1>7, <1>9, SumCongruence
  <1>12. SumFunctionOnSet(Amounts', new) >= 0
    BY <1>7, <1>8, SumNonNegative
  <1>13. SumFunctionOnSet(Amounts, old) \in Int /\ SumFunctionOnSet(Amounts', new) \in Int
    BY <1>7, <1>8, <1>9, SumType
  <1>14. PutIn(w) = OpeningBalance[w] + SumFunctionOnSet(Amounts, old)
    BY DEF PutIn, old
  <1>15. PutIn(w)' = OpeningBalance[w] + SumFunctionOnSet(Amounts', old \cup new)
    BY <1>6 DEF PutIn
  <1>16. OpeningBalance[w] \in Int
    BY ConstantsAssumption
  <1> QED
    BY <1>10, <1>11, <1>12, <1>13, <1>14, <1>15, <1>16

\* No sum that would be exact is negative.
NotOverdrawn ==
    \A w \in Wallets :
        PutIn(w) < Half => OpeningBalance[w] + SumFunctionOnSet(Effects, BookedOn(w)) >= 0

\* Then nothing wraps.
LEMMA BalanceIsExact ==
  ASSUME IInv, FinitelyMany, BalanceIsLedgerSum, NotOverdrawn, NEW w \in Wallets,
         PutIn(w) < Half
  PROVE  /\ balance[w] = OpeningBalance[w] + SumFunctionOnSet(Effects, BookedOn(w))
         /\ balance[w] \in 0 .. PutIn(w)
  <1> DEFINE T(ids) == SumFunctionOnSet(Amounts, ids)
  <1>1. /\ T(ToppedUp(w)) \in Int /\ T(Refunds(w)) \in Int
        /\ T(Paid(w)) \in Int /\ T(PaidBack(w)) \in Int
        /\ T(Paid(w)) >= 0
        /\ SumFunctionOnSet(Effects, BookedOn(w)) =
             T(ToppedUp(w)) + T(Refunds(w)) - T(Paid(w)) - T(PaidBack(w))
    BY SumOfParts
  <1>2. T(Refunds(w)) <= T(PaidBack(w))
    BY RefundsCovered
  <1>3. PutIn(w) = OpeningBalance[w] + T(ToppedUp(w))
    BY DEF PutIn
  <1>4. OpeningBalance[w] \in Int /\ Half \in Nat
    BY ConstantsAssumption
  <1> HIDE DEF T
  <1>5. PICK x \in Int : x = OpeningBalance[w] + SumFunctionOnSet(Effects, BookedOn(w))
    BY <1>1, <1>4
  <1>6. PutIn(w) \in Int /\ x <= PutIn(w)
    BY <1>1, <1>2, <1>3, <1>4, <1>5
  <1>7. x >= 0
    BY <1>5 DEF NotOverdrawn
  <1>8. x \in Int64
    BY <1>4, <1>6, <1>7 DEF Int64
  <1>9. balance[w] = x
    BY <1>5, <1>8, WrapIdentity DEF BalanceIsLedgerSum
  <1> QED
    BY <1>5, <1>6, <1>7, <1>9

LEMMA OverdraftStep ==
  ASSUME IInv, IInv', FinitelyMany, FinitelyMany', BalanceIsLedgerSum, NotOverdrawn, [Next]_vars
  PROVE  NotOverdrawn'
  <1> SUFFICES ASSUME NEW w \in Wallets, PutIn(w)' < Half
               PROVE  OpeningBalance[w] + SumFunctionOnSet(Effects', BookedOn(w)') >= 0
    BY DEF NotOverdrawn
  <1>1. ChangeIsBooked /\ OnlyReversals /\ TypeOK /\ TypeOK'
    BY ChangeStep, HistoryStep DEF IInv
  <1>2. PutIn(w) < Half
    <2>1. PutIn(w) \in Int /\ PutIn(w)' \in Int /\ PutIn(w) <= PutIn(w)' /\ Half \in Int
      BY <1>1, FundsStep, ConstantsAssumption
    <2> QED
      BY <2>1
  <1>3. PICK sum \in Int : sum = SumFunctionOnSet(Effects, BookedOn(w))
    BY <1>1, SumStep
  <1>4. /\ balance[w] = OpeningBalance[w] + sum /\ OpeningBalance[w] \in Int
        /\ balance[w] \in Int /\ balance[w] >= 0
    <2>1. balance[w] = OpeningBalance[w] + sum /\ balance[w] \in 0 .. PutIn(w)
      BY <1>2, <1>3, BalanceIsExact
    <2>2. OpeningBalance[w] \in Int
      BY ConstantsAssumption
    <2> QED
      BY <2>1, <2>2
  <1>5. CASE SumFunctionOnSet(Effects', BookedOn(w)') = sum
    BY <1>4, <1>5
  <1>6. CASE \E id \in Rows' \ Rows :
                /\ Signed(txns'[id]) \in Int
                /\ txns'[id].type = "PAYMENT" => txns'[id].amount \in 1 .. balance[w]
                /\ SumFunctionOnSet(Effects', BookedOn(w)') = sum + Signed(txns'[id])
    <2>1. PICK id \in Rows' \ Rows :
                /\ Signed(txns'[id]) \in Int
                /\ txns'[id].type = "PAYMENT" => txns'[id].amount \in 1 .. balance[w]
                /\ SumFunctionOnSet(Effects', BookedOn(w)') = sum + Signed(txns'[id])
      BY <1>6
    <2>2. balance[w] + Signed(txns'[id]) >= 0
      <3>1. CASE txns'[id].type = "PAYMENT"
        BY <1>4, <2>1, <3>1 DEF Signed
      <3>2. CASE txns'[id].type # "PAYMENT"
        <4>1. txns'[id].amount >= 1
          BY DEF IInv, RowsWellFormed
        <4> QED
          BY <1>4, <2>1, <3>2, <4>1 DEF Signed
      <3> QED
        BY <3>1, <3>2
    <2> QED
      BY <1>4, <2>1, <2>2
  <1>7. \/ SumFunctionOnSet(Effects', BookedOn(w)') = SumFunctionOnSet(Effects, BookedOn(w))
        \/ \E id \in Rows' \ Rows :
              /\ Signed(txns'[id]) \in Int
              /\ txns'[id].type = "PAYMENT" => txns'[id].amount \in 1 .. balance[w]
              /\ SumFunctionOnSet(Effects', BookedOn(w)') =
                   SumFunctionOnSet(Effects, BookedOn(w)) + Signed(txns'[id])
    BY <1>1, SumStep
  <1> QED
    BY <1>3, <1>5, <1>6, <1>7

\* While all that was ever put into a wallet fits int64, its balance is neither
\* negative nor more than that: payments do not overdraw it together, and refunds
\* give back no more than was paid.
THEOREM BalancesWithinFunds == Spec => []BalanceWithinFunds
  <1>1. Init => NotOverdrawn
    <2> SUFFICES ASSUME Init, NEW w \in Wallets
                 PROVE  OpeningBalance[w] + SumFunctionOnSet(Effects, BookedOn(w)) >= 0
      BY DEF NotOverdrawn
    <2>1. BookedOn(w) = {}
      BY DEF Init, BookedOn, Rows
    <2>2. SumFunctionOnSet(Effects, BookedOn(w)) = 0
      BY <2>1, SumEmpty
    <2> QED
      BY <2>2, ConstantsAssumption
  <1>2. /\ IInv /\ IInv' /\ FinitelyMany /\ FinitelyMany' /\ BalanceIsLedgerSum
        /\ NotOverdrawn /\ [Next]_vars
        => NotOverdrawn'
    BY OverdraftStep
  <1>3. IInv /\ FinitelyMany /\ BalanceIsLedgerSum /\ NotOverdrawn => BalanceWithinFunds
    BY BalanceIsExact DEF BalanceWithinFunds
  <1> QED
    BY <1>1, <1>2, <1>3, Invariance, SumsInvariance, PTL DEF Spec

===============================================================================
