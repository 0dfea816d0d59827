SPECIFICATION Spec
CONSTANTS
  m1 = m1
  m2 = m2
  vnd = vnd
  usd = usd
  None = None
  Requests = {r1, r2, r3, r4}
  Inputs <- OneReference
  Merchants = {m1}
  Currencies = {vnd, usd}
  Wallets <- VndWallets
  OpeningBalance <- Opening3
  Refs <- MCRefs
  ClientRefs = {"a"}
  RefundRef <- MCRefundRef
  TopupRef <- MCTopupRef
  Half = 4
  Faults = {"cache", "db", "crypto", "commit", "crash"}
SYMMETRY Symmetry
INVARIANTS
  TypeOK
  ChargedOnce
  RefundedOnce
  LogMatchesRows
  CacheMatchesLog
  LockProtectsBalance
  AnswersCommitted
  BalanceIsLedgerSum
PROPERTIES
  EveryChangeIsBooked
  HistoryIsKept
  ImplementsLedger
