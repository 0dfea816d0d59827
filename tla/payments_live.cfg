SPECIFICATION FairSpec
CONSTANTS
  m1 = m1
  m2 = m2
  vnd = vnd
  usd = usd
  None = None
  Requests = {r1, r2, r3}
  Inputs <- TwoMerchants
  Merchants = {m1, m2}
  Currencies = {vnd, usd}
  Wallets <- VndWallets
  OpeningBalance <- Opening3
  Refs <- MCRefs
  ClientRefs = {"a", "REFUND-a"}
  RefundRef <- MCRefundRef
  TopupRef <- MCTopupRef
  Half = 16
  Faults = {"cache", "db", "crypto", "commit", "crash"}
INVARIANTS
  RefusalsAreTrue
  BalanceWithinFunds
PROPERTIES
  EveryCallReturns
