SPECIFICATION Spec
CONSTANTS
  m1 = m1
  m2 = m2
  vnd = vnd
  usd = usd
  None = None
  Requests = {r1, r2}
  Inputs <- DuplicatePayments
  Merchants = {m1}
  Currencies = {vnd, usd}
  Wallets <- VndWallets
  OpeningBalance <- Opening9
  Refs <- MCRefs
  ClientRefs = {"a"}
  RefundRef <- MCRefundRef
  TopupRef <- MCTopupRef
  Half = 16
  Faults = {}
INVARIANT DuplicateReturnsPrevious
