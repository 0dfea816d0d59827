SPECIFICATION RSpec
CONSTANTS
  m1 = m1
  m2 = m2
  vnd = vnd
  None = None
  Requests = {r1, r2, r3}
  Inputs <- Workload
  Merchants = {m1, m2}
  Currencies = {vnd}
  Vnd = vnd
  Wallets <- VndWallets
  OpeningBalance <- Opening3
  Refs <- MCRefs
  ClientRefs = {"a"}
  RefundRef <- MCRefundRef
  TopupRef <- MCTopupRef
  Half = 4
  Faults = {}
  Filters <- MCFilters
  Sizes = {0, 2}
  MaxSize = 2
  DefaultSize = 1
  ListMayFail = TRUE
SYMMETRY Symmetry
INVARIANTS
  StatsReconcile
  NothingMissed
