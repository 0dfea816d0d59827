SPECIFICATION FairSpec
CONSTANTS
  None = None
  Deliveries = {d1, d2}
  Retries = 2
  Faults = {"db", "crypto", "network", "crash"}
INVARIANTS
  TypeOK
  LogTellsTheTruth
PROPERTIES
  DeliveryMovesForward
  DeliverySettles
