SPECIFICATION Spec
CONSTANTS
  None = None
  Calls = {c1, c2, c3}
  Inputs <- Workload
  Refs = {"a"}
  URLs = {"u1"}
  Users = {"alice"}
  Opening = 2
  Half = 8
  Retries = 1
  Faults = {"db", "crypto", "crash"}
  DeliveryFaults = {"crypto"}
SYMMETRY Symmetry
INVARIANTS
  PostsAreBooked
  URLAndSecretBelongTogether
  AuditTellsTheTruth
