SPECIFICATION Spec
CONSTANTS
  None = None
  Deliveries = {d1}
  Retries = 5
  Faults = {}
INVARIANT AttemptsAtMostFive
