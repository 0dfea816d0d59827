SPECIFICATION FairSpec
CONSTANTS
  None = None
  Deliveries = {d1}
  Retries = 5
  Faults = {"crash"}
PROPERTY
  EventIsPosted
