SPECIFICATION Spec
CONSTANTS
  m1 = m1
  m2 = m2
  n1 = n1
  k1 = k1
  k2 = k2
  k3 = k3
  ip = ip
  None = None
  Attempts = {a1, a2}
  Messages <- MCMessages
  Senders = {m1, m2}
  Callers = {k1, k2, k3, m1, ip}
  Nonces = {n1}
  Groups = {"payments"}
  Limit <- MCLimit
  Window = 2
  Drift = 1
  NonceTTL = 2
  Second = 2
  MaxTime = 8
  Faults = {"db", "redis", "crypto", "body", "crash"}
SYMMETRY Symmetry
INVARIANTS
  TypeOK
  WindowLimit
  NonceRefusalIsTrue
PROPERTY
  SecondPassExplained
CHECK_DEADLOCK FALSE
