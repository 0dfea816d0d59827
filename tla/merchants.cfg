SPECIFICATION Spec
CONSTANTS
  m1 = m1
  m2 = m2
  alice = alice
  bob = bob
  carol = carol
  right = right
  wrong = wrong
  None = None
  Calls = {c1, c2, c3}
  Existing = {m1, m2}
  Usernames = {alice, bob, carol}
  Passwords = {right, wrong}
  URLs = {u1}
  NameOf <- MCNameOf
  PasswordOf <- MCPasswordOf
  Faults = {"db", "answer", "crypto", "crash"}
SYMMETRY Symmetry
INVARIANTS
  TypeOK
  UsernamesUnique
  RegistrationComplete
  KeysBelongToMerchant
  TokensAreEarned
