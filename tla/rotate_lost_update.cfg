SPECIFICATION Spec
CONSTANTS
  m1 = m1
  m2 = m2
  alice = alice
  bob = bob
  carol = carol
  right = right
  wrong = wrong
  None = None
  Calls = {c1, c2}
  Existing = {m1}
  Usernames = {alice}
  Passwords = {right}
  URLs = {u1}
  NameOf <- OneNameOf
  PasswordOf <- OnePasswordOf
  Faults = {}
SYMMETRY Symmetry
PROPERTY OnlyTheURLChanges
