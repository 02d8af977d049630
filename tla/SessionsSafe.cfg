SPECIFICATION Spec
CONSTANTS
  alice = alice
  bob = bob
  p1 = p1
  p2 = p2
  o1 = o1
  o2 = o2
  r1 = r1
  r2 = r2
  None = None
  User = {alice, bob}
  Client = {p1, p2}
  OpenId = {o1, o2}
  Request = {r1, r2}
  Fault = {"insert", "read", "save", "delete"}
  Lifetime = 2
  MaxTime = 3
  MaxLogins = 2
  MaxFaults = 1
CHECK_DEADLOCK FALSE
SYMMETRY Interchangeable
INVARIANT TypeOK
INVARIANT RegistrationHolds
INVARIANT OneClientPerName
INVARIANT SessionOutlivesTokens
PROPERTY ImplementsAccounts
