SPECIFICATION Spec
CONSTANTS
  alice = alice
  bob = bob
  p1 = p1
  p2 = p2
  o1 = o1
  o2 = o2
  r1 = r1
  r2 = r2
  None = None
  User = {alice}
  Client = {p1}
  OpenId = {o1}
  Request = {r1, r2}
  Fault = {}
  Lifetime = 2
  MaxTime = 1
  MaxLogins = 2
  MaxFaults = 0
CHECK_DEADLOCK FALSE
INVARIANT OneLoginAtATime
