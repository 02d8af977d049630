SPECIFICATION Spec
CONSTANTS
  alice = alice
  bob = bob
  r1 = r1
  r2 = r2
  c1 = c1
  c2 = c2
  a1 = a1
  a2 = a2
  None = None
  User = {alice}
  Answer = {a1}
  Deletable = {}
  Request = {r1, r2}
  Consumer = {c1}
  Action = {"up", "down"}
  Fault = {}
  U64 = 16
  MaxMsgs = 2
  MaxFaults = 0
CHECK_DEADLOCK FALSE
INVARIANT RepliedCountPlausible
