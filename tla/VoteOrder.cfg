SPECIFICATION FairSpec
CONSTANTS
  alice = alice
  bob = bob
  r1 = r1
  r2 = r2
  c1 = c1
  c2 = c2
  a1 = a1
  a2 = a2
  None = None
  User = {alice}
  Answer = {a1, a2}
  Deletable = {a2}
  Request = {r1}
  Consumer = {c1}
  Action = {"up", "down", "other"}
  Fault = {"read", "publish", "db", "commit", "ack", "stop", "crash", "connection"}
  U64 = 16
  MaxMsgs = 3
  MaxFaults = 2
CHECK_DEADLOCK FALSE
INVARIANT LastMessageWins
PROPERTY EveryVoteHandled
