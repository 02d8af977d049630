SPECIFICATION FairSpec
CONSTANTS
  q1 = q1
  q2 = q2
  r1 = r1
  f1 = f1
  f2 = f2
  None = None
  Question = {q1, q2}
  Deletable = {q2}
  Request = {r1}
  Flusher = {f1}
  Fault = {}
  MaxReads = 1
  MaxFaults = 0
CHECK_DEADLOCK FALSE
PROPERTY ReadsReachTable
