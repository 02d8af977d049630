SPECIFICATION Spec
CONSTANTS
  q1 = q1
  q2 = q2
  r1 = r1
  f1 = f1
  f2 = f2
  None = None
  Question = {q1}
  Deletable = {q1}
  Request = {r1}
  Flusher = {f1, f2}
  Fault = {}
  MaxReads = 3
  MaxFaults = 0
CHECK_DEADLOCK FALSE
PROPERTY ImplementsTally
