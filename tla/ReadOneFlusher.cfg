SPECIFICATION FairSpec
CONSTANTS
  q1 = q1
  q2 = q2
  r1 = r1
  f1 = f1
  f2 = f2
  None = None
  Question = {q1, q2}
  Deletable = {q2}
  Request = {r1}
  Flusher = {f1}
  Fault = {"scan", "write", "subtract", "crash"}
  MaxReads = 2
  MaxFaults = 2
CHECK_DEADLOCK FALSE
INVARIANT TypeOK
INVARIANT NoReadLost
INVARIANT PendingNotNegative
INVARIANT ReplyCountsItself
INVARIANT FlushMovesAll
PROPERTY FlushCatchesUp
