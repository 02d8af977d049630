SPECIFICATION OneTableSpec
CONSTANTS
  alice = alice
  r1 = r1
  User = {alice}
  Question = {1, 2}
  Reader = {r1}
  Limit = {1, 2}
  MaxId = 3
  MaxEdits = 3
CHECK_DEADLOCK FALSE
INVARIANT TypeOK
INVARIANT WalkComplete
INVARIANT WalkRepeatsNothing
INVARIANT QuietListComplete
PROPERTY CursorDescends
PROPERTY WalkEnds
