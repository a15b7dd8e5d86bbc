\* The broker has dropped its oldest records before the load.
CONSTANTS
  Keys = {k1, k2}
  Values = {v1}
  None = None
  Hole = Hole
  NoKey = NoKey
  MCLen = 2
  Topics <- MCTopics
  MaxLog = 4
SPECIFICATION Spec
INVARIANT LoadFromOffsetZero
CHECK_DEADLOCK FALSE
