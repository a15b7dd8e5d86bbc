\* Every topic of up to three slots, one more record arriving while it is read.
CONSTANTS
  Keys = {k1, k2}
  Values = {v1}
  None = None
  Hole = Hole
  NoKey = NoKey
  MCLen = 3
  Topics <- MCTopics
  MaxLog = 4
SPECIFICATION FairSpec
INVARIANTS
  TypeOK
  ReadPrefix
  LoadMissesOnlyHidden
PROPERTY LoadEnds
\* The load returns and is over.
CHECK_DEADLOCK FALSE
