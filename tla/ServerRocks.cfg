\* Three callers, two of whom can meet in the middle of the delete of a third,
\* and the process starts, serves, is signalled or killed around them.
CONSTANTS
  Keys = {k1}
  Values = {v1, v2}
  None = None
  Callers = {c1, c2, c3}
SPECIFICATION SFairSpec
INVARIANTS
  TypeOK
  ServerTypeOK
PROPERTIES
  ImplementsStorage
  ShutdownEnds
