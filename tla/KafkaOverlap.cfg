\* Two callers write one key and every write is acknowledged.
CONSTANTS
  Keys = {k1}
  Values = {v1, v2}
  None = None
  Callers = {c1, c2}
  MaxLog = 3
SPECIFICATION HSpec
INVARIANT AckedKeysCoherent
