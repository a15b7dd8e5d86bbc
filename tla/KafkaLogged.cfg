\* Two callers, two keys, two values, three records: every produce outcome.
CONSTANTS
  Keys = {k1, k2}
  Values = {v1, v2}
  None = None
  Callers = {c1, c2}
  MaxLog = 3
SPECIFICATION HSpec
SYMMETRY Symmetry
INVARIANTS
  HistoryTypeOK
  ReadsAreLogged
  SerialKeysCoherent
PROPERTIES
  ChangesAreLogged
  ImplementsStorage
