\* Two keys in RocksDB: the drain is interrupted between them.  Liveness is
\* checked here too, so there is no symmetry.
CONSTANTS
  Keys = {k1, k2}
  Values = {v1}
  None = None
  Unknown = Unknown
  Tasks = {t1}
  Main = Main
  MaxAttempts = 2
  MaxLog = 3
SPECIFICATION HFairSpec
INVARIANTS
  AckedSurvives
  OneHome
PROPERTIES
  OutageMissedOnlyInProbe
  BootWaitsOnlyForClient
  LatchedFailover
