\* Two handlers write one key through crashes, outages and drains.
CONSTANTS
  Keys = {k1}
  Values = {v1, v2}
  None = None
  Unknown = Unknown
  Tasks = {t1, t2}
  Main = Main
  MaxAttempts = 2
  MaxLog = 2
SPECIFICATION HSpec
INVARIANT DegradedWritesSurvive
