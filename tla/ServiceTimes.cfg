\* Two handlers on one key, three reads: two puts that overlap and one that
\* comes after them; three milliseconds, in a clock that may step back; and a
\* get_stats whose loads fall between the steps of the handlers.
CONSTANTS
  Keys = {k1}
  None = None
  Handlers = {h1, h2}
  MaxClock = 2
  MaxReads = 3
  MaxLists = 1
SPECIFICATION Spec
SYMMETRY Symmetry
CONSTRAINT StatsAtFirst
INVARIANTS
  TypeOK
  ReadsCoverWrites
  StatsFromTheCall
PROPERTY SerialPutKeepsTimes
