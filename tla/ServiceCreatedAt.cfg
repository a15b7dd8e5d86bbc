\* Two puts create one key together.
CONSTANTS
  Keys = {k1}
  None = None
  Handlers = {h1, h2}
  MaxClock = 1
  MaxReads = 3
  MaxLists = 0
SPECIFICATION Spec
PROPERTY CreatedAtPreserved
