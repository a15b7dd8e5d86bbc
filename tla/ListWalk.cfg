\* Two namespaces of three ids, pages of one, two or three, three changes on the
\* way.  The default is above the maximum, which the configuration allows.
CONSTANTS
  Namespaces <- MCNamespaces
  Ids <- MCIds
  PageSizes = {0, 1, 5}
  default_page_size = 3
  max_page_size = 2
  MaxChanges = 3
SPECIFICATION FairSpec
INVARIANTS
  TypeOK
  AscendingOnce
  StableKeysListed
  OnlyOwnKeys
PROPERTIES
  PageSizeKept
  WalkEnds
\* A walk that is over stays over.
CHECK_DEADLOCK FALSE
