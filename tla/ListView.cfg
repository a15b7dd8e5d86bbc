\* Two namespaces of two ids, pages of one or two, two changes by others.
CONSTANTS
  Namespaces <- MCNamespaces
  Ids <- MCIds
  PageSizes = {0, 1}
  default_page_size = 2
  max_page_size = 2
  MaxChanges = 2
SPECIFICATION Spec
INVARIANTS
  TypeOK
  OneListShown
  UndisturbedList
  DeletedStaysGone
