SPECIFICATION Spec
CONSTANTS
  NULL = NULL
  e1 = e1  e2 = e2  e3 = e3  e4 = e4  e5 = e5
INVARIANTS ContainersAsPromised LibraryAsPromised
PROPERTY PopsMostUrgent
CHECK_DEADLOCK FALSE
