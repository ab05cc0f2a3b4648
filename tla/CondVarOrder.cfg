SPECIFICATION Spec
CONSTANTS
  Threads = {t1, t2, t3}
  NULL = NULL
  PRI_MAX = 1
PROPERTY WakesHighestFirst
CHECK_DEADLOCK FALSE
