SPECIFICATION LiveSpec
CONSTANTS
  Threads = {t1, t2, t3}
  Locks = {l1}
  Semas = {s1}
  Idle = Idle
  NULL = NULL
  SemaMax = 1
  PRI_MAX = 2
  Bases <- OneBase
  NewPriorities = {}
  DONATE_MAX_DEPTH = 8
  Uninterrupted = {}
PROPERTIES NoInversion
CHECK_DEADLOCK FALSE
