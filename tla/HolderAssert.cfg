SPECIFICATION Spec
CONSTANTS
  Threads = {t1, t2, t3}
  Locks = {l1, l2}
  Semas = {s1}
  Idle = Idle
  NULL = NULL
  SemaMax = 1
  PRI_MAX = 2
  Bases <- DistinctBases
  NewPriorities = {}
  DONATE_MAX_DEPTH = 8
  Uninterrupted <- LockCode
SYMMETRY Symmetry
INVARIANTS HolderAssertHolds
CHECK_DEADLOCK FALSE
