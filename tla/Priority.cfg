SPECIFICATION MCSpec
CONSTANTS
  Threads = {t1, t2, t3}
  Locks = {l1}
  Semas = {s1}
  Idle = Idle
  NULL = NULL
  SemaMax = 1
  PRI_MAX = 1
  Bases <- LowBase
  NewPriorities = {}
  DONATE_MAX_DEPTH = 8
  Uninterrupted = {}
  k1 = k1  k2 = k2
SYMMETRY ThreadSymmetry
INVARIANTS WaitersDonate  ChainDonates
PROPERTIES DispatchesHighest RefinesSynch
CHECK_DEADLOCK FALSE
