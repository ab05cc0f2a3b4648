SPECIFICATION Spec
CONSTANTS
  Threads = {t1, t2, t3}
  Locks = {l1, l2}
  Semas = {s1}
  Idle = Idle
  NULL = NULL
  SemaMax = 2
SYMMETRY Symmetry
INVARIANTS OneQueuePerThread MutualExclusion HolderNamesOwner
           NoLostWakeup NeverIdleWithWorkToDo
PROPERTY ImplementsLockSpec
