SPECIFICATION Spec
CONSTANTS
  Idle = Idle
  NULL = NULL
  t1 = t1  t2 = t2  t3 = t3  t4 = t4
  l1 = l1  s1 = s1
INVARIANTS HighestRuns  SignalsKept
PROPERTIES  RoundRobin   
CHECK_DEADLOCK FALSE
