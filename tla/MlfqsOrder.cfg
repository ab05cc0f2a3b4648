SPECIFICATION Spec
CONSTANTS
  Idle = Idle
  Threads = {t1, t2, t3}
  initial_thread = t1
  F_BITS = 8
  PRI_MAX = 4
  PRI_DEFAULT = 2
  TIMER_FREQ = 4
  RECALC = 2
  TIME_SLICE = 2
  WINDOW = 4
  Nices = {0, 1}
PROPERTY HighestChosen
CHECK_DEADLOCK FALSE
