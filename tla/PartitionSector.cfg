SPECIFICATION Spec
CONSTANTS
  NULL = NULL
  r1 = r1  r2 = r2  w1 = w1  w2 = w2  a = a
  t1 = t1  t2 = t2  d1 = d1  d2 = d2  u1 = u1  u2 = u2
INVARIANT ReadsGivenSector
CHECK_DEADLOCK FALSE
