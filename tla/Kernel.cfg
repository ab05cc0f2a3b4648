SPECIFICATION Spec
CONSTANTS
  NULL = NULL
  ZERO = ZERO
  ONE = ONE
  main = main
  BASE = BASE
  Threads = {t1, t2}
  Names = {n1, n2, n3}
  p1 = p1  p2 = p2  p3 = p3  p4 = p4
  fa = fa  fb = fb  c0 = c0  c1 = c1
SYMMETRY Symmetry
INVARIANTS MemoryNotShared ThreadsExact InterruptsNestRight ProcessesTidy
           PageBitsTrue SegmentsLoaded FilesKeepContents CrashSafe FreeMapExact
           ArchivesRoundTrip
 
CHECK_DEADLOCK FALSE
