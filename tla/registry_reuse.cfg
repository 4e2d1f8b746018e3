\* As registry, but the platform reuses the pthread_t of a joined thread
\* (glibc recycles thread descriptors), with five thread creations.
CONSTANTS
  main = main
  p1 = p1
  p2 = p2
  p3 = p3
  p4 = p4
  Tids <- ThreadIds
  MainTid = main
  REUSE = TRUE
  MaxAlive = 3
  AppMaxLive = 3
  MaxCreates = 5
  EarlyJoin = FALSE
  CUSTOMIZED_STACK = TRUE
SPECIFICATION Spec
SYMMETRY ChildSymmetry
INVARIANT SlotsExclusive
CHECK_DEADLOCK FALSE
