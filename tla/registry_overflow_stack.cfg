\* As registry_overflow.cfg, built with CUSTOMIZED_STACK: the overflowing child
\* is placed past the stack area and getThreadIndex maps it to slot 0.
CONSTANTS
  main = main
  p1 = p1
  p2 = p2
  p3 = p3
  p4 = p4
  Tids <- ThreadIds
  MainTid = main
  REUSE = FALSE
  MaxAlive = 2
  AppMaxLive = 3
  MaxCreates = 2
  EarlyJoin = FALSE
  CUSTOMIZED_STACK = TRUE
SPECIFICATION Spec
SYMMETRY ChildSymmetry
INVARIANT BagSlotsExclusive
CHECK_DEADLOCK FALSE
