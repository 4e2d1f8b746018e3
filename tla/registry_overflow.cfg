\* The application has one thread more alive than MAX_ALIVE_THREADS (2).
CONSTANTS
  main = main
  p1 = p1
  p2 = p2
  p3 = p3
  p4 = p4
  Tids <- ThreadIds
  MainTid = main
  REUSE = FALSE
  MaxAlive = 2
  AppMaxLive = 3
  MaxCreates = 2
  EarlyJoin = FALSE
  CUSTOMIZED_STACK = TRUE
SPECIFICATION Spec
SYMMETRY ChildSymmetry
INVARIANT SlotInRange
CHECK_DEADLOCK FALSE
