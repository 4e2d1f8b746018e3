\* Children run detached and end without a join.  The application never
\* has more than MAX_ALIVE_THREADS (2) threads alive, yet its second child
\* gets slot 2: the first child's slot and count were never given back.
CONSTANTS
  main = main
  p1 = p1
  p2 = p2
  p3 = p3
  p4 = p4
  Tids <- ThreadIds
  MainTid = main
  REUSE = FALSE
  MaxAlive = 2
  AppMaxLive = 2
  MaxCreates = 2
  EarlyJoin = FALSE
  CUSTOMIZED_STACK = TRUE
SPECIFICATION DetachSpec
SYMMETRY ChildSymmetry
INVARIANT SlotInRange
CHECK_DEADLOCK FALSE
