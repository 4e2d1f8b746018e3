\* As registry.cfg, but the application may join a child as soon as glibc
\* has written its pthread_t, before the creator's pthread_create hook has
\* returned (the child publishes pthread_self() and a third thread joins
\* it).  thread_join then finds no _xmap entry: the slot stays taken while
\* _aliveThreads is decremented.
CONSTANTS
  main = main
  p1 = p1
  p2 = p2
  p3 = p3
  p4 = p4
  Tids <- ThreadIds
  MainTid = main
  REUSE = FALSE
  MaxAlive = 4
  AppMaxLive = 4
  MaxCreates = 4
  EarlyJoin = TRUE
  CUSTOMIZED_STACK = TRUE
SPECIFICATION Spec
SYMMETRY ChildSymmetry
INVARIANT AvailableTracksAlive
CHECK_DEADLOCK FALSE
