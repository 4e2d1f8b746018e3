\* Every pthread_t is new (no reuse; four child values for four creations),
\* and a child is joined only after its creator's pthread_create returns;
\* the application keeps at most MAX_ALIVE_THREADS threads alive.  Once it
\* stops creating and has joined its children only the initial thread runs,
\* so the end is not a deadlock.
CONSTANTS
  main = main
  p1 = p1
  p2 = p2
  p3 = p3
  p4 = p4
  Tids <- ThreadIds
  MainTid = main
  REUSE = FALSE
  MaxAlive = 4
  AppMaxLive = 4
  MaxCreates = 4
  EarlyJoin = FALSE
  CUSTOMIZED_STACK = TRUE
SPECIFICATION Spec
SYMMETRY ChildSymmetry
INVARIANT TypeOK
INVARIANT SlotsExclusive
INVARIANT AvailableTracksAlive
INVARIANT SlotInRange
INVARIANT BagSlotsExclusive
CHECK_DEADLOCK FALSE
