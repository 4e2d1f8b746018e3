\* Build without CFREELIST: every free takes the replica's lock.
CONSTANTS
  t1 = t1
  t2 = t2
  t3 = t3
  NULL = NULL
  SENTINEL = SENTINEL
  Threads <- TwoThreads
  BagSetSize = 2
  CflThreshold = 1
  CFREELIST = FALSE
  MaxBump = 2
  DoubleFrees = FALSE
SPECIFICATION Spec
INVARIANT TypeOK
INVARIANT EachObjectInOnePlace
INVARIANT SentinelIffAllocated
PROPERTY AllocatorSpec
