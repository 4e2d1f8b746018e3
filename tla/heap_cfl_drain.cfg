\* CFREELIST build, one replica per bag (BIBOP_BAG_SET_SIZE = 1), and a bag
\* of fewer than CACHEDFREELIST_THRESHOLD_RATIO_BYBAG objects, so that
\* cflthreshold = 0 and every foreign free drains the cached list at once.
CONSTANTS
  t1 = t1
  t2 = t2
  t3 = t3
  NULL = NULL
  SENTINEL = SENTINEL
  Threads <- TwoThreads
  BagSetSize = 1
  CflThreshold = 0
  CFREELIST = TRUE
  MaxBump = 3
  DoubleFrees = FALSE
SPECIFICATION Spec
INVARIANT SentinelIffAllocated
PROPERTY AllocatorSpec
