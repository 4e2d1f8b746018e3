\* CFREELIST build with the default BIBOP_BAG_SET_SIZE = 4 cut to 2: two
\* foreign threads free objects of one bag through different replicas, so
\* they hold different locks while both use the bag's one cached free list.
CONSTANTS
  t1 = t1
  t2 = t2
  t3 = t3
  NULL = NULL
  SENTINEL = SENTINEL
  Threads <- ThreeThreads
  BagSetSize = 2
  CflThreshold = 0
  CFREELIST = TRUE
  MaxBump = 1
  DoubleFrees = FALSE
SPECIFICATION Spec
PROPERTY AllocatorSpec
CHECK_DEADLOCK FALSE
