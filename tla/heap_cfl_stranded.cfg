\* CFREELIST build, one replica per bag, cflthreshold = 1 (a bag of 10 to
\* 19 objects).  Every thread keeps running (FairSpec); the application
\* may stop freeing other threads' objects, and then stops altogether,
\* which is why deadlock is not an error here.
CONSTANTS
  t1 = t1
  t2 = t2
  t3 = t3
  NULL = NULL
  SENTINEL = SENTINEL
  Threads <- TwoThreads
  BagSetSize = 1
  CflThreshold = 1
  CFREELIST = TRUE
  MaxBump = 2
  DoubleFrees = FALSE
SPECIFICATION FairSpec
PROPERTY CachedObjectEventuallyReusable
CHECK_DEADLOCK FALSE
