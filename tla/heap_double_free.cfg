\* Without CFREELIST, the application frees one small object twice from two threads at once.
CONSTANTS
  t1 = t1
  t2 = t2
  t3 = t3
  NULL = NULL
  SENTINEL = SENTINEL
  Threads <- TwoThreads
  BagSetSize = 1
  CflThreshold = 1
  CFREELIST = FALSE
  MaxBump = 1
  DoubleFrees = TRUE
SPECIFICATION Spec
PROPERTY NoUndetectedDoubleFree
