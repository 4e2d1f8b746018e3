\* A malloc of LARGE_OBJECT_THRESHOLD bytes or more made by dlsym from
\* Real::initializer, which runs after DONE is published and before
\* initBigHeap.
CONSTANTS
  main = main
  child = child
  Threads <- TwoThreads
  Main = main
  NestedCalls = {"large"}
  MaxNested = 2
  MaxCalls = 6
SPECIFICATION FairSpec
INVARIANT EnginesReadyWhenUsed
CHECK_DEADLOCK FALSE
