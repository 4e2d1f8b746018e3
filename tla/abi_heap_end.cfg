\* mmap places a large object's mapping directly after the heap arena (a
\* hole above the arena that fits the request exactly), so the object
\* starts at _heapEnd.  isSmallObject's <= claims it for the small engine.
CONSTANTS
  SizeBits = 8
  UIntBits = 6
  MinBlock = 2
  NumBags = 3
  BagSize = 8
  LargeThreshold = 8
  PageSize = 2
  USE_CANARY = FALSE
  HeapBegins = {2}
  LargeBases = {26}
  MaxMap = 80
  Sizes = {40}
  CallocCounts = {1}
  Alignments = {1}
  REAL_MALLOC_FAILS = FALSE
  MaxCalls = 2
SPECIFICATION Spec
INVARIANT ReturnedPointersFreeable
CHECK_DEADLOCK FALSE
