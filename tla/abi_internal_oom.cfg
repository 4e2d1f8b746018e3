\* malloc(40) when Real::malloc, the libc heap FreeGuard keeps its
\* bigObjectStatus records in, is exhausted: allocateAtBigHeap writes
\* through the NULL it gets instead of malloc returning NULL.
CONSTANTS
  SizeBits = 8
  UIntBits = 6
  MinBlock = 2
  NumBags = 3
  BagSize = 8
  LargeThreshold = 8
  PageSize = 2
  USE_CANARY = FALSE
  HeapBegins = {2, 4}
  LargeBases = {256, 512}
  MaxMap = 128
  Sizes = {40}
  CallocCounts = {1, 2}
  Alignments = {1}
  REAL_MALLOC_FAILS = TRUE
  MaxCalls = 1
SPECIFICATION Spec
INVARIANT AllocationNeverExits
CHECK_DEADLOCK FALSE
