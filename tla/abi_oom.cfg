\* malloc(200) when mmap grants at most 128 bytes: mmapAllocatePrivate
\* exits instead of malloc returning NULL.
CONSTANTS
  SizeBits = 8
  UIntBits = 6
  MinBlock = 2
  NumBags = 3
  BagSize = 8
  LargeThreshold = 8
  PageSize = 2
  USE_CANARY = FALSE
  HeapBegins = {2, 4}
  LargeBases = {256, 512}
  MaxMap = 128
  Sizes = {200}
  CallocCounts = {1, 2}
  Alignments = {1}
  REAL_MALLOC_FAILS = FALSE
  MaxCalls = 1
SPECIFICATION Spec
INVARIANT AllocationNeverExits
CHECK_DEADLOCK FALSE
