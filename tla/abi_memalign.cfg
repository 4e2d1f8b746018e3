\* memalign(2, 9) then free: malloc(11) returns the odd address base + 1 of a
\* large object, memalign adds the residual 1, and the pointer it returns is
\* not the _xmap key, so free reports an invalid free and leaks the mapping.
CONSTANTS
  SizeBits = 8
  UIntBits = 6
  MinBlock = 2
  NumBags = 3
  BagSize = 8
  LargeThreshold = 8
  PageSize = 2
  USE_CANARY = FALSE
  HeapBegins = {2, 4}
  LargeBases = {256, 512}
  MaxMap = 80
  Sizes = {9}
  CallocCounts = {1, 2}
  Alignments = {2}
  REAL_MALLOC_FAILS = FALSE
  MaxCalls = 2
SPECIFICATION Spec
INVARIANT ReturnedPointersFreeable
CHECK_DEADLOCK FALSE
