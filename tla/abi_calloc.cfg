\* calloc(16, 16) with an 8-bit size_t: the product wraps to 0 and malloc(0)
\* returns a 2-byte object for a 256-byte request.
CONSTANTS
  SizeBits = 8
  UIntBits = 6
  MinBlock = 2
  NumBags = 3
  BagSize = 8
  LargeThreshold = 8
  PageSize = 2
  USE_CANARY = FALSE
  HeapBegins = {2, 4}
  LargeBases = {256, 512}
  MaxMap = 80
  Sizes = {16}
  CallocCounts = {16}
  Alignments = {1}
  REAL_MALLOC_FAILS = FALSE
  MaxCalls = 1
SPECIFICATION Spec
INVARIANT UsableCoversRequest
CHECK_DEADLOCK FALSE
