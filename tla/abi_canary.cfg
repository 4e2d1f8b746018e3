\* USE_CANARY with malloc(255) and an 8-bit size_t: size + 1 wraps to 0, so
\* the request goes to the small engine, which serves a 2-byte class.
CONSTANTS
  SizeBits = 8
  UIntBits = 6
  MinBlock = 2
  NumBags = 3
  BagSize = 8
  LargeThreshold = 8
  PageSize = 2
  USE_CANARY = TRUE
  HeapBegins = {2, 4}
  LargeBases = {256, 512}
  MaxMap = 80
  Sizes = {255}
  CallocCounts = {1, 2}
  Alignments = {1}
  REAL_MALLOC_FAILS = FALSE
  MaxCalls = 1
SPECIFICATION Spec
INVARIANT UsableCoversRequest
CHECK_DEADLOCK FALSE
