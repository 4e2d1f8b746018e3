\* Canary off; classes 2, 4 and 8 in 8-byte bags, an 8-byte large
\* threshold and 2-byte pages; an 8-bit size_t.  Requests below, at and
\* above the threshold, calloc products up to the largest mapping mmap
\* grants, and memalign with alignment 1.  The application may stop at any
\* point and the process ends on a fault, so deadlock is not an error.
CONSTANTS
  SizeBits = 8
  UIntBits = 6
  MinBlock = 2
  NumBags = 3
  BagSize = 8
  LargeThreshold = 8
  PageSize = 2
  USE_CANARY = FALSE
  HeapBegins = {2, 4}
  LargeBases = {256, 512}
  MaxMap = 80
  Sizes = {1, 5, 8, 9, 40}
  CallocCounts = {1, 2}
  Alignments = {1}
  REAL_MALLOC_FAILS = FALSE
  MaxCalls = 4
SPECIFICATION Spec
INVARIANT TypeOK
INVARIANT UsableCoversRequest
INVARIANT UsableSizeAsSpecified
INVARIANT ReturnedPointersFreeable
CHECK_DEADLOCK FALSE
