\* A scaled-down layout with the shape of the real one: four bag classes of
\* which the last is unusable, trailing guard pages, random guard pages, and
\* 10 objects per sub-heap, so that _shadowMemSizePerHeap (160) is not a
\* power of two.  Each replica walks past the last of its heaps (MaxAllocs
\* exceeds the 12 class-16 objects that fit in its two heaps).
\* The application may stop allocating at any point, so a state with no
\* further allocation is not an error (CHECK_DEADLOCK FALSE).
CONSTANTS
  MinBlock = 16
  NumBags = 4
  MinRandomBagSize = 64
  MaxRandomBagSize = 256
  RandomNumber = 4    \* randPower 4 % 3 = 1: 128-byte bags
  NumSubHeaps = 2
  NumHeaps = 4
  BagSetSize = 2
  PageSize = 32
  LargeThreshold = 64
  InfoSize = 8
  GUARDPAGE = TRUE
  RANDOM_GUARD = TRUE
  USE_CANARY = FALSE
  MaxAllocs = 14
SPECIFICATION Spec
INVARIANT IssuedInArena
CHECK_DEADLOCK FALSE
