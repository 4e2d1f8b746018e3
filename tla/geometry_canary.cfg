\* USE_CANARY with a layout whose _shadowMemSizePerHeap (32) is a power of
\* two, so that only the canary walk can leave the shadow arena: one usable
\* class of two 64-byte objects per bag, no guard pages, two replicas over
\* four heaps.  Freeing the last object of a replica's last heap reads the
\* record of its right neighbour in the heap after the arena.
CONSTANTS
  MinBlock = 64
  NumBags = 2
  MinRandomBagSize = 64
  MaxRandomBagSize = 256
  RandomNumber = 4    \* randPower 4 % 3 = 1: 128-byte bags
  NumSubHeaps = 2
  NumHeaps = 4
  BagSetSize = 2
  PageSize = 32
  LargeThreshold = 64
  InfoSize = 8
  GUARDPAGE = FALSE
  RANDOM_GUARD = FALSE
  USE_CANARY = TRUE
  MaxAllocs = 4
SPECIFICATION Spec
INVARIANT ShadowInBounds
CHECK_DEADLOCK FALSE
