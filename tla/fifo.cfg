\* One FIFO free-list replica with the cached list (CFREELIST) and the
\* random choice of the bump pointer: five objects, and a threshold of one,
\* so that a batch of two foreign frees is spliced onto a non-empty list.
CONSTANTS
  NumObjects = 5
  CflThreshold = 1
  CFREELIST = TRUE
  RandomBump = TRUE
  NULL = NULL
  SENTINEL = SENTINEL
SPECIFICATION Spec
INVARIANTS TypeOK TailIsLastNode FreeStatusExact
PROPERTY FreeQueueSpec
\* a detected double free ends the process
CHECK_DEADLOCK FALSE
