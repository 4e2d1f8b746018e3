\* The application frees only large objects it holds; two of them collide
\* in one bucket.  Deadlock is the end of the process or of the application.
CONSTANTS
  t1 = t1
  t2 = t2
  a1 = a1
  a2 = a2
  a3 = a3
  Head = Head
  NULL = NULL
  None = None
  Threads <- TwoThreads
  Addrs <- ThreeAddrs
  DOUBLE_FREE = FALSE
  SizeBits = 8
  IntBits = 4
  MaxAllocs = 4
SPECIFICATION Spec
INVARIANT LegitFreeNotRejected
CHECK_DEADLOCK FALSE
