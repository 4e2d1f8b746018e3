\* The application may free a large object twice, from two threads at once.
\* Deadlock is the end of the process or of the application.
CONSTANTS
  t1 = t1
  t2 = t2
  a1 = a1
  a2 = a2
  a3 = a3
  Head = Head
  NULL = NULL
  None = None
  Threads <- TwoThreads
  Addrs <- ThreeAddrs
  DOUBLE_FREE = TRUE
  SizeBits = 8
  IntBits = 4
  MaxAllocs = 4
SPECIFICATION Spec
INVARIANT NoUndetectedDoubleFree
CHECK_DEADLOCK FALSE
