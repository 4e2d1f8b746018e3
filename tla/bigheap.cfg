\* Two threads allocating and freeing large objects whose addresses all hash
\* to one bucket; the application frees only what it holds.  A process that
\* exits on a rejected free, or an application that stops, ends the
\* behaviour, so deadlock is not an error.
CONSTANTS
  t1 = t1
  t2 = t2
  a1 = a1
  a2 = a2
  a3 = a3
  Head = Head
  NULL = NULL
  None = None
  Threads <- TwoThreads
  Addrs <- ThreeAddrs
  DOUBLE_FREE = FALSE
  SizeBits = 8
  IntBits = 4
  MaxAllocs = 4
SPECIFICATION Spec
INVARIANT TypeOK
INVARIANT BucketConsistent
PROPERTY TableSpec
CHECK_DEADLOCK FALSE
