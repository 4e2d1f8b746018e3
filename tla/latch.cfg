\* The main thread and one thread it may start with the pthread_create hook.
\* dlsym in Real::initializer may call malloc and free of small objects (as
\* glibc's dlerror bookkeeping does), twice.  Six application calls let the
\* main thread call malloc before and after the constructor and start the
\* child, and the child call malloc and free.  The application may stop.
CONSTANTS
  main = main
  child = child
  Threads <- TwoThreads
  Main = main
  NestedCalls = {"small", "free"}
  MaxNested = 2
  MaxCalls = 6
SPECIFICATION FairSpec
INVARIANT EnginesReadyWhenUsed
INVARIANT InitializedOnce
PROPERTY CallsReturn
CHECK_DEADLOCK FALSE
