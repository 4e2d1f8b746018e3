--------------------------- MODULE ThreadRegistry ---------------------------
(***************************************************************************)
(* The thread registry of src/xthread.hh: the dense thread slots handed    *)
(* out by allocThreadIndex, the map _xmap from pthread_t to slot filled by *)
(* thread_create, and the reclamation of a slot by thread_join.            *)
(*                                                                         *)
(* Every registry section runs under the global spinlock and is one step.  *)
(* thread_create takes the lock twice, around allocThreadIndex and around  *)
(* insertIfAbsent, with Real::pthread_create in between, so it is two      *)
(* steps and other creates and joins interleave between them.  glibc     *)
(* writes the new pthread_t to *tid before the child starts, so the child *)
(* (or any thread it tells) may be joined before its creator's second     *)
(* section; with EarlyJoin the application does so.  The                  *)
(* pthread_t the platform gives a new thread is any value not held by a    *)
(* thread that has not been joined; with REUSE it may be the value of a    *)
(* thread joined earlier (glibc's pthread_t is the address of a thread     *)
(* descriptor, which is cached and reused).                                *)
(***************************************************************************)
EXTENDS Integers, FiniteSets, TLC

CONSTANTS
  MaxAlive,    \* MAX_ALIVE_THREADS
  Tids,        \* pthread_t values
  MainTid,     \* pthread_self() of the initial thread
  REUSE,       \* the platform may give a new thread a joined thread's pthread_t
  AppMaxLive,  \* the application never has more threads than this alive or starting
  MaxCreates,  \* bound: pthread_create calls
  EarlyJoin,   \* a thread may be joined before its creator's insertIfAbsent
  CUSTOMIZED_STACK  \* build flag: a thread's index is derived from its stack address

ASSUME /\ MaxAlive \in Nat \ {0}
       /\ MainTid \in Tids
       /\ REUSE \in BOOLEAN
       /\ AppMaxLive \in Nat \ {0}
       /\ MaxCreates \in Nat
       /\ EarlyJoin \in BOOLEAN /\ CUSTOMIZED_STACK \in BOOLEAN

Slots == 0 .. MaxAlive - 1

VARIABLES
  available,     \* _threads[i].available
  aliveThreads,  \* _aliveThreads
  threadIndex,   \* _threadIndex
  xmap,          \* _xmap: pthread_t -> index; entries are never erased
  live,          \* pthread_t -> index of every started thread not yet joined
  spawning,      \* <<call, index>> of each thread_create that has allocated but not started its thread
  inserting,     \* <<tid, index>> of each thread_create that has started its thread but not filled _xmap
  ncreates       \* thread_create calls so far

vars == <<available, aliveThreads, threadIndex, xmap, live, spawning, inserting, ncreates>>

\* mutant: the scan takes the first available slot without marking it taken
AllocThreadIndexScanNoMark ==
  IF aliveThreads = threadIndex
    THEN [index |-> threadIndex, threadIndex |-> threadIndex + 1,
          available |-> [available EXCEPT ![threadIndex] = FALSE]]
    ELSE LET free == {i \in 0 .. threadIndex : i \in Slots /\ available[i]}
         IN IF free = {}
              THEN [index |-> -1, threadIndex |-> threadIndex, available |-> available]
              ELSE [index |-> CHOOSE j \in free : \A k \in free : j <= k,
                    threadIndex |-> threadIndex, available |-> available]

\* allocThreadIndex, as its result and its effect on the slots and counters
AllocThreadIndex ==
  IF aliveThreads = threadIndex
    THEN [index |-> threadIndex, threadIndex |-> threadIndex + 1,
          available |-> [available EXCEPT ![threadIndex] = FALSE]]
    ELSE \* the scan reads _threads[_threadIndex], past the array once the
         \* index reaches MAX_ALIVE_THREADS; that read is taken as unavailable
         LET free == {i \in 0 .. threadIndex : i \in Slots /\ available[i]}
         IN IF free = {}
              THEN [index |-> -1, threadIndex |-> threadIndex, available |-> available]
              ELSE LET i == CHOOSE j \in free : \A k \in free : j <= k
                   IN [index |-> i, threadIndex |-> threadIndex,
                       available |-> [available EXCEPT ![i] = FALSE]]

-----------------------------------------------------------------------------
(* The index a thread uses for its PerThreadBags.  Under CUSTOMIZED_STACK  *)
(* the stack area holds MAX_THREADS stacks of STACK_SIZE bytes, offsets    *)
(* are taken from globalStackAddr, and the scale is STACK_SIZE = 4 with    *)
(* one guard unit at each end: only the position inside a slot matters.    *)

StackSize == 4
GuardSize == 1

\* pthread_attr_setstack in thread_create: the child's stack is slot tindex
\* of the area without its guard pages, whatever tindex is; the initial
\* thread's stack is slot 0 (CUSTOMIZED_MAIN_STACK; otherwise it lies
\* outside the area, which getThreadIndex maps to 0 as well)
StackAddrs(tindex) ==
  {tindex * StackSize + o : o \in GuardSize .. StackSize - GuardSize - 1}

\* mutant: the lower clamp also catches index 1
StackThreadIndexClampOne(addr) ==
  LET index == addr \div StackSize
  IN IF index >= MaxAlive \/ index <= 1 THEN 0 ELSE index

\* getThreadIndex(stackVar): the arithmetic shift by STACK_SIZE_BIT, and 0
\* for an index out of [1, MAX_THREADS)
StackThreadIndex(addr) ==
  LET index == addr \div StackSize
  IN IF index >= MaxAlive \/ index <= 0 THEN 0 ELSE index

\* the indices a thread started with slot tindex uses: startThread's
\* initializeCurrentThread stores thread->index in the thread-local
\* _threadIndex, or, under CUSTOMIZED_STACK, every allocation computes it
\* from the address of a local variable
UsedIndices(tindex) ==
  IF CUSTOMIZED_STACK THEN {StackThreadIndex(a) : a \in StackAddrs(tindex)}
  ELSE {tindex}

\* HashMap::insertIfAbsent and HashMap::find on _xmap, which every registry
\* section uses under the global lock: the chained buckets behave as a map
\* there (module BigHeap checks the chains under concurrent access)
InsertIfAbsent(map, k, v) == IF k \in DOMAIN map THEN map ELSE map @@ (k :> v)
Find(map, k) == IF k \in DOMAIN map THEN {map[k]} ELSE {}

\* initialize: every slot available, then initializeInitialThread takes
\* slot 0 through allocThreadIndex and _xmap records pthread_self()
Init ==
  /\ available = [i \in Slots |-> i # 0]
  /\ aliveThreads = 1
  /\ threadIndex = 1
  /\ xmap = (MainTid :> 0)
  /\ live = (MainTid :> 0)
  /\ spawning = {}
  /\ inserting = {}
  /\ ncreates = 0

Occupants == Cardinality(DOMAIN live) + Cardinality(spawning)
\* the slots of the threads alive or being started
HeldSlots == {live[t] : t \in DOMAIN live} \cup {c[2] : c \in spawning}

\* thread_create, first locked section: allocThreadIndex
CreateAllocIndex ==
  /\ ncreates < MaxCreates
  /\ Occupants < AppMaxLive
  /\ LET r == AllocThreadIndex IN
       /\ available' = r.available
       /\ threadIndex' = r.threadIndex
       /\ aliveThreads' = aliveThreads + 1
       /\ spawning' = spawning \cup {<<ncreates + 1, r.index>>}
  /\ ncreates' = ncreates + 1
  /\ UNCHANGED <<xmap, live, inserting>>

\* Real::pthread_create succeeds (a failure is FATAL): the child runs
\* startThread with its slot, and its pthread_t is in *tid
CreateStart(s) ==
  /\ s \in spawning
  /\ \E tid \in Tids \ DOMAIN live :
       /\ REUSE \/ tid \notin DOMAIN xmap
       /\ live' = live @@ (tid :> s[2])
       /\ inserting' = inserting \cup {<<tid, s[2]>>}
  /\ spawning' = spawning \ {s}
  /\ UNCHANGED <<available, aliveThreads, threadIndex, xmap, ncreates>>

\* thread_create's second locked section: _xmap.insertIfAbsent(tid, tindex)
CreateInsert(c) ==
  /\ c \in inserting
  /\ xmap' = InsertIfAbsent(xmap, c[1], c[2])
  /\ inserting' = inserting \ {c}
  /\ UNCHANGED <<available, aliveThreads, threadIndex, live, spawning, ncreates>>

\* a thread the application may join now: started, and unless EarlyJoin,
\* its creator's pthread_create has returned
Joinable(tid) ==
  /\ tid \in DOMAIN live \ {MainTid}
  /\ EarlyJoin \/ \A c \in inserting : c[1] # tid

\* mutant: the result of Real::pthread_join is not checked
ThreadJoinUnchecked(tid) ==
  /\ tid \in Tids \ {MainTid}
  /\ available' = IF tid \in DOMAIN xmap /\ xmap[tid] \in Slots
                    THEN [available EXCEPT ![xmap[tid]] = TRUE]
                    ELSE available
  /\ aliveThreads' = aliveThreads - 1
  /\ live' = [t \in DOMAIN live \ {tid} |-> live[t]]
  /\ UNCHANGED <<threadIndex, xmap, spawning, inserting, ncreates>>

\* mutant: _aliveThreads is not decremented
ThreadJoinKeepCount(tid) ==
  /\ Joinable(tid)
  /\ available' = IF tid \in DOMAIN xmap /\ xmap[tid] \in Slots
                    THEN [available EXCEPT ![xmap[tid]] = TRUE]
                    ELSE available
  /\ live' = [t \in DOMAIN live \ {tid} |-> live[t]]
  /\ UNCHANGED <<aliveThreads, threadIndex, xmap, spawning, inserting, ncreates>>

\* mutant: the joined thread's slot is never marked available
ThreadJoinNoRelease(tid) ==
  /\ Joinable(tid)
  /\ aliveThreads' = aliveThreads - 1
  /\ live' = [t \in DOMAIN live \ {tid} |-> live[t]]
  /\ UNCHANGED <<available, threadIndex, xmap, spawning, inserting, ncreates>>

\* thread_join(tid) after Real::pthread_join succeeded: look the slot up in
\* _xmap, mark it available (an untracked tid is only reported), and
\* decrement _aliveThreads in any case
ThreadJoin(tid) ==
  /\ Joinable(tid)
  /\ available' = [i \in Slots |-> available[i] \/ i \in Find(xmap, tid)]
  /\ aliveThreads' = aliveThreads - 1
  /\ live' = [t \in DOMAIN live \ {tid} |-> live[t]]
  /\ UNCHANGED <<threadIndex, xmap, spawning, inserting, ncreates>>

Next ==
  \/ CreateAllocIndex
  \/ \E s \in spawning : CreateStart(s)
  \/ \E c \in inserting : CreateInsert(c)
  \/ \E tid \in Tids : ThreadJoin(tid)

Spec == Init /\ [][Next]_vars

\* a detached child (pthread_detach, or a detached attribute: neither is
\* intercepted) returns from startThread and ends; nothing of the
\* registry runs, so its slot, its _aliveThreads count and its _xmap entry
\* stay as they were
ThreadExitDetached(tid) ==
  /\ tid \in DOMAIN live \ {MainTid}
  /\ live' = [t \in DOMAIN live \ {tid} |-> live[t]]
  /\ UNCHANGED <<available, aliveThreads, threadIndex, xmap, spawning, inserting, ncreates>>

\* an application that also runs detached threads
DetachSpec == Init /\ [][Next \/ \E tid \in Tids : ThreadExitDetached(tid)]_vars

-----------------------------------------------------------------------------
(* Properties                                                              *)

TypeOK ==
  /\ available \in [Slots -> BOOLEAN]
  /\ aliveThreads \in Nat
  /\ threadIndex \in Nat
  /\ DOMAIN xmap \subseteq Tids /\ \A t \in DOMAIN xmap : xmap[t] \in Int
  /\ DOMAIN live \subseteq Tids /\ \A t \in DOMAIN live : live[t] \in Int
  /\ spawning \subseteq (1 .. MaxCreates) \X Int
  /\ inserting \subseteq Tids \X Int
  /\ ncreates \in 0 .. MaxCreates

(* Two threads alive at once never share a slot, and no slot of a thread  *)
(* alive or being started is marked available: the slot indexes the       *)
(* thread's PerThreadBags, whose bump pointers and same-thread free path   *)
(* are used without a lock on the assumption that one thread owns them.   *)
(* Takes creates and joins in several orders, and a pthread_t that _xmap  *)
(* still maps to an earlier thread's slot.                                 *)
SlotsExclusive ==
  /\ Cardinality(HeldSlots) = Occupants
  /\ \A i \in HeldSlots : i \in Slots => ~available[i]

(* Spec section 4.5 and property 9: the non-available slots are exactly    *)
(* those of the threads alive or being started, and _aliveThreads counts   *)
(* them, so that the fast path of allocThreadIndex (aliveThreads equal to *)
(* _threadIndex) only fires when every slot below _threadIndex is taken.   *)
AvailableTracksAlive ==
  /\ {i \in Slots : ~available[i]} = HeldSlots
  /\ aliveThreads = Occupants

(* The PerThreadBags a running thread allocates from are its own: every   *)
(* index a thread alive now uses (the thread-local index, or the one       *)
(* derived from its stack) is a valid slot and no other live thread's.     *)
(* The bump pointers and the same-thread free path of those bags take no   *)
(* lock.  Relates the slot thread_create allocates, the stack it places    *)
(* the child on, and getThreadIndex's arithmetic and clamp.                *)
BagSlotsExclusive ==
  \A t \in DOMAIN live :
    /\ UsedIndices(live[t]) \subseteq Slots
    /\ \A u \in DOMAIN live \ {t} : UsedIndices(live[t]) \cap UsedIndices(live[u]) = {}

(* Spec property 9: every thread runs with a slot index in                 *)
(* [0, MAX_ALIVE_THREADS); _threadBag and _threads are indexed by it.      *)
SlotInRange ==
  HeldSlots \subseteq Slots

====
