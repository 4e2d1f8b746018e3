------------------------------ MODULE BibopHeap ------------------------------
(***************************************************************************)
(* The small-object engine of src/bibopheap.hh for one size class, run by  *)
(* several threads.  Each thread slot owns a PerThreadBag whose            *)
(* BIBOP_BAG_SET_SIZE replicas each have a free list, a spinlock and a     *)
(* bump pointer; with the CFREELIST build flag a bag also has one cached   *)
(* free list that receives the frees done by other threads and is spliced  *)
(* onto a replica's free list once it holds more than cflthreshold         *)
(* objects.                                                                *)
(*                                                                         *)
(* A shadow record is modelled by its list link next[o]; an object is      *)
(* <<owner slot, bag-set item, k>>, the k-th object handed out by the bump *)
(* pointer of that replica (module BibopGeometry models the addresses).    *)
(* Steps are as fine as the shared-memory accesses that another thread can *)
(* interleave with: a sequence guarded by a lock that every other writer   *)
(* of the same fields also takes is one step.                              *)
(***************************************************************************)
EXTENDS Naturals, FiniteSets

CONSTANTS
  Threads,       \* thread slots (_threadBag[MAX_ALIVE_THREADS])
  BagSetSize,    \* BIBOP_BAG_SET_SIZE
  CflThreshold,  \* cflthreshold = numBagObjects / CACHEDFREELIST_THRESHOLD_RATIO_BYBAG
  CFREELIST,     \* build flag: foreign frees go through the cached free list
  MaxBump,       \* bound: objects the bump pointer of one replica hands out
  DoubleFrees,   \* the application may free an object it no longer holds
  NULL,          \* the NULL link
  SENTINEL       \* ALLOC_SENTINEL, the link of an allocated object

ASSUME /\ BagSetSize \in Nat \ {0}
       /\ CflThreshold \in Nat
       /\ CFREELIST \in BOOLEAN
       /\ MaxBump \in Nat \ {0}
       /\ DoubleFrees \in BOOLEAN

Items == 0 .. BagSetSize - 1
Objects == Threads \X Items \X (0 .. MaxBump - 1)
Owner(o) == o[1]
Item(o) == o[2]
Link == Objects \cup {NULL, SENTINEL}

VARIABLES
  next,       \* shadowObjectInfo.listentry.next of every object
  freelist,   \* freelist[t][i]: head of the free list of replica i of t's bag
  listlock,   \* listlock[t][i]: the thread holding the replica's spinlock, or NULL
  position,   \* position[t][i]: bump pointer, as the number of objects issued
  cfreelist,  \* cfreelist[t]: head of the cached free list of t's bag
  ncfree,     \* ncfree[t]
  pc,         \* where each thread is inside freeSmallObject, or "idle"
  obj,        \* obj[t]: the object thread t is freeing
  tmp,        \* tmp[t]: the free-list head saved by insertAllSLLHead
  live        \* live[o]: hand-outs of o the application still holds

vars == <<next, freelist, listlock, position, cfreelist, ncfree, pc, obj, tmp, live>>

-----------------------------------------------------------------------------
(* The intrusive singly linked lists of src/slist.h, read through next.    *)

\* the objects met walking from link l before NULL, SENTINEL or a repeat
RECURSIVE Walk(_, _)
Walk(l, seen) == IF l \notin Objects \/ l \in seen THEN seen
                 ELSE Walk(next[l], seen \cup {l})
Chain(l) == Walk(l, {})

\* the link at which that walk stops
RECURSIVE WalkEnd(_, _)
WalkEnd(l, seen) == IF l \notin Objects \/ l \in seen THEN l
                    ELSE WalkEnd(next[l], seen \cup {l})
NullTerminated(l) == WalkEnd(l, {}) = NULL

\* getTailSLL: the last node of a NULL-terminated list
TailSLL(l) == CHOOSE o \in Chain(l) : next[o] = NULL

-----------------------------------------------------------------------------
Init ==
  /\ next = [o \in Objects |-> NULL]
  /\ freelist = [t \in Threads |-> [i \in Items |-> NULL]]
  /\ listlock = [t \in Threads |-> [i \in Items |-> NULL]]
  /\ position = [t \in Threads |-> [i \in Items |-> 0]]
  /\ cfreelist = [t \in Threads |-> NULL]
  /\ ncfree = [t \in Threads |-> 0]
  /\ pc = [t \in Threads |-> "idle"]
  /\ obj = [t \in Threads |-> NULL]
  /\ tmp = [t \in Threads |-> NULL]
  /\ live = [o \in Objects |-> 0]

\* the free list of the replica an object belongs to
OwnList(o) == freelist[Owner(o)][Item(o)]
SetOwnList(o, v) == [freelist EXCEPT ![Owner(o)][Item(o)] = v]
LockOf(o) == listlock[Owner(o)][Item(o)]
SetLock(o, v) == [listlock EXCEPT ![Owner(o)][Item(o)] = v]

Goto(t, l) == pc' = [pc EXCEPT ![t] = l]
Finish(t) == /\ pc' = [pc EXCEPT ![t] = "idle"]
             /\ obj' = [obj EXCEPT ![t] = NULL]
             /\ tmp' = [tmp EXCEPT ![t] = NULL]

-----------------------------------------------------------------------------
(* allocateSmallObject.  Thread t uses its own bag; with BagSetSize > 1 a  *)
(* random word picks the replica i and, one time in                        *)
(* BIBOP_BAG_SET_RANDOMIZER, forces the bump pointer although the free     *)
(* list is not empty.  The list check and pop run under listlock[t][i];    *)
(* the bump pointer is touched by its owner only.                          *)

\* mutant: the popped object keeps its list link instead of ALLOC_SENTINEL
AllocFromFreelistNoSentinel(t, i) ==
  /\ pc[t] = "idle"
  /\ listlock[t][i] = NULL
  /\ freelist[t][i] \in Objects
  /\ LET o == freelist[t][i] IN
       /\ freelist' = [freelist EXCEPT ![t][i] = next[o]]
       /\ live' = [live EXCEPT ![o] = @ + 1]
  /\ UNCHANGED <<next, listlock, position, cfreelist, ncfree, pc, obj, tmp>>

\* mutant: the head is returned but not removed from the free list
AllocFromFreelistNoPop(t, i) ==
  /\ pc[t] = "idle"
  /\ listlock[t][i] = NULL
  /\ freelist[t][i] \in Objects
  /\ LET o == freelist[t][i] IN
       /\ next' = [next EXCEPT ![o] = SENTINEL]
       /\ live' = [live EXCEPT ![o] = @ + 1]
  /\ UNCHANGED <<freelist, listlock, position, cfreelist, ncfree, pc, obj, tmp>>

\* free-list branch: removeSLLHead under the lock, then mark allocated
AllocFromFreelist(t, i) ==
  /\ pc[t] = "idle"
  /\ listlock[t][i] = NULL
  /\ freelist[t][i] \in Objects
  /\ LET o == freelist[t][i] IN
       /\ freelist' = [freelist EXCEPT ![t][i] = next[o]]
       /\ next' = [next EXCEPT ![o] = SENTINEL]
       /\ live' = [live EXCEPT ![o] = @ + 1]
  /\ UNCHANGED <<listlock, position, cfreelist, ncfree, pc, obj, tmp>>

\* mutant: incrementBumpPointer without the end-of-bag check
AllocFromBumpUnbounded(t, i) ==
  /\ pc[t] = "idle"
  /\ listlock[t][i] = NULL
  /\ freelist[t][i] = NULL \/ BagSetSize > 1
  /\ position[t][i] <= MaxBump
  /\ LET o == <<t, i, position[t][i]>> IN
       /\ position' = [position EXCEPT ![t][i] = @ + 1]
       /\ next' = [next EXCEPT ![o] = SENTINEL]
       /\ live' = [live EXCEPT ![o] = @ + 1]
  /\ UNCHANGED <<freelist, listlock, cfreelist, ncfree, pc, obj, tmp>>

\* mutant: the bump pointer is read but not advanced
AllocFromBumpNoAdvance(t, i) ==
  /\ pc[t] = "idle"
  /\ listlock[t][i] = NULL
  /\ freelist[t][i] = NULL \/ BagSetSize > 1
  /\ position[t][i] < MaxBump
  /\ LET o == <<t, i, position[t][i]>> IN
       /\ next' = [next EXCEPT ![o] = SENTINEL]
       /\ live' = [live EXCEPT ![o] = @ + 1]
  /\ UNCHANGED <<freelist, listlock, position, cfreelist, ncfree, pc, obj, tmp>>

\* bump branch: free list empty, or useBumpPointer drawn (BagSetSize > 1)
AllocFromBump(t, i) ==
  /\ pc[t] = "idle"
  /\ listlock[t][i] = NULL
  /\ freelist[t][i] = NULL \/ BagSetSize > 1
  /\ position[t][i] < MaxBump
  /\ LET o == <<t, i, position[t][i]>> IN
       /\ position' = [position EXCEPT ![t][i] = @ + 1]
       /\ next' = [next EXCEPT ![o] = SENTINEL]
       /\ live' = [live EXCEPT ![o] = @ + 1]
  /\ UNCHANGED <<freelist, listlock, cfreelist, ncfree, pc, obj, tmp>>

-----------------------------------------------------------------------------
(* freeSmallObject.  The application hands one of the objects it holds to *)
(* free in thread t; the shadow link must still be ALLOC_SENTINEL (else    *)
(* the call aborts as a double or invalid free).  With DoubleFrees the     *)
(* application may also free an issued object it no longer holds.  The     *)
(* check is a read before any lock.                                        *)

FreeSmallObject(t) ==
  /\ pc[t] = "idle"
  /\ \E o \in Objects :
       /\ live[o] > 0 \/ (DoubleFrees /\ o[3] < position[Owner(o)][Item(o)])
       /\ next[o] = SENTINEL
       /\ live' = [live EXCEPT ![o] = IF @ > 0 THEN @ - 1 ELSE 0]
       /\ obj' = [obj EXCEPT ![t] = o]
       /\ Goto(t, IF ~CFREELIST THEN "insert"
                  ELSE IF Owner(o) = t THEN "ownLink" ELSE "cflLink")
  /\ UNCHANGED <<next, freelist, listlock, position, cfreelist, ncfree, tmp>>

\* mutant: the freed object becomes the head but is not linked to the old one
FreeInsertNoLink(t) ==
  /\ pc[t] = "insert"
  /\ LET o == obj[t] IN
       /\ LockOf(o) = NULL
       /\ next' = [next EXCEPT ![o] = NULL]
       /\ freelist' = SetOwnList(o, o)
  /\ Finish(t)
  /\ UNCHANGED <<listlock, position, cfreelist, ncfree, live>>

\* without CFREELIST: FREELIST_INSERT under the replica's lock
FreeInsert(t) ==
  /\ pc[t] = "insert"
  /\ LET o == obj[t] IN
       /\ LockOf(o) = NULL
       /\ next' = [next EXCEPT ![o] = OwnList(o)]
       /\ freelist' = SetOwnList(o, o)
  /\ Finish(t)
  /\ UNCHANGED <<listlock, position, cfreelist, ncfree, live>>

\* CFREELIST, freed by the owner: insertSLLHead without the lock, in two
\* writes another thread can come between
OwnLink(t) ==
  /\ pc[t] = "ownLink"
  /\ next' = [next EXCEPT ![obj[t]] = OwnList(obj[t])]
  /\ Goto(t, "ownPublish")
  /\ UNCHANGED <<freelist, listlock, position, cfreelist, ncfree, obj, tmp, live>>

OwnPublish(t) ==
  /\ pc[t] = "ownPublish"
  /\ freelist' = SetOwnList(obj[t], obj[t])
  /\ Finish(t)
  /\ UNCHANGED <<next, listlock, position, cfreelist, ncfree, live>>

\* CFREELIST, freed by another thread: lock the replica of the object, then
\* insertSLLHead into the bag's one cached free list
CflLink(t) ==
  /\ pc[t] = "cflLink"
  /\ LET o == obj[t] IN
       /\ LockOf(o) = NULL
       /\ listlock' = SetLock(o, t)
       /\ next' = [next EXCEPT ![o] = cfreelist[Owner(o)]]
  /\ Goto(t, "cflPublish")
  /\ UNCHANGED <<freelist, position, cfreelist, ncfree, obj, tmp, live>>

\* mutant: drains only when ncfree exceeds cflthreshold + 1
CflPublishLate(t) ==
  /\ pc[t] = "cflPublish"
  /\ LET o == obj[t]
         b == Owner(o)
         n == ncfree[b] + 1
     IN /\ cfreelist' = [cfreelist EXCEPT ![b] = o]
        /\ ncfree' = [ncfree EXCEPT ![b] = n]
        /\ IF n > CflThreshold + 1
             THEN /\ Goto(t, "merge1")
                  /\ UNCHANGED <<listlock, obj, tmp>>
             ELSE /\ listlock' = SetLock(o, NULL)
                  /\ Finish(t)
  /\ UNCHANGED <<next, freelist, position, live>>

\* publish the node, ncfree++, and drain when ncfree > cflthreshold
CflPublish(t) ==
  /\ pc[t] = "cflPublish"
  /\ LET o == obj[t]
         b == Owner(o)
         n == ncfree[b] + 1
     IN /\ cfreelist' = [cfreelist EXCEPT ![b] = o]
        /\ ncfree' = [ncfree EXCEPT ![b] = n]
        /\ IF n > CflThreshold
             THEN /\ Goto(t, "merge1")
                  /\ UNCHANGED <<listlock, obj, tmp>>
             ELSE /\ listlock' = SetLock(o, NULL)
                  /\ Finish(t)
  /\ UNCHANGED <<next, freelist, position, live>>

\* realFreeCurrentList = insertAllSLLHead(&cfreelist, &freelist[item]),
\* then ncfree = 0 and initSLL(&cfreelist), still under the replica's lock
Merge1(t) ==
  /\ pc[t] = "merge1"
  /\ tmp' = [tmp EXCEPT ![t] = OwnList(obj[t])]
  /\ Goto(t, "merge2")
  /\ UNCHANGED <<next, freelist, listlock, position, cfreelist, ncfree, obj, live>>

Merge2(t) ==
  /\ pc[t] = "merge2"
  /\ freelist' = SetOwnList(obj[t], cfreelist[Owner(obj[t])])
  /\ Goto(t, "merge3")
  /\ UNCHANGED <<next, listlock, position, cfreelist, ncfree, obj, tmp, live>>

\* getTailSLL(cfreelist.next)->next = tmp; a walk that meets NULL at once,
\* ALLOC_SENTINEL or a cycle would crash or hang and is not a step here
Merge3(t) ==
  /\ pc[t] = "merge3"
  /\ LET c == cfreelist[Owner(obj[t])] IN
       /\ c \in Objects
       /\ NullTerminated(c)
       /\ next' = [next EXCEPT ![TailSLL(c)] = tmp[t]]
  /\ Goto(t, "merge4")
  /\ UNCHANGED <<freelist, listlock, position, cfreelist, ncfree, obj, tmp, live>>

Merge4(t) ==
  /\ pc[t] = "merge4"
  /\ LET b == Owner(obj[t]) IN
       /\ ncfree' = [ncfree EXCEPT ![b] = 0]
       /\ cfreelist' = [cfreelist EXCEPT ![b] = NULL]
       /\ listlock' = SetLock(obj[t], NULL)
  /\ Finish(t)
  /\ UNCHANGED <<next, freelist, position, live>>

-----------------------------------------------------------------------------
Step(t) ==
  \/ \E i \in Items : AllocFromFreelist(t, i) \/ AllocFromBump(t, i)
  \/ FreeSmallObject(t)
  \/ FreeInsert(t)
  \/ OwnLink(t) \/ OwnPublish(t)
  \/ CflLink(t) \/ CflPublish(t)
  \/ Merge1(t) \/ Merge2(t) \/ Merge3(t) \/ Merge4(t)

Next == \E t \in Threads : Step(t)

Spec == Init /\ [][Next]_vars

\* Threads are preemptively scheduled OS threads and a spinlock is retried
\* until taken, so every thread that can step eventually does.
FairSpec == Spec /\ \A t \in Threads : WF_vars(Step(t))

-----------------------------------------------------------------------------
(* Properties                                                              *)

TypeOK ==
  /\ next \in [Objects -> Link]
  /\ freelist \in [Threads -> [Items -> Link]]
  /\ listlock \in [Threads -> [Items -> Threads \cup {NULL}]]
  /\ position \in [Threads -> [Items -> 0 .. MaxBump]]
  /\ cfreelist \in [Threads -> Link]
  /\ ncfree \in [Threads -> Nat]
  /\ pc \in [Threads -> {"idle", "insert", "ownLink", "ownPublish", "cflLink",
                          "cflPublish", "merge1", "merge2", "merge3", "merge4"}]
  /\ obj \in [Threads -> Objects \cup {NULL}]
  /\ tmp \in [Threads -> Link]
  /\ live \in [Objects -> Nat]

Issued(o) == o[3] < position[Owner(o)][Item(o)]

\* threads inside free that hold o and have not yet linked it into a list
Linking(o) == {t \in Threads : obj[t] = o /\ pc[t] \in {"insert", "ownLink", "cflLink"}}
\* ... or have linked it but not yet published it as a list head
InFlight(o) == Linking(o) \cup {t \in Threads : obj[t] = o /\ pc[t] \in {"ownPublish", "cflPublish"}}

\* A thread between Merge2 and the end of Merge4 has moved b's cached list
\* onto a free list; until then the list the free list held is in tmp.
Draining(b) == \E t \in Threads : obj[t] # NULL /\ Owner(obj[t]) = b
                                  /\ pc[t] \in {"merge3", "merge4"}
Roots == {<<"fl", t, i>> : t \in Threads, i \in Items}
         \cup {<<"cfl", b>> : b \in {x \in Threads : ~Draining(x)}}
         \cup {<<"tmp", t>> : t \in {x \in Threads : pc[x] = "merge3"}}
RootHead(r) == CASE r[1] = "fl"  -> freelist[r[2]][r[3]]
                 [] r[1] = "cfl" -> cfreelist[r[2]]
                 [] r[1] = "tmp" -> tmp[r[2]]

(* Every object the bump pointers have issued is in exactly one place: held *)
(* by the application, in the hands of one free call, or on exactly one     *)
(* free list or cached free list; and every such list ends in NULL.  This   *)
(* is what the per-replica locks, the unlocked same-thread insert of        *)
(* freeSmallObject and the splice of realFreeCurrentList must preserve; an  *)
(* object on no list is leaked for good, one on two lists is handed out     *)
(* twice.                                                                   *)
EachObjectInOnePlace ==
  /\ \A r \in Roots : NullTerminated(RootHead(r))
  /\ \A o \in Objects :
       live[o] + Cardinality(InFlight(o))
         + Cardinality({r \in Roots : o \in Chain(RootHead(r))})
       = IF Issued(o) THEN 1 ELSE 0

(* The shadow link of an object is ALLOC_SENTINEL exactly when the object  *)
(* is allocated: held by the application, or passed to a free call that    *)
(* has not yet overwritten the link.  isObjectFree relies on it to detect  *)
(* double and invalid frees, and allocateSmallObject to mark its result.    *)
SentinelIffAllocated ==
  \A o \in Objects : next[o] = SENTINEL <=> (live[o] > 0 \/ Linking(o) # {})

(* Spec sections 4.2 and 6: a double free is detected and aborts.  So a    *)
(* free call that gets past the isObjectFree check of freeSmallObject is   *)
(* always of an object the application holds.  The check reads the shadow *)
(* link before the replica lock, and the link changes only when the first  *)
(* free inserts the object.                                                *)
NoUndetectedDoubleFree ==
  [][\A t \in Threads :
       (pc[t] = "idle" /\ pc'[t] # "idle") => live[obj'[t]] > 0]_vars

OnFreelist(o) == \E t \in Threads, i \in Items : o \in Chain(freelist[t][i])
InCachedList(o) == \E b \in Threads : o \in Chain(cfreelist[b])

(* Spec section 5: an object freed by a foreign thread waits on the cached *)
(* free list, but "each freed object becomes reusable eventually": it      *)
(* reaches a free list that allocateSmallObject pops (or is handed out).   *)
(* realFreeCurrentList runs only from a foreign free that pushes ncfree    *)
(* past cflthreshold.                                                      *)
CachedObjectEventuallyReusable ==
  \A o \in Objects : InCachedList(o) ~> (OnFreelist(o) \/ live[o] > 0)


(* The engine implements the allocator contract: it never hands out an     *)
(* object the application still holds (checked as refinement of           *)
(* SmallObjectAllocator with allocated <- live).                           *)
Allocator == INSTANCE SmallObjectAllocator WITH allocated <- live
AllocatorSpec == Allocator!Spec

==============================================================================
