------------------------------ MODULE FifoFreeList ------------------------------
(***************************************************************************)
(* One bag replica of src/bibopheap.hh built with FIFO_FREELIST, whose     *)
(* free list is the dlist_t of src/dlist.h: freelist.next is the first     *)
(* free object, freelist.prev the last, and the objects are chained        *)
(* through the next field of their shadow records.  With CFREELIST, frees  *)
(* by other threads are pushed on the singly linked cfreelist and spliced  *)
(* onto the back of the free list by insertAllDLLTail.                     *)
(*                                                                         *)
(* Each operation is one step, as the replica's spinlock makes it for      *)
(* every path but one: the owner's own free under CFREELIST is unlocked,   *)
(* and its race with a foreign splice is the subject of module BibopHeap   *)
(* (heap_cfl_leak.cfg).  Objects are numbered 1..NumObjects in the order    *)
(* the bump pointer issues them; module BibopGeometry models addresses.    *)
(***************************************************************************)
EXTENDS Naturals, Sequences
LOCAL INSTANCE SequencesExt

CONSTANTS
  NumObjects,    \* bound: objects the bump pointer hands out
  CflThreshold,  \* cflthreshold = numBagObjects / CACHEDFREELIST_THRESHOLD_RATIO_BYBAG
  CFREELIST,     \* build flag: foreign frees go through the cached free list
  RandomBump,    \* BIBOP_BAG_SET_SIZE > 1: allocation may use the bump pointer anyway
  NULL,          \* the NULL link
  SENTINEL       \* ALLOC_SENTINEL, the link of an allocated object

ASSUME /\ NumObjects \in Nat \ {0}
       /\ CflThreshold \in Nat
       /\ CFREELIST \in BOOLEAN /\ RandomBump \in BOOLEAN

Objects == 1 .. NumObjects
Link == Objects \cup {NULL, SENTINEL}

VARIABLES
  next,       \* shadowObjectInfo.listentry.next of every object
  freelist,   \* the replica's dlist_t: [next |-> first, prev |-> last]
  cfreelist,  \* cfreelist.next: the last object pushed on the cached list
  ncfree,     \* ncfree
  position,   \* bump pointer, as the number of objects issued
  live,       \* objects the application holds
  exited      \* the process exited on a detected double or invalid free

vars == <<next, freelist, cfreelist, ncfree, position, live, exited>>

-----------------------------------------------------------------------------
(* src/dlist.h and the list helpers of src/slist.h, as operators on the    *)
(* links nx and the list header dl.                                        *)

\* mutant: the inserted node keeps the link it had
InsertDLLTailKeepLink(node, dl, nx) ==
  LET oldTail == dl.prev
  IN [links |-> IF oldTail # NULL THEN [nx EXCEPT ![oldTail] = node] ELSE nx,
      dl    |-> [next |-> IF oldTail # NULL THEN dl.next ELSE node,
                 prev |-> node]]

\* insertDLLTail(node, dlist)
InsertDLLTail(node, dl, nx) ==
  LET oldTail == dl.prev
      nx1 == [nx EXCEPT ![node] = NULL]
  IN [links |-> IF oldTail # NULL THEN [nx1 EXCEPT ![oldTail] = node] ELSE nx1,
      dl    |-> [next |-> IF oldTail # NULL THEN dl.next ELSE node,
                 prev |-> node]]

\* mutant: emptying the list leaves prev at the removed node
RemoveDLLHeadKeepTail(dl, nx) ==
  [node |-> dl.next, dl |-> [next |-> nx[dl.next], prev |-> dl.prev]]

\* removeDLLHead(dlist): the first node and the list without it
RemoveDLLHead(dl, nx) ==
  LET oldHead == dl.next
      replacement == nx[oldHead]
  IN [node |-> oldHead,
      dl   |-> [next |-> replacement,
                prev |-> IF replacement = NULL THEN NULL ELSE dl.prev]]

\* the do-while loop of insertAllDLLTail: turn each node of the chain
\* from seg1 around to point at seg2, the node that was in front of it
RECURSIVE ReverseChain(_, _, _)
ReverseChain(nx, seg1, seg2) ==
  IF seg1 \notin Objects THEN [links |-> nx, seg2 |-> seg2]
  ELSE ReverseChain([nx EXCEPT ![seg1] = seg2], nx[seg1], seg1)

\* mutant: the cached list is appended as it stands, newest first
InsertAllDLLTailNoReverse(s1, dl, nx) ==
  IF s1 = NULL THEN [links |-> nx, dl |-> dl]
  ELSE LET oldTail == dl.prev
       IN [links |-> IF oldTail # NULL THEN [nx EXCEPT ![oldTail] = s1] ELSE nx,
           dl    |-> [next |-> IF oldTail # NULL THEN dl.next ELSE s1,
                      prev |-> s1]]

\* insertAllDLLTail(slist, dlist), for a cached list whose first node is s1
InsertAllDLLTail(s1, dl, nx) ==
  IF s1 = NULL THEN [links |-> nx, dl |-> dl]
  ELSE LET oldTail == dl.prev
           r == ReverseChain(nx, s1, NULL)
       IN [links |-> IF oldTail # NULL THEN [r.links EXCEPT ![oldTail] = r.seg2]
                                      ELSE r.links,
           dl    |-> [next |-> IF oldTail # NULL THEN dl.next ELSE r.seg2,
                      prev |-> s1]]

\* isObjectFree(shadowinfo)
IsObjectFree(o) == next[o] # SENTINEL

-----------------------------------------------------------------------------
Init ==
  /\ next = [o \in Objects |-> NULL]          \* fresh shadow memory is zero
  /\ freelist = [next |-> NULL, prev |-> NULL] \* FREELIST_INIT = initDLL
  /\ cfreelist = NULL                         \* initSLL
  /\ ncfree = 0
  /\ position = 0
  /\ live = {}
  /\ exited = FALSE

\* allocateSmallObject, free list not empty and the bump pointer not chosen:
\* FREELIST_REMOVE under the lock, then listentry.next = ALLOC_SENTINEL
AllocFromFreelist ==
  /\ ~exited
  /\ freelist.next # NULL
  /\ LET r == RemoveDLLHead(freelist, next)
     IN /\ freelist' = r.dl
        /\ next' = [next EXCEPT ![r.node] = SENTINEL]
        /\ live' = live \cup {r.node}
  /\ UNCHANGED <<cfreelist, ncfree, position, exited>>

\* allocateSmallObject from the bump pointer: when the free list is empty,
\* or with several replicas when useBumpPointer comes up in the random draw
AllocFromBump ==
  /\ ~exited
  /\ freelist.next = NULL \/ RandomBump
  /\ position < NumObjects
  /\ position' = position + 1
  /\ next' = [next EXCEPT ![position + 1] = SENTINEL]
  /\ live' = live \cup {position + 1}
  /\ UNCHANGED <<freelist, cfreelist, ncfree, exited>>

\* freeSmallObject of an object whose record is not ALLOC_SENTINEL:
\* "Double free or invalid free", exit(EXIT_FAILURE)
FreeInvalid(o) ==
  /\ ~exited
  /\ IsObjectFree(o)
  /\ exited' = TRUE
  /\ UNCHANGED <<next, freelist, cfreelist, ncfree, position, live>>

\* freeSmallObject by the owning thread under CFREELIST, or by any thread
\* without it: FREELIST_INSERT = insertDLLTail
FreeToFreelist(o) ==
  /\ ~exited
  /\ ~IsObjectFree(o)
  /\ LET r == InsertDLLTail(o, freelist, next)
     IN /\ next' = r.links
        /\ freelist' = r.dl
  /\ live' = live \ {o}
  /\ UNCHANGED <<cfreelist, ncfree, position, exited>>

\* mutant: realFreeCurrentList does not reset ncfree
FreeToCachedListKeepCount(o) ==
  /\ ~exited
  /\ CFREELIST
  /\ ~IsObjectFree(o)
  /\ LET pushed == [next EXCEPT ![o] = cfreelist]
         merged == InsertAllDLLTail(o, freelist, pushed)
     IN IF ncfree + 1 > CflThreshold
          THEN /\ next' = merged.links
               /\ freelist' = merged.dl
               /\ cfreelist' = NULL
               /\ ncfree' = ncfree + 1
          ELSE /\ next' = pushed
               /\ cfreelist' = o
               /\ ncfree' = ncfree + 1
               /\ UNCHANGED freelist
  /\ live' = live \ {o}
  /\ UNCHANGED <<position, exited>>

\* freeSmallObject by another thread under CFREELIST: insertSLLHead on the
\* cached list, ncfree++, and past cflthreshold realFreeCurrentList, which
\* splices it with FREELIST_MERGE = insertAllDLLTail and empties it
FreeToCachedList(o) ==
  /\ ~exited
  /\ CFREELIST
  /\ ~IsObjectFree(o)
  /\ LET pushed == [next EXCEPT ![o] = cfreelist]
         merged == InsertAllDLLTail(o, freelist, pushed)
     IN IF ncfree + 1 > CflThreshold
          THEN /\ next' = merged.links
               /\ freelist' = merged.dl
               /\ cfreelist' = NULL
               /\ ncfree' = 0
          ELSE /\ next' = pushed
               /\ cfreelist' = o
               /\ ncfree' = ncfree + 1
               /\ UNCHANGED freelist
  /\ live' = live \ {o}
  /\ UNCHANGED <<position, exited>>

Next ==
  \/ AllocFromFreelist
  \/ AllocFromBump
  \/ \E o \in Objects :
       FreeInvalid(o) \/ FreeToFreelist(o) \/ FreeToCachedList(o)

Spec == Init /\ [][Next]_vars

-----------------------------------------------------------------------------
(* Properties.                                                             *)

\* the objects met following next from l, at most k of them
RECURSIVE Chain(_, _)
Chain(l, k) == IF k = 0 \/ l \notin Objects THEN <<>>
               ELSE <<l>> \o Chain(next[l], k - 1)

\* the free list and the cached list, first node first
FreeChain == Chain(freelist.next, NumObjects + 1)
CachedChain == Chain(cfreelist, NumObjects + 1)

TypeOK ==
  /\ next \in [Objects -> Link]
  /\ freelist \in [next : Objects \cup {NULL}, prev : Objects \cup {NULL}]
  /\ cfreelist \in Objects \cup {NULL}
  /\ ncfree \in 0 .. CflThreshold
  /\ position \in 0 .. NumObjects
  /\ live \subseteq 1 .. position
  /\ exited \in BOOLEAN

\* After any sequence of allocations, frees and splices, freelist.prev is
\* the last node of the chain from freelist.next, that node ends the chain,
\* and both are NULL together.  insertDLLTail and insertAllDLLTail link
\* after prev, so a stale prev (removeDLLHead emptying the list, or a
\* splice) would hang later frees off a node no longer on the list.
TailIsLastNode ==
  /\ (freelist.next = NULL) = (freelist.prev = NULL)
  /\ FreeChain # <<>> =>
       /\ Last(FreeChain) = freelist.prev
       /\ next[freelist.prev] = NULL

\* The double-free check of freeSmallObject (isObjectFree) is exact: an
\* object issued by the bump pointer has the ALLOC_SENTINEL link exactly
\* while the application holds it, so a legitimate free never exits and
\* every repeated free does.  The free-list operations must overwrite the
\* link of every node they insert, the last one included.
FreeStatusExact ==
  \A o \in 1 .. position : (next[o] = SENTINEL) <=> (o \in live)

\* The linked lists implement the FIFO queue of module FreeQueue: the free
\* list read from its head is the queue, and the cached list read from its
\* head is the batch in reverse order of freeing.
Abstract == INSTANCE FreeQueue WITH Objects <- Objects,
              Threshold <- CflThreshold,
              queue <- FreeChain, cached <- Reverse(CachedChain)

FreeQueueSpec == Abstract!Spec

==============================================================================
