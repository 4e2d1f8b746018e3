---------------------------- MODULE BibopGeometry ----------------------------
(***************************************************************************)
(* The address arithmetic of src/bibopheap.hh: the layout that initialize  *)
(* computes for the heaps, sub-heaps (one per thread slot) and bags, the   *)
(* two translations between an object address and its shadow record        *)
(* (getShadowObjectInfo, getAddrFromShadowInfo), and the bump-pointer walk *)
(* of one bag (incrementBumpPointer, with the trailing guard pages of      *)
(* ENABLE_GUARDPAGE and the random guard pages of RANDOM_GUARD).           *)
(*                                                                         *)
(* Addresses are offsets from _heapBegin, shadow addresses offsets from    *)
(* _shadowMemBegin; both regions are page aligned, so a mask of an address *)
(* is the same mask of its offset.  Every BIBOP parameter is a power of    *)
(* two (xdefines.hh), so x & (2^k - 1) is x % 2^k and x >> k is x \div 2^k. *)
(*                                                                         *)
(* Under USE_CANARY, freeSmallObject also reads the shadow records of up   *)
(* to NUM_MORE_CANARIES_TO_CHECK neighbours on each side, which            *)
(* getNextCanaryNeighbor finds by shadow arithmetic alone.                 *)
(***************************************************************************)
EXTENDS Integers, Sequences, FiniteSets
LOCAL INSTANCE FiniteSetsExt
LOCAL INSTANCE Functions

CONSTANTS
  MinBlock,        \* BIBOP_MIN_BLOCK_SIZE
  NumBags,         \* BIBOP_NUM_BAGS
  MinRandomBagSize,  \* MIN_RANDOM_BAG_SIZE
  MaxRandomBagSize,  \* MAX_RANDOM_BAG_SIZE
  RandomNumber,    \* the getRandomNumber() draw initialize makes
  NumSubHeaps,     \* BIBOP_NUM_SUBHEAPS = MAX_ALIVE_THREADS
  NumHeaps,        \* BIBOP_NUM_HEAPS
  BagSetSize,      \* BIBOP_BAG_SET_SIZE
  PageSize,        \* PageSize = PAGESIZE
  LargeThreshold,  \* LARGE_OBJECT_THRESHOLD
  InfoSize,        \* sizeof(shadowObjectInfo)
  GUARDPAGE,       \* build flag ENABLE_GUARDPAGE
  RANDOM_GUARD,    \* build flag RANDOM_GUARD
  USE_CANARY,      \* build flag USE_CANARY
  MaxAllocs        \* bound: bump allocations from one replica of the bag

RECURSIVE Log2(_)
\* LOG2 of xdefines.hh: the index of the highest set bit
Log2(x) == IF x <= 1 THEN 0 ELSE 1 + Log2(x \div 2)

\* 64 - __builtin_clzl(x): the number of significant bits of x > 0
BitLength(x) == Log2(x) + 1

IsPowerOfTwo(x) == x > 0 /\ 2^Log2(x) = x

\* initialize without BIBOP_BAG_SIZE: _bibopBagSize is MIN_RANDOM_BAG_SIZE
\* shifted left by a random power in [0, LOG2(MAX / MIN)]
BagSize ==
  LET randPower == RandomNumber % (Log2(MaxRandomBagSize \div MinRandomBagSize) + 1)
  IN MinRandomBagSize * 2^randPower

\* the constants are powers of two, and initialize asserts that a bag holds
\* the largest small object
ASSUME /\ \A x \in {MinBlock, NumBags, MinRandomBagSize, MaxRandomBagSize, NumSubHeaps,
                    NumHeaps, BagSetSize, PageSize, LargeThreshold, InfoSize} : IsPowerOfTwo(x)
       /\ RandomNumber \in Nat
       /\ BagSize >= LargeThreshold
       /\ GUARDPAGE \in BOOLEAN /\ RANDOM_GUARD \in BOOLEAN /\ USE_CANARY \in BOOLEAN
       /\ MaxAllocs \in Nat

-----------------------------------------------------------------------------
(* The layout computed by initialize.                                      *)

LastUsableBagSize == IF BagSize > LargeThreshold THEN LargeThreshold ELSE BagSize
NumUsableBags ==
  LET n == Log2(LastUsableBagSize) - Log2(MinBlock) + 1
  IN IF n > NumBags THEN NumBags ELSE n
LastUsableBag == NumUsableBags - 1
Bags == 0 .. NumUsableBags - 1
SubHeaps == 0 .. NumSubHeaps - 1
Items == 0 .. BagSetSize - 1

HeapSize == NumBags * BagSize * NumSubHeaps     \* BIBOP_HEAP_SIZE
ThreadSize == BagSize * NumBags                 \* _threadSize
NumBagsPerHeap == NumBags * NumSubHeaps         \* _numBagsPerHeap
ArenaSize == NumHeaps * HeapSize                \* _heapEnd - _heapBegin

ClassSize(b) == MinBlock * 2^b

\* guardoffset and guardsize of the bags of class b
GuardOffset(b) ==
  IF ~GUARDPAGE \/ (b = LastUsableBag /\ BagSize = LastUsableBagSize) THEN 0
  ELSE IF ClassSize(b) > PageSize THEN ClassSize(b) ELSE PageSize
GuardSize(b) ==
  GuardOffset(b)
  + IF b = LastUsableBag
      THEN (NumBags - Log2(LastUsableBagSize) + Log2(MinBlock) - 1) * BagSize
      ELSE 0

\* numBagObjects: objects of one bag, less those a trailing guard page covers
NumBagObjects(b) ==
  LET n == BagSize \div ClassSize(b) IN
  IF GUARDPAGE /\ n > 1
    THEN IF ClassSize(b) < PageSize THEN n - PageSize \div ClassSize(b) ELSE n - 1
    ELSE n

ObjectsBefore(b) == MapThenSumSet(NumBagObjects, 0 .. b - 1)
ObjectsPerThread == ObjectsBefore(NumUsableBags)

\* offsetBag and offsetShadowMem, which the loop never resets between threads
StartOffset(t, b) == t * ThreadSize + b * BagSize
\* mutant: offsetShadowMem restarted for every thread
StartShadowMemOffsetPerThread(t, b) == ObjectsBefore(b) * InfoSize
StartShadowMemOffset(t, b) == (t * ObjectsPerThread + ObjectsBefore(b)) * InfoSize

NumObjectsPerHeap == NumSubHeaps * ObjectsPerThread
ShadowMemSizePerHeap == NumObjectsPerHeap * InfoSize
CeilShiftBits == BitLength(ShadowMemSizePerHeap - 1)
ShadowMemSizePerHeapCeil == 2^CeilShiftBits
\* allocShadowMem
TotalShadowMemSize == NumHeaps * ShadowMemSizePerHeap

\* mutant: the jump lands one heap too far, in the next replica's heap
NextHeapObjectOffsetSkipHeap(b) ==
  HeapSize * BagSetSize + (HeapSize - BagSize + ClassSize(b) + GuardOffset(b))

\* nextHeapObjectOffset: from the last object of a bag in one heap to the
\* first object of the same bag in the replica's next heap
NextHeapObjectOffset(b) ==
  HeapSize * (BagSetSize - 1) + (HeapSize - BagSize + ClassSize(b) + GuardOffset(b))

LastOfBag(start, guardoffset, classSize) == start + BagSize - guardoffset - classSize

\* mutant: subtracts numObjects records instead of numObjects - 1
NextShadowHeapObjectOffsetAllObjects(b) ==
  ShadowMemSizePerHeapCeil * BagSetSize - NumBagObjects(b) * InfoSize

\* nextShadowHeapObjectOffset: from the last record of a bag in one heap to
\* the first record of the same bag in the replica's next heap
NextShadowHeapObjectOffset(b) ==
  ShadowMemSizePerHeapCeil * BagSetSize - (NumBagObjects(b) - 1) * InfoSize

-----------------------------------------------------------------------------
(* Address to shadow record and back.                                      *)

\* mutant: heaps strided by _shadowMemSizePerHeap, as allocShadowMem sizes
\* them, while getAddrFromShadowInfo keeps the power-of-two stride
ShadowObjectInfoExactStride(addr) ==
  LET localHeapOffset == addr % HeapSize
      localBagOffset == addr % BagSize
      globalBagNum == addr \div BagSize
      heapIndex == globalBagNum \div NumBagsPerHeap
      t == localHeapOffset \div ThreadSize
      b == globalBagNum % NumBags
  IN [bag |-> <<t, b>>,
      item |-> heapIndex % BagSetSize,
      aligned |-> localBagOffset % ClassSize(b) = 0,
      shadow |-> heapIndex * ShadowMemSizePerHeap + StartShadowMemOffset(t, b)
                 + (localBagOffset \div ClassSize(b)) * InfoSize]

\* getShadowObjectInfo(addr, &bag, &numBagSetItem): the bag and replica the
\* address belongs to, whether it is aligned to the class (else the call
\* exits), and the offset of its shadow record
ShadowObjectInfo(addr) ==
  LET localHeapOffset == addr % HeapSize
      localBagOffset == addr % BagSize
      globalBagNum == addr \div BagSize
      heapIndex == globalBagNum \div NumBagsPerHeap
      t == localHeapOffset \div ThreadSize
      b == globalBagNum % NumBags
  IN [bag |-> <<t, b>>,
      item |-> heapIndex % BagSetSize,
      aligned |-> localBagOffset % ClassSize(b) = 0,
      shadow |-> heapIndex * ShadowMemSizePerHeapCeil + StartShadowMemOffset(t, b)
                 + (localBagOffset \div ClassSize(b)) * InfoSize]

\* mutant: the bag's records are strided by _shadowMemSizePerHeap
ShadowObjectInfoOfBagExactStride(addr, t, b) ==
  ((addr \div BagSize) \div NumBagsPerHeap) * ShadowMemSizePerHeap
    + StartShadowMemOffset(t, b) + ((addr % BagSize) \div ClassSize(b)) * InfoSize

\* getShadowObjectInfo(addr, bag), which allocateSmallObject uses to mark a
\* bump-allocated object: the record's offset computed from the heap of
\* the address and the bag it was taken from, with no decoding or check
ShadowObjectInfoOfBag(addr, t, b) ==
  ((addr \div BagSize) \div NumBagsPerHeap) * ShadowMemSizePerHeapCeil
    + StartShadowMemOffset(t, b) + ((addr % BagSize) \div ClassSize(b)) * InfoSize

\* getHeapNumber(shadowinfo)
GetHeapNumber(s) == s \div ShadowMemSizePerHeapCeil

\* getAddrFromShadowInfo(shadowaddr, bag)
AddrFromShadowInfo(s, t, b) ==
  LET heapIndex == GetHeapNumber(s)
      objectindex == ((s % ShadowMemSizePerHeapCeil) - StartShadowMemOffset(t, b)) \div InfoSize
  IN heapIndex * HeapSize + StartOffset(t, b) + objectindex * ClassSize(b)

\* NUM_MORE_CANARIES_TO_CHECK
NUM_MORE_CANARIES_TO_CHECK == 2

\* the NULL getNextCanaryNeighbor returns
NoNeighbor == -1

Directions == {"left", "right"}

\* getNextCanaryNeighbor(shadowinfo, bag, move) for the bag <<t, b>>
GetNextCanaryNeighbor(s, t, b, move) ==
  LET heapNum == GetHeapNumber(s)
      objectindex == ((s % ShadowMemSizePerHeapCeil) - StartShadowMemOffset(t, b)) \div InfoSize
  IN IF move = "left"
       THEN IF objectindex = 0
              THEN IF heapNum < BagSetSize THEN NoNeighbor
                   ELSE s - NextShadowHeapObjectOffset(b)
              ELSE s - InfoSize
       ELSE IF objectindex = NumBagObjects(b) - 1
              THEN s + NextShadowHeapObjectOffset(b)
              ELSE s + InfoSize

\* the shadow records the canary loop of freeSmallObject reads in one
\* direction: up to k neighbours, stopping at the first NULL
RECURSIVE CanaryNeighbors(_, _, _, _, _)
CanaryNeighbors(s, t, b, move, k) ==
  IF k = 0 THEN <<>>
  ELSE LET n == GetNextCanaryNeighbor(s, t, b, move)
       IN IF n = NoNeighbor THEN <<>>
          ELSE <<n>> \o CanaryNeighbors(n, t, b, move, k - 1)

-----------------------------------------------------------------------------
(* The bump pointer of one replica of one bag.                             *)

\* setGuardPage(bagStart, guardsize, guardoffset), as the region it protects
GuardRegion(start, b) ==
  IF GUARDPAGE /\ GuardSize(b) # 0
    THEN {[lo |-> start + BagSize - GuardOffset(b), size |-> GuardSize(b)]}
    ELSE {}

\* mutant: the last object of a bag is compared with <= instead of <
IncrementBumpPointerPastLast(pos, last, b) ==
  IF pos <= last
    THEN [pos |-> pos + ClassSize(b), last |-> last, guards |-> {}]
    ELSE LET p == pos + NextHeapObjectOffset(b)
         IN [pos |-> p, last |-> LastOfBag(p, GuardOffset(b), ClassSize(b)),
             guards |-> GuardRegion(p, b)]

\* incrementBumpPointer: the new position and lastofCurBag, and the guard
\* page set when the pointer moves to the bag in the next heap of the replica
IncrementBumpPointer(pos, last, b) ==
  IF pos < last
    THEN [pos |-> pos + ClassSize(b), last |-> last, guards |-> {}]
    ELSE LET p == pos + NextHeapObjectOffset(b)
         IN [pos |-> p, last |-> LastOfBag(p, GuardOffset(b), ClassSize(b)),
             guards |-> GuardRegion(p, b)]

\* tryRandomGuardPage, when the random draw is under the cut-off
RandomGuardPage(pos, last, b) ==
  LET cs == ClassSize(b)
      skipped == IF cs < PageSize THEN pos + (PageSize \div cs - 1) * cs ELSE pos
      r == IncrementBumpPointer(skipped, last, b)
  IN [pos |-> r.pos, last |-> r.last,
      guards |-> r.guards \cup {[lo |-> pos, size |-> IF cs < PageSize THEN PageSize ELSE cs]}]

VARIABLES
  bag,           \* <<thread slot, bag number>> of the bag whose walk is followed
  replica,       \* the replica (bag-set item) whose bump pointer is followed
  position,      \* position[i]
  lastofCurBag,  \* lastofCurBag[i]
  guarded,       \* regions made PROT_NONE by setGuardPage and tryRandomGuardPage
  issued,        \* <<address, replica>> of every object the bump pointer handed out
  nalloc         \* nalloc[i]: bump allocations from replica i

vars == <<bag, replica, position, lastofCurBag, guarded, issued, nalloc>>

\* mutant: the initialisation loop runs to bagNum <= _numUsableBags
InitOneBagTooMany ==
  /\ bag \in SubHeaps \X (0 .. NumUsableBags)
  /\ replica \in Items
  /\ position = [i \in Items |-> StartOffset(bag[1], bag[2]) + i * HeapSize]
  /\ lastofCurBag = [i \in Items |-> LastOfBag(position[i], GuardOffset(bag[2]), ClassSize(bag[2]))]
  /\ guarded = UNION {GuardRegion(position[i], bag[2]) : i \in Items}
  /\ issued = {}
  /\ nalloc = [i \in Items |-> 0]

\* initialize, for the bag followed.  The replicas of a bag share no state
\* on the bump path, so one replica's walk is followed at a time.
Init ==
  /\ bag \in SubHeaps \X Bags
  /\ replica \in Items
  /\ position = [i \in Items |-> StartOffset(bag[1], bag[2]) + i * HeapSize]
  /\ lastofCurBag = [i \in Items |-> LastOfBag(position[i], GuardOffset(bag[2]), ClassSize(bag[2]))]
  /\ guarded = UNION {GuardRegion(position[i], bag[2]) : i \in Items}
  /\ issued = {}
  /\ nalloc = [i \in Items |-> 0]

\* the bump branch of allocateSmallObject on replica i: hand out position,
\* advance it, and under RANDOM_GUARD, when the new position starts a page,
\* possibly make that page a guard and skip it
AllocateFromBump(i) ==
  /\ i = replica
  /\ nalloc[i] < MaxAllocs
  /\ LET b == bag[2]
         r == IncrementBumpPointer(position[i], lastofCurBag[i], b)
         g == RandomGuardPage(r.pos, r.last, b)
     IN /\ \E res \in {r} \cup (IF RANDOM_GUARD /\ r.pos % PageSize = 0
                                  THEN {[g EXCEPT !.guards = @ \cup r.guards]} ELSE {}) :
             /\ position' = [position EXCEPT ![i] = res.pos]
             /\ lastofCurBag' = [lastofCurBag EXCEPT ![i] = res.last]
             /\ guarded' = guarded \cup res.guards
        /\ issued' = issued \cup {<<position[i], i>>}
        /\ nalloc' = [nalloc EXCEPT ![i] = @ + 1]
  /\ UNCHANGED <<bag, replica>>

Next == \E i \in Items : AllocateFromBump(i)

Spec == Init /\ [][Next]_vars

-----------------------------------------------------------------------------
(* Properties                                                              *)

TypeOK ==
  /\ bag \in SubHeaps \X Bags
  /\ replica \in Items
  /\ position \in [Items -> Nat]
  /\ lastofCurBag \in [Items -> Nat]
  /\ guarded \subseteq [lo : Nat, size : Nat]
  /\ issued \subseteq Nat \X Items
  /\ nalloc \in [Items -> 0 .. MaxAllocs]

\* every object slot of every usable bag of every heap
AllObjects ==
  UNION {{StartOffset(t, b) + h * HeapSize + k * ClassSize(b) : k \in 0 .. NumBagObjects(b) - 1} :
         <<t, b, h>> \in SubHeaps \X Bags \X (0 .. NumHeaps - 1)}

(* freeSmallObject finds the lock and the free list of an object from its  *)
(* address alone, and allocateSmallObject finds the object of a popped     *)
(* shadow record from the record alone.  For every object the bump walk    *)
(* hands out -- across heaps, trailing and random guard pages --           *)
(* getShadowObjectInfo names the bag and the replica that issued it, the   *)
(* address passes the alignment check, the record is the one               *)
(* allocateSmallObject marked through the bag it allocated from, and       *)
(* getAddrFromShadowInfo gives the address back.                           *)
ShadowMapsBack ==
  \A x \in issued :
    LET si == ShadowObjectInfo(x[1]) IN
    /\ si.bag = bag
    /\ si.item = x[2]
    /\ si.aligned
    /\ ShadowObjectInfoOfBag(x[1], bag[1], bag[2]) = si.shadow
    /\ AddrFromShadowInfo(si.shadow, bag[1], bag[2]) = x[1]

\* the object slots whose shadow record is also another slot's record
SharedShadowSlots ==
  {a \in AllObjects : \E a2 \in AllObjects \ {a} :
                        ShadowObjectInfo(a2).shadow = ShadowObjectInfo(a).shadow}

(* The shadow record of an object the bump pointer hands out is the record *)
(* of no other object slot of any bag, thread or heap: the per-thread      *)
(* accumulation of offsetShadowMem and the heap stride                     *)
(* _shadowMemSizePerHeapCeil keep the records apart, so that the           *)
(* ALLOC_SENTINEL of one object never marks another.                       *)
ShadowLayoutInjective == \A x \in issued : x[1] \notin SharedShadowSlots

\* the slot the bump pointer reaches after slot a of a bag of class b when
\* no random guard page intervenes, and the slots it reaches a from
SlotAfter(a, b) ==
  IncrementBumpPointer(a, LastOfBag(a - (a % BagSize), GuardOffset(b), ClassSize(b)), b).pos
SlotsBefore ==
  [a \in AllObjects |->
     LET bb == ShadowObjectInfo(a).bag
     IN {p \in AllObjects : ShadowObjectInfo(p).bag = bb /\ SlotAfter(p, bb[2]) = a}]

\* the k slots after (right) or before (left) slot a in the replica's bump
\* order; to the left the sequence ends at the replica's first slot
RECURSIVE SlotsFrom(_, _, _)
SlotsFrom(a, move, k) ==
  IF k = 0 THEN <<>>
  ELSE IF move = "right"
    THEN <<SlotAfter(a, bag[2])>> \o SlotsFrom(SlotAfter(a, bag[2]), move, k - 1)
  ELSE IF SlotsBefore[a] = {} THEN <<>>
  ELSE LET p == CHOOSE p \in SlotsBefore[a] : TRUE IN <<p>> \o SlotsFrom(p, move, k - 1)

(* The canary check of freeSmallObject inspects the objects physically     *)
(* next to the freed one.  getNextCanaryNeighbor finds them by shadow      *)
(* arithmetic alone (objectindex from the record's offset, the jump        *)
(* nextShadowHeapObjectOffset between heaps of a replica, NULL left of the *)
(* replica's first heap); for every object inside the arena that the bump *)
(* walk hands out, the records it visits in each direction are those of    *)
(* the slots the bump pointer visits after it, or visited before it, in    *)
(* the same order.                                                         *)
CanaryWalkFollowsSlots ==
  \A x \in issued, mv \in Directions :
    x[1] + ClassSize(bag[2]) <= ArenaSize =>
    LET w == CanaryNeighbors(ShadowObjectInfo(x[1]).shadow, bag[1], bag[2], mv,
                             NUM_MORE_CANARIES_TO_CHECK)
        sl == SlotsFrom(x[1], mv, NUM_MORE_CANARIES_TO_CHECK)
    IN /\ Len(w) = Len(sl)
       /\ \A j \in 1 .. Len(sl) : w[j] = ShadowObjectInfo(sl[j]).shadow

(* The bump pointer never hands out an address twice, and never one that  *)
(* overlaps a page it made PROT_NONE (a trailing guard page of a bag or a  *)
(* random guard page).                                                     *)
BumpIssuesFreshUnguardedObjects ==
  /\ Cardinality({x[1] : x \in issued}) = MapThenSumSet(LAMBDA i : nalloc[i], Items)
  /\ \A x \in issued, g \in guarded :
       x[1] + ClassSize(bag[2]) <= g.lo \/ g.lo + g.size <= x[1]

(* Spec section 4.1: every object lies in [_heapBegin, _heapEnd), and      *)
(* malloc returns NULL when memory is exhausted.  incrementBumpPointer     *)
(* moves to the next heap of the replica without comparing with _heapEnd.  *)
IssuedInArena ==
  \A x \in issued : x[1] + ClassSize(bag[2]) <= ArenaSize

\* the object slots of the followed bag in the heaps of the followed replica
ReplicaSlots ==
  {StartOffset(bag[1], bag[2]) + h * HeapSize + k * ClassSize(bag[2]) :
     <<h, k>> \in {h \in 0 .. NumHeaps - 1 : h % BagSetSize = replica}
                  \X (0 .. NumBagObjects(bag[2]) - 1)}

(* incrementBumpPointer never compares with _heapEnd (IssuedInArena fails), *)
(* but the arena is left only when it is exhausted: an object past the    *)
(* arena is handed out only after every slot of the bag in every heap of   *)
(* the replica has been handed out or covered by a random guard page.  A   *)
(* walk that skipped a heap or part of a bag would run out of the arena    *)
(* with memory unused.                                                     *)
ArenaLeftOnlyWhenExhausted ==
  (\E x \in issued : x[1] + ClassSize(bag[2]) > ArenaSize) =>
    \A a \in ReplicaSlots :
      \/ <<a, replica>> \in issued
      \/ \E g \in guarded : ~(a + ClassSize(bag[2]) <= g.lo \/ g.lo + g.size <= a)

\* the shadow records freeSmallObject reads to free the object at addr: its
\* own and, under USE_CANARY, those of its canary neighbours
RecordsReadOnFree(addr) ==
  LET own == ShadowObjectInfo(addr).shadow
  IN {own} \cup IF USE_CANARY
                  THEN UNION {Range(CanaryNeighbors(own, bag[1], bag[2], mv, NUM_MORE_CANARIES_TO_CHECK))
                              : mv \in Directions}
                  ELSE {}

(* Spec section 4.1: every shadow record lies within [_shadowMemBegin,     *)
(* _shadowMemEnd), so freeing an object inside the heap arena reads only   *)
(* mapped shadow memory.  allocShadowMem maps NUM_HEAPS times              *)
(* _shadowMemSizePerHeap bytes while getShadowObjectInfo strides by the    *)
(* power-of-two ceiling of that size; and under USE_CANARY the right       *)
(* neighbour of the last object of a replica's last heap is a record of    *)
(* the heap after the arena.                                               *)
ShadowInBounds ==
  \A x \in issued :
    x[1] + ClassSize(bag[2]) <= ArenaSize
      => \A r \in RecordsReadOnFree(x[1]) : r + InfoSize <= TotalShadowMemSize

====
