---------------------------- MODULE AllocationAbi ----------------------------
(***************************************************************************)
(* The allocation ABI of src/libfreeguard.cpp (malloc, free, calloc,       *)
(* realloc, memalign, posix_memalign) over the two engines, as one         *)
(* application thread sees it: which engine a request goes to, which       *)
(* address comes back and how many usable bytes follow it, and whether a   *)
(* later free or realloc of that address is accepted.  Interleavings of    *)
(* threads inside the engines are the subject of BibopHeap and BigHeap;    *)
(* here every call is one step.                                            *)
(*                                                                         *)
(* size_t is SizeBits wide and unsigned int UIntBits wide, so that the     *)
(* wrap-arounds of the code happen at model sizes.  The small engine is    *)
(* one sub-heap of one heap: bag k of BagSize bytes at _heapBegin +       *)
(* k * BagSize holds objects of class MinBlock * 2^k.  _heapBegin is the   *)
(* page-aligned address mmap returned (chosen in Init); large mappings are *)
(* page-aligned regions outside the arena, possibly adjacent to its end.   *)
(***************************************************************************)
EXTENDS Naturals, FiniteSets

CONSTANTS
  SizeBits, UIntBits,  \* widths of size_t and unsigned int
  MinBlock,            \* BIBOP_MIN_BLOCK_SIZE
  NumBags,             \* BIBOP_NUM_BAGS
  BagSize,             \* _bibopBagSize
  LargeThreshold,      \* LARGE_OBJECT_THRESHOLD
  PageSize,            \* PageSize
  USE_CANARY,          \* build flag
  HeapBegins,          \* addresses mmap may return for the heap arena
  LargeBases,          \* page-aligned addresses mmap may return for large objects
  MaxMap,              \* the largest mapping mmap grants
  Sizes,               \* request sizes the application passes
  CallocCounts,        \* element counts passed to calloc
  Alignments,          \* alignments passed to memalign / posix_memalign
  REAL_MALLOC_FAILS,   \* Real::malloc may return NULL (libc heap exhausted)
  MaxCalls             \* bound: calls made by the application

ASSUME /\ MinBlock \in Nat \ {0} /\ PageSize \in Nat \ {0}
       /\ USE_CANARY \in BOOLEAN /\ REAL_MALLOC_FAILS \in BOOLEAN
       /\ \A b \in HeapBegins : b % PageSize = 0
       /\ \A b \in LargeBases : b % PageSize = 0

SizeMod == 2^SizeBits
NULL == 0

RECURSIVE BitLen(_)
BitLen(x) == IF x = 0 THEN 0 ELSE 1 + BitLen(x \div 2)
Log2(x) == BitLen(x) - 1

\* alignup(size, PageSize) in size_t
AlignUp(s) ==
  LET x == (s + PageSize - 1) % SizeMod
  IN IF s % PageSize = 0 THEN s ELSE x - (x % PageSize)

\* IF_CANARY_CONDITION: the request goes to the large-object engine
IsLargeRequest(s) ==
  IF USE_CANARY THEN (s + 1) % SizeMod > LargeThreshold ELSE s > LargeThreshold

CanaryBytes == IF USE_CANARY THEN 1 ELSE 0

\* mutant: shifts one place too far, giving half the class
ClassSizeForHalf(s) ==
  LET sz == (s + CanaryBytes) % SizeMod IN
  IF sz <= MinBlock THEN MinBlock ELSE 2^(BitLen((sz - 1) % 2^UIntBits) - 1)

\* allocateSmallObject: sz++ under USE_CANARY, then
\* classSize = (1ULL << 32) >> __builtin_clz(sz - 1) on an unsigned int
ClassSizeFor(s) ==
  LET sz == (s + CanaryBytes) % SizeMod IN
  IF sz <= MinBlock THEN MinBlock ELSE 2^BitLen((sz - 1) % 2^UIntBits)

\* mutant: counts bags from one
BagNumPastEnd(c) == Log2(c) - Log2(MinBlock) + 1

\* getBagNum and the bag's position in the sub-heap
BagNum(c) == Log2(c) - Log2(MinBlock)

VARIABLES
  heapBegin,  \* _heapBegin
  mem,        \* [small: allocated small objects, large: _xmap key -> mapping,
              \*  fault: "none", "alloc_exit", "null_deref", "invalid_exit" or "free_rejected"]
  held,       \* [p, end, req, how] of each pointer the application holds
  ncalls      \* calls made so far

vars == <<heapBegin, mem, held, ncalls>>

HeapEnd == heapBegin + NumBags * BagSize
BagStart(c) == heapBegin + BagNum(c) * BagSize
SmallSlots(c) == {BagStart(c) + k * c : k \in 0 .. BagSize \div c - 1}

\* isSmallObject (note <=)
IsSmallObject(p) == heapBegin <= p /\ p <= HeapEnd

\* the bag that getShadowObjectInfo decodes an address into: its class
\* (bag number taken modulo the bags of a sub-heap) and the offset in it
BagClassOf(p) == MinBlock * 2^(((p - heapBegin) \div BagSize) % NumBags)
BagOffsetOf(p) == (p - heapBegin) % BagSize

\* getShadowObjectInfo's check: the offset in the bag is a multiple of the
\* class (localBagOffset & classMask == 0); it exits otherwise
ClassAligned(p) == BagOffsetOf(p) % BagClassOf(p) = 0

\* isInvalidAddr
IsInvalidAddr(p) == ~(heapBegin <= p /\ p <= HeapEnd)

\* BibopHeap::getObjectSize: -1 outside the arena, else the class size of
\* the bag the address decodes to, less the canary byte
SmallObjectSize(p) ==
  IF IsInvalidAddr(p) THEN SizeMod - 1 ELSE BagClassOf(p) - CanaryBytes

\* xxrealloc's oldSize: getObjectSize of either engine; -1 (SIZE_MAX) for
\* an unknown pointer
ObjectSize(p, m) ==
  IF IsSmallObject(p) THEN SmallObjectSize(p)
  ELSE IF p \in DOMAIN m.large THEN m.large[p].size
  ELSE SizeMod - 1

\* mutant: returns the mapping's start instead of shifting the object to
\* end at the page boundary
ObjectStartAtMapping(ptr, pageUpSize, size) == ptr

\* allocateAtBigHeap: objStartPtr = ptr + (pageUpSize - size)
ObjectStart(ptr, pageUpSize, size) == ptr + (pageUpSize - size)

\* a large malloc that does not return: fault f
LargeFault(f) == [fail |-> f, small |-> FALSE, p |-> NULL, end |-> NULL, base |-> NULL, pu |-> 0]

\* what xxmalloc(s) may do: each result is a record whose fail is the
\* fault that ends the process ("none" if it goes on), the object's start,
\* its key (the pointer returned) and the end of its usable bytes.  A large
\* request first takes the bigObjectStatus from Real::malloc through
\* HeapAllocator::allocate, which passes NULL on, and writes through it
\* after the mmap; mmapAllocatePrivate exits when mmap fails
MallocOutcomes(s, m) ==
  IF IsLargeRequest(s)
    THEN LET pu == AlignUp(s) IN
         (IF REAL_MALLOC_FAILS THEN {LargeFault("null_deref")} ELSE {})
         \cup
         IF pu = 0 \/ pu > MaxMap
           THEN {LargeFault("alloc_exit")}
           ELSE {[fail |-> "none", small |-> FALSE, p |-> ObjectStart(b, pu, s), end |-> b + pu,
                  base |-> b, pu |-> pu]
                  : b \in {x \in LargeBases : \A k \in DOMAIN m.large : m.large[k].start # x}}
    ELSE LET c == ClassSizeFor(s) IN
         {[fail |-> "none", small |-> TRUE, p |-> b, end |-> b + c - CanaryBytes,
           base |-> b, pu |-> 0] : b \in SmallSlots(c) \ m.small}

\* the engines' state after an allocation outcome o of a request of s bytes
AfterAlloc(o, s, m) ==
  IF o.fail # "none" THEN [m EXCEPT !.fault = o.fail]
  ELSE IF o.small THEN [m EXCEPT !.small = @ \cup {o.base}]
  ELSE [m EXCEPT !.large = [k \in DOMAIN @ \cup {o.p} |->
                              IF k = o.p THEN [start |-> o.base, size |-> s, pageUp |-> o.pu]
                              ELSE @[k]]]

\* mutant: tests the class mask on the absolute address, not the offset
\* from _heapBegin
AfterFreeMaskAbsolute(p, m) ==
  IF IsSmallObject(p)
    THEN IF p % BagClassOf(p) # 0 \/ p \notin m.small
           THEN [m EXCEPT !.fault = "invalid_exit"]
           ELSE [m EXCEPT !.small = @ \ {p}]
  ELSE IF p \in DOMAIN m.large
    THEN [m EXCEPT !.large = [k \in DOMAIN @ \ {p} |-> @[k]]]
  ELSE [m EXCEPT !.fault = "free_rejected"]

\* xxfree(p) on the engines' state: freeSmallObject's class-mask and
\* sentinel checks exit; isLargeObject false is "invalid free" and returns
AfterFree(p, m) ==
  IF IsSmallObject(p)
    THEN IF ~ClassAligned(p) \/ p \notin m.small
           THEN [m EXCEPT !.fault = "invalid_exit"]
           ELSE [m EXCEPT !.small = @ \ {p}]
  ELSE IF p \in DOMAIN m.large
    THEN [m EXCEPT !.large = [k \in DOMAIN @ \ {p} |-> @[k]]]
  ELSE [m EXCEPT !.fault = "free_rejected"]

Held(o, req, how) ==
  IF o.fail # "none" THEN {} ELSE {[p |-> o.p, end |-> o.end, req |-> req, how |-> how]}

Init ==
  /\ heapBegin \in HeapBegins
  /\ mem = [small |-> {}, large |-> [k \in {} |-> 0], fault |-> "none"]
  /\ held = {}
  /\ ncalls = 0

\* every call: the process still runs and the call bound is not reached
Call == /\ mem.fault = "none" /\ ncalls < MaxCalls
        /\ ncalls' = ncalls + 1 /\ UNCHANGED heapBegin

\* xxmalloc: IF_CANARY_CONDITION picks the engine
Malloc(s) ==
  /\ Call
  /\ \E o \in MallocOutcomes(s, mem) :
       /\ mem' = AfterAlloc(o, s, mem)
       /\ held' = held \cup Held(o, s, "malloc")

\* xxfree of a pointer the application holds
Free(h) ==
  /\ Call
  /\ held' = held \ {h}
  /\ mem' = AfterFree(h.p, mem)

\* xxcalloc: malloc(nelem * elsize) in size_t, then memset
Calloc(n, e) ==
  /\ Call
  /\ \E o \in MallocOutcomes((n * e) % SizeMod, mem) :
       /\ mem' = AfterAlloc(o, (n * e) % SizeMod, mem)
       /\ held' = held \cup Held(o, n * e, "calloc")

\* xxmemalign: malloc(alignment + size), then add object % alignment
MemalignResult(al, s, how) ==
  /\ s # 0
  /\ \E o \in MallocOutcomes((al + s) % SizeMod, mem) :
       /\ mem' = AfterAlloc(o, (al + s) % SizeMod, mem)
       /\ held' = held \cup Held([o EXCEPT !.p = o.p + (o.p % al)], s, how)

Memalign(al, s) == Call /\ MemalignResult(al, s, "memalign")

\* xxposix_memalign: *memptr = xxmemalign(alignment, size); return 0
PosixMemalign(al, s) == Call /\ MemalignResult(al, s, "posix_memalign")

\* xxrealloc(NULL, sz) is xxmalloc(sz)
ReallocNull(s) ==
  /\ Call
  /\ \E o \in MallocOutcomes(s, mem) :
       /\ mem' = AfterAlloc(o, s, mem)
       /\ held' = held \cup Held(o, s, "realloc")

\* xxrealloc(ptr, sz) of a pointer the application holds: sz == 0 frees;
\* getObjectSize of a small pointer exits on the class-mask check; an
\* unknown object gives NULL; oldSize >= sz keeps ptr; otherwise
\* malloc, memcpy of oldSize bytes, free
Realloc(h, s) ==
  LET old == ObjectSize(h.p, mem) IN
  /\ Call
  /\ CASE s = 0 ->
            /\ held' = held \ {h}
            /\ mem' = AfterFree(h.p, mem)
       [] IsSmallObject(h.p) /\ ~ClassAligned(h.p) ->
            /\ mem' = [mem EXCEPT !.fault = "invalid_exit"]
            /\ UNCHANGED held
       [] old = SizeMod - 1 ->
            UNCHANGED <<mem, held>>
       [] old >= s ->
            /\ held' = (held \ {h}) \cup {[h EXCEPT !.req = s, !.how = "realloc"]}
            /\ UNCHANGED mem
       [] OTHER ->
            \E o \in MallocOutcomes(s, mem) :
              /\ mem' = IF o.fail # "none" THEN AfterAlloc(o, s, mem)
                        ELSE AfterFree(h.p, AfterAlloc(o, s, mem))
              /\ held' = (held \ {h}) \cup Held(o, s, "realloc")

Next ==
  \/ \E s \in Sizes : Malloc(s) \/ ReallocNull(s)
  \/ \E n \in CallocCounts, e \in Sizes : Calloc(n, e)
  \/ \E al \in Alignments, s \in Sizes : Memalign(al, s) \/ PosixMemalign(al, s)
  \/ \E h \in held : Free(h) \/ \E s \in Sizes \cup {0} : Realloc(h, s)

Spec == Init /\ [][Next]_vars

-----------------------------------------------------------------------------
(* Properties                                                              *)

TypeOK ==
  /\ heapBegin \in HeapBegins
  /\ mem.small \subseteq heapBegin .. HeapEnd - 1
  /\ mem.fault \in {"none", "alloc_exit", "null_deref", "invalid_exit", "free_rejected"}
  /\ \A h \in held : h.p \in Nat /\ h.end \in Nat /\ h.req \in Nat
  /\ ncalls \in 0 .. MaxCalls

(* Spec 6: a non-NULL pointer returned for a request of n bytes (malloc,   *)
(* calloc(k, m) with n = k * m, realloc, memalign) has at least n usable   *)
(* bytes from it.  Takes size_t wrap-around in calloc, memalign and the    *)
(* canary's size + 1, and realloc trusting getObjectSize for a pointer     *)
(* that is not an object's start.                                          *)
UsableCoversRequest ==
  \A h \in held : h.end - h.p >= h.req

(* Spec property 3 and scenario S3: malloc and calloc of s bytes give the  *)
(* least power of two at least max(MIN_BLOCK, s) for a small request, and  *)
(* exactly s bytes above LARGE_THRESHOLD.  The reference is stated as a    *)
(* least element, independently of the clz arithmetic of the code.         *)
SpecUsable(s) ==
  IF s > LargeThreshold THEN s
  ELSE CHOOSE c \in {MinBlock * 2^k : k \in 0 .. SizeBits} :
         /\ c >= s
         /\ \A d \in {MinBlock * 2^k : k \in 0 .. SizeBits} : d >= s => c <= d
UsableSizeAsSpecified ==
  \A h \in held : h.how \in {"malloc", "calloc"} => h.end - h.p = SpecUsable(h.req)

(* Spec 6 (posix_memalign returns a sub-address the caller may free): a    *)
(* free or realloc of a pointer the ABI returned never ends the process or *)
(* is rejected as an invalid free.                                          *)
ReturnedPointersFreeable ==
  mem.fault \notin {"invalid_exit", "free_rejected"}

(* Spec 6: malloc returns NULL on OOM; the process is never ended by an    *)
(* allocation request, neither by mmapAllocatePrivate's exit nor by        *)
(* allocateAtBigHeap writing through the NULL of an exhausted Real::malloc.*)
AllocationNeverExits ==
  mem.fault \notin {"alloc_exit", "null_deref"}

==============================================================================
