# TLA+ models of FreeGuard

These modules model the FreeGuard allocator under `src/` and check it with TLC. FreeGuard is a
BIBOP ("big bag of pages") heap with per-thread bags, guard pages and shadow
metadata, plus a separate engine for large objects.

## The system

| Part | Source | What it does |
|---|---|---|
| Small-object engine | `bibopheap.hh`, `slist.h`, `dlist.h`, `xdefines.hh` | Each thread slot owns a `PerThreadBag` per size class. Each bag has `BIBOP_BAG_SET_SIZE` replicas. A replica has a free list, a spinlock and a bump pointer. `allocateSmallObject` pops the free list under the lock, or else bumps the pointer. `freeSmallObject` checks the shadow sentinel and pushes the object back. With `CFREELIST`, a thread frees its own objects without the lock. Other threads' frees go to the bag's cached free list, which is spliced onto a replica's free list once it holds more than `cflthreshold` objects. The `FIFO_FREELIST` build makes the free list the doubly linked queue of `dlist.h`. |
| Heap geometry and shadow memory | `bibopheap.hh` `initialize`, `getShadowObjectInfo`, `getAddrFromShadowInfo`, `incrementBumpPointer` | The arena is `BIBOP_NUM_HEAPS` heaps. Each heap holds sub-heaps, and each sub-heap holds one thread's bags. Addresses and shadow records map onto each other by shifts and masks. |
| Guard pages | `setGuardPage`, `tryRandomGuardPage` | Trailing guard pages close each bag of each heap. Optionally, random guard pages are added as the bump pointer crosses a page. |
| Canary | `USE_CANARY` paths | A byte past each object, checked on free together with its neighbours. |
| Thread registry | `xthread.hh` | Gives each thread a dense slot in `[0, MAX_ALIVE_THREADS)`. It maps `pthread_t` to a slot in `_xmap` and reclaims the slot on join. |
| Large-object engine | `bigheap.hh`, `hashmap.hh`, `list.hh` | Serves large objects with mmap/munmap and tracks them in a chained hash map (`_xmap`). Insert and erase take a global spinlock; the lookup in `deallocateToBigHeap` does not. |
| ABI facade | `libfreeguard.cpp` | malloc/free/calloc/realloc/memalign. It routes each request by size, and it holds the initialization latch. |
| OS facade and logging | `mm.hh`, `real.*`, `log.hh`, `errmsg.hh` | I/O wrappers. |

How the parts interact:
- The facade routes each request to the small or the large engine.
- The small engine indexes its bags by the calling thread's registry slot.
- The geometry decides which addresses the bump pointer hands out and where each object's shadow record lives.

## Modules

Abstract specifications (what a component promises) and the detailed modules that refine them:

| Abstract | Detailed | Mapping |
|---|---|---|
| SmallObjectAllocator | BibopHeap | `allocated <- live` |
| LargeObjectTable | BigHeap | `table <- ListKeys`, the keys reachable in the bucket list |
| FreeQueue | FifoFreeList | `queue <- FreeChain`, `cached <- Reverse(CachedChain)` |

Each refinement is checked by a run that lists the abstract `Spec` as a PROPERTY (`AllocatorSpec`, `TableSpec`, `FreeQueueSpec`).

- **SmallObjectAllocator**: each object is either allocated or not. `Allocate` takes an object that is not allocated; `Release` gives back one that is.

- **BibopHeap**: the small-object engine for one size class. It takes a set of thread slots (`Threads`) and `BagSetSize` replicas.
  - State:
    - `next[o]` is the shadow link of object `o`; `SENTINEL` means allocated.
    - `freelist`, `listlock`, `position`, `cfreelist` and `ncfree` are the `PerThreadBag` fields.
    - `pc`, `obj` and `tmp` are each thread's position and locals in the multi-step free paths.
    - `live` records what the application holds.
  - Allocation:
    - `AllocFromFreelist` is the locked pop plus the sentinel write.
    - `AllocFromBump` is the bump branch.
  - Free:
    - `FreeSmallObject` is the unlocked shadow check and the dispatch. With `DoubleFrees`, the application may also free an issued object it no longer holds. A free the check rejects would end the process, so it is a disabled step.
    - `FreeInsert` is the locked push.
    - `OwnLink` and `OwnPublish` are the two writes of the unlocked same-thread push.
    - `CflLink` and `CflPublish` are the foreign push into the cached list and the threshold test.
    - `Merge1`–`Merge4` are `insertAllSLLHead` and the reset in `realFreeCurrentList`.
  - Steps are split wherever another thread can run between two shared writes without a lock that excludes it.

- **FreeQueue** and **FifoFreeList**: one bag replica in the `FIFO_FREELIST` build.
  - FreeQueue is the promise: objects are reused in the order they were freed. Under `CFREELIST`, a batch of foreign frees joins the back of the queue, oldest first, once it holds more than the threshold.
  - In FifoFreeList, `freelist` is the `dlist_t` (`next` is the first node, `prev` the last), and `next[o]` is the shadow link.
  - The helpers translate `dlist.h`: `InsertDLLTail`, `RemoveDLLHead`, and `InsertAllDLLTail` with its reversing loop `ReverseChain`.
  - The actions are `AllocFromFreelist`, `AllocFromBump` (taken even with a non-empty list when the random draw says so), `FreeInvalid` (the double-free exit), `FreeToFreelist` and `FreeToCachedList` (the push, the count and the splice of `realFreeCurrentList`).
  - Each operation is one step, as the replica lock makes it. The exception is the owner's unlocked insert under `CFREELIST`. Its race with a splice is the same race BibopHeap checks for the singly linked build (heap_cfl_leak.cfg), so this module does not repeat it.

- **BibopGeometry**: the layout of `initialize`, as operators over the configured constants:
  - class sizes, usable bags, guard offsets and sizes, object counts;
  - start offsets and shadow offsets;
  - the per-heap shadow size and its power-of-two ceiling;
  - the shadow translation functions: the address-to-record lookups used by free (the address is decoded into a bag) and by allocation (the bag is given), and the record-to-address map;
  - the bump walk;
  - under `USE_CANARY`, the canary neighbour walk of `freeSmallObject`: `GetNextCanaryNeighbor` with `nextShadowHeapObjectOffset`, and `NUM_MORE_CANARIES_TO_CHECK` records each way.

  The bump walk consists of `IncrementBumpPointer`, `GuardRegion` (`setGuardPage`) and `RandomGuardPage`, where the random draw is a nondeterministic choice. Init chooses one bag of one sub-heap and one replica. `AllocateFromBump` then hands out its objects, and `issued` and `guarded` record what it handed out and which regions it protected.

- **ThreadRegistry**: `allocThreadIndex`, `initialize`/`initializeInitialThread`, and `thread_join`. `thread_create` becomes three steps: the locked `allocThreadIndex` (`CreateAllocIndex`), `Real::pthread_create` starting the child (`CreateStart`), and the locked `insertIfAbsent` (`CreateInsert`). The index a thread allocates with is `UsedIndices`. By default it is the thread-local index that `startThread` stores. Under `CUSTOMIZED_STACK`, it is computed by `getThreadIndex` from an address on the stack that `thread_create` placed in slot `tindex` (`StackAddrs`, `StackThreadIndex`), including the clamp to 0. `_xmap` is a finite function with `HashMap`'s `insertIfAbsent` and `find` (`InsertIfAbsent`, `Find`). Stack sizes are scaled to 4 units with one guard unit at each end; only an address's position inside its slot matters. `ThreadExitDetached`, used only by `DetachSpec`, is a detached child ending. The library intercepts neither `pthread_detach` nor detached attributes, so nothing of the registry runs then.
  - glibc writes the child's `pthread_t` before the child runs, so the child can be joined before `CreateInsert`. `EarlyJoin` lets the application do that. Otherwise `Joinable` waits for the creator.
  - `_xmap` is a function that is never erased, as in the code.
  - A new thread's `pthread_t` is any value not held by a live thread. Under `REUSE`, that includes the value of a thread already joined.

- **LargeObjectTable** and **BigHeap**: the large-object engine over one hash bucket whose keys all collide. Keys in different buckets touch disjoint lists, so they do not interact.
  - In BigHeap, `nxt`/`prv` are the `list.hh` links of each entry, and `count` is the bucket's `HashEntry::count` in a `SizeBits`-wide `size_t`. `getEntry` reads `count` through an `IntBits`-wide `int` (`ToInt`).
  - `Malloc`, `Link` and `AllocDone` are `allocateAtBigHeap`: mmap, then the locked `listInsertTail` and `count++`.
  - `Free` is `xxfree` of a large pointer. It runs two unlocked lookups, one step per shared read (`FindCount`, `FindStep`): first `isLargeObject`, then `deallocateToBigHeap`. A hit in the first (`LargeFound`) starts the second, and a hit in the second (`FindHit`) goes on to erase. A miss in the first is `xxfree`'s PRERR and return (`InvalidFree`, `FreeReturn`); the object stays mapped. A miss in the second is the `exit(-1)` (`FindMiss`).
  - `EraseLookup`, `EraseInit` and `EraseCount` are the locked `HashMap::erase`: the unlink, the re-initialisation of the erased node, and `count--`. `Unmap` is the munmap.
  - With `DOUBLE_FREE`, the application may free an object twice.

- **AllocationAbi**: the `libfreeguard.cpp` entry points as one application thread sees them. Each call is one step: `Malloc`, `Free`, `Calloc`, `Memalign`, `PosixMemalign`, `ReallocNull` and `Realloc`. A large malloc has three outcomes: the object, mmap's exit, and, under `REAL_MALLOC_FAILS`, a crash on the NULL `bigObjectStatus` (`LargeFault`). The abi run keeps the libc heap from running out.
  - It covers routing by size (`IsLargeRequest`, the canary's `size + 1`), the small class and bag arithmetic (`ClassSizeFor`, `BagNum`), and the large engine's page rounding and object start.
  - It also covers `getObjectSize`'s class-mask check and `xxfree`'s acceptance of a pointer (`AfterFree`).
  - `size_t` and `unsigned int` keep their widths (`SizeBits`, `UIntBits`), so the code's wrap-arounds happen at model sizes.
  - mmap either returns one of `HeapBegins`/`LargeBases`, or fails above `MaxMap`, and then `MM::allocate` exits.

- **HeapInit**: the `heapinitialize` latch of `libfreeguard.cpp` and the entry tests that lead to it, with one process counter `pc[t]` per thread.
  - `heapInitStatus` is the latch. `ready` is the set of components whose initialization has run: `bibop`, `real` (the `dlsym` pointers), `xthread` and `big`.
  - `Call` is an application call: the constructor (main thread, once), a small or large malloc, a free, or a `pthread_create`. `Entry` is the latch test each one makes first: free returns at once if the status is not DONE; malloc and the hook call `heapinitialize`.
  - `HiTest` and `HiSet` are the plain load and store of the test-and-set. `HiBibop`, `HiDone`, `HiReal`, `HiXthread` and `HiBig` follow the body in code order (`InitOrder`). `HiSpin` is the `while` of the else branch.
  - `HiRealNested` is a malloc or free that `dlsym` makes inside `Real::initializer`. It goes through the same latch test, so it re-enters `heapinitialize` and spins if DONE is not yet published.
  - `Serve` is the call past the latch. It records in `misuse` every component it needs that has not been initialized. A create starts a new thread, and threads exist only through it.

- **MCBibopHeap**, **MCThreadRegistry**, **MCBigHeap**, **MCHeapInit**: model values for threads, tids and addresses, and a symmetry over the child tids.

## Runs

The runs in PROJECT.json:

| Run | Expect | Shows |
|---|---|---|
| heap_locked | pass | Without CFREELIST (2 slots, 2 replicas, 2 bump objects each): every object is in exactly one place (`EachObjectInOnePlace`), the sentinel marks exactly the allocated objects, and the engine refines the abstract allocator. |
| heap_cfl_drain | pass | With CFREELIST (1 replica, threshold 0, 3 bump objects): no double allocation and an exact sentinel, even while the cached list drains. |
| heap_cfl_stranded | violation | Liveness under weak fairness per thread: an object on the cached list is never reused when no later foreign free crosses the threshold. |
| heap_double_free | violation | Two threads free one small object at once. Both pass the unlocked `isObjectFree` check, so the double free is not detected. |
| fifo | pass | FIFO build with CFREELIST (5 objects, threshold 1, random bump choice). `freelist.prev` is always the last node. The sentinel is exact, so the double-free exit fires exactly on repeated frees. Objects are reused in the order they were freed, which includes the reversing splice of foreign frees (refinement of FreeQueue). |
| geometry | pass | Every object the bump walk hands out in one bag (2 sub-heaps, 4 heaps, 32-byte pages, random guards, canary on) is fresh and unguarded, maps to a shadow record and back (the record allocation marks is the one free decodes), and belongs to no other slot's shadow range. The canary walk from each in-arena object visits exactly the neighbouring slots in bump order. The walk leaves the arena only after every slot of the replica's heaps has been handed out or guarded (`ArenaLeftOnlyWhenExhausted`), so the missing end check is the only way out. |
| geometry_shadow | violation | An object inside the arena in heap 3 has its shadow record past `_shadowMemEnd`. |
| registry | pass | With fresh `pthread_t` values (main plus 4 children, `MAX_ALIVE_THREADS` 4), slots stay exclusive and in range, and the flags and counter stay exact, when a child is joined only after its creator returns. Under `CUSTOMIZED_STACK`, the index each live thread derives from its stack is its own slot (`BagSlotsExclusive`). |
| bigheap | pass | Two threads allocate and free large objects in one bucket. The bucket's count matches its list, and the keys in the list follow the abstract table (refinement of LargeObjectTable). |
| bigheap_spurious | violation | An unlocked lookup follows an entry that a concurrent erase is unlinking and misses a live key. The legitimate free is then reported as invalid: either leaked after a PRERR, or ended with exit. |
| latch | pass | The main thread and one child; `dlsym` makes up to 2 small mallocs or frees; 6 application calls, including a malloc before the constructor. The BIBOP heap is initialized once, by one thread. No call uses a component before its initialization, even though DONE is published early. Every call returns (`CallsReturn`, under `FairSpec`). |
| abi | pass | Over sizes below, at and above the threshold, calloc, memalign with alignment 1, realloc and free: every returned object has as many usable bytes as requested, exactly the bytes the spec says, and is accepted by free. `AllocationNeverExits` is checked only in `abi_oom.cfg` and `abi_internal_oom.cfg`: with allocators that never fail, no call can exit. |

The check allows 12 runs, so some violations are kept as configurations outside the run list. Each one reproduces a finding in PROJECT.json (`run` is empty there):

| Configuration | Module | Shows |
|---|---|---|
| heap_cfl_leak.cfg | MCBibopHeap | The owner's unlocked push races a foreign drain of the same free list, and an object is lost (`EachObjectInOnePlace`, which heap_locked checks where it holds). |
| latch_nested_large.cfg | MCHeapInit | If `dlsym` made a large malloc inside `Real::initializer`, that malloc would pass the latch and reach BigHeap before `initBigHeap` (`EnginesReadyWhenUsed`). glibc's `dlsym` makes only small allocations, so this is a hazard rather than a finding. |
| heap_cfl_bagset.cfg | MCBibopHeap | Two replicas share one cached list, and one object is returned to two callers (`AllocatorSpec`). |
| geometry_arena.cfg | BibopGeometry | The bump pointer leaves the arena (`IssuedInArena`). |
| geometry_canary.cfg | BibopGeometry | Freeing the last object of a replica's last heap makes the canary walk read a shadow record past the arena (`ShadowInBounds`). |
| registry_reuse.cfg | MCThreadRegistry | A reused `pthread_t` makes join free a slot that another thread holds (`SlotsExclusive`). |
| registry_early_join.cfg | MCThreadRegistry | A child joined before its creator's `insertIfAbsent` is missing from `_xmap`. Its slot is never released, while `_aliveThreads` is decremented (`AvailableTracksAlive`). |
| registry_detached.cfg | MCThreadRegistry | `DetachSpec` adds `ThreadExitDetached`: a child that ends without a join. The application never has more than 2 threads alive, but its second child gets slot 2 (`SlotInRange`). |
| registry_overflow.cfg | MCThreadRegistry | One thread too many gets slot `MAX_ALIVE_THREADS` (`SlotInRange`). |
| registry_overflow_stack.cfg | MCThreadRegistry | Under `CUSTOMIZED_STACK`, that thread's stack lies past the area, and `getThreadIndex` maps it to 0. It then allocates from the main thread's bags (`BagSlotsExclusive`). |
| bigheap_double_free.cfg | MCBigHeap | Two concurrent frees of one large object both pass the lookup (`NoUndetectedDoubleFree`). |
| bigheap_reported.cfg | MCBigHeap | A large object is freed a second time after the first free. `isLargeObject` misses, and `xxfree` reports it and returns without aborting (`InvalidLargeFreeAborts`). |
| bigheap_count.cfg | MCBigHeap | A second erase of an absent key decrements `count` anyway, and later lookups miss live keys (`BucketConsistent`). |
| abi_calloc.cfg | AllocationAbi | `calloc(16, 16)` with an 8-bit `size_t` wraps to a 2-byte object (`UsableCoversRequest`). |
| abi_canary.cfg | AllocationAbi | Under `USE_CANARY`, `malloc(SIZE_MAX)` wraps to the smallest class (`UsableCoversRequest`). |
| abi_heap_end.cfg | AllocationAbi | mmap places a large object directly after the arena, so it starts at `_heapEnd`. `isSmallObject`'s `<=` sends its free to the small engine (`ReturnedPointersFreeable`). |
| abi_memalign.cfg | AllocationAbi | `memalign(2, 9)` returns a pointer that free rejects (`ReturnedPointersFreeable`). |
| abi_oom.cfg | AllocationAbi | A failed mmap exits instead of returning NULL (`AllocationNeverExits`). |
| abi_internal_oom.cfg | AllocationAbi | With `REAL_MALLOC_FAILS`, a large malloc gets NULL for its status record and writes through it (`AllocationNeverExits`). |

Run them with `tlc -workers 2 -config <cfg> <module>`.

## Findings

PROJECT.json lists each finding with its line.

| Finding | Kind | Where |
|---|---|---|
| Lost object on the CFREELIST same-thread path | code bug | `bibopheap.hh:579` |
| Double allocation through the shared cached list | code bug, flagged by the code's own `#warning` | `bibopheap.hh:593` |
| Cached objects stranded forever | code against spec §5 | `bibopheap.hh:595` |
| Concurrent small double free not detected | code against spec §4.2 | `bibopheap.hh:523` |
| Shadow arena sized by the exact size but indexed by the ceiling | code bug | `bibopheap.hh:320` |
| No end-of-arena check on the bump pointer | code against spec §6 "NULL on OOM" | `bibopheap.hh:449` |
| Canary walk reads past the shadow arena | code bug | `bibopheap.hh:678` |
| Stale `_xmap` entries under `pthread_t` reuse | code bug | `xthread.hh:196` |
| Join before `insertIfAbsent` leaks the slot | code against the comment at `xthread.hh:191` | `xthread.hh:196` |
| Unbounded thread index | code against spec property 9 | `xthread.hh:124` |
| Detached threads never give their slot back | spec gap (§3 reclaims slots on join only) | `xthread.hh:229` |
| Unlocked large lookups reject a legitimate free: a leak after PRERR, or exit | code bug | `libfreeguard.cpp:206`, `bigheap.hh:100` |
| Concurrent large double free not detected | code against spec §4.6 | `bigheap.hh:100` |
| A large free of an absent pointer is reported but does not abort | code against spec §4.6 | `libfreeguard.cpp:209` |
| `HashMap::erase` decrements the count of a missing key | code bug | `hashmap.hh:208` |
| `calloc` product overflow | code bug | `libfreeguard.cpp:215` |
| Canary `size + 1` overflow | code bug | `xdefines.hh:114` |
| `memalign` adds the residual instead of rounding up | code bug | `libfreeguard.cpp:296` |
| `isSmallObject` accepts `_heapEnd`, which a large object can start at | code bug | `bibopheap.hh:611` |
| mmap failure exits | code against spec §6 | `mm.hh:62` |
| Large malloc writes through the internal malloc's NULL | code against spec §6 | `bigheap.hh:76` |

## Bounds

Each bound is the smallest value at which the case occurs.
- **BibopHeap:** 2 slots, because a foreign free needs two. Up to 2 replicas. 2–3 objects per replica, so that a list has two elements and a splice moves more than one. One object is enough for the concurrent double free.
- **FifoFreeList:** 5 objects and threshold 1. A splice then moves a batch of two onto a list that already holds objects, and the queue can hold a mix of owner and foreign frees. `CflThreshold` 0 (bags under 10 objects) is the case where every foreign free splices at once. It is a special case of the same operator.
- **BibopGeometry:**
  - 4 bag classes of 128-byte bags with a 64-byte large threshold, of which the last class is unusable, as in the real layout;
  - the bag size comes from `initialize`'s random draw: random bag sizes 64 to 256 and the draw 4 give power 1, so the bags are 128 bytes. The draw is a constant of the configuration, because every layout operator depends on it. Another draw needs another configuration;
  - 2 sub-heaps and 4 heaps, so that the walk and the canary walk cross heaps;
  - 32-byte pages, so that guard pages cut bags;
  - 14 allocations, more than the 12 class-16 objects that fit in a replica's heaps, so the walk reaches the arena end.

  Init ranges over every bag and sub-heap, so all of them are checked.
- **ThreadRegistry:** 4 slots and 4 creates, enough to fill every slot and to reuse freed ones.
- **BigHeap:** 2 threads and 3 colliding addresses. A lookup can then walk past one entry while another is erased. `size_t` is 8 bits and `int` is 4, so the count's underflow reads as -1. There are 4 allocations.
- **HeapInit:** two threads, because the latch race needs a second thread. It can only come from the hook. 6 calls let the main thread malloc before the constructor, run the constructor, create the child, and let the child malloc and free. 2 nested calls let `dlsym` both allocate and free.
- **AllocationAbi:** 8-bit `size_t`, 6-bit `unsigned`, classes 2/4/8 in 8-byte bags, 2-byte pages, 2 heap bases, and 2 large bases. The sizes {1, 5, 8, 9, 40} fall below, at and above the threshold. The run makes 4 calls.
  - With alignment 1, `Realloc`'s arms for a misaligned small pointer and for an unknown pointer are not reached in the abi run.
  - abi_memalign.cfg reaches them.

Symmetry applies only to the interchangeable child tids.

## Fairness

`FairSpec` gives each thread weak fairness on its own steps. Threads are preemptively scheduled, and a spinlock is retried until it is taken, so a thread that can step eventually does. heap_cfl_stranded and latch use it. The other runs check safety. In HeapInit, fairness covers only steps inside a call, because the application may stop calling. The spin loop re-reads the status on every iteration, so its step is weakly fair.

Some runs set `CHECK_DEADLOCK FALSE`, and each cfg says why:
- The application may simply stop allocating, freeing or creating threads.
- A detected double free ends the process.
- In heap_cfl_bagset, a stuck state is the `getTailSLL(NULL)` crash.

## Not modelled

- **An in-arena bump walk as a passing property.** The code has no end-of-arena check, so `IssuedInArena` is violated (geometry_arena.cfg). What does hold is checked instead: the walk leaves the arena only once the arena is exhausted.
- **The owner's unlocked FIFO insert racing a splice.** This is the race of heap_cfl_leak.cfg again, on the doubly linked list.
- **`insertDLLHead`**, `getUsableSize` and `getHeapNumber(addr)`, which have no caller.
- **Canary byte values and the FATAL on a corrupted canary.** They depend on the application writing past an object.
- **`DESTROY_ON_FREE`**, **`DETECT_UAF`**, **logging**, **`dlsym` resolution** and the **mmap/munmap/mprotect wrappers**. These are I/O with no allocator state. Where mmap can fail (AllocationAbi), its exit is modelled.
- **A composition of the registry with BibopHeap.** The registry's slot handling is checked in ThreadRegistry. BibopHeap takes its slots as given.
