------------------------------- MODULE BigHeap -------------------------------
(***************************************************************************)
(* The large-object engine of src/bigheap.hh over the chained hash map of  *)
(* src/hashmap.hh and the intrusive lists of src/list.hh.                  *)
(*                                                                         *)
(* Every modelled address hashes to the same bucket: operations on keys of *)
(* different buckets touch disjoint lists and counters and do not          *)
(* interact, so one bucket with colliding keys is the case that matters.   *)
(* An Entry is named by its key: nxt[a] and prv[a] are the list links of   *)
(* the entry for address a, Head is the bucket's HashEntry.                *)
(*                                                                         *)
(* insert and erase run under the BigHeap spinlock; the lookup at the top  *)
(* of deallocateToBigHeap does not.  So a thread's unlocked walk is one    *)
(* step per shared read (head->next, count, entry->next), and the locked   *)
(* writes are split where the walk can observe them between two of them:   *)
(* the unlink, the re-initialisation of the erased node, and the counter.  *)
(* Shared-memory accesses are taken to be sequentially consistent (x86).   *)
(***************************************************************************)
EXTENDS Integers, FiniteSets

CONSTANTS
  Threads,      \* application threads calling malloc/free on large objects
  Addrs,        \* addresses mmapAllocatePrivate may return, all in one bucket
  Head,         \* the bucket's HashEntry list head
  NULL,         \* the NULL entry pointer getEntry returns
  None,         \* no lock holder; the process has not exited
  DOUBLE_FREE,  \* the application may free an object it already freed
  SizeBits,     \* width of size_t (HashEntry::count)
  IntBits,      \* width of int (the local copy of count in getEntry)
  MaxAllocs     \* bound: allocateAtBigHeap calls

ASSUME /\ Head \notin Addrs /\ NULL \notin Addrs \cup {Head}
       /\ DOUBLE_FREE \in BOOLEAN
       /\ SizeBits \in Nat /\ IntBits \in 1 .. SizeBits
       /\ MaxAllocs \in Nat

Nodes == Addrs \cup {Head}
SizeMod == 2^SizeBits

\* int count = first->count: the low IntBits bits as two's complement
ToInt(c) == LET low == c % 2^IntBits
            IN IF low >= 2^(IntBits - 1) THEN low - 2^IntBits ELSE low

VARIABLES
  nxt, prv,   \* list_t next / prev of each Entry and of the bucket head
  count,      \* HashEntry::count
  lock,       \* BigHeap::_spin_lock holder or None
  mapped,     \* addresses of live mappings
  held,       \* objects returned to the application and not passed to free
  returned,   \* objects ever returned (a buggy application may free them again)
  pc,         \* per-thread program counter
  loc,        \* per-thread locals: addr, legit (held at the call), cur, cnt
  nallocs,    \* allocateAtBigHeap calls so far
  exited      \* None, or the thread whose free ended in exit(-1)

vars == <<nxt, prv, count, lock, mapped, held, returned, pc, loc, nallocs, exited>>

\* the keys reachable from the bucket head by next links
RECURSIVE Reach(_, _)
Reach(n, seen) ==
  IF n = Head \/ n \in seen THEN seen ELSE Reach(nxt[n], seen \cup {n})
ListKeys == Reach(nxt[Head], {})

\* getEntry: walk at most (int)count entries from head->next comparing keys
RECURSIVE Search(_, _, _)
Search(e, c, a) ==
  IF c <= 0 THEN NULL ELSE IF e = a THEN e ELSE Search(nxt[e], c - 1, a)
GetEntry(a) == Search(nxt[Head], ToInt(count), a)

NoLocals == [addr |-> NULL, legit |-> FALSE, cur |-> NULL, cnt |-> 0,
             phase |-> "isLarge"]

Init ==
  /\ nxt = [n \in Nodes |-> n]
  /\ prv = [n \in Nodes |-> n]
  /\ count = 0
  /\ lock = None
  /\ mapped = {}
  /\ held = {}
  /\ returned = {}
  /\ pc = [t \in Threads |-> "idle"]
  /\ loc = [t \in Threads |-> NoLocals]
  /\ nallocs = 0
  /\ exited = None

Running == exited = None
Goto(t, l) == pc' = [pc EXCEPT ![t] = l]

\* allocateAtBigHeap up to the lock: the status record and mmap of a fresh
\* page-rounded mapping
Malloc(t, a) ==
  /\ pc[t] = "idle" /\ nallocs < MaxAllocs
  /\ a \notin mapped
  /\ mapped' = mapped \cup {a}
  /\ loc' = [loc EXCEPT ![t] = [NoLocals EXCEPT !.addr = a]]
  /\ nallocs' = nallocs + 1
  /\ Goto(t, "a_link")
  /\ UNCHANGED <<nxt, prv, count, lock, held, returned, exited>>

\* mutant: __insert_between without next->prev = node
LinkKeepTail(t) ==
  LET a == loc[t].addr IN
  /\ pc[t] = "a_link" /\ lock = None
  /\ lock' = t
  /\ nxt' = [nxt EXCEPT ![a] = Head, ![prv[Head]] = a]
  /\ prv' = [prv EXCEPT ![a] = prv[Head]]
  /\ Goto(t, "a_count")
  /\ UNCHANGED <<count, mapped, held, returned, loc, nallocs, exited>>

\* acquireGlobalLock; _xmap.insert: createNewEntry and listInsertTail
Link(t) ==
  LET a == loc[t].addr IN
  /\ pc[t] = "a_link" /\ lock = None
  /\ lock' = t
  /\ nxt' = [nxt EXCEPT ![a] = Head, ![prv[Head]] = a]
  /\ prv' = [prv EXCEPT ![a] = prv[Head], ![Head] = a]
  /\ Goto(t, "a_count")
  /\ UNCHANGED <<count, mapped, held, returned, loc, nallocs, exited>>

\* mutant: insertEntry without head->count++
AllocDoneNoCount(t) ==
  /\ pc[t] = "a_count"
  /\ lock' = None
  /\ held' = held \cup {loc[t].addr}
  /\ returned' = returned \cup {loc[t].addr}
  /\ Goto(t, "idle")
  /\ UNCHANGED <<nxt, prv, count, mapped, loc, nallocs, exited>>

\* head->count++; releaseGlobalLock; the status fields; return the object
AllocDone(t) ==
  /\ pc[t] = "a_count"
  /\ count' = (count + 1) % SizeMod
  /\ lock' = None
  /\ held' = held \cup {loc[t].addr}
  /\ returned' = returned \cup {loc[t].addr}
  /\ Goto(t, "idle")
  /\ UNCHANGED <<nxt, prv, mapped, loc, nallocs, exited>>

\* xxfree(a) of a pointer that is not small: isLargeObject's unlocked find
\* reads head->next first
Free(t, a) ==
  /\ pc[t] = "idle"
  /\ a \in held \cup (IF DOUBLE_FREE THEN returned ELSE {})
  /\ held' = held \ {a}
  /\ loc' = [loc EXCEPT ![t] = [addr |-> a, legit |-> a \in held,
                                 cur |-> nxt[Head], cnt |-> 0,
                                 phase |-> "isLarge"]]
  /\ Goto(t, "f_count")
  /\ UNCHANGED <<nxt, prv, count, lock, mapped, returned, nallocs, exited>>

\* getEntry: int count = first->count
FindCount(t) ==
  /\ pc[t] = "f_count"
  /\ loc' = [loc EXCEPT ![t].cnt = ToInt(count)]
  /\ Goto(t, "f_walk")
  /\ UNCHANGED <<nxt, prv, count, lock, mapped, held, returned, nallocs, exited>>

\* one iteration of getEntry's loop without a match:
\* entry = entry->nextEntry(); count--
FindStep(t) ==
  /\ pc[t] = "f_walk" /\ loc[t].cnt > 0 /\ loc[t].cur # loc[t].addr
  /\ loc' = [loc EXCEPT ![t].cur = nxt[loc[t].cur], ![t].cnt = @ - 1]
  /\ UNCHANGED <<nxt, prv, count, lock, mapped, held, returned, pc, nallocs, exited>>

\* isLargeObject finds the key: xxfree calls deallocateToBigHeap, whose own
\* unlocked find starts again from head->next
LargeFound(t) ==
  /\ pc[t] = "f_walk" /\ loc[t].cnt > 0 /\ loc[t].cur = loc[t].addr
  /\ loc[t].phase = "isLarge"
  /\ loc' = [loc EXCEPT ![t].cur = nxt[Head], ![t].cnt = 0,
                         ![t].phase = "dealloc"]
  /\ Goto(t, "f_count")
  /\ UNCHANGED <<nxt, prv, count, lock, mapped, held, returned, nallocs, exited>>

\* deallocateToBigHeap's find succeeds
FindHit(t) ==
  /\ pc[t] = "f_walk" /\ loc[t].cnt > 0 /\ loc[t].cur = loc[t].addr
  /\ loc[t].phase = "dealloc"
  /\ Goto(t, "f_lock")
  /\ UNCHANGED <<nxt, prv, count, lock, mapped, held, returned, loc, nallocs, exited>>

\* isLargeObject misses: xxfree reports "invalid free" with PRERR
InvalidFree(t) ==
  /\ pc[t] = "f_walk" /\ loc[t].cnt <= 0 /\ loc[t].phase = "isLarge"
  /\ Goto(t, "f_invalid")
  /\ UNCHANGED <<nxt, prv, count, lock, mapped, held, returned, loc, nallocs, exited>>

\* after the report xxfree returns; the object, if any, stays mapped
FreeReturn(t) ==
  /\ pc[t] = "f_invalid"
  /\ Goto(t, "idle")
  /\ UNCHANGED <<nxt, prv, count, lock, mapped, held, returned, loc, nallocs, exited>>

\* deallocateToBigHeap's find fails: "invalid or double free",
\* printCallStack, exit(-1)
FindMiss(t) ==
  /\ pc[t] = "f_walk" /\ loc[t].cnt <= 0 /\ loc[t].phase = "dealloc"
  /\ exited' = t
  /\ UNCHANGED <<nxt, prv, count, lock, mapped, held, returned, pc, loc, nallocs>>

\* acquireGlobalLock; _xmap.erase: getEntry, then listRemoveNode's unlink
EraseLookup(t) ==
  LET a == loc[t].addr IN
  /\ pc[t] = "f_lock" /\ lock = None
  /\ lock' = t
  /\ IF GetEntry(a) = a
       THEN /\ nxt' = [nxt EXCEPT ![prv[a]] = nxt[a]]
            /\ prv' = [prv EXCEPT ![nxt[a]] = prv[a]]
            /\ Goto(t, "f_init")
       ELSE /\ UNCHANGED <<nxt, prv>>
            /\ Goto(t, "f_dec")
  /\ UNCHANGED <<count, mapped, held, returned, loc, nallocs, exited>>

\* mutant: the erased node's links are cleared instead of self-linked
EraseInitClear(t) ==
  LET a == loc[t].addr IN
  /\ pc[t] = "f_init"
  /\ nxt' = [nxt EXCEPT ![a] = NULL]
  /\ prv' = [prv EXCEPT ![a] = NULL]
  /\ Goto(t, "f_dec")
  /\ UNCHANGED <<count, lock, mapped, held, returned, loc, nallocs, exited>>

\* listRemoveNode's nodeInit, then SourceHeap::deallocate(entry)
EraseInit(t) ==
  LET a == loc[t].addr IN
  /\ pc[t] = "f_init"
  /\ nxt' = [nxt EXCEPT ![a] = a]
  /\ prv' = [prv EXCEPT ![a] = a]
  /\ Goto(t, "f_dec")
  /\ UNCHANGED <<count, lock, mapped, held, returned, loc, nallocs, exited>>

\* first->count-- whether or not the key was found; releaseGlobalLock
EraseCount(t) ==
  /\ pc[t] = "f_dec"
  /\ count' = (count - 1) % SizeMod
  /\ lock' = None
  /\ Goto(t, "f_unmap")
  /\ UNCHANGED <<nxt, prv, mapped, held, returned, loc, nallocs, exited>>

\* munmap(objStatus->start, pageUpSize); deallocate the status record
Unmap(t) ==
  /\ pc[t] = "f_unmap"
  /\ mapped' = mapped \ {loc[t].addr}
  /\ Goto(t, "idle")
  /\ UNCHANGED <<nxt, prv, count, lock, held, returned, loc, nallocs, exited>>

Next ==
  /\ Running
  /\ \E t \in Threads :
       \/ \E a \in Addrs : Malloc(t, a) \/ Free(t, a)
       \/ Link(t) \/ AllocDone(t)
       \/ FindCount(t) \/ FindStep(t) \/ LargeFound(t) \/ FindHit(t)
       \/ InvalidFree(t) \/ FreeReturn(t) \/ FindMiss(t)
       \/ EraseLookup(t) \/ EraseInit(t) \/ EraseCount(t) \/ Unmap(t)

Spec == Init /\ [][Next]_vars


-----------------------------------------------------------------------------
(* Properties                                                              *)

TypeOK ==
  /\ nxt \in [Nodes -> Nodes] /\ prv \in [Nodes -> Nodes]
  /\ count \in 0 .. SizeMod - 1
  /\ lock \in Threads \cup {None}
  /\ mapped \subseteq Addrs /\ held \subseteq returned /\ returned \subseteq Addrs
  /\ nallocs \in 0 .. MaxAllocs
  /\ exited \in Threads \cup {None}

(* Whenever no thread is inside insert or erase (the lock is free), the    *)
(* bucket is a well-formed circular list whose entries number exactly     *)
(* HashEntry::count.  getEntry trusts count to bound its walk, so a count *)
(* that drifts from the list (erase decrements it even when the key is    *)
(* absent) hides entries from every later lookup.                          *)
BucketConsistent ==
  lock = None =>
    /\ count = Cardinality(ListKeys)
    /\ \A n \in ListKeys \cup {Head} : prv[nxt[n]] = n

(* Spec 4.6 and 7: free of an unknown pointer reports an invalid or       *)
(* double free; a pointer the application holds is always found.  Both    *)
(* lookups of xxfree (isLargeObject, then deallocateToBigHeap) run without *)
(* the lock while another thread erases a colliding entry; a miss in the   *)
(* first leaks the object with a report, a miss in the second exits.       *)
LegitFreeNotRejected ==
  /\ exited # None => ~loc[exited].legit
  /\ \A t \in Threads : pc[t] = "f_invalid" => ~loc[t].legit

(* Spec 4.6: the free of a large pointer that is absent from the table     *)
(* aborts.  xxfree only reaches deallocateToBigHeap's exit(-1) when        *)
(* isLargeObject found the pointer; a plain double free is reported with   *)
(* PRERR and the process goes on.                                          *)
InvalidLargeFreeAborts ==
  \A t \in Threads : pc[t] # "f_invalid"

(* Spec 4.6: a double free is reported.  No free of an object that was     *)
(* already freed gets past the lookup into erase and munmap.              *)
NoUndetectedDoubleFree ==
  \A t \in Threads :
    pc[t] \in {"f_lock", "f_init", "f_dec", "f_unmap"} => loc[t].legit

(* The bucket list implements the table contract: an entry appears only   *)
(* by an insert of an absent key and disappears only by the erase of that *)
(* key (refinement of LargeObjectTable with table <- ListKeys).            *)
Table == INSTANCE LargeObjectTable WITH Keys <- Addrs, table <- ListKeys
TableSpec == Table!Spec

==============================================================================
