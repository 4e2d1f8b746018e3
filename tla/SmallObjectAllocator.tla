------------------------- MODULE SmallObjectAllocator -------------------------
(***************************************************************************)
(* What the small-object engine promises its callers (malloc/free of       *)
(* src/bibopheap.hh): an object is handed out only while nobody holds it,  *)
(* and free takes back only an object that is currently held.  The value   *)
(* allocated[o] counts the outstanding hand-outs of o, so that handing out *)
(* a held object a second time is a step this specification does not      *)
(* allow.                                                                  *)
(***************************************************************************)
EXTENDS Naturals

CONSTANT Objects

VARIABLE allocated

Init == allocated = [o \in Objects |-> 0]

\* allocateSmallObject returns o
Allocate(o) ==
  /\ allocated[o] = 0
  /\ allocated' = [allocated EXCEPT ![o] = 1]

\* freeSmallObject is called on o
Release(o) ==
  /\ allocated[o] = 1
  /\ allocated' = [allocated EXCEPT ![o] = 0]

Next == \E o \in Objects : Allocate(o) \/ Release(o)

Spec == Init /\ [][Next]_allocated

==============================================================================
