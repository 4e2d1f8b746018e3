--------------------------- MODULE LargeObjectTable ---------------------------
(***************************************************************************)
(* What the large-object table of src/bigheap.hh promises: a set of keys   *)
(* (returned object addresses) to which allocateAtBigHeap adds a key that  *)
(* is absent and from which deallocateToBigHeap removes a key that is      *)
(* present.  Nothing else ever makes a key appear or disappear.            *)
(***************************************************************************)
CONSTANT Keys

VARIABLE table

Init == table = {}

\* _xmap.insert under the global lock
Insert(k) ==
  /\ k \notin table
  /\ table' = table \cup {k}

\* _xmap.erase under the global lock
Erase(k) ==
  /\ k \in table
  /\ table' = table \ {k}

Next == \E k \in Keys : Insert(k) \/ Erase(k)

Spec == Init /\ [][Next]_table

==============================================================================
