------------------------------- MODULE FreeQueue -------------------------------
(***************************************************************************)
(* What the FIFO_FREELIST build of src/bibopheap.hh promises about the     *)
(* free objects of one bag replica: they are reused in the order they were *)
(* freed.  A free by the owning thread joins the back of the queue at      *)
(* once; with CFREELIST, a free by another thread is held back in a batch  *)
(* that joins the back of the queue, oldest first, once it holds more than *)
(* Threshold objects.  An object is never queued twice.                    *)
(***************************************************************************)
EXTENDS Naturals, Sequences
LOCAL INSTANCE SequencesExt

CONSTANTS Objects, Threshold

VARIABLES queue, cached

Queued == Range(queue) \cup Range(cached)

Init == queue = <<>> /\ cached = <<>>

\* an allocation takes the object at the front
Reuse ==
  /\ queue # <<>>
  /\ queue' = Tail(queue)
  /\ UNCHANGED cached

\* an object freed by its owner joins the back
Release(o) ==
  /\ o \notin Queued
  /\ queue' = Append(queue, o)
  /\ UNCHANGED cached

\* an object freed by another thread joins the batch; a batch past the
\* threshold joins the back of the queue in the order it was freed
Cache(o) ==
  /\ o \notin Queued
  /\ IF Len(cached) + 1 > Threshold
       THEN /\ queue' = queue \o Append(cached, o)
            /\ cached' = <<>>
       ELSE /\ cached' = Append(cached, o)
            /\ UNCHANGED queue

Next == Reuse \/ \E o \in Objects : Release(o) \/ Cache(o)

Spec == Init /\ [][Next]_<<queue, cached>>

==============================================================================
