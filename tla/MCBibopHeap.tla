----------------------------- MODULE MCBibopHeap -----------------------------
(***************************************************************************)
(* Model-checking instances of BibopHeap.  Two thread slots suffice for a  *)
(* free by the owner racing a free by a foreign thread; three for two      *)
(* foreign threads freeing into the same bag through different replicas.   *)
(***************************************************************************)
EXTENDS BibopHeap

CONSTANTS t1, t2, t3

TwoThreads == {t1, t2}
ThreeThreads == {t1, t2, t3}

==============================================================================
