------------------------------- MODULE HeapInit -------------------------------
(***************************************************************************)
(* The initialization latch of src/libfreeguard.cpp.  heapinitialize tests *)
(* and sets heapInitStatus with plain loads and stores, initializes the    *)
(* BIBOP heap, publishes E_HEAP_INIT_DONE, and only then resolves the real *)
(* routines with dlsym (Real::initializer, which itself calls malloc and   *)
(* free), initializes the thread registry and the large-object table.      *)
(* It is entered from the constructor, and from malloc (realloc, calloc    *)
(* and memalign go through the same test) and the pthread_create hook      *)
(* whenever they find the status not DONE; free returns at once then.      *)
(*                                                                         *)
(* Threads come into existence only through the pthread_create hook.  The  *)
(* main thread may call malloc before the constructor runs (the loader and *)
(* other libraries' constructors do).  A call of the application is        *)
(* recorded by the engine it reaches: the small engine, the large engine,  *)
(* or the thread registry with the real pthread_create.                    *)
(***************************************************************************)
EXTENDS Naturals, Sequences

CONSTANTS
  Threads,      \* threads the process may run
  Main,         \* the initial thread, which runs the constructor
  NestedCalls,  \* the allocator calls dlsym may make from Real::initializer
  MaxNested,    \* bound: such calls per initialization
  MaxCalls      \* bound: calls made by the application

Ops == {"ctor", "small", "large", "free", "create"}

ASSUME /\ Main \in Threads
       /\ NestedCalls \subseteq {"small", "large", "free"}
       /\ MaxNested \in Nat /\ MaxCalls \in Nat

\* the components each kind of call uses once it is past the latch
Needs(op) == CASE op = "small"  -> {"bibop"}
               [] op = "large"  -> {"big"}
               [] op = "free"   -> {"bibop"}   \* isSmallObject of a small pointer
               [] op = "create" -> {"real", "xthread"}
               [] op = "ctor"   -> {}

VARIABLES
  heapInitStatus, \* "NOT", "WORKING" or "DONE"
  ready,          \* the components whose initialization has run
  initRuns,       \* how many times BibopHeap::initialize has run
  alive,          \* threads that exist
  ctorRan,        \* the constructor has been called
  pc,             \* where each thread is
  op,             \* the call each thread is in
  nested,         \* allocator calls made so far from Real::initializer
  calls,          \* application calls so far
  misuse          \* components some call used before they were initialized

vars == <<heapInitStatus, ready, initRuns, alive, ctorRan, pc, op, nested,
          calls, misuse>>

-----------------------------------------------------------------------------
\* mutant: Real::initializer before the status is published as DONE
InitOrderRealFirst == <<"hi_bibop", "hi_real", "hi_done", "hi_xthread", "hi_big">>

\* the body of heapinitialize after heapInitStatus = E_HEAP_INIT_WORKING
InitOrder == <<"hi_bibop", "hi_done", "hi_real", "hi_xthread", "hi_big">>

\* where a thread goes once heapinitialize returns
Continue(t) == IF op[t] = "ctor" THEN "idle" ELSE "serve"

\* the label after l in InitOrder, or the return
After(t, l) == LET i == CHOOSE j \in DOMAIN InitOrder : InitOrder[j] = l
               IN IF i = Len(InitOrder) THEN Continue(t) ELSE InitOrder[i + 1]

\* one step of heapinitialize's body
InitStep(t, l, changes) ==
  /\ pc[t] = l
  /\ changes
  /\ pc' = [pc EXCEPT ![t] = After(t, l)]

Init ==
  /\ heapInitStatus = "NOT"
  /\ ready = {}
  /\ initRuns = 0
  /\ alive = {Main}
  /\ ctorRan = FALSE
  /\ pc = [t \in Threads |-> "idle"]
  /\ op = [t \in Threads |-> "ctor"]
  /\ nested = 0
  /\ calls = 0
  /\ misuse = {}

\* mutant: malloc and the hook go to the engines without testing the latch
EntryUnchecked(o) == IF o = "ctor" THEN "hi_test" ELSE "serve"

\* mutant: the pthread_create hook calls thread_create without the latch test
EntryHookUnchecked(o) ==
  CASE o = "ctor"   -> "hi_test"
    [] o = "create" -> "serve"
    [] o = "free"   -> IF heapInitStatus = "DONE" THEN "serve" ELSE "idle"
    [] OTHER        -> IF heapInitStatus = "DONE" THEN "serve" ELSE "hi_test"

\* where a call of kind o goes first: the constructor calls heapinitialize,
\* free returns unless the status is DONE, and malloc and the
\* pthread_create hook call heapinitialize unless it is DONE
Entry(o) == CASE o = "ctor" -> "hi_test"
              [] o = "free" -> IF heapInitStatus = "DONE" THEN "serve" ELSE "idle"
              [] OTHER      -> IF heapInitStatus = "DONE" THEN "serve" ELSE "hi_test"

Call(t, o) ==
  /\ pc[t] = "idle" /\ t \in alive
  /\ calls < MaxCalls
  /\ o = "ctor" => t = Main /\ ~ctorRan
  /\ o = "create" => alive # Threads
  /\ ctorRan' = (ctorRan \/ o = "ctor")
  /\ calls' = calls + 1
  /\ op' = [op EXCEPT ![t] = o]
  /\ pc' = [pc EXCEPT ![t] = Entry(o)]
  /\ UNCHANGED <<heapInitStatus, ready, initRuns, alive, nested, misuse>>

\* if(heapInitStatus == E_HEAP_INIT_NOT), a plain load
HiTest(t) ==
  /\ pc[t] = "hi_test"
  /\ pc' = [pc EXCEPT ![t] = IF heapInitStatus = "NOT" THEN "hi_set" ELSE "hi_spin"]
  /\ UNCHANGED <<heapInitStatus, ready, initRuns, alive, ctorRan, op, nested, calls, misuse>>

\* heapInitStatus = E_HEAP_INIT_WORKING, a plain store
HiSet(t) ==
  /\ pc[t] = "hi_set"
  /\ heapInitStatus' = "WORKING"
  /\ pc' = [pc EXCEPT ![t] = InitOrder[1]]
  /\ UNCHANGED <<ready, initRuns, alive, ctorRan, op, nested, calls, misuse>>

\* SRAND and BibopHeap::getInstance().initialize()
HiBibop(t) ==
  /\ InitStep(t, "hi_bibop", /\ ready' = ready \cup {"bibop"}
                             /\ initRuns' = initRuns + 1)
  /\ UNCHANGED <<heapInitStatus, alive, ctorRan, op, nested, calls, misuse>>

\* heapInitStatus = E_HEAP_INIT_DONE
HiDone(t) ==
  /\ InitStep(t, "hi_done", heapInitStatus' = "DONE")
  /\ UNCHANGED <<ready, initRuns, alive, ctorRan, op, nested, calls, misuse>>

\* an allocator call made by dlsym inside Real::initializer: it goes
\* through the same latch test, and re-enters heapinitialize (whose else
\* branch waits for DONE) when the status is not yet DONE
HiRealNested(t) ==
  /\ pc[t] = "hi_real"
  /\ nested < MaxNested
  /\ \E k \in NestedCalls :
       IF heapInitStatus = "DONE"
         THEN /\ misuse' = misuse \cup (Needs(k) \ ready)
              /\ UNCHANGED pc
         ELSE /\ pc' = [pc EXCEPT ![t] = "hi_spin"]
              /\ UNCHANGED misuse
  /\ nested' = nested + 1
  /\ UNCHANGED <<heapInitStatus, ready, initRuns, alive, ctorRan, op, calls>>

\* the dlsym lookups of Real::initializer complete
HiReal(t) ==
  /\ InitStep(t, "hi_real", ready' = ready \cup {"real"})
  /\ UNCHANGED <<heapInitStatus, initRuns, alive, ctorRan, op, nested, calls, misuse>>

\* xthread::getInstance().initialize()
HiXthread(t) ==
  /\ InitStep(t, "hi_xthread", ready' = ready \cup {"xthread"})
  /\ UNCHANGED <<heapInitStatus, initRuns, alive, ctorRan, op, nested, calls, misuse>>

\* BigHeap::getInstance().initBigHeap()
HiBig(t) ==
  /\ InitStep(t, "hi_big", ready' = ready \cup {"big"})
  /\ UNCHANGED <<heapInitStatus, initRuns, alive, ctorRan, op, nested, calls, misuse>>

\* else { while(heapInitStatus != E_HEAP_INIT_DONE); }
HiSpin(t) ==
  /\ pc[t] = "hi_spin"
  /\ heapInitStatus = "DONE"
  /\ pc' = [pc EXCEPT ![t] = Continue(t)]
  /\ UNCHANGED <<heapInitStatus, ready, initRuns, alive, ctorRan, op, nested, calls, misuse>>

\* past the latch: the call reaches its engine; thread_create starts a
\* new thread through Real::pthread_create
Serve(t) ==
  /\ pc[t] = "serve"
  /\ misuse' = misuse \cup (Needs(op[t]) \ ready)
  /\ IF op[t] = "create"
       THEN \E u \in Threads \ alive : alive' = alive \cup {u}
       ELSE UNCHANGED alive
  /\ pc' = [pc EXCEPT ![t] = "idle"]
  /\ UNCHANGED <<heapInitStatus, ready, initRuns, ctorRan, op, nested, calls>>

Step(t) ==
  \/ \E o \in Ops : Call(t, o)
  \/ HiTest(t) \/ HiSet(t) \/ HiBibop(t) \/ HiDone(t)
  \/ HiRealNested(t) \/ HiReal(t) \/ HiXthread(t) \/ HiBig(t)
  \/ HiSpin(t) \/ Serve(t)

Next == \E t \in Threads : Step(t)

Spec == Init /\ [][Next]_vars

\* Threads are preemptively scheduled and the wait loop re-reads the status,
\* so a thread that can step eventually does.
FairSpec == Spec /\ \A t \in Threads : WF_vars(Step(t) /\ pc[t] # "idle")

-----------------------------------------------------------------------------
(* Properties                                                              *)

Labels == {"idle", "hi_test", "hi_set", "hi_spin", "serve"} \cup
          {InitOrder[i] : i \in DOMAIN InitOrder}

TypeOK ==
  /\ heapInitStatus \in {"NOT", "WORKING", "DONE"}
  /\ ready \subseteq {"bibop", "real", "xthread", "big"}
  /\ initRuns \in Nat
  /\ alive \subseteq Threads /\ Main \in alive
  /\ ctorRan \in BOOLEAN
  /\ pc \in [Threads -> Labels]
  /\ op \in [Threads -> Ops]
  /\ nested \in 0 .. MaxNested /\ calls \in 0 .. MaxCalls
  /\ misuse \subseteq {"bibop", "real", "xthread", "big"}

\* No call, of the application or of dlsym inside Real::initializer, uses
\* an engine, the registry or the real pthread_create before its
\* initialization has run, although heapinitialize publishes DONE before
\* the last three are initialized and every entry point tests the status
\* with a plain load.
EnginesReadyWhenUsed == misuse = {}

\* The test-and-set of heapInitStatus is not atomic, yet the BIBOP heap is
\* initialized at most once and by one thread at a time: a second thread
\* can only be started by the pthread_create hook, which completes
\* heapinitialize first.
InitializedOnce ==
  /\ initRuns <= 1
  /\ \A t, u \in Threads :
       t # u => ~(pc[t] \in {"hi_set", "hi_bibop"} /\ pc[u] \in {"hi_set", "hi_bibop"})

\* Every call into the allocator returns: the constructor, malloc and the
\* pthread_create hook never wait forever in heapinitialize's spin loop
\* (which a malloc from Real::initializer would do if DONE were published
\* after it, as the comment at the call warns).
CallsReturn == \A t \in Threads : pc[t] # "idle" ~> pc[t] = "idle"

==============================================================================
