-------------------------- MODULE MCThreadRegistry --------------------------
EXTENDS ThreadRegistry

CONSTANTS main, p1, p2, p3, p4

\* pthread_t values: the initial thread's and those of four children
ThreadIds == {main, p1, p2, p3, p4}

\* the children's pthread_t values are interchangeable
ChildSymmetry == Permutations({p1, p2, p3, p4})
====
