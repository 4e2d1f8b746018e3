------------------------------ MODULE MCBigHeap ------------------------------
EXTENDS BigHeap

CONSTANTS t1, t2, a1, a2, a3

TwoThreads == {t1, t2}
TwoAddrs == {a1, a2}
ThreeAddrs == {a1, a2, a3}

==============================================================================
