------------------------------ MODULE MCHeapInit ------------------------------
EXTENDS HeapInit

CONSTANTS main, child

TwoThreads == {main, child}

==============================================================================
