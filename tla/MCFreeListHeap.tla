-------------------------- MODULE MCFreeListHeap ---------------------------
EXTENDS FreeListHeap, TLC

Exchange == Permutations(Callers)
=============================================================================
