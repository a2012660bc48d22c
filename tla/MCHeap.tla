------------------------------- MODULE MCHeap -------------------------------
(* Small instances of Heap for TLC; the .cfg files choose the threads, the *)
(* size of the heap and of the blocks, and whether allocations overlap.    *)
EXTENDS Heap, TLC

ThreadSymmetry == Permutations(Threads)
=============================================================================
