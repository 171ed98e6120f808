----------------------------- MODULE MCSlabAlloc -----------------------------
EXTENDS SlabAlloc, TLC

(* Every class has segments of one slab.                                   *)
MCPerSeg == [c \in Classes |-> 1]
Symm == Permutations(Threads)
=============================================================================
