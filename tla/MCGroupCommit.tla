--------------------------- MODULE MCGroupCommit ---------------------------
(* Small instance of GroupCommit for TLC.                                   *)
EXTENDS GroupCommit, TLC

Symm == Permutations(Threads)
=============================================================================
