----------------------------- MODULE MCTrxTable -----------------------------
(* Small instances of TrxTable for TLC.                                     *)
EXTENDS TrxTable, TLC

Symm == Permutations(Threads) \cup Permutations(Shards)
=============================================================================
