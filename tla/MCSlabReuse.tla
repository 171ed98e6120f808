---------------------------- MODULE MCSlabReuse -----------------------------
(* Small instances of SlabReuse for TLC.                                    *)
EXTENDS SlabReuse, TLC

(* Brackets with a synced close over buffers of two records, nested ones    *)
(* with a relaxed close, and the ring.                                      *)
SmallShards ==
    {[buf_recs |-> 2, ring_size |-> 0, commit_sw |-> FALSE, levels |-> 1, recs |-> 4],
     [buf_recs |-> 1, ring_size |-> 0, commit_sw |-> TRUE, levels |-> 2, recs |-> 3],
     [buf_recs |-> 1, ring_size |-> 2, commit_sw |-> FALSE, levels |-> 0, recs |-> 4]}

Symm == Permutations(Threads) \cup Permutations(Slabs) \cup Permutations(Keys)
=============================================================================
