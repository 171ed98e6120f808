----------------------------- MODULE MCRecLog ------------------------------
(* Small instances of RecLog for TLC.                                       *)
EXTENDS RecLog, TLC

Plain == [vdc |-> FALSE, page_recs |-> 1, buf_pages |-> 1, log_pages |-> 2,
          ring |-> 2, plain |-> TRUE, trx |-> 0, brackets |-> FALSE,
          damage |-> FALSE, recs |-> 5, syncs |-> 1,
          crashes |-> 2]
Vdc == [Plain EXCEPT !.vdc = TRUE]
Trx(n) == [Vdc EXCEPT !.trx = n, !.plain = FALSE]

(* An ordinary shard whose logs are soon full and used again; a VDC shard   *)
(* with buffers of two pages, of which a crash can leave the first; two     *)
(* with transactions, padding, and a crash that damages a slab, the second  *)
(* with a sync; and one with brackets.                                      *)
SmallShards ==
    {Plain,
     [Vdc EXCEPT !.buf_pages = 2, !.log_pages = 4],
     [Trx(2) EXCEPT !.page_recs = 2, !.damage = TRUE, !.recs = 6, !.syncs = 0,
                    !.crashes = 1],
     [Trx(2) EXCEPT !.page_recs = 2, !.damage = TRUE, !.recs = 4, !.crashes = 1],
     [Trx(1) EXCEPT !.brackets = TRUE, !.recs = 4, !.syncs = 0]}

LiveShard == {[Vdc EXCEPT !.crashes = 1]}

BracketShard == {[Trx(1) EXCEPT !.brackets = TRUE, !.recs = 3, !.crashes = 1]}

Symm == Permutations(PotPages)
=============================================================================
