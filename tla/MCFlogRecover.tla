--------------------------- MODULE MCFlogRecover ----------------------------
EXTENDS FlogRecover

(* Buffers of one page: the ring is reused within the first log, the logs   *)
(* from record 9 on.                                                        *)
Base == [page_recs |-> 2, buf_pages |-> 1, log_pages |-> 2,
         slow_merge |-> FALSE, reorder |-> FALSE, recs |-> 7, crashes |-> 2]

(* A second crash; both logs reused; buffers of two pages, of which a crash *)
(* may leave one.                                                           *)
FlogShards ==
    {Base, [Base EXCEPT !.recs = 10, !.crashes = 1],
     [Base EXCEPT !.page_recs = 1, !.buf_pages = 2, !.log_pages = 4, !.recs = 9,
                  !.crashes = 1]}

(* The updater is still at one log when the other one is full.              *)
SlowShard ==
    {[Base EXCEPT !.page_recs = 1, !.slow_merge = TRUE, !.recs = 6, !.crashes = 1]}
=============================================================================
