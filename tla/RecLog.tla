------------------------------- MODULE RecLog -------------------------------
(***************************************************************************)
(* The recovery log of a shard and its merge into the persistent object    *)
(* table, POT (ssd/fifo/mcd_rec.c, and ssd/fifo/mcd_rec2.c for Storm Mode, *)
(* which is the default).                                                  *)
(*                                                                         *)
(* log_write_internal fills two log buffers in turn; log_writer_thread     *)
(* writes them to two persistent logs, filled in turn; updater_thread2     *)
(* merges a full log into the cached POT, saves the active POT pages and   *)
(* the POT bitmap, and checkpoints the LSN reached.  After a crash the     *)
(* updater merges what the two logs hold beyond the checkpoint, and        *)
(* log_init_phase2 continues in the other log.                             *)
(*                                                                         *)
(* Both merges pass the records through a stack of filters (mcd_rec.c from *)
(* 4268 on): cs holds back the last records of a recovered VDC shard in a  *)
(* ring, to verify the slabs they name before it lets them go, it gathers  *)
(* the records of a transaction until the last one, and ot collects the    *)
(* records of the trx brackets that are still open, which the btree is to  *)
(* revert.                                                                 *)
(*                                                                         *)
(* A log record is a number; hist gives the POT page it updates, its place *)
(* in a transaction and its bracket.  A POT page stands for one slab, and  *)
(* holds the last record applied to it.  sync_fill_lock makes the threads  *)
(* that fill, commit or sync take turns, so one of them at a time is       *)
(* visible: a fill is one action, a commit lasts from CommitStart to the   *)
(* last CommitWrite, a sync from SyncStart to SyncEnd.                     *)
(***************************************************************************)
EXTENDS Integers, Sequences, FiniteSetsExt

CONSTANTS
    Shards,     \* the shards to choose from (see shard)
    PotPages,   \* pages of the POT
    Debris      \* what a POT page holds before its first write

ASSUME RecLogAssumption ==
    /\ Shards \subseteq [vdc : BOOLEAN, page_recs : Nat \ {0},
                         buf_pages : Nat \ {0}, log_pages : Nat \ {0},
                         ring : Nat \ {0}, plain : BOOLEAN, trx : Nat,
                         brackets : BOOLEAN, damage : BOOLEAN, recs : Nat,
                         syncs : Nat, crashes : Nat]
    /\ \A s \in Shards :   \* shard_format aligns a log to 1 MB
         s.log_pages % (2 * s.buf_pages) = 0
    /\ Debris \notin Nat

VARIABLES
    shard,      \* never changes: container is VDC_CGUID, the records of a log
                \* page (MCD_REC_LOG_BLK_SLOTS - 1), MCD_REC_LOGBUF_BLKS,
                \* reclogblks, the records badringa can hold, and bounds:
                \* whether there are records outside of transactions, the
                \* records of a transaction, whether there are brackets and
                \* slabs damaged by a crash, records ever logged, explicit
                \* syncs, crashes
    next_fill, fill_sem, curr_LSN,  \* mcd_rec_log_t: the filling side
    bufs,       \* logbufs[]: seqno, fill_count, pages, write_sem, sync_blks
    syncing,    \* a thread is in log_sync_internal_legacy: "no", "wait", "up"
    commit,     \* mcd_trx_commit_internal: padding and records still to write
    bracket,    \* trx_bracket_id, of the one thread that has brackets
    wpc, wsync, \* log_writer_thread: where it is, its local sync_sem
    wbs,        \* write_buffer_seqno
    log_sem, mbox, real_log,  \* log_sem, update_mbox, updater's real_log
    upc, pass, ulog, upage, prev_LSN, todo,  \* updater: position and locals
    ring,       \* badringa, then badringb: records the cs filter holds
    trxbuf,     \* records the it filter holds
    ottable, otsuppress,  \* records of open brackets; pass 1 is suppressed
    cache,      \* potcache, with Debris for a page that is not cached
    ckpt,       \* shard->ckpt->LSN in memory
    logs, pot, potbm, fckpt,  \* on flash: logs, POT, POT bitmap, checkpoint
    stable,     \* last record whose slab a device sync has covered
    bad,        \* the newest record of a slab that a crash has damaged, or 0
    hist,       \* every record ever logged
    lost,       \* records discarded by a recovery
    synced,     \* last record covered by a sync that has returned
    want,       \* last record before the sync that is running
    mark,       \* last record logged before the last recovery
    nsync, ncrash

PageRecs == shard.page_recs
BufPages == shard.buf_pages
LogPages == shard.log_pages
VDC == shard.vdc

client == <<commit, bracket>>
fill == <<next_fill, fill_sem, curr_LSN>>
writer == <<wpc, wsync, wbs>>
updater == <<real_log, upc, pass, ulog, upage, prev_LSN, todo>>
filter == <<ring, trxbuf, ottable, otsuppress>>
flash == <<logs, pot, potbm, fckpt>>
ghost == <<stable, bad, hist, lost, synced, want, mark, nsync, ncrash>>
vars == <<shard, client, fill, bufs, syncing, writer, log_sem, mbox, updater,
          filter, cache, ckpt, flash, ghost>>

Slots == PageRecs + 1
BufSlots == BufPages * Slots
BufRecs == BufPages * PageRecs
TotalSlots == LogPages * Slots
NoPage == [lsn |-> 0, recs |-> {}]
Nrec == Len(hist)
Idle == [pad |-> 0, n |-> 0]

(* The highest record in a set of records, 0 if there is none.              *)
Last(S) == Max(S \cup {0})
-----------------------------------------------------------------------------
(* log_init: the log descriptor of a shard whose first write goes to slot s *)
(* of the sequence (log_init_phase2 moves it to the second log).            *)
NewBufs(s) ==
    [b \in 0 .. 1 |-> [seqno |-> s + b * BufSlots, fill |-> 0, write_sem |-> 0,
                       sync_blks |-> 0,
                       page |-> [i \in 0 .. BufPages - 1 |-> NoPage]]]

Init ==
    /\ shard \in Shards
    /\ commit = Idle /\ bracket = 0
    /\ next_fill = 0 /\ fill_sem = 2 * BufRecs /\ curr_LSN = 0
    /\ bufs = NewBufs(0)
    /\ syncing = "no"
    /\ wpc = "off" /\ wsync = FALSE /\ wbs = 0
    /\ log_sem = 1 /\ mbox = <<>> /\ real_log = -1
    /\ upc = "start" /\ pass = 0 /\ ulog = 0 /\ upage = 0 /\ prev_LSN = 0
    /\ todo = {}
    /\ ring = {} /\ trxbuf = {} /\ ottable = {} /\ otsuppress = FALSE
    /\ cache = [p \in PotPages |-> Debris]
    /\ ckpt = 0
    /\ logs = [l \in 0 .. 1 |-> [i \in 0 .. LogPages - 1 |-> NoPage]]
    /\ pot = [p \in PotPages |-> Debris]
    /\ potbm = {}
    /\ fckpt = 0
    /\ hist = <<>> /\ lost = {} /\ synced = 0 /\ want = 0 /\ mark = 0
    /\ stable = 0 /\ bad = 0 /\ nsync = 0 /\ ncrash = 0
-----------------------------------------------------------------------------
(* log_write_internal, under sync_fill_lock: take a slot, skip the page     *)
(* header, number a new page, and signal the writer when the buffer fills.  *)
(* The record's slab has been written before, and is sound from then on.    *)
LogWriteInternal(p, trx, bid) ==
    LET first == next_fill % Slots = 0
        slot == IF first THEN next_fill + 1 ELSE next_fill
        b == (slot \div BufSlots) % 2
        i == (slot % BufSlots) \div Slots
        lsn == IF first THEN curr_LSN + 1 ELSE bufs[b].page[i].lsn
        n == bufs[b].fill + 1
    IN  /\ wpc # "off" /\ syncing = "no" /\ fill_sem > 0
        /\ Nrec < shard.recs
        /\ hist' = Append(hist, [pot |-> p, trx |-> trx, bid |-> bid])
        /\ fill_sem' = fill_sem - 1
        /\ next_fill' = slot + 1
        /\ curr_LSN' = IF first THEN curr_LSN + 1 ELSE curr_LSN
        /\ bufs' = [bufs EXCEPT
                     ![b].page[i] = [lsn |-> lsn, recs |-> @.recs \cup {Nrec + 1}],
                     ![b].fill = n,
                     ![b].write_sem = IF n = BufRecs THEN @ + 1 ELSE @]
        /\ bad' = IF bad > 0 /\ hist[bad].pot = p THEN 0 ELSE bad
        /\ UNCHANGED <<syncing, writer, log_sem, mbox, updater, filter, cache,
                       ckpt, flash, stable, lost, synced, want, mark, nsync,
                       ncrash>>

(* log_write: a record outside of any transaction.                          *)
LogWrite(p) ==
    /\ commit = Idle /\ shard.plain
    /\ LogWriteInternal(p, "NO", bracket)
    /\ UNCHANGED client

(* mcd_trx_commit_internal, holding sync_fill_lock: its next record, or     *)
(* padding of CAS type.                                                     *)
CommitNext(c, p) ==
    /\ UNCHANGED bracket
    /\ IF c.pad > 0
       THEN /\ LogWriteInternal(Debris, "NO", bracket)
            /\ commit' = [c EXCEPT !.pad = @ - 1]
       ELSE /\ LogWriteInternal(p, IF c.n = 1 THEN "LAST" ELSE "OP", bracket)
            /\ commit' = [c EXCEPT !.n = @ - 1]

(* It pads the rest of the log if a transaction of n records may not fit.   *)
Padding(n) ==
    LET rest == TotalSlots - (next_fill % TotalSlots)
    IN  IF n > 1 /\ rest < (n * BufSlots) \div BufRecs THEN rest ELSE 0

CommitStart(n, p) ==
    commit = Idle /\ CommitNext([n |-> n, pad |-> Padding(n)], p)

CommitWrite(p) == commit # Idle /\ CommitNext(commit, p)

(* mcd_trx_service: open a bracket, whose ID is fresh for ever, and close   *)
(* it with a record of CAS type.  A nested open or close only counts.       *)
BracketOpen ==
    /\ shard.brackets /\ wpc # "off"
    /\ bracket = 0 /\ commit = Idle
    /\ Nrec < shard.recs
    /\ bracket' = Nrec + 1
    /\ UNCHANGED <<commit, fill, bufs, syncing, writer, log_sem, mbox, updater,
                   filter, cache, ckpt, flash, ghost>>

BracketClose ==
    /\ bracket # 0 /\ commit = Idle
    /\ LogWriteInternal(Debris, "NO", -bracket)
    /\ bracket' = 0
    /\ UNCHANGED commit

(* Mutant of SyncStart: a page that starts with the borrowed slot has no LSN.*)
SyncStartNoHeader ==
    LET b == (next_fill \div BufSlots) % 2
        i == (next_fill % BufSlots) \div Slots
    IN  /\ wpc # "off" /\ syncing = "no" /\ commit = Idle /\ fill_sem > 0
        /\ nsync < shard.syncs
        /\ nsync' = nsync + 1
        /\ want' = Nrec
        /\ fill_sem' = fill_sem - 1
        /\ bufs' = [bufs EXCEPT
                     ![b].sync_blks = i + 1,
                     ![b].write_sem = @ + 1]
        /\ syncing' = "wait"
        /\ UNCHANGED <<client, next_fill, curr_LSN, writer, log_sem, mbox,
                       updater, filter, cache, ckpt, flash, stable, bad, hist,
                       lost, synced, mark, ncrash>>

(* log_sync_internal_legacy: borrow a slot, give the page it lies in an LSN *)
(* if it has none, and hand the buffer to the writer (log_flush_internal).  *)
SyncStart ==
    LET first == next_fill % Slots = 0
        b == (next_fill \div BufSlots) % 2
        i == (next_fill % BufSlots) \div Slots
    IN  /\ wpc # "off" /\ syncing = "no" /\ commit = Idle /\ fill_sem > 0
        /\ nsync < shard.syncs
        /\ nsync' = nsync + 1
        /\ want' = Nrec
        /\ fill_sem' = fill_sem - 1
        /\ bufs' = [bufs EXCEPT
                     ![b].page[i].lsn = IF first THEN curr_LSN + 1 ELSE @,
                     ![b].sync_blks = i + 1,
                     ![b].write_sem = @ + 1]
        /\ syncing' = "wait"
        /\ UNCHANGED <<client, next_fill, curr_LSN, writer, log_sem, mbox,
                       updater, filter, cache, ckpt, flash, stable, bad, hist,
                       lost, synced, mark, ncrash>>

(* The rest of log_flush_internal and log_sync_internal_legacy, once the    *)
(* writer has raised sync_sem.                                              *)
SyncEnd ==
    LET b == (next_fill \div BufSlots) % 2
    IN  /\ syncing = "up"
        /\ bufs' = [bufs EXCEPT ![b].sync_blks = 0]
        /\ fill_sem' = fill_sem + 1
        /\ syncing' = "no"
        /\ synced' = want
        /\ UNCHANGED <<client, next_fill, curr_LSN, writer, log_sem, mbox,
                       updater, filter, cache, ckpt, flash, stable, bad, hist,
                       lost, want, mark, nsync, ncrash>>
-----------------------------------------------------------------------------
(* log_writer_thread.                                                       *)
WriterBuf == (wbs \div BufSlots) % 2
WriterLog == (wbs \div TotalSlots) % 2
WriterBlk == (wbs % TotalSlots) \div Slots

(* The pages the writer puts in the log, and where they go.                 *)
WriterPage(i) == bufs[WriterBuf].page[i - WriterBlk]
WriterPages == WriterBlk .. WriterBlk + BufPages - 1

(* Wait for the next buffer in sequence; write the whole of it, the unused  *)
(* pages included, and sync it.                                             *)
CanWrite == wpc = "wait" /\ bufs[WriterBuf].write_sem > 0

WriterWrite ==
    /\ CanWrite
    /\ bufs' = [bufs EXCEPT ![WriterBuf].write_sem = @ - 1]
    /\ logs' = [logs EXCEPT ![WriterLog] =
                  [i \in DOMAIN @ |->
                     IF i \in WriterPages THEN WriterPage(i) ELSE @[i]]]
    /\ wpc' = "post"
    /\ UNCHANGED <<client, fill, syncing, wsync, wbs, log_sem, mbox, updater,
                   filter, cache, ckpt, pot, potbm, fckpt, ghost>>

(* The top of the next iteration raises the sync_sem of this one: at once,  *)
(* or after the wait for the other log.                                     *)
RaiseSync(later, requested) ==
    /\ wsync' = (later /\ requested)
    /\ syncing' = IF requested /\ ~later THEN "up" ELSE syncing

(* It syncs the devices for a sync request, and when a log is filled.  The  *)
(* sync after sync_recs records is left to the bound on damage in Crash.    *)
InLogs(l) == UNION {l[k][i].recs : k \in 0 .. 1, i \in 0 .. LogPages - 1}
DeviceSync(due) ==
    /\ stable' = IF due THEN Last(InLogs(logs)) ELSE stable
    /\ UNCHANGED <<bad, hist, lost, synced, want, mark, nsync, ncrash>>

(* Mutant of WriterPost: the header slots are given back too.                *)
WriterPostSlots ==
    LET b == WriterBuf
        full == bufs[b].fill = BufRecs
        filled == full /\ (wbs + BufSlots) % TotalSlots = 0
    IN  /\ wpc = "post"
        /\ RaiseSync(filled, bufs[b].sync_blks # 0)
        /\ bufs' = IF full
                   THEN [bufs EXCEPT ![b].page = NewBufs(0)[b].page,
                                     ![b].fill = 0,
                                     ![b].seqno = @ + 2 * BufSlots]
                   ELSE bufs
        /\ wbs' = IF full THEN wbs + BufSlots ELSE wbs
        /\ fill_sem' = IF full THEN fill_sem + BufSlots ELSE fill_sem
        /\ mbox' = IF filled THEN Append(mbox, WriterLog) ELSE mbox
        /\ wpc' = IF filled THEN "log" ELSE "wait"
        /\ DeviceSync(filled \/ bufs[b].sync_blks # 0)
        /\ UNCHANGED <<client, next_fill, curr_LSN, log_sem, updater, filter,
                       cache, ckpt, flash>>

(* Mutant of WriterPost: a sync of a buffer that is not full is forgotten.   *)
WriterPostForget ==
    LET b == WriterBuf
        full == bufs[b].fill = BufRecs
        filled == full /\ (wbs + BufSlots) % TotalSlots = 0
    IN  /\ wpc = "post"
        /\ RaiseSync(filled, full /\ bufs[b].sync_blks # 0)
        /\ bufs' = IF full
                   THEN [bufs EXCEPT ![b].page = NewBufs(0)[b].page,
                                     ![b].fill = 0,
                                     ![b].seqno = @ + 2 * BufSlots]
                   ELSE bufs
        /\ wbs' = IF full THEN wbs + BufSlots ELSE wbs
        /\ fill_sem' = IF full THEN fill_sem + BufRecs ELSE fill_sem
        /\ mbox' = IF filled THEN Append(mbox, WriterLog) ELSE mbox
        /\ wpc' = IF filled THEN "log" ELSE "wait"
        /\ DeviceSync(filled \/ bufs[b].sync_blks # 0)
        /\ UNCHANGED <<client, next_fill, curr_LSN, log_sem, updater, filter,
                       cache, ckpt, flash>>

(* Remember the sync request, and reuse the buffer if it was full; when the *)
(* log is full too, send it to the updater and wait for the other log.      *)
WriterPost ==
    LET b == WriterBuf
        full == bufs[b].fill = BufRecs
        filled == full /\ (wbs + BufSlots) % TotalSlots = 0
    IN  /\ wpc = "post"
        /\ RaiseSync(filled, bufs[b].sync_blks # 0)
        /\ bufs' = IF full
                   THEN [bufs EXCEPT ![b].page = NewBufs(0)[b].page,
                                     ![b].fill = 0,
                                     ![b].seqno = @ + 2 * BufSlots]
                   ELSE bufs
        /\ wbs' = IF full THEN wbs + BufSlots ELSE wbs
        /\ fill_sem' = IF full THEN fill_sem + BufRecs ELSE fill_sem
        /\ mbox' = IF filled THEN Append(mbox, WriterLog) ELSE mbox
        /\ wpc' = IF filled THEN "log" ELSE "wait"
        /\ DeviceSync(filled \/ bufs[b].sync_blks # 0)
        /\ UNCHANGED <<client, next_fill, curr_LSN, log_sem, updater, filter,
                       cache, ckpt, flash>>

(* Mutant of WriterLogWait: the writer does not wait for the other log.     *)
WriterLogNoWait ==
    /\ wpc = "log"
    /\ RaiseSync(FALSE, wsync)
    /\ wpc' = "wait"
    /\ UNCHANGED <<client, fill, bufs, wbs, log_sem, mbox, updater, filter,
                   cache, ckpt, flash, ghost>>

(* Wait for the other log, if the updater still has it.                     *)
WriterLogWait ==
    /\ wpc = "log"
    /\ log_sem > 0
    /\ log_sem' = log_sem - 1
    /\ RaiseSync(FALSE, wsync)
    /\ wpc' = "wait"
    /\ UNCHANGED <<client, fill, bufs, wbs, mbox, updater, filter, cache, ckpt,
                   flash, ghost>>
-----------------------------------------------------------------------------
(* updater_thread2: take the mail of a full log; only the first mail's log  *)
(* number is believed, the logs alternate from there (merge_log).           *)
MergeStart ==
    /\ upc = "idle"
    /\ mbox # <<>>
    /\ mbox' = Tail(mbox)
    /\ LET l == IF real_log < 0 THEN Head(mbox) ELSE real_log
       IN  /\ ulog' = l
           /\ real_log' = (l + 1) % 2
    /\ pass' = 0 /\ upage' = 0 /\ prev_LSN' = 0
    /\ upc' = "read"
    /\ UNCHANGED <<client, fill, bufs, syncing, writer, log_sem, todo, filter,
                   cache, ckpt, flash, ghost>>

(* recover: find the older log and decide whether it is merged already.     *)
Older == IF logs[0][0].lsn < logs[1][0].lsn THEN 0 ELSE 1
CkptLog(c) == ((c - 1) \div LogPages) % 2
(* Mutant of OldMerged: case 6 of the code is taken for case 4.             *)
OldMergedAlways == ckpt = 0 => logs[Older][0].lsn = 0

OldMerged ==
    IF ckpt = 0
    THEN logs[Older][0].lsn = 0
    ELSE \/ CkptLog(ckpt) = Older
         \/ logs[CkptLog(ckpt)][0].lsn <= ckpt

RecoverStart ==
    /\ upc = "start"
    /\ prev_LSN' = 0 /\ upage' = 0
    /\ IF ckpt = 0 /\ logs[0][0].lsn = 0 /\ logs[1][0].lsn = 0
       THEN /\ upc' = "init"
            /\ UNCHANGED <<pass, ulog, ckpt, otsuppress>>
       ELSE LET skip == OldMerged /\ ~(VDC /\ ckpt > 0)
            IN  /\ upc' = "read"
                /\ pass' = IF skip THEN 2 ELSE 1
                /\ ulog' = IF skip THEN 1 - Older ELSE Older
                /\ ckpt' = IF VDC THEN 0 ELSE ckpt
                /\ otsuppress' = (VDC /\ ckpt > 0 /\ OldMerged)
    /\ UNCHANGED <<client, fill, bufs, syncing, writer, log_sem, mbox, real_log,
                   todo, ring, trxbuf, ottable, cache, flash, ghost>>

(* process_log_storm, one page of the log at a time.                        *)
UPage == logs[ulog][upage]
EndOfLog == upage < LogPages => UPage.lsn < prev_LSN \/ UPage.lsn <= ckpt

(* apply_log_record_mp_storm for every record of a set.                     *)
Apply(c, S) ==
    [p \in PotPages |-> LET R == {r \in S : hist[r].pot = p}
                        IN  IF R = {} THEN c[p] ELSE Max(R)]

(* The records the it filter lets go of those that have reached it: a       *)
(* transaction whole when its last record is there, and what is outside of  *)
(* any.  A record outside discards the fragment before it.                  *)
IsData(r) == hist[r].pot # Debris
ItEnds(S) == {r \in S : IsData(r) /\ hist[r].trx # "OP"}
ItHeld(S) ==
    {r \in S : hist[r].trx = "OP" /\ \A e \in ItEnds(S) : e < r}
ItPassed(S) ==
    {r \in S : hist[r].trx = "OP" =>
                 \E e \in ItEnds(S) :
                    /\ e > r /\ hist[e].trx = "LAST"
                    /\ \A x \in ItEnds(S) : x > r => x >= e}

(* The records the ot filter looks at, and what they make of its table.     *)
FromOldLog(r) ==
    pass = 1 \/ \E i \in 0 .. LogPages - 1 : r \in logs[1 - ulog][i].recs
(* Mutant of OtSeen: the old log is never suppressed.                       *)
OtSeenAll(S) == {r \in S : VDC /\ pass > 0}

OtSeen(S) == {r \in S : VDC /\ pass > 0 /\ ~(otsuppress /\ FromOldLog(r))}
OtApply(S) ==
    LET new == {r \in OtSeen(S) : hist[r].bid > 0 /\ hist[r].trx # "NO"}
    IN  {r \in ottable \cup new :
            \A c \in OtSeen(S) : hist[c].bid # -hist[r].bid}

(* The records that leave the cs filter pass through it and ot to the POT.  *)
Filter(S) ==
    LET X == trxbuf \cup S
    IN  /\ cache' = Apply(cache, ItPassed(X))
        /\ ottable' = OtApply(ItPassed(X))

(* The oldest records of a full ring.                                       *)
Overflow(S) == {r \in S : Cardinality({x \in S : x > r}) >= shard.ring}

(* filter_cs_apply_logrec for the records of a page: the ring is there for  *)
(* the recovery of the VDC shard.                                           *)
ReadPage ==
    LET held == ring \cup UPage.recs
        out == IF VDC /\ pass > 0 THEN Overflow(held) ELSE held
    IN  /\ upc = "read"
        /\ ~EndOfLog
        /\ prev_LSN > 0 => UPage.lsn = prev_LSN + 1
        /\ ring' = held \ out
        /\ trxbuf' = ItHeld(trxbuf \cup out)
        /\ Filter(out)
        /\ prev_LSN' = UPage.lsn
        /\ upage' = upage + 1
        /\ UNCHANGED <<client, fill, bufs, syncing, writer, log_sem, mbox,
                       real_log, upc, pass, ulog, todo, otsuppress, ckpt, flash,
                       ghost>>

(* filter_cs_rewind_log of the last log: the newest use of every slab in    *)
(* the ring is verified, and the stream is cut at the first that fails.     *)
RingSound ==
    IF /\ bad \in ring
       /\ \A r \in ring : hist[r].pot = hist[bad].pot => r <= bad
    THEN {r \in ring : r < bad} ELSE ring

(* The end of a log.  The ring goes on to the second log (filter_cs_swap_log,*)
(* and so does the fragment of a transaction: filter_it_rewind_log looks    *)
(* for badstate 4, which filter_cs_rewind_log has changed before.           *)
ReadEnd ==
    /\ upc = "read"
    /\ EndOfLog
    /\ IF pass = 1
       THEN /\ pass' = 2 /\ ulog' = 1 - ulog /\ upage' = 0 /\ prev_LSN' = 0
            /\ UNCHANGED <<upc, todo, ring, trxbuf, ottable, cache>>
       ELSE /\ prev_LSN' = IF upage < LogPages /\ UPage.lsn > prev_LSN
                           THEN UPage.lsn ELSE prev_LSN
            /\ Filter(RingSound)
            /\ ring' = {} /\ trxbuf' = {}
            /\ upc' = "save"
            /\ todo' = {p \in PotPages : cache'[p] # Debris}
            /\ UNCHANGED <<pass, ulog, upage>>
    /\ UNCHANGED <<client, fill, bufs, syncing, writer, log_sem, mbox, real_log,
                   otsuppress, ckpt, flash, ghost>>

(* mcd_rec2_potcache_save: one active page.                                 *)
SavePage(p) ==
    /\ upc = "save"
    /\ p \in todo
    /\ pot' = [pot EXCEPT ![p] = cache[p]]
    /\ todo' = todo \ {p}
    /\ UNCHANGED <<client, fill, bufs, syncing, writer, log_sem, mbox, real_log,
                   upc, pass, ulog, upage, prev_LSN, filter, cache, ckpt, logs,
                   potbm, fckpt, ghost>>

(* mcd_rec2_potbitmap_save.                                                 *)
SaveBitmap ==
    /\ upc = "save"
    /\ todo = {}
    /\ potbm' = {p \in PotPages : cache[p] # Debris}
    /\ upc' = "ckpt"
    /\ UNCHANGED <<client, fill, bufs, syncing, writer, log_sem, mbox, real_log,
                   pass, ulog, upage, prev_LSN, todo, filter, cache, ckpt, logs,
                   pot, fckpt, ghost>>

(* Mutant of Checkpoint: the log is not given back to the writer.           *)
CheckpointNoReply ==
    /\ upc = "ckpt"
    /\ IF prev_LSN > ckpt
       THEN ckpt' = prev_LSN /\ fckpt' = prev_LSN
       ELSE UNCHANGED <<ckpt, fckpt>>
    /\ UNCHANGED log_sem
    /\ upc' = IF pass = 0 THEN "idle" ELSE "init"
    /\ UNCHANGED <<client, fill, bufs, syncing, writer, mbox, real_log, pass,
                   ulog, upage, prev_LSN, todo, filter, cache, logs, pot,
                   potbm, ghost>>

(* recovery_checkpoint, if the log was ahead of the checkpoint, and the     *)
(* reply: an online merge gives the log back to the writer.                 *)
Checkpoint ==
    /\ upc = "ckpt"
    /\ IF prev_LSN > ckpt
       THEN ckpt' = prev_LSN /\ fckpt' = prev_LSN
       ELSE UNCHANGED <<ckpt, fckpt>>
    /\ log_sem' = IF pass = 0 THEN log_sem + 1 ELSE log_sem
    /\ upc' = IF pass = 0 THEN "idle" ELSE "init"
    /\ UNCHANGED <<client, fill, bufs, syncing, writer, mbox, real_log, pass,
                   ulog, upage, prev_LSN, todo, filter, cache, logs, pot,
                   potbm, ghost>>

(* log_init_phase2: continue in the log that does not hold the checkpoint,  *)
(* with the first LSN of that log, and start the writer.                    *)
LastRecovered == Last({cache[p] : p \in PotPages} \ {Debris})

LogInitPhase2 ==
    LET s == IF ckpt > 0 /\ CkptLog(ckpt) = 0 THEN TotalSlots ELSE 0
    IN  /\ upc = "init"
        /\ ckpt > 0 => logs[CkptLog(ckpt)][(ckpt - 1) % LogPages].lsn = ckpt
        /\ wbs' = s /\ next_fill' = s
        /\ bufs' = NewBufs(s)
        /\ curr_LSN' = ((ckpt + LogPages - 1) \div LogPages) * LogPages
        /\ wpc' = "wait"
        /\ upc' = "idle"
        /\ lost' = lost \cup (LastRecovered + 1) .. Nrec
        /\ mark' = Nrec
        /\ ottable' = {} /\ otsuppress' = FALSE
        /\ UNCHANGED <<client, fill_sem, syncing, wsync, log_sem, mbox, real_log,
                       pass, ulog, upage, prev_LSN, todo, ring, trxbuf,
                       cache, ckpt, flash, stable, bad, hist, synced, want,
                       nsync, ncrash>>
-----------------------------------------------------------------------------
(* The process dies, at any point.  A log write in flight has reached some  *)
(* of its pages, the first ones.  If the machine fails, a slab that was     *)
(* written since the last device sync may be damaged: the ring exceeds the  *)
(* interval between device syncs (mcd_rec.c:4906).                          *)
(* On restart the POT bitmap says which POT pages to load                   *)
(* (mcd_rec2_potcache_init), and the log is initialised anew.               *)
Damageable(S) ==
    {r \in S \ lost : /\ shard.damage /\ r > stable /\ IsData(r)
                      /\ \A x \in r + 1 .. Nrec : hist[x].pot # hist[r].pot
                      /\ Cardinality({x \in S : x >= r}) <= shard.ring}

Crash ==
    /\ ncrash < shard.crashes
    /\ ncrash' = ncrash + 1
    /\ \E n \in 0 .. (IF CanWrite THEN BufPages ELSE 0) :
         logs' = [logs EXCEPT ![WriterLog] =
                    [i \in DOMAIN @ |-> IF i \in WriterBlk .. WriterBlk + n - 1
                                       THEN WriterPage(i) ELSE @[i]]]
    /\ bad' \in {bad} \cup Damageable(InLogs(logs'))
    /\ commit' = Idle /\ bracket' = 0
    /\ next_fill' = 0 /\ fill_sem' = 2 * BufRecs /\ curr_LSN' = 0
    /\ bufs' = NewBufs(0)
    /\ syncing' = "no" /\ wpc' = "off" /\ wsync' = FALSE /\ wbs' = 0
    /\ log_sem' = 1 /\ mbox' = <<>> /\ real_log' = -1
    /\ upc' = "start" /\ pass' = 0 /\ ulog' = 0 /\ upage' = 0 /\ prev_LSN' = 0
    /\ todo' = {}
    /\ ring' = {} /\ trxbuf' = {} /\ ottable' = {} /\ otsuppress' = FALSE
    /\ cache' = [p \in PotPages |-> IF p \in potbm THEN pot[p] ELSE Debris]
    /\ ckpt' = fckpt
    /\ UNCHANGED <<pot, potbm, fckpt, stable, hist, lost, synced, want, mark,
                   nsync>>
-----------------------------------------------------------------------------
Writer == WriterWrite \/ WriterPost \/ WriterLogWait

Updater ==
    \/ MergeStart \/ RecoverStart \/ ReadPage \/ ReadEnd \/ SaveBitmap
    \/ Checkpoint \/ LogInitPhase2
    \/ \E p \in PotPages : SavePage(p)

Step ==
    \/ \E p \in PotPages : LogWrite(p) \/ CommitWrite(p)
    \/ \E p \in PotPages, n \in 1 .. shard.trx : CommitStart(n, p)
    \/ BracketOpen \/ BracketClose
    \/ SyncStart \/ SyncEnd
    \/ Writer
    \/ Updater
    \/ Crash

Next == Step /\ UNCHANGED shard

Spec == Init /\ [][Next]_vars

FairSpec ==
    /\ Spec
    /\ WF_vars(Writer /\ UNCHANGED shard)
    /\ WF_vars(Updater /\ UNCHANGED shard)
    /\ WF_vars(SyncEnd /\ UNCHANGED shard)
-----------------------------------------------------------------------------
Page == [lsn : Nat, recs : SUBSET (1 .. Nrec)]

TypeOK ==
    /\ shard \in Shards
    /\ next_fill \in Nat /\ curr_LSN \in Nat /\ wbs \in Nat
    /\ fill_sem \in 0 .. 2 * BufRecs
    /\ bufs \in [0 .. 1 -> [seqno : Nat, fill : 0 .. BufRecs, write_sem : 0 .. 2,
                            sync_blks : 0 .. BufPages,
                            page : [0 .. BufPages - 1 -> Page]]]
    /\ syncing \in {"no", "wait", "up"}
    /\ wpc \in {"off", "wait", "post", "log"}
    /\ wsync \in BOOLEAN
    /\ log_sem \in 0 .. 2
    /\ mbox \in Seq(0 .. 1) /\ Len(mbox) <= 2
    /\ real_log \in -1 .. 1
    /\ upc \in {"start", "idle", "read", "save", "ckpt", "init"}
    /\ pass \in 0 .. 2 /\ ulog \in 0 .. 1 /\ upage \in 0 .. LogPages
    /\ prev_LSN \in Nat /\ todo \subseteq PotPages
    /\ cache \in [PotPages -> 1 .. Nrec \cup {Debris}]
    /\ ckpt \in Nat /\ fckpt \in Nat
    /\ logs \in [0 .. 1 -> [0 .. LogPages - 1 -> Page]]
    /\ pot \in [PotPages -> 1 .. Nrec \cup {Debris}]
    /\ potbm \subseteq PotPages
    /\ hist \in Seq([pot : PotPages \cup {Debris}, trx : {"NO", "OP", "LAST"},
                     bid : Int])
    /\ Nrec <= shard.recs
    /\ commit \in [pad : 0 .. TotalSlots, n : 0 .. shard.trx]
    /\ bracket \in 0 .. Nrec + 1
    /\ ring \subseteq 1 .. Nrec /\ Cardinality(ring) <= shard.ring
    /\ trxbuf \subseteq 1 .. Nrec /\ ottable \subseteq 1 .. Nrec
    /\ otsuppress \in BOOLEAN
    /\ bad \in 0 .. Nrec /\ mark \in 0 .. Nrec /\ stable \in 0 .. Nrec
    /\ lost \subseteq 1 .. Nrec
    /\ synced \in 0 .. Nrec /\ want \in 0 .. Nrec
    /\ nsync \in 0 .. shard.syncs /\ ncrash \in 0 .. shard.crashes

(* The assertions of the code hold: every page the writer checksums has an  *)
(* LSN (mcd_rec.c:7834), a buffer is written at its own place in the        *)
(* sequence (7924), a merge never meets an LSN that jumps (mcd_rec2.c:993), *)
(* and the checkpoint's page is still in its log after recovery             *)
(* (mcd_rec.c:7025).                                                        *)
AssertsHold ==
    /\ CanWrite =>
         LET b == bufs[WriterBuf]
             n == IF b.sync_blks = 0 THEN BufPages ELSE b.sync_blks
         IN  \A i \in 0 .. n - 1 : b.page[i].lsn # 0
    /\ wpc = "post" /\ bufs[WriterBuf].fill = BufRecs
         => wbs = bufs[WriterBuf].seqno
    /\ upc = "read" /\ ~EndOfLog /\ prev_LSN > 0 => UPage.lsn = prev_LSN + 1
    /\ upc = "init" /\ ckpt > 0
         => logs[CkptLog(ckpt)][(ckpt - 1) % LogPages].lsn = ckpt

(* A recovery ends with the table that some prefix of the records that were *)
(* not discarded before produces.  The prefix holds every record whose sync *)
(* has returned, does not end inside a transaction, and names no slab that  *)
(* the crash has damaged.                                                   *)
RecoveredPrefix ==
    upc = "init" =>
        LET n == LastRecovered
            live == (1 .. n) \ lost
        IN  /\ {r \in (1 .. synced) \ lost : IsData(r)} \subseteq live
            /\ n > 0 => hist[n].trx # "OP"
            /\ bad \notin live
            /\ \A p \in PotPages :
                 LET R == {r \in live : hist[r].pot = p}
                 IN  cache[p] = IF R = {} THEN Debris ELSE Max(R)

(* The btree is told to revert the records of a bracket only if its closing *)
(* record is not in the logs, and never those of a bracket that an earlier  *)
(* recovery has had reverted, once records of the time since are recovered  *)
(* (filter_ot_suppress).                                                    *)
Closed(b) == \E c \in InLogs(logs) : hist[c].bid = -b
RevertsOnlyOpen ==
    upc = "init" =>
        \A r \in ottable : /\ ~Closed(hist[r].bid)
                           /\ r <= mark => LastRecovered <= mark

(* "Each packet contains all information needed to revert the last          *)
(* incomplete bracket" (mcd_rec.c:6160): all the recovered transaction      *)
(* records of a bracket that was open at the crash are in ottable.          *)
OpenBracketsSaved ==
    upc = "init" =>
        {r \in (mark + 1 .. LastRecovered) \ lost :
            /\ hist[r].bid > 0 /\ hist[r].trx # "NO"
            /\ ~Closed(hist[r].bid)} \subseteq ottable

(* An online merge reads its log to the last page: the writer does not      *)
(* touch a log between the mail that announces it and the updater's reply.  *)
MergesWholeLog == upc \in {"save", "ckpt"} /\ pass = 0 => upage = LogPages

(* Every sync that is waited for returns, if the process does not crash.    *)
SyncReturns == syncing = "wait" ~> syncing = "no"

(* A thread that waits for a slot in a log buffer gets one: the filler, the *)
(* writer and the updater never all wait for each other.                    *)
SlotsReturn == fill_sem = 0 ~> fill_sem > 0
=============================================================================
