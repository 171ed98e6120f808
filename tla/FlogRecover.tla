---------------------------- MODULE FlogRecover -----------------------------
(***************************************************************************)
(* The recovery of the flush log (ssd/fifo/mcd_rec.c), and what it rests   *)
(* on.  log_write_internal puts a record into a log buffer, for the log    *)
(* writer, and hands it to the flush log.  The flush-log file is a ring    *)
(* with one sector for each slot of the two log buffers.  After a crash    *)
(* flog_recover_low patches the records of the file into the log pages on  *)
(* flash, flog_prepare truncates the file, and the shard recovers from its *)
(* log pages.                                                              *)
(*                                                                         *)
(* A record is its number in hist.  Of the flush log only the promise of   *)
(* StableLog is used, which GroupCommit implements: records reach the file *)
(* in order, and a call returns when its records are there, synced if      *)
(* their durability is full.  Of the merge into the object table (RecLog)  *)
(* only which records it applies is kept, for an ordinary shard.  Writes   *)
(* of the log writer and of the merge are durable when they return         *)
(* (DataSync), on a single file.  The pages that the recovery patches are  *)
(* not: fbio_flush calls pwrite and no fdatasync, so that until the next   *)
(* of those writes a power failure may undo any of them, while the file    *)
(* they come from has been truncated.                                      *)
(*                                                                         *)
(* next_fill starts at 0 or total_slots in every incarnation; here it goes *)
(* on from where the log is continued, which is the same modulo the ring   *)
(* and modulo two logs.  A page's LSN is then its number plus 1.  The      *)
(* flog_seqno of a record is its number less base.                         *)
(***************************************************************************)
EXTENDS Integers, Sequences, FiniteSets, FiniteSetsExt

CONSTANT
    Shards      \* configurations, one of which each behaviour has

ASSUME FlogAssumption ==
    /\ Shards \subseteq [page_recs : Nat \ {0}, buf_pages : Nat \ {0},
                         log_pages : Nat \ {0}, slow_merge : BOOLEAN,
                         reorder : BOOLEAN, recs : Nat, crashes : Nat]
    \* shard_format aligns a log to 1 MB, a multiple of the two buffers
    /\ \A s \in Shards : s.log_pages % (2 * s.buf_pages) = 0

VARIABLES
    shard,      \* never changes: records per page, pages per buffer and log,
                \* whether a log may be filled before the one before it has
                \* been merged, whether a power failure may keep a sector and
                \* lose an earlier one; bounds: records, crashes
    next_fill, fill_sem,
    hist,       \* history: slot_seqno and incarnation of each record
    base,       \* the last record of the former incarnations
    fl,         \* the last record in the flush-log file
    file,       \* record in each sector of the flush-log file, 0 if none
    stable,     \* the same at the last fdatasync
    synced,     \* fl at the last fdatasync
    wbs,        \* write_buffer_seqno
    wpage,      \* pages of the current buffer that have been written
    pages,      \* the two logs on flash: LSN and records of each page
    flash,      \* the same at the last fdatasync
    ckpt,       \* checkpoint LSN
    applied,    \* records in the persistent object table
    pc,         \* "run", or the stage of the recovery
    npatch,     \* pages patched
    acked,      \* history: records promised to survive the crashes so far
    cut,        \* history: a patch cut short a page that others follow
    undone,     \* history: records of patched pages that a power failure
                \* undid when the file did not hold them, and later ones
    ncrash

logging == <<next_fill, fill_sem, hist, base>>
flog == <<fl, file, stable, synced>>
writer == <<wbs, wpage>>
table == <<ckpt, applied>>
logs == <<pages, flash>>
recovery == <<pc, npatch, acked, cut, undone, ncrash>>
vars == <<shard, logging, flog, writer, logs, table, recovery>>

PageRecs == shard.page_recs      \* MCD_REC_LOG_BLK_RECS
BufPages == shard.buf_pages      \* MCD_REC_LOGBUF_BLKS
LogPages == shard.log_pages      \* reclogblks
BlkSlots == PageRecs + 1
BufSlots == BufPages * BlkSlots
BufRecs == BufPages * PageRecs
TotalSlots == LogPages * BlkSlots
Ring == 0 .. 2 * BufSlots - 1
Blocks == 0 .. 2 * LogPages - 1
NoSectors == [i \in Ring |-> 0]
NoRecs == [o \in 1 .. PageRecs |-> 0]
Nrec == Len(hist)
Page(r) == hist[r].slot \div BlkSlots
Sector(r) == hist[r].slot % (2 * BufSlots)
Block(p) == p % (2 * LogPages)

Init ==
    /\ shard \in Shards
    /\ next_fill = 0 /\ fill_sem = 2 * BufRecs
    /\ hist = <<>> /\ base = 0
    /\ fl = 0 /\ file = NoSectors /\ stable = file /\ synced = 0
    /\ wbs = 0 /\ wpage = 0
    /\ pages = [b \in Blocks |-> [lsn |-> 0, recs |-> NoRecs]]
    /\ flash = pages
    /\ ckpt = 0 /\ applied = {}
    /\ pc = "run" /\ npatch = 0 /\ acked = {} /\ ncrash = 0
    /\ cut = FALSE /\ undone = {}

-----------------------------------------------------------------------------
(* Logging.                                                                 *)

(* log_sem: the log of page p has been merged since its last use.           *)
LogFree(p) == ckpt >= (p \div LogPages - 1) * LogPages

(* log_write_internal: a slot is free; a page header is skipped.  Unless    *)
(* slow_merge, the updater is done with a log when its next use begins.     *)
LogWrite ==
    LET slot == IF next_fill % BlkSlots = 0 THEN next_fill + 1 ELSE next_fill
    IN  /\ pc = "run" /\ fill_sem > 0 /\ Nrec < shard.recs
        /\ shard.slow_merge \/ LogFree(slot \div BlkSlots)
        /\ fill_sem' = fill_sem - 1
        /\ next_fill' = slot + 1
        /\ hist' = Append(hist, [slot |-> slot, inc |-> ncrash])
        /\ UNCHANGED <<base, flog, writer, logs, table, recovery>>

(* flog_persist, for the next record, in the sector of its slot.            *)
Persist ==
    /\ pc = "run" /\ fl < Nrec
    /\ fl' = fl + 1
    /\ file' = [file EXCEPT ![Sector(fl + 1)] = fl + 1]
    /\ UNCHANGED <<logging, stable, synced, writer, logs, table, recovery>>

(* flog_fdatasync, called by mlog_sync.                                     *)
Fdatasync ==
    /\ pc = "run" /\ stable # file
    /\ stable' = file /\ synced' = fl
    /\ UNCHANGED <<logging, fl, file, writer, logs, table, recovery>>

-----------------------------------------------------------------------------
(* The log writer, and the updater.                                         *)

Contents(p) ==
    [lsn |-> p + 1,
     recs |-> [o \in 1 .. PageRecs |->
                 CHOOSE r \in base + 1 .. Nrec : hist[r].slot = p * BlkSlots + o]]

(* Mutant of WritePage: slots are given back with every page.               *)
WritePageFrees ==
    LET p == wbs \div BlkSlots + wpage
        last == wpage + 1 = BufPages
    IN  /\ pc = "run" /\ wbs + BufSlots <= next_fill /\ LogFree(p)
        /\ pages' = [pages EXCEPT ![Block(p)] = Contents(p)]
        /\ flash' = pages'
        /\ wpage' = IF last THEN 0 ELSE wpage + 1
        /\ wbs' = IF last THEN wbs + BufSlots ELSE wbs
        /\ fill_sem' = fill_sem + BufRecs
        /\ UNCHANGED <<next_fill, hist, base, flog, table, recovery>>

(* Write the next page of a full buffer, and sync.  With the last page the  *)
(* buffer is free again.  log_sem: the log has been merged since its last   *)
(* use.                                                                     *)
WritePage ==
    LET p == wbs \div BlkSlots + wpage
        last == wpage + 1 = BufPages
    IN  /\ pc = "run" /\ wbs + BufSlots <= next_fill /\ LogFree(p)
        /\ pages' = [pages EXCEPT ![Block(p)] = Contents(p)]
        /\ flash' = pages'
        /\ wpage' = IF last THEN 0 ELSE wpage + 1
        /\ wbs' = IF last THEN wbs + BufSlots ELSE wbs
        /\ fill_sem' = IF last THEN fill_sem + BufRecs ELSE fill_sem
        /\ UNCHANGED <<next_fill, hist, base, flog, table, recovery>>

RecsOf(B) == {pages[b].recs[o] : b \in B, o \in 1 .. PageRecs} \ {0}

(* The first page of the first log that ckpt does not cover.                *)
NextLog == ((ckpt + LogPages - 1) \div LogPages) * LogPages

(* Mutant of Merge: the log that was filled last is merged first.           *)
MergeNewest ==
    LET end == (wbs \div TotalSlots) * LogPages
    IN  /\ pc = "run" /\ ckpt < end
        /\ applied' = applied \cup RecsOf({Block(p) : p \in end - LogPages .. end - 1})
        /\ ckpt' = end
        /\ UNCHANGED <<logging, flog, writer, logs, recovery>>

(* updater_thread2 merges the next log when it has been filled.             *)
Merge ==
    LET end == NextLog + LogPages
    IN  /\ pc = "run" /\ wbs >= end * BlkSlots
        /\ applied' = applied \cup RecsOf({Block(p) : p \in NextLog .. end - 1})
        /\ ckpt' = end
        /\ UNCHANGED <<logging, flog, writer, logs, recovery>>

-----------------------------------------------------------------------------
(* Crash and recovery.                                                      *)

(* What a power failure leaves of the file: of the sectors written since    *)
(* the last fdatasync, the first ones, and the next may be torn and fail    *)
(* its checksum; or any of them.  Of a file that has just been truncated,   *)
(* nothing or what was synced before.                                       *)
Keep(F) ==
    [i \in Ring |-> Max({r \in F : Sector(r) = i} \cup {stable[i]})]

Leaves ==
    LET new == IF file = stable THEN {} ELSE synced + 1 .. fl
        kept == IF shard.reorder THEN SUBSET new
                ELSE {{q \in new : q <= r} : r \in synced .. fl}
    IN  IF file = NoSectors THEN {file, stable}
        ELSE {Keep(F) : F \in kept} \cup
             {[Keep(synced + 1 .. r - 1) EXCEPT ![Sector(r)] = 0] : r \in new}

(* A power failure undoes any of the pages that have not been synced.       *)
(* Records of these that are not in the file either are gone, and with them *)
(* the log from there on.                                                   *)
Undo(B) ==
    LET gone == (RecsOf(B) \ {flash[b].recs[o] : b \in B, o \in 1 .. PageRecs})
                    \ {file'[i] : i \in Ring}
    IN  /\ pages' = [b \in Blocks |-> IF b \in B THEN flash[b] ELSE pages[b]]
        /\ flash' = pages'
        /\ undone' = undone \cup {r \in 1 .. Nrec : \E q \in gone : q <= r}

(* A record in the file survives the death of the process, whatever its     *)
(* durability.  A synced record survives a power failure as well, as its    *)
(* durability may be full.                                                  *)
Crash(power) ==
    /\ ncrash < shard.crashes /\ ncrash' = ncrash + 1
    /\ file' \in IF power THEN Leaves ELSE {file}
    /\ stable' = IF power THEN file' ELSE stable
    /\ IF power THEN \E B \in SUBSET {b \in Blocks : pages[b] # flash[b]} : Undo(B)
       ELSE UNCHANGED <<logs, undone>>
    /\ acked' = IF power
                  THEN (acked \cap 1 .. base) \cup base + 1 .. synced
                  ELSE acked \cup (IF pc = "run" THEN base + 1 .. fl ELSE {})
    /\ pc' = "patch" /\ npatch' = 0
    /\ UNCHANGED <<logging, fl, synced, writer, table, cut>>

(* flog_patchup_file collects the sectors whose checksum is right.          *)
Found == {file[i] : i \in Ring} \ {0}

(* Mutant of Oldest: the ring is taken to begin at the start of the file.   *)
OldestFirst == file[Min({i \in Ring : file[i] # 0})]

(* The record found next to the one with the highest seqno, where the ring  *)
(* is oldest.                                                               *)
Oldest ==
    LET top == CHOOSE i \in Ring : file[i] = Max(Found)
        later == {i \in Ring : i > top /\ file[i] # 0}
    IN  file[Min(IF later # {} THEN later ELSE {i \in Ring : file[i] # 0})]

(* fbio_commit applies the records from there to the first hole.            *)
ToPatch ==
    IF Found = {} THEN {}
    ELSE {r \in Found : r >= Oldest /\ Oldest .. r \subseteq Found}

PatchPages == {Page(r) : r \in ToPatch}

(* Mutant of FbioWrite: the page is not cleared.                            *)
FbioWriteKeeps(p) ==
    LET At(o) == {r \in ToPatch : hist[r].slot = p * BlkSlots + o}
    IN  [o \in 1 .. PageRecs |->
           IF At(o) # {} THEN Max(At(o)) ELSE pages[Block(p)].recs[o]]

(* fbio_write: the first record of a page clears what was read from flash;  *)
(* the others are put into it.  All records of the ring that go to one      *)
(* block have the same LSN, as a log is no shorter than the ring.           *)
FbioWrite(p) ==
    LET At(o) == {r \in ToPatch : hist[r].slot = p * BlkSlots + o}
    IN  [o \in 1 .. PageRecs |->
           CASE At(o) # {} -> Max(At(o))
             [] At(o) = {} /\ At(1) # {} -> 0
             [] OTHER -> pages[Block(p)].recs[o]]

(* Mutant of FbioFlush: the LSN is the one of the next page.                *)
FbioFlushLate ==
    LET p == Min(PatchPages) + npatch
        recs == FbioWrite(p)
    IN  /\ pc = "patch" /\ npatch < Cardinality(PatchPages)
        /\ pages' = [pages EXCEPT ![Block(p)] = [lsn |-> p + 2, recs |-> recs]]
        /\ npatch' = npatch + 1
        /\ UNCHANGED <<logging, flog, writer, flash, table, pc, acked, cut, undone,
                       ncrash>>

(* fbio_flush: the next page is written, with the LSN of its records, and   *)
(* not synced.                                                              *)
FbioFlush ==
    LET p == Min(PatchPages) + npatch
        recs == FbioWrite(p)
    IN  /\ pc = "patch" /\ npatch < Cardinality(PatchPages)
        /\ pages' = [pages EXCEPT ![Block(p)] = [lsn |-> p + 1, recs |-> recs]]
        /\ npatch' = npatch + 1
        /\ cut' = (cut \/ /\ recs[PageRecs] = 0
                          /\ \E b \in Blocks : pages[b].lsn > p + 1)
        /\ UNCHANGED <<logging, flog, writer, flash, table, pc, acked, undone,
                       ncrash>>

(* flog_prepare opens the file with O_TRUNC, whether or not the patched     *)
(* pages are on the device.                                                 *)
FlogPrepare ==
    /\ pc = "patch" /\ npatch = Cardinality(PatchPages)
    /\ file' = NoSectors
    /\ pc' = "merge" /\ npatch' = 0
    /\ UNCHANGED <<logging, fl, stable, synced, writer, logs, table, acked, cut,
                   undone, ncrash>>

(* process_log_storm reads a log up to the first page whose LSN falls, or   *)
(* that the checkpoint covers.                                              *)
ReadBlocks(l) ==
    LET first == l * LogPages
        at(i) == pages[first + i].lsn
    IN  {first + i : i \in {j \in 0 .. LogPages - 1 :
            at(0) > ckpt /\ \A k \in 1 .. j : at(k) >= at(k - 1)}}

(* recover takes the log whose first page has the smaller LSN for the old   *)
(* one, and skips it if the checkpoint says that it has been merged.        *)
FirstLSN(l) == pages[l * LogPages].lsn
Old == IF FirstLSN(0) < FirstLSN(1) THEN 0 ELSE 1
OldMerged ==
    IF ckpt = 0 THEN FirstLSN(Old) = 0
    ELSE LET l == ((ckpt - 1) \div LogPages) % 2
         IN  l = Old \/ FirstLSN(l) <= ckpt

OldBlocks == IF OldMerged THEN {} ELSE ReadBlocks(Old)
HighLSN == Max({pages[b].lsn : b \in ReadBlocks(1 - Old)} \cup {ckpt})

(* recover merges both logs, and syncs what it writes; log_init_phase2      *)
(* continues in the next log.  The truncation has reached the device.       *)
Recover ==
    LET start == ((HighLSN + LogPages - 1) \div LogPages) * TotalSlots
    IN  /\ pc = "merge"
        /\ applied' = applied \cup RecsOf(OldBlocks \cup ReadBlocks(1 - Old))
        /\ ckpt' = HighLSN
        /\ next_fill' = start /\ wbs' = start /\ wpage' = 0
        /\ fill_sem' = 2 * BufRecs
        /\ base' = Nrec /\ fl' = Nrec /\ synced' = Nrec
        /\ flash' = pages /\ stable' = file
        /\ pc' = "run"
        /\ UNCHANGED <<hist, file, pages, npatch, acked, cut, undone, ncrash>>

Step ==
    \/ LogWrite \/ Persist \/ Fdatasync
    \/ WritePage \/ Merge
    \/ \E power \in BOOLEAN : Crash(power)
    \/ FbioFlush \/ FlogPrepare \/ Recover

Next == Step /\ UNCHANGED shard

Spec == Init /\ [][Next]_vars

-----------------------------------------------------------------------------
(* Types, and the ranges of fill_sem and of the positions in the buffers.   *)
TypeOK ==
    /\ shard \in Shards
    /\ next_fill \in Nat /\ fill_sem \in 0 .. 2 * BufRecs
    /\ wpage \in 0 .. BufPages - 1 /\ wbs <= next_fill
    /\ file \in [Ring -> 0 .. Nrec] /\ stable \in [Ring -> 0 .. Nrec]
    /\ base <= fl /\ fl <= Nrec /\ synced <= fl
    /\ {pages, flash} \subseteq
          [Blocks -> [lsn : Nat, recs : [1 .. PageRecs -> 0 .. Nrec]]]
    /\ pc \in {"run", "patch", "merge"}

(* A record whose log_sync had returned when a crash came is in the object  *)
(* table after the recovery: the ring still held it, or the log writer had  *)
(* written its page; no patch has taken it out again, and the recovery      *)
(* reads that page.  So it is after further crashes, during the recovery    *)
(* and later, with one exception: fbio_flush does not sync the pages it     *)
(* patches before flog_prepare truncates the file, and a power failure in   *)
(* between, or before the recovery syncs something else, takes the records  *)
(* with it.                                                                 *)
AckedRecovered == pc = "run" => acked \subseteq applied \cup undone

(* What recovery reads in a page had been logged in that page: fbio_write   *)
(* leaves no record behind of the page that used the block before, to be    *)
(* applied a second time, after newer ones.                                 *)
NoStaleRecords ==
    pc = "merge" => \A b \in OldBlocks \cup ReadBlocks(1 - Old) :
        \A o \in 1 .. PageRecs :
            pages[b].recs[o] # 0 => Page(pages[b].recs[o]) = pages[b].lsn - 1

(* With the pages that were patched the assertions of the recovery hold: in *)
(* process_log_storm the LSN advances by one, in recover the new log has    *)
(* the higher LSN, and log_init_phase2 finds the page of the checkpoint.    *)
AssertsHold ==
    pc = "merge" =>
        /\ \A l \in 0 .. 1 : \A b \in ReadBlocks(l) :
              b > l * LogPages => pages[b].lsn = pages[b - 1].lsn + 1
        /\ HighLSN > ckpt => \A b \in OldBlocks : pages[b].lsn <= HighLSN
        /\ HighLSN > 0 => pages[Block(HighLSN - 1)].lsn = HighLSN

(* What is recovered of each incarnation is a prefix of what was logged,    *)
(* whichever of log writer, updater and flush log was ahead of the others   *)
(* when the crash came, unless a patch has cut a page short that others     *)
(* follow, or a power failure has undone patched pages.                     *)
RecoveredPrefix ==
    pc = "run" /\ ~ cut /\ undone = {} =>
        \A r \in applied : \A q \in 1 .. r - 1 :
            hist[q].inc = hist[r].inc => q \in applied
=============================================================================
