----------------------------- MODULE SlabReuse ------------------------------
(***************************************************************************)
(* From an overwrite to the reuse of the old slab (ssd/fifo/mcd_osd.c,     *)
(* mcd_rec.c), for a persistent shard in store mode.                       *)
(*                                                                         *)
(* An object is never overwritten in place: a set writes the data to a     *)
(* free slab and then logs a record with the new and the old offset.  The  *)
(* old slab may be given to another object only when no recovery can still *)
(* need it.  The code delays it three times: by the write and the sync of  *)
(* the log (dealloc_list), for a record of a trx bracket until the bracket *)
(* is closed (trx_bracket_slabs, then slabtab), and on the VDC shard by a  *)
(* ring of slabs.                                                          *)
(*                                                                         *)
(* A slab holds the number of the data version last written to it.  The    *)
(* log is the sequence of all records of the shard; written says how much  *)
(* of it the log writer has written, and durable how much is safe from a   *)
(* crash of the kind that commits are to survive.  That kind is set by     *)
(* trx_commit_sw.  If it is 0 (HW durable, the default of Storm mode), the *)
(* crash is a power failure, and safe is what was synced, by the log       *)
(* writer or in the flush log (see GroupCommit).  If it is 1 (SW durable), *)
(* the crash is the death of the process, and safe is what was written to  *)
(* one of the two files.  A crash can take whatever lies beyond.  The log  *)
(* ring, the object table and recovery itself are modelled in RecLog.      *)
(***************************************************************************)
EXTENDS Integers, Sequences, FiniteSets

CONSTANTS
    Threads,    \* threads that set and delete objects
    Keys,
    Slabs,      \* the slabs of one class
    None,       \* no key, no slab, no thread
    Vdc,        \* the shard is vdc_shard
    Shards,     \* the shards to choose from (see shard)
    LogRecs,    \* records of one persistent log, a multiple of BufRecs
    SyncRecs,   \* pp_state.sync_recs
    BracketMax, \* MAX_TRX_BRACKET_SLAB_CNT
    MaxBrackets,\* bound: brackets
    MaxVer      \* bound: data versions

ASSUME ReuseAssumption ==
    /\ None \notin Threads \cup Keys \cup Slabs
    /\ Vdc \in BOOLEAN
    /\ LogRecs \in Nat \ {0}
    /\ Shards \subseteq [buf_recs : Nat \ {0}, ring_size : Nat,
                         commit_sw : BOOLEAN, levels : Nat, recs : Nat]
    /\ \A s \in Shards : LogRecs % s.buf_recs = 0
    /\ SyncRecs \in Nat \ {0} /\ BracketMax \in Nat
    /\ {MaxBrackets, MaxVer} \subseteq Nat

VARIABLES
    shard,        \* never changes: MCD_REC_LOGBUF_RECS; the slots of
                  \* dealloc_ring, 0 if dealloc_ring_enabled is false;
                  \* trx_commit_sw; bounds on the nesting of trx brackets
                  \* (0 if the clients use none) and on the log records
    free,         \* slabs that slab_alloc may return
    data,         \* version on each slab
    ver,          \* last version written
    hash,         \* slab of each key, or None
    pend,         \* set in progress of each thread: its key and new slab
    log,          \* all log records
    bracket,      \* trx_bracket_id of each thread, 0 if none
    level,        \* trx_bracket_level
    bslabs,       \* trx_bracket_slabs[0 .. trx_bracket_nslab-1]
    closing,      \* position of the closing record being logged, 0 if none
    generator,    \* bracket_id_generator
    flushing,     \* a thread is in log_flush_internal, with sync_fill_lock
    written,      \* records the log writer has written
    durable,      \* records no crash can take: synced, or with commit_sw
                  \* written, here or in the flush log
    writer,       \* where the log writer is
    sync_sem,     \* the log writer's sync_sem: it serves a waiting log_sync
    curr_recs,    \* pp_state.curr_recs
    dealloc_list, \* pp_state.dealloc_list: the records whose old slabs are there
    slabtab,      \* log->slabtab[0 .. nslab-1]
    post,         \* log_sync_postprocess's n
    ring,         \* dealloc_ring from dealloc_tail to dealloc_head
    lost          \* slabs that nothing refers to until the next start

BufRecs == shard.buf_recs
RingSize == shard.ring_size

client == <<hash, pend>>
brackets == <<bracket, level, bslabs, closing, generator>>
device == <<written, durable>>
reclaim == <<curr_recs, dealloc_list, slabtab, post, ring>>
lgwr == <<writer, sync_sem>>
vars == <<shard, free, data, ver, client, log, brackets, flushing, device,
          lgwr, reclaim, lost>>

NoPend == [key |-> None, slab |-> None]

Init ==
    /\ shard \in Shards
    /\ free = Slabs
    /\ data = [s \in Slabs |-> 0]
    /\ ver = 0
    /\ hash = [k \in Keys |-> None]
    /\ pend = [t \in Threads |-> NoPend]
    /\ log = <<>>
    /\ bracket = [t \in Threads |-> 0]
    /\ level = [t \in Threads |-> 0]
    /\ bslabs = [t \in Threads |-> <<>>]
    /\ closing = [t \in Threads |-> 0]
    /\ generator = 0
    /\ flushing = FALSE
    /\ written = 0 /\ durable = 0
    /\ writer = "idle" /\ sync_sem = FALSE
    /\ curr_recs = 0
    /\ dealloc_list = {}
    /\ slabtab = <<>>
    /\ post = 0
    /\ ring = <<>>
    /\ lost = {}

(* The thread is between two calls; its key's bucket is not locked. *)
Idle(t) == pend[t] = NoPend /\ closing[t] = 0
Unlocked(k) == \A t \in Threads : pend[t].key # k

-----------------------------------------------------------------------------
(* Sets and deletes. *)

(* mcd_fth_osd_slab_set up to the write of the data, with the key's bucket *)
(* locked.  Without a free slab it returns FLASH_ENOSPC.                   *)
SetData(t, k, s) ==
    /\ Idle(t) /\ Unlocked(k)
    /\ ver < MaxVer
    /\ s \in free
    /\ free' = free \ {s}
    /\ ver' = ver + 1
    /\ data' = [data EXCEPT ![s] = ver + 1]
    /\ pend' = [pend EXCEPT ![t] = [key |-> k, slab |-> s]]
    /\ UNCHANGED <<hash, log, brackets, flushing, device, lgwr, reclaim, lost>>

(* The write fails: the slab is not given back ("FIXME: free the allocated *)
(* space here?").                                                          *)
SetFails(t) ==
    /\ pend[t] # NoPend
    /\ lost' = lost \cup {pend[t].slab}
    /\ pend' = [pend EXCEPT ![t] = NoPend]
    /\ UNCHANGED <<free, data, ver, hash, log, brackets, flushing, device,
                   lgwr, reclaim>>

(* No hash entry for a new key: the slab is freed at once. *)
SetNoEntry(t) ==
    /\ pend[t] # NoPend
    /\ hash[pend[t].key] = None
    /\ free' = free \cup {pend[t].slab}
    /\ pend' = [pend EXCEPT ![t] = NoPend]
    /\ UNCHANGED <<data, ver, hash, log, brackets, flushing, device, lgwr,
                   reclaim, lost>>

(* log_write_internal: the record enters the log with the thread's bracket *)
(* on the VDC shard, and the old slab is put aside for the bracket unless  *)
(* the bracket has too many.                                               *)
LogRecord(t, k, new) ==
    LET old == hash[k]
        br == IF Vdc THEN bracket[t] ELSE 0
        deferred == br # 0 /\ old # None
        full == Len(bslabs[t]) = BracketMax
    IN  /\ ~flushing
        /\ Len(log) < shard.recs
        /\ log' = Append(log, [key |-> k, new |-> new,
                               ver |-> IF new = None THEN 0 ELSE data[new],
                               old |-> old,
                               oldver |-> IF old = None THEN 0 ELSE data[old],
                               br |-> br])
        /\ bslabs' = IF deferred /\ ~full
                     THEN [bslabs EXCEPT ![t] = Append(@, old)] ELSE bslabs
        /\ lost' = IF deferred /\ full THEN lost \cup {old} ELSE lost

(* The rest of mcd_fth_osd_slab_set: remove_entry of the overwritten       *)
(* object, the log record, the hash entry.                                 *)
SetLog(t) ==
    /\ pend[t] # NoPend
    /\ LogRecord(t, pend[t].key, pend[t].slab)
    /\ hash' = [hash EXCEPT ![pend[t].key] = pend[t].slab]
    /\ pend' = [pend EXCEPT ![t] = NoPend]
    /\ UNCHANGED <<free, data, ver, bracket, level, closing, generator,
                   flushing, device, lgwr, reclaim>>

(* Explicit delete. *)
Delete(t, k) ==
    /\ Idle(t) /\ Unlocked(k)
    /\ hash[k] # None
    /\ LogRecord(t, k, None)
    /\ hash' = [hash EXCEPT ![k] = None]
    /\ UNCHANGED <<free, data, ver, pend, bracket, level, closing, generator,
                   flushing, device, lgwr, reclaim>>

-----------------------------------------------------------------------------
(* Trx brackets: mcd_trx_service, commands 0 and 1. *)

OpenBracket(t) ==
    /\ Idle(t)
    /\ Vdc
    /\ level[t] < shard.levels
    /\ IF bracket[t] = 0
       THEN /\ generator < MaxBrackets
            /\ generator' = generator + 1
            /\ bracket' = [bracket EXCEPT ![t] = generator + 1]
       ELSE UNCHANGED <<generator, bracket>>
    /\ level' = [level EXCEPT ![t] = @ + 1]
    /\ UNCHANGED <<free, data, ver, client, log, bslabs, closing, flushing,
                   device, lgwr, reclaim, lost>>

(* The closing record, with the negated id; an inner close only counts.    *)
CloseBracket(t) ==
    /\ Idle(t)
    /\ bracket[t] # 0
    /\ level' = [level EXCEPT ![t] = @ - 1]
    /\ IF level[t] > 1 THEN UNCHANGED <<log, closing>> ELSE
         /\ ~flushing
         /\ Len(log) < shard.recs
         /\ log' = Append(log, [key |-> None, new |-> None, ver |-> 0,
                                old |-> None, oldver |-> 0, br |-> -bracket[t]])
         /\ closing' = [closing EXCEPT ![t] = Len(log) + 1]
    /\ UNCHANGED <<free, data, ver, client, bracket, bslabs, generator,
                   flushing, device, lgwr, reclaim, lost>>

(* Mutant of CloseLogged: the close is taken for durable at once.           *)
CloseUnlogged(t) == TRUE

(* log_write of the closing record has returned.  The record has full      *)
(* durability, and was synced, or with trx_commit_sw relaxed durability,   *)
(* and was written to the flush log without a sync (mlog_sync with sync =  *)
(* 0; the shard has a flush log with group commit, as by default).         *)
CloseLogged(t) == closing[t] <= durable

(* Mutant of CloseFree: the ID of the bracket is kept.                      *)
CloseKeepsId(t) ==
    /\ closing[t] # 0
    /\ CloseLogged(t)
    /\ slabtab' = slabtab \o bslabs[t]
    /\ bslabs' = [bslabs EXCEPT ![t] = <<>>]
    /\ closing' = [closing EXCEPT ![t] = 0]
    /\ UNCHANGED <<free, data, ver, client, log, bracket, level, generator, flushing,
                   device, lgwr, curr_recs, dealloc_list, post, ring, lost>>

(* The slabs of the bracket go to slabtab, under slablock. *)
CloseFree(t) ==
    /\ closing[t] # 0
    /\ CloseLogged(t)
    /\ slabtab' = slabtab \o bslabs[t]
    /\ bslabs' = [bslabs EXCEPT ![t] = <<>>]
    /\ bracket' = [bracket EXCEPT ![t] = 0]
    /\ closing' = [closing EXCEPT ![t] = 0]
    /\ UNCHANGED <<free, data, ver, client, log, level, generator, flushing,
                   device, lgwr, curr_recs, dealloc_list, post, ring, lost>>

-----------------------------------------------------------------------------
(* The log reaches the device. *)

(* Some thread's mlog_sync writes more of the flush log, and syncs it      *)
(* unless the record has relaxed durability.                               *)
FlogSync ==
    /\ durable < Len(log)
    /\ durable' = Len(log)
    /\ UNCHANGED <<free, data, ver, client, log, brackets, flushing, written,
                   lgwr, reclaim, lost>>

(* log_sync: wake the log writer for a partial buffer and wait.  No record *)
(* is logged meanwhile.                                                    *)
LogSync ==
    /\ ~flushing
    /\ flushing' = TRUE
    /\ UNCHANGED <<free, data, ver, client, log, brackets, device, lgwr,
                   reclaim, lost>>

(* Mutant of Freed: slabs deferred to a bracket are freed as well.          *)
FreedAlways(r) == r.old # None

(* The records whose old slab log_write_postprocess takes: no bracket's.   *)
Freed(r) == r.old # None /\ r.br = 0

(* The current buffer is written when it is full, or as far as it is       *)
(* filled when a log_sync waits for it.                                    *)
WriteEnd ==
    LET end == (written \div BufRecs + 1) * BufRecs
    IN  IF end <= Len(log) THEN end ELSE Len(log)

(* Mutant of SyncDue: records are not counted, only requests and log ends.  *)
SyncOnDemand(hi, full, recs) == ~full \/ hi % LogRecs = 0

(* The device is synced on request, when enough records have been written, *)
(* and when a persistent log is full.                                      *)
SyncDue(hi, full, recs) == ~full \/ recs >= SyncRecs \/ hi % LogRecs = 0

(* One round of log_writer_thread up to the sync, with                     *)
(* log_write_postprocess.                                                  *)
WriteLog ==
    LET hi == WriteEnd
        full == hi > written /\ hi % BufRecs = 0
    IN  /\ writer = "idle"
        /\ full \/ flushing
        /\ written' = hi
        /\ durable' = IF shard.commit_sw /\ hi > durable THEN hi ELSE durable
        /\ sync_sem' = ~full
        /\ curr_recs' = curr_recs + (hi - written)
        /\ dealloc_list' = dealloc_list \cup {i \in written + 1 .. hi : Freed(log[i])}
        /\ writer' = IF SyncDue(hi, full, curr_recs') THEN "sync" ELSE "idle"
        /\ UNCHANGED <<free, data, ver, client, log, brackets, flushing,
                       slabtab, post, ring, lost>>

(* mcd_aio_sync_devices or mcd_aio_sync_device_offset. *)
DeviceSync ==
    /\ writer = "sync"
    /\ durable' = IF written > durable THEN written ELSE durable
    /\ writer' = "post"
    /\ UNCHANGED <<free, data, ver, client, log, brackets, flushing, written,
                   sync_sem, reclaim, lost>>

(* One slab leaves log_sync_postprocess: through the ring if it is         *)
(* enabled, where it pushes out the oldest once the ring is full.          *)
Reclaim(s) ==
    LET r == Append(ring, s)
    IN  IF Vdc /\ RingSize > 0
        THEN IF Len(r) < RingSize
             THEN ring' = r /\ UNCHANGED free
             ELSE ring' = Tail(r) /\ free' = free \cup {Head(r)}
        ELSE free' = free \cup {s} /\ UNCHANGED ring

(* One turn of the loop of log_sync_postprocess: dealloc_list first, then  *)
(* slabtab, to which brackets may still be adding.  The list is emptied    *)
(* from its start on the VDC shard; elsewhere the order does not matter.   *)
PostSlab ==
    /\ writer = "post"
    /\ \/ /\ post < Len(slabtab) /\ dealloc_list = {}
          /\ Reclaim(slabtab[post + 1])
          /\ post' = post + 1
          /\ UNCHANGED dealloc_list
       \/ \E i \in dealloc_list :
             /\ Vdc => \A j \in dealloc_list : i <= j
             /\ Reclaim(log[i].old)
             /\ dealloc_list' = dealloc_list \ {i}
             /\ UNCHANGED post
    /\ UNCHANGED <<data, ver, client, log, brackets, flushing, device, lgwr,
                   curr_recs, slabtab, lost>>

(* The end of the loop, with slablock held, and of the writer's round.  A  *)
(* waiting log_sync returns if its buffer was the one written.             *)
PostDone ==
    /\ writer = "post"
    /\ dealloc_list = {} /\ post = Len(slabtab)
    /\ slabtab' = <<>> /\ post' = 0
    /\ curr_recs' = 0
    /\ writer' = "idle"
    /\ flushing' = (flushing /\ ~sync_sem)
    /\ sync_sem' = FALSE
    /\ UNCHANGED <<free, data, ver, client, log, brackets, device,
                   dealloc_list, ring, lost>>

Client(t) ==
    \/ \E k \in Keys : Delete(t, k) \/ \E s \in Slabs : SetData(t, k, s)
    \/ SetFails(t) \/ SetNoEntry(t) \/ SetLog(t)
    \/ OpenBracket(t) \/ CloseBracket(t) \/ CloseFree(t)

Writer == WriteLog \/ DeviceSync \/ PostSlab \/ PostDone

Next ==
    /\ (\E t \in Threads : Client(t)) \/ FlogSync \/ LogSync \/ Writer
    /\ UNCHANGED shard

Spec == Init /\ [][Next]_vars

-----------------------------------------------------------------------------
LogRec == [key : Keys \cup {None}, new : Slabs \cup {None}, ver : Nat,
           old : Slabs \cup {None}, oldver : Nat, br : Int]

TypeStore ==
    /\ shard \in Shards
    /\ free \subseteq Slabs /\ lost \subseteq Slabs
    /\ ver \in Nat /\ data \in [Slabs -> 0 .. ver]
    /\ hash \in [Keys -> Slabs \cup {None}]
    /\ pend \in [Threads -> [key : Keys, slab : Slabs] \cup {NoPend}]

TypeBrackets ==
    /\ generator \in Nat /\ bracket \in [Threads -> 0 .. generator]
    /\ level \in [Threads -> Nat] /\ bslabs \in [Threads -> Seq(Slabs)]
    /\ closing \in [Threads -> 0 .. Len(log)]
    /\ \A t \in Threads : /\ bracket[t] = 0 <=> level[t] = 0 /\ closing[t] = 0
                          /\ level[t] = 0 \/ closing[t] = 0

TypeLog ==
    /\ log \in Seq(LogRec)
    /\ written \in 0 .. Len(log) /\ durable \in 0 .. Len(log)
    /\ curr_recs \in Nat /\ dealloc_list \subseteq 1 .. written
    /\ \A i \in dealloc_list : log[i].old \in Slabs

TypeWriter ==
    /\ writer \in {"idle", "sync", "post"}
    /\ flushing \in BOOLEAN /\ sync_sem \in BOOLEAN
    /\ slabtab \in Seq(Slabs) /\ post \in 0 .. Len(slabtab)
    /\ ring \in Seq(Slabs)

TypeOK == TypeStore /\ TypeBrackets /\ TypeLog /\ TypeWriter

(* The objects that a recovery from the first p records finds, ... *)
Live(p) ==
    {<<log[i].new, log[i].ver>> : i \in {j \in 1 .. p :
        log[j].new # None /\ \A l \in j + 1 .. p : log[l].key # log[j].key}}

(* ... and the old versions it hands to the btree to undo the brackets     *)
(* that are still open there.                                              *)
Undo(p) ==
    {<<log[i].old, log[i].oldver>> : i \in {j \in 1 .. p :
        /\ log[j].old # None /\ log[j].br # 0
        /\ \A l \in j + 1 .. p : log[l].br # -log[j].br}}

(* Whatever part of the log beyond the durable one a crash leaves, every   *)
(* object that its replay finds, and every old version that it needs to    *)
(* undo an open bracket, is still in its slab: no slab is written for a    *)
(* new object before the loss of the old one is durable.  The crash is the *)
(* one commits are to survive: a power failure if brackets are closed with *)
(* full durability, the death of the process if trx_commit_sw relaxes it.  *)
NeededIntact ==
    \A p \in durable .. Len(log) :
        \A x \in Live(p) \cup Undo(p) : data[x[1]] = x[2]

(* The records whose old slab the log writer has yet to free.              *)
Unfreed == dealloc_list \cup {i \in written + 1 .. Len(log) : Freed(log[i])}

(* The places where a slab can be: free, in the hash table, in a set in    *)
(* progress, the old slab of a record, or in one of the lists.             *)
In(q, s) == {i \in DOMAIN q : q[i] = s}
Places(s) ==
    LET T(name, S) == {name} \X S
    IN  T("free", free \cap {s}) \cup T("lost", lost \cap {s})
        \cup T("hash", {k \in Keys : hash[k] = s})
        \cup T("set", {t \in Threads : pend[t].slab = s})
        \cup T("log", {i \in Unfreed : log[i].old = s})
        \cup T("tab", {i \in In(slabtab, s) : i > post})
        \cup T("ring", In(ring, s))
        \cup T("bracket", UNION {{t} \X In(bslabs[t], s) : t \in Threads})

(* Every slab is in exactly one place: it is freed once for each time it   *)
(* was allocated, never while an object uses it, and none drops out of the *)
(* lists.                                                                  *)
OnePlace == \A s \in Slabs : Cardinality(Places(s)) = 1

(* dealloc_list has room for sync_recs + MCD_REC_LOGBUF_RECS slabs         *)
(* (log_init); the log writer fills it without a test.                     *)
DeallocFits == Cardinality(dealloc_list) < SyncRecs + BufRecs
=============================================================================
