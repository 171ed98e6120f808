# A TLA+ verification project for ZetaScale

ZetaScale is an embedded key-value store for flash. This project models the part
on which everything else in it stands: the path of an update from the hash table
through the logs to the flash file, what a crash leaves of it, the space it gives
back, and the object cache in front of it. All paths below are relative to `src/`.

1. [Survey](#1-survey)
2. [Modules](#2-modules)
3. [Runs](#3-runs)
4. [Proofs](#4-proofs)
5. [Findings](#5-findings)
6. [What is not modelled](#6-what-is-not-modelled)
7. [What could come next](#7-what-could-come-next)

## 1. Survey

### How an update travels

A `set` (`ssd/fifo/mcd_osd.c`, `mcd_fth_osd_slab_set`) never overwrites an object
in place. It takes a slab from the class of the object's size, writes the data,
and, under the lock of the object's hash bucket, changes the hash entry and logs a
record with the new and the old offset. The record goes two ways:

* to the **flush log** (`mlog_*`, `flog_*`), a small file with group commit: a call
  returns when its record is there, and after a crash the file is patched into the
  recovery log;
* to the **recovery log**: two memory buffers, written by `log_writer_thread` to
  two persistent logs in turn. When a log is full, the **updater** merges it into
  the persistent object table (POT) and moves the checkpoint.

The old slab is freed once the record is written and synced, once the trx bracket
of the record is closed, and, on the VDC shard, once it has passed a ring of slabs.
A thread may collect its records in an **object transaction** (`mcd_trx_*`), which
commits them in one go or undoes them. At recovery the log passes through **filters**
(`filter_cs_*`, `filter_it_*`, `filter_ot_*`) that stop at the first damaged slab,
drop a transaction that is not whole, and collect what belongs to open brackets.

Above all this lies the **action node** (`protocol/action`): a cache of objects,
divided into slabs with a lock each, and a pool of threads that write objects to
flash while the client goes on.

### Parts, their state and what makes them hard

| Part | State | Operations | Hard because of | Stated |
|---|---|---|---|---|
| Flush log, `mcd_rec.c` 7083–7335 | `mlog`: buffers, `lsn`, `synced_lsn`, `in_sync`; the file | `log_write`, `log_sync`, `mlog_buf`, `mlog_ensure_space`, `mlog_sync` | unlocked read of `synced_lsn`; buffer switched while others append; one flusher answers for all | `GroupCommit` |
| Flush log recovery, `mcd_rec.c` 2440–3072 | the ring of sectors, the log pages | `flog_persist`, the log writer, `flog_patchup_file`, `fbio_commit`, `fbio_write`, `flog_prepare` | flush log, log writer and updater each at their own speed; sectors and pages used again; a crash in the middle of the repair | `FlogRecover` |
| Recovery log, log writer, `mcd_rec.c` 6812–8010; updater, `mcd_rec2.c` | two buffers, two logs, POT, POT bitmap, checkpoint, semaphores, mailbox | `log_write_internal`, sync, writer loop, merge, recovery | three threads wait for each other; crash between any two device writes; recovery must infer which log is older | `RecLog` |
| Log filters, `mcd_rec.c` 4268–5167 | ring of records, `trxbuf`, `ottable` | every record read, rewind at the end of a log | state is carried from one log to the next and from one recovery to the next | `RecLog` |
| Object transactions, `mcd_rec.c` 8773–9448 | `trxtable` with a mutex per bucket, thread-local `trxid`, the record table of a transaction | start, attach, detach, id, commit, commit by ID, rollback, capture | several threads in one transaction; limits and failures in the middle; undo order; one log must hold all of it | `TrxTable` |
| Flash file writes, `mcd_aio.c` 166–270, 482–613 | `sync_counter`, `flush_lock`, `_meta_mutex` | write with and without sync, unaligned read and write | a writer relies on another's `fdatasync`; a path with rules of its own | `DataSync` |
| Slab reuse, `mcd_rec.c` 7345–7405, 7500–7700, 9060–9160 | `dealloc_list`, `slabtab`, brackets, ring | set, delete, open and close a bracket, log writer's post-processing | a slab reused too early destroys what a recovery needs | `SlabReuse` |
| Slab allocator and compaction, `mcd_osd.c` 2440–2620, 3740–4540; `slab_gc.c` | segments, classes, bitmaps, counts, per-thread free lists | allocate, free, grow, shrink, compact | bitmaps without locks against a segment that is taken away | `SlabAlloc` |
| Object cache and asynchronous puts, `protocol/action`: `action_new.c`, `fastcc_new.c`, `async_puts.c` | cached objects, slab locks with a count of lockers, request queue, flush tokens | get, set, delete, sync, commit, flush, invalidate, background flush; worker loop | a slab's lock is handed from a client to its writes; posters and workers share one condition variable | `WriteCache` |

How they interact: `SlabReuse` uses of `GroupCommit` only how much the flush log holds
safely, and of `RecLog` only how much the log writer has written and synced (`durable`
is the larger of the two); `DataSync` is the sync that the writes of both rest on;
`TrxTable` hands its records to the log that `RecLog` models and fits them into one of
the two logs; `FlogRecover` composes the promise of `StableLog` with the log writer,
the updater and the recovery in outline; `SlabAlloc` is the layer below the set `free`
of `SlabReuse`. `WriteCache` takes all of them together as one map from key to value
on flash.

The hazards of the code, with the line where each bites and the properties that
would catch it, are in `PROJECT.json`. A hazard without a property says why.

## 2. Modules

A critical section of the code is one action, and every unlocked read, atomic
operation or device write whose order matters is an action of its own. Variables
and actions keep the names of the source. Every named bound (`Max...`) is marked as
such where it is declared. An operator whose comment begins with "Mutant of" is a
wrong form of the definition after it; no specification uses it, and it is there
to show that a property notices the mistake.

**`StableLog`** is what the flush log promises: records get consecutive numbers,
reach the file in that order without a hole, and are acknowledged only when they
are there (and synced, for full durability).

**`GroupCommit`** is the implementation. `StartWrite`, `MlogBuf`, `EnsureSpace` are
the writers under `sync_fill_lock`; `Check` is the unlocked read of `synced_lsn`;
`EnterDone`, `EnterWait`, `EnterFlush` are the three ways through the sync mutex;
`Swap`, `PersistRecord`, `PersistEnd`, `Fsync`, `Finish` are the flusher. It is
shown to implement `StableLog` (`Refines`).

**`RecLog`** has the filling side (`LogWrite`, `SyncStart`, `SyncEnd`; for
transactions `CommitStart` with its padding and `CommitWrite`; `BracketOpen` and
`BracketClose`), the log writer (`WriterTop` … `WriterLogWait`), the updater
(`MergeStart`, `ReadPage`, `ReadEnd`, `SavePage`, `SaveBitmap`, `Checkpoint`),
recovery (`RecoverStart`, the same merge steps, `LogInitPhase2`) and `Crash`, which
keeps only what is on flash. A record is a number, a POT page the last record applied
to it. A log write that has returned is durable: this is a crash of the process, or
of a machine with synced log writes. The data of an object is not: until the devices
are synced, a crash may damage one slab named by the log (`bad`).
The filters are operators over the records of a page: `Filter` passes a page to the
ring (`Overflow` goes on to `ItEnds`, `ItPassed`, `OtApply`), and `ReadEnd` is the
rewind at the end of a log, where on the VDC shard what is left in the ring is
verified (`RingSound`) before it is let go.
One variable that never changes, `shard`, holds the configuration and its bounds, so
that one run covers several of them. `FlogRecover`, `WriteCache` and `SlabReuse` do
the same.

**`FlogRecover`** joins the two logs. `LogWrite` takes a slot in the log buffers;
`Persist` and `Fdatasync` are the flush log, of which only the promise of `StableLog`
is used; `WritePage` is the log writer, page by page, and `Merge` the updater. `Crash`
is the death of the process, which keeps the file, or a power failure, which keeps of
the sectors written since the last `fdatasync` the first ones and may tear the next
(`Leaves`) and of the log pages patched since the last sync any subset (`Undo`). Then
`FbioFlush` patches one page at a time, `FlogPrepare` truncates the file, and `Recover`
reads the logs and continues in the next one, as an ordinary shard does. `flash` holds
the pages as of the last sync: `WritePage` syncs and so does `Recover`, `FbioFlush` does
not. `slow_merge` of a configuration says whether threads may log into the next use of
a log that has not been merged, `reorder` whether sectors persist in any order. `acked`
collects what has been promised; `cut` notes that a patch zeroed the end of a page
that others follow; `undone` holds the records that a power failure took with a patched
page when the flush log no longer had them, and those after them.

**`TrxTable`** has one action per section under a bucket's mutex and one per object
operation. The hash table maps a key to blocks; blocks are numbered and not reused.
Its ghosts name what the code does not promise: `clash` (keys that two parties wrote
at a time; the code's comments exclude isolation), `late` (keys an associate wrote
after the transaction was taken for conclusion), `stray` (changes that did not fit
into the transaction) and `aborted` (changes of a failed commit). `CommitStart` takes
`sync_fill_lock` and decides whether to pad; `CommitPad` and `CommitWrite` log one
record each (`log_write_internal`), while others may change objects and transactions.

**`DataSync`** follows `mcd_fth_aio_blk_write_low` from the `pwrite` to the return:
tag, unlocked check, lock, test, counter, `fdatasync`. Per thread it keeps whether
its last write is on the device. A call that is not made of whole blocks takes the
other path (`MetaLock`, `UnalignedDone`, `UnalignedFails`): pieces through a static
buffer under `_meta_mutex`, never synced, and with the mutex left locked after an I/O
error. An `fdatasync` is taken to succeed: the code does not look at its result.

**`SlabReuse`** keeps the version of the data on each slab, the whole log, and the
lists a slab passes through. `durable` is the part of the log no crash can take: what
is synced, or, on a shard that closes brackets with relaxed durability (`commit_sw`),
also what the log writer has written, which the death of the process leaves.
`dealloc_list` is kept as the set of records whose old slabs it names: a record is
entered once, and `log_sync_postprocess` treats the whole list.

**`SlabAlloc`** has client threads, the log writer (which frees) and the compaction
thread. `plat_assert` is active in every build (`CMakeLists.txt:60` sets
`-UNDEBUG`), so a failed assertion stops the model in a state of its own (`halt`).
Memory is sequentially consistent, which the code's `barrier()` (`sfence`) does not
quite enforce. Which slot a thread tries is left open. A slab is asked for one at a
time. A slab is freed through the log writer, as for objects of persistent shards
(`RemoveEntry`). Compaction decides, looks for a segment and locks the class at three
moments (`GcAble`, `GcPick`, `GcMark`); `GcPickNone` is the case that none is left to
find, where the code dereferences a null pointer and the model stops. A failure
of `update_class`, which writes a class to flash, is possible for the actors in
`MayFail`. The runs leave compaction out of it: when its `update_class` fails,
`slab_gc.c:394` puts the segment back a second time, and another thread may have
freed it since; with `MayFail` holding `Gc`, TLC finds `SlabsApart` violated. It is
listed as a hazard. After compaction has freed a segment, its bitmap is still
there when it is assigned again, and the assertion at `mcd_osd.c:3885` fails
(compaction, `ZS_SLAB_GC`, is off by default): `AssignSegment` stops there.

**`WriteCache`** has clients and workers. An operation on an object is `Get`, `Set` or
`Del`, then `Evict` as often as the slab is full, `LoadCache`, `CheckLimit` and
`Unlock`; a flush is `FlushScan` over all slabs, then for each bucket `FlushToken`,
`FlushLock` or `FlushSkip`, `FlushEntry`, `FlushUnlock`, `FlushAbsorb`, `FlushNext`.
The queue is `QPost`, `QGet` with their waits on `q_cond`, `Copy` (the worker copies
the request and acknowledges it), `Write`, and `DrainStart`, `Drain`. A value is a
number, 0 for no object. `num_threads` of the queue is set to 0 and never raised, so
`Counted`, the threads that `async_drain` looks at, is empty: it waits until the
queue is empty and not, as the comment at `async_puts.c:356` has it, for the writes
that were taken from it. `api/fdf.c:2281` and `3110` have asynchronous writes of
containers disabled at present. They are modelled as the queue's code has them; the
writebacks and flushes that share the queue are in use.

## 3. Runs

| Run | Instance | Checks |
|---|---|---|
| `group_commit` | 3 threads, 2 buffers of 2 records, transactions of up to 3, 3 records | `IInv`, `AckedDurable`, `NoHole`, `Refines`, `CallsReturn` |
| `reclog` | logs of 2 pages, 2 POT pages, 5 configurations: an ordinary shard and a VDC shard with logs of 4 pages (5 records, 1 sync, 2 crashes); two VDC shards with transactions of up to 2 and a damaged slab (6 records; 4 records and a sync; 1 crash); one with brackets (4 records, 2 crashes) | `TypeOK`, `AssertsHold`, `RecoveredPrefix`, `MergesWholeLog`, `RevertsOnlyOpen` |
| `reclog_live` | VDC shard, 5 records, 1 sync, 1 crash, fair writer and updater | `SyncReturns`, `SlotsReturn` |
| `reclog_bracket` | VDC shard with brackets, 3 records, 1 crash | `OpenBracketsSaved`, violated |
| `flog_recover` | buffers of 1 page of 2 records and logs of 2 pages (7 records, 2 crashes; 10 records, 1 crash); buffers of 2 pages of 1 record and logs of 4 pages (9 records, 1 crash) | `TypeOK`, `AckedRecovered`, `NoStaleRecords`, `AssertsHold`, `RecoveredPrefix` |
| `flog_slow_merge` | the smaller logs with a slow updater | `AckedRecovered`, violated |
| `trx` | 2 threads, 2 shards, 1 key each, limit 2, logs of 6 slots, 7 calls | `TypeOK`, `OneConcluder`, `TrxWhole`, `ReplayMatches`, `NoDangling` |
| `trx_id_lock` | 1 shard, fair threads | `CallsReturn`, violated |
| `data_sync` | 3 threads, counter up to 2, 2 unaligned calls | `IInv`, `SyncedIsStable`, `CallsReturn` |
| `slab_reuse` | 2 threads, 2 keys, 3 slabs, 4 records; with brackets (1, nesting 2) that close with full or relaxed durability, or with a ring of 2 | `TypeOK`, `NeededIntact`, `OnePlace`, `DeallocFits` |
| `slab_alloc` | 2 threads, 1 class, 2 segments of 1 slab, free lists of 1 | `TypeOK`, `SlabsApart`, `CountsExact`, `AssertsHold` |
| `write_cache` | 2 clients, up to 2 workers, 3 keys in 2 slabs, 5 configurations of calls, container and cache | `TypeOK`, `CacheCoherent`, `RqstValid`, `NoClash`, `TokensConserved`, `OpsReturn` |

What the properties say:

* **Flush log.** `AckedDurable`: an acknowledged record is in the file, and in the
  synced file if it asked for full durability, whoever flushed it. `NoHole`: the file
  is a prefix at every moment. `CallsReturn`: nobody is forgotten by the broadcast.
* **Recovery log.** `RecoveredPrefix`: after any crashes, including crashes during
  recovery, the table is the one a prefix of the log gives, and the prefix has all
  records whose sync returned, does not end inside a transaction and names no damaged
  slab. `RevertsOnlyOpen`: the btree is told to revert only brackets that are open,
  and none that an earlier recovery has had reverted. `MergesWholeLog`: the writer
  does not touch a log while it is merged. `AssertsHold`: the assertions on LSNs and
  buffer positions. `SyncReturns`, `SlotsReturn`: filler, writer and updater never all
  wait.
* **Flush log recovery.** `AckedRecovered`: an acknowledged record is in the object
  table after the recovery, and after every later one: from its page, or from the
  ring, whichever crash it was and however often the recovery was begun again, unless
  it was undone by a power failure during the recovery (see Findings).
  `NoStaleRecords`: a patched page holds no record of the block's former use.
  `AssertsHold`: the LSNs of patched and written pages fit together.
  `RecoveredPrefix`: what is recovered of each incarnation is a prefix of what it
  logged.
* **Transactions.** `OneConcluder`: one thread concludes a transaction. `TrxWhole`:
  its records are one run in one log. `ReplayMatches`: when all is quiet the log and
  the hash table agree. `NoDangling`: nothing refers to a block a rollback freed.
* **Sync.** `SyncedIsStable`: a synchronous write of whole blocks that returns is on
  the device, also when another thread called `fdatasync` and whatever unaligned calls
  do. `CallsReturn`: every call returns, unless it waits for `_meta_mutex` after an
  error has left it locked.
* **Slabs.** `NeededIntact`: wherever a crash cuts the log, what recovery finds and
  what it needs to undo open brackets is still in its slab. `OnePlace`: a slab is
  freed once per allocation and never leaks, except for those the bracket table has no
  room for. `DeallocFits`: the list that is filled without a test never overflows.
  `SlabsApart`: no slab has two owners and none lies in a segment given away.
  `CountsExact`: the counts that decide whether a segment is empty lag behind the
  bitmap only by calls between their two steps.
* **Cache.** `CacheCoherent`: whoever locks a slab finds in the cache the last value
  written, and on flash too unless the object is marked modified. `NoClash`: no two
  writes of an object are under way at once, although the test for it is compiled out.
  `RqstValid`: the request on a poster's stack is intact until it is copied.
  `TokensConserved`: no path of a flush loses or invents a token. `OpsReturn`: every
  call returns.

**Why the bounds are enough.** `group_commit`: 3 records in buffers of 2 force a full
buffer, a switch with appends behind it, a flusher with two waiters, and the reuse of
the first buffer. `reclog`: 5 records wrap both logs of 2 pages, so that a log is
overwritten, and a second crash can fall into the recovery from the first; with
buffers of 2 pages a crash leaves half a buffer; pages of 2 records let a transaction
lie across pages and logs. The configurations with transactions have one crash, as a
second one runs into the fragment described under Findings. `flog_recover`: the ring
has 4 record slots, so 7 records use sectors again and begin log 1, and 10 use log 0
again; a second crash can fall into the patching, the merge or the next incarnation.
`trx`: 7 calls suffice for two threads in one transaction, a change, a second change
of the key, and two conclusions racing; limit 2 makes a transaction too big. The logs
of 6 slots with page headers make padding necessary. `data_sync`: two announced syncs
let a third thread return without the lock; of two unaligned calls one can fail and
the other wait. `slab_reuse`: a slab is
overwritten, freed and allocated again within 4 records, inside, outside and in a
nested bracket. Two brackets open at once (one key, 4 versions) take TLC longer than
the other runs, so no run has them; that instance finds no error either. `slab_alloc`:
with one slab per segment each free empties a segment, so every free races with
shrinking; two classes or two slabs per segment are beyond TLC's reach in minutes.
`write_cache`: a slab with room for one object makes every load evict; a queue as long
as the pool (as in the code) is full with two clients and one worker; two keys in one
bucket make a flush post twice and absorb a token. The clients are at most one more
than the workers, and commits fewer than workers; what lies beyond is described under
Findings.

**Deadlock** is checked in `data_sync`, `slab_reuse`, `slab_alloc` and `write_cache`. In
the other runs the bounded supply of calls or records runs out and the system rests,
so they say `CHECK_DEADLOCK FALSE`; what must not get stuck there is stated as
liveness.

**Fairness.** Weak fairness of each thread's steps inside a call (`GroupCommit`,
`DataSync`, `TrxTable`), and of the writer, the updater and a running sync
(`RecLog`), and of the workers (`WriteCache`): these are pthreads that the system
schedules. Calls themselves are not fair: nobody has to write. No fairness of locks
is assumed, as the bounds on calls keep a waiter from being overtaken for ever, with
one exception: the clients of `WriteCache`, whose flushes and gets are not bounded,
are strongly fair, because `fthLock` and `fthMbox`, on which they wait for a slab or a
token, serve their waiters in order.

## 4. Proofs

TLAPS checks these for every value of the constants that the named assumptions
allow.

**`GroupCommitProofs`.** `Inductive` (`Spec => []IInv`), and from it `TypeCorrect`,
`HoleFree` (`NoHole`), `Durability` (`AckedDurable`) and `Refinement`
(`Spec => Refines`). Neither durability nor the absence of holes is inductive: what
a thread finds in `synced_lsn` depends on what the flusher has in its locals. `IInv`
says: one flusher (`OneFlusher`); the flusher's buffer holds the records from
`synced_lsn` to its snapshot and the current buffer those from there to `lsn`, all
others are empty (`BufferRuns`); the file is what is published plus what the flusher
has written of its buffer (`FileRun`); records of full durability are stable once
published (`FullRun`); a call waits for a number that covers its records
(`CallRun`). The step proof has one case per action. Assumptions: at least two
buffers, at least one record per buffer (`MlogAssumption`).

**`TrxTypes`, `TrxBlocks`, `TrxCommits`** are about `TrxTable`. `ConcludedOnce`
(`Spec => []OneConcluder`) follows from `IInv`: IDs in use have been drawn
(`IdsDrawn`), the ID of a transaction on its way into the table is nobody's
(`FreshId`), and `OneConcluder` itself. The rest is built on `Types`: `IInv`, what a
transaction's buffer may hold (`Buffers`), where a thread is in its call (`Control`)
and the types of log and hash table (`Stored`). `NextKinds` sorts the steps into
those that take, fill, log, undo or free a transaction and those that leave it alone,
and every later step proof has one case per kind.

* `BlocksNeverDangle` (`NoDangling`), from `BlocksKept`. A record is held if its
  transaction is in the table or being concluded and it has not been logged or undone
  yet. The block a held record replaced is not freed and not current, no two held
  records replaced the same block, and neither the hash table nor the log names a freed
  one. So a rollback that puts an old block back never puts back a freed one, also
  where transactions overwrite each other.
* `ReplayAgrees` (`ReplayMatches`), from `Chained`. The held records of an object that
  one party writes form a chain: the first replaces what the log has of the object,
  each one replaces what the one before it made, the last made what the hash table
  has. A commit logs the first of the chain, a rollback undoes the last, a change adds
  one at the end; when the chain is empty the two ends agree. It needs that the
  records of a transaction belong to one shard (`OneShard`).
* `CommittedWhole` (`TrxWhole`), from `Committing`: the thread that pads or writes has
  `sync_fill_lock` (`Locks`), so nobody else logs; while it pads, the records left to
  pad lead to the beginning of the other log, and while it writes, the slots left in
  the log exceed the records left to write (`Fits`); what it has written is the end of
  the log (`Writing`); and an ID in the log is never used again (`Tids`). `Fits`
  rests on `CommitFits`: if no padding is added, the records of a transaction, with
  the page headers among them, end in the log in which they begin. That is arithmetic
  for every size of page, log and transaction.

Assumptions (`TrxAssumption`): buffers of at least one record that grow by a factor of
at least 2 up to the limit, pages of at least two slots, logs of whole pages with room
for the largest transaction and two slots per page; `NoThread` is neither a thread nor a
shard.

**`SlabReuseProofs`.** `TypeCorrect` (`TypeOK`), `RecoveryIntact` (`NeededIntact`),
`SlabsOnce` (`OnePlace`) and `ListFits` (`DeallocFits`). The inductive invariant is
`TypeOK /\ BracketIds /\ ListKept /\ Placement /\ LiveKept /\ UndoKept`. `Placement`: there
is a map from slabs to places (free, lost, hash table, set in progress, old slab of a
record, table of closed brackets, ring, open bracket) that each of the eight places agrees
with, without repetition; one lemma per action shows how the map changes, and `OnePlace`
is its consequence. `LiveKept` and `UndoKept` say of the objects and old versions that a
recovery may need where their slabs are kept, which by `Placement` is not among the
free ones, and only a free slab is written. They need that a record to be
post-processed stays listed until it is durable (`ListKept`) and that the records of
a bracket have an ID of their own and end with its closing record (`BracketIds`).
`ListFits` has an invariant of its own, `Sized`: the list names only records written
since the last sync, and an idle log writer has fewer than `sync_recs` of these.
Assumptions (`ReuseAssumption`): buffers of at least one record, logs of whole buffers,
and `SyncRecs` at least 1; `log_init_phase2` sets `sync_updates` to `pp_max_updates`
when it is 0. As `durable` is what no crash can take only for the crash the shard guards
against, `RecoveryIntact` speaks of every crash if brackets close with full durability,
and of the death of the process if `commit_sw` is set.

**`SlabAllocPlaces`, `SlabAllocProofs`.** `SlabsNeverShared` (`SlabsApart`), `CountsAgree`
(`CountsExact`) and `AssertsPass` (`AssertsHold`), for any number of threads, classes,
segments and slabs, together as one induction over `AllocInv /\ Counts /\ AssertsHold`.
`AllocInv` is `SlabsApart` with: types and steps (`Types`, `Control`); the segments up
to `blk_allocated` have a class and a place (`Assigned`) and every slab anyone names lies
in one of them (`AllKnown`); a segment is in its place, or taken out by the holder of
the class lock, or marked by compaction, or given back (`InPlaces`); and whoever has
waited for `used` to drop to 0 is alone with the segment, although threads may still
announce themselves, since these find the place empty and turn back (`Alone`).
`Counts`: `used` is the number of threads that have announced themselves, the two
counts of used slabs are the bits up to calls between two steps, and
`dealloc_pending` is the number of slabs on their way to be freed. From the counts
follow the facts the step proof needs: nobody is at a segment with `used = 0`
(`Drained`) and one with `used_slabs = 0` has no bit set (`Emptied`). All three theorems
assume that `Gc` is not in `MayFail`; without it `SlabsApart` is violated (see
`SlabAlloc` above). They also inherit that `AssignSegment` stops at a segment from the
free list, so that a segment has one class for ever, and the null pointer of
`GcPickNone` is a stop of its own that `AssertsHold` is not about. Further assumptions
(`AllocAssumption`): finitely many threads, at least one segment and one slab per
segment, and that the model values are distinct.

**`DataSyncProofs`.** `SyncInductive` (`Spec => []IInv`) and `SyncDurability`
(`SyncedIsStable`), for any number of threads, of synced writes and of unaligned calls,
failing ones included. The strengthening is `TagMeaning`: a counter above the tag means
that a sync which covers the write has been announced, two above that it has ended.
It holds because the counter moves before the `fdatasync` and the lock is held
until after it.

**Only model-checked:** all liveness properties (the prover does not reach
fairness); the properties of `RecLog`, `FlogRecover` and `WriteCache`; `TypeOK` of
`TrxTable` and of `SlabAlloc`, of which the proofs use a weaker form (`Types`).

## 5. Findings

* **`mcd_trx_id` leaves a bucket locked** (`trx_id_lock`). It clears `trxid` between
  `trx_lock(trxid)` and `trx_unlock(trxid)`, so for a concluded transaction it
  unlocks another bucket (`ssd/fifo/mcd_rec.c:8945`).
* **A bracket begun in a merged log is not wholly reverted** (`reclog_bracket`).
  `recover` takes an old log that holds the checkpoint for one that an earlier
  recovery has dealt with, and keeps its records out of `ottable`
  (`ssd/fifo/mcd_rec2.c:1194`); an online merge leaves the same trace.
* **A recovery patches over a log that is not yet merged** (`flog_slow_merge`). The log
  writer gives slots back (`ssd/fifo/mcd_rec.c:7937`) before it waits for the other log
  to be merged (`8002`). Up to two buffers of records for the next use of that log are
  then in the flush log, and acknowledged; if the process dies before the merge,
  `fbio_write`, which does not look at the LSN on flash, puts them over the unmerged
  pages. The programming guide promises no loss in a software crash.

Without a run of their own, as a configuration beyond those of the runs shows them
(each was seen with TLC):

* **A failed commit is not rolled back.** The comment at `ssd/fifo/mcd_rec.c:8889` says
  a transaction that fails for its size or shard is rolled back;
  `mcd_trx_commit_internal` logs nothing and undoes nothing (`9179`), and the objects
  stay in the hash table. `ReplayMatches` excepts them.
* **A damaged tail is cut again.** The records that a recovery discards at a damaged
  slab stay in the old log; the next recovery of the VDC shard reads them again and
  discards them together with everything logged since (`ssd/fifo/mcd_rec2.c:1196`).
  A damaged slab, 2 crashes: `RecoveredPrefix` of `RecLog` fails.
* **Patched pages are not synced before the flush log is truncated.** `fbio_flush`
  writes them with `pwrite` (`mcd_rec.c:2470`), then `flog_prepare` opens the file with
  `O_TRUNC` (`2962`). A power failure before the next synced write of the recovery loses
  records acknowledged at full durability. Without the exception for `undone`,
  `AckedRecovered` fails in `flog_recover`.
* **Unaligned writes are not synced and can leave `_meta_mutex` locked**
  (`mcd_aio.c:523`, `235` to `264`). The path ignores `sync`, and returns from an I/O
  error without unlocking, so that the next unaligned call waits for ever. Without
  their exceptions, `SyncedIsStable` and `CallsReturn` of `DataSync` fail.
* **"Next to maximum" assumes that sectors persist in order** (`mcd_rec.c:2698`). If a
  power failure keeps a late sector and loses an earlier one, the records that
  `fbio_commit` applies are old ones, and clearing their page erases a synced record.
  `reorder = TRUE`: `AckedRecovered` fails.
* **A patch can zero the end of a written page.** When the log writer is ahead of the
  flush log by more than a page, the last page of the flush log is patched with fewer
  records than it has on flash, while the pages after it stay. The recovery then
  applies later records without earlier ones, none of them acknowledged.
  `RecoveredPrefix` of `FlogRecover` excepts this (`cut`).
* **The fragment of a transaction survives in `trxbuf`.** `filter_it_rewind_log`
  discards it only in `badstate` 4 (`mcd_rec.c:4823`), which has been left by then; a
  second recovery joins it to the first transaction of the next log. Transactions of
  2 records, 2 crashes: `RecoveredPrefix` fails.
* **Flush-and-invalidate of a write-back container drops modified objects**: the first
  pass removes them, the second would have flushed them (`fastcc_new.c:1378`).
  `CacheCoherent` fails.
* **A wake-up on `q_cond` can be lost** when posters exceed workers by two: the signal
  of a post wakes a poster, who finds the queue full and sleeps again, and the
  worker sleeps on (`async_puts.c:328`). Three clients on three slabs, one worker:
  deadlock. The library has 16 or 128 workers.
* **Workers that drain for a commit hold up the queue**: with every worker in the drain
  at `async_puts.c:472` and a request still queued, nobody takes it. One worker, one
  commit: deadlock. Asynchronous commits are disabled at present.
* **A freed segment keeps its bitmap** (`mcd_osd.c:3885`), and **a failed `update_class`
  of compaction frees a segment twice** (`slab_gc.c:394`): see `SlabAlloc` above.
* **Compaction of a class that has lost its segments** passes a null pointer to
  `mcd_osd_segment_lock` (`slab_gc.c:306`, `mcd_osd.c:3794`): the run reaches
  `GcPickNone`.

## 6. What is not modelled

The full list with reasons is under `components` in `PROJECT.json`. In short:

* within the modelled files: failing device writes (the code logs them, or aborts);
  power failures that reorder or tear page writes of the logs; a relaxed close of a
  bracket on a shard without flush log, which is not awaited; weakly ordered memory;
  the recovery of the flush log from NVRAM and on the VDC shard;
  `log_sync`'s writes of partly filled buffers together with the flush log; the
  updater for non-Storm mode, and with it the later passes over a log that the filters
  allow for; the limits on brackets and on records per bracket (`mcd_rec.c:4571`); a
  damaged slab that has been freed and reused while its record is in the ring; the
  rebuild of slab classes at start; allocation of several slabs at once; eviction and
  cache mode of the flash shard; raw objects;
* of the action node: enumeration, prefix deletion, expiry, remote requests, objects
  of several sizes, failing flash operations;
* the B-tree library and the container API: too large for a small model to be faithful
  to;
* replication, messaging, the older flash back ends: not in use in the library;
* platform, threading, licence, tools: wrappers, pure I/O or sequential code.

## 7. What could come next

In the order of what they would show:

1. `FlogRecover` with the filters and transactions of `RecLog`, and as a refinement of
   one abstract log that survives crashes; a proof of `AckedRecovered`.
2. Proofs: `CacheCoherent` and `NoClash` for `WriteCache`, `RecoveredPrefix` for
   `RecLog`; a refinement of `SlabReuse`'s `free` by `SlabAlloc`.
3. `SlabAlloc` with recovery of the classes and the slab bitmap (`mcd_rec2.c`
   492–576, 1446–1497), and with `TrxTable` for `dealloc_pending` across a rollback.
4. `api/nvr_svc.c` as a second implementation of `StableLog`; the non-Storm updater
   (`mcd_rec.c` 6326–6803) as a second updater of `RecLog`.
5. `btree/trx.c` and `btree/btree_sync_th.c`; `protocol/replication/key_lock.c`;
   `api/cmap.c` and `api/fdf_tlmap.c`; `ssd/fifo/hash.c`.
