---------------------------- MODULE GroupCommit ----------------------------
(***************************************************************************)
(* Group commit of the flush log (ssd/fifo/mcd_rec.c, the mlog_* family).  *)
(*                                                                         *)
(* A thread that writes log records (log_write, mcd_trx_commit_internal)   *)
(* appends them to the current in-memory buffer while it holds             *)
(* sync_fill_lock, releases the lock, and calls mlog_sync for its last     *)
(* record.  In mlog_sync one thread at a time becomes the flusher: it      *)
(* switches the current buffer, writes the old one to the flush-log file   *)
(* and publishes synced_lsn; the others sleep on sync_cond.  A writer that *)
(* meets a full buffer calls mlog_sync with the lock held and tries again. *)
(*                                                                         *)
(* A record is represented by its mlog number.  One critical section of    *)
(* the code is one action; the unlocked read of synced_lsn and every       *)
(* single pwrite are actions of their own.                                 *)
(***************************************************************************)
EXTENDS Integers, Sequences

CONSTANTS
    Threads,    \* threads that use the shard
    NoThread,   \* owner of a free lock
    NBufs,      \* MLOG_N_BUFS
    BufRecs,    \* MLOG_BUF_N_RECS
    MaxTrx,     \* bound: records of one transaction
    MaxLsn      \* bound: records ever written

ASSUME MlogAssumption ==
    /\ NoThread \notin Threads
    /\ NBufs \in Nat /\ NBufs >= 2
    /\ BufRecs \in Nat \ {0}
    /\ MaxTrx \in Nat
    /\ MaxLsn \in Nat

VARIABLES
    fill_lock,  \* owner of log->sync_fill_lock
    bufs,       \* mlog.bufs: the records of each buffer
    cur_buf,    \* mlog.cur_buf
    lsn,        \* mlog.lsn: last number given out
    synced_lsn, \* mlog.synced_lsn
    in_sync,    \* mlog.in_sync
    full,       \* numbers of the records with mlo_dl = SDF_FULL_DURABILITY
    written,    \* records in the flush-log file
    stable,     \* records in the file at its last fdatasync
    acked,      \* records whose call has returned
    pc,         \* where each thread is
    left,       \* records the thread still has to append
    mine,       \* records of the thread's call
    want,       \* mlog_sync's argument lsn
    sync,       \* mlog_sync's argument sync
    buf,        \* mlog_sync's local buf (its index)
    snap,       \* mlog_sync's local synced_lsn
    idx         \* mlog_sync's local i

mlog == <<fill_lock, bufs, cur_buf, lsn, synced_lsn, in_sync>>
file == <<full, written, stable, acked>>
call == <<left, mine, want, sync>>
flush == <<buf, snap, idx>>
vars == <<mlog, file, pc, call, flush>>

PCs == {"idle", "append", "check", "enter", "wait", "swap", "persist",
        "fsync", "finish", "return"}

BufIds == 0 .. (NBufs - 1)

Goto(t, l) == pc' = [pc EXCEPT ![t] = l]

(* The flusher's locals are dead when mlog_sync returns.                    *)
Forget(t) ==
    /\ buf' = [buf EXCEPT ![t] = 0]
    /\ snap' = [snap EXCEPT ![t] = 0]
    /\ idx' = [idx EXCEPT ![t] = 0]

mlog_init ==
    /\ fill_lock = NoThread
    /\ bufs = [b \in BufIds |-> <<>>]
    /\ cur_buf = 0
    /\ lsn = 0
    /\ synced_lsn = 0
    /\ in_sync = FALSE

Init ==
    /\ mlog_init
    /\ full = {} /\ written = {} /\ stable = {} /\ acked = {}
    /\ pc = [t \in Threads |-> "idle"]
    /\ left = [t \in Threads |-> 0]
    /\ mine = [t \in Threads |-> {}]
    /\ want = [t \in Threads |-> 0]
    /\ sync = [t \in Threads |-> FALSE]
    /\ buf = [t \in Threads |-> 0]
    /\ snap = [t \in Threads |-> 0]
    /\ idx = [t \in Threads |-> 0]

(* log_write (n = 1) or mcd_trx_commit_internal (n records) gets            *)
(* sync_fill_lock.                                                          *)
StartWrite(t, n) ==
    /\ pc[t] = "idle"
    /\ fill_lock = NoThread
    /\ lsn + n <= MaxLsn
    /\ fill_lock' = t
    /\ left' = [left EXCEPT ![t] = n]
    /\ mine' = [mine EXCEPT ![t] = {}]
    /\ sync' = [sync EXCEPT ![t] = FALSE]
    /\ Goto(t, "append")
    /\ UNCHANGED <<bufs, cur_buf, lsn, synced_lsn, in_sync, file, want, flush>>

(* log_sync gets sync_fill_lock and syncs everything written so far.        *)
StartLogSync(t) ==
    /\ pc[t] = "idle"
    /\ fill_lock = NoThread
    /\ fill_lock' = t
    /\ left' = [left EXCEPT ![t] = 0]
    /\ mine' = [mine EXCEPT ![t] = 1 .. lsn]
    /\ want' = [want EXCEPT ![t] = lsn]
    /\ sync' = [sync EXCEPT ![t] = TRUE]
    /\ Goto(t, "check")
    /\ UNCHANGED <<bufs, cur_buf, lsn, synced_lsn, in_sync, file, flush>>

(* mlog_ensure_space finds the buffer full: mlog_sync(log->lsn, 0), with    *)
(* sync_fill_lock held.  The argument sync of the call's own mlog_sync is   *)
(* kept: it is recomputed from the records when they are all appended.      *)
EnsureSpace(t) ==
    /\ pc[t] = "append"
    /\ Len(bufs[cur_buf]) >= BufRecs
    /\ want' = [want EXCEPT ![t] = lsn]
    /\ sync' = [sync EXCEPT ![t] = FALSE]
    /\ Goto(t, "check")
    /\ UNCHANGED <<mlog, file, left, mine, flush>>

(* mlog_buf: append one record, of full durability or not, and give it the  *)
(* next number.  After the last one the lock is released and mlog_sync is   *)
(* called for it, with sync set when a record of the call has full          *)
(* durability.                                                              *)
MlogBuf(t, f) ==
    LET r == lsn + 1
        all == mine[t] \cup {r}
        fulls == IF f THEN full \cup {r} ELSE full
        last == left[t] = 1
    IN  /\ pc[t] = "append"
        /\ Len(bufs[cur_buf]) < BufRecs
        /\ bufs' = [bufs EXCEPT ![cur_buf] = Append(@, r)]
        /\ lsn' = r
        /\ full' = fulls
        /\ left' = [left EXCEPT ![t] = @ - 1]
        /\ mine' = [mine EXCEPT ![t] = all]
        /\ want' = [want EXCEPT ![t] = r]
        /\ sync' = [sync EXCEPT ![t] = IF all \cap fulls # {} THEN TRUE ELSE FALSE]
        /\ fill_lock' = IF last THEN NoThread ELSE t
        /\ Goto(t, IF last THEN "check" ELSE "append")
        /\ UNCHANGED <<cur_buf, synced_lsn, in_sync, written, stable, acked, flush>>

(* mlog_sync: the first test of synced_lsn, outside sync_mutex.             *)
Check(t) ==
    /\ pc[t] = "check"
    /\ Goto(t, IF synced_lsn >= want[t] THEN "return" ELSE "enter")
    /\ UNCHANGED <<mlog, file, call, flush>>

(* mlog_sync, under sync_mutex: already synced, or wait for the flusher, or *)
(* become the flusher.                                                      *)
EnterDone(t) ==
    /\ pc[t] = "enter"
    /\ synced_lsn >= want[t]
    /\ Goto(t, "return")
    /\ UNCHANGED <<mlog, file, call, flush>>

EnterWait(t) ==
    /\ pc[t] = "enter"
    /\ synced_lsn < want[t]
    /\ in_sync
    /\ Goto(t, "wait")
    /\ UNCHANGED <<mlog, file, call, flush>>

EnterFlush(t) ==
    /\ pc[t] = "enter"
    /\ synced_lsn < want[t]
    /\ ~ in_sync
    /\ in_sync' = TRUE
    /\ Goto(t, "swap")
    /\ UNCHANGED <<fill_lock, bufs, cur_buf, lsn, synced_lsn, file, call, flush>>

(* Mutant of Swap: the buffer is taken but the next one does not become     *)
(* current.                                                                 *)
SwapSameBuf(t) ==
    /\ pc[t] = "swap"
    /\ buf' = [buf EXCEPT ![t] = cur_buf]
    /\ snap' = [snap EXCEPT ![t] = lsn]
    /\ idx' = [idx EXCEPT ![t] = 0]
    /\ Goto(t, "persist")
    /\ UNCHANGED <<fill_lock, bufs, cur_buf, lsn, synced_lsn, in_sync, file, call>>

(* mlog_sync, under mutex: take the current buffer, switch to the next one  *)
(* and remember the number of the last record in it.                        *)
Swap(t) ==
    /\ pc[t] = "swap"
    /\ buf' = [buf EXCEPT ![t] = cur_buf]
    /\ cur_buf' = (cur_buf + 1) % NBufs
    /\ snap' = [snap EXCEPT ![t] = lsn]
    /\ idx' = [idx EXCEPT ![t] = 0]
    /\ Goto(t, "persist")
    /\ UNCHANGED <<fill_lock, bufs, lsn, synced_lsn, in_sync, file, call>>

(* Mutant of PersistRecord: durability of the record is not looked at.      *)
PersistNoSync(t) ==
    /\ pc[t] = "persist"
    /\ idx[t] < Len(bufs[buf[t]])
    /\ written' = written \cup {bufs[buf[t]][idx[t] + 1]}
    /\ idx' = [idx EXCEPT ![t] = @ + 1]
    /\ UNCHANGED <<mlog, full, stable, acked, pc, call, buf, snap>>

(* mlog_sync: flog_persist of one record; a record of full durability makes *)
(* the flush end with an fdatasync.                                         *)
PersistRecord(t) ==
    LET r == bufs[buf[t]][idx[t] + 1]
    IN  /\ pc[t] = "persist"
        /\ idx[t] < Len(bufs[buf[t]])
        /\ written' = written \cup {r}
        /\ sync' = IF r \in full THEN [sync EXCEPT ![t] = TRUE] ELSE sync
        /\ idx' = [idx EXCEPT ![t] = @ + 1]
        /\ UNCHANGED <<mlog, full, stable, acked, pc, left, mine, want, buf, snap>>

PersistEnd(t) ==
    /\ pc[t] = "persist"
    /\ idx[t] = Len(bufs[buf[t]])
    /\ Goto(t, IF sync[t] THEN "fsync" ELSE "finish")
    /\ UNCHANGED <<mlog, file, call, flush>>

(* flog_fdatasync of the whole file.                                        *)
Fsync(t) ==
    /\ pc[t] = "fsync"
    /\ stable' = written
    /\ Goto(t, "finish")
    /\ UNCHANGED <<mlog, full, written, acked, call, flush>>

(* Mutant of Finish: log->lsn is read again instead of the value taken when *)
(* the buffer was switched.                                                 *)
FinishLateSnap(t) ==
    /\ pc[t] = "finish"
    /\ synced_lsn' = lsn
    /\ in_sync' = FALSE
    /\ bufs' = [bufs EXCEPT ![buf[t]] = <<>>]
    /\ pc' = [u \in Threads |-> IF u = t THEN "return"
                                ELSE IF pc[u] = "wait" THEN "enter"
                                ELSE pc[u]]
    /\ Forget(t)
    /\ UNCHANGED <<fill_lock, cur_buf, lsn, file, call>>

(* Mutant of Finish: only one sleeper is woken (signal, not broadcast).     *)
FinishSignal(t) ==
    /\ pc[t] = "finish"
    /\ synced_lsn' = snap[t]
    /\ in_sync' = FALSE
    /\ bufs' = [bufs EXCEPT ![buf[t]] = <<>>]
    /\ LET asleep == {u \in Threads : pc[u] = "wait"}
       IN  \E w \in IF asleep = {} THEN {t} ELSE asleep :
               pc' = [u \in Threads |-> IF u = t THEN "return"
                                        ELSE IF u = w THEN "enter"
                                        ELSE pc[u]]
    /\ Forget(t)
    /\ UNCHANGED <<fill_lock, cur_buf, lsn, file, call>>

(* mlog_sync, under sync_mutex: publish, empty the buffer, wake everyone.   *)
Finish(t) ==
    /\ pc[t] = "finish"
    /\ synced_lsn' = snap[t]
    /\ in_sync' = FALSE
    /\ bufs' = [bufs EXCEPT ![buf[t]] = <<>>]
    /\ pc' = [u \in Threads |-> IF u = t THEN "return"
                                ELSE IF pc[u] = "wait" THEN "enter"
                                ELSE pc[u]]
    /\ Forget(t)
    /\ UNCHANGED <<fill_lock, cur_buf, lsn, file, call>>

(* mlog_sync returns to mlog_ensure_space, which looks at the buffer again. *)
ReturnSpace(t) ==
    /\ pc[t] = "return"
    /\ left[t] > 0
    /\ Goto(t, "append")
    /\ UNCHANGED <<mlog, file, call, flush>>

(* mlog_sync was the last thing the call did; log_sync releases the lock it *)
(* kept.                                                                    *)
ReturnCall(t) ==
    /\ pc[t] = "return"
    /\ left[t] = 0
    /\ fill_lock' = IF fill_lock = t THEN NoThread ELSE fill_lock
    /\ acked' = acked \cup mine[t]
    /\ mine' = [mine EXCEPT ![t] = {}]
    /\ want' = [want EXCEPT ![t] = 0]
    /\ sync' = [sync EXCEPT ![t] = FALSE]
    /\ Goto(t, "idle")
    /\ UNCHANGED <<bufs, cur_buf, lsn, synced_lsn, in_sync, full, written,
                   stable, left, flush>>

(* What a thread does once it has started a call.                           *)
Step(t) ==
    \/ EnsureSpace(t)
    \/ \E f \in BOOLEAN : MlogBuf(t, f)
    \/ Check(t)
    \/ EnterDone(t)
    \/ EnterWait(t)
    \/ EnterFlush(t)
    \/ Swap(t)
    \/ PersistRecord(t)
    \/ PersistEnd(t)
    \/ Fsync(t)
    \/ Finish(t)
    \/ ReturnSpace(t)
    \/ ReturnCall(t)

Next ==
    \E t \in Threads :
        \/ \E n \in 1 .. MaxTrx : StartWrite(t, n)
        \/ StartLogSync(t)
        \/ Step(t)

Spec == Init /\ [][Next]_vars

(* Every runnable thread is scheduled; a mutex section always ends.         *)
FairSpec == Spec /\ \A t \in Threads : WF_vars(Step(t))

-----------------------------------------------------------------------------

Flushing(t) == pc[t] \in {"swap", "persist", "fsync", "finish"}
HasBuf(t) == pc[t] \in {"persist", "fsync", "finish"}

(* The buffer content s is exactly the records a + 1, ..., b in order.      *)
IsRun(s, a, b) ==
    /\ Len(s) = b - a
    /\ \A i \in 1 .. Len(s) : s[i] = a + i

TypeMlog ==
    /\ fill_lock \in Threads \cup {NoThread}
    /\ bufs \in [BufIds -> Seq(Nat)]
    /\ cur_buf \in BufIds
    /\ lsn \in Nat
    /\ synced_lsn \in Nat
    /\ in_sync \in BOOLEAN

TypeCall ==
    /\ pc \in [Threads -> PCs]
    /\ left \in [Threads -> Nat]
    /\ want \in [Threads -> Nat]
    /\ sync \in [Threads -> BOOLEAN]
    /\ buf \in [Threads -> BufIds]
    /\ snap \in [Threads -> Nat]
    /\ idx \in [Threads -> Nat]

TypeFile ==
    /\ full \subseteq Nat
    /\ written \subseteq Nat
    /\ stable \subseteq Nat
    /\ acked \subseteq Nat
    /\ mine \in [Threads -> SUBSET Nat]

(* Every variable of the mlog and of its callers has its type.              *)
TypeOK == TypeMlog /\ TypeCall /\ TypeFile

(* mlog_sync hands the file to one thread at a time: in_sync is set while   *)
(* somebody flushes, and nobody flushes beside it.                          *)
OneFlusher ==
    /\ \A t \in Threads : Flushing(t) => in_sync
    /\ \A t, u \in Threads : Flushing(t) /\ Flushing(u) => t = u

(* sync_fill_lock is held by a thread that has records left to append, also *)
(* while it waits in mlog_sync for room.                                    *)
FillLockHeld ==
    \A t \in Threads :
        /\ pc[t] = "append" => left[t] > 0
        /\ pc[t] # "idle" /\ left[t] > 0 => fill_lock = t

FlushRuns(t) ==
    /\ buf[t] # cur_buf
    /\ synced_lsn <= snap[t] /\ snap[t] <= lsn
    /\ want[t] <= snap[t]
    /\ IsRun(bufs[buf[t]], synced_lsn, snap[t])
    /\ IsRun(bufs[cur_buf], snap[t], lsn)
    /\ \A b \in BufIds \ {buf[t], cur_buf} : bufs[b] = <<>>

(* The two buffers in use hold consecutive runs of records: the one being   *)
(* flushed goes on from synced_lsn to the flusher's snapshot, the current   *)
(* one from there to lsn.  All others are empty, so that mlog_sync never    *)
(* makes a buffer current that still has records in it.                     *)
BufferRuns ==
    /\ synced_lsn <= lsn
    /\ (\A t \in Threads : ~ HasBuf(t)) =>
           /\ IsRun(bufs[cur_buf], synced_lsn, lsn)
           /\ \A b \in BufIds \ {cur_buf} : bufs[b] = <<>>
    /\ \A t \in Threads : HasBuf(t) => FlushRuns(t)

(* The file holds what has been published plus what the flusher has written *)
(* of its buffer.                                                           *)
FileRun ==
    /\ (\A t \in Threads : ~ HasBuf(t)) => written = 1 .. synced_lsn
    /\ \A t \in Threads : HasBuf(t) =>
           /\ written = 1 .. (synced_lsn + idx[t])
           /\ idx[t] <= Len(bufs[buf[t]])
           /\ pc[t] # "persist" => idx[t] = Len(bufs[buf[t]])

(* Records of full durability are stable once published, and before that    *)
(* unless the flusher is going to sync.                                     *)
FullRun ==
    /\ full \subseteq 1 .. lsn
    /\ stable \subseteq written
    /\ (full \cap 1 .. synced_lsn) \subseteq stable
    /\ \A t \in Threads : HasBuf(t) /\ (pc[t] = "finish" \/ ~ sync[t]) =>
           (full \cap written) \subseteq stable

(* What a call waits for covers its records, and it returns only when that  *)
(* has been published.                                                      *)
CallRun ==
    /\ acked \subseteq 1 .. synced_lsn
    /\ \A t \in Threads :
           /\ want[t] <= lsn
           /\ mine[t] \subseteq 1 .. lsn
           /\ pc[t] \notin {"idle", "append"} /\ left[t] = 0 => mine[t] \subseteq 1 .. want[t]
           /\ pc[t] = "return" => want[t] <= synced_lsn

(* The inductive invariant of the group commit: it relates the buffers, the *)
(* published number, the file and the flusher's locals.                     *)
IInv ==
    /\ TypeOK
    /\ OneFlusher
    /\ FillLockHeld
    /\ BufferRuns
    /\ FileRun
    /\ FullRun
    /\ CallRun

(* When log_write or the commit of a transaction returns, its records are   *)
(* in the flush-log file, and those of full durability are in the synced    *)
(* file, whichever thread flushed them.                                     *)
AckedDurable ==
    /\ acked \subseteq written
    /\ (acked \cap full) \subseteq stable

(* At no moment has the file a hole: recovery (fbio_commit) stops at the    *)
(* first missing record and would drop everything behind it.                *)
NoHole == \E k \in 0 .. lsn : written = 1 .. k

(* Group commit implements the log it promises to be.                       *)
Promise == INSTANCE StableLog WITH len <- lsn

(* Every step of the group commit is a step the stable log allows.          *)
Refines == Promise!Spec

(* No call is lost in mlog_sync: whoever starts a write or a sync returns,  *)
(* also when it has to flush for others or wait for a flusher.              *)
CallsReturn == \A t \in Threads : pc[t] # "idle" ~> pc[t] = "idle"
=============================================================================
