------------------------------ MODULE DataSync ------------------------------
(***************************************************************************)
(* Shared fdatasync of the flash file (ssd/fifo/mcd_aio.c,                 *)
(* mcd_fth_aio_blk_write_low), and the unaligned path beside it            *)
(* (mcd_aio_write_unaligned, mcd_aio_read_unaligned).                      *)
(*                                                                         *)
(* A synchronous write of whole blocks (object data, the object table, the *)
(* log) ends with an fdatasync of the one flash file.  A writer may rely on *)
(* the fdatasync of another: it notes sync_counter after its pwrite, and   *)
(* calls fdatasync only if, once it owns flush_lock, the counter has not   *)
(* moved.  The counter moves BEFORE the fdatasync it announces, and it is  *)
(* read twice without the lock.                                            *)
(*                                                                         *)
(* What the device holds is reduced to whether the last write of each      *)
(* thread has reached it.  An fdatasync makes stable the writes that had   *)
(* been made when it began; it is taken to succeed, since its result is    *)
(* not looked at by the code.                                              *)
(*                                                                         *)
(* A request in the first segment of the file that is not made of whole    *)
(* blocks takes another path: it is served block by block through a static *)
(* buffer under _meta_mutex.  That path never calls fdatasync, whatever    *)
(* sync says, and it returns from an I/O error without unlocking.          *)
(***************************************************************************)
EXTENDS Integers

CONSTANTS
    Threads,    \* threads that write to the flash file
    NoThread,   \* owner of a free lock
    MaxCounter, \* bound: value of sync_counter
    MaxUnaligned \* bound: calls that take the unaligned path

ASSUME SyncAssumption ==
    NoThread \notin Threads /\ MaxCounter \in Nat /\ MaxUnaligned \in Nat

VARIABLES
    sync_counter, \* static sync_counter
    flush_lock,   \* owner of flush_lock
    meta_mutex,   \* owner of _meta_mutex
    n_unaligned,  \* calls so far that took the unaligned path
    pc,           \* where each thread is
    kind,         \* what the thread's call is, or was while it is in acked
    sync,         \* argument sync of the thread's call
    sync_tag,     \* local sync_tag
    snap,         \* writes that the thread's fdatasync will make stable
    stable,       \* threads whose last write is on the device
    acked         \* threads whose last call was synchronous and returned EOK

meta == <<meta_mutex, n_unaligned, kind>>
vars == <<sync_counter, flush_lock, meta, pc, sync, sync_tag, snap, stable, acked>>

PCs == {"idle", "write", "tag", "check", "lock", "test", "sync", "syncing",
        "unlock", "meta", "unaligned"}
(* A write of whole blocks; an unaligned write, or read (with sync FALSE). *)
Kinds == {"blocks", "unaligned"}
Holding == {"test", "sync", "syncing", "unlock"}

Goto(t, l) == pc' = [pc EXCEPT ![t] = l]

(* The call of t returns FLASH_EOK (ok) or an error.  Its arguments and    *)
(* locals end with it.                                                     *)
Return(t, ok) ==
    /\ Goto(t, "idle")
    /\ IF ok /\ sync[t]
       THEN acked' = acked \cup {t} /\ UNCHANGED kind
       ELSE kind' = [kind EXCEPT ![t] = "blocks"] /\ UNCHANGED acked
    /\ sync' = [sync EXCEPT ![t] = FALSE]
    /\ sync_tag' = [sync_tag EXCEPT ![t] = 0]

Init ==
    /\ sync_counter = 0
    /\ flush_lock = NoThread
    /\ meta_mutex = NoThread
    /\ n_unaligned = 0
    /\ kind = [t \in Threads |-> "blocks"]
    /\ pc = [t \in Threads |-> "idle"]
    /\ sync = [t \in Threads |-> FALSE]
    /\ sync_tag = [t \in Threads |-> 0]
    /\ snap = [t \in Threads |-> {}]
    /\ stable = {}
    /\ acked = {}

(* A call of kind k with the argument sync = s. *)
Call(t, s, k) ==
    /\ pc[t] = "idle"
    /\ s => sync_counter < MaxCounter
    /\ IF k = "blocks"
       THEN Goto(t, "write") /\ UNCHANGED n_unaligned
       ELSE /\ n_unaligned < MaxUnaligned
            /\ n_unaligned' = n_unaligned + 1
            /\ Goto(t, "meta")
    /\ kind' = [kind EXCEPT ![t] = k]
    /\ sync' = [sync EXCEPT ![t] = s]
    /\ acked' = acked \ {t}
    /\ UNCHANGED <<sync_counter, flush_lock, meta_mutex, sync_tag, snap, stable>>

(* A call whose buffer or offset is not a multiple of 512, or that goes    *)
(* beyond the end of the file: FLASH_EINVAL.                               *)
Refused(t) ==
    /\ pc[t] = "idle"
    /\ acked' = acked \ {t}
    /\ kind' = [kind EXCEPT ![t] = "blocks"]
    /\ UNCHANGED <<sync_counter, flush_lock, meta_mutex, n_unaligned, pc, sync,
                   sync_tag, snap, stable>>

(* pthread_mutex_lock(&_meta_mutex). *)
MetaLock(t) ==
    /\ pc[t] = "meta"
    /\ meta_mutex = NoThread
    /\ meta_mutex' = t
    /\ Goto(t, "unaligned")
    /\ UNCHANGED <<sync_counter, flush_lock, n_unaligned, kind, sync, sync_tag,
                   snap, stable, acked>>

(* The pwrites of an unaligned write: as for a write of whole blocks, the  *)
(* data is in the page cache only.                                         *)
PwritePieces(t) ==
    /\ stable' = stable \ {t}
    /\ snap' = [u \in Threads |-> snap[u] \ {t}]

(* All pieces are read or written: unlock, FLASH_EOK.  Nothing is synced.  *)
UnalignedDone(t) ==
    /\ pc[t] = "unaligned"
    /\ PwritePieces(t) \/ (~sync[t] /\ UNCHANGED <<stable, snap>>)
    /\ meta_mutex' = NoThread
    /\ Return(t, TRUE)
    /\ UNCHANGED <<sync_counter, flush_lock, n_unaligned>>

(* A pread or pwrite of a piece is short: FLASH_EIO, and _meta_mutex stays *)
(* locked.  Earlier pieces of a write, if any, have been made.             *)
UnalignedFails(t) ==
    /\ pc[t] = "unaligned"
    /\ PwritePieces(t) \/ UNCHANGED <<stable, snap>>
    /\ Return(t, FALSE)
    /\ UNCHANGED <<sync_counter, flush_lock, meta_mutex, n_unaligned>>

(* The pwrite: the data is in the page cache, later than any fdatasync     *)
(* that has begun.                                                         *)
Pwrite(t) ==
    /\ pc[t] = "write"
    /\ stable' = stable \ {t}
    /\ snap' = [u \in Threads |-> snap[u] \ {t}]
    /\ Goto(t, "tag")
    /\ UNCHANGED <<sync_counter, flush_lock, meta, sync, sync_tag, acked>>

(* The pwrite is short: FLASH_EIO. *)
PwriteFails(t) ==
    /\ pc[t] = "write"
    /\ Return(t, FALSE)
    /\ UNCHANGED <<sync_counter, flush_lock, meta_mutex, n_unaligned, snap, stable>>

(* sync_tag = sync_counter; an asynchronous write is done. *)
ReadTag(t) ==
    /\ pc[t] = "tag"
    /\ IF sync[t]
       THEN /\ sync_tag' = [sync_tag EXCEPT ![t] = sync_counter]
            /\ Goto(t, "check")
            /\ UNCHANGED <<kind, sync, acked>>
       ELSE Return(t, TRUE)
    /\ UNCHANGED <<sync_counter, flush_lock, meta_mutex, n_unaligned, snap, stable>>

(* Mutant of Check: one announced fdatasync is taken for enough. *)
CheckNoSlack(t) ==
    /\ pc[t] = "check"
    /\ IF sync_counter <= sync_tag[t]
       THEN Goto(t, "lock") /\ UNCHANGED <<kind, sync, sync_tag, acked>>
       ELSE Return(t, TRUE)
    /\ UNCHANGED <<sync_counter, flush_lock, meta_mutex, n_unaligned, snap, stable>>

(* The second unlocked read: two announced fdatasyncs are enough to return *)
(* at once.                                                                *)
Check(t) ==
    /\ pc[t] = "check"
    /\ IF sync_counter <= sync_tag[t] + 1
       THEN Goto(t, "lock") /\ UNCHANGED <<kind, sync, sync_tag, acked>>
       ELSE Return(t, TRUE)
    /\ UNCHANGED <<sync_counter, flush_lock, meta_mutex, n_unaligned, snap, stable>>

(* Mutant of Lock: the lock does not exclude. *)
LockShared(t) ==
    /\ pc[t] = "lock"
    /\ flush_lock' = t
    /\ Goto(t, "test")
    /\ UNCHANGED <<sync_counter, meta, sync, sync_tag, snap, stable, acked>>

(* pthread_rwlock_wrlock. *)
Lock(t) ==
    /\ pc[t] = "lock"
    /\ flush_lock = NoThread
    /\ flush_lock' = t
    /\ Goto(t, "test")
    /\ UNCHANGED <<sync_counter, meta, sync, sync_tag, snap, stable, acked>>

(* Mutant of Test: the thread waits for the counter to come back to its tag. *)
TestSpins(t) ==
    /\ pc[t] = "test"
    /\ IF sync_counter = sync_tag[t]
       THEN sync_counter' = sync_counter + 1 /\ Goto(t, "sync")
       ELSE UNCHANGED <<sync_counter, pc>>
    /\ UNCHANGED <<flush_lock, meta, sync, sync_tag, snap, stable, acked>>

(* Nobody announced an fdatasync since the tag: announce one. *)
Test(t) ==
    /\ pc[t] = "test"
    /\ IF sync_counter = sync_tag[t]
       THEN sync_counter' = sync_counter + 1 /\ Goto(t, "sync")
       ELSE UNCHANGED sync_counter /\ Goto(t, "unlock")
    /\ UNCHANGED <<flush_lock, meta, sync, sync_tag, snap, stable, acked>>

(* The fdatasync begins: it covers the writes already made. *)
BeginSync(t) ==
    /\ pc[t] = "sync"
    /\ snap' = [snap EXCEPT ![t] = Threads]
    /\ Goto(t, "syncing")
    /\ UNCHANGED <<sync_counter, flush_lock, meta, sync, sync_tag, stable, acked>>

EndSync(t) ==
    /\ pc[t] = "syncing"
    /\ stable' = stable \cup snap[t]
    /\ snap' = [snap EXCEPT ![t] = {}]
    /\ Goto(t, "unlock")
    /\ UNCHANGED <<sync_counter, flush_lock, meta, sync, sync_tag, acked>>

Unlock(t) ==
    /\ pc[t] = "unlock"
    /\ flush_lock' = NoThread
    /\ Return(t, TRUE)
    /\ UNCHANGED <<sync_counter, meta_mutex, n_unaligned, snap, stable>>

Step(t) ==
    \/ Pwrite(t) \/ PwriteFails(t) \/ ReadTag(t) \/ Check(t) \/ Lock(t)
    \/ Test(t) \/ BeginSync(t) \/ EndSync(t) \/ Unlock(t)
    \/ MetaLock(t) \/ UnalignedDone(t) \/ UnalignedFails(t)

Next ==
    \E t \in Threads :
        \/ Step(t)
        \/ Refused(t)
        \/ \E s \in BOOLEAN, k \in Kinds : Call(t, s, k)

Spec == Init /\ [][Next]_vars

(* A thread inside the call is scheduled again and again.  Nothing is      *)
(* assumed of the order in which the locks are granted: MaxCounter bounds  *)
(* the synchronous calls and MaxUnaligned the unaligned ones, so a waiting *)
(* thread cannot be overtaken for ever.                                    *)
FairSpec == Spec /\ \A t \in Threads : WF_vars(Step(t))

-----------------------------------------------------------------------------
TypeOK ==
    /\ sync_counter \in Nat
    /\ flush_lock \in Threads \cup {NoThread}
    /\ meta_mutex \in Threads \cup {NoThread}
    /\ n_unaligned \in Nat
    /\ kind \in [Threads -> Kinds]
    /\ pc \in [Threads -> PCs]
    /\ sync \in [Threads -> BOOLEAN]
    /\ sync_tag \in [Threads -> Nat]
    /\ snap \in [Threads -> SUBSET Threads]
    /\ stable \subseteq Threads
    /\ acked \subseteq Threads

(* flush_lock is owned by the thread between its wrlock and its unlock,    *)
(* and whoever uses the static buffer of the unaligned path owns           *)
(* _meta_mutex.                                                            *)
LockOwner ==
    \A t \in Threads : /\ pc[t] \in Holding <=> flush_lock = t
                       /\ pc[t] = "unaligned" => meta_mutex = t

(* The write of t is stable, or an fdatasync that will make it so has been *)
(* announced and has not ended.                                            *)
Covered(t) ==
    \/ t \in stable
    \/ \E u \in Threads : \/ pc[u] = "sync"
                          \/ pc[u] = "syncing" /\ t \in snap[u]

(* What the counter tells a thread that has read its tag. *)
TagMeaning ==
    \A t \in Threads : pc[t] \in {"check", "lock", "test"} =>
        /\ sync_tag[t] <= sync_counter
        /\ sync_counter > sync_tag[t] => Covered(t)
        /\ sync_counter > sync_tag[t] + 1 => t \in stable

(* A thread that syncs for itself covers its own write, the unaligned path *)
(* is taken by unaligned calls only, and acked is about calls that have    *)
(* returned.                                                               *)
OwnSync ==
    \A t \in Threads :
        /\ pc[t] = "syncing" => t \in snap[t]
        /\ pc[t] = "unlock" => t \in stable
        /\ pc[t] \in {"meta", "unaligned"} => kind[t] = "unaligned"
        /\ t \in acked => pc[t] = "idle"

(* mcd_fth_aio_blk_write_low with sync set returns FLASH_EOK for a write   *)
(* of whole blocks only when its data is on the device, whoever called     *)
(* fdatasync: also when the call skipped the lock because of the counter,  *)
(* when the fdatasync it relies on was announced by another thread, and    *)
(* whatever the unaligned calls do meanwhile.  The unaligned path is left  *)
(* out of the promise because the code does not keep it there: it returns  *)
(* FLASH_EOK to a synchronous caller with the data in the page cache.      *)
SyncedIsStable == \A t \in acked : kind[t] = "blocks" => t \in stable

(* The inductive invariant of the proofs: the ownership of flush_lock and  *)
(* the meaning of the counter that justify SyncedIsStable.                 *)
IInv == TypeOK /\ LockOwner /\ TagMeaning /\ OwnSync /\ SyncedIsStable

(* _meta_mutex was left locked by a call that returned an I/O error. *)
Leaked == meta_mutex \in Threads /\ pc[meta_mutex] # "unaligned"

(* Every call returns, also when it waits for flush_lock or for the mutex, *)
(* except an unaligned one that comes after an I/O error of another: it    *)
(* waits for _meta_mutex, which nobody will unlock.  Aligned calls return  *)
(* even then.                                                              *)
CallsReturn ==
    \A t \in Threads :
        []<>(pc[t] = "idle" \/ (pc[t] = "meta" /\ Leaked))
=============================================================================
