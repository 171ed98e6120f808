------------------------------ MODULE TrxTable ------------------------------
(***************************************************************************)
(* Object transactions (ssd/fifo/mcd_rec.c, the mcd_trx_* family) over the *)
(* hash table of a shard (ssd/fifo/mcd_osd.c).                             *)
(*                                                                         *)
(* A thread is associated with at most one transaction, by its ID.  A      *)
(* change to an object goes to the hash table at once; its log record is   *)
(* kept in the transaction (trx_in_progress), or logged if the thread has  *)
(* none.  The thread that removes the transaction from trxtable concludes  *)
(* it: commit logs the records in one go, rollback undoes them backwards.  *)
(*                                                                         *)
(* A section under a bucket's mutex is one action, and so is an object     *)
(* operation, which holds the lock of its hash bucket throughout.  Slab    *)
(* blocks are numbered and never used twice.                               *)
(***************************************************************************)
EXTENDS Integers, Sequences

CONSTANTS
    Threads, Shards, Keys,
    NoThread,   \* owner of a free sync_fill_lock, shard of a new transaction
    NBuckets,   \* nel(trxtable)
    TrxBuf,     \* nel(trtab0)
    Grow,       \* growth factor of a transaction's buffer
    TrxLimit,   \* TRX_LIMIT
    BlkSlots,   \* MCD_REC_LOG_BLK_SLOTS
    TotalSlots, \* log->total_slots
    MaxCalls    \* bound: calls of all threads

ASSUME TrxAssumption ==
    /\ NoThread \notin Threads \cup Shards
    /\ NBuckets \in Nat \ {0}
    /\ TrxBuf \in Nat \ {0} /\ TrxLimit \in Nat /\ TrxBuf < TrxLimit
    /\ Grow \in Nat /\ Grow > 1
    /\ BlkSlots \in Nat /\ BlkSlots > 1
    /\ TotalSlots \in Nat /\ TotalSlots % BlkSlots = 0
       \* mcd_rec2_log_size: a log is far larger than any transaction
    /\ TrxLimit + 2 * (TotalSlots \div BlkSlots) <= TotalSlots
    /\ MaxCalls \in Nat

VARIABLES
    trxid,      \* the thread-local ID, 0 for none
    next_trx_id,
    trxtable,   \* the transactions linked into the buckets
    locked,     \* buckets whose mutex is held
    pc, arg,    \* the call each thread is in, and its argument
    own, i,     \* the transaction a thread concludes, and its loop counter
    fill_lock,  \* owner of each shard's log->sync_fill_lock
    next_fill,  \* log->next_fill
    log,        \* what has been logged in each shard
    ht,         \* hash table: the blocks of the entries of each key
    freed,      \* blocks given back by mcd_fth_osd_slab_dealloc
    nblk,       \* blocks allocated so far
    ncalls,
    clash,      \* keys written from outside a pending transaction that wrote them
    late,       \* keys written by an associate after its transaction was taken
    stray,      \* changes made in a transaction that its buffer does not hold
    aborted     \* changes of transactions whose commit logged nothing

table == <<trxid, next_trx_id, trxtable, locked>>
store == <<fill_lock, next_fill, log, ht, freed, nblk>>
ghost == <<clash, late, stray, aborted>>
vars == <<table, pc, arg, own, i, store, ncalls, ghost>>

NoTrx == [id |-> 0, s |-> NoThread, recs |-> <<>>, nmax |-> 0, status |-> "OKAY"]
mcd_trx_alloc(id) ==
    [id |-> id, s |-> NoThread, recs |-> <<>>, nmax |-> TrxBuf, status |-> "OKAY"]
Objs == Shards \X Keys

(* All changes made in a transaction, whether its buffer holds them or not. *)
Changes(x) ==
    {x.recs[k] : k \in DOMAIN x.recs} \cup {y.rec : y \in {z \in stray : z.id = x.id}}

trxindex(id) == id % NBuckets
Found(id) == \E x \in trxtable : x.id = id
trx_find(id) == CHOOSE x \in trxtable : x.id = id
Unlocked(id) == trxindex(id) \notin locked

Return(t) ==
    /\ pc' = [pc EXCEPT ![t] = "idle"]
    /\ arg' = [arg EXCEPT ![t] = 0]

Init ==
    /\ trxid = [t \in Threads |-> 0] /\ next_trx_id = 0
    /\ trxtable = {}
    /\ locked = {}
    /\ pc = [t \in Threads |-> "idle"] /\ arg = [t \in Threads |-> 0]
    /\ own = [t \in Threads |-> NoTrx] /\ i = [t \in Threads |-> 0]
    /\ fill_lock = [s \in Shards |-> NoThread]
    /\ next_fill = [s \in Shards |-> 0]
    /\ log = [s \in Shards |-> <<>>]
    /\ ht = [o \in Objs |-> {}]
    /\ freed = {} /\ nblk = 0 /\ ncalls = 0
    /\ clash = {} /\ late = {} /\ stray = {} /\ aborted = {}

(* A thread calls op with argument a.                                       *)
Invoke(t, op, a) ==
    /\ pc[t] = "idle" /\ ncalls < MaxCalls
    /\ ncalls' = ncalls + 1
    /\ pc' = [pc EXCEPT ![t] = op]
    /\ arg' = [arg EXCEPT ![t] = a]
    /\ UNCHANGED <<table, own, i, store, ghost>>
-----------------------------------------------------------------------------
(* mcd_trx_start: refuse a second transaction, else draw an ID ...          *)
mcd_trx_start(t) ==
    /\ pc[t] = "start"
    /\ trxid[t] # 0 => Unlocked(trxid[t])
    /\ IF Found(trxid[t])
       THEN Return(t) /\ UNCHANGED <<trxid, next_trx_id>>
       ELSE /\ next_trx_id' = next_trx_id + 1
            /\ trxid' = [trxid EXCEPT ![t] = next_trx_id + 1]
            /\ pc' = [pc EXCEPT ![t] = "add"]
            /\ UNCHANGED arg
    /\ UNCHANGED <<trxtable, locked, own, i, store, ncalls, ghost>>

(* ... and enter the new transaction in the table.                          *)
trx_add(t) ==
    /\ pc[t] = "add"
    /\ Unlocked(trxid[t])
    /\ trxtable' = trxtable \cup {mcd_trx_alloc(trxid[t])}
    /\ Return(t)
    /\ UNCHANGED <<trxid, next_trx_id, locked, own, i, store, ncalls, ghost>>

(* mcd_trx_attach: refused while the thread's own transaction lives ...     *)
mcd_trx_attach(t) ==
    /\ pc[t] = "attach"
    /\ trxid[t] # 0 => Unlocked(trxid[t])
    /\ IF Found(trxid[t])
       THEN Return(t)
       ELSE pc' = [pc EXCEPT ![t] = "attach2"] /\ UNCHANGED arg
    /\ UNCHANGED <<table, own, i, store, ncalls, ghost>>

(* ... else the thread joins the given one, if it is in the table.          *)
Attach(t) ==
    /\ pc[t] = "attach2"
    /\ Unlocked(arg[t])
    /\ trxid' = [trxid EXCEPT ![t] = IF Found(arg[t]) THEN arg[t] ELSE @]
    /\ Return(t)
    /\ UNCHANGED <<next_trx_id, trxtable, locked, own, i, store, ncalls, ghost>>

mcd_trx_detach(t) ==
    /\ pc[t] = "detach"
    /\ trxid' = [trxid EXCEPT ![t] = 0]
    /\ Return(t)
    /\ UNCHANGED <<next_trx_id, trxtable, locked, own, i, store, ncalls, ghost>>

(* mcd_trx_id: the ID is cleared between lock and unlock, so a retired ID   *)
(* locks its own bucket and unlocks bucket 0.                               *)
mcd_trx_id(t) ==
    /\ pc[t] = "id"
    /\ IF trxid[t] = 0
       THEN UNCHANGED <<trxid, locked>>
       ELSE /\ Unlocked(trxid[t])
            /\ IF Found(trxid[t])
               THEN UNCHANGED <<trxid, locked>>
               ELSE /\ trxid' = [trxid EXCEPT ![t] = 0]
                    /\ locked' = (locked \cup {trxindex(trxid[t])}) \ {0}
    /\ Return(t)
    /\ UNCHANGED <<next_trx_id, trxtable, own, i, store, ncalls, ghost>>

(* Mutant of trx_del: the transaction is found but stays in the table.      *)
trx_del_find(t, id, l) ==
    /\ Unlocked(id)
    /\ IF Found(id)
       THEN /\ own' = [own EXCEPT ![t] = trx_find(id)]
            /\ i' = [i EXCEPT ![t] = Len(trx_find(id).recs)]
            /\ pc' = [pc EXCEPT ![t] = l]
            /\ UNCHANGED <<trxtable, arg>>
       ELSE Return(t) /\ UNCHANGED <<trxtable, own, i>>

(* trx_del under the bucket lock: whoever gets the transaction concludes it *)
(* (at l); the others have none.                                            *)
trx_del(t, id, l) ==
    /\ Unlocked(id)
    /\ IF Found(id)
       THEN /\ own' = [own EXCEPT ![t] = trx_find(id)]
            /\ trxtable' = trxtable \ {trx_find(id)}
            /\ i' = [i EXCEPT ![t] = Len(trx_find(id).recs)]
            /\ pc' = [pc EXCEPT ![t] = l]
            /\ UNCHANGED arg
       ELSE Return(t) /\ UNCHANGED <<trxtable, own, i>>

mcd_trx_commit(t) ==
    /\ pc[t] = "commit"
    /\ trx_del(t, trxid[t], "log")
    /\ trxid' = [trxid EXCEPT ![t] = IF Found(@) THEN 0 ELSE @]
    /\ UNCHANGED <<next_trx_id, locked, store, ncalls, ghost>>

mcd_trx_rollback(t) ==
    /\ pc[t] = "rollback"
    /\ trx_del(t, trxid[t], "revert")
    /\ trxid' = [trxid EXCEPT ![t] = IF Found(@) THEN 0 ELSE @]
    /\ UNCHANGED <<next_trx_id, locked, store, ncalls, ghost>>

mcd_trx_commit_id(t) ==
    /\ pc[t] = "commit_id"
    /\ trx_del(t, arg[t], "log")
    /\ UNCHANGED <<trxid, next_trx_id, locked, store, ncalls, ghost>>
-----------------------------------------------------------------------------
(* The slot log_write_internal takes when next_fill is f: page headers are  *)
(* skipped.                                                                 *)
SlotAt(f) == IF f % BlkSlots = 0 THEN f + 1 ELSE f

(* The slots left in the log when the next one is f.                        *)
Room(f) == TotalSlots - (f % TotalSlots)

Pad == [blk |-> 0, old |-> 0, obj |-> <<NoThread, NoThread>>, del |-> FALSE]
Entry(slot, r, flag, id) == [slot |-> slot, rec |-> r, trx |-> flag, tid |-> id]

(* Record r of transaction id (0 for none) goes to the log of shard s.      *)
log_write_internal(s, r, flag, id) ==
    LET slot == SlotAt(next_fill[s])
    IN  /\ log' = [log EXCEPT ![s] = Append(@, Entry(slot, r, flag, id))]
        /\ next_fill' = [next_fill EXCEPT ![s] = slot + 1]

(* Mutant of Padding: the log is never padded.                              *)
PaddingNone(f, n) == 0

(* The no-op records commit logs before a transaction of n records that     *)
(* does not fit in the rest of the log.                                     *)
Padding(f, n) ==
    IF n > 1 /\ Room(f) < (n * BlkSlots) \div (BlkSlots - 1) THEN Room(f) ELSE 0

(* mcd_trx_commit_internal: take sync_fill_lock, see whether the rest of    *)
(* the log has room ...                                                     *)
CommitStart(t) ==
    LET x == own[t]
        n == Padding(next_fill[x.s], Len(x.recs))
    IN  /\ pc[t] = "log" /\ x.status = "OKAY" /\ x.recs # <<>>
        /\ fill_lock[x.s] = NoThread
        /\ fill_lock' = [fill_lock EXCEPT ![x.s] = t]
        /\ i' = [i EXCEPT ![t] = IF n = 0 THEN 1 ELSE n]
        /\ pc' = [pc EXCEPT ![t] = IF n = 0 THEN "write" ELSE "pad"]
        /\ UNCHANGED <<table, arg, own, next_fill, log, ht, freed, nblk, ncalls, ghost>>

(* ... if it has not, log i[t] records that do nothing ...                  *)
CommitPad(t) ==
    /\ pc[t] = "pad"
    /\ log_write_internal(own[t].s, Pad, "NO", 0)
    /\ IF i[t] = 1
       THEN pc' = [pc EXCEPT ![t] = "write"] /\ UNCHANGED i
       ELSE i' = [i EXCEPT ![t] = @ - 1] /\ UNCHANGED pc
    /\ UNCHANGED <<table, arg, own, fill_lock, ht, freed, nblk, ncalls, ghost>>

(* ... then the records of the transaction, the last one marked as such,    *)
(* and free it.                                                             *)
CommitWrite(t) ==
    LET x == own[t]
        last == i[t] = Len(x.recs)
    IN  /\ pc[t] = "write"
        /\ log_write_internal(x.s, x.recs[i[t]], IF last THEN "LAST" ELSE "OP", x.id)
        /\ IF last
           THEN /\ Return(t)
                /\ fill_lock' = [fill_lock EXCEPT ![x.s] = NoThread]
                /\ own' = [own EXCEPT ![t] = NoTrx]
                /\ i' = [i EXCEPT ![t] = 0]
           ELSE i' = [i EXCEPT ![t] = @ + 1] /\ UNCHANGED <<pc, arg, fill_lock, own>>
        /\ UNCHANGED <<table, ht, freed, nblk, ncalls, ghost>>

(* Nothing to log, or a transaction with an error: it is only freed.        *)
CommitNothing(t) ==
    LET x == own[t]
    IN  /\ pc[t] = "log" /\ (x.status # "OKAY" \/ x.recs = <<>>)
        /\ Return(t)
        /\ own' = [own EXCEPT ![t] = NoTrx] /\ i' = [i EXCEPT ![t] = 0]
        /\ aborted' = aborted \cup Changes(x)
        /\ UNCHANGED <<table, store, ncalls, clash, late, stray>>

(* Mutant of Undo: the block is freed whether the entry is there or not.    *)
UndoFree(r) ==
    /\ freed' = freed \cup {r.blk}
    /\ ht' = [ht EXCEPT ![r.obj] = IF r.blk \in @ THEN (@ \ {r.blk}) \cup ({r.old} \ {0})
                                                  ELSE @]

(* mcd_osd_trx_revert: the entry of the new block, if it is still there, is *)
(* replaced by the old one or deleted, and the block is freed.              *)
Undo(r) ==
    IF r.blk \in ht[r.obj]
    THEN /\ ht' = [ht EXCEPT ![r.obj] = (@ \ {r.blk}) \cup ({r.old} \ {0})]
         /\ freed' = freed \cup {r.blk}
    ELSE UNCHANGED <<ht, freed>>

(* Mutant of UndoIndex: the records are undone in the order they were made. *)
UndoForward(t) == Len(own[t].recs) - i[t] + 1

UndoIndex(t) == i[t]

(* mcd_trx_rollback_internal, one record: a created or updated object is    *)
(* reverted, a deleted one is inserted again if the hash table has room.    *)
Revert(t) ==
    LET r == own[t].recs[UndoIndex(t)]
    IN  /\ pc[t] = "revert" /\ i[t] > 0
        /\ i' = [i EXCEPT ![t] = @ - 1]
        /\ \/ ~r.del /\ Undo(r) /\ UNCHANGED <<own, stray>>
           \/ /\ r.del
              /\ ht' = [ht EXCEPT ![r.obj] = @ \cup {r.old}]
              /\ UNCHANGED <<own, freed, stray>>
           \/ /\ r.del
              /\ own' = [own EXCEPT ![t].status = "HASHTABLE_FULL"]
              /\ stray' = stray \cup {[id |-> own[t].id, rec |-> r]}
              /\ UNCHANGED <<ht, freed>>
        /\ UNCHANGED <<table, pc, arg, fill_lock, next_fill, log, nblk, ncalls,
                       clash, late, aborted>>

RevertEnd(t) ==
    /\ pc[t] = "revert" /\ i[t] = 0
    /\ Return(t)
    /\ own' = [own EXCEPT ![t] = NoTrx]
    /\ UNCHANGED <<table, i, store, ncalls, ghost>>
-----------------------------------------------------------------------------
(* Mutant of Grown: the limit is forgotten.                                 *)
GrownUnlimited(x) == Grow * x.nmax

Grown(x) == IF TrxLimit < Grow * x.nmax THEN TrxLimit ELSE Grow * x.nmax

(* mcd_trx_rec_avail and the copy that follows: the transaction x after     *)
(* record r, where mem tells whether a larger buffer could be had.          *)
WithRec(x, r, mem) ==
    IF x.status # "OKAY" THEN x
    ELSE IF Len(x.recs) < x.nmax THEN [x EXCEPT !.recs = Append(@, r)]
    ELSE IF Len(x.recs) >= TrxLimit THEN [x EXCEPT !.status = "TOO_BIG"]
    ELSE IF mem THEN [x EXCEPT !.recs = Append(@, r), !.nmax = Grown(x)]
    ELSE IF x.nmax = TrxBuf THEN [x EXCEPT !.status = "NO_MEM"]
    ELSE [x EXCEPT !.status = "NO_MEM", !.recs = <<>>, !.nmax = 0]

(* trx_in_progress of a thread with a live transaction: the record goes to  *)
(* the transaction, unless that has failed or belongs to another shard.     *)
Captured(t, s, r, mem) ==
    LET x == trx_find(trxid[t])
        y == IF x.s \notin {NoThread, s}
             THEN [x EXCEPT !.status = "BAD_SHARD"]
             ELSE WithRec([x EXCEPT !.s = s], r, mem)
        lost == {q \in {x.recs[k] : k \in DOMAIN x.recs} \cup {r} :
                   \A k \in DOMAIN y.recs : y.recs[k] # q}
    IN  /\ Found(trxid[t]) /\ Unlocked(trxid[t])
        /\ trxtable' = (trxtable \ {x}) \cup {y}
        /\ stray' = stray \cup {[id |-> x.id, rec |-> q] : q \in lost}
        /\ UNCHANGED <<trxid, next_fill, log>>

(* trx_in_progress of any other thread: a retired ID is dropped, and the    *)
(* record is logged by itself (log_write).                                  *)
Logged(t, s, r) ==
    /\ ~Found(trxid[t])
    /\ trxid[t] # 0 => Unlocked(trxid[t])
    /\ trxid' = [trxid EXCEPT ![t] = 0]
    /\ fill_lock[s] = NoThread
    /\ log_write_internal(s, r, "NO", 0)
    /\ UNCHANGED <<trxtable, stray>>

(* The transactions that have not been concluded yet and wrote object o.    *)
PendingOn(o) ==
    {x \in trxtable \cup {own[t] : t \in Threads} :
       \E k \in DOMAIN x.recs : x.recs[k].obj = o}

(* mcd_fth_osd_slab_set: create, update or delete the object o; the entry,  *)
(* its log record and the hash table change under the hash bucket's lock.   *)
Change(t, o, r) ==
    LET others == {x \in PendingOn(o) : x.id # trxid[t]}
        taken == {x \in PendingOn(o) : x.id = trxid[t] /\ ~Found(trxid[t])}
    IN  /\ \/ \E mem \in BOOLEAN : Captured(t, o[1], r, mem)
           \/ Logged(t, o[1], r)
        /\ ht' = [ht EXCEPT ![o] = (@ \ {r.old}) \cup (IF r.del THEN {} ELSE {r.blk})]
        /\ clash' = IF others # {} THEN clash \cup {o} ELSE clash
        /\ late' = IF taken # {} THEN late \cup {o} ELSE late
        /\ Return(t)
        /\ UNCHANGED <<next_trx_id, locked, own, i, fill_lock, freed, ncalls,
                       aborted>>

Put(t) ==
    LET o == arg[t]
    IN  /\ pc[t] = "put"
        /\ nblk' = nblk + 1
        /\ \E old \in IF ht[o] = {} THEN {0} ELSE ht[o] :
             Change(t, o, [blk |-> nblk + 1, old |-> old, obj |-> o, del |-> FALSE])

Delete(t) ==
    LET o == arg[t]
    IN  /\ pc[t] = "delete"
        /\ UNCHANGED nblk
        /\ IF ht[o] = {}
           THEN /\ Return(t)
                /\ UNCHANGED <<table, own, i, fill_lock, next_fill, log, ht,
                               freed, ncalls, ghost>>
           ELSE \E old \in ht[o] :
                  Change(t, o, [blk |-> old, old |-> old, obj |-> o, del |-> TRUE])
-----------------------------------------------------------------------------
Step(t) ==
    \/ mcd_trx_start(t) \/ trx_add(t)
    \/ mcd_trx_attach(t) \/ Attach(t) \/ mcd_trx_detach(t) \/ mcd_trx_id(t)
    \/ mcd_trx_commit(t) \/ mcd_trx_rollback(t) \/ mcd_trx_commit_id(t)
    \/ CommitStart(t) \/ CommitPad(t) \/ CommitWrite(t) \/ CommitNothing(t)
    \/ Revert(t) \/ RevertEnd(t)
    \/ Put(t) \/ Delete(t)

Calls(t) ==
    \/ \E op \in {"start", "detach", "id", "commit", "rollback"} : Invoke(t, op, 0)
    \/ \E op \in {"attach", "commit_id"}, x \in 1 .. next_trx_id + 1 :
         Invoke(t, op, x)  \* the IDs not drawn yet are alike
    \/ \E op \in {"put", "delete"}, o \in Objs : Invoke(t, op, o)

Next == \E t \in Threads : Calls(t) \/ Step(t)

Spec == Init /\ [][Next]_vars
FairSpec == Spec /\ \A t \in Threads : WF_vars(Step(t))
-----------------------------------------------------------------------------
Labels == {"idle", "start", "add", "attach", "attach2", "detach", "id", "commit",
           "rollback", "commit_id", "log", "pad", "write", "revert", "put", "delete"}
Recs == [blk : Nat, old : Nat, obj : Objs, del : BOOLEAN]
Entries == [slot : Nat, rec : Recs \cup {Pad}, trx : {"NO", "OP", "LAST"}, tid : 0 .. MaxCalls]
Statuses == {"OKAY", "NO_MEM", "TOO_BIG", "BAD_SHARD", "HASHTABLE_FULL"}
Trx == [id : 0 .. MaxCalls, s : Shards \cup {NoThread}, recs : Seq(Recs),
        nmax : 0 .. TrxLimit, status : Statuses]

TypeOK ==
    /\ trxid \in [Threads -> 0 .. next_trx_id]
    /\ next_trx_id \in 0 .. ncalls
    /\ trxtable \subseteq Trx
    /\ locked \subseteq 0 .. NBuckets - 1
    /\ pc \in [Threads -> Labels]
    /\ own \in [Threads -> Trx]
    /\ i \in [Threads -> 0 .. TotalSlots]
    /\ fill_lock \in [Shards -> Threads \cup {NoThread}]
    /\ next_fill \in [Shards -> Nat]
    /\ log \in [Shards -> Seq(Entries)]
    /\ ht \in [Objs -> SUBSET (1 .. nblk)]
    /\ freed \subseteq 1 .. nblk
    /\ nblk \in 0 .. MaxCalls /\ ncalls \in 0 .. MaxCalls
    /\ clash \subseteq Objs /\ late \subseteq Objs

(* A transaction is a record with these five fields.                        *)
IsTrx(x) == x = [id |-> x.id, s |-> x.s, recs |-> x.recs, nmax |-> x.nmax,
                 status |-> x.status]

(* The IDs in use have been drawn.                                          *)
IdsDrawn ==
    /\ next_trx_id \in Nat
    /\ trxid \in [Threads -> 0 .. next_trx_id]
    /\ \A x \in trxtable : IsTrx(x) /\ x.id \in 1 .. next_trx_id
    /\ own = [t \in Threads |-> own[t]]
    /\ \A t \in Threads : IsTrx(own[t]) /\ own[t].id \in 0 .. next_trx_id

(* The ID of a transaction that is about to enter the table is nobody's.    *)
FreshId ==
    /\ pc = [t \in Threads |-> pc[t]]
    /\ \A t \in Threads : pc[t] = "add" =>
         /\ trxid[t] # 0
         /\ \A x \in trxtable : x.id # trxid[t]
         /\ \A u \in Threads : own[u].id # trxid[t]
         /\ \A u \in Threads : pc[u] = "add" /\ trxid[u] = trxid[t] => u = t

(* Exactly one thread concludes a transaction (comment at mcd_rec.c:8773):  *)
(* two threads never work on the same one, and it is not in the table then. *)
OneConcluder ==
    /\ \A x, y \in trxtable : x.id = y.id => x = y
    /\ \A t \in Threads, x \in trxtable : own[t].id # x.id
    /\ \A t, u \in Threads : own[t].id # 0 /\ own[t].id = own[u].id => t = u

(* The inductive invariant behind OneConcluder.                             *)
IInv == IdsDrawn /\ FreshId /\ OneConcluder

(* A committed transaction is one run of records in one of the two logs,    *)
(* with the last one, and only that, marked as the last: no other record    *)
(* and no end of a log gets between them (comment at mcd_rec.c:8884).       *)
TrxWhole ==
    \A s \in Shards : \A j, k \in DOMAIN log[s] :
        LET a == log[s][j]
            b == log[s][k]
        IN  j < k /\ a.tid # 0 /\ a.tid = b.tid =>
              /\ a.slot \div TotalSlots = b.slot \div TotalSlots
              /\ a.trx = "OP"
              /\ log[s][j + 1].tid = a.tid

(* The blocks recovery finds in use: those whose last log record creates    *)
(* them.                                                                    *)
Live(s) ==
    LET L == log[s]
        made == {k \in DOMAIN L : L[k].rec.blk # 0 /\ ~L[k].rec.del}
    IN  {L[k].rec : k \in {m \in made :
           \A j \in DOMAIN L : j > m => L[j].rec.old # L[m].rec.blk}}

Quiet == trxtable = {} /\ \A t \in Threads : pc[t] = "idle"
AbortedObjs == {r.obj : r \in aborted}
StrayObjs == {y.rec.obj : y \in stray}
Same(o) == {r.blk : r \in {q \in Live(o[1]) : q.obj = o}} = ht[o]

(* With no transaction open, replaying the log gives the hash table: every  *)
(* commit, rollback and plain change left the two in step.  Objects written *)
(* by two parties at a time are excepted (isolation is poor by design), and *)
(* so are those of transactions that failed.                                *)
ReplayMatches ==
    Quiet =>
        \A o \in Objs \ (clash \cup late \cup AbortedObjs \cup StrayObjs) : Same(o)

(* No entry of the hash table, and none that recovery would restore, refers *)
(* to a block that a rollback freed, whatever transactions do to each       *)
(* other.                                                                   *)
NoDangling ==
    /\ \A o \in Objs : ht[o] \cap freed = {}
    /\ \A s \in Shards : \A r \in Live(s) : r.blk \notin freed

(* Every call on a transaction returns, also when another thread concludes  *)
(* the transaction meanwhile (comment at mcd_rec.c:8776).                   *)
CallsReturn == \A t \in Threads : pc[t] # "idle" ~> pc[t] = "idle"
=============================================================================
