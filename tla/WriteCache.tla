----------------------------- MODULE WriteCache -----------------------------
(***************************************************************************)
(* The object cache and its asynchronous writes (protocol/action:          *)
(* action_new.c, fastcc_new.c, async_puts.c), without replication.         *)
(*                                                                         *)
(* A client locks the slab of its key, works on the cached entry and lets  *)
(* the worker threads of the pool write to flash.  The slab carries a      *)
(* count of lockers: each posted write adds one, so that the slab stays    *)
(* locked until the client AND all its writes are done.  A request lives   *)
(* on the stack of its poster, who waits until a worker has copied it.     *)
(* Posters and workers wait on one condition variable, q_cond.             *)
(*                                                                         *)
(* A value is a number; 0 stands for no object.  All objects have one size *)
(* (an overwrite is in place) and belong to one container.  Which of the   *)
(* candidates is least recently used is left open.  flashPut succeeds.     *)
(* Expiry and remote requests are left out.                                *)
(***************************************************************************)
EXTENDS Integers, Sequences, FiniteSets, FiniteSetsExt, SequencesExt

CONSTANTS
    Clients,    \* threads that call, and the background flusher
    Workers,    \* threads of the pool that may exist
    Keys,
    None,       \* no key, no client
    BucketOf,   \* bucket of each key
    NSlabs,     \* nslabs
    PerSlab,    \* buckets_per_slab
    Shards,     \* the configurations to choose from (see shard)
    MaxCommit   \* bound: asynchronous commits

OpTypes == {"get", "set", "del", "sync", "commit", "flush", "inval", "bflush"}

ASSUME CacheAssumption ==
    /\ None \notin Keys \cup Clients /\ Clients \cap Workers = {}
    /\ {NSlabs, PerSlab} \subseteq Nat \ {0}
    /\ BucketOf \in [Keys -> 0 .. NSlabs * PerSlab - 1]
    /\ Shards \subseteq [workers : SUBSET Workers \ {{}}, ops : [Clients -> SUBSET OpTypes],
                         writethru : BOOLEAN, async_writes : BOOLEAN,
                         pages : Nat \ {0}, mod_limit : Nat,
                         tokens : Nat \ {0}, btokens : Nat,
                         keys : SUBSET Keys, max_set : Nat]
    /\ MaxCommit \in Nat

VARIABLES
    shard,      \* never changes: threads of the pool; what each client calls;
                \* writethru and async_writes of the container; objects that
                \* fit into a slab; modified objects allowed in a slab; flush
                \* and background flush tokens; bounds: the keys that
                \* clients use, and the number of sets and deletes
    pc,         \* where a client is in its operation
    op,         \* the operation of a client
    fl,         \* locals of SDFNewCacheFlushCache
    w,          \* what a thread waits for, or "run"
    rqst,       \* the request on the stack of a client
    q,          \* the posters of the requests from q_r to q_w - 1
    q_r,
    rqst_id,    \* thr_info[].rqst_id
    taken,      \* the poster of the request that a worker took
    job,        \* the copy of the request that a worker made
    target,     \* rqst_id of async_drain
    lock,       \* the lock of each slab
    n_lockers,
    cache,      \* state (I, S, M) and value of each cached object
    flash,      \* value of each object on flash
    latest,     \* history: the value of the last completed write
    tokens,     \* flush_token_pool
    btokens,    \* background_flush_token_pool
    nset,       \* values handed out
    ncommit

queue == <<w, rqst, q, q_r, rqst_id, taken, job, target>>
slabs == <<lock, n_lockers, cache, flash, latest>>
pools == <<tokens, btokens>>
counts == <<nset, ncommit>>
vars == <<shard, pc, op, fl, queue, slabs, pools, counts>>

Pool == shard.workers
Slab(k) == BucketOf[k] \div PerSlab
KeysOf(s) == {k \in Keys : Slab(k) = s}
Cached(s) == {k \in KeysOf(s) : cache[k].st # "I"}
Modified(s) == {k \in KeysOf(s) : cache[k].st = "M"}

Gone == [st |-> "I", val |-> 0]
NoOp == [t |-> "none", k |-> None, v |-> 0]
NoRqst == [rtype |-> "none", k |-> None, v |-> 0, skip |-> FALSE]
NoFlush == [slab |-> 0, i |-> 0, flags |-> {}, dirty |-> FALSE,
            nflushed |-> 0, absorbed |-> 0]

Init ==
    /\ shard \in Shards
    /\ pc = [c \in Clients |-> "idle"] /\ op = [c \in Clients |-> NoOp]
    /\ fl = [c \in Clients |-> NoFlush]
    /\ w = [t \in Clients \cup Pool |-> IF t \in Pool THEN "get" ELSE "run"]
    /\ rqst = [c \in Clients |-> NoRqst] /\ q = <<>> /\ q_r = 0
    /\ rqst_id = [a \in Pool |-> 0] /\ taken = [a \in Pool |-> None]
    /\ job = [a \in Pool |-> NoRqst]
    /\ target = [t \in Clients \cup Pool |-> 0]
    /\ lock = [s \in 0 .. NSlabs - 1 |-> FALSE]
    /\ n_lockers = [s \in 0 .. NSlabs - 1 |-> 0]
    /\ cache = [k \in Keys |-> Gone] /\ flash = [k \in Keys |-> 0]
    /\ latest = flash
    /\ tokens = shard.tokens /\ btokens = shard.btokens
    /\ nset = 0 /\ ncommit = 0

-----------------------------------------------------------------------------
(* The queue.                                                               *)

Q_w == q_r + Len(q)
QSize == Cardinality(Pool)

Woken(t) == IF t \in Pool THEN "get" ELSE "post"

(* pthread_cond_signal(&q_cond): some waiter, poster or worker, wakes up.   *)
Signal(waits) ==
    LET sleepers == {t \in DOMAIN waits : waits[t] = "q_cond"}
    IN  IF sleepers = {} THEN w' = waits
        ELSE \E t \in sleepers : w' = [waits EXCEPT ![t] = Woken(t)]

(* pthread_cond_broadcast(&q_drain).                                        *)
Broadcast(waits) ==
    [t \in DOMAIN waits |-> IF waits[t] = "q_drain" THEN "drain" ELSE waits[t]]

(* A client is about to post a request.                                     *)
Post(c, r) == rqst' = [rqst EXCEPT ![c] = r] /\ w' = [w EXCEPT ![c] = "post"]

QPost(c) ==
    /\ w[c] = "post" /\ Len(q) < QSize
    /\ q' = Append(q, c)
    /\ Signal([w EXCEPT ![c] = "ack"])
    /\ UNCHANGED <<pc, op, fl, rqst, q_r, rqst_id, taken, job, target,
                   slabs, pools, counts>>

QPostFull(c) ==
    /\ w[c] = "post" /\ Len(q) = QSize
    /\ w' = [w EXCEPT ![c] = "q_cond"]
    /\ UNCHANGED <<pc, op, fl, rqst, q, q_r, rqst_id, taken, job, target,
                   slabs, pools, counts>>

QGet(a) ==
    /\ w[a] = "get" /\ q # <<>>
    /\ taken' = [taken EXCEPT ![a] = Head(q)]
    /\ rqst_id' = [rqst_id EXCEPT ![a] = q_r + 1]
    /\ q' = Tail(q) /\ q_r' = q_r + 1
    /\ Signal(Broadcast([w EXCEPT ![a] = "copy"]))
    /\ UNCHANGED <<pc, op, fl, rqst, job, target, slabs, pools, counts>>

QGetEmpty(a) ==
    /\ w[a] = "get" /\ q = <<>>
    /\ rqst_id' = [rqst_id EXCEPT ![a] = 0]
    /\ w' = [w EXCEPT ![a] = "q_cond"]
    /\ UNCHANGED <<pc, op, fl, rqst, q, q_r, taken, job, target, slabs,
                   pools, counts>>

(* The threads that completed() looks at: num_threads is 0 from             *)
(* async_puts_alloc on, and no code raises it.                              *)
Counted == {}

Completed(id) ==
    /\ q_r >= id
    /\ \A a \in Counted : rqst_id[a] = 0 \/ rqst_id[a] > id

(* async_drain(aps, 0) reads q_w before it takes q_lock.                    *)
DrainStart(t) ==
    /\ w[t] = "drain0"
    /\ target' = [target EXCEPT ![t] = Q_w]
    /\ w' = [w EXCEPT ![t] = "drain"]
    /\ UNCHANGED <<pc, op, fl, rqst, q, q_r, rqst_id, taken, job, slabs,
                   pools, counts>>

Drain(t) ==
    /\ w[t] = "drain"
    /\ w' = [w EXCEPT ![t] = IF Completed(target[t]) THEN "drained"
                                                     ELSE "q_drain"]
    /\ UNCHANGED <<pc, op, fl, rqst, q, q_r, rqst_id, taken, job, target,
                   slabs, pools, counts>>

-----------------------------------------------------------------------------
(* The slab lock.                                                           *)

TakeSlab(s, n) ==
    /\ ~lock[s]
    /\ lock' = [lock EXCEPT ![s] = TRUE]
    /\ n_lockers' = [n_lockers EXCEPT ![s] = n]

AddLocker(s) == n_lockers' = [n_lockers EXCEPT ![s] = @ + 1] /\ UNCHANGED lock

(* Mutant of UnlockBucket: the client does not wait for its writes.         *)
UnlockBucketAny(s) ==
    /\ n_lockers' = [n_lockers EXCEPT ![s] = @ - 1]
    /\ lock' = [lock EXCEPT ![s] = FALSE]

UnlockBucket(s) ==
    /\ n_lockers' = [n_lockers EXCEPT ![s] = @ - 1]
    /\ lock' = [lock EXCEPT ![s] = n_lockers[s] # 1]

-----------------------------------------------------------------------------
(* The workers.                                                             *)

(* Mutant of Copy: the poster goes on before its request has been copied.   *)
CopyLate(a) ==
    LET c == taken[a]
    IN  /\ w[a] = "copy"
        /\ \/ w[c] = "ack" /\ w' = [w EXCEPT ![c] = "acked"] /\ UNCHANGED job
           \/ /\ w[c] # "ack" /\ job' = [job EXCEPT ![a] = rqst[c]]
              /\ w' = [w EXCEPT ![a] = IF rqst[c].rtype = "commit"
                                         THEN "drain0" ELSE "write"]
        /\ UNCHANGED <<pc, op, fl, rqst, q, q_r, rqst_id, taken, target,
                       slabs, pools, counts>>

(* The worker copies the request, its key and its data, then posts the ack. *)
Copy(a) ==
    LET c == taken[a]
    IN  /\ w[a] = "copy"
        /\ job' = [job EXCEPT ![a] = rqst[c]]
        /\ w' = [w EXCEPT ![c] = "acked",
                          ![a] = IF rqst[c].rtype = "commit" THEN "drain0"
                                                             ELSE "write"]
        /\ taken' = [taken EXCEPT ![a] = None]
        /\ UNCHANGED <<pc, op, fl, rqst, q, q_r, rqst_id, target, slabs, pools,
                       counts>>

(* A flush gives its token back, a background flush both.                   *)
FlushComplete(t) ==
    /\ tokens' = tokens + (IF t \in {"flush", "bflush"} THEN 1 ELSE 0)
    /\ btokens' = btokens + (IF t = "bflush" THEN 1 ELSE 0)

(* do_put, do_writeback or do_flush: write to flash (a set to a writeback   *)
(* container is skipped), drop the worker's share of the slab lock, and     *)
(* give a flush token back.                                                 *)
Write(a) ==
    LET r == job[a]
    IN  /\ w[a] = "write"
        /\ flash' = IF r.skip THEN flash ELSE [flash EXCEPT ![r.k] = r.v]
        /\ UnlockBucket(Slab(r.k))
        /\ FlushComplete(r.rtype)
        /\ w' = [w EXCEPT ![a] = "get"]
        /\ job' = [job EXCEPT ![a] = NoRqst]
        /\ UNCHANGED <<pc, op, fl, rqst, q, q_r, rqst_id, taken, target,
                       cache, latest, counts>>

(* mcd_trx_commit_id, after the drain.                                      *)
Commit(a) ==
    /\ w[a] = "drained"
    /\ w' = [w EXCEPT ![a] = "get"]
    /\ job' = [job EXCEPT ![a] = NoRqst] /\ target' = [target EXCEPT ![a] = 0]
    /\ UNCHANGED <<pc, op, fl, rqst, q, q_r, rqst_id, taken, slabs, pools,
                   counts>>

Worker(a) ==
    QGet(a) \/ QGetEmpty(a) \/ Copy(a) \/ Write(a) \/ DrainStart(a) \/ Drain(a)
        \/ Commit(a)

-----------------------------------------------------------------------------
(* Operations on one object.  The slab is locked from the lookup on.        *)

StartObj(c, t, k) ==
    /\ pc[c] = "idle" /\ t \in shard.ops[c] \cap {"get", "set", "del"}
    /\ t # "get" => nset < shard.max_set
    /\ pc' = [pc EXCEPT ![c] = t]
    /\ nset' = IF t = "get" THEN nset ELSE nset + 1
    /\ op' = [op EXCEPT ![c] = [t |-> t, k |-> k,
                                v |-> IF t = "set" THEN nset + 1 ELSE 0]]
    /\ UNCHANGED <<fl, queue, slabs, pools, ncommit>>

(* cache_get, or flash_get up to load_cache.                                *)
Get(c) ==
    LET k == op[c].k
    IN  /\ pc[c] = "get"
        /\ TakeSlab(Slab(k), 1)
        /\ IF cache[k].st # "I" \/ flash[k] = 0
             THEN pc' = [pc EXCEPT ![c] = "unlock"] /\ UNCHANGED op
             ELSE /\ pc' = [pc EXCEPT ![c] = "load"]
                  /\ op' = [op EXCEPT ![c].v = flash[k]]
        /\ UNCHANGED <<fl, queue, cache, flash, latest, pools, counts>>

(* flash_set_wt_i or flash_set_wt_s up to load_cache; flashPut_wrapper.     *)
Set(c) ==
    LET k == op[c].k
    IN  /\ pc[c] = "set"
        /\ pc' = [pc EXCEPT ![c] = "load"]
        /\ IF shard.async_writes
             THEN /\ TakeSlab(Slab(k), 2)
                  /\ Post(c, [rtype |-> "put", k |-> k, v |-> op[c].v,
                              skip |-> ~shard.writethru])
                  /\ UNCHANGED flash
             ELSE /\ TakeSlab(Slab(k), 1)
                  /\ flash' = IF shard.writethru
                                THEN [flash EXCEPT ![k] = op[c].v] ELSE flash
                  /\ UNCHANGED <<w, rqst>>
        /\ UNCHANGED <<op, fl, q, q_r, rqst_id, taken, job, target, cache,
                       latest, pools, counts>>

(* flash_del_i or flash_del_s: the flash delete is never skipped.           *)
Del(c) ==
    LET k == op[c].k
    IN  /\ pc[c] = "del"
        /\ pc' = [pc EXCEPT ![c] = "deleted"]
        /\ IF shard.async_writes
             THEN /\ TakeSlab(Slab(k), 2)
                  /\ Post(c, [rtype |-> "put", k |-> k, v |-> 0, skip |-> FALSE])
                  /\ UNCHANGED flash
             ELSE /\ TakeSlab(Slab(k), 1)
                  /\ flash' = [flash EXCEPT ![k] = 0]
                  /\ UNCHANGED <<w, rqst>>
        /\ UNCHANGED <<op, fl, q, q_r, rqst_id, taken, job, target, cache,
                       latest, pools, counts>>

(* The new state is I: process_object_operation removes the entry.          *)
Deleted(c) ==
    /\ pc[c] = "deleted" /\ w[c] = "run"
    /\ cache' = [cache EXCEPT ![op[c].k] = Gone]
    /\ latest' = [latest EXCEPT ![op[c].k] = 0]
    /\ pc' = [pc EXCEPT ![c] = "unlock"]
    /\ UNCHANGED <<op, fl, queue, lock, n_lockers, flash, pools, counts>>

(* wrbk_fn: post a writeback that keeps the slab locked.                    *)
Writeback(c, k) ==
    /\ AddLocker(Slab(k))
    /\ Post(c, [rtype |-> "writeback", k |-> k, v |-> cache[k].val,
                skip |-> FALSE])

(* Mutant of HasRoom: one object too many.                                  *)
HasRoomOver(k) ==
    cache[k].st # "I" \/ Cardinality(Cached(Slab(k))) <= shard.pages

HasRoom(k) ==
    cache[k].st # "I" \/ Cardinality(Cached(Slab(k))) < shard.pages

(* Mutant of Evict: an evicted object is never written back.                *)
EvictDropped(c) ==
    LET k == op[c].k
    IN  /\ pc[c] = "load" /\ w[c] = "run" /\ ~HasRoom(k)
        /\ \E e \in Cached(Slab(k)) : cache' = [cache EXCEPT ![e] = Gone]
        /\ UNCHANGED <<pc, op, fl, queue, lock, n_lockers, flash, latest, pools,
                       counts>>

(* fastcc_object_alloc evicts an object, and writes it back if modified.    *)
(* Its pages are freed after the ack.                                       *)
Evict(c) ==
    LET k == op[c].k
    IN  /\ pc[c] = "load" /\ w[c] = "run" /\ ~HasRoom(k)
        /\ \E e \in Cached(Slab(k)) :
              /\ cache' = [cache EXCEPT ![e] = Gone]
              /\ IF cache[e].st = "M" THEN Writeback(c, e)
                                      ELSE UNCHANGED <<lock, n_lockers, w, rqst>>
        /\ UNCHANGED <<pc, op, fl, q, q_r, rqst_id, taken, job, target, flash,
                       latest, pools, counts>>

(* load_cache, then the new state of the protocol table.                    *)
LoadCache(c) ==
    LET k == op[c].k
        set == op[c].t = "set"
    IN  /\ pc[c] = "load" /\ w[c] = "run" /\ HasRoom(k)
        /\ cache' = [cache EXCEPT ![k] =
                        [st |-> IF set /\ ~shard.writethru THEN "M" ELSE "S",
                         val |-> op[c].v]]
        /\ latest' = IF set THEN [latest EXCEPT ![k] = op[c].v] ELSE latest
        /\ pc' = [pc EXCEPT ![c] = IF set THEN "limit" ELSE "unlock"]
        /\ UNCHANGED <<op, fl, queue, lock, n_lockers, flash, pools, counts>>

TooManyModified(s) == Cardinality(Modified(s)) > shard.mod_limit

(* SDFNewCacheCheckModifiedObjectLimit: one turn of its loop.  It ends when *)
(* few enough are modified, or after max_flushes_per_mod_check turns; that  *)
(* number is left open.                                                     *)
CheckLimit(c) ==
    LET s == Slab(op[c].k)
    IN  /\ pc[c] = "limit" /\ w[c] = "run" /\ TooManyModified(s)
        /\ \E e \in Modified(s) : Writeback(c, e)
        /\ UNCHANGED <<pc, op, fl, q, q_r, rqst_id, taken, job, target, cache,
                       flash, latest, pools, counts>>

(* The end of process_object_operation.                                     *)
Unlock(c) ==
    LET s == Slab(op[c].k)
    IN  /\ w[c] = "run"
        /\ pc[c] \in {"unlock", "limit"}
        /\ UnlockBucket(s)
        /\ pc' = [pc EXCEPT ![c] = "idle"] /\ op' = [op EXCEPT ![c] = NoOp]
        /\ UNCHANGED <<fl, queue, cache, flash, latest, pools, counts>>

(* async_qpost returns.  A modified object that was written back or flushed *)
(* is then marked unmodified, or removed if the flush invalidates.          *)
Acked(c) ==
    LET k == rqst[c].k
    IN  /\ w[c] = "acked"
        /\ w' = [w EXCEPT ![c] = "run"]
        /\ rqst' = [rqst EXCEPT ![c] = NoRqst]
        /\ cache' = IF pc[c] = "limit" \/ (pc[c] = "bucket" /\ op[c].t # "inval")
                      THEN [cache EXCEPT ![k].st = "S"]
                    ELSE IF pc[c] = "bucket" THEN [cache EXCEPT ![k] = Gone]
                    ELSE cache
        /\ IF pc[c] = "commit"
             THEN pc' = [pc EXCEPT ![c] = "idle"] /\ op' = [op EXCEPT ![c] = NoOp]
             ELSE UNCHANGED <<pc, op>>
        /\ UNCHANGED <<fl, q, q_r, rqst_id, taken, job, target, lock,
                       n_lockers, flash, latest, pools, counts>>

-----------------------------------------------------------------------------
(* Asynchronous commit, and the sync of a container.                        *)

StartCommit(c) ==
    /\ pc[c] = "idle" /\ "commit" \in shard.ops[c] /\ ncommit < MaxCommit
    /\ ncommit' = ncommit + 1
    /\ pc' = [pc EXCEPT ![c] = "commit"]
    /\ op' = [op EXCEPT ![c].t = "commit"]
    /\ Post(c, [NoRqst EXCEPT !.rtype = "commit"])
    /\ UNCHANGED <<fl, q, q_r, rqst_id, taken, job, target, slabs, pools, nset>>

(* sync_ctnr_lock lets one client in; shardSync_wrapper drains first.       *)
StartSync(c) ==
    /\ pc[c] = "idle" /\ "sync" \in shard.ops[c]
    /\ \A d \in Clients : pc[d] # "sync"
    /\ pc' = [pc EXCEPT ![c] = "sync"] /\ op' = [op EXCEPT ![c].t = "sync"]
    /\ w' = [w EXCEPT ![c] = "drain0"]
    /\ UNCHANGED <<fl, rqst, q, q_r, rqst_id, taken, job, target, slabs, pools,
                   counts>>

(* ssd_shardSync, after the drain.                                          *)
ShardSync(c) ==
    /\ pc[c] = "sync" /\ w[c] = "drained"
    /\ pc' = [pc EXCEPT ![c] = "idle"] /\ op' = [op EXCEPT ![c] = NoOp]
    /\ w' = [w EXCEPT ![c] = "run"] /\ target' = [target EXCEPT ![c] = 0]
    /\ UNCHANGED <<fl, rqst, q, q_r, rqst_id, taken, job, slabs, pools, counts>>

-----------------------------------------------------------------------------
(* SDFNewCacheFlushCache, for a container (flush, inval: flush and          *)
(* invalidate) or from background_flusher (bflush).                         *)

StartFlush(c, t) ==
    /\ pc[c] = "idle" /\ t \in shard.ops[c] \cap {"flush", "inval", "bflush"}
    /\ pc' = [pc EXCEPT ![c] = "scan"] /\ op' = [op EXCEPT ![c].t = t]
    /\ UNCHANGED <<fl, queue, slabs, pools, counts>>

(* The second pass visits bucket 0 of each slab, then bucket 1, ...         *)
SlabAt(i) == i % NSlabs
BucketAt(i) == SlabAt(i) * PerSlab + (i \div NSlabs)
Positions == 0 .. NSlabs * PerSlab - 1

(* Go to the first position from i on whose slab is not flagged.            *)
Visit(c, f, i) ==
    LET rest == {j \in Positions : j >= i /\ SlabAt(j) \notin f.flags}
    IN  IF rest = {}
          THEN /\ pc' = [pc EXCEPT ![c] = "idle"]
               /\ op' = [op EXCEPT ![c] = NoOp]
               /\ fl' = [fl EXCEPT ![c] = NoFlush]
          ELSE /\ pc' = [pc EXCEPT ![c] = "token"] /\ UNCHANGED op
               /\ fl' = [fl EXCEPT ![c] = [f EXCEPT !.i = Min(rest)]]

Untouched(s, inval) == IF inval THEN Cached(s) = {} ELSE Modified(s) = {}

(* First pass, one slab: note whether it holds modified objects, and if     *)
(* the flush invalidates, remove all objects without writing them back.     *)
FlushScan(c) ==
    LET s == fl[c].slab
        inval == op[c].t = "inval"
        f == [fl[c] EXCEPT !.slab = s + 1,
                           !.dirty = @ \/ Modified(s) # {},
                           !.flags = IF Untouched(s, inval) THEN @ \cup {s} ELSE @]
    IN  /\ pc[c] = "scan" /\ ~lock[s]
        /\ cache' = IF inval
                      THEN [k \in Keys |-> IF Slab(k) = s THEN Gone ELSE cache[k]]
                      ELSE cache
        /\ IF s + 1 < NSlabs
             THEN fl' = [fl EXCEPT ![c] = f] /\ UNCHANGED <<pc, op>>
             ELSE Visit(c, [f EXCEPT !.slab = 0],
                        IF f.dirty THEN 0 ELSE NSlabs * PerSlab)
        /\ UNCHANGED <<queue, lock, n_lockers, flash, latest, pools, counts>>

(* n tokens are taken, or for negative n given back.  Only the background   *)
(* flusher uses background tokens, so its two waits are one step.           *)
TakeTokens(c, n) ==
    /\ tokens >= n /\ tokens' = tokens - n
    /\ IF op[c].t = "bflush" THEN btokens >= n /\ btokens' = btokens - n
                             ELSE UNCHANGED btokens

FlushToken(c) ==
    /\ pc[c] = "token"
    /\ TakeTokens(c, 1)
    /\ pc' = [pc EXCEPT ![c] = "lock"]
    /\ UNCHANGED <<op, fl, queue, slabs, counts>>

(* Mutant of FlushSkip: the clean slab is not flagged, but tried again.     *)
FlushSkipRetry(c) ==
    LET s == SlabAt(fl[c].i)
    IN  /\ pc[c] = "lock" /\ ~lock[s] /\ Untouched(s, op[c].t = "inval")
        /\ TakeTokens(c, -1)
        /\ Visit(c, fl[c], fl[c].i)
        /\ UNCHANGED <<queue, slabs, counts>>

(* The slab has been cleaned meanwhile: give the token back, skip the slab. *)
FlushSkip(c) ==
    LET s == SlabAt(fl[c].i)
    IN  /\ pc[c] = "lock" /\ ~lock[s] /\ Untouched(s, op[c].t = "inval")
        /\ TakeTokens(c, -1)
        /\ Visit(c, [fl[c] EXCEPT !.flags = @ \cup {s}], fl[c].i)
        /\ UNCHANGED <<queue, slabs, counts>>

FlushLock(c) ==
    LET s == SlabAt(fl[c].i)
    IN  /\ pc[c] = "lock" /\ ~Untouched(s, op[c].t = "inval")
        /\ TakeSlab(s, 1)
        /\ pc' = [pc EXCEPT ![c] = "bucket"]
        /\ fl' = [fl EXCEPT ![c].nflushed = 0, ![c].absorbed = 0]
        /\ UNCHANGED <<op, queue, cache, flash, latest, pools, counts>>

InBucket(i) == {k \in Keys : BucketOf[k] = BucketAt(i)}

(* flush_fn for a modified object of the bucket.                            *)
FlushEntry(c) ==
    /\ pc[c] = "bucket" /\ w[c] = "run"
    /\ \E k \in InBucket(fl[c].i) :
          /\ cache[k].st = "M"
          /\ AddLocker(Slab(k))
          /\ Post(c, [rtype |-> IF op[c].t = "bflush" THEN "bflush" ELSE "flush",
                      k |-> k, v |-> cache[k].val, skip |-> FALSE])
    /\ fl' = [fl EXCEPT ![c].nflushed = @ + 1]
    /\ UNCHANGED <<pc, op, q, q_r, rqst_id, taken, job, target, cache, flash,
                   latest, pools, counts>>

(* Mutant of FlushUnlock: a token is not returned if nothing was flushed.   *)
FlushUnlockKeep(c) ==
    LET i == fl[c].i
    IN  /\ pc[c] = "bucket" /\ w[c] = "run"
        /\ \A k \in InBucket(i) : cache[k].st # "M"
        /\ UnlockBucket(SlabAt(i))
        /\ pc' = [pc EXCEPT ![c] = "absorb"] /\ UNCHANGED <<op, fl>>
        /\ UNCHANGED <<queue, cache, flash, latest, pools, counts>>

(* The bucket is done: unlock; the primary token goes back if no object was *)
(* flushed.                                                                 *)
FlushUnlock(c) ==
    LET i == fl[c].i
    IN  /\ pc[c] = "bucket" /\ w[c] = "run"
        /\ \A k \in InBucket(i) : cache[k].st # "M"
        /\ UnlockBucket(SlabAt(i))
        /\ cache' = IF op[c].t = "inval"
                      THEN [k \in Keys |-> IF k \in InBucket(i) THEN Gone
                                                                ELSE cache[k]]
                      ELSE cache
        /\ pc' = [pc EXCEPT ![c] = "absorb"]
        /\ IF fl[c].nflushed = 0 THEN TakeTokens(c, -1) ELSE UNCHANGED pools
        /\ UNCHANGED <<op, fl, queue, flash, latest, counts>>

(* Remove the extra tokens that the workers post: one for each object but   *)
(* the first.                                                               *)
FlushAbsorb(c) ==
    /\ pc[c] = "absorb" /\ fl[c].absorbed + 1 < fl[c].nflushed
    /\ TakeTokens(c, 1)
    /\ fl' = [fl EXCEPT ![c].absorbed = @ + 1]
    /\ UNCHANGED <<pc, op, queue, slabs, counts>>

FlushNext(c) ==
    /\ pc[c] = "absorb" /\ fl[c].absorbed + 1 >= fl[c].nflushed
    /\ Visit(c, [fl[c] EXCEPT !.nflushed = 0, !.absorbed = 0], fl[c].i + 1)
    /\ UNCHANGED <<queue, slabs, pools, counts>>

Flush(c) ==
    FlushScan(c) \/ FlushToken(c) \/ FlushSkip(c) \/ FlushLock(c)
        \/ FlushEntry(c) \/ FlushUnlock(c) \/ FlushAbsorb(c) \/ FlushNext(c)

Client(c) ==
    \/ Get(c) \/ Set(c) \/ Del(c) \/ Deleted(c) \/ Evict(c) \/ LoadCache(c)
    \/ CheckLimit(c) \/ Unlock(c)
    \/ QPost(c) \/ QPostFull(c) \/ Acked(c)
    \/ DrainStart(c) \/ Drain(c) \/ ShardSync(c)
    \/ Flush(c)

Start(c) ==
    \/ \E t \in {"get", "set", "del"}, k \in shard.keys : StartObj(c, t, k)
    \/ StartCommit(c) \/ StartSync(c)
    \/ \E t \in {"flush", "inval", "bflush"} : StartFlush(c, t)

Next ==
    /\ \/ \E c \in Clients : Start(c) \/ Client(c)
       \/ \E a \in Pool : Worker(a)
    /\ UNCHANGED shard

Spec == Init /\ [][Next]_vars

(* fthLock and fthMbox serve their waiters in order, so a client that waits *)
(* for a slab or a token gets it if it is free again and again.             *)
FairSpec ==
    /\ Spec
    /\ \A c \in Clients : SF_vars(Client(c) /\ UNCHANGED shard)
    /\ \A a \in Workers : WF_vars(a \in Pool /\ Worker(a) /\ UNCHANGED shard)

-----------------------------------------------------------------------------
Rqst == [rtype : {"none", "put", "writeback", "flush", "bflush", "commit"},
         k : Keys \cup {None}, v : 0 .. shard.max_set, skip : BOOLEAN]

(* Types; the queue holds at most one request per worker (q_size), and a    *)
(* slab is locked exactly while it has lockers.                             *)
TypeOK ==
    /\ shard \in Shards
    /\ pc \in [Clients -> {"idle", "get", "set", "del", "deleted", "load",
                           "limit", "unlock", "commit", "sync", "scan",
                           "token", "lock", "bucket", "absorb"}]
    /\ op \in [Clients -> [t : OpTypes \cup {"none"}, k : Keys \cup {None},
                           v : 0 .. shard.max_set]]
    /\ rqst \in [Clients -> Rqst] /\ job \in [Pool -> Rqst]
    /\ w \in [Clients \cup Pool ->
                {"run", "post", "q_cond", "ack", "acked", "drain0", "drain",
                 "q_drain", "drained", "get", "copy", "write"}]
    /\ q \in Seq(Clients) /\ Len(q) <= QSize
    /\ cache \in [Keys -> [st : {"I", "S", "M"}, val : 0 .. shard.max_set]]
    /\ \A s \in DOMAIN lock : n_lockers[s] \in Nat /\ lock[s] = (n_lockers[s] > 0)
    /\ \A s \in DOMAIN lock : Cardinality(Cached(s)) <= shard.pages

(* What a thread finds when it locks a slab: the cached value of an object  *)
(* is the last one written; an object that is not cached or not modified    *)
(* has that value on flash, because the slab stays locked until every write *)
(* that was posted under its lock has reached flash                         *)
(* (SDFNewCacheAddLocker, SDFNewUnlockBucket).                              *)
CacheCoherent ==
    \A k \in Keys : ~lock[Slab(k)] =>
        /\ cache[k].st # "I" => cache[k].val = latest[k]
        /\ cache[k].st # "M" => flash[k] = latest[k]

(* A worker that is about to copy a request finds its poster still waiting  *)
(* for the ack, so that the request on the poster's stack is intact         *)
(* (async_do: copies, then posts the ack; async_qpost: waits); and so does  *)
(* every request in the queue.                                              *)
RqstValid ==
    /\ \A a \in Pool : w[a] = "copy" => w[taken[a]] = "ack"
    /\ \A i \in DOMAIN q : w[q[i]] = "ack" /\ rqst[q[i]].rtype # "none"
    /\ IsInjective(q)

Outstanding ==
    {<<"q", q[i]>> : i \in DOMAIN q} \cup
    {<<"a", a>> : a \in {b \in Pool : w[b] \in {"copy", "write"}}}

RqstOf(x) ==
    CASE x[1] = "q" -> rqst[x[2]]
      [] w[x[2]] = "copy" -> rqst[taken[x[2]]]
      [] OTHER -> job[x[2]]

Writes(x) == RqstOf(x).rtype # "commit" /\ ~RqstOf(x).skip

(* No two writes of one object to flash are under way at once.  The workers *)
(* write in any order, and the test that would keep two writes of a key     *)
(* apart, clashes(), is compiled out.                                       *)
NoClash ==
    \A x, y \in Outstanding :
        x # y /\ Writes(x) /\ Writes(y) => RqstOf(x).k # RqstOf(y).k

IsFlushJob(r) == r.rtype \in {"flush", "bflush"}

(* A flusher holds its primary token until its first flush is posted; then  *)
(* the flush carries it.                                                    *)
Primary(c) ==
    IF pc[c] = "lock" \/ (pc[c] = "bucket" /\ fl[c].nflushed = 0) THEN 1 ELSE 0

ToAbsorb(c) ==
    IF pc[c] \in {"bucket", "absorb"} /\ fl[c].nflushed > 0
      THEN fl[c].nflushed - 1 - fl[c].absorbed ELSE 0

FlushesOut ==
    Cardinality({x \in Outstanding : IsFlushJob(RqstOf(x))})
    + Cardinality({c \in Clients : w[c] \in {"post", "q_cond"} /\ IsFlushJob(rqst[c])})

(* The flush tokens are conserved: those in the pool, with the flushers and *)
(* with the flushes under way, less the extra ones that flushers have still *)
(* to remove, are max_flushes_in_progress (SDFNewCacheFlushCache,           *)
(* SDFNewCacheFlushComplete).                                               *)
TokensConserved ==
    tokens + FlushesOut + MapThenSumSet(Primary, Clients)
        = shard.tokens + MapThenSumSet(ToAbsorb, Clients)

(* Every call returns: clients, workers and the background flusher do not   *)
(* wait for each other in a circle, and no wake-up is lost.  (With no more  *)
(* posters than workers plus one, and fewer commits than workers.)          *)
OpsReturn == \A c \in Clients : pc[c] # "idle" ~> pc[c] = "idle"
=============================================================================
