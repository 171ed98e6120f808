---------------------------- MODULE MCWriteCache ----------------------------
(* Small instances of WriteCache for TLC.                                   *)
EXTENDS WriteCache, TLC

CONSTANTS c1, c2, a1, a2, k1, k2, k3

(* k1 and k2 share a bucket of slab 0; k3 is in slab 1.                     *)
TwoSlabs == k1 :> 0 @@ k2 :> 0 @@ k3 :> 2

Ops(x, y) == c1 :> x @@ c2 :> y

(* A shard: its pool, what the two clients call, mode, pages, limit, tokens.*)
Config(pool, ops, wt, async, pages, limit, keys, max_set) ==
    [workers |-> pool, ops |-> ops, writethru |-> wt, async_writes |-> async,
     pages |-> pages, mod_limit |-> limit, tokens |-> 1, btokens |-> 1,
     keys |-> keys, max_set |-> max_set]

SmallShards == {
    \* writethru: a full queue, deletes, flush and invalidate
    Config({a1}, Ops({"get", "set", "del"}, {"set", "inval"}),
           TRUE, TRUE, 1, 1, {k1, k2, k3}, 2),
    \* writeback, two workers: evictions, sync and commit
    Config({a1, a2}, Ops({"set"}, {"sync", "commit"}),
           FALSE, TRUE, 1, 1, {k1, k2}, 2),
    \* an asynchronous put and the writeback of the same object
    Config({a1, a2}, Ops({"set"}, {"get"}), FALSE, TRUE, 1, 0, {k1}, 2),
    \* writeback without asynchronous puts: the limit on modified objects
    Config({a1}, Ops({"set", "del"}, {"get", "flush"}),
           FALSE, FALSE, 2, 1, {k1, k2}, 3),
    \* writeback: two flushes of one bucket, the background flusher
    Config({a1}, Ops({"set", "flush"}, {"bflush"}),
           FALSE, FALSE, 2, 2, {k1, k2}, 3)}
=============================================================================
