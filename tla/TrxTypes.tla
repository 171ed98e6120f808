------------------------------ MODULE TrxTypes ------------------------------
(***************************************************************************)
(* Proofs about TrxTable: the types, and which thread concludes what.      *)
(*                                                                         *)
(* OneConcluder follows from IInv alone (ConcludedOnce).  Everything else  *)
(* rests on Types: what the table, the buffers of the transactions, the    *)
(* log and the hash table hold, and where each thread is in its call.      *)
(* NextKinds sorts the steps by what they do to a transaction, which is    *)
(* what the proofs of TrxBlocks and TrxCommits go through.                 *)
(***************************************************************************)
EXTENDS TrxTable, TLAPS

(* trx_find returns a transaction of the table with the ID asked for.       *)
LEMMA FindIn ==
    ASSUME NEW id, Found(id)
    PROVE  trx_find(id) \in trxtable /\ trx_find(id).id = id
BY DEF Found, trx_find

(* mcd_trx_rec_avail keeps the transaction a record with the same ID.       *)
LEMMA WithRecShape ==
    ASSUME NEW x, NEW r, NEW mem, IsTrx(x)
    PROVE  IsTrx(WithRec(x, r, mem)) /\ WithRec(x, r, mem).id = x.id
BY Zenon DEF IsTrx, WithRec

LEMMA InitIInv == Init => IInv
BY SMT DEF Init, IInv, IdsDrawn, FreshId, OneConcluder, IsTrx, NoTrx

(* A step that leaves the table, the IDs and the concluders alone and puts  *)
(* no thread before trx_add keeps the invariant.                            *)
LEMMA Frame ==
    ASSUME IInv, UNCHANGED <<trxid, next_trx_id, trxtable, own>>,
           NEW t \in Threads, NEW l, l # "add", pc' = [pc EXCEPT ![t] = l]
    PROVE  IInv'
BY SMT DEF IInv, IdsDrawn, FreshId, OneConcluder, IsTrx

(* The same for a step that also changes the thread's own ID to id.         *)
LEMMA FrameId ==
    ASSUME IInv, UNCHANGED <<next_trx_id, trxtable, own>>,
           NEW t \in Threads, NEW l, l # "add", pc' = [pc EXCEPT ![t] = l],
           NEW id \in 0 .. next_trx_id, trxid' = [trxid EXCEPT ![t] = id]
    PROVE  IInv'
<1>1. IdsDrawn'
  BY SMT DEF IInv, IdsDrawn, IsTrx
<1>2. FreshId'
  BY SMT DEF IInv, IdsDrawn, FreshId
<1>3. OneConcluder'
  BY SMT DEF IInv, IdsDrawn, OneConcluder
<1> QED
  BY <1>1, <1>2, <1>3 DEF IInv

(* The same for the thread that concludes its transaction and frees it.     *)
LEMMA FrameFree ==
    ASSUME IInv, UNCHANGED <<trxid, next_trx_id, trxtable>>,
           NEW t \in Threads, own' = [own EXCEPT ![t] = NoTrx],
           pc' = [pc EXCEPT ![t] = "idle"]
    PROVE  IInv'
<1>0. IsTrx(NoTrx) /\ NoTrx.id = 0
  BY DEF IsTrx, NoTrx
<1>1. IdsDrawn'
  BY <1>0, SMT DEF IInv, IdsDrawn, IsTrx
<1>2. FreshId'
  BY <1>0, SMT DEF IInv, IdsDrawn, FreshId
<1>3. OneConcluder'
  BY <1>0, SMT DEF IInv, IdsDrawn, OneConcluder
<1> QED
  BY <1>1, <1>2, <1>3 DEF IInv

(* A transaction of the table that changes in any field but its ID.         *)
LEMMA FrameRec ==
    ASSUME IInv, UNCHANGED <<trxid, next_trx_id, own>>,
           NEW t \in Threads, pc' = [pc EXCEPT ![t] = "idle"],
           NEW x \in trxtable, NEW y, IsTrx(y), y.id = x.id,
           trxtable' = (trxtable \ {x}) \cup {y}
    PROVE  IInv'
<1>1. IdsDrawn'
  BY SMT DEF IInv, IdsDrawn, IsTrx
<1>2. FreshId'
  BY SMT DEF IInv, IdsDrawn, FreshId
<1>3. OneConcluder'
  BY SMT DEF IInv, IdsDrawn, OneConcluder
<1> QED
  BY <1>1, <1>2, <1>3 DEF IInv

(* trx_del moves the transaction from the table to the thread.              *)
LEMMA FrameDel ==
    ASSUME IInv, UNCHANGED next_trx_id,
           NEW t \in Threads, NEW l, l # "add", pc' = [pc EXCEPT ![t] = l],
           NEW x \in trxtable,
           own' = [own EXCEPT ![t] = x], trxtable' = trxtable \ {x},
           NEW id \in 0 .. next_trx_id, trxid' = [trxid EXCEPT ![t] = id]
    PROVE  IInv'
<1>1. IdsDrawn'
  BY SMT DEF IInv, IdsDrawn, IsTrx
<1>2. FreshId'
  BY SMT DEF IInv, IdsDrawn, FreshId
<1>3. OneConcluder'
  BY SMT DEF IInv, IdsDrawn, OneConcluder
<1> QED
  BY <1>1, <1>2, <1>3 DEF IInv

(* trx_del in any of its three callers, which set the thread's ID to id.    *)
LEMMA DelIInv ==
    ASSUME IInv, UNCHANGED next_trx_id, NEW t \in Threads, NEW l, l # "add",
           NEW d, trx_del(t, d, l),
           NEW id \in 0 .. next_trx_id, trxid' = [trxid EXCEPT ![t] = id]
    PROVE  IInv'
<1>1. CASE Found(d)
  <2>1. trx_find(d) \in trxtable
    BY <1>1, FindIn
  <2>2. /\ own' = [own EXCEPT ![t] = trx_find(d)]
        /\ trxtable' = trxtable \ {trx_find(d)}
        /\ pc' = [pc EXCEPT ![t] = l]
    BY <1>1 DEF trx_del
  <2> QED
    BY <2>1, <2>2, FrameDel, Zenon
<1>2. CASE ~Found(d)
  <2>1. UNCHANGED <<trxtable, own>> /\ pc' = [pc EXCEPT ![t] = "idle"]
    BY <1>2 DEF trx_del, Return
  <2> QED
    BY <2>1, FrameId, Zenon
<1> QED
  BY <1>1, <1>2

(* An object operation: its record goes to the transaction or to the log.   *)
LEMMA ChangeIInv ==
    ASSUME IInv, NEW t \in Threads, NEW o, NEW r, Change(t, o, r)
    PROVE  IInv'
<1>0. pc' = [pc EXCEPT ![t] = "idle"] /\ UNCHANGED <<next_trx_id, own>>
  BY DEF Change, Return
<1>1. ASSUME NEW mem \in BOOLEAN, Captured(t, o[1], r, mem)
      PROVE  IInv'
  <2> DEFINE x == trx_find(trxid[t])
             z == [x EXCEPT !.s = o[1]]
             y == IF x.s \notin {NoThread, o[1]}
                  THEN [x EXCEPT !.status = "BAD_SHARD"] ELSE WithRec(z, r, mem)
  <2>1. x \in trxtable
    BY <1>1, FindIn DEF Captured
  <2>2. IsTrx(x)
    BY <2>1 DEF IInv, IdsDrawn
  <2>3. IsTrx(z) /\ z.id = x.id
    BY <2>2 DEF IsTrx
  <2>4. IsTrx(WithRec(z, r, mem)) /\ WithRec(z, r, mem).id = x.id
    BY <2>3, WithRecShape, Zenon
  <2>5. IsTrx([x EXCEPT !.status = "BAD_SHARD"])
        /\ [x EXCEPT !.status = "BAD_SHARD"].id = x.id
    BY <2>2 DEF IsTrx
  <2>6. IsTrx(y) /\ y.id = x.id
    BY <2>4, <2>5
  <2>7. trxtable' = (trxtable \ {x}) \cup {y} /\ UNCHANGED trxid
    BY <1>1 DEF Captured
  <2> HIDE DEF x, y
  <2> QED
    BY <1>0, <2>1, <2>6, <2>7, FrameRec, Zenon
<1>2. CASE Logged(t, o[1], r)
  <2>1. trxid' = [trxid EXCEPT ![t] = 0] /\ UNCHANGED trxtable
    BY <1>2 DEF Logged
  <2>2. 0 \in 0 .. next_trx_id
    BY DEF IInv, IdsDrawn
  <2> QED
    BY <1>0, <2>1, <2>2, FrameId, Zenon
<1> QED
  BY <1>1, <1>2 DEF Change

(* A new transaction gets an ID above all others.                           *)
LEMMA StartIInv ==
    ASSUME IInv, NEW t \in Threads, mcd_trx_start(t)
    PROVE  IInv'
<1>1. CASE Found(trxid[t])
  <2>1. pc' = [pc EXCEPT ![t] = "idle"] /\ UNCHANGED <<trxid, next_trx_id, trxtable, own>>
    BY <1>1 DEF mcd_trx_start, Return
  <2> QED
    BY <2>1, Frame, Zenon
<1>2. CASE ~Found(trxid[t])
  <2>1. /\ next_trx_id' = next_trx_id + 1
        /\ trxid' = [trxid EXCEPT ![t] = next_trx_id + 1]
        /\ pc' = [pc EXCEPT ![t] = "add"]
        /\ UNCHANGED <<trxtable, own>>
    BY <1>2 DEF mcd_trx_start
  <2>2. IdsDrawn'
    BY <2>1, SMT DEF IInv, IdsDrawn, IsTrx
  <2>3. FreshId'
    BY <2>1, SMT DEF IInv, IdsDrawn, FreshId
  <2>4. OneConcluder'
    BY <2>1, SMT DEF IInv, IdsDrawn, OneConcluder
  <2> QED
    BY <2>2, <2>3, <2>4 DEF IInv
<1> QED
  BY <1>1, <1>2

(* Entering it in the table keeps the IDs there distinct.                   *)
LEMMA AddIInv ==
    ASSUME IInv, NEW t \in Threads, trx_add(t)
    PROVE  IInv'
<1> DEFINE n == mcd_trx_alloc(trxid[t])
<1>0. IsTrx(n) /\ n.id = trxid[t]
  BY DEF IsTrx, mcd_trx_alloc
<1>1. /\ pc[t] = "add" /\ pc' = [pc EXCEPT ![t] = "idle"]
      /\ trxtable' = trxtable \cup {n}
      /\ UNCHANGED <<trxid, next_trx_id, own>>
  BY DEF trx_add, Return
<1> HIDE DEF n
<1>2. IdsDrawn'
  BY <1>0, <1>1, SMT DEF IInv, IdsDrawn, FreshId, IsTrx
<1>3. FreshId'
  BY <1>0, <1>1, SMT DEF IInv, IdsDrawn, FreshId
<1>4. OneConcluder'
  BY <1>0, <1>1, SMT DEF IInv, IdsDrawn, FreshId, OneConcluder
<1> QED
  BY <1>2, <1>3, <1>4 DEF IInv

(* A step of rollback changes at most the status of the thread's            *)
(* transaction.                                                             *)
LEMMA RevertIInv ==
    ASSUME IInv, NEW t \in Threads, Revert(t)
    PROVE  IInv'
<1>1. /\ UNCHANGED <<trxid, next_trx_id, trxtable, pc>>
      /\ own' = own \/ own' = [own EXCEPT ![t] = [@ EXCEPT !.status = "HASHTABLE_FULL"]]
  BY DEF Revert, table
<1> DEFINE y == [own[t] EXCEPT !.status = "HASHTABLE_FULL"]
<1>2. IsTrx(y) /\ y.id = own[t].id
  BY DEF IInv, IdsDrawn, IsTrx
<1>3. own' = own \/ own' = [own EXCEPT ![t] = y]
  BY <1>1
<1> HIDE DEF y
<1>4. IdsDrawn'
  BY <1>1, <1>2, <1>3, SMT DEF IInv, IdsDrawn, IsTrx
<1>5. \A u \in Threads : own'[u].id = own[u].id
  BY <1>2, <1>3, SMT DEF IInv, IdsDrawn
<1>6. FreshId' /\ OneConcluder'
  BY <1>1, <1>5, SMT DEF IInv, FreshId, OneConcluder
<1> QED
  BY <1>4, <1>6, Zenon DEF IInv

LEMMA NextIInv == IInv /\ [Next]_vars => IInv'
<1> SUFFICES ASSUME IInv, [Next]_vars PROVE IInv'
  OBVIOUS
<1>0. 0 \in 0 .. next_trx_id /\ \A u \in Threads : trxid[u] \in 0 .. next_trx_id
  BY DEF IInv, IdsDrawn
<1>s. CASE UNCHANGED vars
  BY <1>s DEF vars, table, IInv, IdsDrawn, FreshId, OneConcluder, IsTrx
<1>c. ASSUME NEW t \in Threads, Calls(t)
      PROVE  IInv'
  <2>1. PICK op \in {"start", "detach", "id", "commit", "rollback", "attach",
                     "commit_id", "put", "delete"} : \E a : Invoke(t, op, a)
    BY <1>c DEF Calls
  <2>2. pc' = [pc EXCEPT ![t] = op] /\ UNCHANGED <<trxid, next_trx_id, trxtable, own>>
    BY <2>1 DEF Invoke, table
  <2>3. op # "add"
    OBVIOUS
  <2> QED
    BY <2>2, <2>3, Frame, Zenon
<1>t. ASSUME NEW t \in Threads, Step(t)
      PROVE  IInv'
  <2>1. CASE mcd_trx_start(t)
    BY <2>1, StartIInv
  <2>2. CASE trx_add(t)
    BY <2>2, AddIInv
  <2>3. CASE mcd_trx_attach(t)
    <3>1. /\ pc' = [pc EXCEPT ![t] = "idle"] \/ pc' = [pc EXCEPT ![t] = "attach2"]
          /\ UNCHANGED <<trxid, next_trx_id, trxtable, own>>
      BY <2>3 DEF mcd_trx_attach, Return, table
    <3> QED
      BY <3>1, Frame
  <2>4. CASE Attach(t)
    <3>1. /\ pc' = [pc EXCEPT ![t] = "idle"]
          /\ UNCHANGED <<next_trx_id, trxtable, own>>
          /\ trxid' = [trxid EXCEPT ![t] = IF Found(arg[t]) THEN arg[t] ELSE trxid[t]]
      BY <2>4 DEF Attach, Return
    <3>2. Found(arg[t]) => arg[t] \in 0 .. next_trx_id
      BY DEF Found, IInv, IdsDrawn
    <3>3. (IF Found(arg[t]) THEN arg[t] ELSE trxid[t]) \in 0 .. next_trx_id
      BY <1>0, <3>2
    <3> QED
      BY <3>1, <3>3, FrameId, Zenon
  <2>5. CASE mcd_trx_detach(t)
    <3>1. /\ pc' = [pc EXCEPT ![t] = "idle"] /\ trxid' = [trxid EXCEPT ![t] = 0]
          /\ UNCHANGED <<next_trx_id, trxtable, own>>
      BY <2>5 DEF mcd_trx_detach, Return
    <3> QED
      BY <1>0, <3>1, FrameId, Zenon
  <2>6. CASE mcd_trx_id(t)
    <3>1. /\ pc' = [pc EXCEPT ![t] = "idle"]
          /\ trxid' = trxid \/ trxid' = [trxid EXCEPT ![t] = 0]
          /\ UNCHANGED <<next_trx_id, trxtable, own>>
      BY <2>6 DEF mcd_trx_id, Return
    <3>2. CASE trxid' = trxid
      BY <3>1, <3>2, Frame, Zenon
    <3>3. CASE trxid' = [trxid EXCEPT ![t] = 0]
      BY <1>0, <3>1, <3>3, FrameId, Zenon
    <3> QED
      BY <3>1, <3>2, <3>3
  <2>7. CASE mcd_trx_commit(t)
    <3>1. /\ trx_del(t, trxid[t], "log") /\ UNCHANGED next_trx_id
          /\ trxid' = [trxid EXCEPT ![t] = IF Found(trxid[t]) THEN 0 ELSE trxid[t]]
      BY <2>7 DEF mcd_trx_commit
    <3>2. (IF Found(trxid[t]) THEN 0 ELSE trxid[t]) \in 0 .. next_trx_id
      BY <1>0
    <3> QED
      BY <3>1, <3>2, DelIInv, Zenon
  <2>8. CASE mcd_trx_rollback(t)
    <3>1. /\ trx_del(t, trxid[t], "revert") /\ UNCHANGED next_trx_id
          /\ trxid' = [trxid EXCEPT ![t] = IF Found(trxid[t]) THEN 0 ELSE trxid[t]]
      BY <2>8 DEF mcd_trx_rollback
    <3>2. (IF Found(trxid[t]) THEN 0 ELSE trxid[t]) \in 0 .. next_trx_id
      BY <1>0
    <3> QED
      BY <3>1, <3>2, DelIInv, Zenon
  <2>9. CASE mcd_trx_commit_id(t)
    <3>1. trx_del(t, arg[t], "log") /\ UNCHANGED <<trxid, next_trx_id>>
      BY <2>9 DEF mcd_trx_commit_id
    <3>2. trxid' = [trxid EXCEPT ![t] = trxid[t]]
      BY <3>1 DEF IInv, IdsDrawn
    <3> QED
      BY <1>0, <3>1, <3>2, DelIInv, Zenon
  <2>10. CASE CommitStart(t)
    <3>1. /\ pc' = [pc EXCEPT ![t] = "write"] \/ pc' = [pc EXCEPT ![t] = "pad"]
          /\ UNCHANGED <<trxid, next_trx_id, trxtable, own>>
      BY <2>10, Zenon DEF CommitStart, table
    <3> QED
      BY <3>1, Frame
  <2>17. CASE CommitPad(t)
    <3>1. UNCHANGED <<trxid, next_trx_id, trxtable, own>>
      BY <2>17 DEF CommitPad, table
    <3>2. CASE i[t] = 1
      <4>1. pc' = [pc EXCEPT ![t] = "write"]
        BY <2>17, <3>2 DEF CommitPad
      <4> QED
        BY <3>1, <4>1, Frame, Zenon
    <3>3. CASE i[t] # 1
      <4>1. UNCHANGED pc
        BY <2>17, <3>3 DEF CommitPad
      <4> QED
        BY <3>1, <4>1 DEF IInv, IdsDrawn, FreshId, OneConcluder, IsTrx
    <3> QED
      BY <3>2, <3>3
  <2>11. CASE CommitWrite(t)
    <3>1. UNCHANGED <<trxid, next_trx_id, trxtable>>
      BY <2>11 DEF CommitWrite, table
    <3>2. CASE i[t] = Len(own[t].recs)
      <4>1. own' = [own EXCEPT ![t] = NoTrx] /\ pc' = [pc EXCEPT ![t] = "idle"]
        BY <2>11, <3>2 DEF CommitWrite, Return
      <4> QED
        BY <3>1, <4>1, FrameFree, Zenon
    <3>3. CASE i[t] # Len(own[t].recs)
      <4>1. UNCHANGED <<own, pc>>
        BY <2>11, <3>3 DEF CommitWrite
      <4> QED
        BY <3>1, <4>1 DEF IInv, IdsDrawn, FreshId, OneConcluder, IsTrx
    <3> QED
      BY <3>2, <3>3
  <2>12. CASE CommitNothing(t)
    <3>1. /\ own' = [own EXCEPT ![t] = NoTrx] /\ pc' = [pc EXCEPT ![t] = "idle"]
          /\ UNCHANGED <<trxid, next_trx_id, trxtable>>
      BY <2>12 DEF CommitNothing, Return, table
    <3> QED
      BY <3>1, FrameFree, Zenon
  <2>13. CASE Revert(t)
    BY <2>13, RevertIInv
  <2>14. CASE RevertEnd(t)
    <3>1. /\ own' = [own EXCEPT ![t] = NoTrx] /\ pc' = [pc EXCEPT ![t] = "idle"]
          /\ UNCHANGED <<trxid, next_trx_id, trxtable>>
      BY <2>14 DEF RevertEnd, Return, table
    <3> QED
      BY <3>1, FrameFree, Zenon
  <2>15. CASE Put(t)
    BY <2>15, ChangeIInv DEF Put
  <2>16. CASE Delete(t)
    <3>1. CASE ht[arg[t]] = {}
      <4>1. pc' = [pc EXCEPT ![t] = "idle"] /\ UNCHANGED <<trxid, next_trx_id, trxtable, own>>
        BY <2>16, <3>1 DEF Delete, Return, table
      <4> QED
        BY <4>1, Frame, Zenon
    <3>2. CASE ht[arg[t]] # {}
      BY <2>16, <3>2, ChangeIInv, Zenon DEF Delete
    <3> QED
      BY <3>1, <3>2
  <2> QED
    BY <1>t, <2>1, <2>2, <2>3, <2>4, <2>5, <2>6, <2>7, <2>8, <2>9, <2>10, <2>11,
       <2>12, <2>13, <2>14, <2>15, <2>16, <2>17 DEF Step
<1> QED
  BY <1>s, <1>c, <1>t DEF Next

(* Exactly one thread concludes a transaction: commit, commit_id and        *)
(* rollback of the same ID never work on it at the same time, and a         *)
(* transaction being concluded is not in trxtable.                          *)
THEOREM ConcludedOnce == Spec => []OneConcluder
<1>1. Init => IInv
  BY InitIInv
<1>2. IInv /\ [Next]_vars => IInv'
  BY NextIInv
<1>3. IInv => OneConcluder
  BY DEF IInv
<1> QED
  BY <1>1, <1>2, <1>3, PTL DEF Spec
-----------------------------------------------------------------------------
(* Integer division.                                                        *)
LEMMA DivBound ==
    ASSUME NEW a \in Nat, NEW d \in Nat, d > 0
    PROVE  (a \div d) \in Nat /\ (a \div d) * d <= a /\ a < (a \div d) * d + d
OBVIOUS

(* Multiplication is monotone.                                              *)
LEMMA MulMono ==
    ASSUME NEW a \in Nat, NEW b \in Nat, NEW c \in Nat, a <= b
    PROVE  a * c <= b * c
OBVIOUS

-----------------------------------------------------------------------------
(* Types, and where a thread is in its call.                                *)

Concluding == {"log", "pad", "write", "revert"}

(* What a transaction holds fits into its buffer.                           *)
Contents(x) ==
    /\ x.s \in Shards \cup {NoThread} /\ x.recs \in Seq(Recs) /\ x.nmax \in 0 .. TrxLimit
    /\ x.status \in Statuses
    /\ Len(x.recs) <= x.nmax /\ (Len(x.recs) > 0 => x.s \in Shards)

Buffers ==
    /\ \A x \in trxtable : Contents(x) /\ (x.status = "OKAY" => x.nmax > 0)
    /\ \A t \in Threads : Contents(own[t])

(* At step l, with transaction x, argument a and loop counter j.            *)
At(l, x, a, j) ==
    /\ IF l \in Concluding THEN x.id # 0 ELSE x = NoTrx
    /\ l \in {"put", "delete"} => a \in Objs
    /\ l = "revert" => j <= Len(x.recs)
    /\ l \in {"pad", "write"} => j > 0 /\ Len(x.recs) > 0
    /\ l = "write" => j <= Len(x.recs)

Control ==
    /\ pc \in [Threads -> Labels] /\ arg = [t \in Threads |-> arg[t]]
    /\ i \in [Threads -> 0 .. TotalSlots]
    /\ \A t \in Threads : At(pc[t], own[t], arg[t], i[t])

LogRecs == [slot : Nat, rec : Recs \cup {Pad}, trx : {"NO", "OP", "LAST"}, tid : Nat]

Stored ==
    /\ fill_lock \in [Shards -> Threads \cup {NoThread}]
    /\ next_fill \in [Shards -> Nat]
    /\ log \in [Shards -> Seq(LogRecs)]
    /\ nblk \in Nat /\ ht \in [Objs -> SUBSET Nat]
    /\ clash \subseteq Objs /\ late \subseteq Objs

Types == IInv /\ Buffers /\ Control /\ Stored

(* What the steps of a thread do, in a few kinds.  Outside of a conclusion, *)
(* the thread at most goes to another step ...                              *)
Calm(t) ==
    /\ pc[t] \notin Concluding /\ UNCHANGED <<own, i, store, ghost>>
    /\ \E l \in Labels \ Concluding : \E a :
         /\ pc' = [pc EXCEPT ![t] = l] /\ arg' = [arg EXCEPT ![t] = a]
         /\ l \in {"put", "delete"} => a \in Objs

Stays(t) == Calm(t) /\ UNCHANGED trxtable

(* ... enters an empty transaction in the table ...                         *)
Adds(t) ==
    Calm(t) /\ pc[t] = "add" /\ trxtable' = trxtable \cup {mcd_trx_alloc(trxid[t])}

(* ... takes one for conclusion ...                                         *)
Takes(t) ==
    /\ pc[t] \notin Concluding /\ UNCHANGED <<arg, store, ghost>>
    /\ \E x \in trxtable, l \in {"log", "revert"} :
         /\ own' = [own EXCEPT ![t] = x] /\ trxtable' = trxtable \ {x}
         /\ i' = [i EXCEPT ![t] = Len(x.recs)] /\ pc' = [pc EXCEPT ![t] = l]

(* ... or changes an object: a fresh block takes the place of the old one,  *)
(* if there is one, or the old one is deleted.                              *)
Creates(o, r) ==
    /\ nblk' = nblk + 1 /\ r.blk = nblk + 1 /\ ~r.del
    /\ r.old \in ht[o] \/ (r.old = 0 /\ ht[o] = {})

Deletes(o, r) == nblk' = nblk /\ r.del /\ r.blk = r.old /\ r.old \in ht[o]

Changing(t) ==
    /\ pc[t] \in {"put", "delete"}
    /\ \E o \in Objs, r \in Recs :
         Change(t, o, r) /\ r.obj = o /\ (Creates(o, r) \/ Deletes(o, r))

Kinds(t) ==
    \/ Stays(t) \/ Adds(t) \/ Takes(t) \/ CommitStart(t) \/ CommitPad(t) \/ CommitWrite(t)
    \/ CommitNothing(t) \/ Revert(t) \/ RevertEnd(t) \/ Changing(t)

LEMMA SameArg ==
    ASSUME arg = [u \in Threads |-> arg[u]], NEW t \in Threads
    PROVE  arg = [arg EXCEPT ![t] = arg[t]]
BY Zenon

LEMMA CallsKind ==
    ASSUME Types, NEW t \in Threads, Calls(t)
    PROVE  Stays(t)
<1>1. PICK op, a :
        /\ op \in {"start", "detach", "id", "commit", "rollback", "attach", "commit_id",
                  "put", "delete"}
        /\ Invoke(t, op, a) /\ (op \in {"put", "delete"} => a \in Objs)
  BY SMT DEF Calls
<1>2. op \in Labels \ Concluding /\ "idle" \notin Concluding
  BY <1>1, SMT DEF Labels, Concluding
<1> QED
  BY <1>1, <1>2, Zenon DEF Invoke, Stays, Calm, table

LEMMA StartKind ==
    ASSUME Types, NEW t \in Threads,
           mcd_trx_start(t) \/ mcd_trx_attach(t) \/ Attach(t) \/ mcd_trx_detach(t) \/ mcd_trx_id(t)
    PROVE  Stays(t)
<1>1. pc[t] \in {"start", "attach", "attach2", "detach", "id"}
  BY Zenon DEF mcd_trx_start, mcd_trx_attach, Attach, mcd_trx_detach, mcd_trx_id
<1>2. pc[t] \notin Concluding
  BY <1>1, SMT DEF Concluding
<1>3. PICK l \in {"idle", "add", "attach2"} : \E a :
        pc' = [pc EXCEPT ![t] = l] /\ arg' = [arg EXCEPT ![t] = a]
  BY SameArg, Zenon DEF mcd_trx_start, mcd_trx_attach, Attach, mcd_trx_detach, mcd_trx_id, Return,
     Types, Control
<1>4. PICK a : pc' = [pc EXCEPT ![t] = l] /\ arg' = [arg EXCEPT ![t] = a]
  BY <1>3, Zenon
<1>5. l \in Labels \ Concluding /\ l \notin {"put", "delete"}
  BY <1>4, SMT DEF Labels, Concluding
<1>6. UNCHANGED <<own, i, store, ghost, trxtable>>
  BY Zenon DEF mcd_trx_start, mcd_trx_attach, Attach, mcd_trx_detach, mcd_trx_id, table
<1> QED
  BY <1>2, <1>4, <1>5, <1>6, Zenon DEF Stays, Calm

LEMMA AddKind ==
    ASSUME Types, NEW t \in Threads, trx_add(t)
    PROVE  Adds(t)
<1>1. "add" \notin Concluding /\ "idle" \in Labels \ Concluding /\ "idle" \notin {"put", "delete"}
  BY SMT DEF Labels, Concluding
<1> QED
  BY <1>1, Zenon DEF trx_add, Adds, Calm, Return

LEMMA DelKind ==
    ASSUME Types, NEW t \in Threads, NEW l \in {"log", "revert"}, NEW d, trx_del(t, d, l),
           pc[t] \notin Concluding, UNCHANGED <<store, ghost>>
    PROVE  Stays(t) \/ Takes(t)
<1>1. CASE Found(d)
  <2>1. trx_find(d) \in trxtable
    BY <1>1, FindIn
  <2> QED
    BY <1>1, <2>1, Zenon DEF trx_del, Takes
<1>2. CASE ~Found(d)
  <2>1. "idle" \in Labels \ Concluding /\ "idle" \notin {"put", "delete"}
    BY SMT DEF Labels, Concluding
  <2> QED
    BY <1>2, <2>1, Zenon DEF trx_del, Stays, Calm, Return
<1> QED
  BY <1>1, <1>2

LEMMA ChangeKind ==
    ASSUME Types, NEW t \in Threads, Put(t) \/ Delete(t)
    PROVE  Changing(t) \/ Stays(t)
<1>1. pc[t] \in {"put", "delete"} /\ arg[t] \in Objs
  BY Zenon DEF Put, Delete, Types, Control, At
<1>2. nblk \in Nat /\ ht[arg[t]] \in SUBSET Nat
  BY <1>1, Zenon DEF Types, Stored
<1>3. ASSUME NEW b \in Nat, NEW old \in Nat, NEW d \in BOOLEAN
      PROVE  [blk |-> b, old |-> old, obj |-> arg[t], del |-> d] \in Recs
  BY <1>1, Zenon DEF Recs
<1>4. nblk + 1 \in Nat /\ 0 \in Nat /\ TRUE \in BOOLEAN /\ FALSE \in BOOLEAN
  BY <1>2
<1>5. CASE Put(t)
  <2>1. PICK old \in IF ht[arg[t]] = {} THEN {0} ELSE ht[arg[t]] :
          Change(t, arg[t], [blk |-> nblk + 1, old |-> old, obj |-> arg[t], del |-> FALSE])
    BY <1>5, Zenon DEF Put
  <2>2. old \in Nat /\ (old \in ht[arg[t]] \/ (old = 0 /\ ht[arg[t]] = {}))
    BY <1>2, <1>4, <2>1, Zenon
  <2>3. nblk' = nblk + 1
    BY <1>5 DEF Put
  <2> DEFINE r == [blk |-> nblk + 1, old |-> old, obj |-> arg[t], del |-> FALSE]
  <2>4. r \in Recs
    BY <1>3, <1>4, <2>2, Zenon
  <2>5. r.obj = arg[t] /\ r.blk = nblk + 1 /\ ~r.del /\ r.old = old
    BY Zenon
  <2>6. Creates(arg[t], r)
    BY <2>2, <2>3, <2>5, Zenon DEF Creates
  <2>7. Change(t, arg[t], r)
    BY <2>1
  <2> HIDE DEF r
  <2> QED
    BY <1>1, <2>4, <2>5, <2>6, <2>7, Zenon DEF Changing
<1>6. CASE Delete(t) /\ ht[arg[t]] # {}
  <2>1. PICK old \in ht[arg[t]] :
          Change(t, arg[t], [blk |-> old, old |-> old, obj |-> arg[t], del |-> TRUE])
    BY <1>6, Zenon DEF Delete
  <2>3. nblk' = nblk
    BY <1>6 DEF Delete
  <2> DEFINE r == [blk |-> old, old |-> old, obj |-> arg[t], del |-> TRUE]
  <2>4. r \in Recs
    BY <1>2, <1>3, <1>4, <2>1, Zenon
  <2>5. r.obj = arg[t] /\ r.blk = old /\ r.del /\ r.old = old
    BY Zenon
  <2>6. Deletes(arg[t], r)
    BY <2>1, <2>3, <2>5, Zenon DEF Deletes
  <2>7. Change(t, arg[t], r)
    BY <2>1
  <2> HIDE DEF r
  <2> QED
    BY <1>1, <2>4, <2>5, <2>6, <2>7, Zenon DEF Changing
<1>7. CASE Delete(t) /\ ht[arg[t]] = {}
  <2>1. "idle" \in Labels \ Concluding /\ "idle" \notin {"put", "delete"} /\ pc[t] \notin Concluding
    BY <1>1, SMT DEF Labels, Concluding
  <2>2. UNCHANGED <<own, i, store, ghost, trxtable>>
    BY <1>7, Zenon DEF Delete, table, store
  <2> QED
    BY <1>7, <2>1, <2>2, Zenon DEF Delete, Return, Stays, Calm
<1> QED
  BY <1>5, <1>6, <1>7

LEMMA NextKinds ==
    ASSUME Types, Next
    PROVE  \E t \in Threads : Kinds(t)
<1>1. PICK t \in Threads : Calls(t) \/ Step(t)
  BY Zenon DEF Next
<1>2. CASE Calls(t)
  BY <1>2, CallsKind, Zenon DEF Kinds
<1>3. CASE Step(t)
  <2>1. CASE mcd_trx_start(t) \/ mcd_trx_attach(t) \/ Attach(t) \/ mcd_trx_detach(t)
             \/ mcd_trx_id(t)
    BY <2>1, StartKind, Zenon DEF Kinds
  <2>2. CASE trx_add(t)
    BY <2>2, AddKind, Zenon DEF Kinds
  <2>3. CASE mcd_trx_commit(t) \/ mcd_trx_rollback(t) \/ mcd_trx_commit_id(t)
    <3>1. "commit" \notin Concluding /\ "rollback" \notin Concluding
          /\ "commit_id" \notin Concluding
      BY SMT DEF Concluding
    <3>2. \E l \in {"log", "revert"} : \E d : trx_del(t, d, l)
      BY <2>3, Zenon DEF mcd_trx_commit, mcd_trx_rollback, mcd_trx_commit_id
    <3>3. UNCHANGED <<store, ghost>> /\ pc[t] \notin Concluding
      BY <2>3, <3>1, Zenon DEF mcd_trx_commit, mcd_trx_rollback, mcd_trx_commit_id
    <3> QED
      BY <3>2, <3>3, DelKind, Zenon DEF Kinds
  <2>4. CASE Put(t) \/ Delete(t)
    BY <2>4, ChangeKind, Zenon DEF Kinds
  <2> QED
    BY <1>3, <2>1, <2>2, <2>3, <2>4, Zenon DEF Step, Kinds
<1> QED
  BY <1>1, <1>2, <1>3

-----------------------------------------------------------------------------
(* Every step keeps the types.                                              *)

LEMMA RecsLen ==
    ASSUME NEW q \in Seq(Recs)
    PROVE  Len(q) \in Nat /\ (q # <<>> => Len(q) > 0) /\ DOMAIN q = 1 .. Len(q)
OBVIOUS

LEMMA EmptyRecs == <<>> \in Seq(Recs) /\ Len(<<>>) = 0
OBVIOUS

LEMMA LongerRecs ==
    ASSUME NEW q \in Seq(Recs), NEW r \in Recs
    PROVE  Append(q, r) \in Seq(Recs) /\ Len(Append(q, r)) = Len(q) + 1
OBVIOUS

LEMMA Sizes ==
    /\ TrxBuf \in Nat /\ TrxBuf > 0 /\ TrxLimit \in Nat /\ TrxBuf <= TrxLimit
    /\ Grow \in Nat /\ Grow >= 2 /\ TotalSlots \in Nat /\ TrxLimit <= TotalSlots
    /\ NoThread \notin Threads
<1>1. TotalSlots \div BlkSlots \in Nat
  BY TrxAssumption, DivBound DEF TrxAssumption
<1> QED
  BY <1>1, TrxAssumption DEF TrxAssumption

LEMMA NoTrxContents == Contents(NoTrx) /\ NoTrx.recs = <<>>
<1>1. /\ NoTrx.s = NoThread /\ NoTrx.recs = <<>> /\ NoTrx.nmax = 0 /\ NoTrx.status = "OKAY"
  BY Zenon DEF NoTrx
<1>2. 0 \in 0 .. TrxLimit /\ 0 <= 0 /\ ~(0 > 0)
  BY Sizes
<1>3. "OKAY" \in Statuses
  BY Zenon DEF Statuses
<1> QED
  BY <1>1, <1>2, <1>3, EmptyRecs, Zenon DEF Contents

LEMMA AllocContents ==
    ASSUME NEW id
    PROVE  Contents(mcd_trx_alloc(id)) /\ mcd_trx_alloc(id).recs = <<>>
           /\ mcd_trx_alloc(id).nmax > 0
<1> DEFINE n == mcd_trx_alloc(id)
<1>1. n.s = NoThread /\ n.recs = <<>> /\ n.nmax = TrxBuf /\ n.status = "OKAY"
  BY Zenon DEF mcd_trx_alloc
<1>2. TrxBuf \in 0 .. TrxLimit /\ 0 <= TrxBuf /\ ~(0 > 0) /\ TrxBuf > 0
  BY Sizes
<1>3. "OKAY" \in Statuses
  BY Zenon DEF Statuses
<1> HIDE DEF n
<1> QED
  BY <1>1, <1>2, <1>3, EmptyRecs, Zenon DEF Contents, n

(* The buffer grows by one record at least, up to the limit.                *)
LEMMA GrownBound ==
    ASSUME NEW x, x.nmax \in Nat, x.nmax > 0, NEW l \in Nat, l <= x.nmax, l < TrxLimit
    PROVE  Grown(x) \in 0 .. TrxLimit /\ l + 1 <= Grown(x) /\ Grown(x) > 0
<1> DEFINE n == x.nmax
           g == Grow * n
<1>1. n \in Nat /\ n > 0 /\ l <= n
  OBVIOUS
<1> HIDE DEF n
<1>2. 2 * n <= g /\ g \in Nat
  BY <1>1, Sizes, MulMono
<1> HIDE DEF g
<1>3. Grown(x) = IF TrxLimit < g THEN TrxLimit ELSE g
  BY DEF Grown, g, n
<1> QED
  BY <1>1, <1>2, <1>3, Sizes

(* What mcd_trx_rec_avail leaves of transaction x with record r.            *)
Capture(x, s, r, mem) ==
    IF x.s \notin {NoThread, s} THEN [x EXCEPT !.status = "BAD_SHARD"]
    ELSE WithRec([x EXCEPT !.s = s], r, mem)

(* Some records, among them the new one, may be lost.                       *)
Grows(y, x, r) ==
    \/ y.recs = x.recs
    \/ y.recs = Append(x.recs, r)
    \/ y.recs = <<>>

LEMMA StatusField ==
    ASSUME NEW x, IsTrx(x), NEW st, NEW y, y = [x EXCEPT !.status = st]
    PROVE  IsTrx(y) /\ y.id = x.id /\ y.s = x.s /\ y.recs = x.recs /\ y.nmax = x.nmax
           /\ y.status = st
BY SMT DEF IsTrx

LEMMA ShardField ==
    ASSUME NEW x, IsTrx(x), NEW s, NEW y, y = [x EXCEPT !.s = s]
    PROVE  /\ IsTrx(y) /\ y.id = x.id /\ y.s = s /\ y.recs = x.recs /\ y.nmax = x.nmax
           /\ y.status = x.status
BY SMT DEF IsTrx

LEMMA RecsField ==
    ASSUME NEW x, IsTrx(x), NEW q, NEW y, y = [x EXCEPT !.recs = q]
    PROVE  y.s = x.s /\ y.recs = q /\ y.nmax = x.nmax /\ y.status = x.status
BY SMT DEF IsTrx

Ready(x) == Contents(x) /\ (x.status = "OKAY" => x.nmax > 0)

LEMMA WithRecContents ==
    ASSUME NEW x, IsTrx(x), Ready(x), x.s \in Shards, NEW r \in Recs, NEW mem
    PROVE  Ready(WithRec(x, r, mem)) /\ Grows(WithRec(x, r, mem), x, r)
<1> DEFINE y == WithRec(x, r, mem)
<1>0. /\ x.recs \in Seq(Recs) /\ Len(x.recs) \in Nat /\ x.nmax \in 0 .. TrxLimit /\ x.nmax \in Nat
      /\ Len(x.recs) <= x.nmax
  BY RecsLen, Sizes DEF Ready, Contents
<1>1. {"OKAY", "NO_MEM", "TOO_BIG"} \subseteq Statuses
  BY Zenon DEF Statuses
<1>2. "TOO_BIG" # "OKAY" /\ "NO_MEM" # "OKAY"
  OBVIOUS
<1>3. CASE x.status # "OKAY"
  BY <1>3, Zenon DEF WithRec, Grows
<1>4. CASE x.status = "OKAY" /\ Len(x.recs) < x.nmax
  <2>1. y = [x EXCEPT !.recs = Append(x.recs, r)]
    BY <1>4, Zenon DEF WithRec
  <2>2. y.s = x.s /\ y.recs = Append(x.recs, r) /\ y.nmax = x.nmax /\ y.status = x.status
    BY <2>1, RecsField
  <2>3. Append(x.recs, r) \in Seq(Recs) /\ Len(Append(x.recs, r)) <= x.nmax
    BY <1>0, <1>4, LongerRecs
  <2> HIDE DEF y
  <2> QED
    BY <2>2, <2>3, Zenon DEF Ready, Contents, Grows, y
<1>5. CASE x.status = "OKAY" /\ ~(Len(x.recs) < x.nmax) /\ Len(x.recs) >= TrxLimit
  <2>1. y = [x EXCEPT !.status = "TOO_BIG"]
    BY <1>5, Zenon DEF WithRec
  <2>2. y.s = x.s /\ y.recs = x.recs /\ y.nmax = x.nmax /\ y.status = "TOO_BIG"
    BY <2>1, StatusField
  <2> HIDE DEF y
  <2> QED
    BY <1>1, <1>2, <2>2, Zenon DEF Ready, Contents, Grows, y
<1>6. CASE x.status = "OKAY" /\ ~(Len(x.recs) < x.nmax) /\ ~(Len(x.recs) >= TrxLimit) /\ mem
  <2>1. y = [x EXCEPT !.recs = Append(x.recs, r), !.nmax = Grown(x)]
    BY <1>6, Zenon DEF WithRec
  <2>2. y.s = x.s /\ y.recs = Append(x.recs, r) /\ y.nmax = Grown(x) /\ y.status = x.status
    BY <2>1, SMT DEF IsTrx
  <2>3. x.nmax > 0 /\ Len(x.recs) < TrxLimit
    BY <1>0, <1>6, Sizes DEF Ready
  <2>4. Grown(x) \in 0 .. TrxLimit /\ Len(x.recs) + 1 <= Grown(x) /\ Grown(x) > 0
    BY <1>0, <2>3, GrownBound, Zenon
  <2>5. Append(x.recs, r) \in Seq(Recs) /\ Len(Append(x.recs, r)) <= Grown(x)
    BY <1>0, <2>4, LongerRecs, Zenon
  <2> HIDE DEF y
  <2> QED
    BY <2>2, <2>4, <2>5, Zenon DEF Ready, Contents, Grows, y
<1>7. CASE x.status = "OKAY" /\ ~(Len(x.recs) < x.nmax) /\ ~(Len(x.recs) >= TrxLimit) /\ ~mem
           /\ x.nmax = TrxBuf
  <2>1. y = [x EXCEPT !.status = "NO_MEM"]
    BY <1>7, Zenon DEF WithRec
  <2>2. y.s = x.s /\ y.recs = x.recs /\ y.nmax = x.nmax /\ y.status = "NO_MEM"
    BY <2>1, StatusField
  <2> HIDE DEF y
  <2> QED
    BY <1>1, <1>2, <2>2, Zenon DEF Ready, Contents, Grows, y
<1>8. CASE x.status = "OKAY" /\ ~(Len(x.recs) < x.nmax) /\ ~(Len(x.recs) >= TrxLimit) /\ ~mem
           /\ x.nmax # TrxBuf
  <2>1. y = [x EXCEPT !.status = "NO_MEM", !.recs = <<>>, !.nmax = 0]
    BY <1>8, Zenon DEF WithRec
  <2>2. y.s = x.s /\ y.recs = <<>> /\ y.nmax = 0 /\ y.status = "NO_MEM"
    BY <2>1, SMT DEF IsTrx
  <2>3. 0 \in 0 .. TrxLimit /\ 0 <= 0
    BY Sizes
  <2> HIDE DEF y
  <2> QED
    BY <1>1, <1>2, <2>2, <2>3, EmptyRecs, Zenon DEF Ready, Contents, Grows, y
<1> QED
  BY <1>3, <1>4, <1>5, <1>6, <1>7, <1>8, Zenon

LEMMA CaptureShape ==
    ASSUME NEW x, IsTrx(x), Ready(x), NEW s \in Shards, NEW r \in Recs, NEW mem
    PROVE  LET y == Capture(x, s, r, mem)
           IN  Ready(y) /\ IsTrx(y) /\ y.id = x.id /\ Grows(y, x, r)
<1> DEFINE y == Capture(x, s, r, mem)
           z == [x EXCEPT !.s = s]
<1>1. CASE x.s \notin {NoThread, s}
  <2>1. y = [x EXCEPT !.status = "BAD_SHARD"]
    BY <1>1, Zenon DEF Capture
  <2>2. /\ y.s = x.s /\ y.recs = x.recs /\ y.nmax = x.nmax /\ y.status = "BAD_SHARD"
        /\ IsTrx(y) /\ y.id = x.id
    BY <2>1, StatusField
  <2>3. "BAD_SHARD" \in Statuses /\ "BAD_SHARD" # "OKAY"
    BY SMT DEF Statuses
  <2> HIDE DEF y
  <2> QED
    BY <2>2, <2>3, Zenon DEF Ready, Contents, Grows, y
<1>2. CASE x.s \in {NoThread, s}
  <2>1. /\ z.s = s /\ z.recs = x.recs /\ z.nmax = x.nmax /\ z.status = x.status
        /\ IsTrx(z) /\ z.id = x.id
    BY ShardField
  <2> HIDE DEF z
  <2>2. Ready(z)
    BY <2>1, Zenon DEF Ready, Contents
  <2>3. y = WithRec(z, r, mem)
    BY <1>2, Zenon DEF Capture, z
  <2>4. Ready(WithRec(z, r, mem)) /\ Grows(WithRec(z, r, mem), z, r)
    BY <2>1, <2>2, WithRecContents, Zenon
  <2>5. IsTrx(WithRec(z, r, mem)) /\ WithRec(z, r, mem).id = x.id
    BY <2>1, WithRecShape, Zenon
  <2> QED
    BY <2>1, <2>3, <2>4, <2>5, Zenon DEF Grows
<1> QED
  BY <1>1, <1>2, Zenon

LEMMA SameI ==
    ASSUME Types, NEW t \in Threads
    PROVE  i = [i EXCEPT ![t] = i[t]] /\ i[t] \in 0 .. TotalSlots
BY Zenon DEF Types, Control

LEMMA SameOwn ==
    ASSUME Types, NEW t \in Threads
    PROVE  own = [own EXCEPT ![t] = own[t]]
BY Zenon DEF Types, IInv, IdsDrawn

LEMMA SamePc ==
    ASSUME Types, NEW t \in Threads
    PROVE  pc = [pc EXCEPT ![t] = pc[t]] /\ pc[t] \in Labels
BY Zenon DEF Types, Control

LEMMA ControlFrame ==
    ASSUME Types, NEW t \in Threads, NEW l \in Labels, pc' = [pc EXCEPT ![t] = l],
           NEW x, own' = [own EXCEPT ![t] = x], NEW a, arg' = [arg EXCEPT ![t] = a],
           NEW j \in 0 .. TotalSlots, i' = [i EXCEPT ![t] = j], At(l, x, a, j)
    PROVE  Control'
<1>1. /\ pc' \in [Threads -> Labels] /\ i' \in [Threads -> 0 .. TotalSlots]
      /\ arg' = [u \in Threads |-> arg'[u]]
  BY Zenon DEF Types, Control
<1>2. pc'[t] = l /\ own'[t] = x /\ arg'[t] = a /\ i'[t] = j
  BY Zenon DEF Types, Control, IInv, IdsDrawn
<1>3. ASSUME NEW u \in Threads, u # t
      PROVE  pc'[u] = pc[u] /\ own'[u] = own[u] /\ arg'[u] = arg[u] /\ i'[u] = i[u]
  BY <1>3, Zenon DEF Types, Control, IInv, IdsDrawn
<1>4. \A u \in Threads : At(pc'[u], own'[u], arg'[u], i'[u])
  BY <1>2, <1>3, Zenon DEF Types, Control
<1> QED
  BY <1>1, <1>4, Zenon DEF Control

(* The transaction of a thread that concludes one.                          *)
LEMMA OwnFact ==
    ASSUME Types, NEW t \in Threads
    PROVE  /\ Contents(own[t]) /\ own[t].recs \in Seq(Recs) /\ Len(own[t].recs) \in 0 .. TotalSlots
           /\ own[t].recs # <<>> => Len(own[t].recs) > 0
           /\ Len(own[t].recs) > 0 => own[t].s \in Shards
           /\ own[t].id \in Nat /\ IsTrx(own[t])
           /\ At(pc[t], own[t], arg[t], i[t])
<1>1. /\ Contents(own[t]) /\ IsTrx(own[t]) /\ own[t].id \in 0 .. next_trx_id
      /\ next_trx_id \in Nat /\ At(pc[t], own[t], arg[t], i[t])
  BY Zenon DEF Types, Buffers, IInv, IdsDrawn, Control
<1>2. own[t].recs \in Seq(Recs) /\ own[t].nmax \in 0 .. TrxLimit /\ Len(own[t].recs) <= own[t].nmax
  BY <1>1, Zenon DEF Contents
<1>3. Len(own[t].recs) \in 0 .. TotalSlots
  BY <1>2, RecsLen, Sizes
<1>4. own[t].id \in Nat
  BY <1>1
<1> QED
  BY <1>1, <1>2, <1>3, <1>4, RecsLen, Zenon DEF Contents

LEMMA PaddingType ==
    ASSUME NEW f \in Nat, NEW n \in Nat
    PROVE  Padding(f, n) \in 0 .. TotalSlots /\ Room(f) \in 1 .. TotalSlots
<1>1. TotalSlots \in Nat /\ TotalSlots > 0
  BY Sizes
<1>2. f % TotalSlots \in 0 .. TotalSlots - 1
  BY <1>1
<1>3. Room(f) \in 1 .. TotalSlots
  BY <1>1, <1>2 DEF Room
<1>4. Padding(f, n) = Room(f) \/ Padding(f, n) = 0
  BY Zenon DEF Padding
<1> QED
  BY <1>1, <1>3, <1>4

LEMMA CalmControl ==
    ASSUME Types, NEW t \in Threads, Calm(t)
    PROVE  Control'
<1>1. PICK l, a :
         /\ l \in Labels \ Concluding
         /\ pc' = [pc EXCEPT ![t] = l] /\ arg' = [arg EXCEPT ![t] = a]
         /\ l \in {"put", "delete"} => a \in Objs
  BY Zenon DEF Calm
<1>2. own[t] = NoTrx
  BY OwnFact, Zenon DEF Calm, At
<1>3. own' = [own EXCEPT ![t] = NoTrx] /\ i' = [i EXCEPT ![t] = i[t]] /\ i[t] \in 0 .. TotalSlots
  BY <1>2, SameOwn, SameI, Zenon DEF Calm
<1>4. l # "revert" /\ l \notin {"pad", "write"} /\ l # "write"
  BY <1>1, SMT DEF Concluding
<1>5. At(l, NoTrx, a, i[t])
  BY <1>1, <1>4, Zenon DEF At
<1> QED
  BY <1>1, <1>3, <1>5, ControlFrame, Zenon

LEMMA TakesControl ==
    ASSUME Types, NEW t \in Threads, Takes(t)
    PROVE  Control'
<1>1. PICK x \in trxtable, l \in {"log", "revert"} :
         /\ own' = [own EXCEPT ![t] = x] /\ trxtable' = trxtable \ {x}
         /\ i' = [i EXCEPT ![t] = Len(x.recs)] /\ pc' = [pc EXCEPT ![t] = l]
  BY Zenon DEF Takes
<1>2. x.id \in 1 .. next_trx_id /\ Contents(x) /\ next_trx_id \in Nat
  BY Zenon DEF Types, IInv, IdsDrawn, Buffers
<1>3. x.id # 0
  BY <1>2
<1>4. Len(x.recs) \in 0 .. TotalSlots /\ Len(x.recs) <= Len(x.recs)
  <2>1. x.recs \in Seq(Recs) /\ x.nmax \in 0 .. TrxLimit /\ Len(x.recs) <= x.nmax
    BY <1>2, Zenon DEF Contents
  <2> QED
    BY <2>1, RecsLen, Sizes
<1>5. arg' = [arg EXCEPT ![t] = arg[t]]
  BY SameArg, Zenon DEF Takes, Types, Control
<1>6. /\ l \in Labels /\ l \in Concluding /\ l \notin {"put", "delete"} /\ l \notin {"pad", "write"}
      /\ l # "write"
  BY SMT DEF Labels, Concluding
<1>7. At(l, x, arg[t], Len(x.recs))
  BY <1>3, <1>4, <1>6, Zenon DEF At
<1> QED
  BY <1>1, <1>4, <1>5, <1>6, <1>7, ControlFrame, Zenon

(* The steps that end a call.                                               *)
LEMMA ReturnControl ==
    ASSUME Types, NEW t \in Threads, Return(t), own' = [own EXCEPT ![t] = NoTrx],
           NEW j \in 0 .. TotalSlots, i' = [i EXCEPT ![t] = j]
    PROVE  Control'
<1>1. /\ "idle" \in Labels /\ "idle" \notin Concluding /\ "idle" \notin {"put", "delete"}
      /\ "idle" # "revert" /\ "idle" \notin {"pad", "write"} /\ "idle" # "write"
  BY SMT DEF Labels, Concluding
<1>2. At("idle", NoTrx, 0, j)
  BY <1>1, Zenon DEF At
<1> QED
  BY <1>1, <1>2, ControlFrame, Zenon DEF Return

LEMMA InConclusion ==
    /\ "log" \in Labels /\ "pad" \in Labels /\ "write" \in Labels /\ "revert" \in Labels
    /\ "log" \in Concluding /\ "pad" \in Concluding /\ "write" \in Concluding
    /\ "revert" \in Concluding
    /\ "pad" \notin {"put", "delete"} /\ "write" \notin {"put", "delete"}
    /\ "revert" \notin {"put", "delete"} /\ "log" \notin {"put", "delete"}
    /\ "pad" # "revert" /\ "write" # "revert" /\ "pad" # "write"
    /\ "revert" \notin {"pad", "write"}
BY SMT DEF Labels, Concluding

LEMMA CommitStartControl ==
    ASSUME Types, NEW t \in Threads, CommitStart(t)
    PROVE  Control'
<1> DEFINE n == Padding(next_fill[own[t].s], Len(own[t].recs))
<1>1. /\ own[t].recs # <<>> /\ pc[t] = "log" /\ UNCHANGED <<arg, own>>
      /\ i' = [i EXCEPT ![t] = IF n = 0 THEN 1 ELSE n]
      /\ pc' = [pc EXCEPT ![t] = IF n = 0 THEN "write" ELSE "pad"]
  BY Zenon DEF CommitStart
<1>2. Len(own[t].recs) > 0 /\ Len(own[t].recs) \in Nat /\ own[t].s \in Shards /\ own[t].id # 0
  BY <1>1, OwnFact, InConclusion DEF At
<1>3. next_fill[own[t].s] \in Nat
  BY <1>2, Zenon DEF Types, Stored
<1>4. n \in 0 .. TotalSlots
  BY <1>2, <1>3, PaddingType, Zenon
<1>5. arg' = [arg EXCEPT ![t] = arg[t]] /\ own' = [own EXCEPT ![t] = own[t]]
  BY <1>1, SameArg, SameOwn, Zenon DEF Types, Control
<1> HIDE DEF n
<1>6. CASE n = 0
  <2>1. i' = [i EXCEPT ![t] = 1] /\ pc' = [pc EXCEPT ![t] = "write"]
    BY <1>1, <1>6, Zenon
  <2>2. 1 \in 0 .. TotalSlots /\ 1 > 0 /\ 1 <= Len(own[t].recs)
    BY <1>2, Sizes
  <2>3. At("write", own[t], arg[t], 1)
    BY <1>2, <2>2, InConclusion, Zenon DEF At
  <2> QED
    BY <1>5, <2>1, <2>2, <2>3, InConclusion, ControlFrame, Zenon
<1>7. CASE n # 0
  <2>1. i' = [i EXCEPT ![t] = n] /\ pc' = [pc EXCEPT ![t] = "pad"]
    BY <1>1, <1>7, Zenon
  <2>2. n > 0
    BY <1>4, <1>7
  <2>3. At("pad", own[t], arg[t], n)
    BY <1>2, <2>2, InConclusion, Zenon DEF At
  <2> QED
    BY <1>4, <1>5, <2>1, <2>3, InConclusion, ControlFrame, Zenon
<1> QED
  BY <1>6, <1>7

LEMMA CommitPadControl ==
    ASSUME Types, NEW t \in Threads, CommitPad(t)
    PROVE  Control'
<1>1. /\ pc[t] = "pad" /\ UNCHANGED <<arg, own>>
  BY Zenon DEF CommitPad
<1>2. Len(own[t].recs) > 0 /\ Len(own[t].recs) \in Nat /\ own[t].id # 0 /\ i[t] > 0
  BY <1>1, OwnFact, InConclusion DEF At
<1>3. i[t] \in 0 .. TotalSlots
  BY SameI
<1>5. arg' = [arg EXCEPT ![t] = arg[t]] /\ own' = [own EXCEPT ![t] = own[t]]
  BY <1>1, SameArg, SameOwn, Zenon DEF Types, Control
<1>6. CASE i[t] = 1
  <2>1. i' = [i EXCEPT ![t] = i[t]] /\ pc' = [pc EXCEPT ![t] = "write"]
    BY <1>6, SameI, Zenon DEF CommitPad
  <2>2. i[t] <= Len(own[t].recs)
    BY <1>2, <1>6
  <2>3. At("write", own[t], arg[t], i[t])
    BY <1>2, <2>2, InConclusion, Zenon DEF At
  <2> QED
    BY <1>3, <1>5, <2>1, <2>3, InConclusion, ControlFrame, Zenon
<1>7. CASE i[t] # 1
  <2>1. i' = [i EXCEPT ![t] = i[t] - 1] /\ pc' = [pc EXCEPT ![t] = "pad"]
    BY <1>1, <1>7, SamePc, Zenon DEF CommitPad
  <2>2. i[t] - 1 > 0 /\ i[t] - 1 \in 0 .. TotalSlots
    BY <1>2, <1>3, <1>7, Sizes
  <2>3. At("pad", own[t], arg[t], i[t] - 1)
    BY <1>2, <2>2, InConclusion, Zenon DEF At
  <2> QED
    BY <1>5, <2>1, <2>2, <2>3, InConclusion, ControlFrame, Zenon
<1> QED
  BY <1>6, <1>7

LEMMA CommitWriteControl ==
    ASSUME Types, NEW t \in Threads, CommitWrite(t)
    PROVE  Control'
<1>1. pc[t] = "write"
  BY Zenon DEF CommitWrite
<1>2. /\ Len(own[t].recs) > 0 /\ Len(own[t].recs) \in 0 .. TotalSlots /\ own[t].id # 0 /\ i[t] > 0
      /\ i[t] <= Len(own[t].recs)
  BY <1>1, OwnFact, InConclusion, Zenon DEF At
<1>3. i[t] \in 0 .. TotalSlots
  BY SameI
<1>4. CASE i[t] = Len(own[t].recs)
  <2>1. Return(t) /\ own' = [own EXCEPT ![t] = NoTrx] /\ i' = [i EXCEPT ![t] = 0]
    BY <1>4, Zenon DEF CommitWrite
  <2>2. 0 \in 0 .. TotalSlots
    BY Sizes
  <2> QED
    BY <2>1, <2>2, ReturnControl, Zenon
<1>5. CASE i[t] # Len(own[t].recs)
  <2>1. i' = [i EXCEPT ![t] = i[t] + 1] /\ UNCHANGED <<pc, arg, own>>
    BY <1>5, Zenon DEF CommitWrite
  <2>2. /\ arg' = [arg EXCEPT ![t] = arg[t]] /\ own' = [own EXCEPT ![t] = own[t]]
        /\ pc' = [pc EXCEPT ![t] = "write"]
    BY <1>1, <2>1, SameArg, SameOwn, SamePc, Zenon DEF Types, Control
  <2>3. i[t] + 1 > 0 /\ i[t] + 1 \in 0 .. TotalSlots /\ i[t] + 1 <= Len(own[t].recs)
    BY <1>2, <1>3, <1>5, Sizes
  <2>4. At("write", own[t], arg[t], i[t] + 1)
    BY <1>2, <2>3, InConclusion, Zenon DEF At
  <2> QED
    BY <2>1, <2>2, <2>3, <2>4, InConclusion, ControlFrame, Zenon
<1> QED
  BY <1>4, <1>5

(* What a step of rollback does to the thread's transaction.                *)
Marked(x) == [x EXCEPT !.status = "HASHTABLE_FULL"]

LEMMA MarkedFact ==
    ASSUME NEW x, IsTrx(x)
    PROVE  /\ Marked(x).id = x.id /\ Marked(x).s = x.s /\ Marked(x).recs = x.recs
           /\ Marked(x).nmax = x.nmax /\ Marked(x).status = "HASHTABLE_FULL"
BY SMT DEF IsTrx, Marked

LEMMA RevertOwn ==
    ASSUME Types, NEW t \in Threads, Revert(t)
    PROVE  own' = [own EXCEPT ![t] = own[t]] \/ own' = [own EXCEPT ![t] = Marked(own[t])]
<1>1. own' = own \/ own' = [own EXCEPT ![t] = [@ EXCEPT !.status = "HASHTABLE_FULL"]]
  BY DEF Revert
<1> QED
  BY <1>1, SameOwn, Zenon DEF Marked

LEMMA RevertControl ==
    ASSUME Types, NEW t \in Threads, Revert(t)
    PROVE  Control'
<1>1. pc[t] = "revert" /\ i[t] > 0 /\ UNCHANGED <<pc, arg>> /\ i' = [i EXCEPT ![t] = i[t] - 1]
  BY Zenon DEF Revert
<1>2. Len(own[t].recs) \in 0 .. TotalSlots /\ own[t].id # 0 /\ i[t] <= Len(own[t].recs)
      /\ IsTrx(own[t])
  BY <1>1, OwnFact, InConclusion, Zenon DEF At
<1>3. i[t] \in 0 .. TotalSlots
  BY SameI
<1>4. /\ arg' = [arg EXCEPT ![t] = arg[t]] /\ pc' = [pc EXCEPT ![t] = "revert"]
  BY <1>1, SameArg, SamePc, Zenon DEF Types, Control
<1>5. i[t] - 1 \in 0 .. TotalSlots /\ i[t] - 1 <= Len(own[t].recs)
  BY <1>1, <1>2, <1>3, Sizes
<1>6. At("revert", own[t], arg[t], i[t] - 1)
  BY <1>2, <1>5, InConclusion, Zenon DEF At
<1>7. At("revert", Marked(own[t]), arg[t], i[t] - 1)
  BY <1>2, <1>5, MarkedFact, InConclusion, Zenon DEF At
<1> QED
  BY <1>1, <1>4, <1>5, <1>6, <1>7, RevertOwn, InConclusion, ControlFrame, Zenon

LEMMA EndControl ==
    ASSUME Types, NEW t \in Threads, CommitNothing(t) \/ RevertEnd(t)
    PROVE  Control'
<1>1. Return(t) /\ own' = [own EXCEPT ![t] = NoTrx]
  BY Zenon DEF CommitNothing, RevertEnd
<1>2. i' = [i EXCEPT ![t] = 0] \/ i' = [i EXCEPT ![t] = i[t]]
  BY SameI, Zenon DEF CommitNothing, RevertEnd
<1>3. 0 \in 0 .. TotalSlots /\ i[t] \in 0 .. TotalSlots
  BY SameI, Sizes
<1> QED
  BY <1>1, <1>2, <1>3, ReturnControl, Zenon

LEMMA NotConcluding ==
    \A l \in {"put", "delete", "idle"} : l \in Labels /\ l \notin Concluding
BY SMT DEF Labels, Concluding

LEMMA ChangingControl ==
    ASSUME Types, NEW t \in Threads, Changing(t)
    PROVE  Control'
<1>1. Return(t) /\ UNCHANGED <<own, i>> /\ pc[t] \in {"put", "delete"}
  BY Zenon DEF Changing, Change
<1>2. own[t] = NoTrx
  BY <1>1, OwnFact, NotConcluding, Zenon DEF At
<1>3. own' = [own EXCEPT ![t] = NoTrx] /\ i' = [i EXCEPT ![t] = i[t]] /\ i[t] \in 0 .. TotalSlots
  BY <1>1, <1>2, SameOwn, SameI, Zenon
<1> QED
  BY <1>1, <1>3, ReturnControl, Zenon

LEMMA KindsControl ==
    ASSUME Types, NEW t \in Threads, Kinds(t)
    PROVE  Control'
BY CalmControl, TakesControl, CommitStartControl, CommitPadControl, CommitWriteControl,
   RevertControl, EndControl, ChangingControl, Zenon DEF Kinds, Stays, Adds
-----------------------------------------------------------------------------
(* The buffers of the transactions.                                         *)

LEMMA BuffersDef ==
    /\ Buffers => (\A x \in trxtable : Ready(x)) /\ (\A t \in Threads : Contents(own[t]))
    /\ (\A x \in trxtable : Ready(x)) /\ (\A t \in Threads : Contents(own[t])) => Buffers
BY Zenon DEF Buffers, Ready

LEMMA BuffersDefP ==
    (\A x \in trxtable' : Ready(x)) /\ (\A t \in Threads : Contents(own'[t])) => Buffers'
BY Zenon DEF Buffers, Ready

LEMMA BuffersFrame ==
    ASSUME Types, \A x \in trxtable' : x \in trxtable \/ Ready(x),
           NEW t \in Threads, NEW z, own' = [own EXCEPT ![t] = z], Contents(z)
    PROVE  Buffers'
<1>1. own'[t] = z /\ \A u \in Threads : u # t => own'[u] = own[u]
  BY Zenon DEF Types, IInv, IdsDrawn
<1> QED
  BY <1>1, BuffersDef, BuffersDefP, Zenon DEF Types

(* trx_in_progress in a transaction: x becomes y.                           *)
LEMMA CapturedFact ==
    ASSUME Types, NEW t \in Threads, NEW o \in Objs, NEW r \in Recs, NEW mem,
           Captured(t, o[1], r, mem)
    PROVE  LET x == trx_find(trxid[t])
               y == Capture(x, o[1], r, mem)
           IN  /\ x \in trxtable /\ x.id = trxid[t] /\ trxtable' = (trxtable \ {x}) \cup {y}
               /\ Ready(x) /\ IsTrx(x) /\ Ready(y) /\ IsTrx(y) /\ y.id = x.id /\ Grows(y, x, r)
               /\ stray' = stray \cup {[id |-> x.id, rec |-> q] :
                     q \in {q \in {x.recs[k] : k \in DOMAIN x.recs} \cup {r} :
                              \A k \in DOMAIN y.recs : y.recs[k] # q}}
               /\ UNCHANGED <<trxid, next_fill, log>>
<1> DEFINE x == trx_find(trxid[t])
           y == Capture(x, o[1], r, mem)
<1>1. x \in trxtable /\ x.id = trxid[t]
  BY FindIn, Zenon DEF Captured
<1>2. o[1] \in Shards
  BY DEF Objs
<1>3. Ready(x) /\ IsTrx(x)
  BY <1>1, BuffersDef, Zenon DEF Types, IInv, IdsDrawn
<1>4. /\ trxtable' = (trxtable \ {x}) \cup {y} /\ UNCHANGED <<trxid, next_fill, log>>
      /\ stray' = stray \cup {[id |-> x.id, rec |-> q] :
                     q \in {q \in {x.recs[k] : k \in DOMAIN x.recs} \cup {r} :
                              \A k \in DOMAIN y.recs : y.recs[k] # q}}
  BY Zenon DEF Captured, Capture
<1> HIDE DEF x
<1>5. Ready(y) /\ IsTrx(y) /\ y.id = x.id /\ Grows(y, x, r)
  BY <1>2, <1>3, CaptureShape, Zenon
<1> HIDE DEF y
<1> QED
  BY <1>1, <1>3, <1>4, <1>5, Zenon DEF x, y

LEMMA ChangeBuffers ==
    ASSUME Types, NEW t \in Threads, Changing(t)
    PROVE  Buffers'
<1>1. PICK o \in Objs, r \in Recs : Change(t, o, r)
  BY Zenon DEF Changing
<1>2. own' = own
  BY <1>1, Zenon DEF Change
<1>3. ASSUME NEW mem \in BOOLEAN, Captured(t, o[1], r, mem)
      PROVE  \A x \in trxtable' : x \in trxtable \/ Ready(x)
  BY <1>3, CapturedFact, Zenon
<1>4. ASSUME Logged(t, o[1], r)
      PROVE  \A x \in trxtable' : x \in trxtable \/ Ready(x)
  BY <1>4, Zenon DEF Logged
<1>5. \A x \in trxtable' : x \in trxtable \/ Ready(x)
  BY <1>1, <1>3, <1>4, Zenon DEF Change
<1> QED
  BY <1>2, <1>5, SameOwn, OwnFact, BuffersFrame, Zenon

LEMMA KindsBuffers ==
    ASSUME Types, NEW t \in Threads, Kinds(t)
    PROVE  Buffers'
<1>1. CASE Stays(t) \/ CommitStart(t) \/ CommitPad(t)
  <2>1. UNCHANGED <<trxtable, own>>
    BY <1>1, Zenon DEF Stays, Calm, CommitStart, CommitPad, table
  <2> QED
    BY <2>1, SameOwn, OwnFact, BuffersFrame, Zenon
<1>2. CASE Adds(t)
  <2>1. Ready(mcd_trx_alloc(trxid[t]))
    BY AllocContents, Zenon DEF Ready
  <2> QED
    BY <1>2, <2>1, SameOwn, OwnFact, BuffersFrame, Zenon DEF Adds, Calm
<1>3. CASE Takes(t)
  <2>1. PICK x \in trxtable : own' = [own EXCEPT ![t] = x] /\ trxtable' = trxtable \ {x}
    BY <1>3, Zenon DEF Takes
  <2>2. Contents(x)
    BY BuffersDef, Zenon DEF Types, Ready
  <2> QED
    BY <2>1, <2>2, BuffersFrame, Zenon
<1>4. CASE CommitWrite(t) \/ CommitNothing(t) \/ RevertEnd(t)
  <2>1. UNCHANGED trxtable /\ (own' = own \/ own' = [own EXCEPT ![t] = NoTrx])
    BY <1>4, Zenon DEF CommitWrite, CommitNothing, RevertEnd, table
  <2> QED
    BY <2>1, SameOwn, OwnFact, NoTrxContents, BuffersFrame, Zenon
<1>5. CASE Revert(t)
  <2>1. UNCHANGED trxtable
    BY <1>5, Zenon DEF Revert, table
  <2>2. "HASHTABLE_FULL" \in Statuses
    BY Zenon DEF Statuses
  <2>3. Contents(Marked(own[t]))
    BY <2>2, OwnFact, MarkedFact, Zenon DEF Contents
  <2> QED
    BY <1>5, <2>1, <2>3, RevertOwn, OwnFact, BuffersFrame, Zenon
<1> QED
  BY <1>1, <1>2, <1>3, <1>4, <1>5, ChangeBuffers, Zenon DEF Kinds

-----------------------------------------------------------------------------
(* The log and the hash table.                                              *)

LEMMA SlotAtType ==
    ASSUME NEW f \in Nat
    PROVE  SlotAt(f) \in Nat /\ SlotAt(f) + 1 \in Nat /\ SlotAt(f) \in {f, f + 1}
BY DEF SlotAt

LEMMA LogWriteTypes ==
    ASSUME Stored, NEW s \in Shards, NEW r \in Recs \cup {Pad}, NEW flag \in {"NO", "OP", "LAST"},
           NEW id \in Nat, log_write_internal(s, r, flag, id)
    PROVE  next_fill' \in [Shards -> Nat] /\ log' \in [Shards -> Seq(LogRecs)]
<1> DEFINE slot == SlotAt(next_fill[s])
           e == Entry(slot, r, flag, id)
<1>1. next_fill[s] \in Nat /\ log[s] \in Seq(LogRecs)
  BY Zenon DEF Stored
<1>2. slot \in Nat /\ slot + 1 \in Nat
  BY <1>1, SlotAtType, Zenon
<1>3. log' = [log EXCEPT ![s] = Append(log[s], e)]
      /\ next_fill' = [next_fill EXCEPT ![s] = slot + 1]
  BY Zenon DEF log_write_internal
<1> HIDE DEF slot
<1>4. e \in LogRecs
  BY <1>2, Zenon DEF Entry, LogRecs
<1> HIDE DEF e
<1>5. Append(log[s], e) \in Seq(LogRecs)
  BY <1>1, <1>4
<1> QED
  BY <1>2, <1>3, <1>5, Zenon DEF Stored

(* A record that a thread has still to log or to undo.                      *)
LEMMA OwnRec ==
    ASSUME Types, NEW t \in Threads, NEW k \in Nat, k > 0, k <= Len(own[t].recs)
    PROVE  /\ k \in DOMAIN own[t].recs /\ own[t].recs[k] \in Recs
           /\ own[t].recs[k].obj \in Objs /\ own[t].recs[k].old \in Nat
           /\ own[t].recs[k].blk \in Nat
           /\ own[t].recs[k].del \in BOOLEAN
<1>1. own[t].recs \in Seq(Recs)
  BY OwnFact
<1>2. own[t].recs[k] \in Recs /\ k \in DOMAIN own[t].recs
  BY <1>1
<1> QED
  BY <1>2, Zenon DEF Recs

LEMMA RevertingRec ==
    ASSUME Types, NEW t \in Threads, Revert(t)
    PROVE  i[t] \in Nat /\ i[t] > 0 /\ i[t] <= Len(own[t].recs) /\ pc[t] = "revert"
<1>1. i[t] > 0 /\ pc[t] = "revert"
  BY Zenon DEF Revert
<1> QED
  BY <1>1, OwnFact, SameI DEF At

LEMMA WritingRec ==
    ASSUME Types, NEW t \in Threads, CommitWrite(t)
    PROVE  i[t] \in Nat /\ i[t] > 0 /\ i[t] <= Len(own[t].recs) /\ pc[t] = "write"
<1>1. pc[t] = "write"
  BY Zenon DEF CommitWrite
<1> QED
  BY <1>1, OwnFact, SameI DEF At

LEMMA RevertHt ==
    ASSUME Types, NEW t \in Threads, Revert(t)
    PROVE  ht' \in [Objs -> SUBSET Nat]
<1> DEFINE r == own[t].recs[i[t]]
<1>1. r \in Recs /\ r.obj \in Objs /\ r.old \in Nat
  BY RevertingRec, OwnRec
<1>2. \/ ht' = ht \/ ht' = [ht EXCEPT ![r.obj] = (ht[r.obj] \ {r.blk}) \cup ({r.old} \ {0})]
      \/ ht' = [ht EXCEPT ![r.obj] = ht[r.obj] \cup {r.old}]
  BY Zenon DEF Revert, UndoIndex, Undo
<1> HIDE DEF r
<1>3. ht \in [Objs -> SUBSET Nat] /\ ht[r.obj] \in SUBSET Nat
  BY <1>1, Zenon DEF Types, Stored
<1>4. (ht[r.obj] \ {r.blk}) \cup ({r.old} \ {0}) \in SUBSET Nat
      /\ ht[r.obj] \cup {r.old} \in SUBSET Nat
  BY <1>1, <1>3, Zenon
<1> QED
  BY <1>1, <1>2, <1>3, <1>4, Zenon

LEMMA ChangeStored ==
    ASSUME Types, NEW t \in Threads, Changing(t)
    PROVE  Stored'
<1>1. PICK o \in Objs, r \in Recs : Change(t, o, r) /\ r.obj = o /\ (Creates(o, r) \/ Deletes(o, r))
  BY Zenon DEF Changing
<1>2. /\ fill_lock' \in [Shards -> Threads \cup {NoThread}]
      /\ clash' \subseteq Objs /\ late' \subseteq Objs
  BY <1>1, Zenon DEF Change, Types, Stored
<1>3. nblk' \in Nat
  BY <1>1 DEF Creates, Deletes, Types, Stored
<1>4. ht[o] \in SUBSET Nat /\ r.blk \in Nat /\ ht \in [Objs -> SUBSET Nat]
  BY Zenon DEF Types, Stored, Recs
<1>5. ht' = [ht EXCEPT ![o] = (ht[o] \ {r.old}) \cup (IF r.del THEN {} ELSE {r.blk})]
  BY <1>1, Zenon DEF Change
<1>6. (ht[o] \ {r.old}) \cup (IF r.del THEN {} ELSE {r.blk}) \in SUBSET Nat
  BY <1>4, Zenon
<1>7. ht' \in [Objs -> SUBSET Nat]
  BY <1>4, <1>5, <1>6, Zenon
<1>8. ASSUME NEW mem, Captured(t, o[1], r, mem)
      PROVE  next_fill' \in [Shards -> Nat] /\ log' \in [Shards -> Seq(LogRecs)]
  BY <1>8, Zenon DEF Captured, Types, Stored
<1>9. ASSUME Logged(t, o[1], r)
      PROVE  next_fill' \in [Shards -> Nat] /\ log' \in [Shards -> Seq(LogRecs)]
  <2>1. o[1] \in Shards /\ 0 \in Nat
    BY DEF Objs
  <2>2. log_write_internal(o[1], r, "NO", 0)
    BY <1>9, Zenon DEF Logged
  <2> QED
    BY <2>1, <2>2, LogWriteTypes, Zenon DEF Types
<1> QED
  BY <1>1, <1>2, <1>3, <1>7, <1>8, <1>9, Zenon DEF Stored, Change

LEMMA KindsStored ==
    ASSUME Types, NEW t \in Threads, Kinds(t)
    PROVE  Stored'
<1>1. CASE Stays(t) \/ Adds(t) \/ Takes(t) \/ CommitNothing(t) \/ RevertEnd(t)
  <2>1. UNCHANGED <<store, clash, late>>
    BY <1>1, Zenon DEF Stays, Adds, Calm, Takes, CommitNothing, RevertEnd, ghost
  <2> QED
    BY <2>1, Zenon DEF Types, Stored, store
<1>2. CASE CommitStart(t)
  <2>1. /\ UNCHANGED <<next_fill, log, ht, freed, nblk, clash, late>>
        /\ fill_lock' = [fill_lock EXCEPT ![own[t].s] = t]
    BY <1>2, Zenon DEF CommitStart, ghost
  <2> QED
    BY <2>1, Zenon DEF Types, Stored
<1>3. CASE CommitPad(t)
  <2>1. own[t].s \in Shards /\ 0 \in Nat
    BY <1>3, OwnFact DEF At, CommitPad
  <2>2. log_write_internal(own[t].s, Pad, "NO", 0) /\ UNCHANGED <<fill_lock, ht, freed, nblk,
        clash, late>>
    BY <1>3, Zenon DEF CommitPad, ghost
  <2>3. next_fill' \in [Shards -> Nat] /\ log' \in [Shards -> Seq(LogRecs)]
    BY <2>1, <2>2, LogWriteTypes, Zenon DEF Types
  <2> QED
    BY <2>2, <2>3, Zenon DEF Types, Stored
<1>4. CASE CommitWrite(t)
  <2>1. own[t].recs[i[t]] \in Recs /\ own[t].id \in Nat /\ own[t].s \in Shards
    BY <1>4, OwnFact, OwnRec, WritingRec, Zenon DEF At
  <2>4. PICK flag \in {"OP", "LAST"} :
          log_write_internal(own[t].s, own[t].recs[i[t]], flag, own[t].id)
    BY <1>4, Zenon DEF CommitWrite
  <2>2. /\ UNCHANGED <<ht, freed, nblk, clash, late>>
        /\ fill_lock' = fill_lock \/ fill_lock' = [fill_lock EXCEPT ![own[t].s] = NoThread]
    BY <1>4, Zenon DEF CommitWrite, ghost
  <2>5. flag \in {"NO", "OP", "LAST"}
    OBVIOUS
  <2>3. next_fill' \in [Shards -> Nat] /\ log' \in [Shards -> Seq(LogRecs)]
    BY <2>1, <2>4, <2>5, LogWriteTypes, Zenon DEF Types
  <2> QED
    BY <2>2, <2>3, Zenon DEF Types, Stored
<1>5. CASE Revert(t)
  <2>1. UNCHANGED <<fill_lock, next_fill, log, nblk, clash, late>>
    BY <1>5, Zenon DEF Revert
  <2> QED
    BY <1>5, <2>1, RevertHt, Zenon DEF Types, Stored
<1> QED
  BY <1>1, <1>2, <1>3, <1>4, <1>5, ChangeStored, Zenon DEF Kinds

LEMMA InitTypes == Init => Types
<1> SUFFICES ASSUME Init PROVE Types
  OBVIOUS
<1>1. IInv
  BY InitIInv
<1>2. \A t \in Threads : own[t] = NoTrx /\ pc[t] = "idle" /\ i[t] = 0
  BY Zenon DEF Init
<1>3. Buffers
  <2>1. trxtable = {}
    BY Zenon DEF Init
  <2> QED
    BY <1>2, <2>1, NoTrxContents, Zenon DEF Buffers
<1>4. Control
  <2>1. 0 \in 0 .. TotalSlots
    BY Sizes
  <2>2. /\ "idle" \notin {"put", "delete"} /\ "idle" # "revert" /\ "idle" \notin {"pad", "write"}
        /\ "idle" # "write" /\ "idle" \in Labels /\ "idle" \notin Concluding
    BY SMT DEF Labels, Concluding
  <2>3. \A t \in Threads : At(pc[t], own[t], arg[t], i[t])
    BY <1>2, <2>2, Zenon DEF At
  <2>4. pc \in [Threads -> Labels] /\ i \in [Threads -> 0 .. TotalSlots]
        /\ arg = [t \in Threads |-> arg[t]]
    BY <2>1, <2>2, Zenon DEF Init
  <2> QED
    BY <2>3, <2>4, Zenon DEF Control
<1>5. Stored
  <2>1. <<>> \in Seq(LogRecs) /\ 0 \in Nat
    OBVIOUS
  <2> QED
    BY <2>1, Zenon DEF Init, Stored
<1> QED
  BY <1>1, <1>3, <1>4, <1>5, Zenon DEF Types

LEMMA NextTypes == Types /\ [Next]_vars => Types'
<1> SUFFICES ASSUME Types, [Next]_vars PROVE Types'
  OBVIOUS
<1>1. IInv'
  BY NextIInv, Zenon DEF Types
<1>2. CASE Next
  <2>1. PICK t \in Threads : Kinds(t)
    BY <1>2, NextKinds, Zenon
  <2> QED
    BY <1>1, <2>1, KindsControl, KindsBuffers, KindsStored, Zenon DEF Types
<1>3. CASE UNCHANGED vars
  <2>1. UNCHANGED <<trxtable, pc, arg, own, i, fill_lock, next_fill, log, ht, nblk, clash, late>>
    BY <1>3, Zenon DEF vars, table, store, ghost
  <2>2. Buffers'
    BY <2>1, BuffersDef, BuffersDefP, Zenon DEF Types
  <2>3. Control' /\ Stored'
    BY <2>1, Zenon DEF Types, Control, Stored
  <2> QED
    BY <1>1, <2>2, <2>3, Zenon DEF Types
<1> QED
  BY <1>2, <1>3

-----------------------------------------------------------------------------
(* A step of t leaves the others alone.                                     *)
Only(t) == \A u \in Threads : u # t => pc'[u] = pc[u] /\ own'[u] = own[u] /\ i'[u] = i[u]

LEMMA OnlyFact ==
    ASSUME Types, NEW t \in Threads, NEW l, pc' = [pc EXCEPT ![t] = l],
           NEW x, own' = [own EXCEPT ![t] = x], NEW j, i' = [i EXCEPT ![t] = j]
    PROVE  Only(t) /\ pc'[t] = l /\ own'[t] = x /\ i'[t] = j
BY Zenon DEF Only, Types, Control, IInv, IdsDrawn

LEMMA LabelsApart ==
    /\ "log" \in {"log", "pad"} /\ "pad" \in {"log", "pad"}
    /\ "write" \notin {"log", "pad"} /\ "revert" \notin {"log", "pad"} /\ "write" # "revert"
OBVIOUS

LEMMA OwnIndices ==
    ASSUME Types, NEW t \in Threads
    PROVE  DOMAIN own[t].recs = 1 .. Len(own[t].recs) /\ Len(own[t].recs) \in Nat /\ i[t] \in Nat
BY OwnFact, RecsLen, SameI, Sizes

LEMMA CommitWriteOnly ==
    ASSUME Types, NEW t \in Threads, CommitWrite(t)
    PROVE  Only(t)
<1>1. CASE i[t] = Len(own[t].recs)
  <2>1. pc' = [pc EXCEPT ![t] = "idle"] /\ own' = [own EXCEPT ![t] = NoTrx]
        /\ i' = [i EXCEPT ![t] = 0]
    BY <1>1, Zenon DEF CommitWrite, Return
  <2> QED
    BY <2>1, OnlyFact, Zenon
<1>2. CASE i[t] # Len(own[t].recs)
  <2>1. i' = [i EXCEPT ![t] = i[t] + 1] /\ UNCHANGED <<pc, own>>
    BY <1>2, Zenon DEF CommitWrite
  <2>2. own' = [own EXCEPT ![t] = own[t]] /\ pc' = [pc EXCEPT ![t] = pc[t]]
    BY <2>1, SamePc, SameOwn, Zenon
  <2> QED
    BY <2>1, <2>2, OnlyFact, Zenon
<1> QED
  BY <1>1, <1>2

LEMMA RevertOnly ==
    ASSUME Types, NEW t \in Threads, Revert(t)
    PROVE  Only(t)
<1>1. UNCHANGED pc /\ i' = [i EXCEPT ![t] = i[t] - 1]
  BY Zenon DEF Revert
<1>2. PICK x : own' = [own EXCEPT ![t] = x]
  BY RevertOwn, OwnFact, MarkedFact, Zenon
<1> QED
  BY <1>1, <1>2, SamePc, OnlyFact, Zenon

-----------------------------------------------------------------------------
(* What log_write_internal adds to a log.                                   *)

LEMMA LogFact ==
    ASSUME Stored, NEW s \in Shards, NEW r, NEW flag, NEW id, log_write_internal(s, r, flag, id)
    PROVE  /\ \A u \in Shards : u # s => log'[u] = log[u] /\ next_fill'[u] = next_fill[u]
           /\ Len(log[s]) \in Nat /\ DOMAIN log[s] = 1 .. Len(log[s])
           /\ Len(log'[s]) = Len(log[s]) + 1 /\ DOMAIN log'[s] = 1 .. Len(log[s]) + 1
           /\ \A k \in 1 .. Len(log[s]) : log'[s][k] = log[s][k]
           /\ log'[s][Len(log[s]) + 1] = Entry(SlotAt(next_fill[s]), r, flag, id)
           /\ next_fill'[s] = SlotAt(next_fill[s]) + 1
<1> DEFINE e == Entry(SlotAt(next_fill[s]), r, flag, id)
           q == log[s]
<1>1. /\ log' = [log EXCEPT ![s] = Append(q, e)]
      /\ next_fill' = [next_fill EXCEPT ![s] = SlotAt(next_fill[s]) + 1]
  BY Zenon DEF log_write_internal
<1>2. q \in Seq(LogRecs) /\ DOMAIN log = Shards /\ DOMAIN next_fill = Shards
  BY Zenon DEF Stored
<1>3. log'[s] = Append(q, e) /\ next_fill'[s] = SlotAt(next_fill[s]) + 1
  BY <1>1, <1>2, Zenon
<1>4. \A u \in Shards : u # s => log'[u] = log[u] /\ next_fill'[u] = next_fill[u]
  BY <1>1, <1>2, Zenon
<1> HIDE DEF e, q
<1>5. /\ Len(q) \in Nat /\ DOMAIN q = 1 .. Len(q)
      /\ Len(Append(q, e)) = Len(q) + 1 /\ DOMAIN Append(q, e) = 1 .. Len(q) + 1
      /\ \A k \in 1 .. Len(q) : Append(q, e)[k] = q[k]
      /\ Append(q, e)[Len(q) + 1] = e
  BY <1>2
<1> QED
  BY <1>3, <1>4, <1>5, Zenon DEF e, q

LEMMA LogLast ==
    ASSUME Types, NEW s \in Shards, NEW r, NEW flag, NEW id, log_write_internal(s, r, flag, id)
    PROVE  log'[s][Len(log[s]) + 1] = Entry(SlotAt(next_fill[s]), r, flag, id)
BY LogFact, SMT DEF Types

LEMMA EntryFields ==
    ASSUME NEW a, NEW r, NEW flag, NEW id
    PROVE  /\ Entry(a, r, flag, id).slot = a /\ Entry(a, r, flag, id).rec = r
           /\ Entry(a, r, flag, id).trx = flag /\ Entry(a, r, flag, id).tid = id
BY Zenon DEF Entry

-----------------------------------------------------------------------------
(* The records of a transaction are of one shard (trx_in_progress).         *)

Sharded(x) == \A k \in DOMAIN x.recs : x.recs[k].obj[1] = x.s
OneShard == (\A x \in trxtable : Sharded(x)) /\ (\A t \in Threads : Sharded(own[t]))

LEMMA ShardedSame ==
    ASSUME NEW x, NEW y, Sharded(x), y.recs = x.recs, y.s = x.s
    PROVE  Sharded(y)
BY Zenon DEF Sharded

LEMMA ShardedNone ==
    ASSUME NEW y, y.recs = <<>>
    PROVE  Sharded(y)
<1>1. \A k \in DOMAIN y.recs : FALSE
  OBVIOUS
<1> QED
  BY <1>1, Zenon DEF Sharded

LEMMA CaptureSharded ==
    ASSUME NEW x, IsTrx(x), Ready(x), Sharded(x), NEW s \in Shards, NEW r \in Recs, r.obj[1] = s,
           NEW mem
    PROVE  Sharded(Capture(x, s, r, mem))
<1> DEFINE y == Capture(x, s, r, mem)
           z == [x EXCEPT !.s = s]
<1>1. CASE x.s \notin {NoThread, s}
  <2>1. y = [x EXCEPT !.status = "BAD_SHARD"]
    BY <1>1, Zenon DEF Capture
  <2>2. y.s = x.s /\ y.recs = x.recs
    BY <2>1, StatusField
  <2> HIDE DEF y
  <2> QED
    BY <2>2, ShardedSame, Zenon DEF y
<1>2. CASE x.s \in {NoThread, s}
  <2>1. z.s = s /\ z.recs = x.recs /\ IsTrx(z)
    BY ShardField
  <2> HIDE DEF z
  <2>2. y = WithRec(z, r, mem)
    BY <1>2, Zenon DEF Capture, z
  <2>3. y.s = s
    BY <2>1, <2>2, SMT DEF WithRec, IsTrx
  <2>4. Grows(y, x, r)
    BY CaptureShape, Zenon
  <2> HIDE DEF y
  <2>5. x.recs \in Seq(Recs) /\ (Len(x.recs) > 0 => x.s \in Shards)
    BY Zenon DEF Ready, Contents
  <2>6. NoThread \notin Shards
    BY TrxAssumption, Zenon DEF TrxAssumption
  <2>7. ASSUME NEW k \in DOMAIN x.recs PROVE x.recs[k].obj[1] = s
    <3>1. Len(x.recs) > 0
      BY <2>5
    <3>2. x.s = s
      BY <1>2, <2>5, <2>6, <3>1, Zenon
    <3> QED
      BY <3>2, Zenon DEF Sharded
  <2>8. CASE y.recs = x.recs
    BY <2>3, <2>7, <2>8, Zenon DEF Sharded, y
  <2>9. CASE y.recs = Append(x.recs, r)
    <3>1. \A k \in DOMAIN y.recs : y.recs[k] = r \/ (k \in DOMAIN x.recs /\ y.recs[k] = x.recs[k])
      BY <2>5, <2>9
    <3> QED
      BY <2>3, <2>7, <3>1, Zenon DEF Sharded, y
  <2>10. CASE y.recs = <<>>
    BY <2>10, ShardedNone, Zenon DEF y
  <2> QED
    BY <2>4, <2>8, <2>9, <2>10, Zenon DEF Grows
<1> QED
  BY <1>1, <1>2, Zenon

LEMMA ShardFrame ==
    ASSUME Types, OneShard, \A x \in trxtable' : x \in trxtable \/ Sharded(x),
           NEW t \in Threads, NEW z, own' = [own EXCEPT ![t] = z], Sharded(z)
    PROVE  OneShard'
<1>1. own'[t] = z /\ \A u \in Threads : u # t => own'[u] = own[u]
  BY Zenon DEF Types, IInv, IdsDrawn
<1>2. \A u \in Threads : Sharded(own'[u])
  BY <1>1, Zenon DEF OneShard
<1>3. \A x \in trxtable' : Sharded(x)
  BY Zenon DEF OneShard
<1> QED
  BY <1>2, <1>3, Zenon DEF OneShard

LEMMA ChangeShard ==
    ASSUME Types, OneShard, NEW t \in Threads, Changing(t)
    PROVE  OneShard'
<1>1. PICK o \in Objs, r \in Recs : Change(t, o, r) /\ r.obj = o
  BY Zenon DEF Changing
<1>2. own' = own /\ Sharded(own[t])
  BY <1>1, Zenon DEF Change, OneShard
<1>3. ASSUME NEW mem \in BOOLEAN, Captured(t, o[1], r, mem)
      PROVE  \A x \in trxtable' : x \in trxtable \/ Sharded(x)
  <2> DEFINE x == trx_find(trxid[t])
             y == Capture(x, o[1], r, mem)
  <2>1. x \in trxtable /\ trxtable' = (trxtable \ {x}) \cup {y} /\ Ready(x) /\ IsTrx(x)
    BY <1>3, CapturedFact
  <2> HIDE DEF x
  <2>2. Sharded(x) /\ o[1] \in Shards /\ r.obj[1] = o[1]
    BY <1>1, <2>1 DEF OneShard, Objs
  <2>3. Sharded(y)
    BY <2>1, <2>2, CaptureSharded, Zenon
  <2> QED
    BY <2>1, <2>3, Zenon
<1>4. ASSUME Logged(t, o[1], r)
      PROVE  \A x \in trxtable' : x \in trxtable \/ Sharded(x)
  BY <1>4, Zenon DEF Logged
<1>5. \A x \in trxtable' : x \in trxtable \/ Sharded(x)
  BY <1>1, <1>3, <1>4, Zenon DEF Change
<1> QED
  BY <1>2, <1>5, SameOwn, ShardFrame, Zenon

LEMMA KindsShard ==
    ASSUME Types, OneShard, NEW t \in Threads, Kinds(t)
    PROVE  OneShard'
<1>0. Sharded(own[t]) /\ Sharded(NoTrx)
  BY ShardedNone, Zenon DEF OneShard, NoTrx
<1>1. CASE Stays(t) \/ CommitStart(t) \/ CommitPad(t)
  <2>1. UNCHANGED <<trxtable, own>>
    BY <1>1, Zenon DEF Stays, Calm, CommitStart, CommitPad, table
  <2> QED
    BY <1>0, <2>1, SameOwn, ShardFrame, Zenon
<1>2. CASE Adds(t)
  <2>1. Sharded(mcd_trx_alloc(trxid[t]))
    BY ShardedNone, Zenon DEF mcd_trx_alloc
  <2> QED
    BY <1>0, <1>2, <2>1, SameOwn, ShardFrame, Zenon DEF Adds, Calm
<1>3. CASE Takes(t)
  <2>1. PICK x \in trxtable : own' = [own EXCEPT ![t] = x] /\ trxtable' = trxtable \ {x}
    BY <1>3, Zenon DEF Takes
  <2>2. Sharded(x)
    BY Zenon DEF OneShard
  <2> QED
    BY <2>1, <2>2, ShardFrame, Zenon
<1>4. CASE CommitWrite(t) \/ CommitNothing(t) \/ RevertEnd(t)
  <2>1. UNCHANGED trxtable /\ (own' = own \/ own' = [own EXCEPT ![t] = NoTrx])
    BY <1>4, Zenon DEF CommitWrite, CommitNothing, RevertEnd, table
  <2> QED
    BY <1>0, <2>1, SameOwn, ShardFrame, Zenon
<1>5. CASE Revert(t)
  <2>1. UNCHANGED trxtable
    BY <1>5, Zenon DEF Revert, table
  <2>2. Sharded(Marked(own[t]))
    BY <1>0, OwnFact, MarkedFact, ShardedSame, Zenon
  <2> QED
    BY <1>0, <1>5, <2>1, <2>2, RevertOwn, ShardFrame, Zenon
<1> QED
  BY <1>1, <1>2, <1>3, <1>4, <1>5, ChangeShard, Zenon DEF Kinds

LEMMA NextShard == Types /\ OneShard /\ [Next]_vars => OneShard'
<1> SUFFICES ASSUME Types, OneShard, [Next]_vars PROVE OneShard'
  OBVIOUS
<1>1. CASE Next
  BY <1>1, NextKinds, KindsShard, Zenon
<1>2. CASE UNCHANGED vars
  BY <1>2, Zenon DEF vars, table, OneShard
<1> QED
  BY <1>1, <1>2

LEMMA InitShard == Init => OneShard
<1> SUFFICES ASSUME Init PROVE OneShard
  OBVIOUS
<1>1. trxtable = {} /\ \A t \in Threads : own[t] = NoTrx
  BY Zenon DEF Init
<1>2. Sharded(NoTrx)
  BY ShardedNone, Zenon DEF NoTrx
<1> QED
  BY <1>1, <1>2, Zenon DEF OneShard
=============================================================================
