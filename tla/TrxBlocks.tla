----------------------------- MODULE TrxBlocks ------------------------------
(***************************************************************************)
(* Proofs about TrxTable: blocks, rollback and replay.                     *)
(*                                                                         *)
(* BlocksKept says where a block may be: current in the hash table, in the *)
(* log, or needed by a change that is still pending; a rollback frees a    *)
(* block only when nothing refers to it (NoDangling).  Chained says that   *)
(* the pending changes of an object lead, one to the next, from what the   *)
(* log holds of it to what the hash table does: a commit logs the first, a *)
(* rollback undoes the last, and with none left the two agree              *)
(* (ReplayMatches).                                                        *)
(***************************************************************************)
EXTENDS TrxTypes, WellFoundedInduction

-----------------------------------------------------------------------------
(* The pending changes of an object form a chain: each one replaces what    *)
(* the one before it made, from what the log holds of the object to what    *)
(* the hash table does.                                                     *)

Before(r) == {r.old} \ {0}
After(r) == IF r.del THEN {} ELSE {r.blk}

Chain(Q, b, v) ==
    /\ \A p, q \in Q : p.id = q.id
    /\ (\A p \in Q : FALSE) => b = v
    /\ \A p \in Q : (\A q \in Q : p.at <= q.at) => b = Before(p.rec)
    /\ \A p \in Q : (\A q \in Q : q.at <= p.at) => v = After(p.rec)
    /\ \A p, q \in Q : p.at < q.at /\ (\A m \in Q : m.at <= p.at \/ q.at <= m.at)
          => Before(q.rec) = After(p.rec)
    /\ \A x, y \in v : x = y

LEMMA AtMostOne ==
    ASSUME NEW r
    PROVE  (\A x, y \in Before(r) : x = y) /\ (\A x, y \in After(r) : x = y)
BY Zenon DEF Before, After

(* The first change is logged ...                                           *)
LEMMA ChainFirst ==
    ASSUME NEW Q, NEW b, NEW v, Chain(Q, b, v), \A q \in Q : q.at \in Nat,
           NEW p \in Q, \A q \in Q : q # p => p.at < q.at
    PROVE  b = Before(p.rec) /\ Chain(Q \ {p}, After(p.rec), v)
<1> DEFINE K == Q \ {p}
<1>1. \A q \in Q : p.at <= q.at
  <2> SUFFICES ASSUME NEW q \in Q PROVE p.at <= q.at
    OBVIOUS
  <2>1. CASE q = p
    BY <2>1
  <2>2. CASE q # p
    BY <2>2
  <2> QED
    BY <2>1, <2>2
<1>2. b = Before(p.rec)
  BY <1>1, Zenon DEF Chain
<1>3. \A q \in K : q \in Q /\ p.at < q.at
  BY Zenon
<1>4. ASSUME \A q \in K : FALSE PROVE After(p.rec) = v
  <2>1. \A q \in Q : q = p
    BY <1>4, Zenon
  <2>2. \A q \in Q : q.at <= p.at
    BY <2>1, <1>1, Zenon
  <2> QED
    BY <2>2, Zenon DEF Chain
<1>5. ASSUME NEW q \in K, \A m \in K : q.at <= m.at PROVE After(p.rec) = Before(q.rec)
  <2>1. \A m \in Q : m.at <= p.at \/ q.at <= m.at
    <3> SUFFICES ASSUME NEW m \in Q PROVE m.at <= p.at \/ q.at <= m.at
      OBVIOUS
    <3>1. CASE m = p
      BY <3>1, <1>1, Zenon
    <3>2. CASE m # p
      BY <1>5, <3>2, Zenon
    <3> QED
      BY <3>1, <3>2
  <2>2. q \in Q /\ p.at < q.at
    BY <1>3, <1>5
  <2> QED
    BY <2>1, <2>2, Zenon DEF Chain
<1>6. ASSUME NEW q \in K, \A m \in K : m.at <= q.at PROVE v = After(q.rec)
  <2>1. q \in Q /\ p.at <= q.at
    BY <1>1, <1>6, Zenon
  <2>2. \A m \in Q : m.at <= q.at
    BY <1>6, <2>1, Zenon
  <2> QED
    BY <2>1, <2>2, Zenon DEF Chain
<1>7. ASSUME NEW q \in K, NEW u \in K, q.at < u.at, \A m \in K : m.at <= q.at \/ u.at <= m.at
      PROVE  Before(u.rec) = After(q.rec)
  <2>1. q \in Q /\ u \in Q /\ p.at <= q.at
    BY <1>1, <1>7, Zenon
  <2>2. \A m \in Q : m.at <= q.at \/ u.at <= m.at
    BY <1>7, <2>1, Zenon
  <2> QED
    BY <1>7, <2>1, <2>2, Zenon DEF Chain
<1>8. (\A q, u \in K : q.id = u.id) /\ \A x, y \in v : x = y
  BY Zenon DEF Chain
<1> HIDE DEF K
<1>9. Chain(K, After(p.rec), v)
  BY <1>4, <1>5, <1>6, <1>7, <1>8, Zenon DEF Chain
<1> QED
  BY <1>2, <1>9, Zenon DEF K

(* ... the last one is undone ...                                           *)
LEMMA ChainLast ==
    ASSUME NEW Q, NEW b, NEW v, Chain(Q, b, v), \A q \in Q : q.at \in Nat,
           NEW p \in Q, \A q \in Q : q # p => q.at < p.at
    PROVE  v = After(p.rec) /\ Chain(Q \ {p}, b, Before(p.rec))
<1> DEFINE K == Q \ {p}
<1>1. \A q \in Q : q.at <= p.at
  <2> SUFFICES ASSUME NEW q \in Q PROVE q.at <= p.at
    OBVIOUS
  <2>1. CASE q = p
    BY <2>1
  <2>2. CASE q # p
    BY <2>2
  <2> QED
    BY <2>1, <2>2
<1>2. v = After(p.rec)
  BY <1>1, Zenon DEF Chain
<1>3. \A q \in K : q \in Q /\ q.at < p.at
  BY Zenon
<1>4. ASSUME \A q \in K : FALSE PROVE b = Before(p.rec)
  <2>1. \A q \in Q : q = p
    BY <1>4, Zenon
  <2>2. \A q \in Q : p.at <= q.at
    BY <2>1, <1>1, Zenon
  <2> QED
    BY <2>2, Zenon DEF Chain
<1>5. ASSUME NEW q \in K, \A m \in K : m.at <= q.at PROVE Before(p.rec) = After(q.rec)
  <2>1. \A m \in Q : m.at <= q.at \/ p.at <= m.at
    <3> SUFFICES ASSUME NEW m \in Q PROVE m.at <= q.at \/ p.at <= m.at
      OBVIOUS
    <3>1. CASE m = p
      BY <3>1, <1>1, Zenon
    <3>2. CASE m # p
      BY <1>5, <3>2, Zenon
    <3> QED
      BY <3>1, <3>2
  <2>2. q \in Q /\ q.at < p.at
    BY <1>3, <1>5
  <2> QED
    BY <2>1, <2>2, Zenon DEF Chain
<1>6. ASSUME NEW q \in K, \A m \in K : q.at <= m.at PROVE b = Before(q.rec)
  <2>1. q \in Q /\ q.at <= p.at
    BY <1>1, <1>6, Zenon
  <2>2. \A m \in Q : q.at <= m.at
    BY <1>6, <2>1, Zenon
  <2> QED
    BY <2>1, <2>2, Zenon DEF Chain
<1>7. ASSUME NEW q \in K, NEW u \in K, q.at < u.at, \A m \in K : m.at <= q.at \/ u.at <= m.at
      PROVE  Before(u.rec) = After(q.rec)
  <2>1. q \in Q /\ u \in Q /\ u.at <= p.at
    BY <1>1, <1>7, Zenon
  <2>2. \A m \in Q : m.at <= q.at \/ u.at <= m.at
    BY <1>7, <2>1, Zenon
  <2> QED
    BY <1>7, <2>1, <2>2, Zenon DEF Chain
<1>8. (\A q, u \in K : q.id = u.id) /\ \A x, y \in Before(p.rec) : x = y
  BY AtMostOne, Zenon DEF Chain
<1> HIDE DEF K
<1>9. Chain(K, b, Before(p.rec))
  BY <1>4, <1>5, <1>6, <1>7, <1>8, Zenon DEF Chain
<1> QED
  BY <1>2, <1>9, Zenon DEF K

(* ... and a change of the same transaction follows on the last one.        *)
LEMMA ChainMore ==
    ASSUME NEW Q, NEW b, NEW v, Chain(Q, b, v), NEW p, v = Before(p.rec), p.at \in Nat,
           \A q \in Q : q.at \in Nat /\ q.at < p.at /\ q.id = p.id,
           NEW K, \A q : q \in K <=> q \in Q \/ q = p
    PROVE  Chain(K, b, After(p.rec))
<1>1. p \in K /\ p.at <= p.at /\ ~(p.at < p.at)
  OBVIOUS
<1>2. \A q \in Q : q \in K /\ q.at <= p.at /\ ~(p.at <= q.at) /\ ~(p.at < q.at)
  OBVIOUS
<1>3. ASSUME NEW q \in K, \A m \in K : q.at <= m.at PROVE b = Before(q.rec)
  <2>1. CASE q = p
    <3>1. \A m \in Q : FALSE
      BY <1>2, <1>3, <2>1, Zenon
    <3> QED
      BY <2>1, <3>1, Zenon DEF Chain
  <2>2. CASE q \in Q
    BY <1>2, <1>3, <2>2, Zenon DEF Chain
  <2> QED
    BY <2>1, <2>2
<1>4. ASSUME NEW q \in K, \A m \in K : m.at <= q.at PROVE After(p.rec) = After(q.rec)
  <2>1. q = p
    BY <1>1, <1>2, <1>4, Zenon
  <2> QED
    BY <2>1
<1>5. ASSUME NEW q \in K, NEW u \in K, q.at < u.at, \A m \in K : m.at <= q.at \/ u.at <= m.at
      PROVE  Before(u.rec) = After(q.rec)
  <2>1. q \in Q
    BY <1>1, <1>2, <1>5, Zenon
  <2>2. CASE u = p
    <3>1. \A m \in Q : m.at <= q.at
      BY <1>2, <1>5, <2>2, Zenon
    <3> QED
      BY <2>1, <2>2, <3>1, Zenon DEF Chain
  <2>3. CASE u \in Q
    <3>1. \A m \in Q : m.at <= q.at \/ u.at <= m.at
      BY <1>2, <1>5, Zenon
    <3> QED
      BY <1>5, <2>1, <2>3, <3>1, Zenon DEF Chain
  <2> QED
    BY <2>2, <2>3
<1>6. \A q, u \in K : q.id = u.id
  <2>1. \A q \in K : q.id = p.id
    BY Zenon
  <2> QED
    BY <2>1, Zenon
<1>7. ~(\A q \in K : FALSE) /\ \A x, y \in After(p.rec) : x = y
  BY <1>1, AtMostOne, Zenon
<1> QED
  BY <1>3, <1>4, <1>5, <1>6, <1>7, Zenon DEF Chain

LEMMA ChainNone ==
    ASSUME NEW Q, \A p \in Q : FALSE, NEW v, \A x, y \in v : x = y
    PROVE  Chain(Q, v, v)
BY Zenon DEF Chain

-----------------------------------------------------------------------------
(* The records that may still be logged or undone: those of the             *)
(* transactions in the table, and what a thread that concludes one has not  *)
(* come to.                                                                 *)

Left(t) ==
    {k \in DOMAIN own[t].recs :
        \/ pc[t] \in {"log", "pad"}
        \/ pc[t] = "write" /\ k >= i[t]
        \/ pc[t] = "revert" /\ k <= i[t]}

Place(x, k) == [id |-> x.id, at |-> k, rec |-> x.recs[k]]
Theirs(x) == {Place(x, k) : k \in DOMAIN x.recs}
Mine(t) == {Place(own[t], k) : k \in Left(t)}
Held == (UNION {Theirs(x) : x \in trxtable}) \cup (UNION {Mine(t) : t \in Threads})

LEMMA PlaceFields ==
    ASSUME NEW x, NEW k
    PROVE  Place(x, k).id = x.id /\ Place(x, k).at = k /\ Place(x, k).rec = x.recs[k]
BY Zenon DEF Place

LEMMA HeldIn ==
    \A h : h \in Held <=> (\E x \in trxtable : h \in Theirs(x))
    \/ (\E t \in Threads : h \in Mine(t))
<1> DEFINE A == {Theirs(x) : x \in trxtable}
           B == {Mine(t) : t \in Threads}
<1>1. \A x \in trxtable : Theirs(x) \in A
  BY Zenon
<1>2. \A t \in Threads : Mine(t) \in B
  BY Zenon
<1>3. \A Q \in A : \E x \in trxtable : Q = Theirs(x)
  BY Zenon
<1>4. \A Q \in B : \E t \in Threads : Q = Mine(t)
  BY Zenon
<1>5. \A h : h \in Held <=> (\E Q \in A : h \in Q) \/ (\E Q \in B : h \in Q)
  BY Zenon DEF Held
<1> HIDE DEF A, B
<1> QED
  BY <1>1, <1>2, <1>3, <1>4, <1>5, Zenon

LEMMA HeldInP ==
    \A h : h \in Held' <=> (\E x \in trxtable' : h \in Theirs(x))
    \/ (\E t \in Threads : h \in Mine(t)')
<1> DEFINE A == {Theirs(x) : x \in trxtable'}
           B == {Mine(t)' : t \in Threads}
<1>1. \A x \in trxtable' : Theirs(x) \in A
  BY Zenon
<1>2. \A t \in Threads : Mine(t)' \in B
  BY Zenon
<1>3. \A Q \in A : \E x \in trxtable' : Q = Theirs(x)
  BY Zenon
<1>4. \A Q \in B : \E t \in Threads : Q = Mine(t)'
  BY Zenon
<1>5. \A h : h \in Held' <=> (\E Q \in A : h \in Q) \/ (\E Q \in B : h \in Q)
  BY Zenon DEF Held
<1> HIDE DEF A, B
<1> QED
  BY <1>1, <1>2, <1>3, <1>4, <1>5, Zenon

LEMMA MineFrame ==
    ASSUME NEW t \in Threads, Only(t), NEW u \in Threads, u # t
    PROVE  Mine(u)' = Mine(u)
<1>1. pc'[u] = pc[u] /\ own'[u] = own[u] /\ i'[u] = i[u]
  BY Zenon DEF Only
<1> QED
  BY <1>1, Zenon DEF Mine, Left

LEMMA NotLeft ==
    ASSUME NEW l, l \notin Concluding
    PROVE  l \notin {"log", "pad"} /\ l # "write" /\ l # "revert"
BY Zenon DEF Concluding

LEMMA MineNone ==
    ASSUME NEW t, pc[t] \notin Concluding
    PROVE  Mine(t) = {}
BY NotLeft, Zenon DEF Mine, Left

LEMMA MineNoneP ==
    ASSUME NEW t, pc'[t] \notin Concluding
    PROVE  Mine(t)' = {}
BY NotLeft, Zenon DEF Mine, Left

(* The record a thread has still to do is nobody else's.                    *)
LEMMA OwnsAlone ==
    ASSUME Types, NEW t \in Threads, NEW h \in Mine(t)
    PROVE  /\ \A x \in trxtable : h \notin Theirs(x)
           /\ \A u \in Threads : u # t => h \notin Mine(u)
<1>1. PICK k : h = Place(own[t], k)
  BY Zenon DEF Mine
<1>2. h.id = own[t].id
  BY <1>1, PlaceFields, Zenon
<1>3. pc[t] \in Concluding
  BY MineNone, Zenon
<1>4. own[t].id # 0
  BY <1>3, OwnFact, Zenon DEF At
<1>5. ASSUME NEW x \in trxtable, h \in Theirs(x) PROVE FALSE
  <2>2. PICK j \in DOMAIN x.recs : h = Place(x, j)
    BY <1>5, Zenon DEF Theirs
  <2>1. h.id = x.id
    BY <2>2, PlaceFields, Zenon
  <2> QED
    BY <1>2, <2>1, Zenon DEF Types, IInv, OneConcluder
<1>6. ASSUME NEW u \in Threads, u # t, h \in Mine(u) PROVE FALSE
  <2>2. PICK j \in Left(u) : h = Place(own[u], j)
    BY <1>6, Zenon DEF Mine
  <2>1. h.id = own[u].id
    BY <2>2, PlaceFields, Zenon
  <2> QED
    BY <1>2, <1>4, <1>6, <2>1, Zenon DEF Types, IInv, OneConcluder
<1> QED
  BY <1>5, <1>6

LEMMA HeldSame ==
    ASSUME NEW t \in Threads, Only(t), UNCHANGED trxtable, Mine(t)' = Mine(t)
    PROVE  Held' = Held
<1>1. \A u \in Threads : Mine(u)' = Mine(u)
  BY MineFrame, Zenon
<1> QED
  BY <1>1, HeldIn, HeldInP, Zenon

LEMMA HeldDrop ==
    ASSUME Types, NEW t \in Threads, Only(t), UNCHANGED trxtable, NEW h \in Mine(t),
           Mine(t)' = Mine(t) \ {h}
    PROVE  Held' = Held \ {h} /\ h \in Held
<1>1. \A u \in Threads : u # t => Mine(u)' = Mine(u)
  BY MineFrame, Zenon
<1>2. /\ \A x \in trxtable : h \notin Theirs(x)
      /\ \A u \in Threads : u # t => h \notin Mine(u)
  BY OwnsAlone, Zenon
<1>3. h \in Held
  BY HeldIn, Zenon
<1>4. ASSUME NEW p PROVE p \in Held' <=> p \in Held \ {h}
  <2>1. ASSUME NEW u \in Threads PROVE p \in Mine(u)' <=> p \in Mine(u) \ {h}
    <3>1. CASE u = t
      BY <3>1, Zenon
    <3>2. CASE u # t
      BY <1>1, <1>2, <3>2, Zenon
    <3> QED
      BY <3>1, <3>2
  <2>2. p \in Held' => p \in Held \ {h}
    BY <1>2, <2>1, HeldIn, HeldInP, Zenon
  <2>3. p \in Held \ {h} => p \in Held'
    BY <2>1, HeldIn, HeldInP, Zenon
  <2> QED
    BY <2>2, <2>3
<1> QED
  BY <1>3, <1>4, Zenon

LEMMA StaysHeld ==
    ASSUME Types, NEW t \in Threads, Stays(t) \/ Adds(t)
    PROVE  Held' = Held
<1>1. PICK l \in Labels \ Concluding : pc' = [pc EXCEPT ![t] = l]
  BY Zenon DEF Stays, Adds, Calm
<1>2. own' = [own EXCEPT ![t] = own[t]] /\ i' = [i EXCEPT ![t] = i[t]] /\ pc[t] \notin Concluding
  BY SameOwn, SameI, Zenon DEF Stays, Adds, Calm
<1>3. Only(t) /\ pc'[t] = l
  BY <1>1, <1>2, OnlyFact, Zenon
<1>4. Mine(t)' = {} /\ Mine(t) = {}
  BY <1>1, <1>2, <1>3, MineNone, MineNoneP, Zenon
<1>5. CASE Stays(t)
  BY <1>3, <1>4, <1>5, HeldSame, Zenon DEF Stays
<1>6. CASE Adds(t)
  <2>1. \A u \in Threads : Mine(u)' = Mine(u)
    BY <1>3, <1>4, MineFrame, Zenon
  <2>2. DOMAIN <<>> = {}
    OBVIOUS
  <2>3. Theirs(mcd_trx_alloc(trxid[t])) = {}
    BY <2>2, AllocContents, Zenon DEF Theirs
  <2>4. trxtable' = trxtable \cup {mcd_trx_alloc(trxid[t])}
    BY <1>6, Zenon DEF Adds
  <2> QED
    BY <2>1, <2>3, <2>4, HeldIn, HeldInP, Zenon
<1> QED
  BY <1>5, <1>6

LEMMA TakesHeld ==
    ASSUME Types, NEW t \in Threads, Takes(t)
    PROVE  Held' = Held
<1>1. PICK x \in trxtable, l \in {"log", "revert"} :
         /\ own' = [own EXCEPT ![t] = x] /\ trxtable' = trxtable \ {x}
         /\ i' = [i EXCEPT ![t] = Len(x.recs)] /\ pc' = [pc EXCEPT ![t] = l]
  BY Zenon DEF Takes
<1>2. Only(t) /\ pc'[t] = l /\ own'[t] = x /\ i'[t] = Len(x.recs)
  BY <1>1, OnlyFact, Zenon
<1>3. Mine(t) = {}
  BY MineNone, Zenon DEF Takes
<1>4. x.recs \in Seq(Recs)
  BY BuffersDef, Zenon DEF Types, Ready, Contents
<1>5. \A k \in DOMAIN x.recs : k <= Len(x.recs)
  BY <1>4
<1>6. Left(t)' = DOMAIN x.recs
  BY <1>2, <1>5, Zenon DEF Left
<1>7. Mine(t)' = Theirs(x)
  BY <1>2, <1>6, Zenon DEF Mine, Theirs, Place
<1>8. \A u \in Threads : u # t => Mine(u)' = Mine(u)
  BY <1>2, MineFrame, Zenon
<1> QED
  BY <1>1, <1>3, <1>7, <1>8, HeldIn, HeldInP, Zenon

LEMMA CommitStartHeld ==
    ASSUME Types, NEW t \in Threads, CommitStart(t)
    PROVE  Held' = Held
<1> DEFINE n == Padding(next_fill[own[t].s], Len(own[t].recs))
           j == IF n = 0 THEN 1 ELSE n
           l == IF n = 0 THEN "write" ELSE "pad"
<1>1. /\ pc[t] = "log" /\ UNCHANGED <<own, trxtable>>
      /\ pc' = [pc EXCEPT ![t] = l] /\ i' = [i EXCEPT ![t] = j]
  BY Zenon DEF CommitStart, table
<1>2. l = "pad" \/ (l = "write" /\ j = 1)
  BY Zenon
<1> HIDE DEF j, l
<1>3. Only(t) /\ pc'[t] = l /\ own'[t] = own[t] /\ i'[t] = j
  BY <1>1, SameOwn, OnlyFact, Zenon
<1>4. \A k \in DOMAIN own[t].recs : k >= 1
  BY OwnIndices
<1>5. Left(t) = DOMAIN own[t].recs
  BY <1>1, LabelsApart, Zenon DEF Left
<1>6. Left(t)' = DOMAIN own[t].recs
  BY <1>2, <1>3, <1>4, LabelsApart, Zenon DEF Left
<1>7. Mine(t)' = Mine(t)
  BY <1>3, <1>5, <1>6, Zenon DEF Mine
<1> QED
  BY <1>1, <1>3, <1>7, HeldSame, Zenon

LEMMA CommitPadHeld ==
    ASSUME Types, NEW t \in Threads, CommitPad(t)
    PROVE  Held' = Held
<1>1. pc[t] = "pad" /\ UNCHANGED <<own, trxtable>>
  BY Zenon DEF CommitPad, table
<1>2. PICK l, j : /\ pc' = [pc EXCEPT ![t] = l] /\ i' = [i EXCEPT ![t] = j]
                  /\ l = "pad" \/ (l = "write" /\ j = 1)
  BY <1>1, SameI, SamePc, Zenon DEF CommitPad
<1>8. own' = [own EXCEPT ![t] = own[t]]
  BY <1>1, SameOwn, Zenon
<1>3. Only(t) /\ pc'[t] = l /\ own'[t] = own[t] /\ i'[t] = j
  BY <1>2, <1>8, OnlyFact, Zenon
<1>4. \A k \in DOMAIN own[t].recs : k >= 1
  BY OwnIndices
<1>5. Left(t) = DOMAIN own[t].recs
  BY <1>1, LabelsApart, Zenon DEF Left
<1>6. Left(t)' = DOMAIN own[t].recs
  BY <1>2, <1>3, <1>4, LabelsApart, Zenon DEF Left
<1>7. Mine(t)' = Mine(t)
  BY <1>3, <1>5, <1>6, Zenon DEF Mine
<1> QED
  BY <1>1, <1>3, <1>7, HeldSame, Zenon

(* The record a commit or a rollback has come to.                           *)
Current(t) == Place(own[t], i[t])

LEMMA CurrentFact ==
    ASSUME Types, NEW t \in Threads, CommitWrite(t) \/ Revert(t)
    PROVE  /\ i[t] \in Left(t) /\ Current(t) \in Mine(t)
           /\ Current(t).id = own[t].id /\ Current(t).at = i[t]
           /\ Current(t).rec = own[t].recs[i[t]]
           /\ own[t].recs[i[t]] \in Recs
<1>1. i[t] \in Nat /\ i[t] > 0 /\ i[t] <= Len(own[t].recs) /\ pc[t] \in {"write", "revert"}
  BY WritingRec, RevertingRec, Zenon
<1>2. i[t] >= i[t] /\ i[t] <= i[t]
  BY <1>1
<1>3. i[t] \in DOMAIN own[t].recs /\ own[t].recs[i[t]] \in Recs
  BY <1>1, OwnRec, Zenon
<1>4. i[t] \in Left(t)
  BY <1>1, <1>2, <1>3, Zenon DEF Left
<1>5. Current(t) \in Mine(t)
  BY <1>4, Zenon DEF Current, Mine
<1>6. Current(t).id = own[t].id /\ Current(t).at = i[t] /\ Current(t).rec = own[t].recs[i[t]]
  BY Zenon DEF Current, Place
<1> QED
  BY <1>3, <1>4, <1>5, <1>6

(* When the thread moves on past a record, that one is no longer held.      *)
LEMMA MineDrop ==
    ASSUME Types, NEW t \in Threads, i[t] \in Left(t), NEW x, x.id = own[t].id,
           x.recs = own[t].recs,
           own'[t] = x, Left(t)' = Left(t) \ {i[t]}
    PROVE  Mine(t)' = Mine(t) \ {Current(t)}
<1>1. \A k : Place(x, k) = Place(own[t], k)
  BY Zenon DEF Place
<1>2. \A k : Place(own[t], k).at = k
  BY PlaceFields, Zenon
<1>3. Mine(t)' = {Place(own[t], k) : k \in Left(t)'}
  BY <1>1, Zenon DEF Mine
<1>4. \A k \in Left(t) : Place(own[t], k) = Current(t) => k = i[t]
  BY <1>2, Zenon DEF Current
<1> DEFINE L == Left(t)
           M == Left(t)'
<1>5. Mine(t) = {Place(own[t], k) : k \in L} /\ Mine(t)' = {Place(own[t], k) : k \in M}
  BY <1>3, Zenon DEF Mine
<1>6. M = L \ {i[t]} /\ i[t] \in L /\ \A k \in L : Place(own[t], k) = Current(t) => k = i[t]
  BY <1>4
<1> HIDE DEF L, M
<1> QED
  BY <1>5, <1>6, Zenon DEF Current

LEMMA CommitWriteHeld ==
    ASSUME Types, NEW t \in Threads, CommitWrite(t)
    PROVE  Current(t) \in Held /\ Held' = Held \ {Current(t)} /\ Only(t)
<1>1. pc[t] = "write" /\ UNCHANGED trxtable
  BY Zenon DEF CommitWrite, table
<1>2. /\ i[t] \in Left(t) /\ Current(t) \in Mine(t)
  BY CurrentFact, Zenon
<1>3. /\ i[t] \in Nat /\ i[t] > 0 /\ i[t] <= Len(own[t].recs)
      /\ DOMAIN own[t].recs = 1 .. Len(own[t].recs) /\ Len(own[t].recs) \in Nat
  BY WritingRec, OwnIndices, Zenon
<1>4. Left(t) = {k \in DOMAIN own[t].recs : k >= i[t]}
  BY <1>1, LabelsApart, Zenon DEF Left
<1>5. Only(t) /\ Mine(t)' = Mine(t) \ {Current(t)}
  <2>1. CASE i[t] = Len(own[t].recs)
    <3>1. pc' = [pc EXCEPT ![t] = "idle"] /\ own' = [own EXCEPT ![t] = NoTrx]
          /\ i' = [i EXCEPT ![t] = 0]
      BY <2>1, Zenon DEF CommitWrite, Return
    <3>2. Only(t) /\ pc'[t] = "idle"
      BY <3>1, OnlyFact, Zenon
    <3>3. Mine(t)' = {}
      BY <3>2, NotConcluding, MineNoneP, Zenon
    <3>4. Left(t) = {i[t]}
      BY <1>3, <1>4, <2>1
    <3>5. Mine(t) = {Current(t)}
      BY <3>4, Zenon DEF Mine, Current
    <3> QED
      BY <3>2, <3>3, <3>5, Zenon
  <2>2. CASE i[t] # Len(own[t].recs)
    <3>1. i' = [i EXCEPT ![t] = i[t] + 1] /\ UNCHANGED <<pc, own>>
      BY <2>2, Zenon DEF CommitWrite
    <3>5. own' = [own EXCEPT ![t] = own[t]] /\ pc' = [pc EXCEPT ![t] = "write"]
      BY <1>1, <3>1, SamePc, SameOwn, Zenon
    <3>2. Only(t) /\ pc'[t] = "write" /\ own'[t] = own[t] /\ i'[t] = i[t] + 1
      BY <3>1, <3>5, OnlyFact, Zenon
    <3>3. Left(t)' = {k \in DOMAIN own[t].recs : k >= i[t] + 1}
      BY <3>2, LabelsApart, Zenon DEF Left
    <3>4. Left(t)' = Left(t) \ {i[t]}
      BY <1>3, <1>4, <3>3
    <3> QED
      BY <1>2, <3>2, <3>4, MineDrop, Zenon
  <2> QED
    BY <2>1, <2>2
<1> QED
  BY <1>1, <1>2, <1>5, HeldDrop, Zenon

LEMMA RevertHeld ==
    ASSUME Types, NEW t \in Threads, Revert(t)
    PROVE  Current(t) \in Held /\ Held' = Held \ {Current(t)} /\ Only(t)
<1>1. pc[t] = "revert" /\ UNCHANGED <<trxtable, pc>> /\ i' = [i EXCEPT ![t] = i[t] - 1]
  BY Zenon DEF Revert, table
<1>2. /\ i[t] \in Left(t) /\ Current(t) \in Mine(t)
  BY CurrentFact, Zenon
<1>3. /\ i[t] \in Nat /\ i[t] > 0 /\ i[t] <= Len(own[t].recs)
      /\ DOMAIN own[t].recs = 1 .. Len(own[t].recs) /\ Len(own[t].recs) \in Nat
  BY RevertingRec, OwnIndices, Zenon
<1>4. Left(t) = {k \in DOMAIN own[t].recs : k <= i[t]}
  BY <1>1, LabelsApart, Zenon DEF Left
<1>5. PICK x : own' = [own EXCEPT ![t] = x] /\ x.id = own[t].id /\ x.recs = own[t].recs
  BY RevertOwn, OwnFact, MarkedFact, Zenon
<1>6. Only(t) /\ pc'[t] = "revert" /\ own'[t] = x /\ i'[t] = i[t] - 1
  BY <1>1, <1>5, SamePc, OnlyFact, Zenon
<1>7. Left(t)' = {k \in DOMAIN own[t].recs : k <= i[t] - 1}
  BY <1>5, <1>6, LabelsApart, Zenon DEF Left
<1>8. Left(t)' = Left(t) \ {i[t]}
  BY <1>3, <1>4, <1>7
<1>9. Mine(t)' = Mine(t) \ {Current(t)}
  BY <1>2, <1>5, <1>6, <1>8, MineDrop, Zenon
<1> QED
  BY <1>1, <1>2, <1>6, <1>9, HeldDrop, Zenon

LEMMA RevertEndHeld ==
    ASSUME Types, NEW t \in Threads, RevertEnd(t)
    PROVE  Held' = Held
<1>1. /\ pc[t] = "revert" /\ i[t] = 0 /\ UNCHANGED <<trxtable, i>>
      /\ pc' = [pc EXCEPT ![t] = "idle"] /\ own' = [own EXCEPT ![t] = NoTrx]
  BY Zenon DEF RevertEnd, table, Return
<1>2. Only(t) /\ pc'[t] = "idle"
  BY <1>1, SameI, OnlyFact, Zenon
<1>3. Mine(t)' = {}
  BY <1>2, NotConcluding, MineNoneP, Zenon
<1>4. \A k \in DOMAIN own[t].recs : ~(k <= i[t])
  BY <1>1, OwnIndices
<1>5. Mine(t) = {}
  BY <1>1, <1>4, LabelsApart, Zenon DEF Mine, Left
<1> QED
  BY <1>1, <1>2, <1>3, <1>5, HeldSame, Zenon

(* A transaction that is only freed: what it held is not held any more.     *)
LEMMA CommitNothingHeld ==
    ASSUME Types, NEW t \in Threads, CommitNothing(t)
    PROVE  Held' \subseteq Held /\ \A p \in Held : p \in Held' \/ p \in Mine(t)
<1>1. /\ UNCHANGED trxtable /\ pc' = [pc EXCEPT ![t] = "idle"] /\ own' = [own EXCEPT ![t] = NoTrx]
      /\ i' = [i EXCEPT ![t] = 0]
  BY Zenon DEF CommitNothing, table, Return
<1>2. Only(t) /\ pc'[t] = "idle"
  BY <1>1, OnlyFact, Zenon
<1>3. Mine(t)' = {}
  BY <1>2, NotConcluding, MineNoneP, Zenon
<1>4. \A u \in Threads : u # t => Mine(u)' = Mine(u)
  BY <1>2, MineFrame, Zenon
<1> QED
  BY <1>1, <1>3, <1>4, HeldIn, HeldInP, Zenon

-----------------------------------------------------------------------------
(* The blocks.  A block is current in the hash table, or will be needed to  *)
(* undo a change, or was freed by an undone one, or none of these: never    *)
(* two at a time.  H is the set of held records, h the hash table, f what   *)
(* was freed, C the blocks the log creates and A all blocks.                *)

Known(H, A) ==
    \A p \in H : /\ p.rec.obj \in Objs /\ p.rec.blk \in A /\ p.rec.old \in A \cup {0}
                 /\ p.rec.del => p.rec.blk = p.rec.old

Once(H) ==
    /\ \A p, q \in H : p.rec.old = q.rec.old /\ p.rec.old # 0 => p = q
    /\ \A p, q \in H : p.rec.blk = q.rec.blk /\ ~p.rec.del /\ ~q.rec.del => p = q

OldKept(H, h, f) == \A p \in H : p.rec.old \notin f /\ \A o \in Objs : p.rec.old \notin h[o]
NewKept(H, f, C) == \A p \in H : ~p.rec.del => p.rec.blk \notin f /\ p.rec.blk \notin C

TableKept(h, f, A) ==
    /\ \A o \in Objs : h[o] \subseteq A /\ \A b \in h[o] : b \notin f
    /\ \A o, q \in Objs : o # q => \A b \in h[o] : b \notin h[q]

FreedKept(f, C, A) == f \subseteq A /\ C \subseteq A \cup {0} /\ \A b \in C : b \notin f

Kept(H, h, f, C, A) ==
    /\ Known(H, A) /\ Once(H) /\ OldKept(H, h, f) /\ NewKept(H, f, C)
    /\ TableKept(h, f, A) /\ FreedKept(f, C, A)

LEMMA KeptLess ==
    ASSUME NEW H, NEW h, NEW f, NEW C, NEW A, Kept(H, h, f, C, A), NEW K, K \subseteq H
    PROVE  Kept(K, h, f, C, A)
BY Zenon DEF Kept, Known, Once, OldKept, NewKept

(* The change r of object o: a fresh block, or a deletion.                  *)
Fresh(r, ho, A, D) ==
    /\ A \subseteq D /\ 0 \notin D
    /\ \/ ~r.del /\ r.blk \in D /\ r.blk \notin A /\ (r.old \in ho \/ r.old = 0)
       \/ r.del /\ r.blk = r.old /\ r.old \in ho

Changed(G, h, o, r) ==
    /\ \A u \in Objs : u # o => G[u] = h[u]
    /\ G[o] = (h[o] \ {r.old}) \cup (IF r.del THEN {} ELSE {r.blk})

LEMMA KeptTable ==
    ASSUME NEW H, NEW h, NEW f, NEW C, NEW A, Kept(H, h, f, C, A),
           NEW o \in Objs, NEW r, NEW D, Fresh(r, h[o], A, D), NEW G, Changed(G, h, o, r)
    PROVE  /\ TableKept(G, f, D) /\ FreedKept(f, C, D) /\ Known(H, D) /\ OldKept(H, G, f)
           /\ r.old \notin f /\ (\A u \in Objs : r.old \notin G[u]) /\ r.old \in A \cup {0}
           /\ \A q \in H : r.old # 0 => q.rec.old # r.old
<1>1. /\ \A b \in G[o] : b \in h[o] \/ (~r.del /\ b = r.blk /\ b \notin A /\ b \in D)
      /\ \A u \in Objs : u # o => G[u] = h[u]
      /\ A \subseteq D /\ 0 \notin D
  BY Zenon DEF Changed, Fresh
<1>2. r.old \in A \cup {0} /\ r.old \notin f
  BY Zenon DEF Fresh, Kept, TableKept, FreedKept
<1>3. TableKept(G, f, D)
  <2>1. ASSUME NEW u \in Objs, NEW b \in G[u] PROVE b \in D /\ b \notin f
    BY <1>1, Zenon DEF Kept, TableKept, FreedKept
  <2>2. ASSUME NEW u \in Objs, NEW w \in Objs, u # w, NEW b \in G[u] PROVE b \notin G[w]
    BY <1>1, <2>2, Zenon DEF Kept, TableKept
  <2> QED
    BY <2>1, <2>2, Zenon DEF TableKept
<1>4. FreedKept(f, C, D) /\ Known(H, D)
  BY <1>1, Zenon DEF Kept, FreedKept, Known
<1>5. OldKept(H, G, f)
  BY <1>1, Zenon DEF Kept, OldKept, Known
<1>6. ASSUME NEW u \in Objs PROVE r.old \notin G[u]
  <2>1. CASE r.old = 0
    BY <1>1, <1>3, <2>1, Zenon DEF TableKept
  <2>2. CASE r.old \in h[o]
    <3>1. CASE u = o
      <4>1. r.old \in A
        BY <2>2, Zenon DEF Kept, TableKept
      <4>2. r.del \/ r.blk # r.old
        BY <4>1, Zenon DEF Fresh
      <4> QED
        BY <3>1, <4>2, Zenon DEF Changed
    <3>2. CASE u # o
      BY <1>1, <2>2, <3>2, Zenon DEF Kept, TableKept
    <3> QED
      BY <3>1, <3>2
  <2> QED
    BY <2>1, <2>2, Zenon DEF Fresh
<1>7. \A q \in H : r.old # 0 => q.rec.old # r.old
  BY Zenon DEF Fresh, Kept, OldKept
<1> QED
  BY <1>2, <1>3, <1>4, <1>5, <1>6, <1>7, Zenon

(* The record of the change joins the held ones ...                         *)
LEMMA KeptTaken ==
    ASSUME NEW H, NEW h, NEW f, NEW C, NEW A, Kept(H, h, f, C, A),
           NEW o \in Objs, NEW r, r.obj = o, NEW D, Fresh(r, h[o], A, D), NEW G, Changed(G, h, o,
           r),
           NEW p, p.rec = r, NEW K, \A q \in K : q \in H \/ q = p
    PROVE  Kept(K, G, f, C, D)
<1>1. /\ TableKept(G, f, D) /\ FreedKept(f, C, D) /\ Known(H, D) /\ OldKept(H, G, f)
      /\ r.old \notin f /\ (\A u \in Objs : r.old \notin G[u]) /\ r.old \in A \cup {0}
      /\ \A q \in H : r.old # 0 => q.rec.old # r.old
  BY KeptTable
<1>8. r.obj \in Objs /\ r.blk \in D /\ r.old \in D \cup {0} /\ (r.del => r.blk = r.old)
  BY <1>1, Zenon DEF Fresh, Kept, TableKept
<1>2. Known(K, D)
  BY <1>1, <1>8, Zenon DEF Known
<1>3. \A q \in H : ~r.del /\ ~q.rec.del => q.rec.blk # r.blk
  BY Zenon DEF Kept, Known, Fresh
<1>4. Once(K)
  BY <1>1, <1>3, Zenon DEF Kept, Once
<1>5. OldKept(K, G, f)
  BY <1>1, Zenon DEF OldKept
<1>6. ~r.del => r.blk \notin f /\ r.blk \notin C
  BY Zenon DEF Kept, FreedKept, Fresh
<1>7. NewKept(K, f, C)
  BY <1>6, Zenon DEF Kept, NewKept
<1> QED
  BY <1>1, <1>2, <1>4, <1>5, <1>7, Zenon DEF Kept

(* ... or is logged at once.                                                *)
LEMMA KeptAtOnce ==
    ASSUME NEW H, NEW h, NEW f, NEW C, NEW A, Kept(H, h, f, C, A),
           NEW o \in Objs, NEW r, NEW D, Fresh(r, h[o], A, D), NEW G, Changed(G, h, o, r),
           NEW E, \A b \in E : b \in C \/ (~r.del /\ b = r.blk)
    PROVE  Kept(H, G, f, E, D)
<1>1. /\ TableKept(G, f, D) /\ FreedKept(f, C, D) /\ Known(H, D) /\ OldKept(H, G, f)
      /\ r.old \notin f /\ (\A u \in Objs : r.old \notin G[u]) /\ r.old \in A \cup {0}
      /\ \A q \in H : r.old # 0 => q.rec.old # r.old
  BY KeptTable
<1>2. ~r.del => r.blk \notin f /\ r.blk \in D /\ \A q \in H : q.rec.blk # r.blk
  BY Zenon DEF Kept, FreedKept, Known, Fresh
<1>3. FreedKept(f, E, D)
  BY <1>1, <1>2, Zenon DEF FreedKept
<1>4. NewKept(H, f, E)
  BY <1>2, Zenon DEF Kept, NewKept
<1> QED
  BY <1>1, <1>3, <1>4, Zenon DEF Kept

(* A held record is logged.                                                 *)
LEMMA KeptLogged ==
    ASSUME NEW H, NEW h, NEW f, NEW C, NEW A, Kept(H, h, f, C, A), NEW p \in H,
           NEW E, \A b \in E : b \in C \/ (~p.rec.del /\ b = p.rec.blk)
    PROVE  Kept(H \ {p}, h, f, E, A)
<1>1. Kept(H \ {p}, h, f, C, A)
  BY KeptLess, Zenon
<1>2. ~p.rec.del => p.rec.blk \notin f /\ p.rec.blk \in A
  BY Zenon DEF Kept, Known, NewKept
<1>3. FreedKept(f, E, A)
  BY <1>2, Zenon DEF Kept, FreedKept
<1>4. NewKept(H \ {p}, f, E)
  BY Zenon DEF Kept, NewKept, Once
<1> QED
  BY <1>1, <1>3, <1>4, Zenon DEF Kept

(* A record that does nothing is logged.                                    *)
LEMMA KeptPadded ==
    ASSUME NEW H, NEW h, NEW f, NEW C, NEW A, Kept(H, h, f, C, A), 0 \notin A,
           NEW E, \A b \in E : b \in C \/ b = 0
    PROVE  Kept(H, h, f, E, A)
<1>1. FreedKept(f, E, A)
  BY Zenon DEF Kept, FreedKept
<1>2. NewKept(H, f, E)
  BY Zenon DEF Kept, NewKept, Known
<1> QED
  BY <1>1, <1>2, Zenon DEF Kept

(* A held record is undone: its block is freed and the old one is back ...  *)
LEMMA KeptUndone ==
    ASSUME NEW H, NEW h, NEW f, NEW C, NEW A, Kept(H, h, f, C, A), NEW p \in H, ~p.rec.del,
           p.rec.blk \in h[p.rec.obj], NEW G, \A u \in Objs : u # p.rec.obj => G[u] = h[u],
           G[p.rec.obj] = (h[p.rec.obj] \ {p.rec.blk}) \cup ({p.rec.old} \ {0})
    PROVE  Kept(H \ {p}, G, f \cup {p.rec.blk}, C, A)
<1> DEFINE o == p.rec.obj
           b == p.rec.blk
<1>1. /\ o \in Objs /\ b \in A /\ p.rec.old \in A \cup {0} /\ b \notin f /\ b \notin C
      /\ p.rec.old \notin f /\ \A u \in Objs : p.rec.old \notin h[u]
  BY Zenon DEF Kept, Known, OldKept, NewKept
<1>2. p.rec.old # b
  BY <1>1, Zenon
<1>3. \A u \in Objs : u # o => b \notin h[u]
  BY <1>1, Zenon DEF Kept, TableKept
<1>4. Known(H \ {p}, A) /\ Once(H \ {p}) /\ NewKept(H \ {p}, f \cup {b}, C)
  BY Zenon DEF Kept, Known, Once, NewKept
<1>5. \A q \in H \ {p} : q.rec.old # b /\ (q.rec.old = 0 \/ q.rec.old # p.rec.old)
  BY <1>1, Zenon DEF Kept, OldKept, Once
<1>6. /\ \A w \in G[o] : (w \in h[o] /\ w # b) \/ (w = p.rec.old /\ w # 0)
      /\ \A u \in Objs : u # o => G[u] = h[u]
  BY Zenon
<1> HIDE DEF o, b
<1>7. OldKept(H \ {p}, G, f \cup {b})
  <2>1. ASSUME NEW q \in H \ {p} PROVE q.rec.old \notin f \cup {b}
    BY <1>5, Zenon DEF Kept, OldKept
  <2>2. ASSUME NEW q \in H \ {p}, NEW u \in Objs PROVE q.rec.old \notin G[u]
    <3>1. q.rec.old \notin h[u] /\ q.rec.old # b /\ (q.rec.old = 0 \/ q.rec.old # p.rec.old)
      BY <1>5, Zenon DEF Kept, OldKept
    <3>2. CASE u = o
      BY <1>6, <3>1, <3>2, Zenon
    <3>3. CASE u # o
      BY <1>6, <3>1, <3>3, Zenon
    <3> QED
      BY <3>2, <3>3
  <2> QED
    BY <2>1, <2>2, Zenon DEF OldKept
<1>8. TableKept(G, f \cup {b}, A)
  <2>1. ASSUME NEW u \in Objs, NEW w \in G[u] PROVE w \in A /\ w \notin f \cup {b}
    <3>1. h[u] \subseteq A /\ \A v \in h[u] : v \notin f
      BY Zenon DEF Kept, TableKept
    <3>2. CASE u = o
      BY <1>1, <1>2, <1>6, <3>1, <3>2, Zenon
    <3>3. CASE u # o
      BY <1>3, <1>6, <3>1, <3>3, Zenon
    <3> QED
      BY <3>2, <3>3
  <2>2. ASSUME NEW u \in Objs, NEW v \in Objs, u # v, NEW w \in G[u] PROVE w \notin G[v]
    <3>1. \A c \in h[u] : c \notin h[v]
      BY <2>2, Zenon DEF Kept, TableKept
    <3>2. CASE u = o
      <4>1. G[v] = h[v] /\ p.rec.old \notin h[v]
        BY <1>1, <1>6, <2>2, <3>2, Zenon
      <4>2. w \in h[u] \/ w = p.rec.old
        BY <1>6, <2>2, <3>2, Zenon
      <4> QED
        BY <3>1, <4>1, <4>2, Zenon
    <3>3. CASE u # o /\ v = o
      BY <1>1, <1>6, <2>2, <3>1, <3>3, Zenon
    <3>4. CASE u # o /\ v # o
      BY <1>6, <2>2, <3>1, <3>4, Zenon
    <3> QED
      BY <3>2, <3>3, <3>4, Zenon
  <2> QED
    BY <2>1, <2>2, Zenon DEF TableKept
<1>9. FreedKept(f \cup {b}, C, A)
  BY <1>1, Zenon DEF Kept, FreedKept
<1> QED
  BY <1>4, <1>7, <1>8, <1>9, Zenon DEF Kept, b

(* ... or the deleted object is back.                                       *)
LEMMA KeptBack ==
    ASSUME NEW H, NEW h, NEW f, NEW C, NEW A, Kept(H, h, f, C, A), 0 \notin A,
           NEW p \in H, p.rec.del, NEW G, \A u \in Objs : u # p.rec.obj => G[u] = h[u],
           G[p.rec.obj] = h[p.rec.obj] \cup {p.rec.old}
    PROVE  Kept(H \ {p}, G, f, C, A)
<1> DEFINE o == p.rec.obj
<1>1. /\ o \in Objs /\ p.rec.old \in A /\ p.rec.old # 0
      /\ p.rec.old \notin f /\ \A u \in Objs : p.rec.old \notin h[u]
  BY Zenon DEF Kept, Known, OldKept
<1>2. Known(H \ {p}, A) /\ Once(H \ {p}) /\ NewKept(H \ {p}, f, C)
  BY Zenon DEF Kept, Known, Once, NewKept
<1>3. \A q \in H \ {p} : q.rec.old # p.rec.old
  BY <1>1, Zenon DEF Kept, Once
<1>4. /\ \A w \in G[o] : w \in h[o] \/ w = p.rec.old
      /\ \A u \in Objs : u # o => G[u] = h[u]
  BY Zenon
<1> HIDE DEF o
<1>5. OldKept(H \ {p}, G, f)
  BY <1>3, <1>4, Zenon DEF Kept, OldKept
<1>6. TableKept(G, f, A)
  <2>1. ASSUME NEW u \in Objs, NEW w \in G[u] PROVE w \in A /\ w \notin f
    BY <1>1, <1>4, Zenon DEF Kept, TableKept
  <2>2. ASSUME NEW u \in Objs, NEW v \in Objs, u # v, NEW w \in G[u] PROVE w \notin G[v]
    <3>1. \A c \in h[u] : c \notin h[v]
      BY <2>2, Zenon DEF Kept, TableKept
    <3>2. CASE u = o
      BY <1>1, <1>4, <2>2, <3>1, <3>2, Zenon
    <3>3. CASE u # o /\ v = o
      BY <1>1, <1>4, <2>2, <3>1, <3>3, Zenon
    <3>4. CASE u # o /\ v # o
      BY <1>4, <2>2, <3>1, <3>4, Zenon
    <3> QED
      BY <3>2, <3>3, <3>4, Zenon
  <2> QED
    BY <2>1, <2>2, Zenon DEF TableKept
<1> QED
  BY <1>2, <1>5, <1>6, Zenon DEF Kept

(* The blocks that the log creates.                                         *)
Created ==
    {b \in Nat : \E s \in Shards : \E k \in DOMAIN log[s] :
                    ~log[s][k].rec.del /\ log[s][k].rec.blk = b}

LEMMA CreatedLog ==
    ASSUME Stored, NEW s \in Shards, NEW r, NEW flag, NEW id, log_write_internal(s, r, flag, id)
    PROVE  \A b \in Created' : b \in Created \/ (~r.del /\ b = r.blk)
<1> SUFFICES ASSUME NEW b \in Created' PROVE b \in Created \/ (~r.del /\ b = r.blk)
  OBVIOUS
<1>0. PICK u \in Shards :
         \E k \in DOMAIN log'[u] : ~log'[u][k].rec.del /\ log'[u][k].rec.blk = b
  BY Zenon DEF Created
<1>1. PICK k \in DOMAIN log'[u] : ~log'[u][k].rec.del /\ log'[u][k].rec.blk = b
  BY <1>0
<1>2. b \in Nat
  BY Zenon DEF Created
<1>3. CASE u # s
  BY <1>1, <1>2, <1>3, LogFact, Zenon DEF Created
<1>4. CASE u = s /\ k = Len(log[s]) + 1
  <2>1. log'[s][Len(log[s]) + 1] = Entry(SlotAt(next_fill[s]), r, flag, id)
    BY LogFact, SMT
  <2>2. log'[u][k].rec = r
    BY <1>4, <2>1, EntryFields, SMT
  <2> QED
    BY <1>1, <2>2, Zenon
<1>5. CASE u = s /\ k # Len(log[s]) + 1
  <2>1. k \in 1 .. Len(log[s]) + 1 /\ Len(log[s]) \in Nat
    BY <1>1, <1>5, LogFact, Zenon
  <2>2. k \in 1 .. Len(log[s])
    BY <1>5, <2>1
  <2>3. k \in DOMAIN log[s] /\ log'[s][k] = log[s][k]
    BY <2>2, LogFact, Zenon
  <2> QED
    BY <1>1, <1>2, <1>5, <2>3, Zenon DEF Created
<1> QED
  BY <1>3, <1>4, <1>5

LEMMA CreatedSame == UNCHANGED log => Created' = Created
BY Zenon DEF Created
-----------------------------------------------------------------------------
(* The record of a change is captured by a transaction.                     *)

Joins(id, n, r) == [id |-> id, at |-> n, rec |-> r]
Gone(id, q) == [id |-> id, rec |-> q]

LEMMA JoinsFields ==
    ASSUME NEW id, NEW n, NEW r
    PROVE  Joins(id, n, r).id = id /\ Joins(id, n, r).at = n /\ Joins(id, n, r).rec = r
BY Zenon DEF Joins

LEMMA TheirsIn ==
    ASSUME NEW x, NEW p
    PROVE  p \in Theirs(x) <=> \E k \in DOMAIN x.recs : p = Joins(x.id, k, x.recs[k])
BY Zenon DEF Theirs, Place, Joins

LEMMA TheirsFields ==
    ASSUME NEW x, NEW p \in Theirs(x)
    PROVE  p.id = x.id /\ \E k \in DOMAIN x.recs : p.rec = x.recs[k] /\ p.at = k
<1>1. PICK k \in DOMAIN x.recs : p = Joins(x.id, k, x.recs[k])
  BY TheirsIn, Zenon
<1>2. p.id = x.id /\ p.rec = x.recs[k] /\ p.at = k
  BY <1>1, Zenon DEF Joins
<1> QED
  BY <1>2, Zenon

LEMMA TheirsGrow ==
    ASSUME NEW x, NEW y, y.id = x.id, NEW r, x.recs \in Seq(Recs), r \in Recs, Grows(y, x, r)
    PROVE  LET h == Joins(x.id, Len(x.recs) + 1, r)
           IN  \/ y.recs = x.recs /\ Theirs(y) = Theirs(x)
               \/ (\A p : p \in Theirs(y) <=> p \in Theirs(x) \/ p = h)
               \/ (\A k \in DOMAIN y.recs : FALSE) /\ Theirs(y) = {}
<1> DEFINE n == Len(x.recs)
<1>1. CASE y.recs = x.recs
  BY <1>1, Zenon DEF Theirs, Place
<1>2. CASE y.recs = <<>>
  <2>1. \A k \in DOMAIN y.recs : FALSE
    BY <1>2
  <2> QED
    BY <2>1, Zenon DEF Theirs
<1>3. CASE y.recs = Append(x.recs, r)
  <2>1. /\ n \in Nat /\ DOMAIN x.recs = 1 .. n /\ DOMAIN y.recs = 1 .. n + 1
        /\ \A k \in 1 .. n : y.recs[k] = x.recs[k]
        /\ y.recs[n + 1] = r
    BY <1>3
  <2>2. \A k : k \in DOMAIN y.recs <=> k \in DOMAIN x.recs \/ k = n + 1
    BY <2>1
  <2> HIDE DEF n
  <2>3. ASSUME NEW p PROVE p \in Theirs(y) <=> p \in Theirs(x) \/ p = Joins(x.id, n + 1, r)
    <3>1. ASSUME p \in Theirs(y) PROVE p \in Theirs(x) \/ p = Joins(x.id, n + 1, r)
      <4>1. PICK k \in DOMAIN y.recs : p = Joins(x.id, k, y.recs[k])
        BY <3>1, TheirsIn, Zenon
      <4>2. CASE k = n + 1
        BY <2>1, <4>1, <4>2, Zenon
      <4>3. CASE k \in DOMAIN x.recs
        <5>1. p = Joins(x.id, k, x.recs[k])
          BY <2>1, <4>1, <4>3, Zenon
        <5> QED
          BY <4>3, <5>1, TheirsIn, Zenon
      <4> QED
        BY <2>2, <4>2, <4>3, Zenon
    <3>2. ASSUME p \in Theirs(x) PROVE p \in Theirs(y)
      <4>1. PICK k \in DOMAIN x.recs : p = Joins(x.id, k, x.recs[k])
        BY <3>2, TheirsIn, Zenon
      <4>2. k \in DOMAIN y.recs /\ p = Joins(y.id, k, y.recs[k])
        BY <2>1, <2>2, <4>1, Zenon
      <4> QED
        BY <4>2, TheirsIn, Zenon
    <3>3. p = Joins(x.id, n + 1, r) => p \in Theirs(y)
      BY <2>1, <2>2, TheirsIn, Zenon
    <3> QED
      BY <3>1, <3>2, <3>3, Zenon
  <2> QED
    BY <2>3, Zenon DEF n
<1> QED
  BY <1>1, <1>2, <1>3, Zenon DEF Grows

LEMMA CapturedHeld ==
    ASSUME Types, NEW t \in Threads, NEW o \in Objs, NEW r \in Recs, NEW mem,
           Captured(t, o[1], r, mem), Change(t, o, r), pc[t] \in {"put", "delete"}
    PROVE  \E n \in Nat :
             LET h == Joins(trxid[t], n, r)
             IN  /\ \A p \in Held' : p \in Held \/ p = h
                 /\ \A p \in Held : p \in Held' \/ Gone(trxid[t], p.rec) \in stray'
                 /\ h \in Held' \/ Gone(trxid[t], r) \in stray' \/ \E p \in Held : p.rec = r
                 /\ \A p \in Held : p.id = trxid[t] => p.at \in Nat /\ p.at < n
<1> DEFINE x == trx_find(trxid[t])
           y == Capture(x, o[1], r, mem)
           n == Len(x.recs) + 1
           h == Joins(trxid[t], n, r)
<1>1. /\ x \in trxtable /\ x.id = trxid[t] /\ trxtable' = (trxtable \ {x}) \cup {y}
      /\ Ready(x) /\ y.id = x.id /\ Grows(y, x, r)
      /\ stray' = stray \cup {[id |-> x.id, rec |-> q] :
                     q \in {q \in {x.recs[k] : k \in DOMAIN x.recs} \cup {r} :
                              \A k \in DOMAIN y.recs : y.recs[k] # q}}
  BY CapturedFact
<1> HIDE DEF x, y
<1>2. x.recs \in Seq(Recs)
  BY <1>1, Zenon DEF Ready, Contents
<1>3. n \in Nat /\ \A k \in DOMAIN x.recs : k \in Nat /\ k < n
  BY <1>2
<1> HIDE DEF n
<1>4. ASSUME NEW q, q = r \/ (\E k \in DOMAIN x.recs : q = x.recs[k]),
             \A k \in DOMAIN y.recs : y.recs[k] # q
      PROVE  Gone(trxid[t], q) \in stray'
  BY <1>1, <1>4, Zenon DEF Gone
<1>5. \/ y.recs = x.recs /\ Theirs(y) = Theirs(x)
      \/ (\A p : p \in Theirs(y) <=> p \in Theirs(x) \/ p = h)
      \/ (\A k \in DOMAIN y.recs : FALSE) /\ Theirs(y) = {}
  BY <1>1, <1>2, TheirsGrow, Zenon DEF n
<1>6. \A u \in Threads : Mine(u)' = Mine(u)
  <2>1. own' = [own EXCEPT ![t] = own[t]] /\ i' = [i EXCEPT ![t] = i[t]]
        /\ pc' = [pc EXCEPT ![t] = "idle"]
    BY SameOwn, SameI, Zenon DEF Change, Return
  <2>2. Only(t) /\ pc'[t] = "idle"
    BY <2>1, OnlyFact, Zenon
  <2>3. Mine(t)' = {} /\ Mine(t) = {}
    BY <2>2, NotConcluding, MineNone, MineNoneP, Zenon
  <2> QED
    BY <2>2, <2>3, MineFrame, Zenon
<1>7. \A p \in Theirs(y) : p \in Theirs(x) \/ p = h
  BY <1>5, Zenon
<1>8. \A p \in Theirs(x) : p.id = x.id /\ \E k \in DOMAIN x.recs : p.rec = x.recs[k] /\ p.at = k
  BY TheirsFields, Zenon
<1> HIDE DEF h
<1>9. ASSUME NEW p \in Held' PROVE p \in Held \/ p = h
  BY <1>1, <1>6, <1>7, HeldIn, HeldInP, Zenon
<1>10. ASSUME NEW p \in Held PROVE p \in Held' \/ Gone(trxid[t], p.rec) \in stray'
  <2>1. CASE p \in Theirs(x)
    <3>1. CASE p \in Theirs(y)
      BY <1>1, <3>1, HeldInP, Zenon
    <3>2. CASE \A k \in DOMAIN y.recs : FALSE
      BY <1>4, <1>8, <2>1, <3>2, Zenon
    <3> QED
      BY <1>5, <2>1, <3>1, <3>2, Zenon
  <2>2. CASE p \notin Theirs(x)
    <3>1. \A z \in trxtable : p \in Theirs(z) => z \in trxtable'
      BY <1>1, <2>2, Zenon
    <3> QED
      BY <1>6, <3>1, HeldIn, HeldInP, Zenon
  <2> QED
    BY <2>1, <2>2
<1>11. h \in Held' \/ Gone(trxid[t], r) \in stray' \/ \E p \in Held : p.rec = r
  <2>1. CASE h \in Theirs(y)
    BY <1>1, <2>1, HeldInP, Zenon
  <2>2. CASE \E k \in DOMAIN x.recs : x.recs[k] = r
    <3>1. PICK k \in DOMAIN x.recs : x.recs[k] = r
      BY <2>2
    <3>2. Place(x, k) \in Theirs(x) /\ Place(x, k).rec = r
      BY <3>1, PlaceFields, Zenon DEF Theirs
    <3> QED
      BY <1>1, <3>2, HeldIn, Zenon
  <2>3. CASE h \notin Theirs(y) /\ \A k \in DOMAIN x.recs : x.recs[k] # r
    <3>1. \A k \in DOMAIN y.recs : y.recs[k] # r
      BY <1>5, <2>3, Zenon
    <3> QED
      BY <1>4, <3>1, Zenon
  <2> QED
    BY <2>1, <2>2, <2>3, Zenon
<1>12. ASSUME NEW p \in Held, p.id = trxid[t] PROVE p.at \in Nat /\ p.at < n
  <2>1. CASE \E z \in trxtable : p \in Theirs(z)
    <3>1. PICK z \in trxtable : p \in Theirs(z)
      BY <2>1
    <3>2. p.id = z.id
      BY <3>1, TheirsFields, Zenon
    <3>3. z = x
      BY <1>1, <1>12, <3>2, Zenon DEF Types, IInv, OneConcluder
    <3> QED
      BY <1>3, <1>8, <3>1, <3>3, Zenon
  <2>2. CASE \E u \in Threads : p \in Mine(u)
    <3>1. PICK u \in Threads : p \in Mine(u)
      BY <2>2
    <3>2. PICK k \in Left(u) : p = Place(own[u], k)
      BY <3>1, Zenon DEF Mine
    <3>3. p.id = own[u].id
      BY <3>2, PlaceFields, Zenon
    <3> QED
      BY <1>1, <1>12, <3>3, Zenon DEF Types, IInv, OneConcluder
  <2> QED
    BY <2>1, <2>2, HeldIn, Zenon
<1> QED
  BY <1>3, <1>9, <1>10, <1>11, <1>12, Zenon DEF h

-----------------------------------------------------------------------------
(* The blocks, step by step.                                                *)

BlocksKept == Kept(Held, ht, freed, Created, 1 .. nblk)

LEMMA BlocksFrame ==
    ASSUME BlocksKept, Held' \subseteq Held, UNCHANGED <<ht, freed, log, nblk>>
    PROVE  BlocksKept'
<1>1. Created' = Created
  BY CreatedSame, Zenon
<1> QED
  BY <1>1, KeptLess, Zenon DEF BlocksKept

LEMMA ChangedHt ==
    ASSUME Types, NEW t \in Threads, NEW o \in Objs, NEW r \in Recs, Change(t, o, r)
    PROVE  Changed(ht', ht, o, r) /\ UNCHANGED freed
<1>1. ht' = [ht EXCEPT ![o] = (ht[o] \ {r.old}) \cup (IF r.del THEN {} ELSE {r.blk})]
      /\ freed' = freed
  BY Zenon DEF Change
<1>2. DOMAIN ht = Objs
  BY Zenon DEF Types, Stored
<1> QED
  BY <1>1, <1>2, Zenon DEF Changed

LEMMA FreshRec ==
    ASSUME Types, NEW o \in Objs, NEW r \in Recs, Creates(o, r) \/ Deletes(o, r)
    PROVE  Fresh(r, ht[o], 1 .. nblk, 1 .. nblk')
<1>1. nblk \in Nat
  BY Zenon DEF Types, Stored
<1>2. CASE Creates(o, r)
  <2>1. 1 .. nblk \subseteq 1 .. nblk' /\ 0 \notin 1 .. nblk' /\ r.blk \in 1 .. nblk'
        /\ r.blk \notin 1 .. nblk
    BY <1>1, <1>2 DEF Creates
  <2> QED
    BY <1>2, <2>1, Zenon DEF Creates, Fresh
<1>3. CASE Deletes(o, r)
  <2>1. 1 .. nblk \subseteq 1 .. nblk' /\ 0 \notin 1 .. nblk'
    BY <1>1, <1>3 DEF Deletes
  <2> QED
    BY <1>3, <2>1, Zenon DEF Deletes, Fresh
<1> QED
  BY <1>2, <1>3, Zenon

(* The rest of a change: the thread has nothing to conclude.                *)
LEMMA LoggedHeld ==
    ASSUME Types, NEW t \in Threads, NEW o \in Objs, NEW r, Logged(t, o[1], r),
           Change(t, o, r), pc[t] \in {"put", "delete"}
    PROVE  Held' = Held
<1>1. own' = [own EXCEPT ![t] = own[t]] /\ i' = [i EXCEPT ![t] = i[t]]
      /\ pc' = [pc EXCEPT ![t] = "idle"]
  BY SameOwn, SameI, Zenon DEF Change, Return
<1>2. Only(t) /\ pc'[t] = "idle"
  BY <1>1, OnlyFact, Zenon
<1>3. Mine(t)' = {} /\ Mine(t) = {}
  BY <1>2, NotConcluding, MineNone, MineNoneP, Zenon
<1> QED
  BY <1>2, <1>3, HeldSame, Zenon DEF Logged

LEMMA ChangingKept ==
    ASSUME Types, BlocksKept, NEW t \in Threads, Changing(t)
    PROVE  BlocksKept'
<1>1. PICK o \in Objs, r \in Recs : Change(t, o, r) /\ r.obj = o /\ (Creates(o, r) \/ Deletes(o, r))
  BY Zenon DEF Changing
<1>2. pc[t] \in {"put", "delete"}
  BY Zenon DEF Changing
<1>3. Changed(ht', ht, o, r) /\ freed' = freed /\ Fresh(r, ht[o], 1 .. nblk, 1 .. nblk')
  BY <1>1, ChangedHt, FreshRec, Zenon
<1>4. ASSUME NEW mem \in BOOLEAN, Captured(t, o[1], r, mem) PROVE BlocksKept'
  <2>1. PICK n \in Nat : \A p \in Held' : p \in Held \/ p = Joins(trxid[t], n, r)
    BY <1>1, <1>2, <1>4, CapturedHeld, Zenon
  <2>2. Joins(trxid[t], n, r).rec = r
    BY Zenon DEF Joins
  <2>3. Created' = Created
    BY <1>4, CreatedSame, Zenon DEF Captured
  <2>4. Kept(Held', ht', freed, Created, 1 .. nblk')
    BY <1>1, <1>3, <2>1, <2>2, KeptTaken DEF BlocksKept
  <2> QED
    BY <1>3, <2>3, <2>4, Zenon DEF BlocksKept
<1>5. ASSUME Logged(t, o[1], r) PROVE BlocksKept'
  <2>1. o[1] \in Shards
    BY DEF Objs
  <2>2. \A b \in Created' : b \in Created \/ (~r.del /\ b = r.blk)
    BY <1>5, <2>1, CreatedLog, Zenon DEF Logged, Types
  <2>3. Held' = Held
    BY <1>1, <1>2, <1>5, LoggedHeld, Zenon
  <2>4. Kept(Held, ht', freed, Created', 1 .. nblk')
    BY <1>3, <2>2, KeptAtOnce, Zenon DEF BlocksKept
  <2> QED
    BY <1>3, <2>3, <2>4, Zenon DEF BlocksKept
<1> QED
  BY <1>1, <1>4, <1>5, Zenon DEF Change

LEMMA NoZero == Types => 0 \notin 1 .. nblk
BY DEF Types, Stored

LEMMA CommitPadKept ==
    ASSUME Types, BlocksKept, NEW t \in Threads, CommitPad(t)
    PROVE  BlocksKept'
<1>1. pc[t] = "pad" /\ log_write_internal(own[t].s, Pad, "NO", 0) /\ UNCHANGED <<ht, freed, nblk>>
  BY Zenon DEF CommitPad
<1>2. own[t].s \in Shards
  BY <1>1, OwnFact, Zenon DEF At
<1>3. Pad.blk = 0
  BY Zenon DEF Pad
<1>4. \A b \in Created' : b \in Created \/ b = 0
  BY <1>1, <1>2, <1>3, CreatedLog, Zenon DEF Types
<1>5. Held' = Held
  BY CommitPadHeld, Zenon
<1>6. Kept(Held, ht, freed, Created', 1 .. nblk)
  BY <1>4, NoZero, KeptPadded, Zenon DEF BlocksKept
<1> QED
  BY <1>1, <1>5, <1>6, Zenon DEF BlocksKept

LEMMA CommitWriteKept ==
    ASSUME Types, BlocksKept, NEW t \in Threads, CommitWrite(t)
    PROVE  BlocksKept'
<1>1. UNCHANGED <<ht, freed, nblk>>
  BY Zenon DEF CommitWrite
<1>2. PICK flag : log_write_internal(own[t].s, own[t].recs[i[t]], flag, own[t].id)
  BY Zenon DEF CommitWrite
<1>3. own[t].s \in Shards
  BY WritingRec, OwnFact, Zenon DEF At
<1>4. Current(t).rec = own[t].recs[i[t]] /\ Current(t) \in Held /\ Held' = Held \ {Current(t)}
  BY CurrentFact, CommitWriteHeld, Zenon
<1>5. \A b \in Created' : b \in Created \/ (~Current(t).rec.del /\ b = Current(t).rec.blk)
  BY <1>2, <1>3, <1>4, CreatedLog, Zenon DEF Types
<1>6. Kept(Held \ {Current(t)}, ht, freed, Created', 1 .. nblk)
  BY <1>4, <1>5, KeptLogged, Zenon DEF BlocksKept
<1> QED
  BY <1>1, <1>4, <1>6, Zenon DEF BlocksKept

LEMMA RevertKept ==
    ASSUME Types, BlocksKept, NEW t \in Threads, Revert(t)
    PROVE  BlocksKept'
<1> DEFINE p == Current(t)
           r == own[t].recs[i[t]]
<1>1. p.rec = r /\ p \in Held /\ Held' = Held \ {p}
  BY CurrentFact, RevertHeld, Zenon
<1>2. UNCHANGED <<log, nblk>> /\ DOMAIN ht = Objs /\ r.obj \in Objs
  BY CurrentFact, RevertingRec, OwnRec, Zenon DEF Revert, Types, Stored
<1>3. \/ UNCHANGED <<ht, freed>>
      \/ /\ ~r.del /\ r.blk \in ht[r.obj] /\ freed' = freed \cup {r.blk}
         /\ ht' = [ht EXCEPT ![r.obj] = (ht[r.obj] \ {r.blk}) \cup ({r.old} \ {0})]
      \/ /\ r.del /\ freed' = freed
         /\ ht' = [ht EXCEPT ![r.obj] = ht[r.obj] \cup {r.old}]
  BY Zenon DEF Revert, UndoIndex, Undo
<1> HIDE DEF p, r
<1>4. CASE UNCHANGED <<ht, freed>>
  BY <1>1, <1>2, <1>4, BlocksFrame, Zenon
<1>5. CASE /\ ~r.del /\ r.blk \in ht[r.obj] /\ freed' = freed \cup {r.blk}
           /\ ht' = [ht EXCEPT ![r.obj] = (ht[r.obj] \ {r.blk}) \cup ({r.old} \ {0})]
  <2>1. /\ \A u \in Objs : u # p.rec.obj => ht'[u] = ht[u]
        /\ ht'[p.rec.obj] = (ht[p.rec.obj] \ {p.rec.blk}) \cup ({p.rec.old} \ {0})
    BY <1>1, <1>2, <1>5, Zenon
  <2>2. Kept(Held \ {p}, ht', freed \cup {p.rec.blk}, Created, 1 .. nblk)
    <3>1. ~p.rec.del /\ p.rec.blk \in ht[p.rec.obj] /\ p \in Held
      BY <1>1, <1>5, Zenon
    <3>2. Kept(Held, ht, freed, Created, 1 .. nblk)
      BY DEF BlocksKept
    <3> QED
      BY <2>1, <3>1, <3>2, KeptUndone, Zenon
  <2> QED
    BY <1>1, <1>2, <1>5, <2>2, CreatedSame, Zenon DEF BlocksKept
<1>6. CASE /\ r.del /\ freed' = freed
           /\ ht' = [ht EXCEPT ![r.obj] = ht[r.obj] \cup {r.old}]
  <2>1. /\ \A u \in Objs : u # p.rec.obj => ht'[u] = ht[u]
        /\ ht'[p.rec.obj] = ht[p.rec.obj] \cup {p.rec.old}
    BY <1>1, <1>2, <1>6, Zenon
  <2>2. Kept(Held \ {p}, ht', freed, Created, 1 .. nblk)
    <3>1. p.rec.del /\ p \in Held
      BY <1>1, <1>6, Zenon
    <3>2. Kept(Held, ht, freed, Created, 1 .. nblk)
      BY DEF BlocksKept
    <3> QED
      BY <2>1, <3>1, <3>2, NoZero, KeptBack, Zenon
  <2> QED
    BY <1>1, <1>2, <1>6, <2>2, CreatedSame, Zenon DEF BlocksKept
<1> QED
  BY <1>3, <1>4, <1>5, <1>6, Zenon

LEMMA KindsKept ==
    ASSUME Types, BlocksKept, NEW t \in Threads, Kinds(t)
    PROVE  BlocksKept'
<1>1. CASE Stays(t) \/ Adds(t) \/ Takes(t)
  <2>1. UNCHANGED <<ht, freed, log, nblk>>
    BY <1>1, Zenon DEF Stays, Adds, Calm, Takes, store
  <2> QED
    BY <1>1, <2>1, StaysHeld, TakesHeld, BlocksFrame, Zenon
<1>2. CASE CommitStart(t) \/ CommitNothing(t) \/ RevertEnd(t)
  <2>1. UNCHANGED <<ht, freed, log, nblk>>
    BY <1>2, Zenon DEF CommitStart, CommitNothing, RevertEnd, store
  <2> QED
    BY <1>2, <2>1, CommitStartHeld, CommitNothingHeld, RevertEndHeld, BlocksFrame, Zenon
<1> QED
  BY <1>1, <1>2, CommitPadKept, CommitWriteKept, RevertKept, ChangingKept, Zenon DEF Kinds

LEMMA InitKept == Init => BlocksKept
<1> SUFFICES ASSUME Init PROVE BlocksKept
  OBVIOUS
<1>1. Held = {}
  <2>1. \A t \in Threads : Mine(t) = {}
    <3>1. \A t \in Threads : pc[t] \notin Concluding
      BY NotConcluding, Zenon DEF Init
    <3> QED
      BY <3>1, MineNone, Zenon
  <2>2. trxtable = {}
    BY DEF Init
  <2> QED
    BY <2>1, <2>2, HeldIn, Zenon
<1>2. Created = {}
  <2>1. \A s \in Shards : \A k \in DOMAIN log[s] : FALSE
    BY DEF Init
  <2> QED
    BY <2>1, Zenon DEF Created
<1>3. freed = {} /\ \A o \in Objs : ht[o] = {}
  BY Zenon DEF Init
<1> QED
  BY <1>1, <1>2, <1>3, Zenon DEF BlocksKept, Kept, Known, Once, OldKept, NewKept, TableKept,
     FreedKept

LEMMA NextKept == Types /\ BlocksKept /\ [Next]_vars => BlocksKept'
<1> SUFFICES ASSUME Types, BlocksKept, [Next]_vars PROVE BlocksKept'
  OBVIOUS
<1>1. CASE Next
  BY <1>1, NextKinds, KindsKept, Zenon
<1>2. CASE UNCHANGED vars
  <2>1. UNCHANGED <<ht, freed, log, nblk, trxtable, own, pc, i>>
    BY <1>2, Zenon DEF vars, table, store
  <2>2. \A t \in Threads : Mine(t)' = Mine(t)
    BY <2>1, Zenon DEF Mine, Left
  <2>3. Held' = Held
    BY <2>1, <2>2, HeldIn, HeldInP, Zenon
  <2> QED
    BY <2>1, <2>3, BlocksFrame, Zenon
<1> QED
  BY <1>1, <1>2, Zenon

LEMMA KeptNoDangling ==
    ASSUME Types, BlocksKept
    PROVE  NoDangling
<1>1. \A o \in Objs : ht[o] \cap freed = {}
  BY Zenon DEF BlocksKept, Kept, TableKept
<1>2. ASSUME NEW s \in Shards, NEW r \in Live(s) PROVE r.blk \notin freed
  <2>1. PICK k \in DOMAIN log[s] : r = log[s][k].rec /\ ~log[s][k].rec.del /\ log[s][k].rec.blk # 0
    BY <1>2, Zenon DEF Live
  <2>2. log[s] \in Seq(LogRecs)
    BY Zenon DEF Types, Stored
  <2>3. log[s][k] \in LogRecs
    BY <2>1, <2>2
  <2>4. log[s][k].rec \in Recs \/ log[s][k].rec = Pad
    BY <2>3, Zenon DEF LogRecs
  <2>5. log[s][k].rec \in Recs
    BY <2>1, <2>4, SMT DEF Pad
  <2>6. log[s][k].rec.blk \in Nat
    BY <2>5, Zenon DEF Recs
  <2>7. r.blk \in Created
    BY <2>1, <2>6, Zenon DEF Created
  <2> QED
    BY <2>7, Zenon DEF BlocksKept, Kept, FreedKept
<1> QED
  BY <1>1, <1>2, Zenon DEF NoDangling

-----------------------------------------------------------------------------
(* What recovery finds of an object, and what the pending changes are.      *)

LiveBlks(o) == {r.blk : r \in {q \in Live(o[1]) : q.obj = o}}

(* Record k of log L is the last word on the block b of object o.           *)
Creator(L, k, o, b) ==
    /\ L[k].rec.obj = o /\ L[k].rec.blk = b /\ b # 0 /\ ~L[k].rec.del
    /\ \A j \in DOMAIN L : j > k => L[j].rec.old # b

LEMMA LiveIn ==
    \A o, b : b \in LiveBlks(o) <=> \E k \in DOMAIN log[o[1]] : Creator(log[o[1]], k, o, b)
<1> SUFFICES ASSUME NEW o, NEW b
             PROVE  b \in LiveBlks(o) <=> \E k \in DOMAIN log[o[1]] : Creator(log[o[1]], k, o, b)
  BY Zenon
<1>1. ASSUME b \in LiveBlks(o) PROVE \E k \in DOMAIN log[o[1]] : Creator(log[o[1]], k, o, b)
  <2>1. PICK r \in Live(o[1]) : r.obj = o /\ r.blk = b
    BY <1>1, Zenon DEF LiveBlks
  <2>2. PICK k \in DOMAIN log[o[1]] :
          /\ r = log[o[1]][k].rec /\ log[o[1]][k].rec.blk # 0 /\ ~log[o[1]][k].rec.del
          /\ \A j \in DOMAIN log[o[1]] : j > k => log[o[1]][j].rec.old # log[o[1]][k].rec.blk
    BY <2>1, Zenon DEF Live
  <2> QED
    BY <2>1, <2>2 DEF Creator
<1>2. ASSUME NEW k \in DOMAIN log[o[1]], Creator(log[o[1]], k, o, b) PROVE b \in LiveBlks(o)
  <2>1. log[o[1]][k].rec \in Live(o[1])
    BY <1>2, Zenon DEF Live, Creator
  <2> QED
    BY <1>2, <2>1, Zenon DEF LiveBlks, Creator
<1> QED
  BY <1>1, <1>2, Zenon

LEMMA LiveInP ==
    \A o, b : b \in LiveBlks(o)' <=> \E k \in DOMAIN log'[o[1]] : Creator(log'[o[1]], k, o, b)
<1> SUFFICES ASSUME NEW CONSTANT o, NEW CONSTANT b
             PROVE  b \in LiveBlks(o)' <=> \E k \in DOMAIN log'[o[1]] : Creator(log'[o[1]], k, o, b)
  BY Zenon
<1>1. ASSUME b \in LiveBlks(o)' PROVE \E k \in DOMAIN log'[o[1]] : Creator(log'[o[1]], k, o, b)
  <2>1. PICK r \in Live(o[1])' : r.obj = o /\ r.blk = b
    BY <1>1, Zenon DEF LiveBlks
  <2>2. PICK k \in DOMAIN log'[o[1]] :
          /\ r = log'[o[1]][k].rec /\ log'[o[1]][k].rec.blk # 0 /\ ~log'[o[1]][k].rec.del
          /\ \A j \in DOMAIN log'[o[1]] : j > k => log'[o[1]][j].rec.old # log'[o[1]][k].rec.blk
    BY <2>1, Zenon DEF Live
  <2> QED
    BY <2>1, <2>2 DEF Creator
<1>2. ASSUME NEW k \in DOMAIN log'[o[1]], Creator(log'[o[1]], k, o, b) PROVE b \in LiveBlks(o)'
  <2>1. log'[o[1]][k].rec \in Live(o[1])'
    BY <1>2, Zenon DEF Live, Creator
  <2> QED
    BY <1>2, <2>1, Zenon DEF LiveBlks, Creator
<1> QED
  BY <1>1, <1>2, Zenon

LEMMA LiveFrame ==
    ASSUME NEW CONSTANT o, log'[o[1]] = log[o[1]]
    PROVE  LiveBlks(o)' = LiveBlks(o)
<1>1. \A b : b \in LiveBlks(o)' <=> b \in LiveBlks(o)
  BY LiveIn, LiveInP, Zenon
<1> QED
  BY <1>1, Zenon

(* A record logged: it takes the place of the block it replaces.            *)
LEMMA LiveLogged ==
    ASSUME Stored, NEW CONSTANT o, o[1] \in Shards, NEW r, NEW flag, NEW id,
           log_write_internal(o[1], r, flag, id)
    PROVE  \A b : b \in LiveBlks(o)' <=> \/ b \in LiveBlks(o) /\ b # r.old
                                         \/ r.obj = o /\ b = r.blk /\ b # 0 /\ ~r.del
<1> DEFINE L == log[o[1]]
           M == log'[o[1]]
           n == Len(L)
<1>1. /\ n \in Nat /\ DOMAIN L = 1 .. n /\ DOMAIN M = 1 .. n + 1
      /\ \A k \in 1 .. n : M[k] = L[k]
  BY LogFact, Zenon
<1>2. M[n + 1].rec = r
  <2>1. M[n + 1] = Entry(SlotAt(next_fill[o[1]]), r, flag, id)
    BY LogFact, SMT
  <2> QED
    BY <2>1, SMT DEF Entry
<1>3. \A b : b \in LiveBlks(o) <=> \E k \in DOMAIN L : Creator(L, k, o, b)
  BY LiveIn, Zenon
<1>4. \A b : b \in LiveBlks(o)' <=> \E k \in DOMAIN M : Creator(M, k, o, b)
  BY LiveInP, Zenon
<1> HIDE DEF L, M, n
<1>5. /\ \A k \in 1 .. n : k \in 1 .. n + 1 /\ n + 1 > k
      /\ \A k \in 1 .. n + 1 : k \in 1 .. n \/ k = n + 1
      /\ n + 1 \in 1 .. n + 1 /\ \A j \in 1 .. n + 1 : ~(j > n + 1)
  BY <1>1
<1>6. ASSUME NEW b, NEW k \in 1 .. n PROVE Creator(M, k, o, b) <=> Creator(L, k, o, b) /\ b # r.old
  BY <1>1, <1>2, <1>5, Zenon DEF Creator
<1>7. ASSUME NEW b PROVE Creator(M, n + 1, o, b) <=> r.obj = o /\ b = r.blk /\ b # 0 /\ ~r.del
  BY <1>1, <1>2, <1>5, Zenon DEF Creator
<1> QED
  BY <1>1, <1>3, <1>4, <1>5, <1>6, <1>7, Zenon

On(o) == {p \in Held : p.rec.obj = o}

(* The objects that only one party at a time wrote and no failed            *)
(* transaction did.                                                         *)
Good ==
    {o \in Objs : /\ o \notin clash /\ o \notin late
                  /\ \A r \in aborted : r.obj # o
                  /\ \A y \in stray : y.rec.obj # o}

Chained == \A o \in Good : Chain(On(o), LiveBlks(o), ht[o])

LEMMA HeldAt ==
    ASSUME Types
    PROVE  /\ \A p \in Held : p.at \in Nat
           /\ \A p, q \in Held : p.id = q.id /\ p.at = q.at => p = q
<1>1. ASSUME NEW p \in Held
      PROVE  \E x \in trxtable \cup {own[t] : t \in Threads} : \E k \in DOMAIN x.recs :
               p = Joins(x.id, k, x.recs[k]) /\ x.id # 0 /\ x.recs \in Seq(Recs)
  <2>1. ASSUME NEW x \in trxtable, p \in Theirs(x)
        PROVE  \E k \in DOMAIN x.recs : p = Joins(x.id, k, x.recs[k]) /\ x.id # 0
               /\ x.recs \in Seq(Recs)
    <3>1. x.recs \in Seq(Recs)
      BY BuffersDef, Zenon DEF Types, Ready, Contents
    <3>2. x.id \in 1 .. next_trx_id /\ next_trx_id \in Nat
      BY Zenon DEF Types, IInv, IdsDrawn
    <3>3. x.id # 0
      BY <3>2
    <3> QED
      BY <2>1, <3>1, <3>3, TheirsIn, Zenon
  <2>2. ASSUME NEW t \in Threads, p \in Mine(t)
        PROVE  \E k \in DOMAIN own[t].recs :
                 p = Joins(own[t].id, k, own[t].recs[k]) /\ own[t].id # 0
                 /\ own[t].recs \in Seq(Recs)
    <3>1. PICK k \in Left(t) : p = Place(own[t], k)
      BY <2>2, Zenon DEF Mine
    <3>2. k \in DOMAIN own[t].recs
      BY <3>1, Zenon DEF Left
    <3>3. own[t].id # 0
      BY <2>2, OwnFact, MineNone, Zenon DEF At
    <3> QED
      BY <3>1, <3>2, <3>3, OwnFact, Zenon DEF Place, Joins
  <2>3. CASE \E x \in trxtable : p \in Theirs(x)
    BY <2>1, <2>3, Zenon
  <2>4. CASE \E t \in Threads : p \in Mine(t)
    <3>1. PICK t \in Threads : p \in Mine(t)
      BY <2>4, Zenon
    <3>2. own[t] \in trxtable \cup {own[u] : u \in Threads}
      BY Zenon
    <3> QED
      BY <2>2, <3>1, <3>2, Zenon
  <2> QED
    BY <2>3, <2>4, HeldIn, Zenon
<1>2. ASSUME NEW p \in Held PROVE p.at \in Nat
  <2>1. PICK x \in trxtable \cup {own[t] : t \in Threads} :
          \E k \in DOMAIN x.recs : p = Joins(x.id, k, x.recs[k]) /\ x.recs \in Seq(Recs)
    BY <1>1, Zenon
  <2>2. PICK k \in DOMAIN x.recs : p = Joins(x.id, k, x.recs[k]) /\ x.recs \in Seq(Recs)
    BY <2>1, Zenon
  <2>3. k \in Nat
    BY <2>2
  <2> QED
    BY <2>2, <2>3, Zenon DEF Joins
<1>3. ASSUME NEW p \in Held, NEW q \in Held, p.id = q.id, p.at = q.at PROVE p = q
  <2>1. PICK x \in trxtable \cup {own[t] : t \in Threads} :
          \E k \in DOMAIN x.recs : p = Joins(x.id, k, x.recs[k]) /\ x.id # 0
    BY <1>1, Zenon
  <2>2. PICK k \in DOMAIN x.recs : p = Joins(x.id, k, x.recs[k]) /\ x.id # 0
    BY <2>1, Zenon
  <2>3. PICK y \in trxtable \cup {own[t] : t \in Threads} :
          \E j \in DOMAIN y.recs : q = Joins(y.id, j, y.recs[j]) /\ y.id # 0
    BY <1>1, Zenon
  <2>4. PICK j \in DOMAIN y.recs : q = Joins(y.id, j, y.recs[j]) /\ y.id # 0
    BY <2>3, Zenon
  <2>5. x.id = y.id /\ k = j
    BY <1>3, <2>2, <2>4, Zenon DEF Joins
  <2>6. x = y
    BY <2>2, <2>5, Zenon DEF Types, IInv, OneConcluder
  <2> QED
    BY <2>2, <2>4, <2>5, <2>6, Zenon
<1> QED
  BY <1>2, <1>3, Zenon

(* All pending changes of the transaction a thread concludes are its own.   *)
LEMMA HeldMine ==
    ASSUME Types, NEW t \in Threads, own[t].id # 0, NEW q \in Held, q.id = own[t].id
    PROVE  \E k \in Left(t) : q = Place(own[t], k)
<1>1. ASSUME NEW x \in trxtable, q \in Theirs(x) PROVE FALSE
  <2>1. q.id = x.id
    BY <1>1, TheirsFields, Zenon
  <2> QED
    BY <2>1, Zenon DEF Types, IInv, OneConcluder
<1>2. ASSUME NEW u \in Threads, q \in Mine(u) PROVE u = t
  <2>1. PICK k \in Left(u) : q = Place(own[u], k)
    BY <1>2, Zenon DEF Mine
  <2>2. q.id = own[u].id
    BY <2>1, PlaceFields, Zenon
  <2> QED
    BY <2>2, Zenon DEF Types, IInv, OneConcluder
<1>3. q \in Mine(t)
  BY <1>1, <1>2, HeldIn, Zenon
<1> QED
  BY <1>3, Zenon DEF Mine

(* Whoever has a pending change of an object is pending on it.              *)
LEMMA HeldPending ==
    ASSUME Types, NEW q \in Held
    PROVE  \E x \in PendingOn(q.rec.obj) : x.id = q.id
<1>1. ASSUME NEW x \in trxtable, q \in Theirs(x) PROVE x \in PendingOn(q.rec.obj) /\ x.id = q.id
  <2>1. q.id = x.id /\ \E k \in DOMAIN x.recs : q.rec = x.recs[k]
    BY <1>1, TheirsFields, Zenon
  <2> QED
    BY <2>1, Zenon DEF PendingOn
<1>2. ASSUME NEW t \in Threads, q \in Mine(t) PROVE own[t] \in PendingOn(q.rec.obj)
             /\ own[t].id = q.id
  <2>1. PICK k \in Left(t) : q = Place(own[t], k)
    BY <1>2, Zenon DEF Mine
  <2>2. q.id = own[t].id /\ q.rec = own[t].recs[k]
    BY <2>1, PlaceFields, Zenon
  <2>3. k \in DOMAIN own[t].recs
    BY <2>1, Zenon DEF Left
  <2>4. own[t] \in trxtable \cup {own[u] : u \in Threads}
    BY Zenon
  <2> QED
    BY <2>2, <2>3, <2>4, Zenon DEF PendingOn
<1>3. CASE \E x \in trxtable : q \in Theirs(x)
  BY <1>1, <1>3, Zenon
<1>4. CASE \E t \in Threads : q \in Mine(t)
  BY <1>2, <1>4, Zenon
<1> QED
  BY <1>3, <1>4, HeldIn, Zenon

(* There is a first pending change.                                         *)
LEMMA FirstOn ==
    ASSUME Types, NEW o, NEW h \in On(o)
    PROVE  \E p \in On(o) : \A q \in On(o) : p.at <= q.at
<1> DEFINE T == {p.at : p \in On(o)}
           R == {xy \in Nat \X Nat : xy[1] < xy[2]}
<1>1. T \subseteq Nat /\ T # {}
  <2>1. \A p \in On(o) : p.at \in Nat
    BY HeldAt, Zenon DEF On
  <2> QED
    BY <2>1, Zenon
<1>2. PICK x \in T : \A y \in T : <<y, x>> \notin R
  <2>1. IsWellFoundedOn(R, Nat)
    BY NatLessThanWellFounded, Zenon DEF OpToRel
  <2> HIDE DEF T, R
  <2> QED
    BY <1>1, <2>1, WFMin, Zenon
<1>3. PICK p \in On(o) : x = p.at
  BY <1>2, Zenon
<1>4. ASSUME NEW q \in On(o) PROVE p.at <= q.at
  <2>1. q.at \in T /\ q.at \in Nat /\ p.at \in Nat
    BY <1>1, <1>2, <1>3, Zenon
  <2>2. <<q.at, p.at>> \notin R
    BY <1>2, <1>3, <2>1, Zenon
  <2>3. ~(q.at < p.at)
    BY <2>1, <2>2, Zenon
  <2> QED
    BY <2>1, <2>3
<1> QED
  BY <1>4, Zenon

(* The block that a change of another object replaces is not one of o's.    *)
LEMMA OldElsewhere ==
    ASSUME Types, BlocksKept, Chained, NEW o \in Good, NEW a,
           \/ a = 0
           \/ \E p \in Held : p.rec.obj # o /\ p.rec.old = a
           \/ \E q \in Objs : q # o /\ a \in ht[q]
    PROVE  a \notin LiveBlks(o)
<1>1. Chain(On(o), LiveBlks(o), ht[o]) /\ o \in Objs
  BY Zenon DEF Chained, Good
<1>2. 0 \notin LiveBlks(o)
  BY LiveIn, Zenon DEF Creator
<1>3. CASE \A p \in On(o) : FALSE
  <2>1. LiveBlks(o) = ht[o]
    BY <1>1, <1>3, Zenon DEF Chain
  <2> QED
    BY <1>1, <1>2, <2>1, Zenon DEF BlocksKept, Kept, OldKept, TableKept
<1>4. CASE \E h : h \in On(o)
  <2>1. PICK p \in On(o) : \A q \in On(o) : p.at <= q.at
    BY <1>4, FirstOn, Zenon
  <2>2. LiveBlks(o) = Before(p.rec)
    BY <1>1, <2>1, Zenon DEF Chain
  <2>3. p \in Held /\ p.rec.obj = o
    BY Zenon DEF On
  <2>4. ASSUME a \in LiveBlks(o) PROVE FALSE
    <3>1. a = p.rec.old /\ a # 0
      BY <2>2, <2>4, Zenon DEF Before
    <3>2. \A q \in Held : q.rec.old = a => q = p
      BY <2>3, <3>1, Zenon DEF BlocksKept, Kept, Once
    <3>3. \A q \in Objs : a \notin ht[q]
      BY <2>3, <3>1, Zenon DEF BlocksKept, Kept, OldKept
    <3> QED
      BY <2>3, <3>1, <3>2, <3>3, Zenon
  <2> QED
    BY <2>4
<1> QED
  BY <1>3, <1>4, Zenon

(* A step that leaves an object's chain alone.                              *)
LEMMA OnP == \A o, p : p \in On(o)' <=> p \in Held' /\ p.rec.obj = o
BY Zenon DEF On

LEMMA OnFrame ==
    ASSUME NEW CONSTANT o, \A p : p.rec.obj = o => (p \in Held' <=> p \in Held)
    PROVE  On(o)' = On(o)
<1>1. \A p : p \in On(o)' <=> p \in On(o)
  BY OnP, Zenon DEF On
<1> QED
  BY <1>1, Zenon

ChainedNext == \A o \in Good' : Chain(On(o)', LiveBlks(o)', ht'[o])

LEMMA ChainedP == ChainedNext => Chained'
BY Zenon DEF Chained, ChainedNext

LEMMA GoodLess ==
    ASSUME clash \subseteq clash', late \subseteq late', aborted \subseteq aborted',
           stray \subseteq stray'
    PROVE  Good' \subseteq Good
BY Zenon DEF Good

LEMMA ChainFrame ==
    ASSUME Chained, NEW CONSTANT o, o \in Good, On(o)' = On(o), LiveBlks(o)' = LiveBlks(o),
           ht'[o] = ht[o]
    PROVE  Chain(On(o)', LiveBlks(o)', ht'[o])
<1>1. Chain(On(o), LiveBlks(o), ht[o])
  BY Zenon DEF Chained
<1> QED
  BY <1>1, Zenon

-----------------------------------------------------------------------------
(* A record of object u is logged: nothing changes for the others.          *)
LEMMA LoggedElsewhere ==
    ASSUME Types, BlocksKept, Chained, NEW u \in Objs, NEW r, r.obj = u, NEW flag, NEW id,
           log_write_internal(u[1], r, flag, id),
           r.old = 0 \/ (\E p \in Held : p.rec = r) \/ r.old \in ht[u],
           NEW CONSTANT o, o \in Good, o # u
    PROVE  LiveBlks(o)' = LiveBlks(o)
<1>1. u[1] \in Shards /\ o[1] \in Shards
  BY DEF Good, Objs
<1>2. CASE o[1] # u[1]
  <2>1. log'[o[1]] = log[o[1]]
    BY <1>1, <1>2, LogFact, Zenon DEF Types
  <2> QED
    BY <2>1, LiveFrame, Zenon
<1>3. CASE o[1] = u[1]
  <2>1. r.old \notin LiveBlks(o)
    BY OldElsewhere, Zenon
  <2>2. log_write_internal(o[1], r, flag, id)
    BY <1>3, Zenon
  <2>3. \A b : b \in LiveBlks(o)' <=> \/ b \in LiveBlks(o) /\ b # r.old
                                      \/ r.obj = o /\ b = r.blk /\ b # 0 /\ ~r.del
    BY <1>1, <2>2, LiveLogged, Zenon DEF Types
  <2>4. \A b : b \in LiveBlks(o)' <=> b \in LiveBlks(o)
    BY <2>1, <2>3, Zenon
  <2> QED
    BY <2>4, Zenon
<1> QED
  BY <1>2, <1>3, Zenon

LEMMA BlkNotZero ==
    ASSUME Types, BlocksKept, NEW p \in Held
    PROVE  p.rec.blk # 0 /\ (p.rec.del => p.rec.old # 0) /\ p.rec.obj \in Objs
BY NoZero, Zenon DEF BlocksKept, Kept, Known

(* mcd_trx_commit_internal logs the first of the pending changes.           *)
LEMMA CommitWriteChained ==
    ASSUME Types, BlocksKept, OneShard, Chained, NEW t \in Threads, CommitWrite(t)
    PROVE  ChainedNext
<1> DEFINE p == Current(t)
           r == own[t].recs[i[t]]
<1>1. p.rec = r /\ p.id = own[t].id /\ p.at = i[t] /\ p \in Held /\ Held' = Held \ {p}
  BY CurrentFact, CommitWriteHeld, Zenon
<1>2. UNCHANGED <<ht, clash, late, stray, aborted>>
  BY Zenon DEF CommitWrite, ghost
<1>3. Good' \subseteq Good
  BY <1>2, GoodLess, Zenon
<1>4. r.obj[1] = own[t].s /\ r.obj \in Objs
  <2>1. i[t] \in DOMAIN own[t].recs /\ r.obj \in Objs
    BY WritingRec, OwnRec, Zenon
  <2> QED
    BY <2>1, Zenon DEF OneShard, Sharded
<1>5. PICK flag : log_write_internal(r.obj[1], r, flag, own[t].id)
  BY <1>4, Zenon DEF CommitWrite
<1>6. own[t].id # 0
  BY WritingRec, OwnFact, InConclusion, Zenon DEF At
<1>7. ASSUME NEW q \in Held, q.id = p.id, q # p PROVE p.at < q.at
  <2>1. PICK k \in Left(t) : q = Place(own[t], k)
    BY <1>1, <1>6, <1>7, HeldMine, Zenon
  <2>2. k \in DOMAIN own[t].recs /\ k >= i[t]
    BY <2>1, WritingRec, LabelsApart, Zenon DEF Left
  <2>3. k # i[t]
    BY <1>7, <2>1, Zenon DEF Current
  <2>4. k \in Nat /\ i[t] \in Nat
    BY <2>2, OwnIndices
  <2>5. q.at = k
    BY <2>1, PlaceFields, Zenon
  <2> QED
    BY <1>1, <2>2, <2>3, <2>4, <2>5
<1> HIDE DEF p, r
<1>8. ASSUME NEW CONSTANT o, o \in Good', o # r.obj PROVE Chain(On(o)', LiveBlks(o)', ht'[o])
  <2>1. On(o)' = On(o)
    BY <1>1, <1>8, OnFrame, Zenon
  <2>2. LiveBlks(o)' = LiveBlks(o)
    BY <1>1, <1>3, <1>4, <1>5, <1>8, LoggedElsewhere, Zenon
  <2> QED
    BY <1>2, <1>3, <1>8, <2>1, <2>2, ChainFrame, Zenon
<1>9. ASSUME NEW CONSTANT o, o \in Good', o = r.obj PROVE Chain(On(o)', LiveBlks(o)', ht'[o])
  <2>1. Chain(On(o), LiveBlks(o), ht[o]) /\ p \in On(o)
    BY <1>1, <1>3, <1>9, Zenon DEF Chained, On
  <2>2. \A q \in On(o) : q.at \in Nat
    BY HeldAt, Zenon DEF On
  <2>3. \A q \in On(o) : q # p => p.at < q.at
    BY <1>7, <2>1, Zenon DEF On, Chain
  <2>4. LiveBlks(o) = Before(r) /\ Chain(On(o) \ {p}, After(r), ht[o])
    BY <1>1, <2>1, <2>2, <2>3, ChainFirst, Zenon
  <2>5. On(o)' = On(o) \ {p}
    <3>1. \A q : q \in On(o)' <=> q \in On(o) \ {p}
      BY <1>1, OnP, Zenon DEF On
    <3> QED
      BY <3>1, Zenon
  <2>6. LiveBlks(o)' = After(r)
    <3>1. o[1] \in Shards /\ log_write_internal(o[1], r, flag, own[t].id)
      BY <1>4, <1>5, <1>9, Zenon DEF Objs
    <3>2. \A b : b \in LiveBlks(o)' <=> \/ b \in LiveBlks(o) /\ b # r.old
                                        \/ r.obj = o /\ b = r.blk /\ b # 0 /\ ~r.del
      BY <3>1, LiveLogged, Zenon DEF Types
    <3>3. r.blk # 0
      BY <1>1, BlkNotZero, Zenon
    <3>4. \A b : b \in LiveBlks(o)' <=> b \in After(r)
      BY <1>9, <2>4, <3>2, <3>3, Zenon DEF Before, After
    <3> QED
      BY <3>4, Zenon
  <2> QED
    BY <1>2, <2>4, <2>5, <2>6, Zenon
<1> QED
  BY <1>8, <1>9, Zenon DEF ChainedNext

(* mcd_trx_rollback_internal undoes the last one.                           *)
LEMMA RevertChained ==
    ASSUME Types, BlocksKept, OneShard, Chained, NEW t \in Threads, Revert(t)
    PROVE  ChainedNext
<1> DEFINE p == Current(t)
           r == own[t].recs[i[t]]
<1>1. p.rec = r /\ p.id = own[t].id /\ p.at = i[t] /\ p \in Held /\ Held' = Held \ {p}
  BY CurrentFact, RevertHeld, Zenon
<1>2. UNCHANGED <<log, clash, late, aborted>> /\ stray \subseteq stray'
  BY Zenon DEF Revert
<1>3. Good' \subseteq Good
  BY <1>2, GoodLess, Zenon
<1>4. DOMAIN ht = Objs /\ r.obj \in Objs
  BY RevertingRec, OwnRec, Zenon DEF Types, Stored
<1>5. \/ ~r.del /\ r.blk \notin ht[r.obj] /\ UNCHANGED <<ht, stray>>
      \/ /\ ~r.del /\ r.blk \in ht[r.obj]
         /\ ht' = [ht EXCEPT ![r.obj] = (ht[r.obj] \ {r.blk}) \cup ({r.old} \ {0})]
      \/ r.del /\ ht' = [ht EXCEPT ![r.obj] = ht[r.obj] \cup {r.old}]
      \/ r.del /\ UNCHANGED ht /\ Gone(own[t].id, r) \in stray'
  BY Zenon DEF Revert, UndoIndex, Undo, Gone
<1>6. own[t].id # 0
  BY RevertingRec, OwnFact, InConclusion, Zenon DEF At
<1>7. ASSUME NEW q \in Held, q.id = p.id, q # p PROVE q.at < p.at
  <2>1. PICK k \in Left(t) : q = Place(own[t], k)
    BY <1>1, <1>6, <1>7, HeldMine, Zenon
  <2>2. k \in DOMAIN own[t].recs /\ k <= i[t]
    BY <2>1, RevertingRec, LabelsApart, Zenon DEF Left
  <2>3. k # i[t]
    BY <1>7, <2>1, Zenon DEF Current
  <2>4. k \in Nat /\ i[t] \in Nat
    BY <2>2, OwnIndices
  <2>5. q.at = k
    BY <2>1, PlaceFields, Zenon
  <2> QED
    BY <1>1, <2>2, <2>3, <2>4, <2>5
<1> HIDE DEF p, r
<1>8. ASSUME NEW CONSTANT o, o \in Good', o # r.obj PROVE Chain(On(o)', LiveBlks(o)', ht'[o])
  <2>1. On(o)' = On(o)
    BY <1>1, <1>8, OnFrame, Zenon
  <2>2. LiveBlks(o)' = LiveBlks(o)
    BY <1>2, LiveFrame, Zenon
  <2>3. ht'[o] = ht[o]
    BY <1>3, <1>4, <1>5, <1>8, Zenon DEF Good
  <2> QED
    BY <1>3, <1>8, <2>1, <2>2, <2>3, ChainFrame, Zenon
<1>9. ASSUME NEW CONSTANT o, o \in Good', o = r.obj PROVE Chain(On(o)', LiveBlks(o)', ht'[o])
  <2>1. Chain(On(o), LiveBlks(o), ht[o]) /\ p \in On(o)
    BY <1>1, <1>3, <1>9, Zenon DEF Chained, On
  <2>2. \A q \in On(o) : q.at \in Nat
    BY HeldAt, Zenon DEF On
  <2>3. \A q \in On(o) : q # p => q.at < p.at
    BY <1>7, <2>1, Zenon DEF On, Chain
  <2>4. ht[o] = After(r) /\ Chain(On(o) \ {p}, LiveBlks(o), Before(r))
    BY <1>1, <2>1, <2>2, <2>3, ChainLast, Zenon
  <2>5. On(o)' = On(o) \ {p}
    <3>1. \A q : q \in On(o)' <=> q \in On(o) \ {p}
      BY <1>1, OnP, Zenon DEF On
    <3> QED
      BY <3>1, Zenon
  <2>6. LiveBlks(o)' = LiveBlks(o)
    BY <1>2, LiveFrame, Zenon
  <2>7. ht'[o] = Before(r)
    <3>1. CASE ~r.del
      <4>1. ht[o] = {r.blk}
        BY <2>4, <3>1, Zenon DEF After
      <4>2. ht'[o] = (ht[o] \ {r.blk}) \cup ({r.old} \ {0})
        BY <1>4, <1>5, <1>9, <3>1, <4>1, Zenon
      <4> QED
        BY <4>1, <4>2, Zenon DEF Before
    <3>2. CASE r.del
      <4>1. ht[o] = {} /\ r.old # 0
        BY <1>1, <2>4, <3>2, BlkNotZero, Zenon DEF After
      <4>2. Gone(own[t].id, r) \notin stray'
        BY <1>9, Zenon DEF Good, Gone
      <4>3. ht'[o] = ht[o] \cup {r.old}
        BY <1>4, <1>5, <1>9, <3>2, <4>2, Zenon
      <4> QED
        BY <4>1, <4>3, Zenon DEF Before
    <3> QED
      BY <3>1, <3>2, Zenon
  <2> QED
    BY <2>4, <2>5, <2>6, <2>7, Zenon
<1> QED
  BY <1>8, <1>9, Zenon DEF ChainedNext

(* A change of object u that nobody else has a pending change of.           *)
LEMMA ChangeAlone ==
    ASSUME Types, NEW t \in Threads, NEW u \in Objs, NEW r \in Recs, Change(t, u, r), u \in Good'
    PROVE  \A q \in On(u) : q.id = trxid[t] /\ Found(trxid[t])
<1>1. /\ (\E x \in PendingOn(u) : x.id # trxid[t]) => u \in clash'
      /\ (\E x \in PendingOn(u) : x.id = trxid[t] /\ ~Found(trxid[t])) => u \in late'
  <2> DEFINE others == {x \in PendingOn(u) : x.id # trxid[t]}
             taken == {x \in PendingOn(u) : x.id = trxid[t] /\ ~Found(trxid[t])}
  <2>1. /\ clash' = IF others # {} THEN clash \cup {u} ELSE clash
        /\ late' = IF taken # {} THEN late \cup {u} ELSE late
    BY Zenon DEF Change
  <2> QED
    BY <2>1, Zenon
<1>2. u \notin clash' /\ u \notin late'
  BY Zenon DEF Good
<1>3. ASSUME NEW q \in On(u) PROVE q.id = trxid[t] /\ Found(trxid[t])
  <2>1. q \in Held /\ q.rec.obj = u
    BY <1>3, Zenon DEF On
  <2>2. \E x \in PendingOn(u) : x.id = q.id
    BY <2>1, HeldPending, Zenon
  <2> QED
    BY <1>1, <1>2, <2>2, Zenon
<1> QED
  BY <1>3, Zenon

LEMMA ChangeGood ==
    ASSUME NEW t \in Threads, NEW u \in Objs, NEW r \in Recs, Change(t, u, r)
    PROVE  Good' \subseteq Good
<1>1. clash \subseteq clash' /\ late \subseteq late' /\ aborted' = aborted
  BY Zenon DEF Change
<1>2. stray \subseteq stray'
  <2>1. ASSUME NEW mem \in BOOLEAN, Captured(t, u[1], r, mem) PROVE stray \subseteq stray'
    BY <2>1, Zenon DEF Captured
  <2>2. ASSUME Logged(t, u[1], r) PROVE stray \subseteq stray'
    BY <2>2, Zenon DEF Logged
  <2> QED
    BY <2>1, <2>2, Zenon DEF Change
<1> QED
  BY <1>1, <1>2, GoodLess, Zenon

(* What a change finds, and leaves, in the hash table.                      *)
LEMMA ChangeEnds ==
    ASSUME Types, BlocksKept, NEW t \in Threads, NEW u \in Objs, NEW r \in Recs, Change(t, u, r),
           Creates(u, r) \/ Deletes(u, r), \A x, y \in ht[u] : x = y
    PROVE  /\ ht[u] = Before(r) /\ ht'[u] = After(r) /\ r.blk # 0
           /\ \A o \in Objs : o # u => ht'[o] = ht[o]
<1>1. /\ ht'[u] = (ht[u] \ {r.old}) \cup (IF r.del THEN {} ELSE {r.blk})
      /\ \A o \in Objs : o # u => ht'[o] = ht[o]
  <2>1. Changed(ht', ht, u, r)
    BY ChangedHt, Zenon
  <2> QED
    BY <2>1, Zenon DEF Changed
<1>2. 0 \notin ht[u] /\ nblk \in Nat
  BY NoZero, Zenon DEF BlocksKept, Kept, TableKept, Types, Stored
<1>3. r.old \in ht[u] \/ (r.old = 0 /\ ht[u] = {})
  BY Zenon DEF Creates, Deletes
<1>4. ht[u] = Before(r)
  BY <1>2, <1>3, Zenon DEF Before
<1>5. ht'[u] = After(r)
  BY <1>1, <1>4, Zenon DEF Before, After
<1>6. r.blk # 0
  <2>1. CASE Creates(u, r)
    BY <1>2, <2>1 DEF Creates
  <2>2. CASE Deletes(u, r)
    BY <1>2, <2>2, Zenon DEF Deletes
  <2> QED
    BY <2>1, <2>2, Zenon
<1> QED
  BY <1>1, <1>4, <1>5, <1>6, Zenon

(* A new change has a record of its own.                                    *)
LEMMA ChangeNew ==
    ASSUME Types, BlocksKept, NEW u \in Objs, NEW r \in Recs, Creates(u, r) \/ Deletes(u, r)
    PROVE  \A p \in Held : p.rec # r
<1>1. ASSUME NEW p \in Held, Creates(u, r) PROVE p.rec # r
  <2>1. p.rec.blk \in 1 .. nblk
    BY Zenon DEF BlocksKept, Kept, Known
  <2>2. r.blk \notin 1 .. nblk
    BY <1>1 DEF Creates, Types, Stored
  <2> QED
    BY <2>1, <2>2, Zenon
<1>2. ASSUME NEW p \in Held, Deletes(u, r) PROVE p.rec # r
  <2>1. p.rec.old \notin ht[u]
    BY Zenon DEF BlocksKept, Kept, OldKept
  <2> QED
    BY <1>2, <2>1, Zenon DEF Deletes
<1> QED
  BY <1>1, <1>2, Zenon

LEMMA CapturedChained ==
    ASSUME Types, BlocksKept, Chained, NEW t \in Threads, NEW u \in Objs, NEW r \in Recs, r.obj = u,
           Change(t, u, r), Creates(u, r) \/ Deletes(u, r), pc[t] \in {"put", "delete"},
           NEW mem, Captured(t, u[1], r, mem)
    PROVE  ChainedNext
<1>1. Good' \subseteq Good /\ UNCHANGED log
  BY ChangeGood, Zenon DEF Captured
<1>10. PICK n \in Nat :
         LET h == Joins(trxid[t], n, r)
         IN  /\ \A p \in Held' : p \in Held \/ p = h
             /\ \A p \in Held : p \in Held' \/ Gone(trxid[t], p.rec) \in stray'
             /\ h \in Held' \/ Gone(trxid[t], r) \in stray' \/ \E p \in Held : p.rec = r
             /\ \A p \in Held : p.id = trxid[t] => p.at \in Nat /\ p.at < n
  BY CapturedHeld
<1> DEFINE h == Joins(trxid[t], n, r)
<1>2. /\ \A p \in Held' : p \in Held \/ p = h
      /\ \A p \in Held : p \in Held' \/ Gone(trxid[t], p.rec) \in stray'
      /\ h \in Held' \/ Gone(trxid[t], r) \in stray' \/ \E p \in Held : p.rec = r
      /\ \A p \in Held : p.id = trxid[t] => p.at \in Nat /\ p.at < n
  BY <1>10, Zenon
<1>3. h.id = trxid[t] /\ h.at = n /\ h.rec = r
  BY Zenon DEF Joins
<1>4. \A o \in Good' : \A id, q : q.obj = o => Gone(id, q) \notin stray'
  BY Zenon DEF Good, Gone
<1> HIDE DEF h
<1>5. \A p \in Held' : p \in Held \/ p = h
  BY <1>2, Zenon
<1>6. ASSUME NEW CONSTANT o, o \in Good', NEW p \in Held, p.rec.obj = o PROVE p \in Held'
  BY <1>2, <1>4, <1>6, Zenon
<1>7. ASSUME NEW CONSTANT o, o \in Good' PROVE LiveBlks(o)' = LiveBlks(o)
  BY <1>1, LiveFrame, Zenon
<1>8. ASSUME NEW CONSTANT o, o \in Good', o # u PROVE Chain(On(o)', LiveBlks(o)', ht'[o])
  <2>1. On(o)' = On(o)
    <3>1. \A p : p.rec.obj = o => (p \in Held' <=> p \in Held)
      BY <1>3, <1>5, <1>6, <1>8, Zenon
    <3> QED
      BY <3>1, OnFrame, Zenon
  <2>2. ht'[o] = ht[o]
    BY <1>1, <1>8, ChangedHt, Zenon DEF Changed, Good
  <2> QED
    BY <1>1, <1>7, <1>8, <2>1, <2>2, ChainFrame, Zenon
<1>9. ASSUME NEW CONSTANT o, o \in Good', o = u PROVE Chain(On(o)', LiveBlks(o)', ht'[o])
  <2>1. Chain(On(o), LiveBlks(o), ht[o])
    BY <1>1, <1>9, Zenon DEF Chained
  <2>2. ht[o] = Before(r) /\ ht'[o] = After(r)
    <3>1. \A x, y \in ht[u] : x = y
      BY <1>9, <2>1, Zenon DEF Chain
    <3> QED
      BY <1>9, <3>1, ChangeEnds, Zenon
  <2>3. h \in Held'
    BY <1>2, <1>4, <1>9, ChangeNew, Zenon
  <2>4. \A q \in On(o) : q.at \in Nat /\ q.at < h.at /\ q.id = h.id
    <3>1. \A q \in On(o) : q.id = trxid[t] /\ q \in Held
      BY <1>9, ChangeAlone, Zenon DEF On
    <3> QED
      BY <1>2, <1>3, <3>1, Zenon
  <2>5. \A q : q \in On(o)' <=> q \in On(o) \/ q = h
    BY <1>3, <1>5, <1>6, <1>9, <2>3, OnP, Zenon DEF On
  <2>6. Chain(On(o)', LiveBlks(o), After(h.rec))
    <3>1. ht[o] = Before(h.rec) /\ h.at \in Nat
      BY <1>3, <2>2, Zenon
    <3> QED
      BY <2>1, <2>4, <2>5, <3>1, ChainMore, Zenon
  <2> QED
    BY <1>3, <1>7, <1>9, <2>2, <2>6, Zenon
<1> QED
  BY <1>8, <1>9, Zenon DEF ChainedNext

LEMMA LoggedChained ==
    ASSUME Types, BlocksKept, Chained, NEW t \in Threads, NEW u \in Objs, NEW r \in Recs, r.obj = u,
           Change(t, u, r), Creates(u, r) \/ Deletes(u, r), pc[t] \in {"put", "delete"},
           Logged(t, u[1], r)
    PROVE  ChainedNext
<1>1. Good' \subseteq Good /\ Held' = Held
  BY ChangeGood, LoggedHeld, Zenon
<1>2. log_write_internal(u[1], r, "NO", 0) /\ ~Found(trxid[t])
  BY Zenon DEF Logged
<1>3. r.old = 0 \/ r.old \in ht[u]
  BY Zenon DEF Creates, Deletes
<1>4. ASSUME NEW CONSTANT o, o \in Good' PROVE On(o)' = On(o)
  BY <1>1, OnFrame, Zenon
<1>5. ASSUME NEW CONSTANT o, o \in Good', o # u PROVE Chain(On(o)', LiveBlks(o)', ht'[o])
  <2>1. LiveBlks(o)' = LiveBlks(o)
    BY <1>1, <1>2, <1>3, <1>5, LoggedElsewhere, Zenon
  <2>2. ht'[o] = ht[o]
    BY <1>1, <1>5, ChangedHt, Zenon DEF Changed, Good
  <2> QED
    BY <1>1, <1>4, <1>5, <2>1, <2>2, ChainFrame, Zenon
<1>6. ASSUME NEW CONSTANT o, o \in Good', o = u PROVE Chain(On(o)', LiveBlks(o)', ht'[o])
  <2>1. Chain(On(o), LiveBlks(o), ht[o])
    BY <1>1, <1>6, Zenon DEF Chained
  <2>2. \A q \in On(o) : FALSE
    BY <1>2, <1>6, ChangeAlone, Zenon
  <2>3. ht[o] = Before(r) /\ ht'[o] = After(r) /\ r.blk # 0
    <3>1. \A x, y \in ht[u] : x = y
      BY <1>6, <2>1, Zenon DEF Chain
    <3> QED
      BY <1>6, <3>1, ChangeEnds, Zenon
  <2>4. LiveBlks(o) = ht[o]
    BY <2>1, <2>2, Zenon DEF Chain
  <2>5. LiveBlks(o)' = After(r)
    <3>1. o[1] \in Shards /\ log_write_internal(o[1], r, "NO", 0)
      BY <1>2, <1>6, Zenon DEF Objs
    <3>2. \A b : b \in LiveBlks(o)' <=> \/ b \in LiveBlks(o) /\ b # r.old
                                        \/ r.obj = o /\ b = r.blk /\ b # 0 /\ ~r.del
      BY <3>1, LiveLogged, Zenon DEF Types
    <3>3. \A b \in LiveBlks(o) : b = r.old
      BY <2>3, <2>4, Zenon DEF Before
    <3>4. r.obj = o /\ r.blk # 0
      BY <1>6, <2>3, Zenon
    <3>5. \A b : b \in LiveBlks(o)' <=> b \in After(r)
      BY <3>2, <3>3, <3>4, Zenon DEF After
    <3> QED
      BY <3>5, Zenon
  <2>6. Chain(On(o), After(r), After(r))
    BY <2>2, AtMostOne, ChainNone, Zenon
  <2> QED
    BY <1>4, <1>6, <2>3, <2>5, <2>6, Zenon
<1> QED
  BY <1>5, <1>6, Zenon DEF ChainedNext

(* A no-op record in the log replaces nothing.                              *)
LEMMA CommitPadChained ==
    ASSUME Types, Chained, NEW t \in Threads, CommitPad(t)
    PROVE  ChainedNext
<1>1. /\ pc[t] = "pad" /\ log_write_internal(own[t].s, Pad, "NO", 0)
      /\ UNCHANGED <<ht, clash, late, stray, aborted>>
  BY Zenon DEF CommitPad, ghost
<1>2. own[t].s \in Shards
  BY <1>1, OwnFact, Zenon DEF At
<1>3. Pad.blk = 0 /\ Pad.old = 0
  BY Zenon DEF Pad
<1>4. Good' \subseteq Good /\ Held' = Held
  BY <1>1, GoodLess, CommitPadHeld, Zenon
<1>5. ASSUME NEW CONSTANT o, o \in Good' PROVE Chain(On(o)', LiveBlks(o)', ht'[o])
  <2>1. On(o)' = On(o)
    BY <1>4, OnFrame, Zenon
  <2>2. CASE o[1] # own[t].s
    <3>1. o[1] \in Shards
      BY <1>4, <1>5, Zenon DEF Good, Objs
    <3>2. log'[o[1]] = log[o[1]]
      BY <1>1, <1>2, <2>2, <3>1, LogFact, Zenon DEF Types
    <3>3. LiveBlks(o)' = LiveBlks(o)
      BY <3>2, LiveFrame, Zenon
    <3> QED
      BY <1>1, <1>4, <1>5, <2>1, <3>3, ChainFrame, Zenon
  <2>3. CASE o[1] = own[t].s
    <3>1. log_write_internal(o[1], Pad, "NO", 0) /\ o[1] \in Shards
      BY <1>1, <1>2, <2>3, Zenon
    <3>2. \A b : b \in LiveBlks(o)' <=> \/ b \in LiveBlks(o) /\ b # Pad.old
                                        \/ Pad.obj = o /\ b = Pad.blk /\ b # 0 /\ ~Pad.del
      BY <3>1, LiveLogged, Zenon DEF Types
    <3>3. 0 \notin LiveBlks(o)
      BY LiveIn, Zenon DEF Creator
    <3>4. \A b : b \in LiveBlks(o)' <=> b \in LiveBlks(o)
      BY <1>3, <3>2, <3>3, Zenon
    <3>5. LiveBlks(o)' = LiveBlks(o)
      BY <3>4, Zenon
    <3> QED
      BY <1>1, <1>4, <1>5, <2>1, <3>5, ChainFrame, Zenon
  <2> QED
    BY <2>2, <2>3, Zenon
<1> QED
  BY <1>5, Zenon DEF ChainedNext

(* A transaction freed with its changes undone by nobody.                   *)
LEMMA CommitNothingChained ==
    ASSUME Types, Chained, NEW t \in Threads, CommitNothing(t)
    PROVE  ChainedNext
<1>1. UNCHANGED <<ht, log, clash, late, stray>> /\ aborted' = aborted \cup Changes(own[t])
  BY Zenon DEF CommitNothing, store
<1>2. Good' \subseteq Good
  BY <1>1, GoodLess, Zenon
<1>3. Held' \subseteq Held /\ \A p \in Held : p \in Held' \/ p \in Mine(t)
  BY CommitNothingHeld, Zenon
<1>4. ASSUME NEW p \in Mine(t) PROVE p.rec \in aborted'
  <2>1. PICK k \in Left(t) : p = Place(own[t], k)
    BY <1>4, Zenon DEF Mine
  <2>2. p.rec = own[t].recs[k] /\ k \in DOMAIN own[t].recs
    BY <2>1, PlaceFields, Zenon DEF Left
  <2>3. own[t].recs[k] \in Changes(own[t])
    BY <2>2, Zenon DEF Changes
  <2> QED
    BY <1>1, <2>2, <2>3, Zenon
<1>5. ASSUME NEW CONSTANT o, o \in Good' PROVE Chain(On(o)', LiveBlks(o)', ht'[o])
  <2>1. \A r \in aborted' : r.obj # o
    BY <1>5, Zenon DEF Good
  <2>2. On(o)' = On(o)
    <3>1. \A p : p.rec.obj = o => (p \in Held' <=> p \in Held)
      BY <1>3, <1>4, <2>1, Zenon
    <3> QED
      BY <3>1, OnFrame, Zenon
  <2>3. LiveBlks(o)' = LiveBlks(o)
    BY <1>1, LiveFrame, Zenon
  <2> QED
    BY <1>1, <1>2, <1>5, <2>2, <2>3, ChainFrame, Zenon
<1> QED
  BY <1>5, Zenon DEF ChainedNext

LEMMA IdleChained ==
    ASSUME Chained, Held' = Held, UNCHANGED <<ht, log, ghost>>
    PROVE  ChainedNext
<1>1. UNCHANGED <<clash, late, stray, aborted>>
  BY Zenon DEF ghost
<1>2. Good' \subseteq Good
  BY <1>1, GoodLess, Zenon
<1>3. ASSUME NEW CONSTANT o, o \in Good' PROVE Chain(On(o)', LiveBlks(o)', ht'[o])
  <2>1. On(o)' = On(o)
    BY OnFrame, Zenon
  <2>2. LiveBlks(o)' = LiveBlks(o)
    BY LiveFrame, Zenon
  <2> QED
    BY <1>2, <1>3, <2>1, <2>2, ChainFrame, Zenon
<1> QED
  BY <1>3, Zenon DEF ChainedNext

LEMMA ChangingChained ==
    ASSUME Types, BlocksKept, OneShard, Chained, NEW t \in Threads, Changing(t)
    PROVE  ChainedNext
<1>1. PICK u \in Objs, r \in Recs : Change(t, u, r) /\ r.obj = u /\ (Creates(u, r) \/ Deletes(u, r))
  BY Zenon DEF Changing
<1>2. pc[t] \in {"put", "delete"}
  BY Zenon DEF Changing
<1>3. ASSUME NEW mem \in BOOLEAN, Captured(t, u[1], r, mem) PROVE ChainedNext
  BY <1>1, <1>2, <1>3, CapturedChained, Zenon
<1>4. ASSUME Logged(t, u[1], r) PROVE ChainedNext
  BY <1>1, <1>2, <1>4, LoggedChained, Zenon
<1> QED
  BY <1>1, <1>3, <1>4, Zenon DEF Change

LEMMA KindsChained ==
    ASSUME Types, BlocksKept, OneShard, Chained, NEW t \in Threads, Kinds(t)
    PROVE  ChainedNext
<1>1. CASE Stays(t) \/ Adds(t) \/ Takes(t)
  <2>1. UNCHANGED <<ht, log, ghost>>
    BY <1>1, Zenon DEF Stays, Adds, Calm, Takes, store
  <2> QED
    BY <1>1, <2>1, StaysHeld, TakesHeld, IdleChained, Zenon
<1>2. CASE CommitStart(t) \/ RevertEnd(t)
  <2>1. UNCHANGED <<ht, log, ghost>>
    BY <1>2, Zenon DEF CommitStart, RevertEnd, store
  <2> QED
    BY <1>2, <2>1, CommitStartHeld, RevertEndHeld, IdleChained, Zenon
<1> QED
  BY <1>1, <1>2, CommitPadChained, CommitWriteChained, CommitNothingChained, RevertChained,
     ChangingChained, Zenon DEF Kinds

LEMMA NextChained ==
    Types /\ BlocksKept /\ OneShard /\ Chained /\ [Next]_vars => Chained'
<1> SUFFICES ASSUME Types, BlocksKept, OneShard, Chained, [Next]_vars PROVE ChainedNext
  BY ChainedP, Zenon
<1>1. CASE Next
  BY <1>1, NextKinds, KindsChained, Zenon
<1>2. CASE UNCHANGED vars
  <2>1. UNCHANGED <<ht, log, ghost, trxtable, own, pc, i>>
    BY <1>2, Zenon DEF vars, table, store
  <2>2. \A t \in Threads : Mine(t)' = Mine(t)
    BY <2>1, Zenon DEF Mine, Left
  <2>3. Held' = Held
    BY <2>1, <2>2, HeldIn, HeldInP, Zenon
  <2> QED
    BY <2>1, <2>3, IdleChained, Zenon
<1> QED
  BY <1>1, <1>2, Zenon

LEMMA InitChained == Init => Chained
<1> SUFFICES ASSUME Init, NEW o \in Good PROVE Chain(On(o), LiveBlks(o), ht[o])
  BY Zenon DEF Chained
<1>1. o \in Objs
  BY Zenon DEF Good
<1>2. \A p \in On(o) : FALSE
  <2>1. \A t \in Threads : Mine(t) = {}
    <3>1. \A t \in Threads : pc[t] \notin Concluding
      BY NotConcluding, Zenon DEF Init
    <3> QED
      BY <3>1, MineNone, Zenon
  <2>2. trxtable = {}
    BY DEF Init
  <2> QED
    BY <2>1, <2>2, HeldIn, Zenon DEF On
<1>3. ht[o] = {}
  BY <1>1, Zenon DEF Init
<1>4. LiveBlks(o) = {}
  <2>1. \A k \in DOMAIN log[o[1]] : FALSE
    BY <1>1 DEF Init, Objs
  <2> QED
    BY <2>1, LiveIn, Zenon
<1> QED
  BY <1>2, <1>3, <1>4, ChainNone, Zenon

(* With nothing pending, the log and the hash table agree.                  *)
LEMMA ChainedMatches ==
    ASSUME Types, Chained
    PROVE  ReplayMatches
<1> SUFFICES ASSUME Quiet, NEW o \in Objs \ (clash \cup late \cup AbortedObjs \cup StrayObjs)
             PROVE  Same(o)
  BY Zenon DEF ReplayMatches
<1>1. o \in Good
  BY Zenon DEF Good, AbortedObjs, StrayObjs
<1>2. \A p \in On(o) : FALSE
  <2>1. \A t \in Threads : Mine(t) = {}
    <3>1. \A t \in Threads : pc[t] \notin Concluding
      BY NotConcluding, Zenon DEF Quiet
    <3> QED
      BY <3>1, MineNone, Zenon
  <2>2. trxtable = {}
    BY Zenon DEF Quiet
  <2> QED
    BY <2>1, <2>2, HeldIn, Zenon DEF On
<1>3. LiveBlks(o) = ht[o]
  BY <1>1, <1>2, Zenon DEF Chained, Chain
<1> QED
  BY <1>3, Zenon DEF Same, LiveBlks

(* No entry of the hash table, and none that recovery restores, refers to a *)
(* block that a rollback freed (mcd_osd_trx_revert), for any threads and    *)
(* transactions, whatever they do to each other.                            *)
THEOREM BlocksNeverDangle == Spec => []NoDangling
<1>1. Init => Types /\ BlocksKept
  BY InitTypes, InitKept, Zenon
<1>2. Types /\ BlocksKept /\ [Next]_vars => Types' /\ BlocksKept'
  BY NextTypes, NextKept, Zenon
<1>3. Types /\ BlocksKept => NoDangling
  BY KeptNoDangling, Zenon
<1> QED
  BY <1>1, <1>2, <1>3, PTL DEF Spec

(* With no transaction open, replaying the log (mcd_rec.c) gives the hash   *)
(* table, for any threads, transactions and sizes: commits, rollbacks and   *)
(* plain changes leave the two in step on every object that was written by  *)
(* one party at a time and by no failed transaction.                        *)
THEOREM ReplayAgrees == Spec => []ReplayMatches
<1>1. Init => Types /\ BlocksKept /\ OneShard /\ Chained
  BY InitTypes, InitKept, InitShard, InitChained, Zenon
<1>2. Types /\ BlocksKept /\ OneShard /\ Chained /\ [Next]_vars
        => Types' /\ BlocksKept' /\ OneShard' /\ Chained'
  BY NextTypes, NextKept, NextShard, NextChained, Zenon
<1>3. Types /\ Chained => ReplayMatches
  BY ChainedMatches
<1> QED
  BY <1>1, <1>2, <1>3, PTL DEF Spec
=============================================================================
