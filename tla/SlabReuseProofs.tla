-------------------------- MODULE SlabReuseProofs ---------------------------
(***************************************************************************)
(* Proofs about SlabReuse, for any threads, keys, slabs and sizes: what a  *)
(* recovery may need is not overwritten, every slab is in one place, and   *)
(* the list of slabs to free fits into its allocation.                     *)
(*                                                                         *)
(* First the types, and a placement of the slabs, which puts every slab in *)
(* exactly one place, with the steps of the clients that keep one.  Then:  *)
(* a bracket has an id of its own, slabs are freed after the sync, and the *)
(* steps of the log writer keep a placement too.                           *)
(***************************************************************************)
EXTENDS SlabReuse, TLAPS

LEMMA DivBound ==
    ASSUME NEW a \in Nat, NEW d \in Nat, d > 0
    PROVE  (a \div d) \in Nat /\ (a \div d) * d <= a /\ a < (a \div d) * d + d
OBVIOUS

(* The places D of the sequence f list the elements of A, each of them once. *)
Lists(f, D, A) ==
    /\ \A i \in D : f[i] \in A
    /\ \A i, j \in D : f[i] = f[j] => i = j
    /\ \A s \in A : \E i \in D : f[i] = s

LEMMA ListsAppend ==
    ASSUME NEW S, NEW f \in Seq(S), NEW A, Lists(f, 1 .. Len(f), A), NEW s \in S, s \notin A
    PROVE  Lists(Append(f, s), 1 .. Len(Append(f, s)), A \cup {s})
<1> DEFINE g == Append(f, s)
           n == Len(f)
<1>1. n \in Nat /\ Len(g) = n + 1 /\ g[n + 1] = s /\ \A i \in 1 .. n : g[i] = f[i]
  OBVIOUS
<1>2. \A i \in 1 .. n + 1 : i \in 1 .. n \/ i = n + 1
  BY <1>1
<1>3. n + 1 \in 1 .. n + 1 /\ \A i \in 1 .. n : i \in 1 .. n + 1
  BY <1>1
<1> HIDE DEF g, n
<1>4. \A i \in 1 .. n + 1 : g[i] \in A \cup {s}
  BY <1>1, <1>2, Zenon DEF Lists, n
<1>5. \A i, j \in 1 .. n + 1 : g[i] = g[j] => i = j
  BY <1>1, <1>2, Zenon DEF Lists, n
<1>6. \A r \in A \cup {s} : \E i \in 1 .. n + 1 : g[i] = r
  BY <1>1, <1>3, Zenon DEF Lists, n
<1>7. Lists(g, 1 .. Len(g), A \cup {s})
  BY <1>1, <1>4, <1>5, <1>6, Zenon DEF Lists
<1> QED
  BY <1>7 DEF g

LEMMA ListsTail ==
    ASSUME NEW S, NEW f \in Seq(S), NEW A, Lists(f, 1 .. Len(f), A), f # <<>>
    PROVE  Head(f) \in A /\ Lists(Tail(f), 1 .. Len(Tail(f)), A \ {Head(f)})
<1> DEFINE g == Tail(f)
           h == Head(f)
           n == Len(g)
<1>1. n \in Nat /\ Len(f) = n + 1 /\ h = f[1] /\ \A i \in 1 .. n : g[i] = f[i + 1]
  OBVIOUS
<1>2. 1 \in 1 .. n + 1 /\ \A i \in 1 .. n : i + 1 \in 1 .. n + 1 /\ i + 1 # 1
  BY <1>1
<1>3. \A i, j \in 1 .. n : i + 1 = j + 1 => i = j
  BY <1>1
<1>4. \A i \in 1 .. n + 1 : i = 1 \/ (i - 1 \in 1 .. n /\ (i - 1) + 1 = i)
  BY <1>1
<1> HIDE DEF g, h, n
<1>0. /\ \A i \in 1 .. n + 1 : f[i] \in A
      /\ \A i, j \in 1 .. n + 1 : f[i] = f[j] => i = j
      /\ \A s \in A : \E i \in 1 .. n + 1 : f[i] = s
  BY <1>1, Zenon DEF Lists
<1>5. \A i \in 1 .. n : g[i] \in A \ {h}
  <2> SUFFICES ASSUME NEW i \in 1 .. n PROVE f[i + 1] \in A /\ f[i + 1] # f[1]
    BY <1>1, Zenon
  <2> QED
    BY <1>0, <1>2, Zenon
<1>6. \A i, j \in 1 .. n : g[i] = g[j] => i = j
  <2> SUFFICES ASSUME NEW i \in 1 .. n, NEW j \in 1 .. n, f[i + 1] = f[j + 1] PROVE i = j
    BY <1>1, Zenon
  <2>1. i + 1 = j + 1
    BY <1>0, <1>2, Zenon
  <2> QED
    BY <1>3, <2>1, Zenon
<1>7. \A r \in A \ {h} : \E i \in 1 .. n : g[i] = r
  <2> SUFFICES ASSUME NEW r \in A, r # h PROVE \E i \in 1 .. n : g[i] = r
    BY Zenon
  <2>1. PICK i \in 1 .. n + 1 : f[i] = r
    BY <1>0, Zenon
  <2>2. i - 1 \in 1 .. n /\ (i - 1) + 1 = i
    BY <1>1, <1>4, <2>1, Zenon
  <2> QED
    BY <1>1, <2>1, <2>2, Zenon
<1>8. h \in A
  BY <1>0, <1>1, <1>2, Zenon
<1>9. Lists(g, 1 .. n, A \ {h})
  BY <1>5, <1>6, <1>7, Zenon DEF Lists
<1> QED
  BY <1>8, <1>9 DEF g, h, n

LEMMA ListsConcat ==
    ASSUME NEW S, NEW f \in Seq(S), NEW g \in Seq(S), NEW k \in 0 .. Len(f), NEW A, NEW B,
           Lists(f, k + 1 .. Len(f), A), Lists(g, 1 .. Len(g), B), A \cap B = {}
    PROVE  Lists(f \o g, k + 1 .. Len(f \o g), A \cup B)
<1> DEFINE h == f \o g
           n == Len(f)
           m == Len(g)
<1>1. /\ n \in Nat /\ m \in Nat /\ Len(h) = n + m /\ k \in 0 .. n
      /\ \A i \in 1 .. n + m : h[i] = IF i <= n THEN f[i] ELSE g[i - n]
  OBVIOUS
<1> HIDE DEF h, n, m
<1>2. ASSUME NEW i \in k + 1 .. n PROVE i \in k + 1 .. n + m /\ h[i] = f[i]
  <2>1. i \in 1 .. n + m /\ i <= n /\ i \in k + 1 .. n + m
    BY <1>1
  <2> QED
    BY <1>1, <2>1, Zenon
<1>3. ASSUME NEW i \in 1 .. m PROVE n + i \in k + 1 .. n + m /\ h[n + i] = g[i]
  <2>1. n + i \in k + 1 .. n + m /\ n + i \in 1 .. n + m /\ ~(n + i <= n) /\ (n + i) - n = i
    BY <1>1
  <2> QED
    BY <1>1, <2>1, Zenon
<1>4. \A i \in k + 1 .. n + m : i \in k + 1 .. n \/ (i - n \in 1 .. m /\ n + (i - n) = i)
  BY <1>1
<1>5. /\ \A i \in k + 1 .. n : f[i] \in A
      /\ \A i, j \in k + 1 .. n : f[i] = f[j] => i = j
      /\ \A s \in A : \E i \in k + 1 .. n : f[i] = s
  BY Zenon DEF Lists, n
<1>6. /\ \A i \in 1 .. m : g[i] \in B
      /\ \A i, j \in 1 .. m : g[i] = g[j] => i = j
      /\ \A s \in B : \E i \in 1 .. m : g[i] = s
  BY Zenon DEF Lists, m
<1>7. ASSUME NEW i \in k + 1 .. n + m
      PROVE  \/ i \in k + 1 .. n /\ h[i] = f[i] /\ h[i] \in A /\ h[i] \notin B
             \/ i - n \in 1 .. m /\ n + (i - n) = i /\ h[i] = g[i - n] /\ h[i] \in B /\ h[i] \notin A
  <2>1. CASE i \in k + 1 .. n
    BY <1>2, <1>5, <2>1, Zenon
  <2>2. CASE i - n \in 1 .. m /\ n + (i - n) = i
    <3>1. h[n + (i - n)] = g[i - n]
      BY <1>3, <2>2, Zenon
    <3> QED
      BY <1>6, <2>2, <3>1, Zenon
  <2> QED
    BY <1>4, <2>1, <2>2, Zenon
<1>8. ASSUME NEW i \in k + 1 .. n + m, NEW j \in k + 1 .. n + m, h[i] = h[j] PROVE i = j
  <2>1. CASE i \in k + 1 .. n /\ h[i] = f[i] /\ h[i] \in A /\ h[i] \notin B
    BY <1>5, <1>7, <1>8, <2>1, Zenon
  <2>2. CASE i - n \in 1 .. m /\ n + (i - n) = i /\ h[i] = g[i - n] /\ h[i] \in B /\ h[i] \notin A
    <3>1. j - n \in 1 .. m /\ n + (j - n) = j /\ h[j] = g[j - n]
      BY <1>7, <1>8, <2>2, Zenon
    <3>2. i - n = j - n
      BY <1>6, <1>8, <2>2, <3>1, Zenon
    <3> QED
      BY <2>2, <3>1, <3>2, Zenon
  <2> QED
    BY <1>7, <2>1, <2>2, Zenon
<1>9. ASSUME NEW s \in A \cup B PROVE \E i \in k + 1 .. n + m : h[i] = s
  <2>1. CASE s \in A
    BY <1>2, <1>5, <2>1, Zenon
  <2>2. CASE s \in B
    BY <1>3, <1>6, <2>2, Zenon
  <2> QED
    BY <2>1, <2>2, Zenon
<1>10. Lists(h, k + 1 .. Len(h), A \cup B)
  BY <1>1, <1>7, <1>8, <1>9, Zenon DEF Lists
<1> QED
  BY <1>10 DEF h

LEMMA SeqAppend ==
    ASSUME NEW S, NEW f \in Seq(S), NEW s \in S
    PROVE  /\ Append(f, s) \in Seq(S) /\ Append(f, s) # <<>>
           /\ Tail(Append(f, s)) \in Seq(S)
<1>1. Append(f, s) \in Seq(S) /\ Len(Append(f, s)) = Len(f) + 1 /\ Len(f) \in Nat
  OBVIOUS
<1>2. Append(f, s) # <<>>
  BY <1>1
<1> QED
  BY <1>1, <1>2

LEMMA BufType == shard \in Shards => BufRecs \in Nat /\ BufRecs > 0
BY ReuseAssumption DEF ReuseAssumption, BufRecs

(* The log writer writes at most one buffer, and nothing that is not there. *)
LEMMA WriteEndBounds ==
    ASSUME TypeOK
    PROVE  WriteEnd \in written .. Len(log) /\ WriteEnd <= written + BufRecs
<1>1. written \in Nat /\ Len(log) \in Nat /\ written <= Len(log)
  BY DEF TypeOK, TypeLog
<1>2. BufRecs \in Nat /\ BufRecs > 0
  BY BufType DEF TypeOK, TypeStore
<1> DEFINE q == written \div BufRecs
<1>3. q \in Nat /\ q * BufRecs <= written /\ written < q * BufRecs + BufRecs
  BY <1>1, <1>2, DivBound
<1> HIDE DEF q
<1>4. (q + 1) * BufRecs = q * BufRecs + BufRecs
  BY <1>2, <1>3
<1>5. q * BufRecs \in Nat
  BY <1>2, <1>3
<1>6. WriteEnd = IF (q + 1) * BufRecs <= Len(log) THEN (q + 1) * BufRecs ELSE Len(log)
  BY DEF WriteEnd, q
<1> QED
  BY <1>1, <1>2, <1>3, <1>4, <1>5, <1>6

(* A write of the log makes no record less safe, and none safe that is not  *)
(* in the log.                                                              *)
LEMMA WriteSecures ==
    ASSUME TypeOK, WriteLog
    PROVE  durable' \in 0 .. Len(log) /\ durable <= durable'
<1>1. durable \in Nat /\ durable <= Len(log) /\ Len(log) \in Nat /\ written \in Nat
  BY DEF TypeOK, TypeLog
<1>2. durable' = IF shard.commit_sw /\ WriteEnd > durable THEN WriteEnd ELSE durable
  BY Zenon DEF WriteLog
<1>3. WriteEnd \in Nat /\ WriteEnd <= Len(log)
  BY <1>1, WriteEndBounds
<1> HIDE DEF WriteEnd
<1>4. CASE shard.commit_sw /\ WriteEnd > durable
  <2>1. durable' = WriteEnd
    BY <1>2, <1>4, Zenon
  <2> QED
    BY <1>1, <1>3, <1>4, <2>1
<1>5. CASE ~(shard.commit_sw /\ WriteEnd > durable)
  <2>1. durable' = durable
    BY <1>2, <1>5, Zenon
  <2> QED
    BY <1>1, <2>1
<1> QED
  BY <1>4, <1>5, Zenon

LEMMA NoneApart == None \notin Threads /\ None \notin Keys /\ None \notin Slabs
BY ReuseAssumption DEF ReuseAssumption

LEMMA NoPendSlab == NoPend.slab = None
BY DEF NoPend

IsPend(x, k, s) == x = [key |-> k, slab |-> s]

LEMMA PendSlab == ASSUME NEW k, NEW s, NEW x, IsPend(x, k, s) PROVE x.slab = s
BY DEF IsPend

(* Sequences, one element longer, and their elements.                       *)
IsAppend(z, q, e) == z = Append(q, e)

Extends(z, q, e, S) ==
    /\ z \in Seq(S) /\ Len(q) \in Nat /\ Len(z) = Len(q) + 1 /\ Len(z) >= Len(q)
    /\ z[Len(q) + 1] = e /\ \A i \in 1 .. Len(q) : z[i] = q[i]

LEMMA Appended ==
    ASSUME NEW S, NEW q \in Seq(S), NEW e \in S, NEW z, IsAppend(z, q, e)
    PROVE  Extends(z, q, e, S)
BY DEF IsAppend, Extends

LEMMA SeqElement ==
    ASSUME NEW S, NEW q \in Seq(S) PROVE Len(q) \in Nat /\ \A i \in 1 .. Len(q) : q[i] \in S
OBVIOUS

LEMMA SeqElementFrom ==
    ASSUME NEW S, NEW q \in Seq(S), NEW k \in Nat
    PROVE  \A i \in k + 1 .. Len(q) : q[i] \in S
OBVIOUS

LEMMA OneLonger ==
    ASSUME NEW m \in Nat
    PROVE  /\ m + 1 \in 1 .. m + 1 /\ \A i \in 1 .. m : i \in 1 .. m + 1
           /\ \A i \in 1 .. m + 1 : i \in 1 .. m \/ i = m + 1
OBVIOUS

LEMMA SeqSame ==
    ASSUME NEW S, NEW q \in Seq(S) PROVE Len(q) >= Len(q) /\ \A i \in 1 .. Len(q) : q[i] = q[i]
OBVIOUS

LEMMA PendType ==
    ASSUME TypeOK, NEW t \in Threads, pend[t] # NoPend
    PROVE  pend[t].key \in Keys /\ pend[t].slab \in Slabs
           /\ pend[t] = [key |-> pend[t].key, slab |-> pend[t].slab]
BY DEF TypeOK, TypeStore

(* What log_write_internal appends.                                         *)
LEMMA RecordType ==
    ASSUME TypeOK, NEW t \in Threads, NEW k \in Keys, NEW new \in Slabs \cup {None},
           LogRecord(t, k, new)
    PROVE  /\ log' \in Seq(LogRec) /\ Len(log') = Len(log) + 1
           /\ \A i \in 1 .. Len(log) : log'[i] = log[i]
           /\ bslabs' \in [Threads -> Seq(Slabs)]
           /\ lost' \subseteq Slabs
<1> DEFINE r == [key |-> k, new |-> new,
                 ver |-> IF new = None THEN 0 ELSE data[new],
                 old |-> hash[k],
                 oldver |-> IF hash[k] = None THEN 0 ELSE data[hash[k]],
                 br |-> IF Vdc THEN bracket[t] ELSE 0]
<1>1. r \in LogRec
  BY DEF TypeOK, TypeStore, TypeBrackets, LogRec
<1>2. log' = Append(log, r)
  BY DEF LogRecord
<1> HIDE DEF r
<1>3. log' \in Seq(LogRec) /\ Len(log') = Len(log) + 1
      /\ \A i \in 1 .. Len(log) : log'[i] = log[i]
  BY <1>1, <1>2 DEF TypeOK, TypeLog
<1>4. hash[k] \in Slabs \cup {None}
  BY DEF TypeOK, TypeStore
<1>5. bslabs' \in [Threads -> Seq(Slabs)]
  BY <1>4, NoneApart DEF LogRecord, TypeOK, TypeBrackets
<1>6. lost' \subseteq Slabs
  BY <1>4 DEF LogRecord, TypeOK, TypeStore
<1> QED
  BY <1>3, <1>5, <1>6

LEMMA RecordLast ==
    ASSUME TypeOK, NEW t \in Threads, NEW k \in Keys, NEW new \in Slabs \cup {None},
           LogRecord(t, k, new)
    PROVE  /\ log'[Len(log) + 1].old = hash[k]
           /\ log'[Len(log) + 1].br = IF Vdc THEN bracket[t] ELSE 0
BY DEF LogRecord, TypeOK, TypeLog

LEMMA InitType == Init => TypeOK
<1> SUFFICES ASSUME Init PROVE TypeOK
  OBVIOUS
<1>1. flushing \in BOOLEAN /\ sync_sem \in BOOLEAN
  BY Zenon DEF Init
<1>2. log = <<>> /\ slabtab = <<>> /\ ring = <<>> /\ \A t \in Threads : bslabs[t] = <<>>
  BY DEF Init
<1>3. log \in Seq(LogRec) /\ slabtab \in Seq(Slabs) /\ ring \in Seq(Slabs)
      /\ bslabs \in [Threads -> Seq(Slabs)] /\ Len(log) = 0 /\ Len(slabtab) = 0
  BY <1>2 DEF Init
<1> QED
  BY <1>1, <1>3 DEF Init, TypeOK, TypeStore, TypeBrackets, TypeLog, TypeWriter

(* Every slab that log_sync_postprocess gets is one of the shard's.         *)
LEMMA ReclaimType ==
    ASSUME TypeOK, NEW s \in Slabs, Reclaim(s)
    PROVE  free' \subseteq Slabs /\ ring' \in Seq(Slabs)
<1> DEFINE r == Append(ring, s)
<1>0. ring \in Seq(Slabs) /\ free \subseteq Slabs
  BY DEF TypeOK, TypeStore, TypeWriter
<1>1. r \in Seq(Slabs) /\ Len(r) = Len(ring) + 1 /\ Len(ring) \in Nat
  BY <1>0
<1> HIDE DEF r
<1>2. r # <<>>
  BY <1>1
<1>3. Head(r) \in Slabs /\ Tail(r) \in Seq(Slabs)
  BY <1>1, <1>2
<1>4. \/ ring' = r /\ free' = free
      \/ ring' = Tail(r) /\ free' = free \cup {Head(r)}
      \/ ring' = ring /\ free' = free \cup {s}
  BY DEF Reclaim, r
<1> QED
  BY <1>0, <1>1, <1>3, <1>4, Zenon

(* Groups of variables that a step leaves alone keep their types.           *)
LEMMA KeepStore == ASSUME TypeStore, UNCHANGED <<shard, free, lost, ver, data, hash, pend>>
                   PROVE  TypeStore'
BY DEF TypeStore

LEMMA KeepBrackets ==
    ASSUME TypeBrackets, UNCHANGED brackets, Len(log) \in Nat, Len(log') \in Nat,
           Len(log') >= Len(log)
    PROVE  TypeBrackets'
BY DEF TypeBrackets, brackets

LEMMA KeepLog ==
    ASSUME TypeLog, UNCHANGED <<written, durable, curr_recs, dealloc_list>>,
           log' \in Seq(LogRec), Len(log') >= Len(log),
           \A i \in 1 .. Len(log) : log'[i] = log[i]
    PROVE  TypeLog'
<1>1. Len(log) \in Nat /\ Len(log') \in Nat
  BY DEF TypeLog
<1>2. ASSUME NEW i \in dealloc_list' PROVE log'[i].old \in Slabs
  <2>1. i \in dealloc_list /\ i \in 1 .. Len(log)
    BY <1>1, <1>2 DEF TypeLog
  <2> QED
    BY <2>1 DEF TypeLog
<1>3. /\ written \in Nat /\ written <= Len(log) /\ durable \in Nat /\ durable <= Len(log)
      /\ curr_recs \in Nat /\ dealloc_list \subseteq 1 .. written
  BY <1>1 DEF TypeLog
<1>4. written' \in 0 .. Len(log') /\ durable' \in 0 .. Len(log')
  BY <1>1, <1>3
<1>5. curr_recs' \in Nat /\ dealloc_list' \subseteq 1 .. written'
  BY <1>3
<1> QED
  BY <1>2, <1>4, <1>5, Zenon DEF TypeLog

LEMMA KeepWriter == ASSUME TypeWriter, UNCHANGED <<writer, flushing, sync_sem, slabtab, post, ring>>
                    PROVE  TypeWriter'
BY Zenon DEF TypeWriter

(* The steps of log_write_internal and those of its callers around it.      *)
LEMMA LoggedType ==
    ASSUME TypeOK, NEW t \in Threads, NEW k \in Keys, NEW new \in Slabs \cup {None},
           LogRecord(t, k, new),
           UNCHANGED <<bracket, level, closing, generator, flushing, device, lgwr, reclaim>>
    PROVE  TypeBrackets' /\ TypeLog' /\ TypeWriter'
<1>1. /\ log' \in Seq(LogRec) /\ Len(log') = Len(log) + 1
      /\ \A i \in 1 .. Len(log) : log'[i] = log[i]
      /\ bslabs' \in [Threads -> Seq(Slabs)]
  BY RecordType
<1>2. Len(log) \in Nat
  BY DEF TypeOK, TypeLog
<1>3. TypeBrackets'
  BY <1>1, <1>2 DEF TypeOK, TypeBrackets
<1>4. TypeLog'
  BY <1>1, <1>2, KeepLog DEF TypeOK, device, reclaim
<1>5. TypeWriter'
  BY KeepWriter DEF TypeOK, lgwr, reclaim
<1> QED
  BY <1>3, <1>4, <1>5

LEMMA ClientType ==
    ASSUME TypeOK, NEW t \in Threads, Client(t), UNCHANGED shard
    PROVE  TypeOK'
<1>0. Len(log) \in Nat /\ log \in Seq(LogRec)
  BY DEF TypeOK, TypeLog
<1>1. ASSUME NEW k \in Keys, Delete(t, k)
      PROVE  TypeOK'
  <2>1. LogRecord(t, k, None)
    BY <1>1 DEF Delete
  <2>2. UNCHANGED <<free, data, ver, pend, bracket, level, closing, generator,
                    flushing, device, lgwr, reclaim>>
    BY <1>1, Zenon DEF Delete
  <2>3. hash' \in [Keys -> Slabs \cup {None}] /\ lost' \subseteq Slabs
    BY <1>1, <2>1, RecordType DEF Delete, TypeOK, TypeStore
  <2>4. TypeStore'
    BY <2>2, <2>3 DEF TypeOK, TypeStore
  <2> QED
    BY <2>1, <2>2, <2>4, LoggedType DEF TypeOK
<1>2. ASSUME NEW k \in Keys, NEW s \in Slabs, SetData(t, k, s)
      PROVE  TypeOK'
  <2>1. UNCHANGED <<hash, log, brackets, flushing, device, lgwr, reclaim, lost>>
    BY <1>2 DEF SetData
  <2>2. TypeStore'
    BY <1>2, <2>1 DEF SetData, TypeOK, TypeStore
  <2>3. TypeBrackets' /\ TypeLog' /\ TypeWriter'
    BY <1>0, <2>1, KeepBrackets, KeepLog, KeepWriter DEF TypeOK, device, lgwr, reclaim
  <2> QED
    BY <2>2, <2>3 DEF TypeOK
<1>3. CASE SetFails(t)
  <2>1. UNCHANGED <<free, data, ver, hash, log, brackets, flushing, device, lgwr, reclaim>>
    BY <1>3, Zenon DEF SetFails
  <2>2. TypeStore'
    BY <1>3, <2>1, PendType DEF SetFails, TypeOK, TypeStore
  <2>3. TypeBrackets' /\ TypeLog' /\ TypeWriter'
    BY <1>0, <2>1, KeepBrackets, KeepLog, KeepWriter DEF TypeOK, device, lgwr, reclaim
  <2> QED
    BY <2>2, <2>3 DEF TypeOK
<1>4. CASE SetNoEntry(t)
  <2>1. UNCHANGED <<data, ver, hash, log, brackets, flushing, device, lgwr, reclaim, lost>>
    BY <1>4, Zenon DEF SetNoEntry
  <2>2. TypeStore'
    BY <1>4, <2>1, PendType DEF SetNoEntry, TypeOK, TypeStore
  <2>3. TypeBrackets' /\ TypeLog' /\ TypeWriter'
    BY <1>0, <2>1, KeepBrackets, KeepLog, KeepWriter DEF TypeOK, device, lgwr, reclaim
  <2> QED
    BY <2>2, <2>3 DEF TypeOK
<1>5. CASE SetLog(t)
  <2>1. pend[t].key \in Keys /\ pend[t].slab \in Slabs
    BY <1>5, PendType, Zenon DEF SetLog
  <2>2. LogRecord(t, pend[t].key, pend[t].slab)
    BY <1>5 DEF SetLog
  <2>3. UNCHANGED <<free, data, ver, bracket, level, closing, generator,
                    flushing, device, lgwr, reclaim>>
    BY <1>5, Zenon DEF SetLog
  <2>4. lost' \subseteq Slabs
    BY <2>1, <2>2, RecordType, Zenon
  <2>5. TypeStore'
    BY <1>5, <2>1, <2>3, <2>4 DEF SetLog, TypeOK, TypeStore
  <2>6. TypeBrackets' /\ TypeLog' /\ TypeWriter'
    BY <2>1, <2>2, <2>3, LoggedType
  <2> QED
    BY <2>5, <2>6 DEF TypeOK
<1>6. CASE OpenBracket(t)
  <2>1. UNCHANGED <<free, data, ver, client, log, bslabs, closing, flushing,
                    device, lgwr, reclaim, lost>>
    BY <1>6, Zenon DEF OpenBracket
  <2>2. closing[t] = 0 /\ level' = [level EXCEPT ![t] = @ + 1]
        /\ \/ /\ bracket[t] = 0 /\ generator' = generator + 1
              /\ bracket' = [bracket EXCEPT ![t] = generator + 1]
           \/ bracket[t] # 0 /\ generator' = generator /\ bracket' = bracket
    BY <1>6 DEF OpenBracket, Idle
  <2>g. generator \in Nat /\ bracket \in [Threads -> 0 .. generator]
        /\ level \in [Threads -> Nat]
    BY DEF TypeOK, TypeBrackets
  <2>4. generator' \in Nat /\ bracket' \in [Threads -> 0 .. generator']
    <3>1. CASE bracket[t] = 0
      BY <2>2, <2>g, <3>1
    <3>2. CASE bracket[t] # 0
      BY <2>2, <2>g, <3>2
    <3> QED
      BY <3>1, <3>2
  <2>5. \A u \in Threads : /\ bracket'[u] = 0 <=> level'[u] = 0 /\ closing[u] = 0
                           /\ level'[u] = 0 \/ closing[u] = 0
    BY <2>2 DEF TypeOK, TypeBrackets
  <2>6. TypeBrackets'
    <3>1. level' \in [Threads -> Nat]
      BY <2>2, <2>g
    <3>2. bslabs' \in [Threads -> Seq(Slabs)] /\ closing' \in [Threads -> 0 .. Len(log')]
      BY <2>1 DEF TypeOK, TypeBrackets
    <3> QED
      BY <2>1, <2>4, <2>5, <3>1, <3>2 DEF TypeBrackets
  <2>3. TypeStore' /\ TypeLog' /\ TypeWriter'
    BY <1>0, <2>1, KeepStore, KeepLog, KeepWriter DEF TypeOK, client, device, lgwr, reclaim
  <2> QED
    BY <2>3, <2>6 DEF TypeOK
<1>7. CASE CloseBracket(t)
  <2> DEFINE r == [key |-> None, new |-> None, ver |-> 0, old |-> None,
                   oldver |-> 0, br |-> -bracket[t]]
  <2>0. bracket[t] \in Nat /\ level[t] \in Nat /\ level[t] > 0 /\ closing[t] = 0
    BY <1>7 DEF CloseBracket, TypeOK, TypeBrackets, Idle
  <2>1. r \in LogRec
    BY <2>0 DEF LogRec
  <2>2. UNCHANGED <<free, data, ver, client, bracket, bslabs, generator,
                    flushing, device, lgwr, reclaim, lost>>
    BY <1>7, Zenon DEF CloseBracket
  <2>3. level' = [level EXCEPT ![t] = @ - 1] /\ bracket[t] # 0
    BY <1>7, Zenon DEF CloseBracket
  <2>4. \/ level[t] > 1 /\ UNCHANGED <<log, closing>>
        \/ ~(level[t] > 1) /\ log' = Append(log, r)
           /\ closing' = [closing EXCEPT ![t] = Len(log) + 1]
    BY <1>7 DEF CloseBracket
  <2> HIDE DEF r
  <2>5. log' \in Seq(LogRec) /\ Len(log') >= Len(log)
        /\ \A i \in 1 .. Len(log) : log'[i] = log[i]
    <3>1. CASE UNCHANGED log
      BY <1>0, <3>1, SeqSame, Zenon
    <3>2. CASE log' = Append(log, r)
      <4>1. IsAppend(log', log, r)
        BY <3>2, Zenon DEF IsAppend
      <4>2. Extends(log', log, r, LogRec)
        BY <1>0, <2>1, <4>1, Appended, Zenon
      <4> QED
        BY <4>2, Zenon DEF Extends
    <3> QED
      BY <2>4, <3>1, <3>2, Zenon
  <2>6. TypeBrackets'
    <3>0. TypeBrackets /\ UNCHANGED <<bracket, bslabs, generator>>
      BY <2>2, Zenon DEF TypeOK
    <3>1. CASE level[t] > 1
      <4>1. UNCHANGED <<log, closing>>
        BY <2>4, <3>1, Zenon
      <4> QED
        BY <2>0, <2>3, <3>0, <3>1, <4>1 DEF TypeBrackets
    <3>2. CASE ~(level[t] > 1)
      <4>1. level[t] = 1
        BY <2>0, <3>2
      <4>2. log' = Append(log, r) /\ closing' = [closing EXCEPT ![t] = Len(log) + 1]
        BY <2>4, <3>2, Zenon
      <4>3. Extends(log', log, r, LogRec)
        BY <1>0, <2>1, <4>2, Appended, Zenon DEF IsAppend
      <4>4. Len(log) \in Nat /\ Len(log') = Len(log) + 1
        BY <4>3, Zenon DEF Extends
      <4> QED
        BY <2>0, <2>3, <3>0, <4>1, <4>2, <4>4 DEF TypeBrackets
    <3> QED
      BY <3>1, <3>2, Zenon
  <2>7. TypeStore' /\ TypeLog' /\ TypeWriter'
    BY <2>2, <2>5, KeepStore, KeepLog, KeepWriter DEF TypeOK, client, device, lgwr, reclaim
  <2> QED
    BY <2>6, <2>7, Zenon DEF TypeOK
<1>8. CASE CloseFree(t)
  <2>1. UNCHANGED <<free, data, ver, client, log, level, generator, flushing,
                    device, lgwr, curr_recs, dealloc_list, post, ring, lost>>
    BY <1>8 DEF CloseFree
  <2>2. bslabs[t] \in Seq(Slabs) /\ slabtab \in Seq(Slabs)
    BY DEF TypeOK, TypeBrackets, TypeWriter
  <2>3. slabtab' = slabtab \o bslabs[t]
    BY <1>8 DEF CloseFree
  <2>4. slabtab' \in Seq(Slabs) /\ Len(slabtab') = Len(slabtab) + Len(bslabs[t])
    BY <2>2, <2>3
  <2>5. post \in 0 .. Len(slabtab')
    BY <2>2, <2>4 DEF TypeOK, TypeWriter
  <2>6. TypeWriter'
    BY <2>1, <2>4, <2>5, Zenon DEF TypeOK, TypeWriter, lgwr
  <2>7. TypeBrackets'
    BY <1>8, <2>1 DEF CloseFree, TypeOK, TypeBrackets
  <2>8. TypeStore' /\ TypeLog'
    BY <1>0, <2>1, KeepStore, KeepLog DEF TypeOK, client, device
  <2> QED
    BY <2>6, <2>7, <2>8 DEF TypeOK
<1> QED
  BY <1>1, <1>2, <1>3, <1>4, <1>5, <1>6, <1>7, <1>8 DEF Client

LEMMA WriterType ==
    ASSUME TypeOK, FlogSync \/ LogSync \/ Writer, UNCHANGED shard
    PROVE  TypeOK'
<1>0. Len(log) \in Nat /\ log \in Seq(LogRec)
  BY DEF TypeOK, TypeLog
<1>1. CASE FlogSync
  <2>1. UNCHANGED <<free, data, ver, client, log, brackets, flushing, written,
                    lgwr, reclaim, lost>>
    BY <1>1, Zenon DEF FlogSync
  <2>2. TypeLog'
    BY <1>0, <1>1, <2>1 DEF FlogSync, TypeOK, TypeLog, reclaim
  <2>3. TypeStore' /\ TypeBrackets' /\ TypeWriter'
    BY <1>0, <2>1, KeepStore, KeepBrackets, KeepWriter DEF TypeOK, client, lgwr, reclaim
  <2> QED
    BY <2>2, <2>3 DEF TypeOK
<1>2. CASE LogSync
  <2>1. UNCHANGED <<free, data, ver, client, log, brackets, device, lgwr, reclaim, lost>>
    BY <1>2 DEF LogSync
  <2>2. TypeWriter'
    BY <1>2, <2>1, Zenon DEF LogSync, TypeOK, TypeWriter, lgwr, reclaim
  <2>3. TypeStore' /\ TypeBrackets' /\ TypeLog'
    BY <1>0, <2>1, KeepStore, KeepBrackets, KeepLog DEF TypeOK, client, device, reclaim
  <2> QED
    BY <2>2, <2>3 DEF TypeOK
<1>3. CASE WriteLog
  <2> DEFINE hi == WriteEnd
  <2>1. UNCHANGED <<free, data, ver, client, log, brackets, flushing,
                    slabtab, post, ring, lost>>
    BY <1>3 DEF WriteLog
  <2>2. /\ written' = hi /\ curr_recs' = curr_recs + (hi - written)
        /\ dealloc_list' = dealloc_list \cup {i \in written + 1 .. hi : Freed(log[i])}
    BY <1>3 DEF WriteLog
  <2>3. hi \in written .. Len(log)
    BY WriteEndBounds
  <2> HIDE DEF hi
  <2>4. \A i \in written + 1 .. hi : Freed(log[i]) => log[i].old \in Slabs
    <3> SUFFICES ASSUME NEW i \in written + 1 .. hi, Freed(log[i])
                 PROVE  log[i].old \in Slabs
      OBVIOUS
    <3>1. log[i] \in LogRec
      BY <1>0, <2>3 DEF TypeOK, TypeLog
    <3> QED
      BY <3>1 DEF Freed, LogRec
  <2>a. \A i \in dealloc_list' : log[i].old \in Slabs
    BY <2>2, <2>4 DEF TypeOK, TypeLog
  <2>c. written \in 0 .. Len(log) /\ curr_recs \in Nat /\ dealloc_list \subseteq 1 .. written
    BY DEF TypeOK, TypeLog
  <2>d. written \in Nat /\ hi \in Nat /\ written <= hi
    BY <1>0, <2>3, <2>c
  <2>b. dealloc_list' \subseteq 1 .. hi /\ curr_recs' \in Nat
    <3>1. ASSUME NEW i \in dealloc_list' PROVE i \in 1 .. hi
      <4>1. i \in dealloc_list \/ i \in written + 1 .. hi
        BY <2>2, <3>1
      <4>2. CASE i \in dealloc_list
        BY <2>c, <2>d, <4>2
      <4>3. CASE i \in written + 1 .. hi
        BY <2>d, <4>3
      <4> QED
        BY <4>1, <4>2, <4>3
    <3>2. curr_recs' \in Nat
      BY <2>2, <2>c, <2>d
    <3> QED
      BY <3>1, <3>2
  <2>5. TypeLog'
    BY <1>0, <1>3, <2>1, <2>2, <2>3, <2>a, <2>b, WriteSecures DEF TypeOK, TypeLog
  <2>6. writer' \in {"idle", "sync", "post"}
    BY <1>3 DEF WriteLog
  <2>7. sync_sem' \in BOOLEAN
    BY <1>3, Zenon DEF WriteLog
  <2>8. TypeWriter'
    BY <2>1, <2>6, <2>7, Zenon DEF TypeOK, TypeWriter
  <2>9. TypeStore' /\ TypeBrackets'
    BY <1>0, <2>1, KeepStore, KeepBrackets DEF TypeOK, client
  <2> QED
    BY <2>5, <2>8, <2>9, Zenon DEF TypeOK
<1>4. CASE DeviceSync
  <2>1. UNCHANGED <<free, data, ver, client, log, brackets, flushing, written,
                    sync_sem, reclaim, lost>>
    BY <1>4 DEF DeviceSync
  <2>2. TypeLog'
    BY <1>0, <1>4, <2>1 DEF DeviceSync, TypeOK, TypeLog, reclaim
  <2>3. writer' \in {"idle", "sync", "post"}
    BY <1>4 DEF DeviceSync
  <2>4. TypeWriter'
    BY <2>1, <2>3, Zenon DEF TypeOK, TypeWriter, reclaim
  <2>5. TypeStore' /\ TypeBrackets'
    BY <1>0, <2>1, KeepStore, KeepBrackets DEF TypeOK, client
  <2> QED
    BY <2>2, <2>4, <2>5 DEF TypeOK
<1>5. CASE PostSlab
  <2>1. UNCHANGED <<data, ver, client, log, brackets, flushing, device, lgwr,
                    curr_recs, slabtab, lost>>
    BY <1>5, Zenon DEF PostSlab
  <2>2. /\ \E s \in Slabs : Reclaim(s)
        /\ dealloc_list' \subseteq dealloc_list
        /\ post' \in 0 .. Len(slabtab)
    <3>1. CASE /\ post < Len(slabtab) /\ Reclaim(slabtab[post + 1])
               /\ post' = post + 1 /\ UNCHANGED dealloc_list
      <4>1. slabtab[post + 1] \in Slabs
        BY <3>1 DEF TypeOK, TypeWriter
      <4> QED
        BY <3>1, <4>1 DEF TypeOK, TypeWriter
    <3>2. ASSUME NEW i \in dealloc_list, Reclaim(log[i].old),
                 dealloc_list' = dealloc_list \ {i}, UNCHANGED post
          PROVE  /\ \E s \in Slabs : Reclaim(s)
                 /\ dealloc_list' \subseteq dealloc_list
                 /\ post' \in 0 .. Len(slabtab)
      BY <3>2 DEF TypeOK, TypeLog, TypeWriter
    <3> QED
      BY <1>5, <3>1, <3>2 DEF PostSlab
  <2>3. free' \subseteq Slabs /\ ring' \in Seq(Slabs)
    BY <2>2, ReclaimType, Zenon
  <2>4. TypeStore'
    BY <2>1, <2>3, Zenon DEF TypeOK, TypeStore, client
  <2>5. TypeLog'
    BY <2>1, <2>2 DEF TypeOK, TypeLog, device
  <2>6. TypeWriter'
    BY <2>1, <2>2, <2>3, Zenon DEF TypeOK, TypeWriter, lgwr
  <2>7. TypeBrackets'
    BY <1>0, <2>1, KeepBrackets DEF TypeOK
  <2> QED
    BY <2>4, <2>5, <2>6, <2>7, Zenon DEF TypeOK
<1>6. CASE PostDone
  <2>1. UNCHANGED <<free, data, ver, client, log, brackets, device,
                    dealloc_list, ring, lost>>
    BY <1>6 DEF PostDone
  <2>2. slabtab' \in Seq(Slabs) /\ post' \in 0 .. Len(slabtab')
    BY <1>6 DEF PostDone
  <2>3. writer' \in {"idle", "sync", "post"}
    BY <1>6 DEF PostDone
  <2>4. flushing' \in BOOLEAN /\ sync_sem' \in BOOLEAN
    BY <1>6, Zenon DEF PostDone
  <2>5. TypeWriter'
    BY <2>1, <2>2, <2>3, <2>4, Zenon DEF TypeOK, TypeWriter
  <2>6. TypeLog'
    BY <1>6, <2>1, Zenon DEF PostDone, TypeOK, TypeLog, device
  <2>7. TypeStore' /\ TypeBrackets'
    BY <1>0, <2>1, KeepStore, KeepBrackets DEF TypeOK, client
  <2> QED
    BY <2>5, <2>6, <2>7 DEF TypeOK
<1> QED
  BY <1>1, <1>2, <1>3, <1>4, <1>5, <1>6 DEF Writer

LEMMA NextType == ASSUME TypeOK, [Next]_vars PROVE TypeOK'
<1>1. CASE UNCHANGED vars
  <2>1. Len(log) \in Nat /\ log \in Seq(LogRec)
    BY DEF TypeOK, TypeLog
  <2>2. TypeStore' /\ TypeBrackets' /\ TypeLog' /\ TypeWriter'
    BY <1>1, <2>1, KeepStore, KeepBrackets, KeepLog, KeepWriter
       DEF TypeOK, vars, client, brackets, device, lgwr, reclaim
  <2> QED
    BY <2>2 DEF TypeOK
<1>2. CASE Next
  BY <1>2, ClientType, WriterType DEF Next
<1> QED
  BY <1>1, <1>2

(* The types of the module hold.                                            *)
THEOREM TypeCorrect == Spec => []TypeOK
<1>1. TypeOK /\ [Next]_vars => TypeOK'
  BY NextType
<1> QED
  BY InitType, <1>1, PTL DEF Spec

(* The log only grows, and what is durable stays durable.                   *)
LEMMA LogGrows ==
    ASSUME TypeOK, [Next]_vars
    PROVE  /\ Len(log) \in Nat /\ Len(log') \in Nat /\ Len(log) <= Len(log')
           /\ \A i \in 1 .. Len(log) : log'[i] = log[i]
           /\ durable \in Nat /\ durable' \in Nat /\ durable <= durable'
           /\ durable' <= Len(log') /\ durable <= Len(log)
           /\ written \in Nat /\ written <= Len(log)
<1>1. /\ log \in Seq(LogRec) /\ Len(log) \in Nat /\ durable \in Nat /\ durable <= Len(log)
      /\ written \in Nat /\ written <= Len(log)
  BY DEF TypeOK, TypeLog
<1>2. TypeOK'
  BY NextType
<1>3. Len(log') \in Nat /\ durable' \in Nat /\ durable' <= Len(log')
  BY <1>2 DEF TypeOK, TypeLog
<1>4. \/ log' = log
      \/ \E t \in Threads, k \in Keys, new \in Slabs \cup {None} : LogRecord(t, k, new)
      \/ \E r : log' = Append(log, r)
  <2>1. ASSUME NEW t \in Threads, Client(t) PROVE <1>4!1 \/ <1>4!2 \/ <1>4!3
    <3>1. CASE SetLog(t)
      <4>1. pend[t].key \in Keys /\ pend[t].slab \in Slabs
        BY <3>1, PendType, Zenon DEF SetLog
      <4>2. LogRecord(t, pend[t].key, pend[t].slab)
        BY <3>1 DEF SetLog
      <4> QED
        BY <4>1, <4>2
    <3>2. CASE \E k \in Keys : Delete(t, k)
      BY <3>2, Zenon DEF Delete
    <3>3. CASE CloseBracket(t)
      BY <3>3 DEF CloseBracket
    <3> QED
      BY <2>1, <3>1, <3>2, <3>3, Zenon DEF Client, SetData, SetFails, SetNoEntry, OpenBracket,
                                    CloseFree
  <2>2. CASE FlogSync \/ LogSync \/ Writer \/ UNCHANGED vars
    BY <2>2, Zenon DEF FlogSync, LogSync, Writer, WriteLog, DeviceSync, PostSlab,
                       PostDone, vars
  <2> QED
    BY <2>1, <2>2 DEF Next
<1>5. Len(log) <= Len(log') /\ \A i \in 1 .. Len(log) : log'[i] = log[i]
  <2>1. CASE log' = log
    BY <1>1, <2>1
  <2>2. CASE \E t \in Threads, k \in Keys, new \in Slabs \cup {None} : LogRecord(t, k, new)
    BY <1>1, <2>2, RecordType
  <2>3. CASE \E r : log' = Append(log, r)
    BY <1>1, <2>3
  <2> QED
    BY <1>4, <2>1, <2>2, <2>3
<1>6. durable <= durable'
  <2>0. durable \in Nat /\ written \in Nat /\ Len(log) \in Nat /\ durable <= Len(log)
    BY <1>1
  <2>1. CASE FlogSync
    <3>1. durable' = Len(log)
      BY <2>1 DEF FlogSync
    <3> QED
      BY <2>0, <3>1
  <2>2. CASE DeviceSync
    <3>1. durable' = IF written > durable THEN written ELSE durable
      BY <2>2 DEF DeviceSync
    <3> QED
      BY <2>0, <3>1
  <2>3. CASE UNCHANGED durable
    BY <2>0, <2>3
  <2>5. CASE WriteLog
    BY <2>5, WriteSecures
  <2>4. ASSUME NEW t \in Threads, Client(t) PROVE UNCHANGED durable
    BY <2>4, Zenon DEF Client, Delete, SetData, SetFails, SetNoEntry, SetLog, OpenBracket,
                       CloseBracket, CloseFree, device
  <2> QED
    BY <2>1, <2>2, <2>3, <2>4, <2>5, Zenon
       DEF Next, Writer, LogSync, PostSlab, PostDone, vars, device
<1> QED
  BY <1>1, <1>3, <1>5, <1>6

-----------------------------------------------------------------------------
(* The list names only records written since the last sync, and when the    *)
(* log writer is idle there are fewer of these than sync_recs.              *)
Sized ==
    /\ \A i \in dealloc_list : i > written - curr_recs
    /\ curr_recs < SyncRecs + BufRecs
    /\ writer = "idle" => curr_recs < SyncRecs

LEMMA SyncType == SyncRecs \in Nat /\ SyncRecs > 0
BY ReuseAssumption DEF ReuseAssumption

LEMMA InitSized == Init => Sized
<1> SUFFICES ASSUME Init PROVE Sized
  OBVIOUS
<1>1. BufRecs \in Nat /\ BufRecs > 0
  BY BufType DEF Init
<1> QED
  BY <1>1, SyncType DEF Init, Sized

LEMMA NextSized == ASSUME TypeOK, Sized, [Next]_vars PROVE Sized'
<1>0. /\ written \in Nat /\ curr_recs \in Nat /\ BufRecs \in Nat
      /\ \A i \in dealloc_list : i \in Nat
  BY BufType DEF TypeOK, TypeStore, TypeLog
<1>s. BufRecs' = BufRecs
  BY DEF Next, vars, BufRecs
<1>1. CASE UNCHANGED <<written, curr_recs, dealloc_list, writer>>
  BY <1>1, <1>s DEF Sized
<1>2. CASE WriteLog
  <2> DEFINE hi == WriteEnd
  <2>1. hi \in written .. Len(log) /\ hi <= written + BufRecs
    BY WriteEndBounds, Zenon
  <2>2. written' = hi /\ curr_recs' = curr_recs + (hi - written) /\ writer = "idle"
    BY <1>2, Zenon DEF WriteLog
  <2>3. dealloc_list' = dealloc_list \cup {i \in written + 1 .. hi : Freed(log[i])}
    BY <1>2 DEF WriteLog
  <2>4. writer' = "idle" => curr_recs' < SyncRecs
    <3>1. writer' = "idle" => ~(curr_recs' >= SyncRecs)
      BY <1>2 DEF WriteLog, SyncDue
    <3>2. curr_recs' \in Nat
      BY <1>0, <2>1, <2>2
    <3> QED
      BY <3>1, <3>2, SyncType
  <2> HIDE DEF hi
  <2>5. hi \in Nat /\ hi >= written
    BY <1>0, <2>1
  <2>6. curr_recs' < SyncRecs + BufRecs
    BY <1>0, <2>1, <2>2, <2>5, SyncType DEF Sized
  <2>7. ASSUME NEW i \in dealloc_list' PROVE i > hi - curr_recs'
    <3>1. hi - curr_recs' = written - curr_recs
      BY <1>0, <2>2, <2>5
    <3>2. CASE i \in dealloc_list
      BY <3>1, <3>2 DEF Sized
    <3>3. CASE i \in written + 1 .. hi
      BY <1>0, <2>5, <3>1, <3>3
    <3> QED
      BY <2>3, <2>7, <3>2, <3>3
  <2> QED
    BY <1>s, <2>2, <2>4, <2>6, <2>7 DEF Sized
<1>3. CASE DeviceSync
  <2>1. UNCHANGED <<written, curr_recs, dealloc_list>> /\ writer' = "post"
    BY <1>3 DEF DeviceSync, reclaim
  <2> QED
    BY <1>s, <2>1 DEF Sized
<1>4. CASE PostSlab
  <2>1. UNCHANGED <<written, curr_recs, writer>> /\ dealloc_list' \subseteq dealloc_list
    BY <1>4 DEF PostSlab, device, lgwr
  <2> QED
    BY <1>s, <2>1, Zenon DEF Sized
<1>5. CASE PostDone
  <2>1. curr_recs' = 0 /\ dealloc_list' = {} /\ UNCHANGED written
    BY <1>5, Zenon DEF PostDone, device
  <2> QED
    BY <1>0, <1>s, <2>1, SyncType DEF Sized
<1>6. CASE FlogSync \/ LogSync \/ UNCHANGED vars
  BY <1>1, <1>6 DEF FlogSync, LogSync, vars, device, lgwr, reclaim
<1>7. ASSUME NEW t \in Threads, Client(t) PROVE Sized'
  <2>1. UNCHANGED <<written, curr_recs, dealloc_list, writer>>
    BY <1>7, Zenon DEF Client, Delete, SetData, SetFails, SetNoEntry, SetLog, OpenBracket,
                CloseBracket, CloseFree, device, lgwr, reclaim
  <2> QED
    BY <1>1, <2>1, SMTT(30)
<1> QED
  BY <1>2, <1>3, <1>4, <1>5, <1>6, <1>7, Zenon DEF Next, Writer
-----------------------------------------------------------------------------
(* Every slab has one place.  p says which kind of place each slab has; the *)
(* operators say that the places of a kind hold just the slabs that p says, *)
(* each of them once.                                                       *)

Kinds == {"free", "lost", "hash", "set", "log", "tab", "ring", "bracket"}

FreePlace(p) == \A s \in Slabs : s \in free <=> p[s] = "free"

LostPlace(p) == \A s \in Slabs : s \in lost <=> p[s] = "lost"

HashPlace(p) ==
    /\ \A k \in Keys : hash[k] # None => p[hash[k]] = "hash"
    /\ \A j, k \in Keys : hash[j] = hash[k] /\ hash[j] # None => j = k
    /\ \A s \in Slabs : p[s] = "hash" => \E k \in Keys : hash[k] = s

SetPlace(p) ==
    /\ \A t \in Threads : pend[t] # NoPend => p[pend[t].slab] = "set"
    /\ \A t, u \in Threads : pend[t].slab = pend[u].slab /\ pend[t] # NoPend => t = u
    /\ \A s \in Slabs : p[s] = "set" => \E t \in Threads : pend[t].slab = s

LogPlace(p) ==
    /\ \A i \in Unfreed : log[i].old \in Slabs /\ p[log[i].old] = "log"
    /\ \A i, j \in Unfreed : log[i].old = log[j].old => i = j
    /\ \A s \in Slabs : p[s] = "log" => \E i \in Unfreed : log[i].old = s

TabPlace(p) ==
    /\ \A i \in post + 1 .. Len(slabtab) : p[slabtab[i]] = "tab"
    /\ \A i, j \in post + 1 .. Len(slabtab) : slabtab[i] = slabtab[j] => i = j
    /\ \A s \in Slabs : p[s] = "tab" => \E i \in post + 1 .. Len(slabtab) : slabtab[i] = s

RingPlace(p) ==
    /\ \A i \in 1 .. Len(ring) : p[ring[i]] = "ring"
    /\ \A i, j \in 1 .. Len(ring) : ring[i] = ring[j] => i = j
    /\ \A s \in Slabs : p[s] = "ring" => \E i \in 1 .. Len(ring) : ring[i] = s

BracketPlace(p) ==
    /\ \A t \in Threads : \A i \in 1 .. Len(bslabs[t]) : p[bslabs[t][i]] = "bracket"
    /\ \A t, u \in Threads : \A i \in 1 .. Len(bslabs[t]) : \A j \in 1 .. Len(bslabs[u]) :
          bslabs[t][i] = bslabs[u][j] => t = u /\ i = j
    /\ \A s \in Slabs : p[s] = "bracket" =>
          \E t \in Threads : \E i \in 1 .. Len(bslabs[t]) : bslabs[t][i] = s

Placed(p) ==
    /\ FreePlace(p) /\ LostPlace(p) /\ HashPlace(p) /\ SetPlace(p)
    /\ LogPlace(p) /\ TabPlace(p) /\ RingPlace(p) /\ BracketPlace(p)

Placement == \E p \in [Slabs -> Kinds] : Placed(p)

LEMMA LogLength ==
    ASSUME TypeLog
    PROVE  log \in Seq(LogRec) /\ Len(log) \in Nat /\ written \in Nat /\ written <= Len(log)
BY DEF TypeLog

\* No slab is queued twice by the brackets, and none twice in the reclaim ring.
LEMMA BracketApart ==
    ASSUME NEW p, BracketPlace(p), NEW t \in Threads, NEW u \in Threads,
           NEW i \in 1 .. Len(bslabs[t]), NEW j \in 1 .. Len(bslabs[u]),
           bslabs[t][i] = bslabs[u][j]
    PROVE  t = u /\ i = j
BY DEF BracketPlace

LEMMA RingApart ==
    ASSUME NEW p, RingPlace(p), NEW i \in 1 .. Len(ring), NEW j \in 1 .. Len(ring),
           ring[i] = ring[j]
    PROVE  i = j
BY DEF RingPlace

(* The placement q is p with slab s moved to d.                             *)
MovedTo(q, p, s, d) == \A r \in Slabs : q[r] = IF r = s THEN d ELSE p[r]

LEMMA Moved ==
    ASSUME NEW p \in [Slabs -> Kinds], NEW s, NEW d \in Kinds
    PROVE  \E q \in [Slabs -> Kinds] : MovedTo(q, p, s, d)
<1> DEFINE q == [r \in Slabs |-> IF r = s THEN d ELSE p[r]]
<1>1. q \in [Slabs -> Kinds] /\ \A r \in Slabs : q[r] = IF r = s THEN d ELSE p[r]
  BY Zenon
<1> QED
  BY <1>1, Zenon DEF MovedTo

LEMMA InitPlacement == Init => Placement
<1> SUFFICES ASSUME Init PROVE Placement
  OBVIOUS
<1> DEFINE p == [s \in Slabs |-> "free"]
<1>1. p \in [Slabs -> Kinds] /\ \A s \in Slabs : p[s] = "free"
  BY Zenon DEF Kinds
<1> HIDE DEF p
<1>2. FreePlace(p) /\ LostPlace(p) /\ HashPlace(p) /\ SetPlace(p)
  BY <1>1, Zenon DEF Init, FreePlace, LostPlace, HashPlace, SetPlace
<1>3. Unfreed = {}
  BY DEF Init, Unfreed
<1>4. LogPlace(p)
  BY <1>1, <1>3, Zenon DEF LogPlace
<1>5. TabPlace(p) /\ RingPlace(p) /\ BracketPlace(p)
  BY <1>1 DEF Init, TabPlace, RingPlace, BracketPlace
<1> QED
  BY <1>1, <1>2, <1>4, <1>5 DEF Placement, Placed

(* A kind of place that a step does not change, ...                         *)
LEMMA SameFree ==
    ASSUME NEW p, NEW q, FreePlace(p), UNCHANGED free,
           \A s \in Slabs : q[s] = "free" <=> p[s] = "free"
    PROVE  FreePlace(q)'
BY DEF FreePlace

LEMMA SameLost ==
    ASSUME NEW p, NEW q, LostPlace(p), UNCHANGED lost,
           \A s \in Slabs : q[s] = "lost" <=> p[s] = "lost"
    PROVE  LostPlace(q)'
BY Zenon DEF LostPlace

LEMMA SameHash ==
    ASSUME NEW p, NEW q, TypeStore, HashPlace(p), UNCHANGED hash,
           \A s \in Slabs : q[s] = "hash" <=> p[s] = "hash"
    PROVE  HashPlace(q)'
BY Zenon DEF HashPlace, TypeStore

LEMMA SameSet ==
    ASSUME NEW p, NEW q, TypeStore, SetPlace(p), UNCHANGED pend,
           \A s \in Slabs : q[s] = "set" <=> p[s] = "set"
    PROVE  SetPlace(q)'
<1>1. \A t \in Threads : pend[t] # NoPend => pend[t].slab \in Slabs
  BY Zenon DEF TypeStore
<1> QED
  BY <1>1, Zenon DEF SetPlace

LEMMA SameLog ==
    ASSUME NEW p, NEW q, LogPlace(p), Unfreed' = Unfreed,
           \A i \in Unfreed : log'[i] = log[i],
           \A s \in Slabs : q[s] = "log" <=> p[s] = "log"
    PROVE  LogPlace(q)'
BY DEF LogPlace

LEMMA SameTab ==
    ASSUME NEW p, NEW q, TypeWriter, TabPlace(p), UNCHANGED <<slabtab, post>>,
           \A s \in Slabs : q[s] = "tab" <=> p[s] = "tab"
    PROVE  TabPlace(q)'
<1>1. \A i \in post + 1 .. Len(slabtab) : slabtab[i] \in Slabs
  BY DEF TypeWriter
<1> QED
  BY <1>1 DEF TabPlace

LEMMA SameRing ==
    ASSUME NEW p, NEW q, TypeWriter, RingPlace(p), UNCHANGED ring,
           \A s \in Slabs : q[s] = "ring" <=> p[s] = "ring"
    PROVE  RingPlace(q)'
<1>1. \A i \in 1 .. Len(ring) : ring[i] \in Slabs
  BY SeqElement, Zenon DEF TypeWriter
<1> QED
  BY <1>1, Zenon DEF RingPlace

LEMMA SameBracket ==
    ASSUME NEW p, NEW q, TypeBrackets, BracketPlace(p), UNCHANGED bslabs,
           \A s \in Slabs : q[s] = "bracket" <=> p[s] = "bracket"
    PROVE  BracketPlace(q)'
<1>1. \A t \in Threads : \A i \in 1 .. Len(bslabs[t]) : bslabs[t][i] \in Slabs
  BY DEF TypeBrackets
<1> QED
  BY <1>1 DEF BracketPlace

LEMMA UnfreedType == ASSUME TypeOK PROVE \A i \in Unfreed : i \in 1 .. Len(log)
<1>1. written \in Nat /\ Len(log) \in Nat /\ written <= Len(log) /\ dealloc_list \subseteq 1 .. written
  BY DEF TypeOK, TypeLog
<1> QED
  BY <1>1 DEF Unfreed

LEMMA SameUnfreed ==
    ASSUME NEW p, NEW q, LogPlace(p), UNCHANGED <<log, written, dealloc_list>>,
           \A s \in Slabs : q[s] = "log" <=> p[s] = "log"
    PROVE  LogPlace(q)'
<1>1. Unfreed' = Unfreed
  BY Zenon DEF Unfreed, Freed
<1> QED
  BY <1>1, SameLog

(* ... and the steps that move slabs.  A set takes a slab, ...              *)
LEMMA SetDataPlace ==
    ASSUME TypeOK, Placement, NEW t \in Threads, NEW k \in Keys, NEW s \in Slabs,
           SetData(t, k, s)
    PROVE  Placement'
<1> PICK p \in [Slabs -> Kinds] : Placed(p)
  BY DEF Placement
<1> PICK d \in Kinds : d = "set"
  BY DEF Kinds
<1> PICK q \in [Slabs -> Kinds] : MovedTo(q, p, s, d)
  BY Moved, Zenon
<1> USE DEF MovedTo
<1>1. /\ pend[t] = NoPend /\ s \in free /\ free' = free \ {s}
      /\ pend' = [pend EXCEPT ![t] = [key |-> k, slab |-> s]]
      /\ UNCHANGED <<hash, log, bslabs, written, dealloc_list, slabtab, post, ring, lost>>
  BY DEF SetData, Idle, brackets, device, reclaim
<1>2. TypeStore /\ TypeBrackets /\ TypeWriter
  BY Zenon DEF TypeOK
<1>3. p[s] = "free"
  BY <1>1 DEF Placed, FreePlace
<1>4. FreePlace(q)'
  BY <1>1, <1>3, Zenon DEF Placed, FreePlace
<1>5. LostPlace(q)' /\ HashPlace(q)'
  BY <1>1, <1>2, <1>3, SameLost, SameHash, Zenon DEF Placed
<1>6. TabPlace(q)' /\ RingPlace(q)' /\ BracketPlace(q)'
  BY <1>1, <1>2, <1>3, SameTab, SameRing, SameBracket, Zenon DEF Placed
<1>7. LogPlace(q)'
  BY <1>1, <1>3, SameUnfreed DEF Placed
<1>8. SetPlace(q)'
  <2>1. \A u \in Threads : pend'[u] = IF u = t THEN [key |-> k, slab |-> s] ELSE pend[u]
    BY <1>1, <1>2, Zenon DEF TypeStore
  <2>2. [key |-> k, slab |-> s] # NoPend /\ None \notin Slabs
    BY NoneApart, Zenon DEF NoPend
  <2>3. \A u \in Threads : pend[u] # NoPend => pend[u].slab \in Slabs
    BY <1>2 DEF TypeStore
  <2>9. SetPlace(p)
    BY Zenon DEF Placed
  <2>4. ASSUME NEW u \in Threads PROVE pend[u].slab # s
    <3>1. CASE pend[u] = NoPend
      BY <2>2, <3>1, NoPendSlab, Zenon
    <3>2. CASE pend[u] # NoPend
      BY <1>3, <2>9, <3>2, Zenon DEF SetPlace
    <3> QED
      BY <3>1, <3>2
  <2>8. /\ pend'[t].slab = s
        /\ \A u \in Threads : u # t => pend'[u] = pend[u]
    <3>1. IsPend(pend'[t], k, s)
      BY <2>1, Zenon DEF IsPend
    <3>2. pend'[t].slab = s
      BY <3>1, PendSlab, Zenon
    <3> QED
      BY <2>1, <3>2, Zenon
  <2>5. ASSUME NEW u \in Threads, pend'[u] # NoPend PROVE q[pend'[u].slab] = "set"
    <3>1. CASE u = t
      BY <2>8, <3>1, Zenon
    <3>2. CASE u # t
      BY <2>3, <2>4, <2>5, <2>8, <2>9, <3>2, Zenon DEF SetPlace
    <3> QED
      BY <3>1, <3>2
  <2>6. ASSUME NEW u \in Threads, NEW v \in Threads,
               pend'[u].slab = pend'[v].slab, pend'[u] # NoPend
        PROVE  u = v
    <3>1. CASE u = t
      BY <2>4, <2>6, <2>8, <3>1, Zenon
    <3>2. CASE v = t
      BY <2>4, <2>6, <2>8, <3>2, Zenon
    <3>3. CASE u # t /\ v # t
      <4>1. pend'[u] = pend[u] /\ pend'[v] = pend[v]
        BY <2>8, <3>3, Zenon
      <4>2. pend[u].slab = pend[v].slab /\ pend[u] # NoPend
        BY <2>6, <4>1, Zenon
      <4> QED
        BY <2>9, <4>2, Zenon DEF SetPlace
    <3> QED
      BY <3>1, <3>2, <3>3, Zenon
  <2>7. \A r \in Slabs : q[r] = "set" => \E u \in Threads : pend'[u].slab = r
    <3> SUFFICES ASSUME NEW r \in Slabs, q[r] = "set"
                 PROVE  \E u \in Threads : pend'[u].slab = r
      BY Zenon
    <3>1. CASE r = s
      BY <2>8, <3>1, Zenon
    <3>2. CASE r # s
      <4>1. PICK u \in Threads : pend[u].slab = r
        BY <3>2 DEF Placed, SetPlace
      <4>2. u # t
        BY <1>1, <2>2, <4>1, NoPendSlab, Zenon
      <4> QED
        BY <2>1, <4>1, <4>2, Zenon
    <3> QED
      BY <3>1, <3>2
  <2> QED
    BY <2>5, <2>6, <2>7, Zenon DEF SetPlace
<1> QED
  BY <1>4, <1>5, <1>6, <1>7, <1>8 DEF Placement, Placed

(* ... and ends, its slab going elsewhere.                                  *)
LEMMA SetEnds ==
    ASSUME TypeOK, NEW p \in [Slabs -> Kinds], SetPlace(p), NEW q, NEW t \in Threads,
           pend[t] # NoPend, pend' = [pend EXCEPT ![t] = NoPend],
           \A s \in Slabs : q[s] = "set" <=> p[s] = "set" /\ s # pend[t].slab
    PROVE  SetPlace(q)'
<1>1. \A u \in Threads : pend'[u] = IF u = t THEN NoPend ELSE pend[u]
  BY DEF TypeOK, TypeStore
<1>2. \A u \in Threads : pend[u] # NoPend => pend[u].slab \in Slabs
  BY Zenon DEF TypeOK, TypeStore
<1>3. \A u \in Threads : pend'[u] # NoPend => q[pend'[u].slab] = "set"
  BY <1>1, <1>2 DEF SetPlace
<1>4. \A u, v \in Threads : pend'[u].slab = pend'[v].slab /\ pend'[u] # NoPend => u = v
  <2> SUFFICES ASSUME NEW u \in Threads, NEW v \in Threads,
                      pend'[u].slab = pend'[v].slab, pend'[u] # NoPend
               PROVE  u = v
    BY Zenon
  <2>1. u # t /\ pend[u] # NoPend /\ pend'[u] = pend[u]
    BY <1>1, Zenon
  <2>2. CASE v = t
    <3>1. pend[u].slab = None
      BY <1>1, <2>1, <2>2 DEF NoPend
    <3> QED
      BY <1>2, <2>1, <3>1, NoneApart, Zenon
  <2>3. CASE v # t
    BY <1>1, <2>1, <2>3 DEF SetPlace
  <2> QED
    BY <2>2, <2>3
<1>5. \A s \in Slabs : q[s] = "set" => \E u \in Threads : pend'[u].slab = s
  BY <1>1 DEF SetPlace
<1> QED
  BY <1>3, <1>4, <1>5, Zenon DEF SetPlace

LEMMA SetFailsPlace ==
    ASSUME TypeOK, Placement, NEW t \in Threads, SetFails(t) \/ SetNoEntry(t)
    PROVE  Placement'
<1> PICK p \in [Slabs -> Kinds] : Placed(p)
  BY Zenon DEF Placement
<1> DEFINE s == pend[t].slab
<1>1. /\ pend[t] # NoPend /\ pend' = [pend EXCEPT ![t] = NoPend]
      /\ UNCHANGED <<hash, log, bslabs, written, dealloc_list, slabtab, post, ring>>
      /\ \/ lost' = lost \cup {s} /\ UNCHANGED free
         \/ free' = free \cup {s} /\ UNCHANGED lost
  BY Zenon DEF SetFails, SetNoEntry, brackets, device, reclaim
<1>2. PICK d \in {"lost", "free"} :
         /\ lost' = IF d = "lost" THEN lost \cup {s} ELSE lost
         /\ free' = IF d = "free" THEN free \cup {s} ELSE free
  BY <1>1
<1>3. s \in Slabs
  BY <1>1, PendType, Zenon
<1>4. p[s] = "set"
  BY <1>1, Zenon DEF Placed, SetPlace
<1>d. d \in Kinds
  BY DEF Kinds
<1>5. PICK q \in [Slabs -> Kinds] : MovedTo(q, p, s, d)
  BY <1>d, Moved, Zenon
<1> USE DEF MovedTo
<1>6. TypeStore /\ TypeBrackets /\ TypeWriter
  BY Zenon DEF TypeOK
<1> HIDE DEF s
<1>7. FreePlace(q)' /\ LostPlace(q)'
  BY <1>2, <1>3, <1>4, <1>5 DEF Placed, FreePlace, LostPlace
<1>8. HashPlace(q)' /\ TabPlace(q)'
  BY <1>1, <1>3, <1>4, <1>5, <1>6, SameHash, SameTab, Zenon DEF Placed
<1>9. RingPlace(q)' /\ BracketPlace(q)'
  BY <1>1, <1>3, <1>4, <1>5, <1>6, SameRing, SameBracket, Zenon DEF Placed
<1>10. LogPlace(q)'
  BY <1>1, <1>3, <1>4, <1>5, SameUnfreed, Zenon DEF Placed
<1>11. SetPlace(q)'
  <2>1. \A r \in Slabs : q[r] = "set" <=> p[r] = "set" /\ r # pend[t].slab
    BY <1>3, <1>4, <1>5, Zenon DEF s
  <2> QED
    BY <1>1, <2>1, SetEnds, Zenon DEF Placed
<1> QED
  BY <1>7, <1>8, <1>9, <1>10, <1>11 DEF Placement, Placed

(* The old slab of a new record leaves the hash table: for the log writer's *)
(* list, for the slabs of the bracket, or for good.                         *)
LEMMA RecordPlace ==
    ASSUME TypeOK, NEW p \in [Slabs -> Kinds], Placed(p),
           NEW t \in Threads, NEW k \in Keys, NEW new \in Slabs \cup {None},
           LogRecord(t, k, new), UNCHANGED <<written, dealloc_list>>
    PROVE  \E d \in {"log", "bracket", "lost"} :
              \A q \in [Slabs -> Kinds] :
                 (\A s \in Slabs : \A d2 \in {"log", "bracket", "lost"} :
                     q[s] = d2 <=> p[s] = d2 \/ (s = hash[k] /\ d = d2)) =>
                 LogPlace(q)' /\ BracketPlace(q)' /\ LostPlace(q)'
<1> DEFINE n == Len(log) + 1
           old == hash[k]
           br == IF Vdc THEN bracket[t] ELSE 0
<1>1. /\ Len(log) \in Nat /\ Len(log') = n /\ written \in Nat /\ written <= Len(log)
      /\ \A i \in 1 .. Len(log) : log'[i] = log[i]
  BY RecordType, LogLength, Zenon DEF TypeOK
<1>2. log'[n].old = old /\ log'[n].br = br
  BY RecordLast, Zenon
<1>3. old \in Slabs => p[old] = "hash"
  BY NoneApart, Zenon DEF Placed, HashPlace
<1>4. old \in Slabs \cup {None}
  BY DEF TypeOK, TypeStore
<1>5. bslabs \in [Threads -> Seq(Slabs)]
  BY Zenon DEF TypeOK, TypeBrackets
<1>6. Unfreed' = IF old # None /\ br = 0 THEN Unfreed \cup {n} ELSE Unfreed
  <2>1. \A i \in 1 .. Len(log) : Freed(log'[i]) <=> Freed(log[i])
    BY <1>1, Zenon
  <2>2. Freed(log'[n]) <=> old # None /\ br = 0
    BY <1>2, Zenon DEF Freed
  <2>3. ASSUME NEW i PROVE i \in written + 1 .. n <=> i \in written + 1 .. Len(log) \/ i = n
    BY <1>1
  <2>4. \A i \in written + 1 .. Len(log) : i \in 1 .. Len(log)
    BY <1>1
  <2>5. Unfreed' = dealloc_list \cup {i \in written + 1 .. n : Freed(log'[i])}
    BY <1>1, Zenon DEF Unfreed, Freed
  <2> HIDE DEF n, old, br
  <2> QED
    BY <2>1, <2>2, <2>3, <2>4, <2>5, Zenon DEF Unfreed
<1>7. n \notin Unfreed
  BY <1>1, UnfreedType
<1>8. \A i \in Unfreed : log'[i] = log[i]
  BY <1>1, UnfreedType, Zenon
<1>9. /\ bslabs' = IF br # 0 /\ old # None /\ Len(bslabs[t]) # BracketMax
                   THEN [bslabs EXCEPT ![t] = Append(@, old)] ELSE bslabs
      /\ lost' = IF br # 0 /\ old # None /\ Len(bslabs[t]) = BracketMax
                 THEN lost \cup {old} ELSE lost
  BY Zenon DEF LogRecord
<1> HIDE DEF n, old, br
<1>10. LogPlace(p) /\ BracketPlace(p) /\ LostPlace(p)
  BY Zenon DEF Placed
<1>11. TypeBrackets
  BY Zenon DEF TypeOK
<1>12. CASE old = None
  <2>1. Unfreed' = Unfreed /\ bslabs' = bslabs /\ lost' = lost
    BY <1>6, <1>9, <1>12, Zenon
  <2>2. ASSUME NEW q \in [Slabs -> Kinds],
               \A s \in Slabs : \A d2 \in {"log", "bracket", "lost"} :
                  q[s] = d2 <=> p[s] = d2 \/ (s = old /\ "log" = d2)
        PROVE  LogPlace(q)' /\ BracketPlace(q)' /\ LostPlace(q)'
    <3>1. \A s \in Slabs : /\ q[s] = "log" <=> p[s] = "log"
                           /\ q[s] = "bracket" <=> p[s] = "bracket"
                           /\ q[s] = "lost" <=> p[s] = "lost"
      BY <1>12, <2>2, NoneApart, Zenon
    <3> QED
      BY <1>8, <1>10, <1>11, <2>1, <3>1, SameLog, SameBracket, SameLost, Zenon
  <2> QED
    BY <2>2 DEF old
<1>13. CASE old # None /\ br = 0
  <2>1. Unfreed' = Unfreed \cup {n} /\ bslabs' = bslabs /\ lost' = lost
    BY <1>6, <1>9, <1>13, Zenon
  <2>2. ASSUME NEW q \in [Slabs -> Kinds],
               \A s \in Slabs : \A d2 \in {"log", "bracket", "lost"} :
                  q[s] = d2 <=> p[s] = d2 \/ (s = old /\ "log" = d2)
        PROVE  LogPlace(q)' /\ BracketPlace(q)' /\ LostPlace(q)'
    <3>1. \A s \in Slabs : /\ q[s] = "log" <=> p[s] = "log" \/ s = old
                           /\ q[s] = "bracket" <=> p[s] = "bracket"
                           /\ q[s] = "lost" <=> p[s] = "lost"
      BY <2>2, Zenon
    <3>2. BracketPlace(q)' /\ LostPlace(q)'
      BY <1>10, <1>11, <2>1, <3>1, SameBracket, SameLost, Zenon
    <3>3. LogPlace(q)'
      <4>1. old \in Slabs /\ p[old] # "log"
        BY <1>3, <1>4, <1>13, Zenon
      <4>2. \A i \in Unfreed : log'[i].old = log[i].old /\ log[i].old # old
        BY <1>8, <1>10, <4>1, Zenon DEF LogPlace
      <4>3. \A i \in Unfreed' : log'[i].old \in Slabs /\ q[log'[i].old] = "log"
        BY <1>2, <1>10, <2>1, <3>1, <4>1, <4>2, Zenon DEF LogPlace
      <4>4. ASSUME NEW i \in Unfreed', NEW j \in Unfreed', log'[i].old = log'[j].old PROVE i = j
        <5>1. (i \in Unfreed \/ i = n) /\ (j \in Unfreed \/ j = n)
          BY <2>1, Zenon
        <5>2. CASE i \in Unfreed /\ j \in Unfreed
          BY <1>10, <4>2, <4>4, <5>2, Zenon DEF LogPlace
        <5>3. CASE i = n
          BY <1>2, <4>2, <4>4, <5>1, <5>3, Zenon
        <5>4. CASE j = n
          BY <1>2, <4>2, <4>4, <5>1, <5>4, Zenon
        <5> QED
          BY <5>1, <5>2, <5>3, <5>4, Zenon
      <4>5. ASSUME NEW s \in Slabs, q[s] = "log" PROVE \E i \in Unfreed' : log'[i].old = s
        <5>1. CASE s = old
          BY <1>2, <2>1, <5>1, Zenon
        <5>2. CASE s # old
          <6>1. PICK i \in Unfreed : log[i].old = s
            BY <1>10, <3>1, <4>5, <5>2, Zenon DEF LogPlace
          <6> QED
            BY <2>1, <4>2, <6>1, Zenon
        <5> QED
          BY <5>1, <5>2
      <4> QED
        BY <4>3, <4>4, <4>5, Zenon DEF LogPlace
    <3> QED
      BY <3>2, <3>3
  <2> QED
    BY <2>2 DEF old
<1>14. CASE old # None /\ br # 0 /\ Len(bslabs[t]) = BracketMax
  <2>1. Unfreed' = Unfreed /\ bslabs' = bslabs /\ lost' = lost \cup {old}
    BY <1>6, <1>9, <1>14, Zenon
  <2>2. ASSUME NEW q \in [Slabs -> Kinds],
               \A s \in Slabs : \A d2 \in {"log", "bracket", "lost"} :
                  q[s] = d2 <=> p[s] = d2 \/ (s = old /\ "lost" = d2)
        PROVE  LogPlace(q)' /\ BracketPlace(q)' /\ LostPlace(q)'
    <3>1. \A s \in Slabs : /\ q[s] = "log" <=> p[s] = "log"
                           /\ q[s] = "bracket" <=> p[s] = "bracket"
                           /\ q[s] = "lost" <=> p[s] = "lost" \/ s = old
      BY <2>2, Zenon
    <3>2. LogPlace(q)' /\ BracketPlace(q)'
      BY <1>8, <1>10, <1>11, <2>1, <3>1, SameLog, SameBracket, Zenon
    <3>3. LostPlace(q)'
      BY <1>10, <2>1, <3>1, Zenon DEF LostPlace
    <3> QED
      BY <3>2, <3>3
  <2> QED
    BY <2>2, Zenon DEF old
<1>15. CASE old # None /\ br # 0 /\ Len(bslabs[t]) # BracketMax
  <2>1. /\ Unfreed' = Unfreed /\ lost' = lost
        /\ bslabs' = [bslabs EXCEPT ![t] = Append(bslabs[t], old)]
    BY <1>6, <1>9, <1>15, Zenon
  <2>2. ASSUME NEW q \in [Slabs -> Kinds],
               \A s \in Slabs : \A d2 \in {"log", "bracket", "lost"} :
                  q[s] = d2 <=> p[s] = d2 \/ (s = old /\ "bracket" = d2)
        PROVE  LogPlace(q)' /\ BracketPlace(q)' /\ LostPlace(q)'
    <3>1. \A s \in Slabs : /\ q[s] = "log" <=> p[s] = "log"
                           /\ q[s] = "bracket" <=> p[s] = "bracket" \/ s = old
                           /\ q[s] = "lost" <=> p[s] = "lost"
      BY <2>2, ZenonT(30)
    <3>2. LogPlace(q)' /\ LostPlace(q)'
      BY <1>8, <1>10, <2>1, <3>1, SameLog, SameLost, Zenon
    <3>3. BracketPlace(q)'
      <4>1. old \in Slabs /\ p[old] # "bracket"
        BY <1>3, <1>4, <1>15, Zenon
      <4> DEFINE m == Len(bslabs[t])
      <4>2. m \in Nat /\ Len(bslabs'[t]) = m + 1 /\ bslabs'[t][m + 1] = old
            /\ \A i \in 1 .. m : bslabs'[t][i] = bslabs[t][i]
        <5>1. bslabs[t] \in Seq(Slabs) /\ IsAppend(bslabs'[t], bslabs[t], old)
          BY <1>5, <2>1, Zenon DEF IsAppend
        <5>2. Extends(bslabs'[t], bslabs[t], old, Slabs)
          BY <4>1, <5>1, Appended, Zenon
        <5> QED
          BY <5>2, Zenon DEF Extends
      <4>3. \A u \in Threads \ {t} : bslabs'[u] = bslabs[u]
        BY <1>5, <2>1, Zenon
      <4>4. \A u \in Threads : \A i \in 1 .. Len(bslabs[u]) :
               bslabs'[u][i] = bslabs[u][i] /\ bslabs[u][i] \in Slabs /\ bslabs[u][i] # old
        <5> SUFFICES ASSUME NEW u \in Threads, NEW i \in 1 .. Len(bslabs[u])
                     PROVE  bslabs'[u][i] = bslabs[u][i] /\ bslabs[u][i] \in Slabs
                            /\ bslabs[u][i] # old
          BY Zenon
        <5>1. bslabs[u][i] \in Slabs
          BY <1>5, SeqElement, Zenon
        <5>2. p[bslabs[u][i]] = "bracket"
          BY <1>10, Zenon DEF BracketPlace
        <5>3. bslabs'[u][i] = bslabs[u][i]
          BY <4>2, <4>3, Zenon
        <5> QED
          BY <4>1, <5>1, <5>2, <5>3, Zenon
      <4>5. \A u \in Threads : \A i \in 1 .. Len(bslabs'[u]) :
               i \in 1 .. Len(bslabs[u]) \/ (u = t /\ i = m + 1)
        <5>1. \A i \in 1 .. m + 1 : i \in 1 .. m \/ i = m + 1
          BY <4>2, OneLonger, Zenon
        <5> QED
          BY <4>2, <4>3, <5>1, Zenon
      <4>6. m + 1 \in 1 .. Len(bslabs'[t])
            /\ \A u \in Threads : \A i \in 1 .. Len(bslabs[u]) : i \in 1 .. Len(bslabs'[u])
        <5>1. m + 1 \in 1 .. m + 1 /\ \A i \in 1 .. m : i \in 1 .. m + 1
          BY <4>2, OneLonger, Zenon
        <5> QED
          BY <4>2, <4>3, <5>1, Zenon
      <4> HIDE DEF m
      <4>7. \A u \in Threads : \A i \in 1 .. Len(bslabs'[u]) : q[bslabs'[u][i]] = "bracket"
        <5> SUFFICES ASSUME NEW u \in Threads, NEW i \in 1 .. Len(bslabs'[u])
                     PROVE  q[bslabs'[u][i]] = "bracket"
          OBVIOUS
        <5>1. CASE i \in 1 .. Len(bslabs[u])
          <6>1. p[bslabs[u][i]] = "bracket"
            BY <1>10, <5>1, Zenon DEF BracketPlace
          <6>2. bslabs'[u][i] = bslabs[u][i] /\ bslabs[u][i] \in Slabs
            BY <4>4, <5>1, Zenon
          <6> QED
            BY <3>1, <6>1, <6>2, Zenon
        <5>2. CASE u = t /\ i = m + 1
          <6>1. bslabs'[u][i] = old
            BY <4>2, <5>2, Zenon
          <6>2. q[old] = "bracket"
            BY <3>1, <4>1, Zenon
          <6> QED
            BY <6>1, <6>2, Zenon
        <5> QED
          BY <4>5, <5>1, <5>2, Zenon
      <4>8. ASSUME NEW u \in Threads, NEW v \in Threads, NEW i \in 1 .. Len(bslabs'[u]),
                   NEW j \in 1 .. Len(bslabs'[v]), bslabs'[u][i] = bslabs'[v][j]
            PROVE  u = v /\ i = j
        <5>1. CASE i \in 1 .. Len(bslabs[u]) /\ j \in 1 .. Len(bslabs[v])
          <6>1. bslabs[u][i] = bslabs[v][j]
            BY <4>4, <4>8, <5>1, Zenon
          <6> QED
            BY <1>10, <5>1, <6>1, BracketApart, ZenonT(30)
        <5>2. CASE i \notin 1 .. Len(bslabs[u])
          <6>1. u = t /\ i = m + 1 /\ bslabs'[v][j] = old
            BY <4>2, <4>5, <4>8, <5>2, Zenon
          <6>2. j \notin 1 .. Len(bslabs[v])
            BY <4>4, <6>1, Zenon
          <6> QED
            BY <4>5, <6>1, <6>2, Zenon
        <5>3. CASE j \notin 1 .. Len(bslabs[v])
          <6>1. v = t /\ j = m + 1 /\ bslabs'[u][i] = old
            BY <4>2, <4>5, <4>8, <5>3, Zenon
          <6>2. i \notin 1 .. Len(bslabs[u])
            BY <4>4, <6>1, Zenon
          <6> QED
            BY <4>5, <6>1, <6>2, Zenon
        <5> QED
          BY <5>1, <5>2, <5>3, Zenon
      <4>9. ASSUME NEW s \in Slabs, q[s] = "bracket"
            PROVE  \E u \in Threads : \E i \in 1 .. Len(bslabs'[u]) : bslabs'[u][i] = s
        <5>1. CASE s = old
          BY <4>2, <4>6, <5>1, Zenon
        <5>2. CASE s # old
          <6>1. PICK u \in Threads : \E i \in 1 .. Len(bslabs[u]) : bslabs[u][i] = s
            BY <1>10, <3>1, <4>9, <5>2, Zenon DEF BracketPlace
          <6> QED
            BY <4>4, <4>6, <6>1, Zenon
        <5> QED
          BY <5>1, <5>2, Zenon
      <4> QED
        BY <4>7, <4>8, <4>9, Zenon DEF BracketPlace
    <3> QED
      BY <3>2, <3>3
  <2> QED
    BY <2>2 DEF old
<1> QED
  BY <1>12, <1>13, <1>14, <1>15, Zenon

(* A key's hash entry changes from one slab to another, or to none.         *)
HashSwapped(p, q, k, v) ==
    /\ v \in Slabs \cup {None}
    /\ \A j \in Keys : hash'[j] = IF j = k THEN v ELSE hash[j]
    /\ v # None => p[v] # "hash"
    /\ \A s \in Slabs : q[s] = "hash" <=> (p[s] = "hash" /\ s # hash[k]) \/ s = v

LEMMA HashSwap ==
    ASSUME TypeOK, NEW p \in [Slabs -> Kinds], HashPlace(p), NEW q,
           NEW k \in Keys, NEW v, HashSwapped(p, q, k, v)
    PROVE  HashPlace(q)'
<1> USE DEF HashSwapped
<1>1. \A j \in Keys : hash'[j] = IF j = k THEN v ELSE hash[j]
  BY Zenon
<1>2. \A j \in Keys : hash[j] # None => hash[j] \in Slabs /\ p[hash[j]] = "hash"
  BY Zenon DEF TypeOK, TypeStore, HashPlace
<1>3. ASSUME NEW j \in Keys, hash'[j] # None PROVE q[hash'[j]] = "hash"
  <2>1. CASE j = k
    BY <1>1, <1>3, <2>1, Zenon
  <2>2. CASE j # k
    <3>1. hash'[j] = hash[j] /\ hash[j] \in Slabs /\ p[hash[j]] = "hash"
      BY <1>1, <1>2, <1>3, <2>2, Zenon
    <3>2. hash[j] # hash[k]
      BY <1>3, <2>2, <3>1, Zenon DEF HashPlace
    <3> QED
      BY <3>1, <3>2, Zenon
  <2> QED
    BY <2>1, <2>2, Zenon
<1>4. ASSUME NEW i \in Keys, NEW j \in Keys, hash'[i] = hash'[j], hash'[i] # None PROVE i = j
  <2>0. hash'[k] = v /\ \A j2 \in Keys : j2 # k => hash'[j2] = hash[j2]
    BY <1>1, Zenon
  <2>1. CASE i # k /\ j # k
    <3>1. hash[i] = hash[j] /\ hash[i] # None
      BY <1>4, <2>0, <2>1
    <3> QED
      BY <3>1, Zenon DEF HashPlace
  <2>2. CASE i = k /\ j # k
    <3>1. hash[j] = v /\ v # None
      BY <1>4, <2>0, <2>2
    <3> QED
      BY <1>2, <3>1, Zenon
  <2>3. CASE i # k /\ j = k
    <3>1. hash[i] = v /\ v # None
      BY <1>4, <2>0, <2>3
    <3> QED
      BY <1>2, <3>1, Zenon
  <2> QED
    BY <2>1, <2>2, <2>3, Zenon
<1>5. \A s \in Slabs : q[s] = "hash" => \E j \in Keys : hash'[j] = s
  <2> SUFFICES ASSUME NEW s \in Slabs, q[s] = "hash" PROVE \E j \in Keys : hash'[j] = s
    BY Zenon
  <2>1. CASE s = v
    BY <1>1, <2>1, Zenon
  <2>2. CASE s # v
    <3>1. PICK j \in Keys : hash[j] = s
      BY <2>2, Zenon DEF HashPlace
    <3>2. j # k
      BY <2>2, <3>1, Zenon
    <3> QED
      BY <1>1, <3>1, <3>2, Zenon
  <2> QED
    BY <2>1, <2>2, Zenon
<1> QED
  BY <1>3, <1>4, <1>5, Zenon DEF HashPlace

LEMMA HashDrop ==
    ASSUME TypeOK, NEW p \in [Slabs -> Kinds], HashPlace(p), NEW q, NEW k \in Keys,
           hash' = [hash EXCEPT ![k] = None],
           \A s \in Slabs : q[s] = "hash" <=> p[s] = "hash" /\ s # hash[k]
    PROVE  HashPlace(q)'
<1>1. \A j \in Keys : hash'[j] = IF j = k THEN None ELSE hash[j]
  BY DEF TypeOK, TypeStore
<1>2. PICK v \in Slabs \cup {None} : v = None
  BY Zenon
<1>3. \A s \in Slabs : q[s] = "hash" <=> (p[s] = "hash" /\ s # hash[k]) \/ s = v
  BY <1>2, NoneApart, Zenon
<1>4. \A j \in Keys : hash'[j] = IF j = k THEN v ELSE hash[j]
  BY <1>1, <1>2, Zenon
<1>5. v # None => p[v] # "hash"
  BY <1>2, Zenon
<1>6. HashSwapped(p, q, k, v)
  BY <1>3, <1>4, <1>5, Zenon DEF HashSwapped
<1> QED
  BY <1>6, HashSwap, Zenon

LEMMA DeletePlace ==
    ASSUME TypeOK, Placement, NEW t \in Threads, NEW k \in Keys, Delete(t, k)
    PROVE  Placement'
<1> PICK p \in [Slabs -> Kinds] : Placed(p)
  BY Zenon DEF Placement
<1>1. /\ LogRecord(t, k, None) /\ hash' = [hash EXCEPT ![k] = None]
      /\ UNCHANGED <<free, pend, written, dealloc_list, slabtab, post, ring>>
  BY Zenon DEF Delete, device, reclaim
<1>2. PICK d \in {"log", "bracket", "lost"} :
         \A q \in [Slabs -> Kinds] :
            (\A s \in Slabs : \A d2 \in {"log", "bracket", "lost"} :
                q[s] = d2 <=> p[s] = d2 \/ (s = hash[k] /\ d = d2)) =>
            LogPlace(q)' /\ BracketPlace(q)' /\ LostPlace(q)'
  BY <1>1, RecordPlace
<1>3. d \in Kinds
  BY DEF Kinds
<1>4. PICK q \in [Slabs -> Kinds] : MovedTo(q, p, hash[k], d)
  BY <1>3, Moved, Zenon
<1> USE DEF MovedTo
<1>5. hash[k] \in Slabs => p[hash[k]] = "hash"
  BY NoneApart, Zenon DEF Placed, HashPlace
<1>6. LogPlace(q)' /\ BracketPlace(q)' /\ LostPlace(q)'
  <2>1. \A s \in Slabs : \A d2 \in {"log", "bracket", "lost"} :
           q[s] = d2 <=> p[s] = d2 \/ (s = hash[k] /\ d = d2)
    BY <1>4, <1>5, Zenon
  <2> QED
    BY <1>2, <2>1, Zenon
<1>7. HashPlace(q)'
  <2>1. \A s \in Slabs : q[s] = "hash" <=> p[s] = "hash" /\ s # hash[k]
    BY <1>4, <1>5, NoneApart, Zenon
  <2>2. HashPlace(p)
    BY Zenon DEF Placed
  <2> QED
    BY <1>1, <2>1, <2>2, HashDrop, Zenon
<1>8. TypeStore /\ TypeWriter
  BY Zenon DEF TypeOK
<1>9. FreePlace(q)' /\ SetPlace(q)'
  BY <1>1, <1>4, <1>5, <1>8, SameFree, SameSet, Zenon DEF Placed
<1>10. TabPlace(q)' /\ RingPlace(q)'
  BY <1>1, <1>4, <1>5, <1>8, SameTab, SameRing, Zenon DEF Placed
<1> QED
  BY <1>6, <1>7, <1>9, <1>10, Zenon DEF Placement, Placed

LEMMA SetLogPlace ==
    ASSUME TypeOK, Placement, NEW t \in Threads, SetLog(t)
    PROVE  Placement'
<1> PICK p \in [Slabs -> Kinds] : Placed(p)
  BY SMTT(30) DEF Placement
<1>1. PICK k \in Keys, n \in Slabs : k = pend[t].key /\ n = pend[t].slab
  BY PendType, Zenon DEF SetLog
<1>2. /\ LogRecord(t, k, n) /\ hash' = [hash EXCEPT ![k] = n]
      /\ pend[t] # NoPend /\ pend' = [pend EXCEPT ![t] = NoPend]
      /\ UNCHANGED <<free, written, dealloc_list, slabtab, post, ring>>
  BY <1>1, Zenon DEF SetLog, device, reclaim
<1>3. PICK d \in {"log", "bracket", "lost"} :
         \A q \in [Slabs -> Kinds] :
            (\A s \in Slabs : \A d2 \in {"log", "bracket", "lost"} :
                q[s] = d2 <=> p[s] = d2 \/ (s = hash[k] /\ d = d2)) =>
            LogPlace(q)' /\ BracketPlace(q)' /\ LostPlace(q)'
  BY <1>2, RecordPlace
<1>4. PICK h \in Kinds : h = "hash"
  BY Zenon DEF Kinds
<1>5. d \in Kinds
  BY DEF Kinds
<1>6. PICK p1 \in [Slabs -> Kinds] : MovedTo(p1, p, n, h)
  BY <1>4, Moved, Zenon
<1> USE DEF MovedTo
<1> PICK o : o = hash[k]
  OBVIOUS
<1>7. PICK q \in [Slabs -> Kinds] : \A r \in Slabs : q[r] = IF r = o THEN d ELSE p1[r]
  <2> DEFINE q0 == [r \in Slabs |-> IF r = o THEN d ELSE p1[r]]
  <2>1. q0 \in [Slabs -> Kinds] /\ \A r \in Slabs : q0[r] = IF r = o THEN d ELSE p1[r]
    BY <1>5
  <2> QED
    BY <2>1, Zenon
<1>8. p[n] = "set" /\ (hash[k] \in Slabs => p[hash[k]] = "hash")
  BY <1>1, <1>2, NoneApart, Zenon DEF Placed, HashPlace, SetPlace
<1>9. \A r \in Slabs : q[r] = IF r = hash[k] THEN d ELSE IF r = n THEN "hash" ELSE p[r]
  BY <1>4, <1>6, <1>7
<1>10. LogPlace(q)' /\ BracketPlace(q)' /\ LostPlace(q)'
  <2>1. \A s \in Slabs : \A d2 \in {"log", "bracket", "lost"} :
           q[s] = d2 <=> p[s] = d2 \/ (s = hash[k] /\ d = d2)
    BY <1>8, <1>9, Zenon
  <2> QED
    BY <1>3, <2>1
<1>11. HashPlace(q)'
  <2>1. \A s \in Slabs : q[s] = "hash" <=> (p[s] = "hash" /\ s # hash[k]) \/ s = n
    BY <1>8, <1>9
  <2>2. HashPlace(p) /\ p[n] # "hash"
    BY <1>8 DEF Placed
  <2>3. \A j \in Keys : hash'[j] = IF j = k THEN n ELSE hash[j]
    BY <1>2 DEF TypeOK, TypeStore
  <2>4. n \in Slabs \cup {None} /\ (n # None => p[n] # "hash")
    BY <1>1, <2>2, Zenon
  <2> QED
    <3>1. HashSwapped(p, q, k, n)
      BY <2>1, <2>3, <2>4, Zenon DEF HashSwapped
    <3> QED
      BY <2>2, <3>1, HashSwap, Zenon
<1>12. SetPlace(q)'
  <2>1. \A s \in Slabs : q[s] = "set" <=> p[s] = "set" /\ s # pend[t].slab
    BY <1>1, <1>8, <1>9, Zenon
  <2> QED
    BY <1>2, <2>1, SetEnds, ZenonT(30) DEF Placed
<1>13. TypeStore /\ TypeWriter
  BY Zenon DEF TypeOK
<1>14. FreePlace(q)' /\ TabPlace(q)' /\ RingPlace(q)'
  BY <1>2, <1>8, <1>9, <1>13, SameFree, SameTab, SameRing, Zenon DEF Placed
<1> QED
  BY <1>10, <1>11, <1>12, <1>14, Zenon DEF Placement, Placed

-----------------------------------------------------------------------------
(* A placement puts every slab in exactly one place.                        *)

(* A set with at most one element, tagged with the name of its kind.        *)
LEMMA Tagged ==
    ASSUME NEW a, NEW S, NEW kind, \A x, y \in S : x = y, \A x \in S : kind = a,
           kind = a => \E x : x \in S
    PROVE  IF kind = a THEN \E x : {a} \X S = {x} ELSE {a} \X S = {}
<1>1. CASE kind = a
  <2>1. PICK x : x \in S
    BY <1>1, Zenon
  <2>2. S = {x}
    BY <2>1, Zenon
  <2>3. {a} \X {x} = {<<a, x>>}
    OBVIOUS
  <2> QED
    BY <1>1, <2>2, <2>3, Zenon
<1>2. CASE kind # a
  <2>1. S = {}
    BY <1>2, Zenon
  <2>2. {a} \X {} = {}
    OBVIOUS
  <2> QED
    BY <1>2, <2>1, <2>2, Zenon
<1> QED
  BY <1>1, <1>2

LEMMA SecondOf ==
    ASSUME NEW t, NEW S, NEW x \in {t} \X S
    PROVE  \E i \in S : x = <<t, i>>
OBVIOUS

(* The places S of one kind hold slab s just once, if p says that kind, and  *)
(* not at all otherwise.                                                    *)
Just(p, s, kind, S) ==
    /\ \A x, y \in S : x = y
    /\ \A x \in S : p[s] = kind
    /\ p[s] = kind => \E x : x \in S

LEMMA JustFree ==
    ASSUME NEW p, FreePlace(p), NEW s \in Slabs PROVE Just(p, s, "free", free \cap {s})
BY DEF FreePlace, Just

LEMMA JustLost ==
    ASSUME NEW p, LostPlace(p), NEW s \in Slabs PROVE Just(p, s, "lost", lost \cap {s})
BY Zenon DEF LostPlace, Just

LEMMA JustHash ==
    ASSUME NEW p, HashPlace(p), NEW s \in Slabs
    PROVE  Just(p, s, "hash", {k \in Keys : hash[k] = s})
<1>1. s # None
  BY NoneApart, Zenon
<1> QED
  BY <1>1, Zenon DEF HashPlace, Just

LEMMA JustSet ==
    ASSUME NEW p, SetPlace(p), NEW s \in Slabs
    PROVE  Just(p, s, "set", {t \in Threads : pend[t].slab = s})
<1>1. \A t \in Threads : pend[t].slab = s => pend[t] # NoPend
  <2>1. NoPend.slab = None
    BY Zenon DEF NoPend
  <2> QED
    BY <2>1, NoneApart, Zenon
<1> QED
  BY <1>1, SMTT(30), ZenonT(30) DEF SetPlace, Just

LEMMA JustLog ==
    ASSUME NEW p, LogPlace(p), NEW s \in Slabs
    PROVE  Just(p, s, "log", {i \in Unfreed : log[i].old = s})
BY DEF LogPlace, Just

LEMMA JustTab ==
    ASSUME NEW p, TabPlace(p), TypeWriter, NEW s \in Slabs
    PROVE  Just(p, s, "tab", {i \in In(slabtab, s) : i > post})
<1> DEFINE B == {i \in In(slabtab, s) : i > post}
<1>1. post \in Nat /\ Len(slabtab) \in Nat /\ DOMAIN slabtab = 1 .. Len(slabtab)
  BY DEF TypeWriter
<1>2. \A i : i \in B <=> i \in post + 1 .. Len(slabtab) /\ slabtab[i] = s
  <2>1. ASSUME NEW i PROVE i \in 1 .. Len(slabtab) /\ i > post <=> i \in post + 1 .. Len(slabtab)
    BY <1>1
  <2> QED
    BY <1>1, <2>1, Zenon DEF In
<1> HIDE DEF B
<1>3. Just(p, s, "tab", B)
  <2>1. \A i, j : i \in B /\ j \in B => i = j
    <3> SUFFICES ASSUME NEW i, NEW j, i \in B, j \in B PROVE i = j
      BY Zenon
    <3>1. /\ i \in post + 1 .. Len(slabtab) /\ j \in post + 1 .. Len(slabtab)
          /\ slabtab[i] = slabtab[j]
      BY <1>2, Zenon
    <3> QED
      BY <3>1, Zenon DEF TabPlace
  <2> QED
    BY <1>2, <2>1, Zenon DEF TabPlace, Just
<1> QED
  BY <1>3, Zenon DEF B

LEMMA JustRing ==
    ASSUME NEW p, RingPlace(p), TypeWriter, NEW s \in Slabs
    PROVE  Just(p, s, "ring", In(ring, s))
<1>1. \A i : i \in In(ring, s) <=> i \in 1 .. Len(ring) /\ ring[i] = s
  BY DEF TypeWriter, In
<1> QED
  BY <1>1 DEF RingPlace, Just

LEMMA JustBracket ==
    ASSUME NEW p, BracketPlace(p), TypeBrackets, NEW s \in Slabs
    PROVE  Just(p, s, "bracket", UNION {{t} \X In(bslabs[t], s) : t \in Threads})
<1> DEFINE K == UNION {{t} \X In(bslabs[t], s) : t \in Threads}
<1>1. ASSUME NEW t \in Threads, NEW i
      PROVE  i \in In(bslabs[t], s) <=> i \in 1 .. Len(bslabs[t]) /\ bslabs[t][i] = s
  BY DEF TypeBrackets, In
<1>2. ASSUME NEW x \in K
      PROVE  \E t \in Threads : \E i \in 1 .. Len(bslabs[t]) : x = <<t, i>> /\ bslabs[t][i] = s
  <2>1. PICK t \in Threads : x \in {t} \X In(bslabs[t], s)
    BY Zenon
  <2>2. PICK i \in In(bslabs[t], s) : x = <<t, i>>
    BY <2>1, SecondOf
  <2>3. i \in 1 .. Len(bslabs[t]) /\ bslabs[t][i] = s
    BY <1>1, Zenon
  <2> QED
    BY <2>2, <2>3, Zenon
<1>3. ASSUME NEW t \in Threads, NEW i \in 1 .. Len(bslabs[t]), bslabs[t][i] = s
      PROVE  <<t, i>> \in K
  <2>1. <<t, i>> \in {t} \X In(bslabs[t], s)
    BY <1>1, <1>3, Zenon
  <2> QED
    BY <2>1, Zenon
<1> HIDE DEF K
<1>4. ASSUME NEW x \in K, NEW y \in K PROVE x = y
  <2>1. PICK t \in Threads : \E i \in 1 .. Len(bslabs[t]) : x = <<t, i>> /\ bslabs[t][i] = s
    BY <1>2, Zenon
  <2>2. PICK i \in 1 .. Len(bslabs[t]) : x = <<t, i>> /\ bslabs[t][i] = s
    BY <2>1, Zenon
  <2>3. PICK u \in Threads : \E j \in 1 .. Len(bslabs[u]) : y = <<u, j>> /\ bslabs[u][j] = s
    BY <1>2, Zenon
  <2>4. PICK j \in 1 .. Len(bslabs[u]) : y = <<u, j>> /\ bslabs[u][j] = s
    BY <2>3, Zenon
  <2>5. t = u /\ i = j
    BY <2>2, <2>4, BracketApart, Zenon
  <2> QED
    BY <2>2, <2>4, <2>5, Zenon
<1>5. ASSUME NEW x \in K PROVE p[s] = "bracket"
  BY <1>2 DEF BracketPlace
<1>6. ASSUME p[s] = "bracket" PROVE \E x : x \in K
  <2>1. PICK t \in Threads : \E i \in 1 .. Len(bslabs[t]) : bslabs[t][i] = s
    BY <1>6 DEF BracketPlace
  <2> QED
    BY <1>3, <2>1, Zenon
<1>7. Just(p, s, "bracket", K)
  BY <1>4, <1>5, <1>6, Zenon DEF Just
<1> QED
  BY <1>7, Zenon DEF K

LEMMA JustOne ==
    ASSUME NEW p, NEW s, NEW kind, NEW S, Just(p, s, kind, S)
    PROVE  IF p[s] = kind THEN \E x : {kind} \X S = {x} ELSE {kind} \X S = {}
BY Tagged, Zenon DEF Just

(* A placement puts every slab in exactly one place.                        *)
LEMMA PlacedOnce ==
    ASSUME TypeOK, Placement, NEW s \in Slabs PROVE \E x : Places(s) = {x}
<1> PICK p \in [Slabs -> Kinds] : Placed(p)
  BY Zenon DEF Placement
<1> DEFINE F == free \cap {s}
           L == lost \cap {s}
           H == {k \in Keys : hash[k] = s}
           P == {t \in Threads : pend[t].slab = s}
           G == {i \in Unfreed : log[i].old = s}
           B == {i \in In(slabtab, s) : i > post}
           R == In(ring, s)
           K == UNION {{t} \X In(bslabs[t], s) : t \in Threads}
           TF == {"free"} \X F
           TL == {"lost"} \X L
           TH == {"hash"} \X H
           TP == {"set"} \X P
           TG == {"log"} \X G
           TB == {"tab"} \X B
           TR == {"ring"} \X R
           TK == {"bracket"} \X K
<1>1. Places(s) = TF \cup TL \cup TH \cup TP
                  \cup TG \cup TB \cup TR \cup TK
  BY Zenon DEF Places
<1>2. /\ FreePlace(p) /\ LostPlace(p) /\ HashPlace(p) /\ SetPlace(p)
      /\ LogPlace(p) /\ TabPlace(p) /\ RingPlace(p) /\ BracketPlace(p)
  BY DEF Placed
<1>3. TypeBrackets /\ TypeWriter
  BY DEF TypeOK
<1>4. p[s] \in Kinds
  BY Zenon
<1>5. Just(p, s, "free", F)
  BY <1>2, JustFree
<1>6. Just(p, s, "lost", L)
  BY <1>2, JustLost, Zenon
<1>7. Just(p, s, "hash", H)
  BY <1>2, JustHash, Zenon
<1>8. Just(p, s, "set", P)
  BY <1>2, JustSet, Zenon
<1>9. Just(p, s, "log", G)
  BY <1>2, JustLog, Zenon
<1>10. Just(p, s, "tab", B)
  BY <1>2, <1>3, JustTab, Zenon
<1>11. Just(p, s, "ring", R)
  BY <1>2, <1>3, JustRing, Zenon
<1>12. Just(p, s, "bracket", K)
  BY <1>2, <1>3, JustBracket, Zenon
<1> HIDE DEF F, L, H, P, G, B, R, K
<1>13. IF p[s] = "free" THEN \E x : TF = {x} ELSE TF = {}
  BY <1>5, JustOne, Zenon
<1>14. IF p[s] = "lost" THEN \E x : TL = {x} ELSE TL = {}
  BY <1>6, JustOne, Zenon
<1>15. IF p[s] = "hash" THEN \E x : TH = {x} ELSE TH = {}
  BY <1>7, JustOne, Zenon
<1>16. IF p[s] = "set" THEN \E x : TP = {x} ELSE TP = {}
  BY <1>8, JustOne, Zenon
<1>17. IF p[s] = "log" THEN \E x : TG = {x} ELSE TG = {}
  BY <1>9, JustOne, Zenon
<1>18. IF p[s] = "tab" THEN \E x : TB = {x} ELSE TB = {}
  BY <1>10, JustOne, Zenon
<1>19. IF p[s] = "ring" THEN \E x : TR = {x} ELSE TR = {}
  BY <1>11, JustOne, Zenon
<1>20. IF p[s] = "bracket" THEN \E x : TK = {x} ELSE TK = {}
  BY <1>12, JustOne, Zenon
<1> HIDE DEF TF, TL, TH, TP, TG, TB, TR, TK
<1>21. CASE p[s] = "free"
  <2>1. (\E x : TF = {x}) /\ TL = {} /\ TH = {} /\ TP = {}
        /\ TG = {} /\ TB = {} /\ TR = {} /\ TK = {}
    BY <1>13, <1>14, <1>15, <1>16, <1>17, <1>18, <1>19, <1>20, <1>21, Zenon
  <2> QED
    BY <1>1, <2>1, Zenon
<1>22. CASE p[s] = "lost"
  <2>1. (\E x : TL = {x}) /\ TF = {} /\ TH = {} /\ TP = {}
        /\ TG = {} /\ TB = {} /\ TR = {} /\ TK = {}
    BY <1>13, <1>14, <1>15, <1>16, <1>17, <1>18, <1>19, <1>20, <1>22, Zenon
  <2> QED
    BY <1>1, <2>1, Zenon
<1>23. CASE p[s] = "hash"
  <2>1. (\E x : TH = {x}) /\ TF = {} /\ TL = {} /\ TP = {}
        /\ TG = {} /\ TB = {} /\ TR = {} /\ TK = {}
    BY <1>13, <1>14, <1>15, <1>16, <1>17, <1>18, <1>19, <1>20, <1>23, Zenon
  <2> QED
    BY <1>1, <2>1
<1>24. CASE p[s] = "set"
  <2>1. (\E x : TP = {x}) /\ TF = {} /\ TL = {} /\ TH = {}
        /\ TG = {} /\ TB = {} /\ TR = {} /\ TK = {}
    BY <1>13, <1>14, <1>15, <1>16, <1>17, <1>18, <1>19, <1>20, <1>24, Zenon
  <2> QED
    BY <1>1, <2>1, Zenon
<1>25. CASE p[s] = "log"
  <2>1. (\E x : TG = {x}) /\ TF = {} /\ TL = {} /\ TH = {}
        /\ TP = {} /\ TB = {} /\ TR = {} /\ TK = {}
    BY <1>13, <1>14, <1>15, <1>16, <1>17, <1>18, <1>19, <1>20, <1>25, Zenon
  <2> QED
    BY <1>1, <2>1, Zenon
<1>26. CASE p[s] = "tab"
  <2>1. (\E x : TB = {x}) /\ TF = {} /\ TL = {} /\ TH = {}
        /\ TP = {} /\ TG = {} /\ TR = {} /\ TK = {}
    BY <1>13, <1>14, <1>15, <1>16, <1>17, <1>18, <1>19, <1>20, <1>26, Zenon
  <2> QED
    BY <1>1, <2>1, Zenon
<1>27. CASE p[s] = "ring"
  <2>1. (\E x : TR = {x}) /\ TF = {} /\ TL = {} /\ TH = {}
        /\ TP = {} /\ TG = {} /\ TB = {} /\ TK = {}
    BY <1>13, <1>14, <1>15, <1>16, <1>17, <1>18, <1>19, <1>20, <1>27, Zenon
  <2> QED
    BY <1>1, <2>1, Zenon
<1>28. CASE p[s] = "bracket"
  <2>1. (\E x : TK = {x}) /\ TF = {} /\ TL = {} /\ TH = {}
        /\ TP = {} /\ TG = {} /\ TB = {} /\ TR = {}
    BY <1>13, <1>14, <1>15, <1>16, <1>17, <1>18, <1>19, <1>20, <1>28, Zenon
  <2> QED
    BY <1>1, <2>1, Zenon
<1> QED
  BY <1>4, <1>21, <1>22, <1>23, <1>24, <1>25, <1>26, <1>27, <1>28, ZenonT(30) DEF Kinds
-----------------------------------------------------------------------------
(* The records of a bracket have an id of their own; nothing is logged in a *)
(* bracket once its closing record is.                                      *)
BracketIds ==
    /\ \A t, u \in Threads : bracket[t] = bracket[u] /\ bracket[t] # 0 => t = u
    /\ \A t \in Threads : closing[t] # 0 =>
          /\ pend[t] = NoPend
          /\ log[closing[t]].br = -bracket[t]
          /\ \A l \in closing[t] + 1 .. Len(log) : log[l].br # bracket[t]

(* A record whose old slab is to be freed is in dealloc_list until it is    *)
(* durable; slabs are freed only after the sync.                            *)
ListKept ==
    /\ writer = "post" => written <= durable
    /\ \A l \in durable + 1 .. written : Freed(log[l]) => l \in dealloc_list

-----------------------------------------------------------------------------
(* Brackets, and the order of sync and free.                                *)

LEMMA InitIds == Init => BracketIds
BY Zenon DEF Init, BracketIds

(* A record that is not of a bracket being closed may be appended.          *)
LEMMA AppendIds ==
    ASSUME TypeOK, BracketIds, UNCHANGED <<bracket, closing>>,
           Len(log') = Len(log) + 1, \A i \in 1 .. Len(log) : log'[i] = log[i],
           \A u \in Threads : closing[u] # 0 =>
              pend'[u] = NoPend /\ log'[Len(log) + 1].br # bracket[u]
    PROVE  BracketIds'
<1>1. Len(log) \in Nat
  BY DEF TypeOK, TypeLog
<1>2. ASSUME NEW u \in Threads, closing[u] # 0
      PROVE  /\ log'[closing[u]].br = -bracket[u]
             /\ \A l \in closing[u] + 1 .. Len(log') : log'[l].br # bracket[u]
  <2>1. closing[u] \in 1 .. Len(log)
    BY <1>1, <1>2 DEF TypeOK, TypeBrackets
  <2>2. log'[closing[u]].br = -bracket[u]
    BY <1>2, <2>1, Zenon DEF BracketIds
  <2>3. ASSUME NEW l \in closing[u] + 1 .. Len(log') PROVE log'[l].br # bracket[u]
    <3>1. l \in closing[u] + 1 .. Len(log) \/ l = Len(log) + 1
      BY <1>1, <2>1
    <3>2. CASE l \in closing[u] + 1 .. Len(log)
      <4>1. l \in 1 .. Len(log)
        BY <1>1, <2>1, <3>2
      <4>2. log[l].br # bracket[u]
        BY <1>2, <3>2, Zenon DEF BracketIds
      <4> QED
        BY <4>1, <4>2, Zenon
    <3> QED
      BY <1>2, <3>1, <3>2, Zenon
  <2> QED
    BY <2>2, <2>3, Zenon
<1> QED
  BY <1>2, Zenon DEF BracketIds

(* What log_write_internal appends is of the thread's own bracket.          *)
LEMMA RecordIds ==
    ASSUME TypeOK, BracketIds, NEW t \in Threads, closing[t] = 0,
           NEW k \in Keys, NEW new \in Slabs \cup {None}, LogRecord(t, k, new),
           UNCHANGED <<bracket, closing>>,
           \A u \in Threads \ {t} : pend'[u] = pend[u]
    PROVE  BracketIds'
<1>1. /\ Len(log') = Len(log) + 1
      /\ \A i \in 1 .. Len(log) : log'[i] = log[i]
  BY RecordType, Zenon
<1>2. log'[Len(log) + 1].br \in {0, bracket[t]}
  BY DEF LogRecord, TypeOK, TypeLog
<1>3. ASSUME NEW u \in Threads, closing[u] # 0
      PROVE  pend'[u] = NoPend /\ log'[Len(log) + 1].br # bracket[u]
  <2>1. u # t /\ bracket[u] # 0 /\ pend[u] = NoPend
    BY <1>3, Zenon DEF TypeOK, TypeBrackets, BracketIds
  <2>2. bracket[u] # bracket[t]
    BY <2>1, Zenon DEF BracketIds
  <2> QED
    BY <1>2, <2>1, <2>2, Zenon
<1> QED
  BY <1>1, <1>3, AppendIds, Zenon

LEMMA NextIds == ASSUME TypeOK, BracketIds, [Next]_vars PROVE BracketIds'
<1>1. CASE UNCHANGED <<bracket, closing, log>>
           /\ \A u \in Threads : pend'[u] = pend[u] \/ pend'[u] = NoPend \/ closing[u] = 0
  BY <1>1, Zenon DEF BracketIds
<1>2. CASE FlogSync \/ LogSync \/ Writer \/ UNCHANGED vars
  BY <1>1, <1>2, Zenon DEF FlogSync, LogSync, Writer, WriteLog, DeviceSync, PostSlab,
                    PostDone, vars, client, brackets
<1>3. ASSUME NEW t \in Threads, Client(t) PROVE BracketIds'
  <2>1. ASSUME NEW k \in Keys, Delete(t, k) PROVE BracketIds'
    <3>1. LogRecord(t, k, None) /\ closing[t] = 0 /\ UNCHANGED <<bracket, closing, pend>>
      BY <2>1, Zenon DEF Delete, Idle
    <3> QED
      BY <3>1, RecordIds, Zenon
  <2>2. ASSUME NEW k \in Keys, NEW s \in Slabs, SetData(t, k, s) PROVE BracketIds'
    <3>1. UNCHANGED <<bracket, closing, log>> /\ closing[t] = 0
          /\ pend' = [pend EXCEPT ![t] = [key |-> k, slab |-> s]]
      BY <2>2, Zenon DEF SetData, Idle, brackets
    <3> QED
      BY <1>1, <3>1, Zenon DEF TypeOK, TypeStore
  <2>3. CASE SetFails(t) \/ SetNoEntry(t)
    <3>1. UNCHANGED <<bracket, closing, log>> /\ pend' = [pend EXCEPT ![t] = NoPend]
      BY <2>3, Zenon DEF SetFails, SetNoEntry, brackets
    <3> QED
      BY <1>1, <3>1, Zenon DEF TypeOK, TypeStore
  <2>4. CASE SetLog(t)
    <3>1. pend[t].key \in Keys /\ pend[t].slab \in Slabs
      BY <2>4, PendType, Zenon DEF SetLog
    <3>2. /\ LogRecord(t, pend[t].key, pend[t].slab) /\ UNCHANGED <<bracket, closing>>
          /\ pend' = [pend EXCEPT ![t] = NoPend] /\ pend[t] # NoPend
      BY <2>4, Zenon DEF SetLog
    <3>3. closing[t] = 0
      BY <3>2, Zenon DEF BracketIds
    <3>4. \A u \in Threads \ {t} : pend'[u] = pend[u]
      BY <3>2, Zenon DEF TypeOK, TypeStore
    <3> QED
      BY <3>1, <3>2, <3>3, <3>4, RecordIds, Zenon
  <2>5. CASE OpenBracket(t)
    <3>1. UNCHANGED <<closing, log, pend>> /\ closing[t] = 0
          /\ \/ bracket' = [bracket EXCEPT ![t] = generator + 1]
             \/ bracket' = bracket
      BY <2>5 DEF OpenBracket, Idle, client
    <3>2. CASE bracket' = bracket
      BY <1>1, <3>1, <3>2, Zenon
    <3>3. CASE bracket' = [bracket EXCEPT ![t] = generator + 1]
      <4>1. \A u \in Threads : bracket[u] # generator + 1
        BY DEF TypeOK, TypeBrackets
      <4>2. \A u \in Threads : bracket'[u] = IF u = t THEN generator + 1 ELSE bracket[u]
        BY <3>3, Zenon DEF TypeOK, TypeBrackets
      <4> QED
        BY <3>1, <4>1, <4>2 DEF BracketIds
    <3> QED
      BY <3>1, <3>2, <3>3, Zenon
  <2>6. CASE CloseBracket(t)
    <3> DEFINE r == [key |-> None, new |-> None, ver |-> 0, old |-> None,
                     oldver |-> 0, br |-> -bracket[t]]
    <3>1. UNCHANGED <<pend, bracket>> /\ closing[t] = 0 /\ pend[t] = NoPend /\ bracket[t] # 0
      BY <2>6, Zenon DEF CloseBracket, Idle, client
    <3>2. \/ UNCHANGED <<log, closing>>
          \/ log' = Append(log, r) /\ closing' = [closing EXCEPT ![t] = Len(log) + 1]
      BY <2>6, Zenon DEF CloseBracket
    <3>3. CASE UNCHANGED <<log, closing>>
      BY <1>1, <3>1, <3>3, Zenon
    <3>4. CASE log' = Append(log, r) /\ closing' = [closing EXCEPT ![t] = Len(log) + 1]
      <4>1. Len(log) \in Nat /\ log \in Seq(LogRec) /\ bracket[t] \in Nat \ {0}
        BY <3>1 DEF TypeOK, TypeLog, TypeBrackets
      <4>2. r.br = -bracket[t]
        BY Zenon
      <4> HIDE DEF r
      <4>3. /\ Len(log') = Len(log) + 1 /\ log'[Len(log) + 1] = r
            /\ \A i \in 1 .. Len(log) : log'[i] = log[i]
        BY <3>4, <4>1
      <4>4. \A u \in Threads : closing'[u] = IF u = t THEN Len(log) + 1 ELSE closing[u]
        BY <3>4, Zenon DEF TypeOK, TypeBrackets
      <4>5. ASSUME NEW u \in Threads, closing'[u] # 0
            PROVE  /\ pend'[u] = NoPend
                   /\ log'[closing'[u]].br = -bracket'[u]
                   /\ \A l \in closing'[u] + 1 .. Len(log') : log'[l].br # bracket'[u]
        <5>1. CASE u = t
          <6>1. closing'[u] = Len(log) + 1
            BY <4>4, <5>1, Zenon
          <6>2. closing'[u] + 1 .. Len(log') = {}
            BY <4>1, <4>3, <6>1
          <6>3. log'[closing'[u]] = r
            BY <4>3, <6>1, Zenon
          <6> QED
            BY <3>1, <4>2, <5>1, <6>2, <6>3, Zenon
        <5>2. CASE u # t
          <6>1. closing'[u] = closing[u] /\ closing[u] # 0 /\ closing[u] \in 1 .. Len(log)
                /\ bracket[u] \in Nat
            BY <4>1, <4>4, <4>5, <5>2 DEF TypeOK, TypeBrackets
          <6>2. /\ pend[u] = NoPend /\ log[closing[u]].br = -bracket[u]
                /\ \A l \in closing[u] + 1 .. Len(log) : log[l].br # bracket[u]
            BY <6>1, Zenon DEF BracketIds
          <6>3. ASSUME NEW l \in closing[u] + 1 .. Len(log) + 1
                PROVE  log'[l].br # bracket[u]
            <7>1. CASE l = Len(log) + 1
              BY <4>1, <4>2, <4>3, <6>1, <7>1
            <7>2. CASE l # Len(log) + 1
              <8>1. l \in closing[u] + 1 .. Len(log) /\ l \in 1 .. Len(log)
                BY <4>1, <6>1, <7>2
              <8> QED
                BY <4>3, <6>2, <8>1, Zenon
            <7> QED
              BY <7>1, <7>2, Zenon
          <6> QED
            BY <3>1, <4>3, <6>1, <6>2, <6>3, Zenon
        <5> QED
          BY <5>1, <5>2, Zenon
      <4> QED
        BY <3>1, <4>5, Zenon DEF BracketIds
    <3> QED
      BY <3>2, <3>3, <3>4, Zenon
  <2>7. CASE CloseFree(t)
    <3>1. /\ UNCHANGED <<log, pend>> /\ bracket' = [bracket EXCEPT ![t] = 0]
          /\ closing' = [closing EXCEPT ![t] = 0]
      BY <2>7, Zenon DEF CloseFree, client
    <3>2. \A u \in Threads : /\ bracket'[u] = IF u = t THEN 0 ELSE bracket[u]
                             /\ closing'[u] = IF u = t THEN 0 ELSE closing[u]
      BY <3>1, Zenon DEF TypeOK, TypeBrackets
    <3> QED
      BY <3>1, <3>2 DEF BracketIds
  <2> QED
    BY <1>3, <2>1, <2>2, <2>3, <2>4, <2>5, <2>6, <2>7, Zenon DEF Client
<1> QED
  BY <1>2, <1>3 DEF Next

LEMMA InitKept == Init => ListKept
BY DEF Init, ListKept

(* Steps that leave the writer alone keep the records it has written.       *)
LEMMA KeptStill ==
    ASSUME TypeOK, ListKept, [Next]_vars, UNCHANGED <<written, writer, dealloc_list>>
    PROVE  ListKept'
<1>1. ASSUME NEW l \in durable' + 1 .. written, Freed(log'[l]) PROVE l \in dealloc_list
  <2>1. l \in durable + 1 .. written /\ l \in 1 .. Len(log)
    BY LogGrows
  <2>2. Freed(log[l])
    BY <1>1, <2>1, LogGrows, Zenon
  <2> QED
    BY <2>1, <2>2, Zenon DEF ListKept
<1>2. writer = "post" => written <= durable'
  BY LogGrows DEF ListKept
<1> QED
  BY <1>1, <1>2 DEF ListKept, Freed

LEMMA NextKept == ASSUME TypeOK, ListKept, [Next]_vars PROVE ListKept'
<1>1. ASSUME NEW t \in Threads, Client(t) PROVE ListKept'
  <2>1. UNCHANGED <<written, writer, dealloc_list>>
    BY <1>1, Zenon DEF Client, Delete, SetData, SetFails, SetNoEntry, SetLog, OpenBracket,
                CloseBracket, CloseFree, lgwr, reclaim, device
  <2> QED
    BY <2>1, KeptStill, Zenon
<1>2. CASE FlogSync \/ LogSync \/ UNCHANGED vars
  <2>1. UNCHANGED <<written, writer, dealloc_list>>
    BY <1>2, Zenon DEF FlogSync, LogSync, vars, lgwr, reclaim, device
  <2> QED
    BY <2>1, KeptStill, Zenon
<1>3. CASE WriteLog
  <2>1. /\ written' = WriteEnd /\ UNCHANGED log /\ writer' # "post"
        /\ dealloc_list' = dealloc_list \cup {i \in written + 1 .. WriteEnd : Freed(log[i])}
    BY <1>3, Zenon DEF WriteLog
  <2>2. WriteEnd \in Nat
    BY WriteEndBounds, LogGrows
  <2> HIDE DEF WriteEnd
  <2>3. ASSUME NEW l \in durable + 1 .. WriteEnd, Freed(log[l])
        PROVE  l \in dealloc_list'
    <3>1. l \in durable + 1 .. written \/ l \in written + 1 .. WriteEnd
      BY <2>2, LogGrows
    <3>2. CASE l \in durable + 1 .. written
      BY <2>1, <2>3, <3>2, Zenon DEF ListKept
    <3>3. CASE l \in written + 1 .. WriteEnd
      BY <2>1, <2>3, <3>3, Zenon
    <3> QED
      BY <3>1, <3>2, <3>3, Zenon
  <2>4. \A l \in durable' + 1 .. WriteEnd : l \in durable + 1 .. WriteEnd
    BY <2>2, LogGrows
  <2> QED
    BY <2>1, <2>3, <2>4, Zenon DEF ListKept, Freed
<1>4. CASE DeviceSync \/ PostSlab \/ PostDone
  <2>1. written' = written /\ written <= durable' /\ UNCHANGED log
    <3>1. CASE DeviceSync
      BY <3>1, LogGrows DEF DeviceSync
    <3>2. CASE PostSlab \/ PostDone
      BY <3>2, Zenon DEF PostSlab, PostDone, ListKept, device
    <3> QED
      BY <1>4, <3>1, <3>2, Zenon
  <2>2. durable' + 1 .. written' = {}
    BY <2>1, LogGrows
  <2> QED
    BY <2>1, <2>2 DEF ListKept
<1> QED
  BY <1>1, <1>2, <1>3, <1>4, Zenon DEF Next, Writer

-----------------------------------------------------------------------------
(* A closed bracket's slabs move to slabtab.                                *)
LEMMA CloseFreePlace ==
    ASSUME TypeOK, Placement, NEW t \in Threads, CloseFree(t)
    PROVE  Placement'
<1> PICK p \in [Slabs -> Kinds] : Placed(p)
  BY DEF Placement
<1> PICK b \in Seq(Slabs) : b = bslabs[t]
  BY DEF TypeOK, TypeBrackets
<1> PICK tab \in Seq(Slabs) : tab = slabtab
  BY Zenon DEF TypeOK, TypeWriter
<1>1. /\ slabtab' = tab \o b /\ bslabs' = [bslabs EXCEPT ![t] = <<>>]
      /\ UNCHANGED <<free, hash, pend, log, written, dealloc_list, post, ring, lost>>
  BY Zenon DEF CloseFree, client, device
<1>2. TypeStore /\ TypeWriter /\ bslabs \in [Threads -> Seq(Slabs)] /\ post \in Nat /\ post <= Len(tab)
  BY SMTT(30) DEF TypeOK, TypeBrackets, TypeWriter
<1> DEFINE Moves(r) == \E i \in 1 .. Len(b) : b[i] = r
<1>3. PICK q \in [Slabs -> Kinds] : \A r \in Slabs : q[r] = IF Moves(r) THEN "tab" ELSE p[r]
  <2> DEFINE q0 == [r \in Slabs |-> IF Moves(r) THEN "tab" ELSE p[r]]
  <2>1. q0 \in [Slabs -> Kinds] /\ \A r \in Slabs : q0[r] = IF Moves(r) THEN "tab" ELSE p[r]
    BY Zenon DEF Kinds
  <2> QED
    BY <2>1, Zenon
<1>4. Len(b) \in Nat /\ \A i \in 1 .. Len(b) : b[i] \in Slabs
  BY SMTT(30)
<1>5. \A i \in 1 .. Len(b) : p[b[i]] = "bracket"
  BY Zenon DEF Placed, BracketPlace
<1>6. \A r \in Slabs : Moves(r) => p[r] = "bracket"
  BY <1>5
<1> HIDE DEF Moves
<1>7. FreePlace(q)' /\ LostPlace(q)'
  BY <1>1, <1>3, <1>6, SameFree, SameLost, Zenon DEF Placed
<1>8. HashPlace(q)' /\ SetPlace(q)'
  BY <1>1, <1>2, <1>3, <1>6, SameHash, SameSet, Zenon DEF Placed
<1>9. RingPlace(q)'
  BY <1>1, <1>2, <1>3, <1>6, SameRing, Zenon DEF Placed
<1>10. LogPlace(q)'
  BY <1>1, <1>3, <1>6, SameUnfreed, Zenon DEF Placed
<1>11. BracketPlace(q)'
  <2>1. BracketPlace(p)
    BY DEF Placed
  <2>2. \A u \in Threads : bslabs'[u] = IF u = t THEN <<>> ELSE bslabs[u]
    BY <1>1, <1>2, Zenon
  <2>3. 1 .. Len(bslabs'[t]) = {}
    BY <2>2, SMTT(30)
  <2>4. ASSUME NEW u \in Threads, NEW i \in 1 .. Len(bslabs'[u])
        PROVE  /\ u # t /\ bslabs'[u] = bslabs[u] /\ i \in 1 .. Len(bslabs[u])
               /\ bslabs[u][i] \in Slabs /\ q[bslabs[u][i]] = "bracket"
    <3>1. u # t /\ bslabs'[u] = bslabs[u] /\ i \in 1 .. Len(bslabs[u])
      BY <2>2, <2>3, Zenon
    <3>2. bslabs[u][i] \in Slabs /\ p[bslabs[u][i]] = "bracket"
      <4>1. bslabs[u] \in Seq(Slabs)
        BY <1>2, Zenon
      <4>2. bslabs[u][i] \in Slabs
        BY <3>1, <4>1, SeqElement, Zenon
      <4> QED
        BY <2>1, <3>1, <4>2, Zenon DEF BracketPlace
    <3>3. ~Moves(bslabs[u][i])
      BY <2>1, <3>1, Zenon DEF BracketPlace, Moves
    <3> QED
      BY <1>3, <3>1, <3>2, <3>3, Zenon
  <2>5. ASSUME NEW u \in Threads, NEW v \in Threads, NEW i \in 1 .. Len(bslabs'[u]),
               NEW j \in 1 .. Len(bslabs'[v]), bslabs'[u][i] = bslabs'[v][j]
        PROVE  u = v /\ i = j
    <3>1. bslabs'[u] = bslabs[u] /\ i \in 1 .. Len(bslabs[u])
      BY <2>4, Zenon
    <3>2. bslabs'[v] = bslabs[v] /\ j \in 1 .. Len(bslabs[v])
      BY <2>4, Zenon
    <3>3. bslabs[u][i] = bslabs[v][j]
      BY <2>5, <3>1, <3>2, Zenon
    <3> QED
      <4>1. i \in 1 .. Len(bslabs[u]) /\ j \in 1 .. Len(bslabs[v])
        BY <3>1, <3>2, Zenon
      <4> QED
        BY <2>1, <3>3, <4>1, BracketApart, Zenon
  <2>6. ASSUME NEW s \in Slabs, q[s] = "bracket"
        PROVE  \E u \in Threads : \E i \in 1 .. Len(bslabs'[u]) : bslabs'[u][i] = s
    <3>1. ~Moves(s) /\ p[s] = "bracket"
      BY <1>3, <2>6, Zenon
    <3>2. PICK u \in Threads : \E i \in 1 .. Len(bslabs[u]) : bslabs[u][i] = s
      BY <2>1, <3>1, Zenon DEF BracketPlace
    <3>3. u # t
      BY <3>1, <3>2, Zenon DEF Moves
    <3> QED
      BY <2>2, <3>2, <3>3, Zenon
  <2>7. \A u \in Threads : \A i \in 1 .. Len(bslabs'[u]) : q[bslabs'[u][i]] = "bracket"
    BY <2>4
  <2>8. \A u, v \in Threads : \A i \in 1 .. Len(bslabs'[u]) : \A j \in 1 .. Len(bslabs'[v]) :
           bslabs'[u][i] = bslabs'[v][j] => u = v /\ i = j
    BY <2>5, Zenon
  <2>9. \A s \in Slabs : q[s] = "bracket" =>
           \E u \in Threads : \E i \in 1 .. Len(bslabs'[u]) : bslabs'[u][i] = s
    BY <2>6, Zenon
  <2> QED
    BY <2>7, <2>8, <2>9, Zenon DEF BracketPlace
<1>12. TabPlace(q)'
  <2> PICK A, B : A = {r \in Slabs : p[r] = "tab"} /\ B = {r \in Slabs : Moves(r)}
    BY Zenon
  <2>1. Lists(tab, post + 1 .. Len(tab), A)
    <3>1. \A k \in post + 1 .. Len(tab) : tab[k] \in Slabs
      BY <1>2, SeqElementFrom, Zenon
    <3> QED
      BY <3>1, Zenon DEF Placed, TabPlace, Lists
  <2>2. Lists(b, 1 .. Len(b), B)
    <3>1. \A k, j \in 1 .. Len(b) : b[k] = b[j] => k = j
      <4> SUFFICES ASSUME NEW k \in 1 .. Len(bslabs[t]), NEW j \in 1 .. Len(bslabs[t]),
                          bslabs[t][k] = bslabs[t][j]
                   PROVE  k = j
        BY Zenon
      <4>1. BracketPlace(p)
        BY Zenon DEF Placed
      <4> QED
        BY <4>1, BracketApart, Zenon
    <3> QED
      BY <1>4, <3>1, Zenon DEF Lists, Moves
  <2>3. A \cap B = {}
    <3>1. \A r \in A : p[r] = "tab"
      BY Zenon
    <3>2. \A r \in B : p[r] = "bracket"
      BY <1>6, Zenon
    <3> QED
      BY <3>1, <3>2, Zenon
  <2>4. post \in 0 .. Len(tab)
    BY <1>2, Zenon DEF TypeWriter
  <2>5. Lists(tab \o b, post + 1 .. Len(tab \o b), A \cup B)
    BY <2>1, <2>2, <2>3, <2>4, ListsConcat, Zenon
  <2>6. Lists(slabtab', post' + 1 .. Len(slabtab'), A \cup B)
    BY <1>1, <2>5, Zenon
  <2>7. \A r \in Slabs : r \in A \cup B <=> q[r] = "tab"
    BY <1>3, Zenon
  <2>8. \A r \in A \cup B : r \in Slabs
    BY Zenon
  <2> QED
    BY <2>6, <2>7, <2>8, Zenon DEF TabPlace, Lists
<1> QED
  BY <1>7, <1>8, <1>9, <1>10, <1>11, <1>12, Zenon DEF Placement, Placed

(* The ring lists the slabs placed there.                                   *)
LEMMA RingListed ==
    ASSUME TypeWriter, NEW p, RingPlace(p)
    PROVE  Lists(ring, 1 .. Len(ring), {r \in Slabs : p[r] = "ring"})
<1>1. \A k \in 1 .. Len(ring) : ring[k] \in Slabs
  BY SeqElement, Zenon DEF TypeWriter
<1> QED
  BY <1>1, Zenon DEF RingPlace, Lists

LEMMA RingListedP ==
    ASSUME NEW CONSTANT A, Lists(ring', 1 .. Len(ring'), A), NEW CONSTANT q,
           \A r \in Slabs : r \in A <=> q[r] = "ring",
           \A r \in A : r \in Slabs
    PROVE  RingPlace(q)'
BY Zenon DEF RingPlace, Lists

(* A slab that the log writer reclaims enters the ring or is free; one that *)
(* the ring pushes out is free.                                             *)
LEMMA ReclaimPlace ==
    ASSUME TypeOK, NEW p \in [Slabs -> Kinds], RingPlace(p), FreePlace(p),
           NEW s \in Slabs, p[s] \notin {"ring", "free"}, Reclaim(s)
    PROVE  \E q \in [Slabs -> Kinds] :
              /\ RingPlace(q)' /\ FreePlace(q)' /\ q[s] \in {"ring", "free"}
              /\ \A r \in Slabs \ {s} :
                    q[r] = p[r] \/ (q[r] \in {"ring", "free"} /\ p[r] \in {"ring", "free"})
<1> PICK A : A = {r \in Slabs : p[r] = "ring"}
  BY Zenon
<1>0. (\A r \in Slabs : r \in A <=> p[r] = "ring") /\ (\A r \in A : r \in Slabs) /\ s \notin A
  BY Zenon
<1> PICK f, r0 : f = "free" /\ r0 = "ring"
  BY Zenon
<1>1. f \in Kinds /\ r0 \in Kinds /\ f # r0
  BY DEF Kinds
<1>2. TypeWriter /\ ring \in Seq(Slabs)
  BY Zenon DEF TypeOK, TypeWriter
<1>3. Lists(ring, 1 .. Len(ring), A)
  BY <1>2, RingListed, Zenon
<1> PICK ext : ext = Append(ring, s)
  BY Zenon
<1>4. Lists(ext, 1 .. Len(ext), A \cup {s}) /\ ext \in Seq(Slabs) /\ ext # <<>>
  BY <1>0, <1>2, <1>3, ListsAppend, SeqAppend, Zenon
<1>5. \/ free' = free \cup {s} /\ ring' = ring
      \/ ring' = ext /\ free' = free
      \/ ring' = Tail(ext) /\ free' = free \cup {Head(ext)}
  BY Zenon DEF Reclaim
<1>6. ASSUME NEW h \in Slabs, h = s \/ h \in A, free' = free \cup {h},
             Lists(ring', 1 .. Len(ring'), (A \cup {s}) \ {h})
      PROVE  \E q \in [Slabs -> Kinds] :
                /\ RingPlace(q)' /\ FreePlace(q)' /\ q[s] \in {"ring", "free"}
                /\ \A r \in Slabs \ {s} :
                      q[r] = p[r] \/ (q[r] \in {"ring", "free"} /\ p[r] \in {"ring", "free"})
  <2>1. PICK q1 \in [Slabs -> Kinds] : MovedTo(q1, p, s, r0)
    BY <1>1, Moved, Zenon
  <2>2. PICK q \in [Slabs -> Kinds] : MovedTo(q, q1, h, f)
    BY <1>1, Moved, Zenon
  <2>3. \A r \in Slabs : q[r] = IF r = h THEN f ELSE IF r = s THEN r0 ELSE p[r]
    BY <2>1, <2>2, Zenon DEF MovedTo
  <2>4. FreePlace(q)'
    BY <1>0, <1>1, <1>6, <2>3, Zenon DEF FreePlace
  <2>5. RingPlace(q)'
    <3>1. \A r \in Slabs : r \in (A \cup {s}) \ {h} <=> q[r] = "ring"
      BY <1>0, <1>1, <2>3, Zenon
    <3>2. \A r \in (A \cup {s}) \ {h} : r \in Slabs
      BY <1>0, Zenon
    <3> QED
      BY <1>6, <3>1, <3>2, RingListedP, Zenon
  <2> QED
    BY <1>0, <1>6, <2>3, <2>4, <2>5, Zenon
<1>7. CASE free' = free \cup {s} /\ ring' = ring
  <2>1. (A \cup {s}) \ {s} = A
    BY <1>0, Zenon
  <2> QED
    BY <1>3, <1>6, <1>7, <2>1, Zenon
<1>8. CASE ring' = ext /\ free' = free
  <2>1. PICK q \in [Slabs -> Kinds] : MovedTo(q, p, s, r0)
    BY <1>1, Moved, Zenon
  <2>2. \A r \in Slabs : q[r] = IF r = s THEN r0 ELSE p[r]
    BY <2>1, Zenon DEF MovedTo
  <2>3. FreePlace(q)'
    BY <1>1, <1>8, <2>2, Zenon DEF FreePlace
  <2>4. RingPlace(q)'
    <3>1. \A r \in Slabs : r \in A \cup {s} <=> q[r] = "ring"
      BY <1>0, <2>2, Zenon
    <3>2. \A r \in A \cup {s} : r \in Slabs
      BY <1>0, Zenon
    <3> QED
      BY <1>4, <1>8, <3>1, <3>2, RingListedP, Zenon
  <2> QED
    BY <2>2, <2>3, <2>4, Zenon
<1>9. CASE ring' = Tail(ext) /\ free' = free \cup {Head(ext)}
  <2>1. Head(ext) \in A \cup {s}
        /\ Lists(Tail(ext), 1 .. Len(Tail(ext)), (A \cup {s}) \ {Head(ext)})
    BY <1>4, ListsTail, Zenon
  <2>2. Head(ext) \in Slabs /\ (Head(ext) = s \/ Head(ext) \in A)
    BY <1>0, <2>1, Zenon
  <2> QED
    BY <1>6, <1>9, <2>1, <2>2, Zenon
<1> QED
  BY <1>5, <1>7, <1>8, <1>9, Zenon

LEMMA PostSlabPlace == ASSUME TypeOK, Placement, PostSlab PROVE Placement'
<1> PICK p \in [Slabs -> Kinds] : Placed(p)
  BY SMTT(30) DEF Placement
<1>1. UNCHANGED <<hash, pend, log, bslabs, written, slabtab, lost>>
  BY Zenon DEF PostSlab, client, brackets, device
<1>2. TypeStore /\ TypeBrackets /\ TypeLog /\ TypeWriter
  BY DEF TypeOK
<1>3. RingPlace(p) /\ FreePlace(p) /\ LostPlace(p) /\ HashPlace(p) /\ SetPlace(p)
      /\ BracketPlace(p) /\ LogPlace(p) /\ TabPlace(p)
  BY Zenon DEF Placed
<1>4. CASE /\ post < Len(slabtab) /\ Reclaim(slabtab[post + 1])
           /\ post' = post + 1 /\ UNCHANGED dealloc_list
  <2>1. PICK s \in Slabs : s = slabtab[post + 1]
    BY <1>2, <1>4 DEF TypeWriter
  <2>2. post \in Nat /\ Len(slabtab) \in Nat /\ \A i \in 1 .. Len(slabtab) : slabtab[i] \in Slabs
    BY <1>2 DEF TypeWriter
  <2>3. post + 1 \in post + 1 .. Len(slabtab)
    BY <1>4, <2>2
  <2>4. p[s] = "tab"
    BY <1>3, <2>1, <2>3, Zenon DEF TabPlace
  <2>5. PICK q \in [Slabs -> Kinds] :
           /\ RingPlace(q)' /\ FreePlace(q)' /\ q[s] \in {"ring", "free"}
           /\ \A r \in Slabs \ {s} :
                 q[r] = p[r] \/ (q[r] \in {"ring", "free"} /\ p[r] \in {"ring", "free"})
    <3>1. p[s] \notin {"ring", "free"} /\ Reclaim(s)
      BY <1>4, <2>1, <2>4, Zenon
    <3> QED
      BY <1>3, <3>1, ReclaimPlace, Zenon
  <2>6. LostPlace(q)' /\ HashPlace(q)'
    BY <1>1, <1>2, <1>3, <2>4, <2>5, SameLost, SameHash, ZenonT(30)
  <2>7. SetPlace(q)' /\ BracketPlace(q)'
    BY <1>1, <1>2, <1>3, <2>4, <2>5, SameSet, SameBracket, ZenonT(30)
  <2>8. LogPlace(q)'
    BY <1>1, <1>3, <1>4, <2>4, <2>5, SameUnfreed, Zenon
  <2>9. TabPlace(q)'
    <3>1. \A i \in post' + 1 .. Len(slabtab') :
             /\ i \in post + 1 .. Len(slabtab) /\ i # post + 1
             /\ slabtab'[i] = slabtab[i] /\ slabtab[i] \in Slabs
      BY <1>1, <1>4, <2>2
    <3>2. \A i \in post + 1 .. Len(slabtab) : i = post + 1 \/ i \in post' + 1 .. Len(slabtab')
      BY <1>1, <1>4, <2>2, SMTT(30)
    <3>3. ASSUME NEW i \in post' + 1 .. Len(slabtab') PROVE q[slabtab'[i]] = "tab"
      <4>1. p[slabtab[i]] = "tab" /\ slabtab[i] # s
        BY <1>3, <2>1, <2>3, <3>1, ZenonT(30) DEF TabPlace
      <4> QED
        BY <2>5, <3>1, <4>1, Zenon
    <3>4. \A i, j \in post' + 1 .. Len(slabtab') : slabtab'[i] = slabtab'[j] => i = j
      BY <1>3, <3>1, Zenon DEF TabPlace
    <3>5. ASSUME NEW r \in Slabs, q[r] = "tab"
          PROVE  \E i \in post' + 1 .. Len(slabtab') : slabtab'[i] = r
      <4>1. r # s /\ p[r] = "tab"
        BY <2>5, <3>5, Zenon
      <4>2. PICK i \in post + 1 .. Len(slabtab) : slabtab[i] = r
        BY <1>3, <4>1, Zenon DEF TabPlace
      <4> QED
        BY <1>1, <2>1, <3>2, <4>1, <4>2, Zenon
    <3> QED
      BY <3>3, <3>4, <3>5, Zenon DEF TabPlace
  <2> QED
    BY <2>5, <2>6, <2>7, <2>8, <2>9, Zenon DEF Placement, Placed
<1>5. CASE \E i \in dealloc_list :
              /\ Reclaim(log[i].old) /\ dealloc_list' = dealloc_list \ {i} /\ UNCHANGED post
  <2>1. PICK i \in dealloc_list :
           Reclaim(log[i].old) /\ dealloc_list' = dealloc_list \ {i} /\ UNCHANGED post
    BY <1>5, Zenon
  <2>2. PICK s \in Slabs : s = log[i].old
    BY <1>2 DEF TypeLog
  <2>3. i \in Unfreed
    BY Zenon DEF Unfreed
  <2>4. p[s] = "log"
    BY <1>3, <2>2, <2>3, Zenon DEF LogPlace
  <2>5. PICK q \in [Slabs -> Kinds] :
           /\ RingPlace(q)' /\ FreePlace(q)' /\ q[s] \in {"ring", "free"}
           /\ \A r \in Slabs \ {s} :
                 q[r] = p[r] \/ (q[r] \in {"ring", "free"} /\ p[r] \in {"ring", "free"})
    <3>1. p[s] \notin {"ring", "free"} /\ Reclaim(s)
      BY <2>1, <2>2, <2>4, Zenon
    <3> QED
      BY <1>3, <3>1, ReclaimPlace, Zenon
  <2>6. LostPlace(q)' /\ HashPlace(q)'
    BY <1>1, <1>2, <1>3, <2>4, <2>5, SameLost, SameHash, ZenonT(30)
  <2>7. SetPlace(q)' /\ BracketPlace(q)'
    BY <1>1, <1>2, <1>3, <2>4, <2>5, SameSet, SameBracket, ZenonT(30)
  <2>8. TabPlace(q)'
    BY <1>1, <1>2, <1>3, <2>1, <2>4, <2>5, SameTab, Zenon
  <2>9. LogPlace(q)'
    <3>1. Unfreed' = Unfreed \ {i}
      <4>1. written \in Nat /\ dealloc_list \subseteq 1 .. written
        BY <1>2 DEF TypeLog
      <4>2. i \notin written + 1 .. Len(log)
        BY <4>1
      <4>3. Unfreed' = (dealloc_list \ {i}) \cup {j \in written + 1 .. Len(log) : Freed(log[j])}
        BY <1>1, <2>1, Zenon DEF Unfreed, Freed
      <4> QED
        BY <4>2, <4>3, Zenon DEF Unfreed
    <3>2. \A j \in Unfreed' : j \in Unfreed /\ j # i /\ log'[j].old = log[j].old
      BY <1>1, <3>1, Zenon
    <3>3. ASSUME NEW j \in Unfreed' PROVE log'[j].old \in Slabs /\ q[log'[j].old] = "log"
      <4>1. log[j].old \in Slabs /\ p[log[j].old] = "log" /\ log[j].old # s
        BY <1>3, <2>2, <2>3, <3>2, ZenonT(30) DEF LogPlace
      <4> QED
        BY <2>5, <3>2, <4>1, Zenon
    <3>4. \A j, l \in Unfreed' : log'[j].old = log'[l].old => j = l
      BY <1>3, <3>2, ZenonT(30) DEF LogPlace
    <3>5. ASSUME NEW r \in Slabs, q[r] = "log" PROVE \E j \in Unfreed' : log'[j].old = r
      <4>1. r # s /\ p[r] = "log"
        BY <2>5, <3>5, Zenon
      <4>2. PICK j \in Unfreed : log[j].old = r
        BY <1>3, <4>1, Zenon DEF LogPlace
      <4> QED
        BY <1>1, <2>2, <3>1, <4>1, <4>2
    <3> QED
      BY <3>3, <3>4, <3>5, Zenon DEF LogPlace
  <2> QED
    BY <2>5, <2>6, <2>7, <2>8, <2>9, Zenon DEF Placement, Placed
<1> QED
  BY <1>4, <1>5, Zenon DEF PostSlab

LEMMA LogAppended ==
    ASSUME TypeLog, NEW r, r.old = None, IsAppend(log', log, r)
    PROVE  /\ Len(log') = Len(log) + 1 /\ log'[Len(log) + 1].old = None
           /\ \A i \in 1 .. Len(log) : log'[i] = log[i]
BY DEF TypeLog, IsAppend

LEMMA After == ASSUME NEW n \in Nat, NEW d \in Nat, NEW l \in d + 1 .. n PROVE l \in 1 .. n
OBVIOUS

LEMMA Beyond == ASSUME NEW n \in Nat, NEW d \in Nat PROVE n + 1 \notin d + 1 .. n
OBVIOUS

LEMMA PostEmpty ==
    ASSUME TypeWriter, post = Len(slabtab), slabtab' = <<>>, post' = 0
    PROVE  post + 1 .. Len(slabtab) = {} /\ post' + 1 .. Len(slabtab') = {}
BY DEF TypeWriter

LEMMA NextPlacement == ASSUME TypeOK, Placement, [Next]_vars PROVE Placement'
<1> PICK p \in [Slabs -> Kinds] : Placed(p)
  BY DEF Placement
<1>0. TypeStore /\ TypeBrackets /\ TypeLog /\ TypeWriter
  BY Zenon DEF TypeOK
<1>1. ASSUME UNCHANGED <<free, lost, hash, pend, ring, bslabs>>, LogPlace(p)', TabPlace(p)'
      PROVE  Placement'
  <2>1. FreePlace(p)' /\ LostPlace(p)' /\ HashPlace(p)' /\ SetPlace(p)'
    BY <1>0, <1>1, SameFree, SameLost, SameHash, SameSet, ZenonT(30) DEF Placed
  <2>2. RingPlace(p)' /\ BracketPlace(p)'
    BY <1>0, <1>1, SameRing, SameBracket, ZenonT(30) DEF Placed
  <2> QED
    BY <1>1, <2>1, <2>2, Zenon DEF Placement, Placed
<1>2. ASSUME UNCHANGED <<slabtab, post>> PROVE TabPlace(p)'
  <2>1. TabPlace(p)
    BY DEF Placed
  <2> QED
    BY <1>0, <1>2, <2>1, SameTab, Zenon
<1>3. ASSUME UNCHANGED <<log, written, dealloc_list>> PROVE LogPlace(p)'
  BY <1>3, SameUnfreed, Zenon DEF Placed
<1>4. ASSUME NEW t \in Threads, OpenBracket(t) PROVE Placement'
  BY <1>1, <1>2, <1>3, <1>4, Zenon DEF OpenBracket, client, device, reclaim
<1>5. ASSUME NEW t \in Threads, CloseBracket(t) PROVE Placement'
  <2>1. /\ UNCHANGED <<free, lost, hash, pend, ring, bslabs, slabtab, post, written, dealloc_list>>
        /\ \/ UNCHANGED log
           \/ log' = Append(log, [key |-> None, new |-> None, ver |-> 0, old |-> None,
                                  oldver |-> 0, br |-> -bracket[t]])
    BY <1>5 DEF CloseBracket, client, device, reclaim
  <2>2. CASE UNCHANGED log
    BY <1>1, <1>2, <1>3, <2>1, <2>2, Zenon
  <2>3. CASE log' = Append(log, [key |-> None, new |-> None, ver |-> 0, old |-> None,
                                 oldver |-> 0, br |-> -bracket[t]])
    <3> DEFINE r == [key |-> None, new |-> None, ver |-> 0, old |-> None,
                     oldver |-> 0, br |-> -bracket[t]]
    <3>1. r.old = None /\ IsAppend(log', log, r)
      BY <2>3, Zenon DEF IsAppend
    <3> HIDE DEF r
    <3>2. log \in Seq(LogRec) /\ Len(log) \in Nat /\ written \in Nat /\ written <= Len(log)
      BY <1>0, LogLength
    <3>3. /\ Len(log') = Len(log) + 1 /\ log'[Len(log) + 1].old = None
          /\ \A i \in 1 .. Len(log) : log'[i] = log[i]
      BY <1>0, <3>1, LogAppended, Zenon
    <3>4. ASSUME NEW i PROVE i \in written + 1 .. Len(log) /\ Freed(log[i])
                             <=> i \in written + 1 .. Len(log) + 1 /\ Freed(log'[i])
      <4>1. CASE i = Len(log) + 1
        <5>1. Len(log) + 1 \notin written + 1 .. Len(log)
          BY <3>2, Beyond, Zenon
        <5>2. ~Freed(log'[Len(log) + 1])
          BY <3>3, Zenon DEF Freed
        <5> QED
          BY <4>1, <5>1, <5>2, Zenon
      <4>2. CASE i # Len(log) + 1
        <5>1. i \in written + 1 .. Len(log) <=> i \in written + 1 .. Len(log) + 1
          BY <3>2, <4>2
        <5>2. i \in written + 1 .. Len(log) => log'[i] = log[i]
          BY <3>2, <3>3, After, Zenon
        <5> QED
          BY <5>1, <5>2, Zenon
      <4> QED
        BY <4>1, <4>2, Zenon
    <3>5. Unfreed' = dealloc_list \cup {i \in written + 1 .. Len(log) + 1 : Freed(log'[i])}
      BY <2>1, <3>3, Zenon DEF Unfreed, Freed
    <3>6. Unfreed' = Unfreed
      BY <3>4, <3>5, Zenon DEF Unfreed
    <3>7. \A i \in Unfreed : log'[i] = log[i]
      BY <3>3, UnfreedType, Zenon
    <3>8. LogPlace(p)'
      BY <3>6, <3>7, SameLog, Zenon DEF Placed
    <3> QED
      BY <1>1, <1>2, <2>1, <3>8, Zenon
  <2> QED
    BY <2>1, <2>2, <2>3, Zenon
<1>6. CASE FlogSync \/ LogSync \/ DeviceSync \/ UNCHANGED vars
  BY <1>1, <1>2, <1>3, <1>6, Zenon
     DEF FlogSync, LogSync, DeviceSync, vars, client, brackets, device, reclaim
<1>7. CASE WriteLog
  <2>1. /\ UNCHANGED <<free, lost, hash, pend, ring, bslabs, slabtab, post, log>>
        /\ written' = WriteEnd
        /\ dealloc_list' = dealloc_list \cup {i \in written + 1 .. WriteEnd : Freed(log[i])}
    BY <1>7, Zenon DEF WriteLog, client, brackets
  <2>2. WriteEnd \in written .. Len(log) /\ written \in Nat /\ Len(log) \in Nat
    BY <1>0, WriteEndBounds DEF TypeLog
  <2> HIDE DEF WriteEnd
  <2>3. ASSUME NEW i PROVE i \in written + 1 .. Len(log) <=>
                           i \in written + 1 .. WriteEnd \/ i \in WriteEnd + 1 .. Len(log)
    BY <2>2
  <2>4. Unfreed' = dealloc_list' \cup {i \in WriteEnd + 1 .. Len(log) : Freed(log[i])}
    BY <2>1, Zenon DEF Unfreed, Freed
  <2>5. Unfreed' = Unfreed
    BY <2>1, <2>3, <2>4, Zenon DEF Unfreed
  <2>6. LogPlace(p)'
    BY <2>1, <2>5, SameLog, Zenon DEF Placed
  <2> QED
    BY <1>1, <1>2, <2>1, <2>6, Zenon
<1>8. CASE PostDone
  <2>1. /\ UNCHANGED <<free, lost, hash, pend, ring, bslabs, log, written, dealloc_list>>
        /\ post = Len(slabtab) /\ slabtab' = <<>> /\ post' = 0
    BY <1>8 DEF PostDone, client, brackets, device
  <2>2. post + 1 .. Len(slabtab) = {} /\ post' + 1 .. Len(slabtab') = {}
    BY <1>0, <2>1, PostEmpty, Zenon
  <2>3. TabPlace(p)'
    BY <2>2, Zenon DEF Placed, TabPlace
  <2> QED
    BY <1>1, <1>3, <2>1, <2>3, Zenon
<1>9. ASSUME NEW t \in Threads, Client(t) PROVE Placement'
  BY <1>4, <1>5, <1>9, SetDataPlace, SetFailsPlace, DeletePlace, SetLogPlace,
     CloseFreePlace, Zenon DEF Client
<1> QED
  BY <1>6, <1>7, <1>8, <1>9, PostSlabPlace, Zenon DEF Next, Writer
-----------------------------------------------------------------------------
(* What a recovery needs.                                                    *)

(* The object of record j is found if what is durable survives and nothing  *)
(* that overwrites it does ...                                              *)
NeedLive(j) ==
    log[j].new # None /\ \A l \in j + 1 .. durable : log[l].key # log[j].key

(* ... and the bracket of record i is undone.                               *)
NeedUndo(i) ==
    /\ log[i].old # None /\ log[i].br # 0
    /\ \A l \in i + 1 .. durable : log[l].br # -log[i].br

(* Such an object is in its slab, which the hash table has or the record    *)
(* that overwrote it, not durable yet, names as its old one.                *)
LiveKept ==
    \A j \in 1 .. Len(log) : NeedLive(j) =>
       /\ log[j].key \in Keys /\ data[log[j].new] = log[j].ver
       /\ \/ hash[log[j].key] = log[j].new
          \/ \E l \in durable + 1 .. Len(log) :
                l > j /\ log[l].key = log[j].key /\ log[l].old = log[j].new

(* An old version is in its slab, which the open bracket has or has lost.   *)
UndoKept ==
    \A i \in 1 .. Len(log) : NeedUndo(i) =>
       /\ data[log[i].old] = log[i].oldver
       /\ \/ log[i].old \in lost
          \/ \E t \in Threads : /\ bracket[t] = log[i].br
                                /\ \E m \in 1 .. Len(bslabs[t]) : bslabs[t][m] = log[i].old

LEMMA Within ==
    ASSUME NEW n \in Nat, NEW j \in 1 .. n, NEW d \in Nat, NEW e \in Nat, d <= e, d <= n
    PROVE  \A l \in j + 1 .. d : l \in j + 1 .. e /\ l \in 1 .. n
OBVIOUS

LEMMA Later ==
    ASSUME NEW n \in Nat, NEW j \in Nat, NEW d \in Nat, NEW l \in 1 .. n, l > j, l \notin j + 1 .. d
    PROVE  l \in d + 1 .. n
OBVIOUS

LEMMA Newest ==
    ASSUME NEW k \in Nat, NEW j \in 1 .. k, NEW d \in Nat, d <= k
    PROVE  k + 1 \in d + 1 .. k + 1 /\ k + 1 > j /\ j \in Nat
OBVIOUS

LEMMA Closes ==
    ASSUME NEW n \in Nat, NEW i \in 1 .. n, NEW c \in Nat, NEW d \in Nat, d <= n, c <= d,
           i \notin c + 1 .. n, i # c
    PROVE  c \in i + 1 .. d
OBVIOUS

LEMMA Upto == ASSUME NEW n \in Nat, NEW m \in Nat, n <= m PROVE \A i \in 1 .. n : i \in 1 .. m
OBVIOUS

LEMMA LogTypes == ASSUME TypeOK PROVE Len(log) \in Nat /\ durable \in Nat /\ written \in Nat
BY DEF TypeOK, TypeLog

LEMMA BracketType ==
    ASSUME TypeOK, NEW t \in Threads PROVE bracket[t] \in Nat /\ closing[t] \in Nat
BY DEF TypeOK, TypeBrackets, TypeLog

LEMMA InitNeeded == Init => LiveKept /\ UndoKept
<1> SUFFICES ASSUME Init PROVE LiveKept /\ UndoKept
  OBVIOUS
<1>1. log = <<>>
  BY Zenon DEF Init
<1>2. 1 .. Len(<<>>) = {}
  BY SMTT(30), ZenonT(30)
<1> QED
  BY <1>1, <1>2, Zenon DEF LiveKept, UndoKept

LEMMA LogSlabs ==
    ASSUME TypeOK, NEW i \in 1 .. Len(log)
    PROVE  /\ log[i].old # None => log[i].old \in Slabs
           /\ log[i].new # None => log[i].new \in Slabs
           /\ log[i].br \in Int
<1>1. log[i] \in LogRec
  BY SeqElement, Zenon DEF TypeOK, TypeLog
<1> QED
  BY <1>1, Zenon DEF LogRec

(* A slab that is needed is not free.                                       *)
LEMMA UndoHeld ==
    ASSUME TypeOK, Placement, UndoKept, NEW i \in 1 .. Len(log), NeedUndo(i)
    PROVE  log[i].old \notin free
<1> PICK p \in [Slabs -> Kinds] : Placed(p)
  BY DEF Placement
<1>1. log[i].old \in Slabs
  BY LogSlabs, Zenon DEF NeedUndo
<1>2. log[i].old \in lost \/ \E t \in Threads : \E m \in 1 .. Len(bslabs[t]) : bslabs[t][m] = log[i].old
  BY Zenon DEF UndoKept
<1>3. p[log[i].old] \in {"lost", "bracket"}
  <2>1. CASE log[i].old \in lost
    BY <1>1, <2>1, Zenon DEF Placed, LostPlace
  <2>2. CASE \E t \in Threads : \E m \in 1 .. Len(bslabs[t]) : bslabs[t][m] = log[i].old
    <3>0. PICK t \in Threads : \E m \in 1 .. Len(bslabs[t]) : bslabs[t][m] = log[i].old
      BY <2>2, Zenon
    <3>1. PICK m \in 1 .. Len(bslabs[t]) : bslabs[t][m] = log[i].old
      BY <3>0, Zenon
    <3>2. p[bslabs[t][m]] = "bracket"
      BY Zenon DEF Placed, BracketPlace
    <3> QED
      BY <3>1, <3>2, Zenon
  <2> QED
    BY <1>2, <2>1, <2>2, Zenon
<1> QED
  BY <1>1, <1>3, Zenon DEF Placed, FreePlace

LEMMA OldHeld ==
    ASSUME TypeOK, Placement, ListKept, UndoKept, NEW l \in durable + 1 .. Len(log),
           log[l].old # None
    PROVE  log[l].old \notin free
<1>1. durable \in Nat /\ Len(log) \in Nat /\ written \in Nat
  BY LogTypes, Zenon
<1>2. l \in 1 .. Len(log)
  BY <1>1, After, Zenon
<1>3. CASE Freed(log[l])
  <2> PICK p \in [Slabs -> Kinds] : Placed(p)
    BY DEF Placement
  <2>1. l \in durable + 1 .. written \/ l \in written + 1 .. Len(log)
    BY <1>1
  <2>2. l \in Unfreed
    BY <1>3, <2>1, Zenon DEF ListKept, Unfreed
  <2>3. log[l].old \in Slabs /\ p[log[l].old] = "log"
    BY <2>2, Zenon DEF Placed, LogPlace
  <2> QED
    BY <2>3, Zenon DEF Placed, FreePlace
<1>4. CASE ~Freed(log[l])
  <2>1. l + 1 .. durable = {}
    BY <1>1
  <2>2. NeedUndo(l)
    BY <1>4, <2>1, Zenon DEF NeedUndo, Freed
  <2> QED
    BY <1>2, <2>2, UndoHeld, Zenon
<1> QED
  BY <1>3, <1>4

LEMMA LiveHeld ==
    ASSUME TypeOK, Placement, ListKept, LiveKept, UndoKept,
           NEW j \in 1 .. Len(log), NeedLive(j)
    PROVE  log[j].new \notin free
<1>1. log[j].new \in Slabs /\ log[j].key \in Keys /\ log[j].new # None
  BY LogSlabs, Zenon DEF NeedLive, LiveKept
<1>2. CASE hash[log[j].key] = log[j].new
  <2> PICK p \in [Slabs -> Kinds] : Placed(p)
    BY Zenon DEF Placement
  <2>1. p[log[j].new] = "hash"
    BY <1>1, <1>2, Zenon DEF Placed, HashPlace
  <2> QED
    BY <1>1, <2>1, Zenon DEF Placed, FreePlace
<1>3. CASE \E l \in durable + 1 .. Len(log) : log[l].old = log[j].new
  BY <1>1, <1>3, OldHeld, Zenon
<1> QED
  BY <1>2, <1>3, Zenon DEF LiveKept

(* Only free slabs are written.                                             *)
LEMMA DataStep ==
    ASSUME TypeOK, [Next]_vars
    PROVE  /\ \A s \in Slabs \ free : data'[s] = data[s]
           /\ lost \subseteq lost'
<1>1. ASSUME NEW t \in Threads, NEW k \in Keys, NEW s \in Slabs, SetData(t, k, s)
      PROVE  (\A r \in Slabs \ free : data'[r] = data[r]) /\ lost \subseteq lost'
  <2>1. s \in free /\ data' = [data EXCEPT ![s] = ver + 1] /\ lost' = lost
    BY <1>1, Zenon DEF SetData
  <2> QED
    BY <2>1, Zenon DEF TypeOK, TypeStore
<1>2. ASSUME NEW t \in Threads, Client(t),
             ~\E k \in Keys, s \in Slabs : SetData(t, k, s)
      PROVE  data' = data /\ lost \subseteq lost'
  <2>1. CASE SetLog(t)
    BY <2>1, Zenon DEF SetLog, LogRecord
  <2>2. CASE \E k \in Keys : Delete(t, k)
    BY <2>2, Zenon DEF Delete, LogRecord
  <2> QED
    BY <1>2, <2>1, <2>2, ZenonT(30) DEF Client, SetFails, SetNoEntry, OpenBracket, CloseBracket, CloseFree
<1>3. CASE FlogSync \/ LogSync \/ Writer \/ UNCHANGED vars
  BY <1>3, Zenon DEF FlogSync, LogSync, Writer, WriteLog, DeviceSync, PostSlab, PostDone, vars
<1> QED
  BY <1>1, <1>2, <1>3, Zenon DEF Next

(* What a record says of the slabs when log_write_internal logs it: k is    *)
(* its key, and n its position.                                             *)
Logged(k, n) ==
    /\ Len(log') = n /\ durable' = durable /\ log'[n].key = k /\ log'[n].old = hash[k]
    /\ \A j \in Keys : hash'[j] = IF j = k THEN log'[n].new ELSE hash[j]
    /\ log'[n].new # None => data'[log'[n].new] = log'[n].ver
    /\ log'[n].old # None => data'[log'[n].old] = log'[n].oldver
    /\ log'[n].old # None /\ log'[n].br # 0 =>
          \/ log'[n].old \in lost'
          \/ \E t \in Threads : /\ bracket'[t] = log'[n].br
                                /\ \E m \in 1 .. Len(bslabs'[t]) : bslabs'[t][m] = log'[n].old

LEMMA RecordLogged ==
    ASSUME TypeOK, NEW t \in Threads, NEW k \in Keys, NEW new \in Slabs \cup {None},
           LogRecord(t, k, new), hash' = [hash EXCEPT ![k] = new],
           UNCHANGED <<data, bracket, durable>>
    PROVE  Logged(k, Len(log) + 1)
<1> DEFINE n == Len(log) + 1
           r == [key |-> k, new |-> new,
                 ver |-> IF new = None THEN 0 ELSE data[new],
                 old |-> hash[k],
                 oldver |-> IF hash[k] = None THEN 0 ELSE data[hash[k]],
                 br |-> IF Vdc THEN bracket[t] ELSE 0]
<1>1. log' = Append(log, r)
  BY ZenonT(30) DEF LogRecord
<1>2. /\ r.key = k /\ r.new = new /\ r.old = hash[k]
      /\ r.new # None => r.ver = data[new]
      /\ r.old # None => r.oldver = data[hash[k]]
      /\ r.br # 0 => r.br = bracket[t]
      /\ r.br = IF Vdc THEN bracket[t] ELSE 0
  BY Zenon
<1> HIDE DEF r
<1>3. Len(log') = n /\ log'[n] = r
  BY <1>1 DEF TypeOK, TypeLog
<1> HIDE DEF n
<1>4. \A j \in Keys : hash'[j] = IF j = k THEN new ELSE hash[j]
  BY Zenon DEF TypeOK, TypeStore
<1>5. ASSUME r.old # None, r.br # 0
      PROVE  r.old \in lost' \/ (bracket'[t] = r.br /\ \E m \in 1 .. Len(bslabs'[t]) : bslabs'[t][m] = r.old)
  <2>1. hash[k] \in Slabs /\ bslabs \in [Threads -> Seq(Slabs)]
    BY <1>2, <1>5, Zenon DEF TypeOK, TypeStore, TypeBrackets
  <2>2. CASE Len(bslabs[t]) = BracketMax
    BY <1>2, <1>5, <2>2, Zenon DEF LogRecord
  <2>3. CASE Len(bslabs[t]) # BracketMax
    <3>1. bslabs' = [bslabs EXCEPT ![t] = Append(bslabs[t], hash[k])]
      BY <1>2, <1>5, <2>3, Zenon DEF LogRecord
    <3>2. bslabs'[t] = Append(bslabs[t], hash[k])
      BY <2>1, <3>1, Zenon
    <3>3. /\ Len(bslabs'[t]) \in 1 .. Len(bslabs'[t])
          /\ bslabs'[t][Len(bslabs'[t])] = hash[k]
      <4>1. bslabs[t] \in Seq(Slabs) /\ IsAppend(bslabs'[t], bslabs[t], hash[k])
        BY <2>1, <3>2, Zenon DEF IsAppend
      <4>2. Extends(bslabs'[t], bslabs[t], hash[k], Slabs)
        BY <2>1, <4>1, Appended, Zenon
      <4> QED
        BY <4>2, OneLonger, Zenon DEF Extends
    <3> QED
      BY <1>2, <1>5, <3>3, Zenon
  <2> QED
    BY <2>2, <2>3, Zenon
<1>6. Logged(k, n)
  BY <1>2, <1>3, <1>4, <1>5, Zenon DEF Logged
<1> QED
  BY <1>6, Zenon DEF n

(* The three things that a step can do to the log and the hash table.       *)
LEMMA LogStep ==
    ASSUME TypeOK, [Next]_vars
    PROVE  \/ UNCHANGED <<log, hash>>
           \/ /\ Len(log') = Len(log) + 1 /\ UNCHANGED hash
              /\ log'[Len(log) + 1].new = None /\ log'[Len(log) + 1].old = None
           \/ \E k \in Keys : Logged(k, Len(log) + 1)
<1>1. ASSUME NEW t \in Threads, CloseBracket(t)
      PROVE  \/ UNCHANGED <<log, hash>>
             \/ /\ Len(log') = Len(log) + 1 /\ UNCHANGED hash
                /\ log'[Len(log) + 1].new = None /\ log'[Len(log) + 1].old = None
  <2>1. UNCHANGED hash
    BY <1>1, Zenon DEF CloseBracket, client
  <2>2. CASE level[t] > 1
    BY <1>1, <2>1, <2>2, Zenon DEF CloseBracket
  <2>3. CASE ~(level[t] > 1)
    <3>1. PICK r : log' = Append(log, r) /\ r.new = None /\ r.old = None
      <4> DEFINE r == [key |-> None, new |-> None, ver |-> 0, old |-> None, oldver |-> 0,
                       br |-> -bracket[t]]
      <4>1. r.new = None /\ r.old = None
        OBVIOUS
      <4>2. log' = Append(log, r)
        BY <1>1, <2>3, Zenon DEF CloseBracket
      <4> HIDE DEF r
      <4> QED
        BY <4>1, <4>2, Zenon
    <3> QED
      BY <2>1, <3>1, SMTT(30), ZenonT(30) DEF TypeOK, TypeLog
  <2> QED
    BY <2>2, <2>3, Zenon
<1>2. ASSUME NEW t \in Threads, SetLog(t) PROVE \E k \in Keys : Logged(k, Len(log) + 1)
  <2>1. PICK k \in Keys, n \in Slabs : k = pend[t].key /\ n = pend[t].slab
    BY <1>2, PendType, Zenon DEF SetLog
  <2>2. LogRecord(t, k, n) /\ hash' = [hash EXCEPT ![k] = n] /\ UNCHANGED <<data, bracket, durable>>
    BY <1>2, <2>1, Zenon DEF SetLog, device
  <2> QED
    BY <2>2, RecordLogged, Zenon
<1>3. ASSUME NEW t \in Threads, NEW k \in Keys, Delete(t, k) PROVE Logged(k, Len(log) + 1)
  <2> PICK n \in Slabs \cup {None} : n = None
    BY Zenon
  <2>1. LogRecord(t, k, n) /\ hash' = [hash EXCEPT ![k] = n] /\ UNCHANGED <<data, bracket, durable>>
    BY <1>3, Zenon DEF Delete, device
  <2> QED
    BY <2>1, RecordLogged, ZenonT(30)
<1>4. ASSUME NEW t \in Threads,
             \/ \E k \in Keys, s \in Slabs : SetData(t, k, s)
             \/ SetFails(t) \/ SetNoEntry(t) \/ OpenBracket(t) \/ CloseFree(t)
      PROVE  UNCHANGED <<log, hash>>
  BY <1>4, Zenon DEF SetData, SetFails, SetNoEntry, OpenBracket, CloseFree, client
<1>5. CASE FlogSync \/ LogSync \/ Writer \/ UNCHANGED vars
  BY <1>5, Zenon DEF FlogSync, LogSync, Writer, WriteLog, DeviceSync, PostSlab, PostDone, vars, client
<1> QED
  BY <1>1, <1>2, <1>3, <1>4, <1>5, Zenon DEF Next, Client

LEMMA NextLive ==
    ASSUME TypeOK, Placement, ListKept, LiveKept, UndoKept, [Next]_vars
    PROVE  LiveKept'
<1> DEFINE n == Len(log) + 1
<1> SUFFICES ASSUME NEW j \in 1 .. Len(log'), NeedLive(j)'
             PROVE  /\ log'[j].key \in Keys /\ data'[log'[j].new] = log'[j].ver
                    /\ \/ hash'[log'[j].key] = log'[j].new
                       \/ \E l \in durable' + 1 .. Len(log') :
                             l > j /\ log'[l].key = log'[j].key /\ log'[l].old = log'[j].new
  BY Zenon DEF LiveKept
<1>1. /\ log'[j].new # None
      /\ \A l \in j + 1 .. durable' : log'[l].key # log'[j].key
  BY Zenon DEF NeedLive
<1>2. CASE j \in 1 .. Len(log)
  <2>1. log'[j] = log[j]
    BY <1>2, LogGrows, Zenon
  <2>2. \A l \in j + 1 .. durable : l \in j + 1 .. durable' /\ log'[l] = log[l]
    <3>1. /\ Len(log) \in Nat /\ durable \in Nat /\ durable' \in Nat
          /\ durable <= durable' /\ durable <= Len(log)
          /\ \A i \in 1 .. Len(log) : log'[i] = log[i]
      BY LogGrows, Zenon
    <3> QED
      BY <1>2, <3>1, Within, Zenon
  <2>3. NeedLive(j)
    BY <1>1, <2>1, <2>2, Zenon DEF NeedLive
  <2>4. /\ log[j].key \in Keys /\ data[log[j].new] = log[j].ver
        /\ \/ hash[log[j].key] = log[j].new
           \/ \E l \in durable + 1 .. Len(log) :
                 l > j /\ log[l].key = log[j].key /\ log[l].old = log[j].new
    BY <1>2, <2>3, Zenon DEF LiveKept
  <2>5. log[j].new \in Slabs \ free
    BY <1>1, <1>2, <2>1, <2>3, LogSlabs, LiveHeld, Zenon
  <2>6. data'[log[j].new] = log[j].ver
    BY <2>4, <2>5, DataStep, Zenon
  <2>7. CASE \E l \in durable + 1 .. Len(log) :
                l > j /\ log[l].key = log[j].key /\ log[l].old = log[j].new
    <3>1. PICK l \in durable + 1 .. Len(log) :
             l > j /\ log[l].key = log[j].key /\ log[l].old = log[j].new
      BY <2>7, Zenon
    <3>2. log'[l] = log[l] /\ l \in 1 .. Len(log')
      <4>1. /\ durable \in Nat /\ Len(log) \in Nat /\ Len(log') \in Nat /\ Len(log) <= Len(log')
            /\ \A k \in 1 .. Len(log) : log'[k] = log[k]
        BY LogGrows, Zenon
      <4> QED
        BY <4>1, After, Upto, Zenon
    <3>3. l \notin j + 1 .. durable'
      BY <1>1, <2>1, <3>1, <3>2, Zenon
    <3>4. l \in durable' + 1 .. Len(log')
      <4>1. Len(log') \in Nat /\ durable' \in Nat /\ Len(log) \in Nat /\ durable \in Nat
            /\ durable <= Len(log)
        BY LogGrows, Zenon
      <4>2. j \in Nat
        BY <1>2, <4>1, Newest, Zenon
      <4> QED
        BY <3>1, <3>2, <3>3, <4>1, <4>2, Later, Zenon
    <3> QED
      BY <2>1, <2>4, <2>6, <3>1, <3>2, <3>4, Zenon
  <2>8. CASE hash[log[j].key] = log[j].new
    <3>1. CASE hash'[log[j].key] = hash[log[j].key]
      BY <2>1, <2>4, <2>6, <2>8, <3>1, Zenon
    <3>2. CASE hash'[log[j].key] # hash[log[j].key]
      <4>1. PICK k \in Keys : Logged(k, n)
        BY <3>2, LogStep, Zenon
      <4>2. k = log[j].key
        BY <2>4, <3>2, <4>1, Zenon DEF Logged
      <4>3. Len(log') = n /\ durable' = durable /\ log'[n].key = log[j].key /\ log'[n].old = log[j].new
        BY <2>8, <4>1, <4>2, Zenon DEF Logged
      <4>4. n \in durable' + 1 .. Len(log') /\ n > j
        <5>1. Len(log) \in Nat /\ durable \in Nat /\ durable <= Len(log)
          BY LogGrows, Zenon
        <5> QED
          BY <1>2, <4>3, <5>1, Newest, Zenon
      <4> QED
        BY <2>1, <2>4, <2>6, <4>3, <4>4, Zenon
    <3> QED
      BY <3>1, <3>2, Zenon
  <2> QED
    BY <2>4, <2>7, <2>8, ZenonT(30)
<1>3. CASE j \notin 1 .. Len(log)
  <2>1. log' # log
    BY <1>3, Zenon
  <2>2. Len(log') = n
    BY <2>1, LogStep, Zenon DEF Logged
  <2>3. j = n
    BY <1>3, <2>2, LogGrows
  <2>4. PICK k \in Keys : Logged(k, n)
    BY <1>1, <2>1, <2>3, LogStep, Zenon
  <2> HIDE DEF n
  <2> QED
    BY <1>1, <2>3, <2>4, Zenon DEF Logged
<1> QED
  BY <1>2, <1>3, Zenon

(* A bracket keeps its id and its slabs until it is closed.                 *)
LEMMA BracketStep ==
    ASSUME TypeOK, [Next]_vars, NEW u \in Threads, bracket[u] # 0,
           NEW m \in 1 .. Len(bslabs[u])
    PROVE  \/ CloseFree(u)
           \/ /\ bracket'[u] = bracket[u] /\ m \in 1 .. Len(bslabs'[u])
              /\ bslabs'[u][m] = bslabs[u][m]
<1>1. CASE UNCHANGED <<bracket, bslabs>>
  BY <1>1, Zenon
<1>2. bslabs \in [Threads -> Seq(Slabs)]
  BY Zenon DEF TypeOK, TypeBrackets
<1>3. ASSUME NEW t \in Threads, NEW k \in Keys, NEW new \in Slabs \cup {None},
             LogRecord(t, k, new), UNCHANGED bracket
      PROVE  /\ bracket'[u] = bracket[u] /\ m \in 1 .. Len(bslabs'[u])
             /\ bslabs'[u][m] = bslabs[u][m]
  <2>1. \/ UNCHANGED bslabs
        \/ hash[k] \in Slabs /\ bslabs' = [bslabs EXCEPT ![t] = Append(bslabs[t], hash[k])]
    BY <1>3, Zenon DEF LogRecord, TypeOK, TypeStore
  <2>2. CASE UNCHANGED bslabs
    BY <1>3, <2>2, Zenon
  <2>3. CASE hash[k] \in Slabs /\ bslabs' = [bslabs EXCEPT ![t] = Append(bslabs[t], hash[k])]
    <3>1. CASE u = t
      <4>1. bslabs'[u] = Append(bslabs[u], hash[k])
        BY <1>2, <2>3, <3>1, Zenon
      <4> QED
        BY <1>2, <1>3, <2>3, <4>1
    <3>2. CASE u # t
      <4>1. bslabs'[u] = bslabs[u]
        BY <1>2, <2>3, <3>2, Zenon
      <4> QED
        BY <1>3, <4>1, Zenon
    <3> QED
      BY <3>1, <3>2, Zenon
  <2> QED
    BY <2>1, <2>2, <2>3, Zenon
<1>4. ASSUME NEW t \in Threads, SetLog(t)
      PROVE  /\ bracket'[u] = bracket[u] /\ m \in 1 .. Len(bslabs'[u])
             /\ bslabs'[u][m] = bslabs[u][m]
  <2>1. PICK k \in Keys, n \in Slabs : k = pend[t].key /\ n = pend[t].slab
    BY <1>4, PendType, Zenon DEF SetLog
  <2>2. LogRecord(t, k, n) /\ UNCHANGED bracket
    BY <1>4, <2>1, Zenon DEF SetLog
  <2> QED
    BY <1>3, <2>2, Zenon
<1>5. ASSUME NEW t \in Threads, NEW k \in Keys, Delete(t, k)
      PROVE  /\ bracket'[u] = bracket[u] /\ m \in 1 .. Len(bslabs'[u])
             /\ bslabs'[u][m] = bslabs[u][m]
  <2>1. LogRecord(t, k, None) /\ UNCHANGED bracket
    BY <1>5, Zenon DEF Delete
  <2> QED
    BY <1>3, <2>1, Zenon
<1>6. ASSUME NEW t \in Threads, OpenBracket(t)
      PROVE  bracket'[u] = bracket[u] /\ UNCHANGED bslabs
  BY <1>6, Zenon DEF OpenBracket, TypeOK, TypeBrackets
<1>7. ASSUME NEW t \in Threads, t # u, CloseFree(t)
      PROVE  bracket'[u] = bracket[u] /\ bslabs'[u] = bslabs[u]
  BY <1>7, Zenon DEF CloseFree, TypeOK, TypeBrackets
<1>8. ASSUME NEW t \in Threads,
             \/ \E k \in Keys, s \in Slabs : SetData(t, k, s)
             \/ SetFails(t) \/ SetNoEntry(t) \/ CloseBracket(t)
      PROVE  UNCHANGED <<bracket, bslabs>>
  BY <1>8, Zenon DEF SetData, SetFails, SetNoEntry, CloseBracket, brackets
<1>9. CASE FlogSync \/ LogSync \/ Writer \/ UNCHANGED vars
  BY <1>1, <1>9, ZenonT(30) DEF FlogSync, LogSync, Writer, WriteLog, DeviceSync, PostSlab, PostDone,
                    vars, brackets
<1>10. ASSUME NEW t \in Threads, Client(t)
       PROVE  \/ CloseFree(u)
              \/ /\ bracket'[u] = bracket[u] /\ m \in 1 .. Len(bslabs'[u])
                 /\ bslabs'[u][m] = bslabs[u][m]
  BY <1>1, <1>4, <1>5, <1>6, <1>7, <1>8, <1>10, ZenonT(30) DEF Client
<1> QED
  BY <1>9, <1>10, Zenon DEF Next

LEMMA NextUndo ==
    ASSUME TypeOK, BracketIds, Placement, UndoKept, [Next]_vars
    PROVE  UndoKept'
<1> DEFINE n == Len(log) + 1
<1> SUFFICES ASSUME NEW i \in 1 .. Len(log'), NeedUndo(i)'
             PROVE  /\ data'[log'[i].old] = log'[i].oldver
                    /\ \/ log'[i].old \in lost'
                       \/ \E t \in Threads :
                             /\ bracket'[t] = log'[i].br
                             /\ \E m \in 1 .. Len(bslabs'[t]) : bslabs'[t][m] = log'[i].old
  BY Zenon DEF UndoKept
<1>1. /\ log'[i].old # None /\ log'[i].br # 0
      /\ \A l \in i + 1 .. durable' : log'[l].br # -log'[i].br
  BY Zenon DEF NeedUndo
<1>2. CASE i \in 1 .. Len(log)
  <2>1. log'[i] = log[i]
    BY <1>2, LogGrows, Zenon
  <2>2. \A l \in i + 1 .. durable : l \in i + 1 .. durable' /\ log'[l] = log[l]
    <3>1. /\ Len(log) \in Nat /\ durable \in Nat /\ durable' \in Nat
          /\ durable <= Len(log) /\ durable <= durable'
      BY LogGrows, Zenon
    <3>2. \A l \in i + 1 .. durable : l \in i + 1 .. durable' /\ l \in 1 .. Len(log)
      BY <1>2, <3>1, Within, Zenon
    <3> QED
      BY <3>2, LogGrows, Zenon
  <2>3. NeedUndo(i)
    BY <1>1, <2>1, <2>2, Zenon DEF NeedUndo
  <2>4. /\ data[log[i].old] = log[i].oldver
        /\ \/ log[i].old \in lost
           \/ \E t \in Threads :
                 /\ bracket[t] = log[i].br
                 /\ \E m \in 1 .. Len(bslabs[t]) : bslabs[t][m] = log[i].old
    BY <1>2, <2>3, Zenon DEF UndoKept
  <2>5. log[i].old \in Slabs \ free
    BY <1>1, <1>2, <2>1, <2>3, LogSlabs, UndoHeld, Zenon
  <2>6. data'[log[i].old] = log[i].oldver
    BY <2>4, <2>5, DataStep, Zenon
  <2>7. CASE log[i].old \in lost
    BY <2>1, <2>6, <2>7, DataStep, Zenon
  <2>8. CASE \E t \in Threads : /\ bracket[t] = log[i].br
                                /\ \E m \in 1 .. Len(bslabs[t]) : bslabs[t][m] = log[i].old
    <3>1. PICK t \in Threads : /\ bracket[t] = log[i].br
                               /\ \E m \in 1 .. Len(bslabs[t]) : bslabs[t][m] = log[i].old
      BY <2>8, Zenon
    <3>2. PICK m \in 1 .. Len(bslabs[t]) : bslabs[t][m] = log[i].old
      BY <3>1, Zenon
    <3>3. bracket[t] # 0 /\ bracket[t] \in Nat
      BY <1>1, <2>1, <3>1, BracketType, Zenon
    <3>4. CASE CloseFree(t)
      <4>1. closing[t] # 0 /\ closing[t] <= durable
        BY <3>4, Zenon DEF CloseFree, CloseLogged
      <4>2. closing[t] \in Nat /\ durable \in Nat /\ durable <= Len(log) /\ Len(log) \in Nat
        BY BracketType, LogGrows, Zenon
      <4>3. /\ log[closing[t]].br = -bracket[t]
            /\ \A l \in closing[t] + 1 .. Len(log) : log[l].br # bracket[t]
        BY <4>1, Zenon DEF BracketIds
      <4>4. i \notin closing[t] + 1 .. Len(log)
        BY <3>1, <4>3, Zenon
      <4>5. i # closing[t]
        BY <3>1, <3>3, <4>3
      <4>6. closing[t] \in i + 1 .. durable
        BY <1>2, <4>1, <4>2, <4>4, <4>5, Closes, Zenon
      <4>7. log[closing[t]].br # -log[i].br
        BY <2>3, <4>6, Zenon DEF NeedUndo
      <4> QED
        BY <3>1, <4>3, <4>7, Zenon
    <3>5. CASE ~CloseFree(t)
      <4>1. /\ bracket'[t] = bracket[t] /\ m \in 1 .. Len(bslabs'[t])
            /\ bslabs'[t][m] = bslabs[t][m]
        BY <3>3, <3>5, BracketStep, Zenon
      <4> QED
        BY <2>1, <2>6, <3>1, <3>2, <4>1, Zenon
    <3> QED
      BY <3>4, <3>5, Zenon
  <2> QED
    BY <2>4, <2>7, <2>8, Zenon
<1>3. CASE i \notin 1 .. Len(log)
  <2>1. log' # log
    BY <1>3, Zenon
  <2>2. Len(log') = n
    BY <2>1, LogStep, Zenon DEF Logged
  <2>3. i = n
    BY <1>3, <2>2, LogGrows
  <2>4. PICK k \in Keys : Logged(k, n)
    BY <1>1, <2>1, <2>3, LogStep, Zenon
  <2> HIDE DEF n
  <2> QED
    BY <1>1, <2>3, <2>4, Zenon DEF Logged
<1> QED
  BY <1>2, <1>3, ZenonT(30)

LEMMA KeptIntact == ASSUME TypeOK, LiveKept, UndoKept PROVE NeededIntact
<1> SUFFICES ASSUME NEW p \in durable .. Len(log), NEW x \in Live(p) \cup Undo(p)
             PROVE  data[x[1]] = x[2]
  BY Zenon DEF NeededIntact
<1>1. durable \in Nat /\ Len(log) \in Nat /\ p \in Nat /\ durable <= p /\ p <= Len(log)
  BY DEF TypeOK, TypeLog
<1>2. CASE x \in Live(p)
  <2>1. PICK j \in 1 .. p : /\ x = <<log[j].new, log[j].ver>> /\ log[j].new # None
                            /\ \A l \in j + 1 .. p : log[l].key # log[j].key
    BY <1>2, Zenon DEF Live
  <2>2. j \in 1 .. Len(log) /\ \A l \in j + 1 .. durable : l \in j + 1 .. p
    BY <1>1
  <2>3. NeedLive(j)
    BY <2>1, <2>2, Zenon DEF NeedLive
  <2> QED
    BY <2>1, <2>2, <2>3, Zenon DEF LiveKept
<1>3. CASE x \in Undo(p)
  <2>1. PICK j \in 1 .. p : /\ x = <<log[j].old, log[j].oldver>>
                            /\ log[j].old # None /\ log[j].br # 0
                            /\ \A l \in j + 1 .. p : log[l].br # -log[j].br
    BY <1>3, Zenon DEF Undo
  <2>2. j \in 1 .. Len(log) /\ \A l \in j + 1 .. durable : l \in j + 1 .. p
    BY <1>1
  <2>3. NeedUndo(j)
    BY <2>1, <2>2, Zenon DEF NeedUndo
  <2> QED
    BY <2>1, <2>2, <2>3, Zenon DEF UndoKept
<1> QED
  BY <1>2, <1>3, Zenon

(* Whatever part of the log a crash leaves, the data that its replay and    *)
(* the undo of its open brackets need is in place, for any number of        *)
(* threads, keys, slabs, records and brackets: slabs reach slab_alloc only  *)
(* after the sync of the record that gave them up, or of the closing record *)
(* of its bracket.                                                          *)
THEOREM RecoveryIntact == Spec => []NeededIntact
<1> DEFINE IInv == /\ TypeOK /\ BracketIds /\ ListKept
                   /\ Placement /\ LiveKept /\ UndoKept
<1>1. Init => IInv
  BY InitType, InitIds, InitKept, InitPlacement, InitNeeded, Zenon
<1>2. IInv /\ [Next]_vars => IInv'
  BY NextType, NextIds, NextKept, NextPlacement, NextLive, NextUndo, Zenon
<1>3. IInv => NeededIntact
  BY KeptIntact, Zenon
<1> QED
  BY <1>1, <1>2, <1>3, PTL DEF Spec

-----------------------------------------------------------------------------
LEMMA Chain ==
    ASSUME NEW a \in Nat, NEW b \in Nat, NEW c \in Nat, NEW d \in Nat, NEW e \in Nat,
           a <= b, b <= c, c < d + e
    PROVE  a < d + e
OBVIOUS

LEMMA ListTypes ==
    ASSUME TypeOK
    PROVE  written \in Nat /\ curr_recs \in Nat /\ BufRecs \in Nat /\ dealloc_list \subseteq 1 .. written
BY BufType DEF TypeOK, TypeStore, TypeLog

LEMMA ListRange ==
    ASSUME TypeOK, Sized
    PROVE  /\ written - curr_recs + 1 \in Int
           /\ \A i \in dealloc_list : i \in written - curr_recs + 1 .. written
BY ListTypes DEF Sized

INSTANCE FiniteSetTheorems

(* Every slab is in exactly one place, for any number of slabs, threads and *)
(* brackets: log_sync_postprocess gives each slab back once, and every slab *)
(* that an object, a set or a record still uses is kept from mcd_fth_osd_-  *)
(* slab_alloc.  By Placement.                                               *)
THEOREM SlabsOnce == Spec => []OnePlace
<1>1. Init => TypeOK /\ Placement
  BY InitType, InitPlacement, Zenon
<1>2. TypeOK /\ Placement /\ [Next]_vars => TypeOK' /\ Placement'
  BY NextType, NextPlacement, Zenon
<1>3. ASSUME TypeOK, Placement PROVE OnePlace
  <2> SUFFICES ASSUME NEW s \in Slabs PROVE Cardinality(Places(s)) = 1
    BY Zenon DEF OnePlace
  <2>1. PICK x : Places(s) = {x}
    BY <1>3, PlacedOnce, Zenon
  <2> QED
    BY <2>1, FS_Singleton, Zenon
<1> QED
  BY <1>1, <1>2, <1>3, PTL DEF Spec

(* The list has as many entries as allocated, at most (mcd_rec.c:6923): the *)
(* append in log_write_postprocess, which does not test for room, needs no  *)
(* test.                                                                    *)
THEOREM ListFits == Spec => []DeallocFits
<1>1. TypeOK /\ Sized /\ [Next]_vars => Sized'
  BY NextSized, Zenon
<1>2. ASSUME TypeOK, Sized PROVE DeallocFits
  <2> DEFINE lo == written - curr_recs + 1
  <2>0. /\ written \in Nat /\ curr_recs \in Nat /\ BufRecs \in Nat
        /\ dealloc_list \subseteq 1 .. written
    BY <1>2, ListTypes, Zenon
  <2>1. lo \in Int /\ \A i \in dealloc_list : i \in lo .. written
    BY <1>2, ListRange, Zenon
  <2> HIDE DEF lo
  <2>2. dealloc_list \subseteq lo .. written
    BY <2>1, Zenon
  <2>3. IsFiniteSet(lo .. written)
        /\ Cardinality(lo .. written) = IF lo > written THEN 0 ELSE written - lo + 1
    <3>1. written \in Int
      BY <2>0
    <3> QED
      BY <2>1, <3>1, FS_Interval, Zenon
  <2>4. Cardinality(lo .. written) <= curr_recs
    BY <2>0, <2>3 DEF lo
  <2>5. IsFiniteSet(dealloc_list) /\ Cardinality(dealloc_list) <= Cardinality(lo .. written)
    BY <2>2, <2>3, FS_Subset, Zenon
  <2>6. Cardinality(dealloc_list) \in Nat /\ Cardinality(lo .. written) \in Nat
    BY <2>3, <2>5, FS_CardinalityType, Zenon
  <2> QED
    BY <1>2, <2>0, <2>4, <2>5, <2>6, SyncType, Chain, Zenon DEF Sized, DeallocFits
<1> QED
  BY TypeCorrect, InitSized, <1>1, <1>2, PTL DEF Spec
=============================================================================
