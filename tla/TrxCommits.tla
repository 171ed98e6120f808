----------------------------- MODULE TrxCommits -----------------------------
(***************************************************************************)
(* Proofs about TrxTable: a commit in the log.                             *)
(*                                                                         *)
(* First the arithmetic of trx_commit_internal: the slots it asks for hold *)
(* the records and the page headers between them (CommitFits).  Then, that *)
(* the thread with sync_fill_lock has the slots it needs in the same half  *)
(* of the log, and nobody writes in between (Committing), so that what a   *)
(* transaction logs is one run (TrxWhole).                                 *)
(***************************************************************************)
EXTENDS TrxTypes

(* If n * B / (B - 1) slots, rounded down, are left before a page boundary, *)
(* n of them are not page headers: a header is every B-th slot.             *)
LEMMA PadFits ==
    ASSUME NEW B \in Nat, B > 1, NEW m \in Nat, NEW n \in Nat,
           m >= (n * B) \div (B - 1)
    PROVE  n <= m - (m \div B)
<1> DEFINE q == m \div B
           k == (n * B) \div (B - 1)
<1>1. q \in Nat /\ q * B <= m
  BY DivBound
<1>2. n * B \in Nat /\ B - 1 \in Nat /\ B - 1 > 0
  OBVIOUS
<1>3. k \in Nat /\ n * B < k * (B - 1) + (B - 1)
  BY <1>2, DivBound
<1> HIDE DEF q, k
<1>4. k * (B - 1) <= m * (B - 1)
  BY <1>2, <1>3, MulMono DEF k
<1>5. SUFFICES ASSUME n >= m - q + 1 PROVE FALSE
  BY <1>1 DEF q
<1>6. q <= m
  <2>1. q * 1 <= q * B
    BY <1>1
  <2> QED
    BY <1>1, <2>1
<1>7. (m - q + 1) * B <= n * B
  BY <1>1, <1>5, <1>6, MulMono
<1>8. (m - q + 1) * B = m * B - q * B + B
  BY <1>1
<1>9. m * (B - 1) = m * B - m
  OBVIOUS
<1> QED
  BY <1>1, <1>2, <1>3, <1>4, <1>7, <1>8, <1>9

(* A commit that does not pad has room: the rest of the log, one slot in    *)
(* BlkSlots of it a page header, takes the n records of the transaction, so *)
(* that it does not span the two logs (mcd_rec.c:9184-9194).                *)
THEOREM CommitFits ==
    ASSUME NEW f \in Nat, NEW n \in Nat, n > 1, Padding(f, n) = 0
    PROVE  n <= Room(f) - (Room(f) \div BlkSlots)
<1>1. TotalSlots \in Nat /\ TotalSlots > 0
  <2>1. TotalSlots \div BlkSlots \in Nat
    BY TrxAssumption, DivBound DEF TrxAssumption
  <2> QED
    BY <2>1, TrxAssumption DEF TrxAssumption
<1>2. f % TotalSlots \in 0 .. TotalSlots - 1
  BY <1>1
<1>3. Room(f) \in Nat /\ Room(f) > 0
  BY <1>1, <1>2 DEF Room
<1>4. Room(f) >= (n * BlkSlots) \div (BlkSlots - 1)
  <2>1. n * BlkSlots \in Nat /\ BlkSlots - 1 \in Nat /\ BlkSlots - 1 > 0
    BY TrxAssumption DEF TrxAssumption
  <2>2. (n * BlkSlots) \div (BlkSlots - 1) \in Nat
    BY <2>1, DivBound
  <2> QED
    BY <1>3, <2>2 DEF Padding
<1> QED
  BY <1>3, <1>4, PadFits, TrxAssumption DEF TrxAssumption

-----------------------------------------------------------------------------
(* The slots of a log.  Every BlkSlots-th is a page header; Spare(f) is how *)
(* many records fit from next_fill = f on before the other log begins.      *)

Headers == TotalSlots \div BlkSlots
Spare(f) == Room(f) - (Room(f) \div BlkSlots)

LEMMA DivUnique ==
    ASSUME NEW a \in Nat, NEW d \in Nat, d > 0, NEW q \in Nat, q * d <= a, a < q * d + d
    PROVE  a \div d = q /\ a % d = a - q * d
<1> DEFINE p == a \div d
<1>1. p \in Nat /\ p * d <= a /\ a < p * d + d
  BY DivBound
<1>2. a % d = a - d * (a \div d)
  OBVIOUS
<1> HIDE DEF p
<1>3. CASE p < q
  <2>1. (p + 1) * d <= q * d
    BY <1>1, <1>3, MulMono
  <2>2. (p + 1) * d = p * d + d
    BY <1>1
  <2> QED
    BY <1>1, <2>1, <2>2
<1>4. CASE q < p
  <2>1. (q + 1) * d <= p * d
    BY <1>1, <1>4, MulMono
  <2>2. (q + 1) * d = q * d + d
    OBVIOUS
  <2> QED
    BY <1>1, <2>1, <2>2
<1>5. CASE p = q
  <2>1. a \div d = q
    BY <1>5 DEF p
  <2> QED
    BY <1>2, <2>1
<1> QED
  BY <1>1, <1>3, <1>4, <1>5

LEMMA LogSize ==
    /\ BlkSlots \in Nat /\ BlkSlots >= 2 /\ Headers \in Nat /\ Headers > 0
    /\ TotalSlots = Headers * BlkSlots /\ TotalSlots \in Nat
    /\ TrxLimit \in Nat /\ TrxLimit >= 2 /\ TrxLimit + 2 * Headers <= TotalSlots
<1>1. /\ BlkSlots \in Nat /\ BlkSlots > 1 /\ TotalSlots \in Nat /\ TotalSlots % BlkSlots = 0
      /\ TrxLimit \in Nat /\ TrxLimit >= 2 /\ TrxLimit + 2 * Headers <= TotalSlots
  BY TrxAssumption DEF TrxAssumption, Headers
<1>2. Headers \in Nat
  BY <1>1, DivBound DEF Headers
<1>3. TotalSlots = Headers * BlkSlots
  BY <1>1, <1>2 DEF Headers
<1>4. Headers # 0
  BY <1>1, <1>3
<1> QED
  BY <1>1, <1>2, <1>3, <1>4

(* A slot is slot v of page u of log c.                                     *)
At3(f, c, u, v) ==
    /\ f \in Nat /\ c \in Nat /\ u \in Nat /\ v \in Nat /\ u < Headers /\ v < BlkSlots
    /\ f = c * TotalSlots + u * BlkSlots + v

Skip(v) == IF v = 0 THEN 1 ELSE v

LEMMA Decompose ==
    ASSUME NEW f \in Nat
    PROVE  \E c, u, v \in Nat : At3(f, c, u, v)
<1> DEFINE c == f \div TotalSlots
           m == f - c * TotalSlots
           u == m \div BlkSlots
           v == m - u * BlkSlots
<1>1. TotalSlots \in Nat /\ TotalSlots > 0 /\ BlkSlots \in Nat /\ BlkSlots > 0 /\ Headers \in Nat
  BY LogSize, Sizes
<1>2. c \in Nat /\ c * TotalSlots <= f /\ f < c * TotalSlots + TotalSlots
  BY <1>1, DivBound
<1> HIDE DEF c
<1>3. m \in Nat /\ m < TotalSlots /\ f = c * TotalSlots + m
  BY <1>1, <1>2
<1> HIDE DEF m
<1>4. u \in Nat /\ u * BlkSlots <= m /\ m < u * BlkSlots + BlkSlots
  BY <1>1, <1>3, DivBound
<1> HIDE DEF u
<1>5. v \in Nat /\ v < BlkSlots /\ m = u * BlkSlots + v
  BY <1>1, <1>3, <1>4
<1> HIDE DEF v
<1>6. u < Headers
  <2>1. CASE Headers <= u
    <3>1. Headers * BlkSlots <= u * BlkSlots
      BY <1>1, <1>4, <2>1, MulMono
    <3> QED
      BY <1>1, <1>3, <1>4, <3>1, LogSize
  <2> QED
    BY <1>1, <1>4, <2>1
<1>7. f = c * TotalSlots + u * BlkSlots + v
  BY <1>1, <1>2, <1>3, <1>4, <1>5
<1> QED
  BY <1>2, <1>4, <1>5, <1>6, <1>7 DEF At3

(* Where log_write_internal writes, and what is left.                       *)
LEMMA Slots ==
    ASSUME NEW f, NEW c, NEW u, NEW v, At3(f, c, u, v)
    PROVE  /\ SlotAt(f) = c * TotalSlots + u * BlkSlots + Skip(v)
           /\ SlotAt(f) \div TotalSlots = c
           /\ Spare(f) = (Headers - u) * (BlkSlots - 1) - Skip(v) + 1
<1> DEFINE B == BlkSlots
           T == TotalSlots
           H == Headers
           X == c * T
           Y == u * B
<1>1. /\ B \in Nat /\ B >= 2 /\ H \in Nat /\ H > 0 /\ T = H * B /\ T \in Nat /\ T > 0
      /\ f \in Nat /\ c \in Nat /\ u \in Nat /\ v \in Nat /\ u < H /\ v < B /\ f = X + Y + v
  BY LogSize, Sizes DEF At3
<1>2. X \in Nat /\ Y \in Nat /\ Y + B <= T
  <2>1. (u + 1) * B <= H * B
    BY <1>1, MulMono
  <2>2. (u + 1) * B = Y + B
    BY <1>1
  <2> QED
    BY <1>1, <2>1, <2>2
<1>3. f % B = v
  <2> DEFINE Q == c * H + u
  <2>1. Q * B = X + Y /\ Q \in Nat
    BY <1>1
  <2> HIDE DEF Q
  <2>2. Q * B <= f /\ f < Q * B + B /\ B > 0
    BY <1>1, <1>2, <2>1
  <2>3. f % B = f - Q * B
    <3>1. f \in Nat /\ B \in Nat /\ Q \in Nat
      BY <1>1, <2>1
    <3> QED
      BY <2>2, <3>1, DivUnique, Zenon
  <2> QED
    BY <1>1, <1>2, <2>1, <2>3
<1>4. SlotAt(f) = X + Y + Skip(v) /\ Skip(v) \in Nat /\ Skip(v) < B
  BY <1>1, <1>2, <1>3 DEF SlotAt, Skip
<1>5. SlotAt(f) \div T = c /\ f % T = Y + v
  <2> HIDE DEF Y
  <2>3. c * T <= f /\ f < c * T + T
    BY <1>1, <1>2
  <2>1. f % T = f - c * T
    BY <1>1, <2>3, DivUnique, Zenon
  <2>2. SlotAt(f) \div T = c
    BY <1>1, <1>2, <1>4, DivUnique
  <2> QED
    BY <1>1, <1>2, <2>1, <2>2
<1>6. Room(f) = T - Y - v
  BY <1>1, <1>2, <1>5 DEF Room
<1>7. CASE v = 0
  <2>1. T - Y = (H - u) * B /\ H - u \in Nat
    BY <1>1
  <2>2. Room(f) = (H - u) * B
    BY <1>1, <1>2, <1>6, <1>7, <2>1
  <2>3. (H - u) * B \in Nat
    BY <1>1, <2>1
  <2>4. Room(f) \div B = H - u
    BY <1>1, <2>1, <2>2, <2>3, DivUnique
  <2>5. (H - u) * (B - 1) = (H - u) * B - (H - u)
    BY <1>1, <2>1
  <2>6. Spare(f) = (H - u) * (B - 1)
    BY <2>2, <2>4, <2>5 DEF Spare
  <2>7. (H - u) * (B - 1) \in Int
    BY <1>1
  <2> QED
    BY <1>4, <1>5, <1>7, <2>6, <2>7 DEF Skip
<1>8. CASE v > 0
  <2>1. H - u - 1 \in Nat /\ (H - u - 1) * B = T - Y - B
    BY <1>1
  <2>2. Room(f) = (H - u - 1) * B + (B - v) /\ Room(f) \in Nat
    BY <1>1, <1>2, <1>6, <2>1
  <2>3. (H - u - 1) * B <= Room(f) /\ Room(f) < (H - u - 1) * B + B
    BY <1>1, <1>2, <1>8, <2>1, <2>2
  <2>4. Room(f) \div B = H - u - 1
    BY <1>1, <2>1, <2>2, <2>3, DivUnique
  <2>5. (H - u) * (B - 1) = T - Y - H + u
    BY <1>1
  <2>6. Spare(f) = (H - u) * (B - 1) - v + 1
    BY <1>1, <1>2, <1>6, <2>4, <2>5 DEF Spare
  <2> QED
    BY <1>1, <1>4, <1>5, <1>8, <2>6 DEF Skip
<1> QED
  BY <1>1, <1>7, <1>8

LEMMA SkipType ==
    ASSUME NEW v \in Nat, v < BlkSlots
    PROVE  Skip(v) \in Nat /\ Skip(v) >= 1 /\ Skip(v) < BlkSlots
BY LogSize DEF Skip

(* One record further on, there is one slot less, in the same log; after    *)
(* the last one the other log is empty.                                     *)
LEMMA SpareStep ==
    ASSUME NEW f \in Nat
    PROVE  LET g == SlotAt(f) + 1
           IN  /\ Spare(f) \in Nat /\ Spare(f) >= 1 /\ Spare(g) \in Nat
               /\ Spare(f) >= 2 =>
                    /\ Spare(g) = Spare(f) - 1
                    /\ SlotAt(g) \div TotalSlots = SlotAt(f) \div TotalSlots
               /\ Spare(f) = 1 => Spare(g) = TotalSlots - Headers
<1> DEFINE B == BlkSlots
           T == TotalSlots
           H == Headers
           g == SlotAt(f) + 1
<1>1. B \in Nat /\ B >= 2 /\ H \in Nat /\ H > 0 /\ T = H * B /\ T \in Nat /\ T > 0
  BY LogSize, Sizes
<1>2. PICK c \in Nat, u \in Nat, v \in Nat : At3(f, c, u, v)
  BY Decompose, Zenon
<1> DEFINE w == Skip(v)
           X == c * T
           Y == u * B
           D == (H - u) * (B - 1)
<1>3. /\ SlotAt(f) = X + Y + w /\ SlotAt(f) \div T = c /\ Spare(f) = D - w + 1
  BY <1>2, Slots, Zenon
<1>4. u < H /\ v < B
  BY <1>2, Zenon DEF At3
<1>5. w \in Nat /\ w >= 1 /\ w < B
  BY <1>4, SkipType
<1> HIDE DEF w
<1>6. X \in Nat /\ Y \in Nat /\ D \in Int
  BY <1>1
<1>7. g = X + Y + w + 1 /\ g \in Nat
  BY <1>3, <1>5, <1>6
<1>8. D >= B - 1
  <2>1. H - u \in Nat /\ B - 1 \in Nat /\ 1 <= H - u
    BY <1>1, <1>4
  <2>2. 1 * (B - 1) <= D
    BY <2>1, MulMono
  <2> QED
    BY <1>1, <2>2
<1> HIDE DEF g
<1>9. CASE w + 1 < B
  <2>1. At3(g, c, u, w + 1)
    BY <1>1, <1>4, <1>5, <1>6, <1>7, <1>9 DEF At3
  <2>2. Skip(w + 1) = w + 1
    BY <1>5 DEF Skip
  <2>3. SlotAt(g) \div T = c /\ Spare(g) = D - (w + 1) + 1
    BY <2>1, <2>2, Slots
  <2> HIDE DEF D
  <2> QED
    BY <1>1, <1>3, <1>5, <1>6, <1>8, <1>9, <2>3 DEF g
<1>10. CASE w + 1 = B /\ u + 1 < H
  <2>1. (u + 1) * B = Y + B
    BY <1>1
  <2>2. g = X + (u + 1) * B + 0
    BY <1>1, <1>5, <1>6, <1>7, <1>10, <2>1
  <2>3. At3(g, c, u + 1, 0)
    BY <1>1, <1>4, <1>7, <1>10, <2>2 DEF At3
  <2>4. Skip(0) = 1
    BY DEF Skip
  <2>5. SlotAt(g) \div T = c /\ Spare(g) = (H - (u + 1)) * (B - 1) - 1 + 1
    BY <2>3, <2>4, Slots
  <2>6. (H - (u + 1)) * (B - 1) = D - (B - 1)
    BY <1>1
  <2>7. (H - (u + 1)) * (B - 1) >= B - 1
    <3>1. H - (u + 1) \in Nat /\ B - 1 \in Nat /\ 1 <= H - (u + 1)
      BY <1>1, <1>10
    <3>2. 1 * (B - 1) <= (H - (u + 1)) * (B - 1)
      BY <3>1, MulMono
    <3> QED
      BY <1>1, <3>2
  <2> HIDE DEF D
  <2> QED
    BY <1>1, <1>3, <1>5, <1>6, <1>8, <1>10, <2>5, <2>6, <2>7 DEF g
<1>11. CASE w + 1 = B /\ u + 1 = H
  <2>1. (u + 1) * B = Y + B /\ (c + 1) * T = X + T
    BY <1>1
  <2>2. g = (c + 1) * T + 0 * B + 0
    BY <1>1, <1>5, <1>6, <1>7, <1>11, <2>1
  <2>3. At3(g, c + 1, 0, 0)
    BY <1>1, <1>7, <2>2 DEF At3
  <2>4. Skip(0) = 1
    BY DEF Skip
  <2>5. Spare(g) = (H - 0) * (B - 1) - 1 + 1
    BY <2>3, <2>4, Slots
  <2>6. (H - 0) * (B - 1) = T - H
    BY <1>1
  <2>7. D = B - 1
    BY <1>1, <1>11
  <2>8. T - H >= 0
    <3>1. H * 1 <= H * B
      BY <1>1
    <3> QED
      BY <1>1, <3>1
  <2> HIDE DEF D
  <2> QED
    BY <1>1, <1>3, <1>5, <1>6, <1>11, <2>5, <2>6, <2>7, <2>8 DEF g
<1> QED
  BY <1>1, <1>4, <1>5, <1>9, <1>10, <1>11

(* What padding needs: no slot is spare beyond the headers.                 *)
LEMMA RoomSpare ==
    ASSUME NEW f \in Nat
    PROVE  Spare(f) <= Room(f) /\ Room(f) <= Spare(f) + Headers /\ Room(f) \in Nat
<1>1. Room(f) \in 1 .. TotalSlots
  BY PaddingType
<1>2. BlkSlots \in Nat /\ BlkSlots > 0 /\ TotalSlots \in Nat /\ Headers \in Nat
      /\ TotalSlots = Headers * BlkSlots
  BY LogSize
<1> DEFINE R == Room(f)
           q == R \div BlkSlots
<1>3. q \in Nat /\ q * BlkSlots <= R
  BY <1>1, <1>2, DivBound
<1> HIDE DEF q
<1>4. q <= Headers
  <2>1. CASE Headers + 1 <= q
    <3>1. (Headers + 1) * BlkSlots <= q * BlkSlots
      BY <1>2, <1>3, <2>1, MulMono
    <3>2. (Headers + 1) * BlkSlots = TotalSlots + BlkSlots
      BY <1>2
    <3> QED
      BY <1>1, <1>2, <1>3, <3>1, <3>2
  <2> QED
    BY <1>2, <1>3, <2>1
<1> QED
  BY <1>1, <1>2, <1>3, <1>4 DEF Spare, q

-----------------------------------------------------------------------------
(* Commits in the log: the thread that has sync_fill_lock writes a whole    *)
(* transaction into one log.                                                *)

Busy == {"pad", "write"}
Locks == \A t \in Threads : pc[t] \in Busy => fill_lock[own[t].s] = t

(* Padding ends where the other log begins, or soon after.                  *)
FitsAt(l, n, j, f) ==
    /\ l = "pad" => \/ Spare(f) <= j /\ j <= Spare(f) + Headers
                    \/ j + TotalSlots - 2 * Headers <= Spare(f)
    /\ l = "write" => n - j < Spare(f)

Fits == \A t \in Threads : FitsAt(pc[t], Len(own[t].recs), i[t], next_fill[own[t].s])

(* The records of transaction id are the last in log q, from first on.      *)
Ending(q, first, id, slot) ==
    \A k \in DOMAIN q :
        IF k > first
        THEN /\ q[k].tid = id /\ q[k].trx = "OP"
             /\ q[k].slot \div TotalSlots = slot \div TotalSlots
        ELSE q[k].tid # id

WritingAt(l, x, j, q, f) == l = "write" => Ending(q, Len(q) - j + 1, x.id, SlotAt(f))
Writing == \A t \in Threads : WritingAt(pc[t], own[t], i[t], log[own[t].s], next_fill[own[t].s])

(* What is known of an ID that has records in the log of shard s.           *)
Closed(d, s) ==
    /\ d <= next_trx_id
    /\ d # 0 => /\ \A x \in trxtable : x.id # d
                /\ \A t \in Threads : pc[t] = "add" => trxid[t] # d
                /\ \A t \in Threads : own[t].id = d => pc[t] = "write" /\ own[t].s = s

Tids == \A s \in Shards : \A k \in DOMAIN log[s] : Closed(log[s][k].tid, s)

Whole(q) ==
    \A j, k \in DOMAIN q :
        j < k /\ q[j].tid # 0 /\ q[j].tid = q[k].tid =>
            /\ q[j].slot \div TotalSlots = q[k].slot \div TotalSlots
            /\ q[j].trx = "OP"
            /\ q[j + 1].tid = q[j].tid

Committing == Locks /\ Fits /\ Writing /\ Tids /\ TrxWhole

LEMMA WholeDef == TrxWhole <=> \A s \in Shards : Whole(log[s])
BY Zenon DEF TrxWhole, Whole

LEMMA WholeDefP == TrxWhole' <=> \A s \in Shards : Whole(log'[s])
BY Zenon DEF TrxWhole, Whole

(* What a record at the end of q must be for the log p to be whole.         *)
LEMMA WholeAppend ==
    ASSUME NEW q, NEW p, NEW n \in Nat, DOMAIN q = 1 .. n, DOMAIN p = 1 .. n + 1, Whole(q),
           \A k \in 1 .. n : p[k] = q[k],
           \/ p[n + 1].tid = 0
           \/ \E first \in Int : Ending(q, first, p[n + 1].tid, p[n + 1].slot)
    PROVE  Whole(p)
<1> SUFFICES ASSUME NEW j \in 1 .. n + 1, NEW k \in 1 .. n + 1,
                    j < k, p[j].tid # 0, p[j].tid = p[k].tid
             PROVE  /\ p[j].slot \div TotalSlots = p[k].slot \div TotalSlots
                    /\ p[j].trx = "OP" /\ p[j + 1].tid = p[j].tid
  BY Zenon DEF Whole
<1>1. j \in 1 .. n /\ p[j] = q[j] /\ j + 1 \in 1 .. n + 1
  BY SMT
<1>2. CASE k \in 1 .. n
  <2>1. p[k] = q[k] /\ j + 1 \in 1 .. n
    BY <1>1, <1>2, SMT
  <2>2. p[j + 1] = q[j + 1]
    BY <2>1
  <2> QED
    BY <1>1, <1>2, <2>1, <2>2, Zenon DEF Whole
<1>3. CASE k = n + 1
  <2>1. PICK first \in Int : Ending(q, first, p[n + 1].tid, p[n + 1].slot)
    BY <1>3, Zenon
  <2>2. /\ j > first /\ q[j].trx = "OP"
        /\ q[j].slot \div TotalSlots = p[n + 1].slot \div TotalSlots
    BY <1>1, <1>3, <2>1, Zenon DEF Ending
  <2>3. p[j + 1].tid = p[j].tid
    <3>1. CASE j = n
      BY <1>3, <3>1, Zenon
    <3>2. CASE j # n
      <4>1. j + 1 \in 1 .. n /\ j + 1 > first
        BY <1>1, <2>2, <3>2
      <4>2. q[j + 1].tid = p[n + 1].tid /\ p[j + 1] = q[j + 1]
        BY <2>1, <4>1, Zenon DEF Ending
      <4> QED
        BY <1>3, <4>2, Zenon
    <3> QED
      BY <3>1, <3>2
  <2> QED
    BY <1>1, <1>3, <2>2, <2>3, Zenon
<1>4. k \in 1 .. n \/ k = n + 1
  BY SMT
<1> QED
  BY <1>2, <1>3, <1>4

(* A log changes only under its sync_fill_lock.                             *)
Appends(t, s, r, flag, id) ==
    /\ s \in Shards /\ log_write_internal(s, r, flag, id)
    /\ \/ CommitPad(t) /\ fill_lock[s] = t /\ s = own[t].s /\ id = 0
       \/ CommitWrite(t) /\ fill_lock[s] = t /\ s = own[t].s /\ id = own[t].id
       \/ fill_lock[s] = NoThread /\ id = 0

LEMMA BusyShard ==
    ASSUME Types, NEW t \in Threads, pc[t] \in Busy
    PROVE  own[t].s \in Shards
BY OwnFact, Zenon DEF At, Busy

LEMMA LogStep ==
    ASSUME Types, Locks, NEW t \in Threads, Kinds(t)
    PROVE  UNCHANGED <<log, next_fill>> \/ \E s, r, flag, id : Appends(t, s, r, flag, id)
<1>1. CASE Stays(t) \/ Adds(t) \/ Takes(t) \/ CommitStart(t) \/ CommitNothing(t) \/ Revert(t)
           \/ RevertEnd(t)
  BY <1>1, Zenon DEF Stays, Adds, Calm, Takes, CommitStart, CommitNothing, Revert, RevertEnd, store
<1>2. CASE CommitPad(t)
  <2>1. pc[t] \in Busy /\ log_write_internal(own[t].s, Pad, "NO", 0)
    BY <1>2, Zenon DEF CommitPad, Busy
  <2>2. own[t].s \in Shards /\ fill_lock[own[t].s] = t
    BY <2>1, BusyShard, Zenon DEF Locks
  <2> QED
    BY <1>2, <2>1, <2>2, Zenon DEF Appends
<1>3. CASE CommitWrite(t)
  <2>1. pc[t] \in Busy /\ \E r, flag : log_write_internal(own[t].s, r, flag, own[t].id)
    BY <1>3, Zenon DEF CommitWrite, Busy
  <2>2. own[t].s \in Shards /\ fill_lock[own[t].s] = t
    BY <2>1, BusyShard, Zenon DEF Locks
  <2> QED
    BY <1>3, <2>1, <2>2, Zenon DEF Appends
<1>4. CASE Changing(t)
  <2>1. PICK o \in Objs, r \in Recs : Change(t, o, r)
    BY <1>4, Zenon DEF Changing
  <2>2. o[1] \in Shards
    BY DEF Objs
  <2>3. CASE \E mem \in BOOLEAN : Captured(t, o[1], r, mem)
    BY <2>3, Zenon DEF Captured
  <2>4. CASE Logged(t, o[1], r)
    BY <2>2, <2>4, Zenon DEF Logged, Appends
  <2> QED
    BY <2>1, <2>3, <2>4, Zenon DEF Change
<1> QED
  BY <1>1, <1>2, <1>3, <1>4, Zenon DEF Kinds

(* The log of a thread that commits is left alone by the others.            *)
LEMMA OthersLog ==
    ASSUME Types, Locks, NEW t \in Threads, Kinds(t), NEW u \in Threads, u # t, pc[u] \in Busy
    PROVE  log'[own[u].s] = log[own[u].s] /\ next_fill'[own[u].s] = next_fill[own[u].s]
<1>1. own[u].s \in Shards /\ fill_lock[own[u].s] = u
  BY BusyShard, Zenon DEF Locks
<1>2. CASE UNCHANGED <<log, next_fill>>
  BY <1>2, Zenon
<1>3. ASSUME NEW s, NEW r, NEW flag, NEW id, Appends(t, s, r, flag, id)
      PROVE  log'[own[u].s] = log[own[u].s] /\ next_fill'[own[u].s] = next_fill[own[u].s]
  <2>1. s \in Shards /\ own[u].s # s /\ log_write_internal(s, r, flag, id)
    BY <1>1, <1>3, Sizes, Zenon DEF Appends
  <2> QED
    BY <1>1, <2>1, LogFact, Zenon DEF Types
<1> QED
  BY <1>2, <1>3, LogStep, Zenon

LEMMA NotBusy ==
    /\ "idle" \notin Busy /\ "log" \notin Busy /\ "revert" \notin Busy
    /\ \A l : l \in Busy => l \in Concluding /\ l # "add" /\ l # "idle"
BY SMT DEF Busy, Concluding

LEMMA OwnSteps ==
    ASSUME Types, NEW t \in Threads, Kinds(t)
    PROVE  Only(t) /\ (pc'[t] \in Busy => CommitStart(t) \/ CommitPad(t) \/ CommitWrite(t))
<1>1. CASE Stays(t) \/ Adds(t)
  <2>1. PICK l \in Labels \ Concluding : pc' = [pc EXCEPT ![t] = l]
    BY <1>1, Zenon DEF Stays, Adds, Calm
  <2>2. own' = [own EXCEPT ![t] = own[t]] /\ i' = [i EXCEPT ![t] = i[t]]
    BY <1>1, SameOwn, SameI, Zenon DEF Stays, Adds, Calm
  <2> QED
    BY <2>1, <2>2, OnlyFact, NotBusy, Zenon
<1>2. CASE Takes(t)
  <2>1. PICK x \in trxtable, l \in {"log", "revert"} :
          /\ own' = [own EXCEPT ![t] = x]
          /\ i' = [i EXCEPT ![t] = Len(x.recs)] /\ pc' = [pc EXCEPT ![t] = l]
    BY <1>2, Zenon DEF Takes
  <2> QED
    BY <2>1, OnlyFact, NotBusy, Zenon
<1>3. CASE CommitStart(t)
  <2>1. /\ \E l : pc' = [pc EXCEPT ![t] = l]
        /\ \E j : i' = [i EXCEPT ![t] = j]
        /\ own' = [own EXCEPT ![t] = own[t]]
    BY <1>3, SameOwn, Zenon DEF CommitStart
  <2> QED
    BY <1>3, <2>1, OnlyFact, Zenon
<1>4. CASE CommitPad(t)
  <2>1. /\ \E l : pc' = [pc EXCEPT ![t] = l]
        /\ \E j : i' = [i EXCEPT ![t] = j]
        /\ own' = [own EXCEPT ![t] = own[t]]
    BY <1>4, SameOwn, SamePc, SameI, Zenon DEF CommitPad
  <2> QED
    BY <1>4, <2>1, OnlyFact, Zenon
<1>5. CASE CommitWrite(t)
  BY <1>5, CommitWriteOnly, Zenon
<1>6. CASE CommitNothing(t) \/ RevertEnd(t)
  <2>1. /\ pc' = [pc EXCEPT ![t] = "idle"] /\ own' = [own EXCEPT ![t] = NoTrx]
        /\ \E j : i' = [i EXCEPT ![t] = j]
    BY <1>6, SameI, Zenon DEF CommitNothing, RevertEnd, Return
  <2> QED
    BY <2>1, OnlyFact, NotBusy, Zenon
<1>7. CASE Revert(t)
  <2>1. pc'[t] = "revert"
    BY <1>7, Zenon DEF Revert
  <2> QED
    BY <1>7, <2>1, RevertOnly, NotBusy, Zenon
<1>8. CASE Changing(t)
  <2>1. /\ pc' = [pc EXCEPT ![t] = "idle"] /\ own' = [own EXCEPT ![t] = own[t]]
        /\ i' = [i EXCEPT ![t] = i[t]]
    BY <1>8, SameOwn, SameI, Zenon DEF Changing, Change, Return
  <2> QED
    BY <2>1, OnlyFact, NotBusy, Zenon
<1> QED
  BY <1>1, <1>2, <1>3, <1>4, <1>5, <1>6, <1>7, <1>8, Zenon DEF Kinds

LEMMA KindsLocks ==
    ASSUME Types, Locks, NEW t \in Threads, Kinds(t)
    PROVE  Locks'
<1> SUFFICES ASSUME NEW u \in Threads, pc'[u] \in Busy PROVE fill_lock'[own'[u].s] = u
  BY Zenon DEF Locks
<1>1. Only(t) /\ (pc'[t] \in Busy => CommitStart(t) \/ CommitPad(t) \/ CommitWrite(t))
  BY OwnSteps, Zenon
<1>2. DOMAIN fill_lock = Shards
  BY Zenon DEF Types, Stored
<1>3. u # t => pc[u] \in Busy /\ own'[u] = own[u] /\ fill_lock[own[u].s] = u /\ own[u].s \in Shards
  BY <1>1, BusyShard, Zenon DEF Only, Locks
<1>4. CASE CommitStart(t)
  <2>1. /\ fill_lock' = [fill_lock EXCEPT ![own[t].s] = t] /\ own' = own
        /\ fill_lock[own[t].s] = NoThread /\ own[t].recs # <<>>
    BY <1>4, Zenon DEF CommitStart
  <2>2. own[t].s \in Shards
    BY <2>1, OwnFact, Zenon
  <2>3. CASE u = t
    BY <1>2, <2>1, <2>2, <2>3, Zenon
  <2>4. CASE u # t
    <3>1. own[u].s # own[t].s
      BY <1>3, <2>1, <2>4, Sizes, Zenon
    <3> QED
      BY <1>2, <1>3, <2>1, <2>2, <2>4, <3>1, Zenon
  <2> QED
    BY <2>3, <2>4
<1>5. CASE CommitPad(t)
  <2>1. pc[t] \in Busy /\ UNCHANGED <<own, fill_lock>>
    BY <1>5, Zenon DEF CommitPad, Busy
  <2> QED
    BY <1>3, <2>1, Zenon DEF Locks
<1>6. CASE CommitWrite(t)
  <2>1. pc[t] \in Busy
    BY <1>6, Zenon DEF CommitWrite, Busy
  <2>2. own[t].s \in Shards /\ fill_lock[own[t].s] = t
    BY <2>1, BusyShard, Zenon DEF Locks
  <2>3. CASE i[t] = Len(own[t].recs)
    <3>1. pc' = [pc EXCEPT ![t] = "idle"] /\ fill_lock' = [fill_lock EXCEPT ![own[t].s] = NoThread]
      BY <1>6, <2>3, Zenon DEF CommitWrite, Return
    <3>2. u # t
      BY <3>1, NotBusy, Zenon DEF Types, Control
    <3>3. own[u].s # own[t].s
      BY <1>3, <2>2, <3>2, Zenon
    <3> QED
      BY <1>2, <1>3, <2>2, <3>1, <3>2, <3>3, Zenon
  <2>4. CASE i[t] # Len(own[t].recs)
    <3>1. UNCHANGED <<own, fill_lock>>
      BY <1>6, <2>4, Zenon DEF CommitWrite
    <3> QED
      BY <1>3, <2>2, <3>1, Zenon
  <2> QED
    BY <2>3, <2>4
<1>7. CASE ~CommitStart(t) /\ ~CommitPad(t) /\ ~CommitWrite(t)
  <2>1. Stays(t) \/ Adds(t) \/ Takes(t) \/ CommitNothing(t) \/ Revert(t) \/ RevertEnd(t)
        \/ Changing(t)
    BY <1>7, Zenon DEF Kinds
  <2>2. UNCHANGED fill_lock
    BY <2>1, Zenon DEF Stays, Adds, Calm, Takes, CommitNothing, Revert, RevertEnd, Changing,
       Change, store
  <2>3. u # t
    BY <1>1, <1>7, Zenon
  <2> QED
    BY <1>3, <2>2, <2>3, Zenon
<1> QED
  BY <1>4, <1>5, <1>6, <1>7

(* The others' commits go on as before.                                     *)
LEMMA OthersFit ==
    ASSUME Types, Committing, NEW t \in Threads, Kinds(t), NEW u \in Threads, u # t
    PROVE  /\ FitsAt(pc'[u], Len(own'[u].recs), i'[u], next_fill'[own'[u].s])
           /\ WritingAt(pc'[u], own'[u], i'[u], log'[own'[u].s], next_fill'[own'[u].s])
<1>1. pc'[u] = pc[u] /\ own'[u] = own[u] /\ i'[u] = i[u]
  BY OwnSteps, Zenon DEF Only
<1>2. CASE pc[u] \in Busy
  <2>1. log'[own[u].s] = log[own[u].s] /\ next_fill'[own[u].s] = next_fill[own[u].s]
    BY <1>2, OthersLog, Zenon DEF Committing
  <2> QED
    BY <1>1, <2>1, Zenon DEF Committing, Fits, Writing
<1>3. CASE pc[u] \notin Busy
  <2>1. pc[u] # "pad" /\ pc[u] # "write"
    BY <1>3, Zenon DEF Busy
  <2> QED
    BY <1>1, <2>1, Zenon DEF FitsAt, WritingAt
<1> QED
  BY <1>2, <1>3

LEMMA NextFillType ==
    ASSUME Types, NEW s \in Shards
    PROVE  next_fill[s] \in Nat /\ log[s] \in Seq(LogRecs) /\ Len(log[s]) \in Nat
           /\ DOMAIN log[s] = 1 .. Len(log[s])
<1>1. next_fill[s] \in Nat /\ log[s] \in Seq(LogRecs)
  BY Zenon DEF Types, Stored
<1> QED
  BY <1>1

(* Records of a transaction are in the log only once it is being written.   *)
LEMMA NotYet ==
    ASSUME Types, Tids, NEW t \in Threads, pc[t] # "write", own[t].id # 0, NEW s \in Shards,
           NEW k \in DOMAIN log[s]
    PROVE  log[s][k].tid # own[t].id
<1>1. Closed(log[s][k].tid, s)
  BY Zenon DEF Tids
<1> QED
  BY <1>1, Zenon DEF Closed

LEMMA Unwritten ==
    ASSUME NEW q, NEW n \in Nat, DOMAIN q = 1 .. n, NEW id, \A k \in DOMAIN q : q[k].tid # id,
           NEW slot
    PROVE  Ending(q, n - 1 + 1, id, slot)
<1>1. \A k \in DOMAIN q : ~(k > n - 1 + 1)
  OBVIOUS
<1> QED
  BY <1>1, Zenon DEF Ending

LEMMA CommitStartFits ==
    ASSUME Types, Committing, NEW t \in Threads, CommitStart(t)
    PROVE  /\ FitsAt(pc'[t], Len(own'[t].recs), i'[t], next_fill'[own'[t].s])
           /\ WritingAt(pc'[t], own'[t], i'[t], log'[own'[t].s], next_fill'[own'[t].s])
<1> DEFINE s == own[t].s
           f == next_fill[s]
           m == Len(own[t].recs)
           n == Padding(f, m)
<1>1. /\ pc[t] = "log" /\ own[t].recs # <<>> /\ UNCHANGED <<own, next_fill, log>>
      /\ i' = [i EXCEPT ![t] = IF n = 0 THEN 1 ELSE n]
      /\ pc' = [pc EXCEPT ![t] = IF n = 0 THEN "write" ELSE "pad"]
  BY Zenon DEF CommitStart
<1>2. m \in Nat /\ m > 0 /\ s \in Shards /\ own[t].id # 0
  BY <1>1, OwnFact, OwnIndices, InConclusion, Zenon DEF At
<1>3. f \in Nat
  BY <1>2, NextFillType, Zenon
<1>4. i'[t] = (IF n = 0 THEN 1 ELSE n) /\ pc'[t] = (IF n = 0 THEN "write" ELSE "pad")
      /\ own'[t] = own[t]
  BY <1>1, Zenon DEF Types, Control
<1> HIDE DEF s, f, m, n
<1>5. Spare(f) \in Nat /\ Spare(f) >= 1
  BY <1>3, SpareStep
<1>6. CASE n = 0
  <2>1. m - 1 < Spare(f)
    <3>1. CASE m = 1
      BY <1>5, <3>1
    <3>2. CASE m # 1
      <4>1. m > 1 /\ Padding(f, m) = 0
        BY <1>2, <1>6, <3>2 DEF n
      <4>2. m <= Spare(f)
        BY <1>2, <1>3, <4>1, CommitFits, Zenon DEF Spare
      <4> QED
        BY <1>2, <1>5, <4>2
    <3> QED
      BY <3>1, <3>2
  <2>2. FitsAt("write", m, 1, f)
    BY <2>1, InConclusion, Zenon DEF FitsAt
  <2>3. \A k \in DOMAIN log[s] : log[s][k].tid # own[t].id
    BY <1>1, <1>2, NotYet, InConclusion, LabelsApart, Zenon DEF Committing
  <2>4. Ending(log[s], Len(log[s]) - 1 + 1, own[t].id, SlotAt(f))
    BY <1>2, <2>3, NextFillType, Unwritten, Zenon
  <2>5. WritingAt("write", own[t], 1, log[s], f)
    BY <2>4, Zenon DEF WritingAt
  <2> QED
    BY <1>1, <1>4, <1>6, <2>2, <2>5, Zenon DEF s, f, m
<1>7. CASE n # 0
  <2>1. n = Room(f)
    BY <1>7, Zenon DEF n, Padding
  <2>2. Spare(f) <= n /\ n <= Spare(f) + Headers
    BY <1>3, <2>1, RoomSpare
  <2>3. FitsAt("pad", m, n, f)
    BY <2>2, InConclusion, Zenon DEF FitsAt
  <2>4. WritingAt("pad", own[t], n, log[s], f)
    BY InConclusion, Zenon DEF WritingAt
  <2> QED
    BY <1>1, <1>4, <1>7, <2>3, <2>4, Zenon DEF s, f, m
<1> QED
  BY <1>6, <1>7

LEMMA CommitPadFits ==
    ASSUME Types, Committing, NEW t \in Threads, CommitPad(t)
    PROVE  /\ FitsAt(pc'[t], Len(own'[t].recs), i'[t], next_fill'[own'[t].s])
           /\ WritingAt(pc'[t], own'[t], i'[t], log'[own'[t].s], next_fill'[own'[t].s])
<1> DEFINE s == own[t].s
           f == next_fill[s]
           g == SlotAt(f) + 1
           m == Len(own[t].recs)
           j == i[t]
<1>1. pc[t] = "pad" /\ log_write_internal(s, Pad, "NO", 0) /\ own' = own
  BY Zenon DEF CommitPad
<1>2. m \in Nat /\ s \in Shards /\ own[t].id # 0 /\ j \in Nat /\ j > 0
  BY <1>1, OwnFact, OwnIndices, InConclusion, Zenon DEF At
<1>3. f \in Nat /\ Len(log[s]) \in Nat
  BY <1>2, NextFillType, Zenon
<1>4. m <= TrxLimit
  BY <1>2, OwnFact, Sizes DEF Contents
<1>5. \/ Spare(f) <= j /\ j <= Spare(f) + Headers
      \/ j + TotalSlots - 2 * Headers <= Spare(f)
  BY <1>1, Zenon DEF Committing, Fits, FitsAt
<1>6. next_fill'[s] = g
  BY <1>1, <1>2, LogFact, Zenon DEF Types
<1>7. \A k \in DOMAIN log'[s] : log'[s][k].tid # own[t].id
  <2> SUFFICES ASSUME NEW k \in DOMAIN log'[s] PROVE log'[s][k].tid # own[t].id
    OBVIOUS
  <2>1. CASE k = Len(log[s]) + 1
    <3>1. log'[s][Len(log[s]) + 1] = Entry(SlotAt(f), Pad, "NO", 0)
      BY <1>1, <1>2, LogLast, SMT
    <3>2. log'[s][k].tid = 0
      BY <2>1, <3>1, EntryFields, SMT
    <3> QED
      BY <1>2, <3>2, Zenon
  <2>2. CASE k # Len(log[s]) + 1
    <3>1. DOMAIN log'[s] = 1 .. Len(log[s]) + 1
      BY <1>1, <1>2, LogFact, Zenon DEF Types
    <3>2. k \in 1 .. Len(log[s])
      BY <1>3, <2>2, <3>1
    <3>3. log'[s][k] = log[s][k] /\ k \in DOMAIN log[s]
      BY <1>1, <1>2, <3>2, LogFact, Zenon DEF Types
    <3>4. log[s][k].tid # own[t].id
      BY <1>1, <1>2, <3>3, NotYet, InConclusion, Zenon DEF Committing
    <3> QED
      BY <3>3, <3>4, Zenon
  <2> QED
    BY <2>1, <2>2, Zenon
<1>8. Len(log'[s]) \in Nat /\ DOMAIN log'[s] = 1 .. Len(log'[s])
  <2>1. Len(log'[s]) = Len(log[s]) + 1 /\ DOMAIN log'[s] = 1 .. Len(log[s]) + 1
    BY <1>1, <1>2, LogFact, Zenon DEF Types
  <2> QED
    BY <1>3, <2>1
<1>9. /\ Spare(f) \in Nat /\ Spare(f) >= 1 /\ Spare(g) \in Nat
      /\ Spare(f) >= 2 => Spare(g) = Spare(f) - 1
      /\ Spare(f) = 1 => Spare(g) = TotalSlots - Headers
  BY <1>3, SpareStep, Zenon
<1>10. Headers \in Nat /\ TotalSlots \in Nat /\ TrxLimit \in Nat /\ TrxLimit >= 2
       /\ TrxLimit + 2 * Headers <= TotalSlots
  BY LogSize
<1> HIDE DEF s, f, g, m, j
<1>11. CASE j = 1
  <2>1. m - 1 < Spare(g)
    BY <1>2, <1>4, <1>5, <1>9, <1>10, <1>11
  <2>2. FitsAt("write", m, 1, g)
    BY <2>1, InConclusion, Zenon DEF FitsAt
  <2>3. Ending(log'[s], Len(log'[s]) - 1 + 1, own[t].id, SlotAt(g))
    BY <1>7, <1>8, Unwritten, Zenon
  <2>4. WritingAt("write", own[t], 1, log'[s], g)
    BY <2>3, Zenon DEF WritingAt
  <2>5. pc'[t] = "write" /\ i'[t] = 1
    BY <1>1, <1>11, Zenon DEF CommitPad, j, Types, Control
  <2> QED
    BY <1>1, <1>6, <2>2, <2>4, <2>5, Zenon DEF s, m
<1>12. CASE j # 1
  <2>1. \/ Spare(g) <= j - 1 /\ j - 1 <= Spare(g) + Headers
        \/ j - 1 + TotalSlots - 2 * Headers <= Spare(g)
    BY <1>2, <1>5, <1>9, <1>10, <1>12
  <2>2. FitsAt("pad", m, j - 1, g)
    BY <2>1, InConclusion, Zenon DEF FitsAt
  <2>3. WritingAt("pad", own[t], j - 1, log'[s], g)
    BY InConclusion, Zenon DEF WritingAt
  <2>4. pc'[t] = "pad" /\ i'[t] = j - 1
    BY <1>1, <1>12, Zenon DEF CommitPad, j, Types, Control
  <2> QED
    BY <1>1, <1>6, <2>2, <2>3, <2>4, Zenon DEF s, m
<1> QED
  BY <1>11, <1>12

LEMMA CommitWriteFits ==
    ASSUME Types, Committing, NEW t \in Threads, CommitWrite(t)
    PROVE  /\ FitsAt(pc'[t], Len(own'[t].recs), i'[t], next_fill'[own'[t].s])
           /\ WritingAt(pc'[t], own'[t], i'[t], log'[own'[t].s], next_fill'[own'[t].s])
<1> DEFINE s == own[t].s
           f == next_fill[s]
           g == SlotAt(f) + 1
           m == Len(own[t].recs)
           j == i[t]
           n == Len(log[s])
           r == own[t].recs[j]
<1>1. /\ j \in Nat /\ j > 0 /\ j <= m /\ pc[t] = "write" /\ m \in Nat
  BY WritingRec, OwnIndices, Zenon
<1>2. CASE j = m
  <2>1. pc'[t] = "idle"
    BY <1>2, Zenon DEF CommitWrite, Return, Types, Control
  <2>2. "idle" # "pad" /\ "idle" # "write"
    OBVIOUS
  <2> QED
    BY <2>1, <2>2, Zenon DEF FitsAt, WritingAt
<1>3. CASE j # m
  <2>1. /\ log_write_internal(s, r, "OP", own[t].id)
        /\ pc' = pc /\ own' = own /\ i' = [i EXCEPT ![t] = j + 1]
    BY <1>3, Zenon DEF CommitWrite
  <2>2. pc'[t] = "write" /\ own'[t] = own[t] /\ i'[t] = j + 1
    BY <1>1, <2>1, Zenon DEF Types, Control
  <2>3. s \in Shards
    BY <1>1, BusyShard, Zenon DEF Busy
  <2>4. f \in Nat /\ n \in Nat /\ DOMAIN log[s] = 1 .. n
    BY <2>3, NextFillType, Zenon
  <2>5. /\ next_fill'[s] = g /\ Len(log'[s]) = n + 1 /\ DOMAIN log'[s] = 1 .. n + 1
        /\ \A k \in 1 .. n : log'[s][k] = log[s][k]
        /\ log'[s][n + 1] = Entry(SlotAt(f), r, "OP", own[t].id)
    <3>1. log'[s][n + 1] = Entry(SlotAt(f), r, "OP", own[t].id)
      BY <2>1, <2>3, LogLast, SMT
    <3>2. /\ next_fill'[s] = g /\ Len(log'[s]) = n + 1 /\ DOMAIN log'[s] = 1 .. n + 1
          /\ \A k \in 1 .. n : log'[s][k] = log[s][k]
      BY <2>1, <2>3, LogFact, Zenon DEF Types
    <3> QED
      BY <3>1, <3>2, Zenon
  <2>6. m - j < Spare(f)
    BY <1>1, Zenon DEF Committing, Fits, FitsAt
  <2>7. Ending(log[s], n - j + 1, own[t].id, SlotAt(f))
    BY <1>1, Zenon DEF Committing, Writing, WritingAt
  <2>8. /\ Spare(f) \in Nat /\ Spare(g) \in Nat
        /\ Spare(f) >= 2 => /\ Spare(g) = Spare(f) - 1
                            /\ SlotAt(g) \div TotalSlots = SlotAt(f) \div TotalSlots
    BY <2>4, SpareStep, Zenon
  <2>9. log'[s][n + 1].tid = own[t].id /\ log'[s][n + 1].trx = "OP"
        /\ log'[s][n + 1].slot = SlotAt(f)
    BY <2>5, EntryFields, SMT
  <2> HIDE DEF s, f, g, m, j, n, r
  <2>10. Spare(f) >= 2
    BY <1>1, <1>3, <2>6, <2>8
  <2>11. m - (j + 1) < Spare(g)
    BY <1>1, <2>6, <2>8, <2>10
  <2>12. FitsAt("write", m, j + 1, g)
    BY <2>11, InConclusion, Zenon DEF FitsAt
  <2>13. SlotAt(g) \div TotalSlots = SlotAt(f) \div TotalSlots
    BY <2>8, <2>10, Zenon
  <2>14. Ending(log'[s], (n + 1) - (j + 1) + 1, own[t].id, SlotAt(g))
    <3> SUFFICES ASSUME NEW k \in 1 .. n + 1
                 PROVE  IF k > (n + 1) - (j + 1) + 1
                        THEN /\ log'[s][k].tid = own[t].id /\ log'[s][k].trx = "OP"
                             /\ log'[s][k].slot \div TotalSlots = SlotAt(g) \div TotalSlots
                        ELSE log'[s][k].tid # own[t].id
      BY <2>5, Zenon DEF Ending
    <3>1. k > (n + 1) - (j + 1) + 1 <=> k > n - j + 1
      BY <1>1, <2>4
    <3>2. CASE k \in 1 .. n
      <4>1. log'[s][k] = log[s][k] /\ k \in DOMAIN log[s]
        BY <2>4, <2>5, <3>2, Zenon
      <4> QED
        BY <2>7, <2>13, <3>1, <4>1, Zenon DEF Ending
    <3>3. CASE k = n + 1
      <4>1. k > n - j + 1
        BY <1>1, <2>4, <3>3
      <4> QED
        BY <2>9, <2>13, <3>1, <3>3, <4>1, Zenon
    <3> QED
      BY <2>4, <3>2, <3>3
  <2>15. WritingAt("write", own[t], j + 1, log'[s], g)
    BY <2>5, <2>14, Zenon DEF WritingAt
  <2> QED
    BY <2>2, <2>5, <2>12, <2>15, Zenon DEF s, m
<1> QED
  BY <1>2, <1>3

LEMMA KindsFits ==
    ASSUME Types, Committing, NEW t \in Threads, Kinds(t)
    PROVE  Fits' /\ Writing'
<1>1. ASSUME NEW u \in Threads
      PROVE  /\ FitsAt(pc'[u], Len(own'[u].recs), i'[u], next_fill'[own'[u].s])
             /\ WritingAt(pc'[u], own'[u], i'[u], log'[own'[u].s], next_fill'[own'[u].s])
  <2>1. CASE u # t
    BY <2>1, OthersFit, Zenon
  <2>2. CASE u = t /\ pc'[t] \in Busy
    BY <2>2, OwnSteps, CommitStartFits, CommitPadFits, CommitWriteFits, Zenon
  <2>3. CASE u = t /\ pc'[t] \notin Busy
    <3>1. pc'[u] # "pad" /\ pc'[u] # "write"
      BY <2>3, Zenon DEF Busy
    <3> QED
      BY <3>1, Zenon DEF FitsAt, WritingAt
  <2> QED
    BY <2>1, <2>2, <2>3
<1>2. (\A u \in Threads : FitsAt(pc'[u], Len(own'[u].recs), i'[u], next_fill'[own'[u].s])) => Fits'
  BY Zenon DEF Fits, FitsAt, Spare, Room, Headers
<1>3. (\A u \in Threads : WritingAt(pc'[u], own'[u], i'[u], log'[own'[u].s],
      next_fill'[own'[u].s])) => Writing'
  BY Zenon DEF Writing, WritingAt, Ending
<1> QED
  BY <1>1, <1>2, <1>3, Zenon

(* IDs are drawn in ascending order.                                        *)
IdStep ==
    /\ next_trx_id' \in Nat /\ next_trx_id' >= next_trx_id
    /\ \A u \in Threads : pc'[u] = "add" =>
         \/ pc[u] = "add" /\ trxid'[u] = trxid[u]
         \/ trxid'[u] > next_trx_id

LEMMA IdFrame ==
    ASSUME Types, UNCHANGED next_trx_id, NEW t \in Threads, NEW l, l # "add",
           pc' = [pc EXCEPT ![t] = l],
           NEW d, trxid' = [trxid EXCEPT ![t] = d]
    PROVE  IdStep
<1>1. next_trx_id \in Nat /\ DOMAIN pc = Threads /\ DOMAIN trxid = Threads
  BY Zenon DEF Types, IInv, IdsDrawn, Control
<1>2. next_trx_id >= next_trx_id
  BY <1>1
<1> QED
  BY <1>1, <1>2, Zenon DEF IdStep

LEMMA SameTrxid ==
    ASSUME Types, NEW t \in Threads
    PROVE  trxid = [trxid EXCEPT ![t] = trxid[t]]
BY Zenon DEF Types, IInv, IdsDrawn

LEMMA StartIds ==
    ASSUME Types, NEW t \in Threads, mcd_trx_start(t)
    PROVE  IdStep
<1>1. next_trx_id \in Nat /\ DOMAIN pc = Threads /\ DOMAIN trxid = Threads
  BY Zenon DEF Types, IInv, IdsDrawn, Control
<1>2. CASE Found(trxid[t])
  <2>1. UNCHANGED <<trxid, next_trx_id>> /\ pc' = [pc EXCEPT ![t] = "idle"]
    BY <1>2, Zenon DEF mcd_trx_start, Return
  <2>2. trxid' = [trxid EXCEPT ![t] = trxid[t]] /\ "idle" # "add"
    BY <2>1, SameTrxid, Zenon
  <2> QED
    BY <2>1, <2>2, IdFrame, Zenon
<1>3. CASE ~Found(trxid[t])
  <2>1. /\ next_trx_id' = next_trx_id + 1 /\ trxid' = [trxid EXCEPT ![t] = next_trx_id + 1]
        /\ pc' = [pc EXCEPT ![t] = "add"]
    BY <1>3, Zenon DEF mcd_trx_start
  <2>2. next_trx_id + 1 \in Nat /\ next_trx_id + 1 >= next_trx_id /\ next_trx_id + 1 > next_trx_id
    BY <1>1
  <2> QED
    BY <1>1, <2>1, <2>2, Zenon DEF IdStep
<1> QED
  BY <1>2, <1>3

LEMMA NextIds ==
    ASSUME Types, Next
    PROVE  IdStep
<1>1. PICK t \in Threads : Calls(t) \/ Step(t)
  BY Zenon DEF Next
<1>2. CASE mcd_trx_start(t)
  BY <1>2, StartIds, Zenon
<1>3. ASSUME ~mcd_trx_start(t)
      PROVE  UNCHANGED next_trx_id /\ (UNCHANGED trxid \/ \E d : trxid' = [trxid EXCEPT ![t] = d])
  <2>1. CASE Calls(t)
    BY <2>1, Zenon DEF Calls, Invoke, table
  <2>2. CASE trx_add(t) \/ mcd_trx_attach(t) \/ Attach(t) \/ mcd_trx_detach(t) \/ mcd_trx_id(t)
    BY <2>2, Zenon DEF trx_add, mcd_trx_attach, Attach, mcd_trx_detach, mcd_trx_id, table
  <2>3. CASE mcd_trx_commit(t) \/ mcd_trx_rollback(t) \/ mcd_trx_commit_id(t)
    BY <2>3, Zenon DEF mcd_trx_commit, mcd_trx_rollback, mcd_trx_commit_id
  <2>4. CASE CommitStart(t) \/ CommitPad(t) \/ CommitWrite(t) \/ CommitNothing(t)
    BY <2>4, Zenon DEF CommitStart, CommitPad, CommitWrite, CommitNothing, table
  <2>5. CASE Revert(t) \/ RevertEnd(t)
    BY <2>5, Zenon DEF Revert, RevertEnd, table
  <2>6. CASE Put(t) \/ Delete(t)
    BY <2>6, Zenon DEF Put, Delete, Change, Captured, Logged, table
  <2> QED
    BY <1>1, <1>3, <2>1, <2>2, <2>3, <2>4, <2>5, <2>6, Zenon DEF Step
<1>4. ASSUME ~mcd_trx_start(t)
      PROVE  \E l : pc' = [pc EXCEPT ![t] = l] /\ l # "add"
  <2>1. CASE Calls(t)
    <3>1. PICK op, a :
            /\ op \in {"start", "detach", "id", "commit", "rollback", "attach", "commit_id",
                      "put", "delete"}
            /\ Invoke(t, op, a)
      BY <2>1, SMT DEF Calls
    <3>2. op # "add"
      BY <3>1
    <3> QED
      BY <3>1, <3>2, Zenon DEF Invoke
  <2>2. CASE trx_add(t) \/ mcd_trx_attach(t) \/ Attach(t) \/ mcd_trx_detach(t) \/ mcd_trx_id(t)
    <3>1. \E l \in {"idle", "attach2"} : pc' = [pc EXCEPT ![t] = l]
      BY <2>2, Zenon DEF trx_add, mcd_trx_attach, Attach, mcd_trx_detach, mcd_trx_id, Return
    <3>2. \A l \in {"idle", "attach2"} : l # "add"
      OBVIOUS
    <3> QED
      BY <3>1, <3>2, Zenon
  <2>3. CASE mcd_trx_commit(t) \/ mcd_trx_rollback(t) \/ mcd_trx_commit_id(t)
    <3>1. \E l \in {"idle", "log", "revert"} : pc' = [pc EXCEPT ![t] = l]
      BY <2>3, Zenon DEF mcd_trx_commit, mcd_trx_rollback, mcd_trx_commit_id, trx_del, Return
    <3>2. \A l \in {"idle", "log", "revert"} : l # "add"
      OBVIOUS
    <3> QED
      BY <3>1, <3>2, Zenon
  <2>4. CASE CommitStart(t) \/ CommitPad(t) \/ CommitWrite(t) \/ CommitNothing(t)
    <3>1. \E l \in {"idle", "pad", "write"} : pc' = [pc EXCEPT ![t] = l]
      BY <2>4, SamePc, Zenon DEF CommitStart, CommitPad, CommitWrite, CommitNothing, Return
    <3>2. \A l \in {"idle", "pad", "write"} : l # "add"
      OBVIOUS
    <3> QED
      BY <3>1, <3>2, Zenon
  <2>5. CASE Revert(t) \/ RevertEnd(t)
    <3>1. pc' = [pc EXCEPT ![t] = "revert"] \/ pc' = [pc EXCEPT ![t] = "idle"]
      BY <2>5, SamePc, Zenon DEF Revert, RevertEnd, Return
    <3>2. "revert" # "add" /\ "idle" # "add"
      OBVIOUS
    <3> QED
      BY <3>1, <3>2, Zenon
  <2>6. CASE Put(t) \/ Delete(t)
    <3>1. pc' = [pc EXCEPT ![t] = "idle"]
      BY <2>6, Zenon DEF Put, Delete, Change, Return
    <3>2. "idle" # "add"
      OBVIOUS
    <3> QED
      BY <3>1, <3>2, Zenon
  <2> QED
    BY <1>1, <1>4, <2>1, <2>2, <2>3, <2>4, <2>5, <2>6, Zenon DEF Step
<1>5. CASE ~mcd_trx_start(t)
  <2>1. PICK l : pc' = [pc EXCEPT ![t] = l] /\ l # "add"
    BY <1>4, <1>5
  <2>2. \E d : trxid' = [trxid EXCEPT ![t] = d]
    BY <1>3, <1>5, SameTrxid, Zenon
  <2> QED
    BY <1>3, <1>5, <2>1, <2>2, IdFrame, Zenon
<1> QED
  BY <1>2, <1>5

(* How a thread's transaction changes.                                      *)
LEMMA OwnChange ==
    ASSUME Types, NEW t \in Threads, Kinds(t)
    PROVE  \/ own'[t] = own[t] \/ own'[t].id = 0 \/ own'[t] \in trxtable
           \/ Revert(t) /\ own'[t].id = own[t].id
<1>1. DOMAIN own = Threads /\ NoTrx.id = 0
  BY Zenon DEF Types, IInv, IdsDrawn, NoTrx
<1>2. CASE Stays(t) \/ Adds(t) \/ CommitStart(t) \/ CommitPad(t) \/ Changing(t)
  BY <1>2, Zenon DEF Stays, Adds, Calm, CommitStart, CommitPad, Changing, Change
<1>3. CASE Takes(t)
  BY <1>1, <1>3, Zenon DEF Takes
<1>4. CASE CommitWrite(t) \/ CommitNothing(t) \/ RevertEnd(t)
  <2>1. own' = own \/ own' = [own EXCEPT ![t] = NoTrx]
    BY <1>4, Zenon DEF CommitWrite, CommitNothing, RevertEnd
  <2> QED
    BY <1>1, <2>1, Zenon
<1>5. CASE Revert(t)
  <2>1. PICK x : own' = [own EXCEPT ![t] = x] /\ x.id = own[t].id
    BY <1>5, RevertOwn, OwnFact, MarkedFact, Zenon
  <2> QED
    BY <1>1, <1>5, <2>1, Zenon
<1> QED
  BY <1>2, <1>3, <1>4, <1>5, Zenon DEF Kinds

LEMMA WriteOnly ==
    ASSUME Types, NEW t \in Threads, Kinds(t), pc[t] = "write"
    PROVE  CommitWrite(t)
<1>1. pc[t] \in Concluding /\ pc[t] # "log" /\ pc[t] # "pad" /\ pc[t] # "revert"
      /\ pc[t] \notin {"put", "delete"}
  BY SMT DEF Concluding
<1> QED
  BY <1>1, Zenon DEF Kinds, Stays, Adds, Calm, Takes, CommitStart, CommitPad, CommitNothing, Revert,
     RevertEnd, Changing

LEMMA WriteLast ==
    ASSUME Types, NEW t \in Threads, CommitWrite(t), i[t] = Len(own[t].recs)
    PROVE  own'[t].id = 0 /\ pc'[t] = "idle"
<1>1. pc' = [pc EXCEPT ![t] = "idle"] /\ own' = [own EXCEPT ![t] = NoTrx]
  BY Zenon DEF CommitWrite, Return
<1>2. NoTrx.id = 0
  BY Zenon DEF NoTrx
<1>3. pc'[t] = "idle" /\ own'[t] = NoTrx
  BY <1>1, Zenon DEF Types, IInv, IdsDrawn, Control
<1> QED
  BY <1>2, <1>3

(* What stays true of an ID with records in the log.                        *)
ClosedNext(d, s) ==
    /\ d <= next_trx_id'
    /\ d # 0 => /\ \A x \in trxtable' : x.id # d
                /\ \A t \in Threads : pc'[t] = "add" => trxid'[t] # d
                /\ \A t \in Threads : own'[t].id = d => pc'[t] = "write" /\ own'[t].s = s

LEMMA TidsNext ==
    (\A s \in Shards : \A k \in DOMAIN log'[s] : ClosedNext(log'[s][k].tid, s)) => Tids'
BY Zenon DEF Tids, Closed, ClosedNext

LEMMA ClosedKept ==
    ASSUME Types, IdStep, NEW t \in Threads, Kinds(t), NEW d \in Nat, NEW s, Closed(d, s)
    PROVE  ClosedNext(d, s)
<1>1. next_trx_id \in Nat /\ d <= next_trx_id /\ d <= next_trx_id'
  BY DEF Closed, IdStep, Types, IInv, IdsDrawn
<1>2. CASE d = 0
  BY <1>1, <1>2, Zenon DEF ClosedNext
<1>3. CASE d # 0
  <2>1. /\ \A x \in trxtable : x.id # d
        /\ \A u \in Threads : pc[u] = "add" => trxid[u] # d
        /\ \A u \in Threads : own[u].id = d => pc[u] = "write" /\ own[u].s = s
    BY <1>3, Zenon DEF Closed
  <2>2. ASSUME NEW u \in Threads, pc'[u] = "add" PROVE trxid'[u] # d
    <3>1. CASE pc[u] = "add" /\ trxid'[u] = trxid[u]
      BY <2>1, <3>1, Zenon
    <3>2. CASE trxid'[u] > next_trx_id
      BY <1>1, <3>2
    <3> QED
      BY <2>2, <3>1, <3>2, Zenon DEF IdStep
  <2>3. ASSUME NEW x \in trxtable' PROVE x.id # d
    <3>1. CASE Adds(t)
      <4>1. mcd_trx_alloc(trxid[t]).id # d
        BY <2>1, <3>1, Zenon DEF Adds, mcd_trx_alloc
      <4> QED
        BY <2>1, <3>1, <4>1, Zenon DEF Adds
    <3>2. CASE Changing(t)
      <4>1. PICK o \in Objs, r \in Recs : Change(t, o, r)
        BY <3>2, Zenon DEF Changing
      <4>2. ASSUME NEW mem \in BOOLEAN, Captured(t, o[1], r, mem) PROVE x.id # d
        <5> DEFINE y == Capture(trx_find(trxid[t]), o[1], r, mem)
        <5>1. /\ trx_find(trxid[t]) \in trxtable /\ y.id = trx_find(trxid[t]).id
              /\ trxtable' = (trxtable \ {trx_find(trxid[t])}) \cup {y}
          BY <4>2, CapturedFact
        <5> HIDE DEF y
        <5> QED
          BY <2>1, <5>1, Zenon
      <4>3. ASSUME Logged(t, o[1], r) PROVE x.id # d
        BY <2>1, <4>3, Zenon DEF Logged
      <4> QED
        BY <4>1, <4>2, <4>3, Zenon DEF Change
    <3>3. CASE ~Adds(t) /\ ~Changing(t)
      <4>1. trxtable' \subseteq trxtable
        BY <3>3, Zenon DEF Kinds, Stays, Takes, CommitStart, CommitPad, CommitWrite, CommitNothing,
           Revert, RevertEnd, table
      <4> QED
        BY <2>1, <4>1, Zenon
    <3> QED
      BY <3>1, <3>2, <3>3
  <2>4. ASSUME NEW u \in Threads, own'[u].id = d PROVE pc'[u] = "write" /\ own'[u].s = s
    <3>1. CASE u # t
      BY <2>1, <2>4, <3>1, OwnSteps, Zenon DEF Only
    <3>2. CASE u = t
      <4>1. CASE own'[t] = own[t]
        <5>1. pc[t] = "write" /\ own[t].s = s
          BY <2>1, <2>4, <3>2, <4>1, Zenon
        <5>2. own[t].id # 0
          BY <1>3, <2>4, <3>2, <4>1, Zenon
        <5>3. CommitWrite(t)
          BY <5>1, WriteOnly, Zenon
        <5>4. i[t] # Len(own[t].recs)
          BY <4>1, <5>2, <5>3, WriteLast, Zenon
        <5> QED
          BY <3>2, <4>1, <5>1, <5>3, <5>4, Zenon DEF CommitWrite
      <4>2. CASE own'[t].id = 0
        BY <1>3, <2>4, <3>2, <4>2, Zenon
      <4>3. CASE own'[t] \in trxtable
        BY <2>1, <2>4, <3>2, <4>3, Zenon
      <4>4. CASE Revert(t) /\ own'[t].id = own[t].id
        <5>1. pc[t] = "revert"
          BY <4>4, Zenon DEF Revert
        <5> QED
          BY <2>1, <2>4, <3>2, <4>4, <5>1, LabelsApart, Zenon
      <4> QED
        BY <4>1, <4>2, <4>3, <4>4, OwnChange, Zenon
    <3> QED
      BY <3>1, <3>2
  <2> QED
    BY <1>1, <2>2, <2>3, <2>4, Zenon DEF ClosedNext
<1> QED
  BY <1>2, <1>3, Zenon

LEMMA TidType ==
    ASSUME Types, NEW s \in Shards, NEW k \in DOMAIN log[s]
    PROVE  log[s][k] \in LogRecs /\ log[s][k].tid \in Nat
<1>1. log[s] \in Seq(LogRecs)
  BY NextFillType, Zenon
<1>2. log[s][k] \in LogRecs
  BY <1>1
<1> QED
  BY <1>2, Zenon DEF LogRecs

(* The ID of a transaction that is being written.                           *)
LEMMA ClosedOwn ==
    ASSUME Types, NEW t \in Threads, CommitWrite(t), IdStep,
           NEW d, d = own[t].id, NEW s, s = own[t].s
    PROVE  ClosedNext(d, s)
<1>1. d \in Nat /\ d <= next_trx_id /\ next_trx_id \in Nat
  BY DEF Types, IInv, IdsDrawn
<1>2. d <= next_trx_id'
  BY <1>1 DEF IdStep
<1>3. UNCHANGED trxtable /\ pc[t] = "write"
  BY Zenon DEF CommitWrite, table
<1>4. d # 0
  BY <1>3, OwnFact, InConclusion, Zenon DEF At
<1>5. \A x \in trxtable' : x.id # d
  BY <1>3, Zenon DEF Types, IInv, OneConcluder
<1>6. ASSUME NEW u \in Threads, pc'[u] = "add" PROVE trxid'[u] # d
  <2>1. CASE pc[u] = "add" /\ trxid'[u] = trxid[u]
    BY <2>1, Zenon DEF Types, IInv, FreshId
  <2>2. CASE trxid'[u] > next_trx_id
    BY <1>1, <2>2
  <2> QED
    BY <1>6, <2>1, <2>2, Zenon DEF IdStep
<1>7. ASSUME NEW u \in Threads, own'[u].id = d PROVE pc'[u] = "write" /\ own'[u].s = own[t].s
  <2>1. CASE u # t
    <3>1. own'[u] = own[u]
      BY <2>1, CommitWriteOnly, Zenon DEF Only
    <3> QED
      BY <1>4, <1>7, <2>1, <3>1, Zenon DEF Types, IInv, OneConcluder
  <2>2. CASE u = t
    <3>1. i[t] # Len(own[t].recs)
      BY <1>4, <1>7, <2>2, WriteLast, Zenon
    <3>2. UNCHANGED <<pc, own>>
      BY <3>1, Zenon DEF CommitWrite
    <3> QED
      BY <1>3, <2>2, <3>2, Zenon
  <2> QED
    BY <2>1, <2>2
<1> QED
  BY <1>2, <1>5, <1>6, <1>7, Zenon DEF ClosedNext

LEMMA KindsTids ==
    ASSUME Types, Committing, IdStep, NEW t \in Threads, Kinds(t)
    PROVE  Tids'
<1>1. SUFFICES ASSUME NEW s \in Shards, NEW k \in DOMAIN log'[s], NEW d, d = log'[s][k].tid
               PROVE  ClosedNext(d, s)
  BY TidsNext, Zenon
<1>2. ASSUME k \in DOMAIN log[s], log'[s][k] = log[s][k] PROVE ClosedNext(d, s)
  <2>1. d \in Nat /\ Closed(d, s)
    <3>1. log[s][k].tid \in Nat /\ Closed(log[s][k].tid, s)
      BY <1>2, TidType, Zenon DEF Committing, Tids
    <3>2. d = log[s][k].tid
      BY <1>1, <1>2
    <3> QED
      BY <3>1, <3>2
  <2> QED
    BY <2>1, ClosedKept, Zenon
<1>3. CASE UNCHANGED <<log, next_fill>>
  BY <1>2, <1>3, Zenon
<1>4. ASSUME NEW z, NEW r, NEW flag, NEW id, Appends(t, z, r, flag, id) PROVE ClosedNext(d, s)
  <2>1. z \in Shards /\ log_write_internal(z, r, flag, id)
    BY <1>4, Zenon DEF Appends
  <2>2. CASE s # z
    BY <1>2, <2>1, <2>2, LogFact, Zenon DEF Types
  <2>3. CASE s = z /\ k # Len(log[s]) + 1
    <3>1. k \in 1 .. Len(log[s]) + 1 /\ Len(log[s]) \in Nat
      BY <2>1, <2>3, LogFact, Zenon DEF Types
    <3>2. k \in 1 .. Len(log[s])
      BY <2>3, <3>1
    <3>3. k \in DOMAIN log[s] /\ log'[s][k] = log[s][k]
      BY <2>1, <2>3, <3>2, LogFact, Zenon DEF Types
    <3> QED
      BY <1>2, <3>3, Zenon
  <2>4. CASE s = z /\ k = Len(log[s]) + 1
    <3>1. log'[z][Len(log[z]) + 1] = Entry(SlotAt(next_fill[z]), r, flag, id)
      BY <2>1, LogLast, SMT
    <3>2. d = id
      BY <1>1, <2>4, <3>1, EntryFields, SMT
    <3>3. CASE id = 0
      <4>1. d = 0 /\ 0 <= next_trx_id'
        BY <3>2, <3>3 DEF IdStep
      <4> QED
        BY <4>1, Zenon DEF ClosedNext
    <3>4. CASE CommitWrite(t) /\ z = own[t].s /\ id = own[t].id
      BY <2>4, <3>2, <3>4, ClosedOwn, Zenon
    <3> QED
      BY <1>4, <3>3, <3>4, Zenon DEF Appends
  <2> QED
    BY <2>2, <2>3, <2>4
<1> QED
  BY <1>3, <1>4, LogStep, Zenon DEF Committing

LEMMA KindsWhole ==
    ASSUME Types, Committing, NEW t \in Threads, Kinds(t)
    PROVE  TrxWhole'
<1> SUFFICES ASSUME NEW s \in Shards PROVE Whole(log'[s])
  BY WholeDefP, Zenon
<1>1. Whole(log[s])
  BY WholeDef, Zenon DEF Committing
<1>2. CASE UNCHANGED <<log, next_fill>>
  BY <1>1, <1>2, Zenon
<1>3. ASSUME NEW z, NEW r, NEW flag, NEW id, Appends(t, z, r, flag, id) PROVE Whole(log'[s])
  <2>1. z \in Shards /\ log_write_internal(z, r, flag, id)
    BY <1>3, Zenon DEF Appends
  <2>2. CASE s # z
    BY <1>1, <2>1, <2>2, LogFact, Zenon DEF Types
  <2>3. CASE s = z
    <3> DEFINE n == Len(log[s])
    <3>1. /\ n \in Nat /\ DOMAIN log[s] = 1 .. n /\ DOMAIN log'[s] = 1 .. n + 1
          /\ \A k \in 1 .. n : log'[s][k] = log[s][k]
          /\ log'[s][n + 1] = Entry(SlotAt(next_fill[s]), r, flag, id)
      <4>1. log'[s][n + 1] = Entry(SlotAt(next_fill[s]), r, flag, id)
        BY <2>1, <2>3, LogLast, SMT
      <4>2. /\ n \in Nat /\ DOMAIN log[s] = 1 .. n /\ DOMAIN log'[s] = 1 .. n + 1
            /\ \A k \in 1 .. n : log'[s][k] = log[s][k]
        BY <2>1, <2>3, LogFact, Zenon DEF Types
      <4> QED
        BY <4>1, <4>2, Zenon
    <3>2. log'[s][n + 1].tid = id /\ log'[s][n + 1].slot = SlotAt(next_fill[s])
      BY <3>1, EntryFields, SMT
    <3> HIDE DEF n
    <3>3. CASE id = 0
      BY <1>1, <3>1, <3>2, <3>3, WholeAppend, Zenon
    <3>4. CASE CommitWrite(t) /\ z = own[t].s /\ id = own[t].id
      <4>1. pc[t] = "write" /\ i[t] \in Nat
        BY <3>4, WritingRec, Zenon
      <4>2. Ending(log[s], n - i[t] + 1, id, SlotAt(next_fill[s]))
        BY <2>3, <3>4, <4>1, Zenon DEF Committing, Writing, WritingAt, n
      <4>3. n - i[t] + 1 \in Int
        BY <3>1, <4>1
      <4>4. \E first \in Int : Ending(log[s], first, log'[s][n + 1].tid, log'[s][n + 1].slot)
        BY <3>2, <4>2, <4>3, Zenon
      <4> QED
        BY <1>1, <3>1, <4>4, WholeAppend, Zenon
    <3> QED
      BY <1>3, <3>3, <3>4, Zenon DEF Appends
  <2> QED
    BY <2>2, <2>3
<1> QED
  BY <1>2, <1>3, LogStep, Zenon DEF Committing

LEMMA NextCommitting == Types /\ Committing /\ [Next]_vars => Committing'
<1> SUFFICES ASSUME Types, Committing, [Next]_vars PROVE Committing'
  OBVIOUS
<1>1. CASE Next
  <2>1. IdStep
    BY <1>1, NextIds, Zenon
  <2>2. PICK t \in Threads : Kinds(t)
    BY <1>1, NextKinds, Zenon
  <2> QED
    BY <2>1, <2>2, KindsLocks, KindsFits, KindsTids, KindsWhole, Zenon DEF Committing
<1>2. CASE UNCHANGED vars
  <2>1. UNCHANGED <<pc, own, i, fill_lock, next_fill, log, trxtable, trxid, next_trx_id>>
    BY <1>2, Zenon DEF vars, table, store
  <2>2. Locks' /\ Fits' /\ Writing'
    BY <2>1, Zenon DEF Committing, Locks, Fits, Writing
  <2>3. TrxWhole'
    BY <2>1, WholeDef, WholeDefP, Zenon DEF Committing
  <2>4. Tids'
    <3>1. \A d, s : Closed(d, s) => ClosedNext(d, s)
      BY <2>1, Zenon DEF Closed, ClosedNext
    <3> QED
      BY <2>1, <3>1, TidsNext, Zenon DEF Committing, Tids
  <2> QED
    BY <2>2, <2>3, <2>4, Zenon DEF Committing
<1> QED
  BY <1>1, <1>2

LEMMA InitCommitting == Init => Committing
<1> SUFFICES ASSUME Init PROVE Committing
  OBVIOUS
<1>1. \A t \in Threads : pc[t] = "idle"
  BY Zenon DEF Init
<1>2. \A s \in Shards : \A k \in DOMAIN log[s] : FALSE
  BY DEF Init
<1>3. "idle" # "pad" /\ "idle" # "write"
  OBVIOUS
<1>4. Locks
  BY <1>1, NotBusy, Zenon DEF Locks
<1>5. Fits /\ Writing
  BY <1>1, <1>3, Zenon DEF Fits, Writing, FitsAt, WritingAt
<1>6. Tids /\ TrxWhole
  BY <1>2, Zenon DEF Tids, TrxWhole
<1> QED
  BY <1>4, <1>5, <1>6, Zenon DEF Committing

(* A transaction commits whole (trx_commit_internal, mcd_rec.c): in every   *)
(* log its records are one run, in one of the two halves, and only the last *)
(* is marked as the last. It holds for any threads, any number of shards    *)
(* and transactions and every size of page and log, whatever the other      *)
(* threads write meanwhile.                                                 *)
THEOREM CommittedWhole == Spec => []TrxWhole
<1>1. Init => Types /\ Committing
  BY InitTypes, InitCommitting
<1>2. Types /\ Committing /\ [Next]_vars => Types' /\ Committing'
  BY NextTypes, NextCommitting
<1>3. Committing => TrxWhole
  BY Zenon DEF Committing
<1> QED
  BY <1>1, <1>2, <1>3, PTL DEF Spec
=============================================================================
