------------------------- MODULE GroupCommitProofs -------------------------
(***************************************************************************)
(* Proofs about GroupCommit for any set of threads, any number (at least   *)
(* two) and size of buffers and any bounds.                                *)
(***************************************************************************)
EXTENDS GroupCommit, TLAPS

USE MlogAssumption DEF MlogAssumption

(* Appending the next number to a run makes a run.                          *)
LEMMA AppendRun ==
  ASSUME NEW s \in Seq(Nat), NEW a \in Nat, NEW b \in Nat, a <= b, IsRun(s, a, b)
  PROVE  IsRun(Append(s, b + 1), a, b + 1)
<1>1. Len(Append(s, b + 1)) = Len(s) + 1
  OBVIOUS
<1>2. \A i \in 1 .. Len(s) : Append(s, b + 1)[i] = s[i]
  OBVIOUS
<1>3. Append(s, b + 1)[Len(s) + 1] = b + 1
  OBVIOUS
<1> QED
  BY <1>1, <1>2, <1>3 DEF IsRun

(* With two buffers or more, the buffer mlog_sync switches to is another    *)
(* one.                                                                     *)
LEMMA NextBuf ==
  ASSUME NEW b \in BufIds
  PROVE  (b + 1) % NBufs \in BufIds /\ (b + 1) % NBufs # b
<1>1. CASE b + 1 < NBufs
  <2>1. (b + 1) % NBufs = b + 1
    BY <1>1 DEF BufIds
  <2> QED
    BY <1>1, <2>1 DEF BufIds
<1>2. CASE b + 1 = NBufs
  <2>1. (b + 1) % NBufs = 0
    BY <1>2 DEF BufIds
  <2> QED
    BY <1>2, <2>1 DEF BufIds
<1> QED
  BY <1>1, <1>2 DEF BufIds

(* Every initial state of the mlog satisfies the inductive invariant.       *)
LEMMA InitIInv == Init => IInv
<1> SUFFICES ASSUME Init PROVE IInv
  OBVIOUS
<1> USE DEF Init, mlog_init
<1>1. TypeMlog
  <2>1. bufs \in [BufIds -> Seq(Nat)]
    OBVIOUS
  <2>2. 0 \in BufIds /\ lsn \in Nat /\ synced_lsn \in Nat
    BY DEF BufIds
  <2> QED
    BY <2>1, <2>2, Zenon DEF TypeMlog
<1>2. TypeCall
  BY DEF TypeCall, BufIds, PCs
<1>3. TypeFile
  BY DEF TypeFile
<1>4. \A t \in Threads : pc[t] = "idle" /\ want[t] = 0
  BY Zenon
<1>5. OneFlusher /\ FillLockHeld
  BY <1>4 DEF OneFlusher, FillLockHeld, Flushing
<1>6. BufferRuns
  BY <1>4 DEF BufferRuns, FlushRuns, HasBuf, IsRun, BufIds
<1>7. FileRun /\ FullRun /\ CallRun
  BY <1>4 DEF FileRun, FullRun, CallRun, HasBuf
<1> QED
  BY <1>1, <1>2, <1>3, <1>5, <1>6, <1>7 DEF IInv, TypeOK

(* The buffers keep their runs when neither they nor the flusher's locals   *)
(* change.                                                                  *)
LEMMA BufferFrame ==
  ASSUME BufferRuns,
         UNCHANGED <<bufs, cur_buf, lsn, synced_lsn, buf, snap>>,
         \A u \in Threads : HasBuf(u)' = HasBuf(u),
         \A u \in Threads : HasBuf(u) => want'[u] = want[u]
  PROVE  BufferRuns'
<1>1. \A u \in Threads : HasBuf(u) => (FlushRuns(u)' = FlushRuns(u))
  BY DEF FlushRuns, IsRun
<1> QED
  BY <1>1 DEF BufferRuns, IsRun

(* What the calls wait for is not disturbed by a step inside mlog_sync that *)
(* returns only when the number waited for has been published.              *)
LEMMA CallFrame ==
  ASSUME CallRun,
         UNCHANGED <<lsn, synced_lsn, acked, left, mine, want>>,
         \A u \in Threads : pc[u] \in {"idle", "append"} /\ left[u] = 0
                              => pc'[u] \in {"idle", "append"},
         \A u \in Threads : pc'[u] = "return" => pc[u] = "return" \/ want[u] <= synced_lsn
  PROVE  CallRun'
BY DEF CallRun

(* The buffers, the file and the flusher keep their relation across a step  *)
(* that touches none of them: all of a call outside the flush is such.      *)
LEMMA FlushFrame ==
  ASSUME BufferRuns, FileRun, FullRun,
         UNCHANGED <<bufs, cur_buf, lsn, synced_lsn, full, written, stable, flush>>,
         \A u \in Threads : HasBuf(u)' = HasBuf(u),
         \A u \in Threads : HasBuf(u) => /\ pc'[u] = pc[u]
                                         /\ want'[u] = want[u]
                                         /\ sync'[u] = sync[u]
  PROVE  BufferRuns' /\ FileRun' /\ FullRun'
<1> USE DEF flush
<1>2. BufferRuns'
  BY BufferFrame
<1>3. FileRun'
  BY DEF FileRun
<1>4. FullRun'
  BY DEF FullRun
<1> QED
  BY <1>2, <1>3, <1>4

(* Every step preserves the inductive invariant.                            *)
LEMMA NextIInv == IInv /\ [Next]_vars => IInv'
<1> SUFFICES ASSUME TypeMlog, TypeCall, TypeFile, OneFlusher, FillLockHeld,
                    BufferRuns, FileRun, FullRun, CallRun, [Next]_vars
             PROVE  IInv'
  BY DEF IInv, TypeOK
<1>0. written \subseteq 1 .. lsn
  <2>1. CASE \A t \in Threads : ~ HasBuf(t)
    BY <2>1 DEF TypeMlog, FileRun, BufferRuns
  <2>2. ASSUME NEW t \in Threads, HasBuf(t) PROVE written \subseteq 1 .. lsn
    <3>1. /\ written = 1 .. (synced_lsn + idx[t])
          /\ idx[t] <= Len(bufs[buf[t]])
      BY <2>2 DEF FileRun
    <3>2. Len(bufs[buf[t]]) = snap[t] - synced_lsn /\ snap[t] <= lsn
      BY <2>2 DEF BufferRuns, FlushRuns, IsRun
    <3> QED
      BY <3>1, <3>2 DEF TypeMlog, TypeCall
  <2> QED
    BY <2>1, <2>2
<1>1. CASE UNCHANGED vars
  <2> USE <1>1 DEF vars, mlog, file, call, flush
  <2>1. TypeOK'
    BY Zenon DEF TypeOK, TypeMlog, TypeCall, TypeFile
  <2>2. OneFlusher' /\ FillLockHeld'
    BY DEF OneFlusher, FillLockHeld, Flushing
  <2>3. BufferRuns'
    BY DEF BufferRuns, FlushRuns, HasBuf, IsRun
  <2>4. FileRun' /\ FullRun' /\ CallRun'
    BY DEF FileRun, FullRun, CallRun, HasBuf
  <2> QED
    BY <2>1, <2>2, <2>3, <2>4 DEF IInv
<1>2. ASSUME NEW t \in Threads, NEW n \in 1 .. MaxTrx, StartWrite(t, n) PROVE IInv'
  <2> USE <1>2 DEF StartWrite, Goto, mlog, file, call, flush, TypeMlog, TypeCall
  <2>1. TypeMlog'
    BY DEF BufIds
  <2>2. TypeCall'
    BY SMTT(30) DEF FillLockHeld, PCs, BufIds
  <2>3. TypeFile'
    BY DEF TypeFile
  <2>4. OneFlusher'
    BY Zenon DEF OneFlusher, Flushing, PCs
  <2>5. FillLockHeld'
    BY DEF FillLockHeld, PCs
  <2>6. BufferRuns' /\ FileRun' /\ FullRun'
    <3>1. \A u \in Threads : HasBuf(u)' = HasBuf(u)
      BY DEF HasBuf
    <3>2. \A u \in Threads : HasBuf(u) => /\ pc'[u] = pc[u]
                                         /\ want'[u] = want[u]
                                         /\ sync'[u] = sync[u]
      BY Zenon DEF HasBuf
    <3> QED
      BY <3>1, <3>2, FlushFrame, Zenon
  <2>7. CallRun'
    BY Zenon DEF CallRun, BufferRuns, FlushRuns, FillLockHeld, HasBuf, TypeFile
  <2> QED
    BY <2>1, <2>2, <2>3, <2>4, <2>5, <2>6, <2>7, Zenon DEF IInv, TypeOK
<1>3. ASSUME NEW t \in Threads, StartLogSync(t) PROVE IInv'
  <2> USE <1>3 DEF StartLogSync, Goto, mlog, file, call, flush, TypeMlog, TypeCall
  <2>1. TypeMlog'
    BY DEF BufIds
  <2>2. TypeCall'
    BY Zenon DEF FillLockHeld, PCs, BufIds
  <2>3. TypeFile'
    BY DEF TypeFile
  <2>4. OneFlusher'
    BY Zenon DEF OneFlusher, Flushing, PCs
  <2>5. FillLockHeld'
    BY DEF FillLockHeld, PCs
  <2>6. BufferRuns' /\ FileRun' /\ FullRun'
    <3>1. \A u \in Threads : HasBuf(u)' = HasBuf(u)
      BY SMTT(30) DEF HasBuf
    <3>2. \A u \in Threads : HasBuf(u) => /\ pc'[u] = pc[u]
                                         /\ want'[u] = want[u]
                                         /\ sync'[u] = sync[u]
      BY Zenon DEF HasBuf
    <3> QED
      BY <3>1, <3>2, FlushFrame, Zenon
  <2>7. CallRun'
    BY SMTT(60) DEF CallRun, BufferRuns, FlushRuns, FillLockHeld, HasBuf, TypeFile
  <2> QED
    BY <2>1, <2>2, <2>3, <2>4, <2>5, <2>6, <2>7, Zenon DEF IInv, TypeOK
<1>4. ASSUME NEW t \in Threads, EnsureSpace(t) PROVE IInv'
  <2> USE <1>4 DEF EnsureSpace, Goto, mlog, file, call, flush, TypeMlog, TypeCall
  <2>1. TypeMlog'
    BY DEF BufIds
  <2>2. TypeCall'
    BY Zenon DEF FillLockHeld, PCs, BufIds
  <2>3. TypeFile'
    BY Zenon DEF TypeFile
  <2>4. OneFlusher'
    BY Zenon DEF OneFlusher, Flushing, PCs
  <2>5. FillLockHeld'
    BY Zenon DEF FillLockHeld, PCs
  <2>6. BufferRuns' /\ FileRun' /\ FullRun'
    <3>1. \A u \in Threads : HasBuf(u)' = HasBuf(u)
      BY SMTT(40) DEF HasBuf
    <3>2. \A u \in Threads : HasBuf(u) => /\ pc'[u] = pc[u]
                                         /\ want'[u] = want[u]
                                         /\ sync'[u] = sync[u]
      BY Zenon DEF HasBuf
    <3> QED
      BY <3>1, <3>2, FlushFrame, Zenon
  <2>7. CallRun'
    BY SMTT(60) DEF CallRun, BufferRuns, FlushRuns, FillLockHeld, HasBuf, TypeFile
  <2> QED
    BY <2>1, <2>2, <2>3, <2>4, <2>5, <2>6, <2>7, Zenon DEF IInv, TypeOK
<1>5. ASSUME NEW t \in Threads, NEW f \in BOOLEAN, MlogBuf(t, f) PROVE IInv'
  <2> USE <1>5 DEF MlogBuf, Goto, mlog, file, call, flush, TypeMlog, TypeCall
  <2>1. TypeMlog'
    BY DEF BufIds
  <2>2. TypeCall'
    <3>1. left[t] - 1 \in Nat
      BY DEF FillLockHeld
    <3>2. left' \in [Threads -> Nat] /\ want' \in [Threads -> Nat]
      BY <3>1
    <3>3. pc' \in [Threads -> PCs] /\ sync' \in [Threads -> BOOLEAN]
      BY Zenon DEF PCs
    <3> QED
      BY <3>2, <3>3, Zenon
  <2>3. TypeFile'
    BY SMTT(30) DEF TypeFile
  <2>4. OneFlusher'
    BY ZenonT(60) DEF OneFlusher, Flushing, PCs
  <2>5. FillLockHeld'
    BY SMTT(30) DEF FillLockHeld, PCs
  <2>6. BufferRuns'
    <3>1. /\ bufs'[cur_buf] = Append(bufs[cur_buf], lsn + 1)
          /\ \A b \in BufIds \ {cur_buf} : bufs'[b] = bufs[b]
      OBVIOUS
    <3>2. ASSUME NEW a \in Nat, a <= lsn, IsRun(bufs[cur_buf], a, lsn)
          PROVE  IsRun(bufs'[cur_buf], a, lsn + 1)
      BY <3>1, <3>2, AppendRun, bufs[cur_buf] \in Seq(Nat)
    <3>3. ASSUME NEW u \in Threads
          PROVE  /\ HasBuf(u)' <=> HasBuf(u)
                 /\ HasBuf(u) => want'[u] = want[u]
      BY Zenon DEF HasBuf
    <3>4. ASSUME NEW u \in Threads, HasBuf(u) PROVE FlushRuns(u)'
      <4>1. FlushRuns(u)
        BY <3>4 DEF BufferRuns
      <4>2. IsRun(bufs[buf[u]], synced_lsn, snap[u])'
        BY <4>1, <3>1 DEF FlushRuns, IsRun
      <4>3. IsRun(bufs'[cur_buf], snap[u], lsn + 1)
        BY <4>1, <3>2, Zenon DEF FlushRuns
      <4>4. \A b \in BufIds \ {buf[u], cur_buf} : bufs'[b] = <<>>
        BY <4>1, <3>1 DEF FlushRuns
      <4>5. want'[u] = want[u]
        BY <3>3, <3>4
      <4> QED
        BY <4>1, <4>2, <4>3, <4>4, <4>5, SMTT(40) DEF FlushRuns
    <3>5. ASSUME \A u \in Threads : ~ HasBuf(u)
          PROVE  (/\ IsRun(bufs[cur_buf], synced_lsn, lsn)
                  /\ \A b \in BufIds \ {cur_buf} : bufs[b] = <<>>)'
      BY <3>1, <3>2, <3>5, SMTT(30) DEF BufferRuns
    <3>6. (synced_lsn <= lsn)'
      BY DEF BufferRuns
    <3> QED
      BY <3>3, <3>4, <3>5, <3>6, Zenon DEF BufferRuns
  <2>7. FileRun'
    BY ZenonT(60) DEF FileRun, BufferRuns, FlushRuns, OneFlusher, Flushing, HasBuf, IsRun
  <2>8. FullRun'
    <3>1. (full' \cap written) = full \cap written
      BY <1>0
    <3>2. (full' \cap 1 .. synced_lsn) = full \cap 1 .. synced_lsn
      BY SMTT(30) DEF BufferRuns
    <3>3. full' \subseteq 1 .. (lsn + 1)
      BY DEF FullRun
    <3>4. ASSUME NEW u \in Threads, HasBuf(u)', (pc[u] = "finish" \/ ~ sync[u])'
          PROVE  (full \cap written) \subseteq stable
      BY <3>4, Zenon DEF HasBuf, FullRun
    <3> QED
      BY <3>1, <3>2, <3>3, <3>4, Zenon DEF FullRun
  <2>9. CallRun'
    <3>1. mine'[t] \subseteq 1 .. (lsn + 1)
      BY SMTT(30) DEF CallRun, TypeFile
    <3>2. \A u \in Threads \ {t} : mine'[u] \subseteq 1 .. (lsn + 1)
      BY SMTT(30) DEF CallRun, TypeFile
    <3> QED
      BY <3>1, <3>2, SMTT(40) DEF CallRun, TypeFile
  <2> QED
    BY <2>1, <2>2, <2>3, <2>4, <2>5, <2>6, <2>7, <2>8, <2>9, Zenon DEF IInv, TypeOK
<1>6. ASSUME NEW t \in Threads, Check(t) PROVE IInv'
  <2> USE <1>6 DEF Check, Goto, mlog, file, call, flush, TypeMlog, TypeCall
  <2>1. TypeMlog'
    BY DEF BufIds
  <2>2. TypeCall'
    BY Zenon DEF FillLockHeld, PCs, BufIds
  <2>3. TypeFile'
    BY DEF TypeFile
  <2>4. OneFlusher'
    BY Zenon DEF OneFlusher, Flushing, PCs
  <2>5. FillLockHeld'
    BY Zenon DEF FillLockHeld, PCs
  <2>6. BufferRuns' /\ FileRun' /\ FullRun'
    <3>1. \A u \in Threads : HasBuf(u)' = HasBuf(u)
      BY SMTT(30) DEF HasBuf
    <3>2. \A u \in Threads : HasBuf(u) => /\ pc'[u] = pc[u]
                                         /\ want'[u] = want[u]
                                         /\ sync'[u] = sync[u]
      BY DEF HasBuf
    <3> QED
      BY <3>1, <3>2, FlushFrame
  <2>7. CallRun'
    <3>1. \A u \in Threads : pc[u] \in {"idle", "append"} /\ left[u] = 0
                              => pc'[u] \in {"idle", "append"}
      BY DEF FillLockHeld
    <3>2. \A u \in Threads : pc'[u] = "return" => pc[u] = "return" \/ want[u] <= synced_lsn
      OBVIOUS
    <3> QED
      BY <3>1, <3>2, CallFrame
  <2> QED
    BY <2>1, <2>2, <2>3, <2>4, <2>5, <2>6, <2>7, Zenon DEF IInv, TypeOK
<1>7. ASSUME NEW t \in Threads, EnterDone(t) PROVE IInv'
  <2> USE <1>7 DEF EnterDone, Goto, mlog, file, call, flush, TypeMlog, TypeCall
  <2>1. TypeMlog'
    BY DEF BufIds
  <2>2. TypeCall'
    BY Zenon DEF FillLockHeld, PCs, BufIds
  <2>3. TypeFile'
    BY DEF TypeFile
  <2>4. OneFlusher'
    BY Zenon DEF OneFlusher, Flushing, PCs
  <2>5. FillLockHeld'
    BY Zenon DEF FillLockHeld, PCs
  <2>6. BufferRuns' /\ FileRun' /\ FullRun'
    <3>1. \A u \in Threads : HasBuf(u)' = HasBuf(u)
      BY SMTT(30) DEF HasBuf
    <3>2. \A u \in Threads : HasBuf(u) => /\ pc'[u] = pc[u]
                                         /\ want'[u] = want[u]
                                         /\ sync'[u] = sync[u]
      BY DEF HasBuf
    <3> QED
      BY <3>1, <3>2, FlushFrame
  <2>7. CallRun'
    <3>1. \A u \in Threads : pc[u] \in {"idle", "append"} /\ left[u] = 0
                              => pc'[u] \in {"idle", "append"}
      BY DEF FillLockHeld
    <3>2. \A u \in Threads : pc'[u] = "return" => pc[u] = "return" \/ want[u] <= synced_lsn
      OBVIOUS
    <3> QED
      BY <3>1, <3>2, CallFrame
  <2> QED
    BY <2>1, <2>2, <2>3, <2>4, <2>5, <2>6, <2>7, Zenon DEF IInv, TypeOK
<1>8. ASSUME NEW t \in Threads, EnterWait(t) PROVE IInv'
  <2> USE <1>8 DEF EnterWait, Goto, mlog, file, call, flush, TypeMlog, TypeCall
  <2>1. TypeMlog'
    BY DEF BufIds
  <2>2. TypeCall'
    BY Zenon DEF FillLockHeld, PCs, BufIds
  <2>3. TypeFile'
    BY DEF TypeFile
  <2>4. OneFlusher'
    BY Zenon DEF OneFlusher, Flushing, PCs
  <2>5. FillLockHeld'
    BY DEF FillLockHeld, PCs
  <2>6. BufferRuns' /\ FileRun' /\ FullRun'
    <3>1. \A u \in Threads : HasBuf(u)' = HasBuf(u)
      BY SMTT(30) DEF HasBuf
    <3>2. \A u \in Threads : HasBuf(u) => /\ pc'[u] = pc[u]
                                         /\ want'[u] = want[u]
                                         /\ sync'[u] = sync[u]
      BY DEF HasBuf
    <3> QED
      BY <3>1, <3>2, FlushFrame
  <2>7. CallRun'
    <3>1. \A u \in Threads : pc[u] \in {"idle", "append"} /\ left[u] = 0
                              => pc'[u] \in {"idle", "append"}
      BY DEF FillLockHeld
    <3>2. \A u \in Threads : pc'[u] = "return" => pc[u] = "return" \/ want[u] <= synced_lsn
      BY Zenon
    <3> QED
      BY <3>1, <3>2, CallFrame
  <2> QED
    BY <2>1, <2>2, <2>3, <2>4, <2>5, <2>6, <2>7, Zenon DEF IInv, TypeOK
<1>9. ASSUME NEW t \in Threads, EnterFlush(t) PROVE IInv'
  <2> USE <1>9 DEF EnterFlush, Goto, mlog, file, call, flush, TypeMlog, TypeCall
  <2>1. TypeMlog'
    BY DEF BufIds
  <2>2. TypeCall'
    BY Zenon DEF FillLockHeld, PCs, BufIds
  <2>3. TypeFile'
    BY DEF TypeFile
  <2>4. OneFlusher'
    BY DEF OneFlusher, Flushing, PCs
  <2>5. FillLockHeld'
    BY Zenon DEF FillLockHeld, PCs
  <2>6. BufferRuns' /\ FileRun' /\ FullRun'
    <3>1. \A u \in Threads : HasBuf(u)' = HasBuf(u)
      BY SMTT(30) DEF HasBuf
    <3>2. \A u \in Threads : HasBuf(u) => /\ pc'[u] = pc[u]
                                         /\ want'[u] = want[u]
                                         /\ sync'[u] = sync[u]
      BY DEF HasBuf
    <3> QED
      BY <3>1, <3>2, FlushFrame
  <2>7. CallRun'
    <3>1. \A u \in Threads : pc[u] \in {"idle", "append"} /\ left[u] = 0
                              => pc'[u] \in {"idle", "append"}
      BY DEF FillLockHeld
    <3>2. \A u \in Threads : pc'[u] = "return" => pc[u] = "return" \/ want[u] <= synced_lsn
      OBVIOUS
    <3> QED
      BY <3>1, <3>2, CallFrame
  <2> QED
    BY <2>1, <2>2, <2>3, <2>4, <2>5, <2>6, <2>7, Zenon DEF IInv, TypeOK
<1>10. ASSUME NEW t \in Threads, Swap(t) PROVE IInv'
  <2> USE <1>10 DEF Swap, Goto, mlog, file, call, flush, TypeMlog, TypeCall
  <2>1. TypeMlog'
    BY SMTT(30) DEF BufIds
  <2>2. TypeCall'
    BY Zenon DEF FillLockHeld, PCs, BufIds
  <2>3. TypeFile'
    BY DEF TypeFile
  <2>4. OneFlusher'
    BY Zenon DEF OneFlusher, Flushing, PCs
  <2>5. FillLockHeld'
    BY Zenon DEF FillLockHeld, PCs
  <2>6. BufferRuns'
    <3>1. \A u \in Threads : ~ HasBuf(u)
      BY Zenon DEF OneFlusher, Flushing, HasBuf
    <3>2. /\ IsRun(bufs[cur_buf], synced_lsn, lsn)
          /\ \A b \in BufIds \ {cur_buf} : bufs[b] = <<>>
      BY <3>1 DEF BufferRuns
    <3>3. cur_buf' \in BufIds /\ cur_buf' # cur_buf
      BY NextBuf
    <3>4. IsRun(bufs[cur_buf'], lsn, lsn)
      BY <3>2, <3>3, SMTT(30) DEF IsRun
    <3>5. FlushRuns(t)'
      BY <3>2, <3>3, <3>4, SMTT(30) DEF FlushRuns, IsRun, CallRun, BufferRuns
    <3>6. \A u \in Threads : HasBuf(u)' <=> u = t
      BY <3>1 DEF HasBuf
    <3> QED
      BY <3>5, <3>6, Zenon DEF BufferRuns
  <2>7. FileRun'
    <3>1. \A u \in Threads : ~ HasBuf(u)
      BY DEF OneFlusher, Flushing, HasBuf
    <3>2. \A u \in Threads : HasBuf(u)' <=> u = t
      BY <3>1 DEF HasBuf
    <3>3. written = 1 .. synced_lsn
      BY <3>1 DEF FileRun
    <3>4. idx'[t] = 0 /\ pc'[t] = "persist" /\ Len(bufs[cur_buf]) \in Nat
      OBVIOUS
    <3> QED
      BY <3>2, <3>3, <3>4, SMTT(30) DEF FileRun
  <2>8. FullRun'
    BY Zenon DEF FullRun, FileRun, BufferRuns, FlushRuns, OneFlusher, Flushing, HasBuf, IsRun
  <2>9. CallRun'
    <3>1. \A u \in Threads : pc[u] \in {"idle", "append"} /\ left[u] = 0
                              => pc'[u] \in {"idle", "append"}
      BY Zenon DEF FillLockHeld
    <3>2. \A u \in Threads : pc'[u] = "return" => pc[u] = "return" \/ want[u] <= synced_lsn
      OBVIOUS
    <3> QED
      BY <3>1, <3>2, CallFrame
  <2> QED
    BY <2>1, <2>2, <2>3, <2>4, <2>5, <2>6, <2>7, <2>8, <2>9, Zenon DEF IInv, TypeOK
<1>11. ASSUME NEW t \in Threads, PersistRecord(t) PROVE IInv'
  <2> USE <1>11 DEF PersistRecord, Goto, mlog, file, call, flush, TypeMlog, TypeCall
  <2>1. TypeMlog'
    BY DEF BufIds
  <2>2. TypeCall'
    <3>1. sync' \in [Threads -> BOOLEAN]
      BY Zenon
    <3>2. idx' \in [Threads -> Nat]
      BY SMTT(30)
    <3> QED
      BY <3>1, <3>2, Zenon
  <2>3. TypeFile'
    <3>1. bufs[buf[t]] \in Seq(Nat) /\ idx[t] + 1 \in 1 .. Len(bufs[buf[t]])
      BY SMTT(30)
    <3>2. bufs[buf[t]][idx[t] + 1] \in Nat
      BY <3>1, SMTT(40)
    <3> QED
      BY <3>2, Zenon DEF TypeFile
  <2>4. OneFlusher'
    BY DEF OneFlusher, Flushing, PCs
  <2>5. FillLockHeld'
    BY Zenon DEF FillLockHeld, PCs
  <2>6. BufferRuns'
    <3>1. \A u \in Threads : HasBuf(u)' = HasBuf(u)
      BY DEF HasBuf
    <3> QED
      BY <3>1, BufferFrame
  <2>7. FileRun'
    <3>1. HasBuf(t) /\ FlushRuns(t)
      BY DEF HasBuf, BufferRuns
    <3>2. bufs[buf[t]] \in Seq(Nat) /\ idx[t] + 1 \in 1 .. Len(bufs[buf[t]])
      OBVIOUS
    <3>3. bufs[buf[t]][idx[t] + 1] = synced_lsn + (idx[t] + 1)
      BY <3>1, <3>2, Zenon DEF FlushRuns, IsRun
    <3>4. written = 1 .. (synced_lsn + idx[t])
      BY <3>1 DEF FileRun
    <3>5. written' = 1 .. (synced_lsn + (idx[t] + 1))
      BY <3>3, <3>4, SMTT(40)
    <3>6. \A u \in Threads : HasBuf(u)' <=> u = t
      BY <3>1, Zenon DEF OneFlusher, Flushing, HasBuf
    <3> QED
      BY <3>2, <3>5, <3>6, SMTT(40) DEF FileRun
  <2>8. FullRun'
    BY ZenonT(60) DEF FullRun, FileRun, BufferRuns, FlushRuns, OneFlusher, Flushing, HasBuf, IsRun
  <2>9. CallRun'
    <3>1. \A u \in Threads : pc[u] \in {"idle", "append"} /\ left[u] = 0
                              => pc'[u] \in {"idle", "append"}
      BY DEF FillLockHeld
    <3>2. \A u \in Threads : pc'[u] = "return" => pc[u] = "return" \/ want[u] <= synced_lsn
      BY Zenon
    <3> QED
      BY <3>1, <3>2, CallFrame
  <2> QED
    BY <2>1, <2>2, <2>3, <2>4, <2>5, <2>6, <2>7, <2>8, <2>9, Zenon DEF IInv, TypeOK
<1>12. ASSUME NEW t \in Threads, PersistEnd(t) PROVE IInv'
  <2> USE <1>12 DEF PersistEnd, Goto, mlog, file, call, flush, TypeMlog, TypeCall
  <2>1. TypeMlog'
    BY DEF BufIds
  <2>2. TypeCall'
    BY Zenon DEF FillLockHeld, PCs, BufIds
  <2>3. TypeFile'
    BY DEF TypeFile
  <2>4. OneFlusher'
    BY Zenon DEF OneFlusher, Flushing, PCs
  <2>5. FillLockHeld'
    BY DEF FillLockHeld, PCs
  <2>6. BufferRuns'
    <3>1. \A u \in Threads : HasBuf(u)' = HasBuf(u)
      BY DEF HasBuf
    <3> QED
      BY <3>1, BufferFrame
  <2>7. FileRun'
    BY Zenon DEF FileRun, BufferRuns, FlushRuns, OneFlusher, Flushing, HasBuf, IsRun
  <2>8. FullRun'
    BY ZenonT(60) DEF FullRun, FileRun, BufferRuns, FlushRuns, OneFlusher, Flushing, HasBuf, IsRun
  <2>9. CallRun'
    <3>1. \A u \in Threads : pc[u] \in {"idle", "append"} /\ left[u] = 0
                              => pc'[u] \in {"idle", "append"}
      BY DEF FillLockHeld
    <3>2. \A u \in Threads : pc'[u] = "return" => pc[u] = "return" \/ want[u] <= synced_lsn
      BY Zenon
    <3> QED
      BY <3>1, <3>2, CallFrame
  <2> QED
    BY <2>1, <2>2, <2>3, <2>4, <2>5, <2>6, <2>7, <2>8, <2>9, Zenon DEF IInv, TypeOK
<1>13. ASSUME NEW t \in Threads, Fsync(t) PROVE IInv'
  <2> USE <1>13 DEF Fsync, Goto, mlog, file, call, flush, TypeMlog, TypeCall
  <2>1. TypeMlog'
    BY DEF BufIds
  <2>2. TypeCall'
    BY Zenon DEF FillLockHeld, PCs, BufIds
  <2>3. TypeFile'
    BY DEF TypeFile
  <2>4. OneFlusher'
    BY Zenon DEF OneFlusher, Flushing, PCs
  <2>5. FillLockHeld'
    BY DEF FillLockHeld, PCs
  <2>6. BufferRuns'
    <3>1. \A u \in Threads : HasBuf(u)' = HasBuf(u)
      BY DEF HasBuf
    <3> QED
      BY <3>1, BufferFrame
  <2>7. FileRun'
    BY Zenon DEF FileRun, BufferRuns, FlushRuns, OneFlusher, Flushing, HasBuf, IsRun
  <2>8. FullRun'
    BY ZenonT(60) DEF FullRun, FileRun, BufferRuns, FlushRuns, OneFlusher, Flushing, HasBuf, IsRun
  <2>9. CallRun'
    <3>1. \A u \in Threads : pc[u] \in {"idle", "append"} /\ left[u] = 0
                              => pc'[u] \in {"idle", "append"}
      BY DEF FillLockHeld
    <3>2. \A u \in Threads : pc'[u] = "return" => pc[u] = "return" \/ want[u] <= synced_lsn
      BY Zenon
    <3> QED
      BY <3>1, <3>2, CallFrame, Zenon
  <2> QED
    BY <2>1, <2>2, <2>3, <2>4, <2>5, <2>6, <2>7, <2>8, <2>9, Zenon DEF IInv, TypeOK
<1>14. ASSUME NEW t \in Threads, Finish(t) PROVE IInv'
  <2> USE <1>14 DEF Finish, Goto, Forget, mlog, file, call, flush, TypeMlog, TypeCall
  <2>1. TypeMlog'
    <3>1. bufs' \in [BufIds -> Seq(Nat)]
      OBVIOUS
    <3> QED
      BY <3>1, Zenon
  <2>2. TypeCall'
    BY SMTT(40) DEF FillLockHeld, PCs, BufIds
  <2>3. TypeFile'
    BY Zenon DEF TypeFile
  <2>4. OneFlusher'
    BY Zenon DEF OneFlusher, Flushing, PCs
  <2>5. FillLockHeld'
    BY Zenon DEF FillLockHeld, PCs
  <2>6. BufferRuns'
    BY ZenonT(60) DEF BufferRuns, FlushRuns, OneFlusher, Flushing, HasBuf, IsRun, CallRun, BufIds
  <2>7. FileRun'
    <3>1. HasBuf(t) /\ FlushRuns(t) /\ bufs[buf[t]] \in Seq(Nat)
      BY DEF HasBuf, BufferRuns
    <3>2. written = 1 .. (synced_lsn + idx[t]) /\ idx[t] = Len(bufs[buf[t]])
      BY <3>1, Zenon DEF FileRun
    <3>3. written = 1 .. snap[t]
      BY <3>1, <3>2, SMTT(30) DEF FlushRuns, IsRun
    <3>4. \A u \in Threads : ~ HasBuf(u)'
      BY <3>1, Zenon DEF OneFlusher, Flushing, HasBuf
    <3> QED
      BY <3>3, <3>4 DEF FileRun
  <2>8. FullRun'
    <3>1. HasBuf(t) /\ FlushRuns(t) /\ bufs[buf[t]] \in Seq(Nat)
      BY DEF HasBuf, BufferRuns
    <3>2. (full \cap written) \subseteq stable
      BY <3>1, SMTT(40) DEF FullRun
    <3>3. \A u \in Threads : ~ HasBuf(u)'
      BY <3>1 DEF OneFlusher, Flushing, HasBuf
    <3>4. written = 1 .. synced_lsn'
      BY <2>7, <3>3, SMTT(40) DEF FileRun
    <3> QED
      BY <3>2, <3>3, <3>4, Zenon DEF FullRun
  <2>9. CallRun'
    <3>1. HasBuf(t) /\ FlushRuns(t)
      BY Zenon DEF HasBuf, BufferRuns
    <3>2. acked \subseteq 1 .. snap[t]
      BY <3>1, SMTT(30) DEF FlushRuns, CallRun
    <3>3. \A u \in Threads \ {t} : pc'[u] = "return" => want[u] <= snap[t]
      BY <3>1 DEF FlushRuns, CallRun
    <3>4. \A u \in Threads : pc'[u] \notin {"idle", "append"} => pc[u] \notin {"idle", "append"}
      BY Zenon
    <3>5. pc'[t] = "return" /\ want[t] <= snap[t]
      BY <3>1, SMTT(40) DEF FlushRuns
    <3> QED
      BY <3>2, <3>3, <3>4, <3>5, ZenonT(60) DEF CallRun
  <2> QED
    BY <2>1, <2>2, <2>3, <2>4, <2>5, <2>6, <2>7, <2>8, <2>9, Zenon DEF IInv, TypeOK
<1>15. ASSUME NEW t \in Threads, ReturnSpace(t) PROVE IInv'
  <2> USE <1>15 DEF ReturnSpace, Goto, mlog, file, call, flush, TypeMlog, TypeCall
  <2>1. TypeMlog'
    BY DEF BufIds
  <2>2. TypeCall'
    BY Zenon DEF FillLockHeld, PCs, BufIds
  <2>3. TypeFile'
    BY Zenon DEF TypeFile
  <2>4. OneFlusher'
    BY Zenon DEF OneFlusher, Flushing, PCs
  <2>5. FillLockHeld'
    BY DEF FillLockHeld, PCs
  <2>6. BufferRuns' /\ FileRun' /\ FullRun'
    <3>1. \A u \in Threads : HasBuf(u)' = HasBuf(u)
      BY DEF HasBuf
    <3>2. \A u \in Threads : HasBuf(u) => /\ pc'[u] = pc[u]
                                         /\ want'[u] = want[u]
                                         /\ sync'[u] = sync[u]
      BY Zenon DEF HasBuf
    <3> QED
      BY <3>1, <3>2, FlushFrame
  <2>7. CallRun'
    <3>1. \A u \in Threads : pc[u] \in {"idle", "append"} /\ left[u] = 0
                              => pc'[u] \in {"idle", "append"}
      BY DEF FillLockHeld
    <3>2. \A u \in Threads : pc'[u] = "return" => pc[u] = "return" \/ want[u] <= synced_lsn
      BY SMTT(40)
    <3> QED
      BY <3>1, <3>2, CallFrame
  <2> QED
    BY <2>1, <2>2, <2>3, <2>4, <2>5, <2>6, <2>7, ZenonT(60) DEF IInv, TypeOK
<1>16. ASSUME NEW t \in Threads, ReturnCall(t) PROVE IInv'
  <2> USE <1>16 DEF ReturnCall, Goto, mlog, file, call, flush, TypeMlog, TypeCall
  <2>1. TypeMlog'
    BY Zenon DEF BufIds
  <2>2. TypeCall'
    BY Zenon DEF FillLockHeld, PCs, BufIds
  <2>3. TypeFile'
    BY Zenon DEF TypeFile
  <2>4. OneFlusher'
    BY Zenon DEF OneFlusher, Flushing, PCs
  <2>5. FillLockHeld'
    BY DEF FillLockHeld, PCs
  <2>6. BufferRuns' /\ FileRun' /\ FullRun'
    <3>1. \A u \in Threads : HasBuf(u)' = HasBuf(u)
      BY SMTT(30) DEF HasBuf
    <3>2. \A u \in Threads : HasBuf(u) => /\ pc'[u] = pc[u]
                                         /\ want'[u] = want[u]
                                         /\ sync'[u] = sync[u]
      BY Zenon DEF HasBuf
    <3> QED
      BY <3>1, <3>2, FlushFrame, Zenon
  <2>7. CallRun'
    <3>0. mine[t] \subseteq 1 .. want[t] /\ want[t] <= synced_lsn
      BY Zenon DEF CallRun
    <3>a. mine[t] \subseteq 1 .. synced_lsn
      BY <3>0
    <3>1. acked' \subseteq 1 .. synced_lsn
      BY <3>a, ZenonT(60) DEF CallRun
    <3>2. ASSUME NEW u \in Threads, u # t
          PROVE  mine'[u] = mine[u] /\ want'[u] = want[u] /\ pc'[u] = pc[u]
      BY <3>2 DEF TypeFile
    <3>3. mine'[t] = {} /\ want'[t] = 0 /\ pc'[t] = "idle"
      BY DEF TypeFile
    <3> QED
      BY <3>1, <3>2, <3>3, SMTT(40) DEF CallRun
  <2> QED
    BY <2>1, <2>2, <2>3, <2>4, <2>5, <2>6, <2>7, ZenonT(60) DEF IInv, TypeOK
<1> QED
  BY <1>1, <1>2, <1>3, <1>4, <1>5, <1>6, <1>7, <1>8, <1>9, <1>10, <1>11, <1>12, <1>13, <1>14, <1>15, <1>16 DEF Next, Step

(* The inductive invariant holds in every reachable state of the group      *)
(* commit.                                                                  *)
THEOREM Inductive == Spec => []IInv
<1> QED
  BY InitIInv, NextIInv, PTL DEF Spec

(* Every variable of the mlog keeps its type.                               *)
THEOREM TypeCorrect == Spec => []TypeOK
<1>1. IInv => TypeOK
  BY DEF IInv
<1> QED
  BY <1>1, Inductive, PTL

(* Where the file ends: at the published number plus what the flusher has   *)
(* written, never behind lsn.                                               *)
LEMMA WrittenEnd == IInv => NoHole
<1> SUFFICES ASSUME IInv PROVE NoHole
  OBVIOUS
<1> USE DEF IInv, TypeOK, TypeMlog, TypeCall
<1>1. CASE \A t \in Threads : ~ HasBuf(t)
  BY <1>1 DEF FileRun, BufferRuns, NoHole
<1>2. ASSUME NEW t \in Threads, HasBuf(t) PROVE NoHole
  <2>1. /\ written = 1 .. (synced_lsn + idx[t])
        /\ idx[t] <= Len(bufs[buf[t]])
    BY <1>2 DEF FileRun
  <2>2. Len(bufs[buf[t]]) = snap[t] - synced_lsn /\ snap[t] <= lsn
    BY <1>2 DEF BufferRuns, FlushRuns, IsRun
  <2>3. synced_lsn \in Nat /\ idx[t] \in Nat /\ lsn \in Nat /\ snap[t] \in Nat
    OBVIOUS
  <2>4. synced_lsn + idx[t] \in 0 .. lsn
    <3> HIDE DEF IInv
    <3> QED
      BY <2>1, <2>2, <2>3
  <2> QED
    BY <2>1, <2>4 DEF NoHole
<1> QED
  BY <1>1, <1>2

(* The flush-log file never has a hole, so that recovery reads all of it.   *)
THEOREM HoleFree == Spec => []NoHole
<1> QED
  BY WrittenEnd, Inductive, PTL

(* What is published is in the file.                                        *)
LEMMA PublishedWritten == IInv => 1 .. synced_lsn \subseteq written
<1> SUFFICES ASSUME IInv PROVE 1 .. synced_lsn \subseteq written
  OBVIOUS
<1> USE DEF IInv, TypeOK, TypeMlog, TypeCall
<1>1. CASE \A t \in Threads : ~ HasBuf(t)
  BY <1>1 DEF FileRun
<1>2. ASSUME NEW t \in Threads, HasBuf(t) PROVE 1 .. synced_lsn \subseteq written
  BY <1>2 DEF FileRun
<1> QED
  BY <1>1, <1>2

(* A call that has returned is durable: its records are in the file, and    *)
(* the ones of full durability in the synced file.                          *)
THEOREM Durability == Spec => []AckedDurable
<1>1. IInv => AckedDurable
  BY PublishedWritten DEF IInv, AckedDurable, CallRun, FullRun
<1> QED
  BY <1>1, Inductive, PTL

(* The group commit implements the stable log: numbers are given out in     *)
(* order, the file grows in order, and calls return only when durable.      *)
THEOREM Refinement == Spec => Refines
<1>1. Init => Promise!Init
  BY Zenon DEF Init, mlog_init, Promise!Init
<1>2. IInv /\ IInv' /\ [Next]_vars => [Promise!Next]_(Promise!vars)
  <2> SUFFICES ASSUME IInv, IInv', [Next]_vars PROVE [Promise!Next]_(Promise!vars)
    OBVIOUS
  <2> DEFINE Same == UNCHANGED <<lsn, full, written, stable, acked>>
  <2>0. Same => [Promise!Next]_(Promise!vars)
    BY DEF Promise!vars
  <2>1. CASE UNCHANGED vars
    BY <2>0, <2>1 DEF vars, mlog, file
  <2>2. ASSUME NEW t \in Threads, NEW n \in 1 .. MaxTrx, StartWrite(t, n) PROVE Same
    BY <2>2, SMTT(40) DEF StartWrite, file
  <2>3. ASSUME NEW t \in Threads,
               \/ StartLogSync(t) \/ EnsureSpace(t) \/ Check(t) \/ EnterDone(t)
               \/ EnterWait(t) \/ EnterFlush(t) \/ Swap(t) \/ PersistEnd(t)
               \/ Finish(t) \/ ReturnSpace(t)
        PROVE  Same
    BY <2>3, ZenonT(60) DEF StartLogSync, EnsureSpace, Check, EnterDone, EnterWait, EnterFlush,
                Swap, PersistEnd, Finish, ReturnSpace, mlog, file
  <2>4. ASSUME NEW t \in Threads, NEW f \in BOOLEAN, MlogBuf(t, f)
        PROVE  Promise!Append(f)
    BY <2>4, SMTT(40) DEF MlogBuf, Promise!Append
  <2>5. ASSUME NEW t \in Threads, PersistRecord(t) PROVE Promise!Persist
    <3>0. /\ synced_lsn \in Nat /\ lsn \in Nat /\ snap[t] \in Nat
          /\ idx[t] \in Nat /\ bufs[buf[t]] \in Seq(Nat)
      BY SMTT(40) DEF IInv, TypeOK, TypeMlog, TypeCall
    <3>1. HasBuf(t) /\ FlushRuns(t)
      BY <2>5, ZenonT(60) DEF PersistRecord, HasBuf, BufferRuns, IInv
    <3>2. idx[t] + 1 \in 1 .. Len(bufs[buf[t]])
      <4>1. idx[t] < Len(bufs[buf[t]])
        BY <2>5, Zenon DEF PersistRecord
      <4>2. Len(bufs[buf[t]]) \in Nat
        BY <3>0, SMTT(30)
      <4> QED
        BY <3>0, <4>1, <4>2
    <3> DEFINE k == synced_lsn + (idx[t] + 1)
    <3>3. bufs[buf[t]][idx[t] + 1] = k /\ k \in 1 .. lsn
      <4>1. bufs[buf[t]][idx[t] + 1] = k
        BY <3>1, <3>2, Zenon DEF FlushRuns, IsRun
      <4>2. Len(bufs[buf[t]]) = snap[t] - synced_lsn /\ snap[t] <= lsn
        BY <3>1 DEF FlushRuns, IsRun
      <4>3. idx[t] + 1 <= snap[t] - synced_lsn
        BY <3>0, <3>2, <4>2
      <4>4. k \in 1 .. lsn
        BY <3>0, <4>2, <4>3, SMTT(40)
      <4> QED
        BY <4>1, <4>4, Zenon
    <3>4. written = 1 .. (k - 1)
      <4>1. written = 1 .. (synced_lsn + idx[t])
        BY <3>1, Zenon DEF FileRun, IInv
      <4> QED
        BY <3>0, <4>1
    <3>5. written' = 1 .. k
      BY <2>5, <3>0, <3>3, <3>4, SMTT(40) DEF PersistRecord
    <3>6. UNCHANGED <<lsn, full, stable, acked>>
      BY <2>5 DEF PersistRecord, mlog
    <3> HIDE DEF k
    <3> QED
      BY <3>3, <3>4, <3>5, <3>6, SMTT(40) DEF Promise!Persist
  <2>6. ASSUME NEW t \in Threads, Fsync(t) PROVE Promise!Sync
    BY <2>6 DEF Fsync, mlog, Promise!Sync
  <2>7. ASSUME NEW t \in Threads, ReturnCall(t) PROVE Promise!Ack
    <3>1. /\ mine[t] \subseteq 1 .. want[t]
          /\ want[t] <= synced_lsn
          /\ mine[t] \subseteq 1 .. lsn
      BY <2>7 DEF IInv, CallRun, ReturnCall
    <3>2. mine[t] \subseteq 1 .. synced_lsn
      <4>1. synced_lsn \in Nat /\ want[t] \in Nat
        BY Zenon DEF IInv, TypeOK, TypeMlog, TypeCall
      <4> QED
        BY <3>1, <4>1, SMTT(30)
    <3>3. mine[t] \subseteq written /\ (mine[t] \cap full) \subseteq stable
      BY <3>2, PublishedWritten, Zenon DEF IInv, FullRun
    <3>4. acked' = acked \cup mine[t] /\ UNCHANGED <<lsn, full, written, stable>>
      BY <2>7 DEF ReturnCall
    <3> QED
      BY <3>1, <3>3, <3>4, Zenon DEF Promise!Ack
  <2> QED
    BY <2>0, <2>1, <2>2, <2>3, <2>4, <2>5, <2>6, <2>7 DEF Next, Step, Promise!Next
<1> QED
  BY <1>1, <1>2, Inductive, PTL DEF Spec, Refines, Promise!Spec
=============================================================================
