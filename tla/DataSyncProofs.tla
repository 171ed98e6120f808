--------------------------- MODULE DataSyncProofs ---------------------------
(***************************************************************************)
(* Proofs about DataSync, for any set of threads.                          *)
(***************************************************************************)
EXTENDS DataSync, TLAPS

USE SyncAssumption DEF SyncAssumption

(* The initial state, before any write, satisfies the invariant. *)
LEMMA InitInv == Init => IInv
  BY DEF Init, IInv, TypeOK, LockOwner, TagMeaning, OwnSync, SyncedIsStable,
         PCs, Holding, Kinds

(* What the end of a call leaves: the thread is idle, the variables of the *)
(* other threads are as they were, and the call is in acked only if it     *)
(* returned FLASH_EOK to a synchronous caller.                             *)
Returned(t, ok) ==
    /\ pc' = [pc EXCEPT ![t] = "idle"]
    /\ pc' \in [Threads -> PCs] /\ kind' \in [Threads -> Kinds]
    /\ sync' \in [Threads -> BOOLEAN] /\ sync_tag' \in [Threads -> Nat]
    /\ acked' \subseteq acked \cup {t}
    /\ ~ok => acked' = acked
    /\ ~sync[t] => acked' = acked
    /\ t \in acked' \ acked => kind' = kind
    /\ \A u \in Threads \ {t} : sync_tag'[u] = sync_tag[u] /\ kind'[u] = kind[u]

(* Every return of mcd_fth_aio_blk_write_low leaves that. *)
LEMMA ReturnFacts ==
    ASSUME TypeOK, NEW t \in Threads, NEW ok \in BOOLEAN, Return(t, ok)
    PROVE  Returned(t, ok)
  <1> USE DEF Returned
  <1>1. pc' = [pc EXCEPT ![t] = "idle"] BY DEF Return, Goto
  <1>2. pc' \in [Threads -> PCs] BY <1>1 DEF TypeOK, PCs
  <1>3. sync' \in [Threads -> BOOLEAN]
    <2>1. sync' = [sync EXCEPT ![t] = FALSE] BY Zenon DEF Return
    <2> QED BY <2>1, Zenon DEF TypeOK
  <1>4. /\ sync_tag' \in [Threads -> Nat]
        /\ \A u \in Threads \ {t} : sync_tag'[u] = sync_tag[u]
    <2>1. sync_tag' = [sync_tag EXCEPT ![t] = 0] BY Zenon DEF Return
    <2> QED BY <2>1 DEF TypeOK
  <1>5. CASE ok /\ sync[t]
    <2>1. acked' = acked \cup {t} /\ kind' = kind BY <1>5, Zenon DEF Return
    <2> QED BY <1>1, <1>2, <1>3, <1>4, <1>5, <2>1 DEF TypeOK
  <1>6. CASE ~(ok /\ sync[t])
    <2>1. kind' = [kind EXCEPT ![t] = "blocks"] /\ acked' = acked
      BY <1>6, Zenon DEF Return
    <2>2. kind' \in [Threads -> Kinds] /\ \A u \in Threads \ {t} : kind'[u] = kind[u]
      BY <2>1 DEF TypeOK, Kinds
    <2> QED BY <1>1, <1>2, <1>3, <1>4, <2>1, <2>2
  <1> QED BY <1>5, <1>6

(* Every step inside mcd_fth_aio_blk_write_low and the unaligned path      *)
(* keeps the invariant.                                                    *)
LEMMA StepInv ==
    ASSUME IInv, NEW t \in Threads, Step(t)
    PROVE  IInv'
  <1> USE DEF IInv, TypeOK, Goto, meta
  <1>1. CASE Pwrite(t)
    <2>1. TypeOK' BY <1>1 DEF Pwrite, PCs, Kinds
    <2>2. LockOwner' BY <1>1 DEF Pwrite, LockOwner, Holding
    <2>3. TagMeaning'
      <3> SUFFICES ASSUME NEW u \in Threads, pc'[u] \in {"check", "lock", "test"}
                   PROVE  /\ sync_tag'[u] <= sync_counter'
                          /\ sync_counter' > sync_tag'[u] => Covered(u)'
                          /\ sync_counter' > sync_tag'[u] + 1 => u \in stable'
        BY DEF TagMeaning
      <3>1. Covered(u) => Covered(u)' BY <1>1 DEF Pwrite, Covered
      <3> QED BY <1>1, <3>1 DEF Pwrite, TagMeaning
    <2>4. OwnSync' BY <1>1 DEF Pwrite, OwnSync
    <2>5. SyncedIsStable' BY <1>1 DEF Pwrite, SyncedIsStable, OwnSync
    <2> QED BY <2>1, <2>2, <2>3, <2>4, <2>5
  <1>2. CASE PwriteFails(t)
    <2>a. Return(t, FALSE) BY <1>2 DEF PwriteFails
    <2>b. Returned(t, FALSE) BY <2>a, ReturnFacts
    <2>1. TypeOK' BY <1>2, <2>b DEF Returned, PwriteFails
    <2>2. LockOwner' BY <1>2, <2>b DEF Returned, PwriteFails, LockOwner, Holding
    <2>3. TagMeaning'
      <3> SUFFICES ASSUME NEW u \in Threads, pc'[u] \in {"check", "lock", "test"}
                   PROVE  /\ sync_tag'[u] <= sync_counter'
                          /\ sync_counter' > sync_tag'[u] => Covered(u)'
                          /\ sync_counter' > sync_tag'[u] + 1 => u \in stable'
        BY DEF TagMeaning
      <3>1. Covered(u) => Covered(u)'
        BY <1>2, <2>b DEF Returned, PwriteFails, Covered
      <3> QED BY <1>2, <2>b, <3>1 DEF Returned, PwriteFails, TagMeaning
    <2>4. OwnSync' BY <1>2, <2>b DEF Returned, PwriteFails, OwnSync
    <2>5. SyncedIsStable'
      BY <1>2, <2>b DEF Returned, PwriteFails, SyncedIsStable, OwnSync
    <2> QED BY <2>1, <2>2, <2>3, <2>4, <2>5
  <1>3. CASE ReadTag(t)
    <2>1. CASE sync[t]
      <3>1. TypeOK' BY <1>3, <2>1 DEF ReadTag, PCs, Kinds
      <3>2. LockOwner' BY <1>3, <2>1 DEF ReadTag, LockOwner, Holding
      <3>3. TagMeaning'
        <4> SUFFICES ASSUME NEW u \in Threads, pc'[u] \in {"check", "lock", "test"}
                     PROVE  /\ sync_tag'[u] <= sync_counter'
                            /\ sync_counter' > sync_tag'[u] => Covered(u)'
                            /\ sync_counter' > sync_tag'[u] + 1 => u \in stable'
          BY DEF TagMeaning
        <4>1. Covered(u) => Covered(u)' BY <1>3, <2>1 DEF ReadTag, Covered
        <4> QED BY <1>3, <2>1, <4>1 DEF ReadTag, TagMeaning
      <3>4. OwnSync' BY <1>3, <2>1 DEF ReadTag, OwnSync
      <3>5. SyncedIsStable' BY <1>3, <2>1 DEF ReadTag, SyncedIsStable, OwnSync
      <3> QED BY <3>1, <3>2, <3>3, <3>4, <3>5
    <2>2. CASE ~sync[t]
      <3>a. Return(t, TRUE) BY <1>3, <2>2 DEF ReadTag
      <3>b. Returned(t, TRUE) BY <3>a, ReturnFacts
      <3>1. TypeOK' BY <1>3, <2>2, <3>b DEF Returned, ReadTag
      <3>2. LockOwner'
        BY <1>3, <2>2, <3>b DEF Returned, ReadTag, LockOwner, Holding
      <3>3. TagMeaning'
        <4> SUFFICES ASSUME NEW u \in Threads, pc'[u] \in {"check", "lock", "test"}
                     PROVE  /\ sync_tag'[u] <= sync_counter'
                            /\ sync_counter' > sync_tag'[u] => Covered(u)'
                            /\ sync_counter' > sync_tag'[u] + 1 => u \in stable'
          BY DEF TagMeaning
        <4>1. Covered(u) => Covered(u)'
          BY <1>3, <2>2, <3>b DEF Returned, ReadTag, Covered
        <4> QED BY <1>3, <2>2, <3>b, <4>1 DEF Returned, ReadTag, TagMeaning
      <3>4. OwnSync' BY <1>3, <2>2, <3>b DEF Returned, ReadTag, OwnSync
      <3>5. SyncedIsStable'
        BY <1>3, <2>2, <3>b DEF Returned, ReadTag, SyncedIsStable, OwnSync
      <3> QED BY <3>1, <3>2, <3>3, <3>4, <3>5
    <2> QED BY <2>1, <2>2
  <1>4. CASE Check(t)
    <2>1. CASE sync_counter <= sync_tag[t] + 1
      <3>1. TypeOK' BY <1>4, <2>1 DEF Check, PCs, Kinds
      <3>2. LockOwner' BY <1>4, <2>1 DEF Check, LockOwner, Holding
      <3>3. TagMeaning'
        <4> SUFFICES ASSUME NEW u \in Threads, pc'[u] \in {"check", "lock", "test"}
                     PROVE  /\ sync_tag'[u] <= sync_counter'
                            /\ sync_counter' > sync_tag'[u] => Covered(u)'
                            /\ sync_counter' > sync_tag'[u] + 1 => u \in stable'
          BY DEF TagMeaning
        <4>1. Covered(u) => Covered(u)' BY <1>4, <2>1 DEF Check, Covered
        <4> QED BY <1>4, <2>1, <4>1 DEF Check, TagMeaning
      <3>4. OwnSync' BY <1>4, <2>1 DEF Check, OwnSync
      <3>5. SyncedIsStable'
        BY <1>4, <2>1 DEF Check, SyncedIsStable, OwnSync, TagMeaning
      <3> QED BY <3>1, <3>2, <3>3, <3>4, <3>5
    <2>2. CASE ~(sync_counter <= sync_tag[t] + 1)
      <3>a. Return(t, TRUE) BY <1>4, <2>2 DEF Check
      <3>b. Returned(t, TRUE) BY <3>a, ReturnFacts
      <3>1. TypeOK' BY <1>4, <2>2, <3>b DEF Returned, Check
      <3>2. LockOwner'
        BY <1>4, <2>2, <3>b DEF Returned, Check, LockOwner, Holding
      <3>3. TagMeaning'
        <4> SUFFICES ASSUME NEW u \in Threads, pc'[u] \in {"check", "lock", "test"}
                     PROVE  /\ sync_tag'[u] <= sync_counter'
                            /\ sync_counter' > sync_tag'[u] => Covered(u)'
                            /\ sync_counter' > sync_tag'[u] + 1 => u \in stable'
          BY DEF TagMeaning
        <4>1. Covered(u) => Covered(u)'
          BY <1>4, <2>2, <3>b DEF Returned, Check, Covered
        <4> QED BY <1>4, <2>2, <3>b, <4>1 DEF Returned, Check, TagMeaning
      <3>4. OwnSync' BY <1>4, <2>2, <3>b DEF Returned, Check, OwnSync
      <3>5. SyncedIsStable'
        BY <1>4, <2>2, <3>b DEF Returned, Check, SyncedIsStable, OwnSync, TagMeaning
      <3> QED BY <3>1, <3>2, <3>3, <3>4, <3>5
    <2> QED BY <2>1, <2>2
  <1>5. CASE Lock(t)
    <2>1. TypeOK' BY <1>5 DEF Lock, PCs, Kinds
    <2>2. LockOwner' BY <1>5 DEF Lock, LockOwner, Holding
    <2>3. TagMeaning'
      <3> SUFFICES ASSUME NEW u \in Threads, pc'[u] \in {"check", "lock", "test"}
                   PROVE  /\ sync_tag'[u] <= sync_counter'
                          /\ sync_counter' > sync_tag'[u] => Covered(u)'
                          /\ sync_counter' > sync_tag'[u] + 1 => u \in stable'
        BY DEF TagMeaning
      <3>1. Covered(u) => Covered(u)' BY <1>5 DEF Lock, Covered
      <3> QED BY <1>5, <3>1 DEF Lock, TagMeaning
    <2>4. OwnSync' BY <1>5 DEF Lock, OwnSync
    <2>5. SyncedIsStable' BY <1>5 DEF Lock, SyncedIsStable, OwnSync
    <2> QED BY <2>1, <2>2, <2>3, <2>4, <2>5
  <1>6. CASE Test(t)
    <2>a. \A u \in Threads : Covered(u) => u \in stable
      BY <1>6 DEF Test, LockOwner, Holding, Covered
    <2>1. TypeOK' BY <1>6 DEF Test, PCs, Kinds
    <2>2. LockOwner' BY <1>6 DEF Test, LockOwner, Holding
    <2>3. TagMeaning'
      <3> SUFFICES ASSUME NEW u \in Threads, pc'[u] \in {"check", "lock", "test"}
                   PROVE  /\ sync_tag'[u] <= sync_counter'
                          /\ sync_counter' > sync_tag'[u] => Covered(u)'
                          /\ sync_counter' > sync_tag'[u] + 1 => u \in stable'
        BY DEF TagMeaning
      <3>1. CASE sync_counter = sync_tag[t]
        <4>1. pc'[t] = "sync" /\ u # t BY <1>6, <3>1 DEF Test
        <4>2. Covered(u)' BY <4>1 DEF Covered
        <4> QED BY <1>6, <2>a, <3>1, <4>1, <4>2 DEF Test, TagMeaning
      <3>2. CASE sync_counter # sync_tag[t]
        <4>1. Covered(u) => Covered(u)' BY <1>6, <3>2, <2>a DEF Test, Covered
        <4> QED BY <1>6, <3>2, <4>1 DEF Test, TagMeaning
      <3> QED BY <3>1, <3>2
    <2>4. OwnSync' BY <1>6, <2>a DEF Test, OwnSync, TagMeaning
    <2>5. SyncedIsStable' BY <1>6 DEF Test, SyncedIsStable, OwnSync
    <2> QED BY <2>1, <2>2, <2>3, <2>4, <2>5
  <1>7. CASE BeginSync(t)
    <2>1. TypeOK' BY <1>7 DEF BeginSync, PCs, Kinds
    <2>2. LockOwner' BY <1>7 DEF BeginSync, LockOwner, Holding
    <2>3. TagMeaning'
      <3> SUFFICES ASSUME NEW u \in Threads, pc'[u] \in {"check", "lock", "test"}
                   PROVE  /\ sync_tag'[u] <= sync_counter'
                          /\ sync_counter' > sync_tag'[u] => Covered(u)'
                          /\ sync_counter' > sync_tag'[u] + 1 => u \in stable'
        BY DEF TagMeaning
      <3>1. Covered(u) => Covered(u)' BY <1>7 DEF BeginSync, Covered
      <3> QED BY <1>7, <3>1 DEF BeginSync, TagMeaning
    <2>4. OwnSync' BY <1>7 DEF BeginSync, OwnSync
    <2>5. SyncedIsStable' BY <1>7 DEF BeginSync, SyncedIsStable, OwnSync
    <2> QED BY <2>1, <2>2, <2>3, <2>4, <2>5
  <1>8. CASE EndSync(t)
    <2>1. TypeOK' BY <1>8 DEF EndSync, PCs, Kinds
    <2>2. LockOwner' BY <1>8 DEF EndSync, LockOwner, Holding
    <2>3. TagMeaning'
      <3> SUFFICES ASSUME NEW u \in Threads, pc'[u] \in {"check", "lock", "test"}
                   PROVE  /\ sync_tag'[u] <= sync_counter'
                          /\ sync_counter' > sync_tag'[u] => Covered(u)'
                          /\ sync_counter' > sync_tag'[u] + 1 => u \in stable'
        BY DEF TagMeaning
      <3>1. Covered(u) => Covered(u)' BY <1>8 DEF EndSync, Covered
      <3> QED BY <1>8, <3>1 DEF EndSync, TagMeaning
    <2>4. OwnSync' BY <1>8 DEF EndSync, OwnSync
    <2>5. SyncedIsStable' BY <1>8 DEF EndSync, SyncedIsStable, OwnSync
    <2> QED BY <2>1, <2>2, <2>3, <2>4, <2>5
  <1>9. CASE Unlock(t)
    <2>a. Return(t, TRUE) BY <1>9 DEF Unlock
    <2>b. Returned(t, TRUE) BY <2>a, ReturnFacts
    <2>1. TypeOK' BY <1>9, <2>b DEF Returned, Unlock
    <2>2. LockOwner' BY <1>9, <2>b DEF Returned, Unlock, LockOwner, Holding
    <2>3. TagMeaning'
      <3> SUFFICES ASSUME NEW u \in Threads, pc'[u] \in {"check", "lock", "test"}
                   PROVE  /\ sync_tag'[u] <= sync_counter'
                          /\ sync_counter' > sync_tag'[u] => Covered(u)'
                          /\ sync_counter' > sync_tag'[u] + 1 => u \in stable'
        BY DEF TagMeaning
      <3>1. Covered(u) => Covered(u)'
        BY <1>9, <2>b DEF Returned, Unlock, Covered
      <3> QED BY <1>9, <2>b, <3>1 DEF Returned, Unlock, TagMeaning
    <2>4. OwnSync' BY <1>9, <2>b DEF Returned, Unlock, OwnSync
    <2>5. SyncedIsStable'
      BY <1>9, <2>b DEF Returned, Unlock, SyncedIsStable, OwnSync
    <2> QED BY <2>1, <2>2, <2>3, <2>4, <2>5
  <1>10. CASE MetaLock(t)
    <2>1. TypeOK' BY <1>10 DEF MetaLock, PCs, Kinds
    <2>2. LockOwner' BY <1>10 DEF MetaLock, LockOwner, Holding
    <2>3. TagMeaning'
      <3> SUFFICES ASSUME NEW u \in Threads, pc'[u] \in {"check", "lock", "test"}
                   PROVE  /\ sync_tag'[u] <= sync_counter'
                          /\ sync_counter' > sync_tag'[u] => Covered(u)'
                          /\ sync_counter' > sync_tag'[u] + 1 => u \in stable'
        BY DEF TagMeaning
      <3>1. Covered(u) => Covered(u)' BY <1>10 DEF MetaLock, Covered
      <3> QED BY <1>10, <3>1 DEF MetaLock, TagMeaning
    <2>4. OwnSync' BY <1>10 DEF MetaLock, OwnSync
    <2>5. SyncedIsStable' BY <1>10 DEF MetaLock, SyncedIsStable, OwnSync
    <2> QED BY <2>1, <2>2, <2>3, <2>4, <2>5
  <1>11. CASE UnalignedDone(t)
    <2>a. Return(t, TRUE) BY <1>11 DEF UnalignedDone, PwritePieces
    <2>b. Returned(t, TRUE) BY <2>a, ReturnFacts
    <2>1. TypeOK' BY <1>11, <2>b DEF Returned, UnalignedDone, PwritePieces
    <2>2. LockOwner'
      BY <1>11, <2>b DEF Returned, UnalignedDone, PwritePieces, LockOwner, Holding
    <2>3. TagMeaning'
      <3> SUFFICES ASSUME NEW u \in Threads, pc'[u] \in {"check", "lock", "test"}
                   PROVE  /\ sync_tag'[u] <= sync_counter'
                          /\ sync_counter' > sync_tag'[u] => Covered(u)'
                          /\ sync_counter' > sync_tag'[u] + 1 => u \in stable'
        BY DEF TagMeaning
      <3>1. Covered(u) => Covered(u)'
        BY <1>11, <2>b DEF Returned, UnalignedDone, PwritePieces, Covered
      <3> QED
        BY <1>11, <2>b, <3>1 DEF Returned, UnalignedDone, PwritePieces, TagMeaning
    <2>4. OwnSync'
      BY <1>11, <2>b DEF Returned, UnalignedDone, PwritePieces, OwnSync
    <2>5. SyncedIsStable'
      BY <1>11, <2>b DEF Returned, UnalignedDone, PwritePieces, SyncedIsStable, OwnSync
    <2> QED BY <2>1, <2>2, <2>3, <2>4, <2>5
  <1>12. CASE UnalignedFails(t)
    <2>a. Return(t, FALSE) BY <1>12 DEF UnalignedFails, PwritePieces
    <2>b. Returned(t, FALSE) BY <2>a, ReturnFacts
    <2>1. TypeOK' BY <1>12, <2>b DEF Returned, UnalignedFails, PwritePieces
    <2>2. LockOwner'
      BY <1>12, <2>b DEF Returned, UnalignedFails, PwritePieces, LockOwner, Holding
    <2>3. TagMeaning'
      <3> SUFFICES ASSUME NEW u \in Threads, pc'[u] \in {"check", "lock", "test"}
                   PROVE  /\ sync_tag'[u] <= sync_counter'
                          /\ sync_counter' > sync_tag'[u] => Covered(u)'
                          /\ sync_counter' > sync_tag'[u] + 1 => u \in stable'
        BY DEF TagMeaning
      <3>1. Covered(u) => Covered(u)'
        BY <1>12, <2>b DEF Returned, UnalignedFails, PwritePieces, Covered
      <3> QED
        BY <1>12, <2>b, <3>1 DEF Returned, UnalignedFails, PwritePieces, TagMeaning
    <2>4. OwnSync'
      BY <1>12, <2>b DEF Returned, UnalignedFails, PwritePieces, OwnSync
    <2>5. SyncedIsStable'
      BY <1>12, <2>b DEF Returned, UnalignedFails, PwritePieces, SyncedIsStable, OwnSync
    <2> QED BY <2>1, <2>2, <2>3, <2>4, <2>5
  <1> QED BY <1>1, <1>2, <1>3, <1>4, <1>5, <1>6, <1>7, <1>8, <1>9, <1>10, <1>11,
            <1>12 DEF Step

(* A new call keeps the invariant, whatever path it takes. *)
LEMMA CallInv ==
    ASSUME IInv, NEW t \in Threads, NEW s \in BOOLEAN, NEW k \in Kinds,
           Call(t, s, k)
    PROVE  IInv'
  <1> USE DEF IInv, TypeOK, Goto, Call
  <1>1. TypeOK' BY DEF PCs
  <1>2. LockOwner' BY DEF LockOwner, Holding
  <1>3. TagMeaning' BY DEF TagMeaning, Covered
  <1>4. OwnSync' BY DEF OwnSync, Kinds
  <1>5. SyncedIsStable' BY DEF SyncedIsStable
  <1> QED BY <1>1, <1>2, <1>3, <1>4, <1>5

(* So does a call that is refused. *)
LEMMA RefusedInv ==
    ASSUME IInv, NEW t \in Threads, Refused(t)
    PROVE  IInv'
  <1> USE DEF IInv, TypeOK, Refused
  <1>1. TypeOK' BY DEF Kinds
  <1>2. LockOwner' BY DEF LockOwner
  <1>3. TagMeaning' BY DEF TagMeaning, Covered
  <1>4. OwnSync' BY DEF OwnSync
  <1>5. SyncedIsStable' BY DEF SyncedIsStable
  <1> QED BY <1>1, <1>2, <1>3, <1>4, <1>5

(* IInv is an invariant of the shared fdatasync, for any threads. *)
THEOREM SyncInductive == Spec => []IInv
  <1>1. IInv /\ [Next]_vars => IInv'
    <2> SUFFICES ASSUME IInv, [Next]_vars PROVE IInv' OBVIOUS
    <2>1. CASE UNCHANGED vars
     
        BY <2>1 DEF vars, meta, IInv, TypeOK, LockOwner, TagMeaning, Covered, OwnSync,
                  SyncedIsStable
    <2>2. CASE Next BY <2>2, StepInv, CallInv, RefusedInv DEF Next
    <2> QED BY <2>1, <2>2
  <1> QED BY InitInv, <1>1, PTL DEF Spec

(* A synchronous write of whole blocks that returned FLASH_EOK is on the   *)
(* device, although the thread may have returned on the strength of an     *)
(* unlocked read of the counter and of an fdatasync called by another      *)
(* thread, and although unaligned calls run, and fail, beside it.          *)
THEOREM SyncDurability == Spec => []SyncedIsStable
  <1>1. IInv => SyncedIsStable BY DEF IInv
  <1> QED BY SyncInductive, <1>1, PTL
=============================================================================
