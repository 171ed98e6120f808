-------------------------- MODULE SlabAllocPlaces ---------------------------
(***************************************************************************)
(* The inductive invariant of SlabAlloc, for any number of threads,        *)
(* classes, segments and slabs, and its proof: types, where each actor can *)
(* be, which segments are assigned, that every slab in use is one of them, *)
(* and what every step keeps of the arrays of the classes, of the threads  *)
(* at a segment and of the owners of the slabs.                            *)
(***************************************************************************)
EXTENDS SlabAlloc, TLAPS

Locked == {"recheck", "slot", "count", "got", "unlock"}  \* counted in used
Inside == {"slot", "count", "got"}      \* at a segment found in its place
Taken == {"wait", "decide"}             \* has taken a segment out of its place
Marked == {"scan", "gcshrink", "out"}   \* has marked the place of a segment

Steps ==
    {"idle", "lock", "own", "uncount", "freed", "shrink", "mark"} \cup Locked \cup Taken \cup Marked

Given == Range(free_segments)
Calls == [c : Classes \cup {None}, g : 0 .. NSegs, m : Nat]

Types ==
    /\ class \in [Segs -> Classes \cup {None}] /\ idx \in [Segs -> Nat]
    /\ used \in [Segs -> Int] /\ used_slabs \in [Segs -> Int]
    /\ mos_bitmap \in [Segs -> {None} \cup SUBSET Nat]
    /\ segments \in [Classes -> [1 .. NSegs -> Segs \cup {None, Gc}]]
    /\ num_segments \in [Classes -> Nat] /\ total_slabs \in [Classes -> Int]
    /\ class_used \in [Classes -> Int] /\ dealloc_pending \in [Classes -> Int]
    /\ class_lock \in [Classes -> Actors \cup {None}]
    /\ free_segments \in Seq(Segs) /\ blk_allocated \in 0 .. NSegs
    /\ free_slabs \in [Classes -> [Threads -> Seq(Slab)]]
    /\ objs \subseteq Slab /\ dead \subseteq Slab
    /\ pc \in [Actors -> Steps] /\ my \in [Actors -> Calls]

(* Which steps an actor can be at.                                          *)
ThreadSteps == {"idle", "lock", "own", "uncount", "freed", "shrink"} \cup Locked \cup Taken
LgwrSteps == {"idle", "uncount", "freed", "shrink"} \cup Taken
GcSteps == {"idle", "mark"} \cup Marked \cup Taken

Control ==
    /\ \A t \in Threads : pc[t] \in ThreadSteps
    /\ pc[Lgwr] \in LgwrSteps /\ pc[Gc] \in GcSteps
    /\ \A a \in Actors \ {Gc} : pc[a] # "idle" => my[a] \in Slab

(* A segment has one class for ever: one from the free list does not pass   *)
(* the assertion on its bitmap.                                             *)
Known(s) == s.g \in 1 .. blk_allocated /\ class[s.g] = s.c

Assigned ==
    /\ \A g \in Segs :
         IF g <= blk_allocated
         THEN class[g] \in Classes /\ idx[g] \in 1 .. NSegs /\ mos_bitmap[g] \in SUBSET Nat
         ELSE class[g] = None /\ mos_bitmap[g] = None
    /\ \A c \in Classes : num_segments[c] <= blk_allocated
    /\ \A g \in Given : g <= blk_allocated /\ mos_bitmap[g] = {}

AllKnown ==
    /\ \A s \in objs \cup dead : Known(s)
    /\ \A c \in Classes, t \in Threads : \A i \in 1 .. Len(free_slabs[c][t]) :
         Known(free_slabs[c][t][i])
    /\ \A a \in Actors : pc[a] # "idle" => Known(my[a])

(* A segment is in its place, taken out by the holder of the class lock,    *)
(* marked by compaction, or given back.                                     *)
Held ==
    \A c \in Classes, k \in 1 .. NSegs : segments[c][k] \in Segs =>
      LET g == segments[c][k]
      IN  class[g] = c /\ idx[g] = k /\ g <= blk_allocated /\ g \notin Given

Behind == \A c \in Classes, k \in 1 .. NSegs : k > num_segments[c] => segments[c][k] = None

TakenOut ==
    \A a \in Actors : pc[a] \in Taken =>
      /\ segments[my[a].c][idx[my[a].g]] = None /\ class_lock[my[a].c] = a
      /\ my[a].g \notin Given /\ idx[my[a].g] <= num_segments[my[a].c]

MarkedOut ==
    pc[Gc] \in Marked => segments[my[Gc].c][idx[my[Gc].g]] = Gc /\ my[Gc].g \notin Given

InPlaces == Held /\ Behind /\ TakenOut /\ MarkedOut

(* Whoever waited until no thread was at its segment has it for itself,     *)
(* although others may announce themselves again; nobody is inside a        *)
(* segment that was given back.                                             *)
Alone ==
    /\ \A a \in Actors, t \in Threads :
         pc[a] = "decide" /\ pc[t] \in Inside => my[t].g # my[a].g
    /\ \A t \in Threads : pc[t] \in Inside => my[t].g \notin Given

AllocInv ==
    Types /\ Control /\ Assigned /\ AllKnown /\ InPlaces /\ Alone /\ SlabsApart

(* used counts the threads at a segment.                                    *)
Users(g) == {t \in Threads : pc[t] \in Locked /\ my[t].g = g}

(* What the counts and a finite array tell about the rest.                  *)
Drained == \A g \in Segs : used[g] = 0 => Users(g) = {}

Emptied ==
    \A a \in Actors : pc[a] = "decide" /\ used_slabs[my[a].g] = 0 => mos_bitmap[my[a].g] = {}

Trimmed ==
    \A c \in Classes :
        /\ LastPlace(c) \in 0 .. num_segments[c]
        /\ \A k \in LastPlace(c) + 1 .. num_segments[c] : segments[c][k] = None
-----------------------------------------------------------------------------
(* What the steps do, place by place.                                       *)

Moves(a, l, s) ==
    /\ pc'[a] = l /\ my'[a] = s
    /\ \A b \in Actors \ {a} : pc'[b] = pc[b] /\ my'[b] = my[b]

(* Everything but the calls in progress stays.                              *)
Still == UNCHANGED <<segs, classes, space, slabs>>

LEMMA IsActor == Lgwr \in Actors /\ Gc \in Actors /\ \A t \in Threads : t \in Actors /\ t # Gc /\ t # Lgwr
BY AllocAssumption DEF Actors

LEMMA MoveFact ==
    ASSUME Types, NEW a \in Actors, NEW l, NEW s,
           pc' = [pc EXCEPT ![a] = l], my' = [my EXCEPT ![a] = s]
    PROVE  Moves(a, l, s)
BY DEF Types, Moves

LEMMA StayFact ==
    ASSUME Types, NEW a \in Actors, NEW l, pc' = [pc EXCEPT ![a] = l], my' = my
    PROVE  Moves(a, l, my[a])
BY DEF Types, Moves

LEMMA GetFreeSlabStep ==
    ASSUME Types, NEW t \in Threads, NEW c \in Classes, GetFreeSlab(t, c)
    PROVE  /\ pc[t] = "idle" /\ free_slabs[c][t] # <<>>
           /\ Moves(t, "lock", Top(free_slabs[c][t]))
           /\ UNCHANGED <<segs, classes, space, objs, dead, halt>>
           /\ free_slabs' = [free_slabs EXCEPT ![c][t] = Pop(free_slabs[c][t])]
BY IsActor, MoveFact, Zenon DEF GetFreeSlab, Goto, At

LEMMA GetSegmentStep ==
    ASSUME Types, NEW t \in Threads, NEW c \in Classes, GetSegment(t, c)
    PROVE  /\ pc[t] = "idle" /\ Still
           /\ \E k \in 1 .. num_segments[c], m \in 1 .. PerSeg[c] :
                /\ segments[c][k] \in Segs
                /\ Moves(t, "lock", [c |-> c, g |-> segments[c][k], m |-> m])
BY IsActor, MoveFact, Zenon DEF GetSegment, Goto, At, Still

LEMMA SegmentLockStep ==
    ASSUME Types, NEW t \in Threads, SegmentLock(t)
    PROVE  /\ pc[t] = "lock" /\ Moves(t, "recheck", my[t])
           /\ UNCHANGED <<class, idx, used_slabs, mos_bitmap, classes, space, slabs>>
           /\ used' = [used EXCEPT ![my[t].g] = @ + 1]
BY IsActor, StayFact, Zenon DEF SegmentLock, Goto, At

LEMMA SegmentCheckStep ==
    ASSUME Types, NEW t \in Threads, SegmentCheck(t)
    PROVE  /\ pc[t] = "recheck" /\ Still
           /\ \/ segments[my[t].c][idx[my[t].g]] = my[t].g /\ Moves(t, "slot", my[t])
              \/ Moves(t, "unlock", my[t])
BY IsActor, StayFact, Zenon DEF SegmentCheck, Goto, At, Still

LEMMA SlotAllocStep ==
    ASSUME Types, NEW t \in Threads, SlotAlloc(t)
    PROVE  /\ pc[t] = "slot"
           /\ UNCHANGED <<class, idx, used, used_slabs, classes, space, slabs>>
           /\ mos_bitmap' = [mos_bitmap EXCEPT ![my[t].g] = @ \cup {my[t].m}]
           /\ \/ my[t].m \notin mos_bitmap[my[t].g] /\ Moves(t, "count", my[t])
              \/ my[t].m \in mos_bitmap[my[t].g] /\ Moves(t, "unlock", my[t])
BY IsActor, StayFact, Zenon DEF SlotAlloc, Goto, At

LEMMA SlotCountStep ==
    ASSUME Types, NEW t \in Threads, SlotCount(t)
    PROVE  /\ pc[t] = "count" /\ Moves(t, "got", my[t])
           /\ UNCHANGED <<class, idx, used, mos_bitmap, segments, num_segments, total_slabs,
                          dealloc_pending, class_lock, space, slabs>>
           /\ used_slabs' = [used_slabs EXCEPT ![my[t].g] = @ + 1]
           /\ class_used' = [class_used EXCEPT ![class[my[t].g]] = @ + 1]
BY IsActor, StayFact, Zenon DEF SlotCount, Goto, At

LEMMA SegmentUnlockStep ==
    ASSUME Types, NEW t \in Threads, SegmentUnlock(t)
    PROVE  /\ UNCHANGED <<class, idx, used_slabs, mos_bitmap, classes, space, slabs>>
           /\ used' = [used EXCEPT ![my[t].g] = @ - 1]
           /\ \/ pc[t] = "got" /\ Moves(t, "own", my[t])
              \/ pc[t] = "unlock" /\ Moves(t, "idle", Nowhere)
BY IsActor, StayFact, MoveFact, Zenon DEF SegmentUnlock, Goto, Return, At

LEMMA InsertStep ==
    ASSUME Types, NEW t \in Threads, Insert(t)
    PROVE  /\ pc[t] = "own" /\ Moves(t, "idle", Nowhere) /\ objs' = objs \cup {my[t]}
           /\ UNCHANGED <<segs, classes, space, free_slabs, dead>>
BY IsActor, MoveFact, Zenon DEF Insert, Goto, Return, At

LEMMA DiscardStep ==
    ASSUME Types, NEW t \in Threads, Discard(t)
    PROVE  /\ pc[t] = "own" /\ Moves(t, "uncount", my[t])
           /\ mos_bitmap' = [mos_bitmap EXCEPT ![my[t].g] = @ \ {my[t].m}]
           /\ UNCHANGED <<class, idx, used, used_slabs, classes, space, slabs>>
BY IsActor, StayFact, Zenon DEF Discard, ClearBit, Goto, At, slabs

LEMMA LoggedStep ==
    ASSUME Types, Logged
    PROVE  /\ pc[Lgwr] = "idle"
           /\ UNCHANGED <<class, idx, used, used_slabs, classes, space, free_slabs, objs>>
           /\ \E s \in dead :
                /\ dead' = dead \ {s} /\ Moves(Lgwr, "uncount", s)
                /\ mos_bitmap' = [mos_bitmap EXCEPT ![s.g] = @ \ {s.m}]
BY IsActor, MoveFact, Zenon DEF Logged, ClearBit, Goto, At

LEMMA UncountStep ==
    ASSUME Types, NEW a \in Actors, Uncount(a)
    PROVE  /\ pc[a] = "uncount" /\ Moves(a, "freed", my[a])
           /\ UNCHANGED <<class, idx, used, mos_bitmap, segments, num_segments, total_slabs,
                          dealloc_pending, class_lock, space, slabs>>
           /\ used_slabs' = [used_slabs EXCEPT ![my[a].g] = @ - 1]
           /\ class_used' = [class_used EXCEPT ![class[my[a].g]] = @ - 1]
BY StayFact, Zenon DEF Uncount, Goto, At

LEMMA DeallocEndStep ==
    ASSUME Types, NEW a \in Actors, DeallocEnd(a)
    PROVE  /\ pc[a] = "freed"
           /\ Moves(a, "shrink", my[a]) \/ Moves(a, "idle", Nowhere)
           /\ UNCHANGED <<segs, segments, num_segments, total_slabs, class_used, class_lock,
                          space, objs, dead>>
           /\ LET c == class[my[a].g]
              IN  \/ /\ a = Lgwr /\ UNCHANGED free_slabs
                     /\ halt' = IF dealloc_pending[c] = 0 THEN "pending" ELSE ""
                     /\ dealloc_pending' = [dealloc_pending EXCEPT ![c] = @ - 1]
                  \/ /\ a # Lgwr /\ UNCHANGED <<dealloc_pending, halt>>
                     /\ \/ UNCHANGED free_slabs
                        \/ free_slabs' = [free_slabs EXCEPT ![c][a] = Append(@, my[a])]
BY StayFact, MoveFact, Zenon DEF DeallocEnd, Goto, Return, At

LEMMA ShrinkStep ==
    ASSUME Types, NEW a \in Actors, Shrink(a)
    PROVE  /\ pc[a] = "shrink"
           /\ UNCHANGED <<segs, num_segments, total_slabs, class_used, dealloc_pending,
                          space, slabs>>
           /\ LET g == my[a].g
                  c == class[g]
              IN  \/ /\ class_lock[c] = None /\ segments[c][idx[g]] = g
                     /\ segments' = [segments EXCEPT ![c][idx[g]] = None]
                     /\ class_lock' = [class_lock EXCEPT ![c] = a]
                     /\ Moves(a, "wait", my[a])
                  \/ Moves(a, "idle", Nowhere) /\ UNCHANGED <<segments, class_lock>>
BY StayFact, MoveFact, Zenon DEF Shrink, Goto, Return, At

LEMMA ShrinkWaitStep ==
    ASSUME Types, NEW a \in Actors, ShrinkWait(a)
    PROVE  pc[a] = "wait" /\ used[my[a].g] = 0 /\ Moves(a, "decide", my[a]) /\ Still
BY StayFact, Zenon DEF ShrinkWait, Goto, At, Still

(* With Gc \notin MayFail every shrink ends the call.                       *)
LEMMA ShrinkEndStep ==
    ASSUME Types, Gc \notin MayFail, NEW a \in Actors, ShrinkEnd(a)
    PROVE  /\ pc[a] = "decide" /\ Moves(a, "idle", Nowhere)
           /\ UNCHANGED <<segs, class_used, dealloc_pending, blk_allocated, slabs>>
           /\ LET g == my[a].g
                  c == class[g]
              IN  /\ class_lock' = [class_lock EXCEPT ![c] = None]
                  /\ \/ used_slabs[g] = 0 /\ FreeSegment(c, g)
                     \/ PutBack(c, g)
BY MoveFact, Zenon DEF ShrinkEnd, Goto, Return, At

LEMMA GcChooseStill == ASSUME GcChoose PROVE Still
BY Zenon DEF GcChoose, GcAble, GcPick, GcPickNone, Still

LEMMA GcChooseStep ==
    ASSUME Types, GcChoose
    PROVE  /\ pc[Gc] = "idle" /\ Still
           /\ \/ UNCHANGED <<pc, my>>
              \/ \E c \in Classes : Moves(Gc, "idle", [c |-> c, g |-> 0, m |-> 0])
              \/ \E c \in Classes : \E k \in 1 .. num_segments[c] :
                   /\ segments[c][k] \in Segs
                   /\ Moves(Gc, "mark", [c |-> c, g |-> segments[c][k], m |-> 0])
<1>1. CASE GcAble
  BY <1>1, IsActor, MoveFact, Zenon DEF GcAble, Goto, At, Still
<1>2. CASE GcPick
  <2>1. my[Gc].c # None => my[Gc].c \in Classes
    BY IsActor DEF Types, Calls
  <2> QED
    BY <1>2, <2>1, IsActor, MoveFact, Zenon DEF GcPick, Goto, At, Still
<1>3. CASE GcPickNone
  BY <1>3, Zenon DEF GcPickNone, At, Still
<1> QED
  BY <1>1, <1>2, <1>3, Zenon DEF GcChoose

LEMMA GcMarkStep ==
    ASSUME Types, GcMark
    PROVE  /\ pc[Gc] = "mark"
           /\ UNCHANGED <<segs, num_segments, total_slabs, class_used, dealloc_pending,
                          class_lock, space, slabs>>
           /\ LET c == my[Gc].c
                  k == idx[my[Gc].g]
              IN  \/ /\ segments[c][k] = my[Gc].g /\ class_lock[c] = None
                     /\ segments' = [segments EXCEPT ![c][k] = Gc]
                     /\ Moves(Gc, "scan", my[Gc])
                  \/ Moves(Gc, "idle", Nowhere) /\ UNCHANGED segments
BY IsActor, StayFact, MoveFact, Zenon DEF GcMark, Goto, Return, At

LEMMA GcScanStep ==
    ASSUME Types, GcScan
    PROVE  /\ pc[Gc] = "scan" /\ Still
           /\ \/ UNCHANGED <<pc, my>>
              \/ Moves(Gc, "gcshrink", my[Gc]) \/ Moves(Gc, "out", my[Gc])
BY IsActor, StayFact, Zenon DEF GcScan, Goto, At, Still

LEMMA GcShrinkStep ==
    ASSUME Types, GcShrink
    PROVE  /\ pc[Gc] = "gcshrink" /\ Moves(Gc, "wait", my[Gc])
           /\ UNCHANGED <<segs, num_segments, total_slabs, class_used, dealloc_pending,
                          space, slabs>>
           /\ LET g == my[Gc].g
                  c == class[g]
              IN  /\ class_lock[c] = None
                  /\ halt' = IF segments[c][idx[g]] = Gc THEN "" ELSE "gc"
                  /\ segments' = [segments EXCEPT ![c][idx[g]] = None]
                  /\ class_lock' = [class_lock EXCEPT ![c] = Gc]
BY IsActor, StayFact, Zenon DEF GcShrink, Goto, At

LEMMA GcOutStep ==
    ASSUME Types, GcOut
    PROVE  /\ pc[Gc] = "out" /\ Moves(Gc, "idle", Nowhere)
           /\ UNCHANGED <<segs, num_segments, total_slabs, class_used, dealloc_pending,
                          class_lock, space, slabs>>
           /\ class_lock[my[Gc].c] = None
           /\ segments' = [segments EXCEPT ![my[Gc].c][idx[my[Gc].g]] = my[Gc].g]
BY IsActor, MoveFact, Zenon DEF GcOut, Goto, Return, At

LEMMA PopFact ==
    ASSUME NEW S, NEW s \in Seq(S), s # <<>>
    PROVE  /\ Pop(s) \in Seq(S) /\ Top(s) \in S /\ Len(s) \in 1 .. Len(s) /\ Top(s) = s[Len(s)]
           /\ Len(Pop(s)) = Len(s) - 1
           /\ \A i \in 1 .. Len(s) - 1 : Pop(s)[i] = s[i]
<1>1. Pop(s) = [i \in 1 .. Len(s) - 1 |-> s[i]]
  BY DEF Pop
<1>2. Len([i \in 1 .. Len(s) - 1 |-> s[i]]) = Len(s) - 1
  OBVIOUS
<1>3. Pop(s) \in Seq(S)
  BY DEF Pop
<1>4. \A i \in 1 .. Len(s) - 1 : Pop(s)[i] = s[i]
  BY DEF Pop
<1>5. Top(s) \in S /\ Len(s) \in 1 .. Len(s) /\ Top(s) = s[Len(s)]
  BY DEF Top
<1> QED
  BY <1>1, <1>2, <1>3, <1>4, <1>5, Zenon

LEMMA GivenFact ==
    ASSUME Types, NEW g
    PROVE  g \in Given <=> \E i \in 1 .. Len(free_segments) : free_segments[i] = g
<1>1. DOMAIN free_segments = 1 .. Len(free_segments)
  BY DEF Types
<1> QED
  BY <1>1, Zenon DEF Given, Range

(* A class grows by the next segment of the shard, in the place behind its  *)
(* others.  A segment from the free list does not pass the assertion.       *)
Grown(c) ==
    LET g == blk_allocated + 1
        k == num_segments[c] + 1
    IN  /\ g \in Segs /\ k \in 1 .. NSegs /\ k <= g /\ blk_allocated' = g
        /\ UNCHANGED <<free_segments, halt>>
        /\ class' = [class EXCEPT ![g] = c]
        /\ idx' = [idx EXCEPT ![g] = k]
        /\ mos_bitmap' = [mos_bitmap EXCEPT ![g] = {}]
        /\ segments' = [segments EXCEPT ![c][k] = g]
        /\ num_segments' = [num_segments EXCEPT ![c] = k]
        /\ total_slabs' = [total_slabs EXCEPT ![c] = @ + PerSeg[c]]

GrowFails ==
    /\ UNCHANGED <<class, idx, mos_bitmap, segments, num_segments, total_slabs, blk_allocated>>
    /\ free_segments # <<>> /\ free_segments' = Pop(free_segments)
    /\ halt' = "bitmap"

LEMMA GrowClassStep ==
    ASSUME Types, Assigned, NEW t \in Threads, NEW c \in Classes, GrowClass(t, c)
    PROVE  /\ UNCHANGED <<used, used_slabs, class_used, dealloc_pending, class_lock, slabs, pc, my>>
           /\ class_lock[c] = None
           /\ GrowFails \/ Grown(c)
<1>1. /\ UNCHANGED <<used, used_slabs, class_used, dealloc_pending, class_lock, slabs, pc, my>>
      /\ class_lock[c] = None
  BY DEF GrowClass
<1>2. NSegs \in Nat /\ blk_allocated \in 0 .. NSegs /\ num_segments[c] \in Nat
      /\ num_segments[c] <= blk_allocated
  BY AllocAssumption, Zenon DEF Types, Assigned
<1>3. CASE blk_allocated < NSegs
  <2>1. /\ AssignSegment(c, blk_allocated + 1) /\ blk_allocated' = blk_allocated + 1
        /\ UNCHANGED free_segments
    BY <1>3 DEF GrowClass
  <2>2. blk_allocated + 1 \in Segs /\ ~(blk_allocated + 1 <= blk_allocated)
    BY <1>2, <1>3 DEF Segs
  <2>3. mos_bitmap[blk_allocated + 1] = None
    BY <2>2 DEF Assigned
  <2>4. num_segments[c] < NSegs /\ Place(c) = num_segments[c] + 1
    BY <1>2, <1>3 DEF Place
  <2>5. /\ class' = [class EXCEPT ![blk_allocated + 1] = c]
        /\ idx' = [idx EXCEPT ![blk_allocated + 1] = Place(c)]
        /\ mos_bitmap' = [mos_bitmap EXCEPT ![blk_allocated + 1] = {}]
        /\ segments' = [segments EXCEPT ![c][Place(c)] = blk_allocated + 1]
        /\ num_segments' = [num_segments EXCEPT ![c] = IF @ < NSegs THEN @ + 1 ELSE @]
        /\ total_slabs' = [total_slabs EXCEPT ![c] = @ + PerSeg[c]]
        /\ UNCHANGED halt
    BY <2>1, <2>3, Zenon DEF AssignSegment
  <2>6. num_segments' = [num_segments EXCEPT ![c] = num_segments[c] + 1]
    BY <2>4, <2>5 DEF Types
  <2>7. num_segments[c] + 1 \in 1 .. NSegs /\ num_segments[c] + 1 <= blk_allocated + 1
    BY <1>2, <2>4
  <2> QED
    BY <1>1, <2>1, <2>2, <2>4, <2>5, <2>6, <2>7, Zenon DEF Grown
<1>4. CASE ~(blk_allocated < NSegs)
  <2>1. /\ free_segments # <<>> /\ AssignSegment(c, Top(free_segments))
        /\ free_segments' = Pop(free_segments) /\ UNCHANGED blk_allocated
    BY <1>4 DEF GrowClass
  <2>2. free_segments \in Seq(Segs)
    BY DEF Types
  <2>3. Top(free_segments) \in Given
    BY <2>1, <2>2, PopFact, GivenFact, Zenon
  <2>4. mos_bitmap[Top(free_segments)] # None
    BY <2>3, AllocAssumption DEF Assigned
  <2> QED
    BY <1>1, <2>1, <2>4 DEF AssignSegment, GrowFails
<1> QED
  BY <1>3, <1>4

LEMMA NextNat == ASSUME NEW n \in Nat PROVE n + 1 \in Nat
OBVIOUS

LEMMA FreeSlabsType ==
    ASSUME Types, NEW c \in Classes, NEW t \in Threads PROVE free_slabs[c][t] \in Seq(Slab)
BY DEF Types

LEMMA KnownSeg ==
    ASSUME Types, NEW s, Known(s) PROVE s.g \in Segs /\ s.g <= blk_allocated
<1>1. blk_allocated \in 0 .. NSegs /\ NSegs \in Nat /\ s.g \in 1 .. blk_allocated
  BY AllocAssumption, Zenon DEF Types, Known
<1> QED
  BY <1>1 DEF Segs

(* The segment of a call that is not idle.                                  *)
LEMMA SegFact ==
    ASSUME Types, AllKnown, NEW a \in Actors, pc[a] # "idle"
    PROVE  /\ my[a].g \in Segs /\ my[a].g <= blk_allocated /\ my[a].g >= 1
           /\ class[my[a].g] = my[a].c
BY AllocAssumption, SMTT(30), ZenonT(30) DEF Types, AllKnown, Known, Segs

-----------------------------------------------------------------------------
(* Types and control.                                                       *)

LEMMA SlabCall == Slab \subseteq Calls /\ Nowhere \in Calls
BY AllocAssumption DEF Slab, Calls, Nowhere, Segs

TypeCalls == pc \in [Actors -> Steps] /\ my \in [Actors -> Calls]
TypeSegs ==
    /\ class \in [Segs -> Classes \cup {None}] /\ idx \in [Segs -> Nat]
    /\ used \in [Segs -> Int] /\ used_slabs \in [Segs -> Int]
    /\ mos_bitmap \in [Segs -> {None} \cup SUBSET Nat]
TypeClasses ==
    /\ segments \in [Classes -> [1 .. NSegs -> Segs \cup {None, Gc}]]
    /\ num_segments \in [Classes -> Nat] /\ total_slabs \in [Classes -> Int]
    /\ class_used \in [Classes -> Int] /\ dealloc_pending \in [Classes -> Int]
    /\ class_lock \in [Classes -> Actors \cup {None}]
TypeSpace == free_segments \in Seq(Segs) /\ blk_allocated \in 0 .. NSegs
TypeSlabs ==
    /\ free_slabs \in [Classes -> [Threads -> Seq(Slab)]]
    /\ objs \subseteq Slab /\ dead \subseteq Slab

LEMMA NextCalls == ASSUME AllocInv, [Next]_vars PROVE TypeCalls'
<1>1. /\ pc \in [Actors -> Steps] /\ my \in [Actors -> Calls]
  BY DEF AllocInv, Types
<1>2. ASSUME NEW a \in Actors, NEW l \in Steps, Goto(a, l), my' = my PROVE TypeCalls'
  BY <1>1, <1>2 DEF TypeCalls, Goto
<1>3. ASSUME NEW a \in Actors, NEW l \in Steps, NEW s \in Calls, Goto(a, l),
             my' = [my EXCEPT ![a] = s]
      PROVE  TypeCalls'
  BY <1>1, <1>3 DEF TypeCalls, Goto
<1>4. ASSUME NEW a \in Actors, Return(a) PROVE TypeCalls'
  BY <1>3, <1>4, SlabCall, Zenon DEF Return, Steps
<1>5. CASE UNCHANGED <<pc, my>>
  BY <1>1, <1>5 DEF TypeCalls
<1>6. ASSUME NEW t \in Threads, NEW c \in Classes,
             GetFreeSlab(t, c) \/ GetSegment(t, c) \/ GrowClass(t, c)
      PROVE  TypeCalls'
  <2>1. CASE GetFreeSlab(t, c)
    <3>1. Top(free_slabs[c][t]) \in Calls
      BY <2>1, PopFact, SlabCall DEF GetFreeSlab, AllocInv, Types
    <3> QED
      BY <1>3, <2>1, <3>1, IsActor, Zenon DEF GetFreeSlab, Steps
  <2>2. CASE GetSegment(t, c)
    <3>1. PICK k \in 1 .. num_segments[c], m \in 1 .. PerSeg[c] :
             /\ segments[c][k] \in Segs
             /\ my' = [my EXCEPT ![t] = [c |-> c, g |-> segments[c][k], m |-> m]]
      BY <2>2, Zenon DEF GetSegment
    <3>2. [c |-> c, g |-> segments[c][k], m |-> m] \in Calls
      BY <3>1, AllocAssumption DEF Calls, Segs
    <3> QED
      BY <1>3, <2>2, <3>1, <3>2, IsActor, Zenon DEF GetSegment, Steps
  <2>3. CASE GrowClass(t, c)
    BY <1>5, <2>3, Zenon DEF GrowClass
  <2> QED
    BY <1>6, <2>1, <2>2, <2>3, Zenon
<1>7. ASSUME NEW t \in Threads,
             \/ SegmentLock(t) \/ SegmentCheck(t) \/ SlotAlloc(t) \/ SlotCount(t)
             \/ SegmentUnlock(t)
      PROVE  TypeCalls'
  BY <1>2, <1>4, <1>7, IsActor, Zenon
     DEF SegmentLock, SegmentCheck, SlotAlloc, SlotCount, SegmentUnlock, Steps, Locked
<1>8. ASSUME NEW t \in Threads, Insert(t) \/ Discard(t) \/ RemoveEntry(t) PROVE TypeCalls'
  BY <1>2, <1>4, <1>5, <1>8, IsActor, Zenon DEF Insert, Discard, RemoveEntry, ClearBit, Steps
<1>9. CASE Logged
  <2>1. PICK s \in dead : my' = [my EXCEPT ![Lgwr] = s] /\ ClearBit(Lgwr, s)
    BY <1>9, Zenon DEF Logged
  <2>2. s \in Calls
    BY SlabCall DEF AllocInv, Types
  <2> QED
    BY <1>3, <2>1, <2>2, IsActor, Zenon DEF ClearBit, Steps
<1>10. ASSUME NEW a \in Actors, Freeing(a) PROVE TypeCalls'
  BY <1>2, <1>4, <1>10, Zenon DEF Freeing, Uncount, DeallocEnd, Shrink, ShrinkWait, ShrinkEnd,
                           Steps, Taken, Marked
<1>11. CASE Collecting
  <2>1. CASE GcAble
    <3>1. PICK c \in Classes : my' = [my EXCEPT ![Gc] = [c |-> c, g |-> 0, m |-> 0]]
      BY <2>1, Zenon DEF GcAble
    <3>2. [c |-> c, g |-> 0, m |-> 0] \in Calls
      BY AllocAssumption DEF Calls
    <3> QED
      BY <1>3, <2>1, <3>1, <3>2, IsActor, Zenon DEF GcAble, Steps
  <2>2. CASE GcPick
    <3>1. my[Gc].c \in Classes
      BY <2>2, IsActor DEF GcPick, AllocInv, Types, Calls
    <3>2. PICK k \in 1 .. num_segments[my[Gc].c] :
             /\ segments[my[Gc].c][k] \in Segs
             /\ my' = [my EXCEPT ![Gc] = [c |-> my[Gc].c, g |-> segments[my[Gc].c][k], m |-> 0]]
      BY <2>2, Zenon DEF GcPick
    <3>3. [c |-> my[Gc].c, g |-> segments[my[Gc].c][k], m |-> 0] \in Calls
      BY <3>1, <3>2, AllocAssumption DEF Calls, Segs
    <3> QED
      BY <1>3, <2>2, <3>2, <3>3, IsActor, Zenon DEF GcPick, Steps
  <2>3. CASE GcPickNone
    BY <1>5, <2>3, Zenon DEF GcPickNone
  <2>4. CASE GcMark \/ GcScan \/ GcShrink \/ GcOut
    BY <1>2, <1>4, <1>5, <2>4, IsActor, Zenon
       DEF GcMark, GcScan, GcShrink, GcOut, Steps, Taken, Marked
  <2> QED
    BY <1>11, <2>1, <2>2, <2>3, <2>4 DEF Collecting, GcChoose
<1>12. CASE Halted \/ UNCHANGED vars
  BY <1>5, <1>12, Zenon DEF Halted, vars
<1> QED
  BY <1>6, <1>7, <1>8, <1>9, <1>10, <1>11, <1>12, Zenon DEF Next, Taking

LEMMA Added ==
    ASSUME NEW S, NEW f \in [S -> Int], NEW x, NEW n \in Int
    PROVE  [f EXCEPT ![x] = @ + n] \in [S -> Int] /\ [f EXCEPT ![x] = @ - n] \in [S -> Int]
<1>1. \A y \in S : f[y] + n \in Int /\ f[y] - n \in Int
  OBVIOUS
<1> QED
  BY <1>1, Zenon

LEMMA AddedOne ==
    ASSUME NEW S, NEW f \in [S -> Int], NEW x
    PROVE  [f EXCEPT ![x] = @ + 1] \in [S -> Int] /\ [f EXCEPT ![x] = @ - 1] \in [S -> Int]
<1>1. \A y \in S : f[y] + 1 \in Int /\ f[y] - 1 \in Int
  BY SMTT(30), ZenonT(30)
<1> QED
  BY <1>1, Zenon

LEMMA Replaced ==
    ASSUME NEW c, NEW k, NEW v \in Segs \cup {None, Gc},
           segments \in [Classes -> [1 .. NSegs -> Segs \cup {None, Gc}]]
    PROVE  [segments EXCEPT ![c][k] = v] \in [Classes -> [1 .. NSegs -> Segs \cup {None, Gc}]]
BY Zenon

LEMMA NextSegs == ASSUME AllocInv, [Next]_vars PROVE TypeSegs'
<1>1. TypeSegs /\ blk_allocated \in 0 .. NSegs
  BY DEF AllocInv, Types, TypeSegs
<1>2. CASE UNCHANGED segs
  BY <1>1, <1>2, Zenon DEF TypeSegs, segs
<1>3. ASSUME NEW t \in Threads, NEW c \in Classes,
             GetFreeSlab(t, c) \/ GetSegment(t, c) \/ GrowClass(t, c)
      PROVE  TypeSegs'
  <2>1. CASE GrowClass(t, c)
    <3>1. CASE UNCHANGED <<class, idx, mos_bitmap>>
      BY <1>1, <2>1, <3>1 DEF GrowClass, TypeSegs
    <3>2. CASE /\ class' = [class EXCEPT ![blk_allocated + 1] = c]
               /\ idx' = [idx EXCEPT ![blk_allocated + 1] = num_segments[c] + 1]
               /\ mos_bitmap' = [mos_bitmap EXCEPT ![blk_allocated + 1] = {}]
      <4>1. UNCHANGED <<used, used_slabs>> /\ num_segments[c] + 1 \in Nat
        <5>1. num_segments[c] \in Nat
          BY Zenon DEF AllocInv, Types
        <5> QED
          BY <2>1, <5>1, NextNat, Zenon DEF GrowClass
      <4> QED
        BY <1>1, <3>2, <4>1, Zenon DEF TypeSegs
    <3> QED
      BY <2>1, <3>1, <3>2, GrowClassStep DEF AllocInv, GrowFails, Grown
  <2> QED
    BY <1>2, <1>3, <2>1, Zenon DEF GetFreeSlab, GetSegment
<1>4. ASSUME NEW t \in Threads,
             \/ SegmentLock(t) \/ SegmentCheck(t) \/ SlotAlloc(t) \/ SlotCount(t)
             \/ SegmentUnlock(t)
      PROVE  TypeSegs'
  <2>1. CASE SegmentLock(t)
    BY <1>1, <2>1, AddedOne, Zenon DEF SegmentLock, TypeSegs
  <2>2. CASE SegmentUnlock(t)
    BY <1>1, <2>2, AddedOne, Zenon DEF SegmentUnlock, TypeSegs
  <2>3. CASE SlotCount(t)
    BY <1>1, <2>3, AddedOne, Zenon DEF SlotCount, TypeSegs
  <2>4. CASE SlotAlloc(t)
    <3>1. UNCHANGED <<class, idx, used, used_slabs>> /\ pc[t] = "slot"
          /\ mos_bitmap' = [mos_bitmap EXCEPT ![my[t].g] = @ \cup {my[t].m}]
      BY <2>4, SlotAllocStep DEF AllocInv
    <3>2. my[t].g \in Segs /\ mos_bitmap[my[t].g] \in SUBSET Nat /\ my[t].m \in Nat
      BY <3>1, SegFact, IsActor, Zenon DEF AllocInv, Assigned, Types, Calls
    <3> QED
      BY <1>1, <3>1, <3>2, Zenon DEF TypeSegs
  <2> QED
    BY <1>2, <1>4, <2>1, <2>2, <2>3, <2>4, Zenon DEF SegmentCheck
<1>5. ASSUME NEW a \in Actors, NEW s \in Slab, Known(s), ClearBit(a, s) PROVE TypeSegs'
  <2>1. UNCHANGED <<class, idx, used, used_slabs>>
        /\ mos_bitmap' = [mos_bitmap EXCEPT ![s.g] = @ \ {s.m}]
    BY <1>5, Zenon DEF ClearBit
  <2>2. s.g \in Segs /\ mos_bitmap[s.g] \in SUBSET Nat
    BY <1>1, <1>5, AllocAssumption DEF Slab, Known, AllocInv, Assigned
  <2> QED
    BY <1>1, <2>1, <2>2 DEF TypeSegs
<1>6. ASSUME NEW t \in Threads, Insert(t) \/ Discard(t) \/ RemoveEntry(t) PROVE TypeSegs'
  <2>1. CASE Discard(t)
    <3>1. my[t] \in Slab /\ Known(my[t])
      BY <2>1, DiscardStep, IsActor, Zenon DEF AllocInv, Control, AllKnown
    <3> QED
      BY <1>5, <2>1, <3>1, IsActor, Zenon DEF Discard
  <2> QED
    BY <1>2, <1>6, <2>1, Zenon DEF Insert, RemoveEntry
<1>7. CASE Logged
  <2>1. PICK s \in dead : ClearBit(Lgwr, s)
    BY <1>7, Zenon DEF Logged
  <2>2. s \in Slab /\ Known(s)
    BY SMTT(30), ZenonT(30) DEF AllocInv, Types, AllKnown
  <2> QED
    BY <1>5, <2>1, <2>2, IsActor, Zenon
<1>8. ASSUME NEW a \in Actors, Freeing(a) PROVE TypeSegs'
  <2>1. CASE Uncount(a)
    BY <1>1, <2>1, AddedOne, Zenon DEF Uncount, TypeSegs
  <2> QED
    BY <1>2, <1>8, <2>1, Zenon DEF Freeing, DeallocEnd, Shrink, ShrinkWait, ShrinkEnd
<1>9. CASE Collecting \/ Halted \/ UNCHANGED vars
  BY <1>2, <1>9, GcChooseStill, Zenon
     DEF Collecting, Still, GcMark, GcScan, GcShrink, GcOut, Halted, vars
<1> QED
  BY <1>3, <1>4, <1>6, <1>7, <1>8, <1>9, Zenon DEF Next, Taking

LEMMA NextClasses == ASSUME AllocInv, Trimmed, [Next]_vars PROVE TypeClasses'
<1>1. TypeClasses
  BY DEF AllocInv, Types, TypeClasses
<1>2. CASE UNCHANGED classes
  BY <1>1, <1>2 DEF TypeClasses, classes
<1>3. ASSUME NEW t \in Threads, NEW c \in Classes,
             GetFreeSlab(t, c) \/ GetSegment(t, c) \/ GrowClass(t, c)
      PROVE  TypeClasses'
  <2>1. CASE GrowClass(t, c)
    <3>1. CASE UNCHANGED <<segments, num_segments, total_slabs>>
      BY <1>1, <2>1, <3>1 DEF GrowClass, TypeClasses
    <3>2. CASE LET g == blk_allocated + 1
                   k == num_segments[c] + 1
               IN  /\ g \in Segs
                   /\ segments' = [segments EXCEPT ![c][k] = g]
                   /\ num_segments' = [num_segments EXCEPT ![c] = k]
                   /\ total_slabs' = [total_slabs EXCEPT ![c] = @ + PerSeg[c]]
      <4>1. UNCHANGED <<class_used, dealloc_pending, class_lock>> /\ PerSeg[c] \in Nat
        BY <2>1, AllocAssumption, Zenon DEF GrowClass
      <4> QED
        <5>1. num_segments' \in [Classes -> Nat]
          BY <1>1, <3>2 DEF TypeClasses
        <5>2. segments' \in [Classes -> [1 .. NSegs -> Segs \cup {None, Gc}]]
          BY <1>1, <3>2, Replaced, Zenon DEF TypeClasses
        <5>3. total_slabs' \in [Classes -> Int]
          BY <1>1, <3>2, <4>1, Added DEF TypeClasses
        <5> QED
          BY <1>1, <4>1, <5>1, <5>2, <5>3, Zenon DEF TypeClasses
    <3> QED
      BY <2>1, <3>1, <3>2, GrowClassStep DEF AllocInv, GrowFails, Grown
  <2> QED
    BY <1>2, <1>3, <2>1, Zenon DEF GetFreeSlab, GetSegment
<1>4. ASSUME NEW t \in Threads,
             \/ SegmentLock(t) \/ SegmentCheck(t) \/ SlotAlloc(t) \/ SlotCount(t)
             \/ SegmentUnlock(t)
      PROVE  TypeClasses'
  <2>1. CASE SlotCount(t)
    BY <1>1, <2>1, AddedOne, Zenon DEF SlotCount, TypeClasses
  <2> QED
    BY <1>2, <1>4, <2>1 DEF SegmentLock, SegmentCheck, SlotAlloc, SegmentUnlock
<1>5. ASSUME NEW t \in Threads, Insert(t) \/ Discard(t) \/ RemoveEntry(t) PROVE TypeClasses'
  <2>1. CASE RemoveEntry(t)
    <3>1. PICK s \in objs : dealloc_pending' = [dealloc_pending EXCEPT ![s.c] = @ + 1]
      BY <2>1, Zenon DEF RemoveEntry
    <3>2. UNCHANGED <<segments, num_segments, total_slabs, class_used, class_lock>>
      BY <2>1, Zenon DEF RemoveEntry
    <3> QED
      BY <1>1, <3>1, <3>2, AddedOne, Zenon DEF TypeClasses
  <2> QED
    BY <1>2, <1>5, <2>1 DEF Insert, Discard, ClearBit
<1>6. ASSUME NEW a \in Actors, Freeing(a) PROVE TypeClasses'
  <2>1. CASE Uncount(a)
    BY <1>1, <2>1, AddedOne, Zenon DEF Uncount, TypeClasses
  <2>2. CASE DeallocEnd(a)
    <3>1. UNCHANGED <<segments, num_segments, total_slabs, class_used, class_lock>>
      BY <2>2, Zenon DEF DeallocEnd
    <3>2. \/ UNCHANGED dealloc_pending
          \/ dealloc_pending' = [dealloc_pending EXCEPT ![class[my[a].g]] = @ - 1]
      BY <2>2, Zenon DEF DeallocEnd
    <3>3. dealloc_pending \in [Classes -> Int]
      BY <1>1, Zenon DEF TypeClasses
    <3>4. dealloc_pending' \in [Classes -> Int]
      <4>1. [dealloc_pending EXCEPT ![class[my[a].g]] = @ - 1] \in [Classes -> Int]
        BY <3>3, AddedOne, Zenon
      <4> QED
        BY <3>2, <3>3, <4>1, Zenon
    <3> QED
      BY <1>1, <3>1, <3>4 DEF TypeClasses
  <2>3. CASE Shrink(a)
    <3>1. CASE UNCHANGED <<segments, class_lock>>
      BY <1>1, <2>3, <3>1, Zenon DEF Shrink, TypeClasses
    <3>2. CASE LET g == my[a].g
                   c == class[g]
               IN  /\ segments' = [segments EXCEPT ![c][idx[g]] = None]
                   /\ class_lock' = [class_lock EXCEPT ![c] = a]
      BY <1>1, <2>3, <3>2, Zenon DEF Shrink, TypeClasses
    <3> QED
      BY <2>3, <3>1, <3>2, Zenon DEF Shrink
  <2>4. CASE ShrinkEnd(a)
    <3> DEFINE g == my[a].g
               c == class[g]
    <3>1. g \in Segs /\ c \in Classes /\ PerSeg[c] \in Nat
      BY <2>4, SegFact, AllocAssumption, Zenon DEF ShrinkEnd, At, AllocInv, Assigned
    <3>2. UNCHANGED <<class_used, dealloc_pending>>
          /\ class_lock' = [class_lock EXCEPT ![c] = None]
      BY <2>4, Zenon DEF ShrinkEnd
    <3>3. CASE FreeSegment(c, g)
      <4>1. LastPlace(c) \in Nat
        BY <1>1, <3>1, SMTT(30), ZenonT(30) DEF Trimmed, TypeClasses
      <4> QED
        BY <1>1, <3>1, <3>2, <3>3, <4>1 DEF FreeSegment, TypeClasses
    <3>4. CASE PutBack(c, g)
      BY <1>1, <3>1, <3>2, <3>4, Zenon DEF PutBack, TypeClasses
    <3> QED
      BY <2>4, <3>3, <3>4 DEF ShrinkEnd
  <2> QED
    BY <1>2, <1>6, <2>1, <2>2, <2>3, <2>4, Zenon DEF Freeing, ShrinkWait
<1>7. CASE Collecting
  <2>1. CASE GcMark
    <3>1. UNCHANGED <<num_segments, total_slabs, class_used, dealloc_pending, class_lock>>
      BY <2>1, Zenon DEF GcMark
    <3>2. \/ UNCHANGED segments
          \/ segments' = [segments EXCEPT ![my[Gc].c][idx[my[Gc].g]] = Gc]
      BY <2>1 DEF GcMark
    <3>3. segments \in [Classes -> [1 .. NSegs -> Segs \cup {None, Gc}]]
      BY <1>1 DEF TypeClasses
    <3>4. segments' \in [Classes -> [1 .. NSegs -> Segs \cup {None, Gc}]]
      <4>1. [segments EXCEPT ![my[Gc].c][idx[my[Gc].g]] = Gc]
               \in [Classes -> [1 .. NSegs -> Segs \cup {None, Gc}]]
        BY <3>3, Replaced, Zenon
      <4> QED
        BY <3>2, <3>3, <4>1, Zenon
    <3> QED
      BY <1>1, <3>1, <3>4, Zenon DEF TypeClasses
  <2>2. CASE GcShrink
    BY <1>1, <2>2, IsActor, Zenon DEF GcShrink, TypeClasses
  <2>3. CASE GcOut
    <3>1. my[Gc].g \in Segs
      BY <2>3, SegFact, IsActor, Zenon DEF GcOut, At, AllocInv
    <3> QED
      BY <1>1, <2>3, <3>1, Zenon DEF GcOut, TypeClasses
  <2> QED
    BY <1>2, <1>7, <2>1, <2>2, <2>3, GcChooseStill, Zenon DEF Collecting, Still, GcScan
<1>8. CASE Logged \/ Halted \/ UNCHANGED vars
  BY <1>2, <1>8, Zenon DEF Logged, ClearBit, Halted, vars
<1> QED
  BY <1>3, <1>4, <1>5, <1>6, <1>7, <1>8, Zenon DEF Next, Taking

LEMMA AppendType == ASSUME NEW S, NEW q \in Seq(S), NEW e \in S PROVE Append(q, e) \in Seq(S)
OBVIOUS

LEMMA NextSpace == ASSUME AllocInv, [Next]_vars PROVE TypeSpace'
<1>1. free_segments \in Seq(Segs) /\ blk_allocated \in 0 .. NSegs
  BY DEF AllocInv, Types
<1>2. CASE UNCHANGED space
  BY <1>1, <1>2, Zenon DEF TypeSpace, space
<1>3. ASSUME NEW t \in Threads, NEW c \in Classes, GrowClass(t, c) PROVE TypeSpace'
  <2>1. CASE free_segments # <<>> /\ free_segments' = Pop(free_segments) /\ UNCHANGED blk_allocated
    BY <1>1, <2>1, PopFact, Zenon DEF TypeSpace
  <2>2. CASE blk_allocated + 1 \in Segs /\ blk_allocated' = blk_allocated + 1 /\ UNCHANGED free_segments
    BY <1>1, <2>2, AllocAssumption DEF TypeSpace, Segs
  <2> QED
    BY <1>3, <2>1, <2>2, GrowClassStep, Zenon DEF AllocInv, GrowFails, Grown
<1>4. ASSUME NEW a \in Actors, ShrinkEnd(a) PROVE TypeSpace'
  <2>1. my[a].g \in Segs
    BY <1>4, SegFact, Zenon DEF ShrinkEnd, At, AllocInv
  <2>2. UNCHANGED blk_allocated
        /\ (UNCHANGED free_segments \/ free_segments' = Append(free_segments, my[a].g))
    BY <1>4 DEF ShrinkEnd, FreeSegment, PutBack
  <2>3. free_segments' \in Seq(Segs)
    BY <1>1, <2>1, <2>2, AppendType, Zenon
  <2> QED
    BY <1>1, <2>2, <2>3, Zenon DEF TypeSpace
<1>5. ASSUME NEW t \in Threads, Taking(t) PROVE TypeSpace'
  BY <1>2, <1>3, <1>5, Zenon
     DEF Taking, GetFreeSlab, GetSegment, SegmentLock, SegmentCheck, SlotAlloc, SlotCount,
         SegmentUnlock
<1>6. ASSUME NEW t \in Threads, Insert(t) \/ Discard(t) \/ RemoveEntry(t) PROVE TypeSpace'
  BY <1>2, <1>6, Zenon DEF Insert, Discard, ClearBit, RemoveEntry
<1>7. ASSUME NEW a \in Actors, Freeing(a) PROVE TypeSpace'
  BY <1>2, <1>4, <1>7, Zenon DEF Freeing, Uncount, DeallocEnd, Shrink, ShrinkWait
<1>8. CASE Logged \/ Collecting \/ Halted \/ UNCHANGED vars
  BY <1>2, <1>8, GcChooseStill, Zenon
     DEF Logged, ClearBit, Collecting, Still, GcMark, GcScan, GcShrink, GcOut, Halted, vars
<1> QED
  BY <1>5, <1>6, <1>7, <1>8, Zenon DEF Next

LEMMA Relisted ==
    ASSUME free_slabs \in [Classes -> [Threads -> Seq(Slab)]],
           NEW c \in Classes, NEW t \in Threads, NEW q \in Seq(Slab)
    PROVE  [free_slabs EXCEPT ![c][t] = q] \in [Classes -> [Threads -> Seq(Slab)]]
BY SMTT(30), ZenonT(30)

LEMMA NextSlabs == ASSUME AllocInv, [Next]_vars PROVE TypeSlabs'
<1>1. /\ free_slabs \in [Classes -> [Threads -> Seq(Slab)]]
      /\ objs \subseteq Slab /\ dead \subseteq Slab
  BY DEF AllocInv, Types
<1>2. CASE UNCHANGED slabs
  BY <1>1, <1>2 DEF TypeSlabs, slabs
<1>3. ASSUME NEW t \in Threads, NEW c \in Classes, GetFreeSlab(t, c) PROVE TypeSlabs'
  <2>1. /\ free_slabs[c][t] # <<>> /\ UNCHANGED <<objs, dead>>
        /\ free_slabs' = [free_slabs EXCEPT ![c][t] = Pop(free_slabs[c][t])]
    BY <1>3 DEF GetFreeSlab
  <2>2. Pop(free_slabs[c][t]) \in Seq(Slab)
    BY <1>1, <2>1, PopFact, ZenonT(30)
  <2> QED
    BY <1>1, <2>1, <2>2, Zenon DEF TypeSlabs
<1>4. ASSUME NEW t \in Threads, Insert(t) \/ Discard(t) \/ RemoveEntry(t) PROVE TypeSlabs'
  <2>1. CASE Insert(t)
    <3>1. my[t] \in Slab
      BY <2>1, IsActor, Zenon DEF Insert, At, AllocInv, Control
    <3> QED
      BY <1>1, <2>1, <3>1 DEF Insert, TypeSlabs
  <2>2. CASE RemoveEntry(t)
    BY <1>1, <2>2 DEF RemoveEntry, TypeSlabs
  <2> QED
    BY <1>2, <1>4, <2>1, <2>2, Zenon DEF Discard, ClearBit, slabs
<1>5. CASE Logged
  BY <1>1, <1>5 DEF Logged, ClearBit, TypeSlabs
<1>6. ASSUME NEW a \in Actors, DeallocEnd(a) PROVE TypeSlabs'
  <2>1. UNCHANGED <<objs, dead>>
    BY <1>6, Zenon DEF DeallocEnd
  <2>2. CASE UNCHANGED free_slabs
    BY <1>1, <2>1, <2>2 DEF TypeSlabs
  <2>3. CASE /\ a # Lgwr
             /\ free_slabs' = [free_slabs EXCEPT ![class[my[a].g]][a] = Append(@, my[a])]
    <3>1. pc[a] = "freed" /\ a # Gc
      BY <1>6, DeallocEndStep, IsActor, Zenon DEF AllocInv, Control, GcSteps, Taken, Marked
    <3>2. a \in Threads /\ my[a] \in Slab
      BY <2>3, <3>1 DEF Actors, AllocInv, Control
    <3>3. class[my[a].g] \in Classes
      BY <3>1, SegFact, Zenon DEF AllocInv, Assigned
    <3>4. Append(free_slabs[class[my[a].g]][a], my[a]) \in Seq(Slab)
      BY <1>1, <3>2, <3>3
    <3>5. free_slabs' \in [Classes -> [Threads -> Seq(Slab)]]
      BY <1>1, <2>3, <3>2, <3>3, <3>4, Relisted, Zenon
    <3> QED
      BY <1>1, <2>1, <3>5, Zenon DEF TypeSlabs
  <2> QED
    BY <1>6, <2>2, <2>3, DeallocEndStep, Zenon DEF AllocInv
<1>7. ASSUME NEW t \in Threads, Taking(t) PROVE TypeSlabs'
  BY <1>2, <1>3, <1>7, Zenon
     DEF Taking, GetSegment, GrowClass, SegmentLock, SegmentCheck, SlotAlloc, SlotCount,
         SegmentUnlock
<1>8. ASSUME NEW a \in Actors, Freeing(a) PROVE TypeSlabs'
  BY <1>2, <1>6, <1>8, Zenon DEF Freeing, Uncount, Shrink, ShrinkWait, ShrinkEnd
<1>9. CASE Collecting \/ Halted \/ UNCHANGED vars
  BY <1>2, <1>9, GcChooseStill, Zenon
     DEF Collecting, Still, GcMark, GcScan, GcShrink, GcOut, Halted, vars
<1> QED
  BY <1>4, <1>5, <1>7, <1>8, <1>9, Zenon DEF Next

LEMMA NextTypes == ASSUME AllocInv, Trimmed, [Next]_vars PROVE Types'
BY NextCalls, NextSegs, NextClasses, NextSpace, NextSlabs, Zenon
   DEF Types, TypeCalls, TypeSegs, TypeClasses, TypeSpace, TypeSlabs

LEMMA MoveControl ==
    ASSUME Control, NEW a \in Actors, NEW l, NEW s, Moves(a, l, s),
           a \in Threads => l \in ThreadSteps, a = Lgwr => l \in LgwrSteps,
           a = Gc => l \in GcSteps, a # Gc => l = "idle" \/ s \in Slab
    PROVE  Control'
<1>1. pc'[Lgwr] \in LgwrSteps /\ pc'[Gc] \in GcSteps
  BY IsActor, Zenon DEF Control, Moves
<1>2. \A t \in Threads : pc'[t] \in ThreadSteps
  BY IsActor, Zenon DEF Control, Moves
<1>3. \A b \in Actors \ {Gc} : pc'[b] # "idle" => my'[b] \in Slab
  BY DEF Control, Moves
<1> QED
  BY <1>1, <1>2, <1>3, Zenon DEF Control

LEMMA NextControl == ASSUME AllocInv, Gc \notin MayFail, [Next]_vars PROVE Control'
<1>1. Types /\ Control
  BY DEF AllocInv
<1>2. CASE UNCHANGED <<pc, my>>
  BY <1>1, <1>2, Zenon DEF Control
<1>3. ASSUME NEW t \in Threads, NEW l \in ThreadSteps, NEW s,
             Moves(t, l, s), l = "idle" \/ s \in Slab
      PROVE  Control'
  BY <1>1, <1>3, MoveControl, IsActor, Zenon
<1>4. ASSUME NEW t \in Threads, NEW l \in ThreadSteps, Moves(t, l, my[t]), pc[t] # "idle"
      PROVE  Control'
  BY <1>1, <1>3, <1>4, IsActor, Zenon DEF Control
<1>5. ASSUME NEW t \in Threads, NEW c \in Classes,
             GetFreeSlab(t, c) \/ GetSegment(t, c) \/ GrowClass(t, c)
      PROVE  Control'
  <2>1. CASE GetFreeSlab(t, c)
    <3>1. Top(free_slabs[c][t]) \in Slab
      <4>1. free_slabs[c][t] \in Seq(Slab) /\ free_slabs[c][t] # <<>>
        BY <1>1, <2>1, GetFreeSlabStep, FreeSlabsType, Zenon
      <4> QED
        BY <4>1, PopFact, Zenon
    <3> QED
      BY <1>1, <1>3, <2>1, <3>1, GetFreeSlabStep, Zenon DEF ThreadSteps
  <2>2. CASE GetSegment(t, c)
    <3>1. PICK k \in 1 .. num_segments[c], m \in 1 .. PerSeg[c] :
             segments[c][k] \in Segs /\ Moves(t, "lock", [c |-> c, g |-> segments[c][k], m |-> m])
      BY <1>1, <2>2, GetSegmentStep, Zenon
    <3>2. [c |-> c, g |-> segments[c][k], m |-> m] \in Slab
      BY <3>1, AllocAssumption DEF Slab
    <3> QED
      BY <1>3, <3>1, <3>2, Zenon DEF ThreadSteps
  <2>3. CASE GrowClass(t, c)
    BY <1>2, <2>3, Zenon DEF GrowClass
  <2> QED
    BY <1>5, <2>1, <2>2, <2>3, Zenon
<1>6. ASSUME NEW t \in Threads, SegmentLock(t) \/ SegmentCheck(t) \/ SlotAlloc(t)
      PROVE  Control'
  BY <1>1, <1>4, <1>6, SegmentLockStep, SegmentCheckStep, SlotAllocStep, Zenon DEF ThreadSteps, Locked
<1>7. ASSUME NEW t \in Threads, SlotCount(t) \/ SegmentUnlock(t) PROVE Control'
  BY <1>1, <1>3, <1>4, <1>7, SlotCountStep, SegmentUnlockStep, Zenon DEF ThreadSteps, Locked
<1>8. ASSUME NEW t \in Threads, Insert(t) \/ Discard(t) \/ RemoveEntry(t) PROVE Control'
  BY <1>1, <1>2, <1>3, <1>4, <1>8, InsertStep, DiscardStep, Zenon DEF ThreadSteps, RemoveEntry
<1>9. CASE Logged
  <2>1. PICK s \in dead : Moves(Lgwr, "uncount", s)
    BY <1>1, <1>9, LoggedStep, Zenon
  <2>2. s \in Slab
    BY <1>1 DEF Types
  <2>3. "uncount" \in LgwrSteps /\ Lgwr # Gc
    BY AllocAssumption, Zenon DEF LgwrSteps
  <2> QED
    BY <1>1, <2>1, <2>2, <2>3, MoveControl, IsActor, Zenon
<1>10. ASSUME NEW a \in Actors, Freeing(a) PROVE Control'
  <2>1. ASSUME NEW l \in {"freed", "shrink"} \cup Taken, Moves(a, l, my[a]), pc[a] # "idle",
               a = Gc => l \in Taken
        PROVE  Control'
    <3>1. a # Gc => my[a] \in Slab
      BY <1>1, <2>1, Zenon DEF Control
    <3>2. l \in ThreadSteps /\ l \in LgwrSteps /\ (a = Gc => l \in GcSteps)
      BY <2>1 DEF ThreadSteps, LgwrSteps, GcSteps
    <3> QED
      BY <1>1, <2>1, <3>1, <3>2, MoveControl, Zenon
  <2>2. ASSUME Moves(a, "idle", Nowhere) PROVE Control'
    <3>1. "idle" \in ThreadSteps /\ "idle" \in LgwrSteps /\ "idle" \in GcSteps
      BY DEF ThreadSteps, LgwrSteps, GcSteps
    <3> QED
      BY <1>1, <2>2, <3>1, MoveControl, Zenon
  <2>3. pc[Gc] \notin {"uncount", "freed", "shrink"}
    BY <1>1, Zenon DEF Control, GcSteps, Marked, Taken
  <2>4. CASE Uncount(a)
    BY <1>1, <2>1, <2>3, <2>4, UncountStep, Zenon
  <2>5. CASE DeallocEnd(a)
    BY <1>1, <2>1, <2>2, <2>3, <2>5, DeallocEndStep, Zenon
  <2>6. CASE Shrink(a)
    BY <1>1, <2>1, <2>2, <2>3, <2>6, ShrinkStep, Zenon DEF Taken
  <2>7. CASE ShrinkWait(a)
    BY <1>1, <2>1, <2>7, ShrinkWaitStep, Zenon DEF Taken
  <2>8. CASE ShrinkEnd(a)
    BY <1>1, <2>2, <2>8, ShrinkEndStep, Zenon
  <2> QED
    BY <1>10, <2>4, <2>5, <2>6, <2>7, <2>8, Zenon DEF Freeing
<1>11. CASE Collecting
  <2>1. ASSUME NEW l \in GcSteps, NEW s, Moves(Gc, l, s) PROVE Control'
    BY <1>1, <2>1, MoveControl, IsActor, AllocAssumption, Zenon
  <2>2. CASE GcChoose \/ GcMark
    BY <1>1, <1>2, <2>1, <2>2, GcChooseStep, GcMarkStep, Zenon DEF GcSteps, Marked
  <2>3. CASE GcScan \/ GcShrink \/ GcOut
    BY <1>1, <1>2, <2>1, <2>3, GcScanStep, GcShrinkStep, GcOutStep, Zenon DEF GcSteps, Marked, Taken
  <2> QED
    BY <1>11, <2>2, <2>3, Zenon DEF Collecting
<1>12. CASE Halted \/ UNCHANGED vars
  BY <1>2, <1>12, Zenon DEF Halted, vars
<1> QED
  BY <1>5, <1>6, <1>7, <1>8, <1>9, <1>10, <1>11, <1>12, Zenon DEF Next, Taking
-----------------------------------------------------------------------------
(* The class and the place of a segment never change.                       *)

Fixed ==
    /\ blk_allocated \in Nat /\ blk_allocated' \in Nat /\ blk_allocated <= blk_allocated'
    /\ \A g \in 1 .. blk_allocated : class'[g] = class[g] /\ idx'[g] = idx[g]

LEMMA NextFixed == ASSUME AllocInv, Gc \notin MayFail, [Next]_vars PROVE Fixed
<1>1. Types /\ Assigned /\ blk_allocated \in Nat
  BY AllocAssumption DEF AllocInv, Types
<1>2. CASE UNCHANGED <<class, idx, blk_allocated>>
  BY <1>1, <1>2 DEF Fixed
<1>3. ASSUME NEW t \in Threads, NEW c \in Classes, GrowClass(t, c) PROVE Fixed
  <2>1. CASE UNCHANGED <<class, idx, blk_allocated>>
    BY <1>2, <2>1
  <2>2. CASE /\ blk_allocated' = blk_allocated + 1
             /\ class' = [class EXCEPT ![blk_allocated + 1] = c]
             /\ idx' = [idx EXCEPT ![blk_allocated + 1] = num_segments[c] + 1]
    BY <1>1, <2>2 DEF Types, Fixed, Segs
  <2> QED
    BY <1>1, <1>3, <2>1, <2>2, GrowClassStep, Zenon DEF GrowFails, Grown
<1>4. ASSUME NEW t \in Threads, Taking(t) PROVE Fixed
  BY <1>1, <1>2, <1>3, <1>4, GetFreeSlabStep, GetSegmentStep, SegmentLockStep, SegmentCheckStep,
     SlotAllocStep, SlotCountStep, SegmentUnlockStep, Zenon DEF Taking, Still, segs, space
<1>5. ASSUME NEW t \in Threads, Insert(t) \/ Discard(t) \/ RemoveEntry(t) PROVE Fixed
  BY <1>1, <1>2, <1>5, InsertStep, DiscardStep, Zenon DEF RemoveEntry, segs, space
<1>6. CASE Logged
  BY <1>1, <1>2, <1>6, LoggedStep, Zenon DEF segs, space
<1>7. ASSUME NEW a \in Actors, Freeing(a) PROVE Fixed
  BY <1>1, <1>2, <1>7, UncountStep, DeallocEndStep, ShrinkStep, ShrinkWaitStep, ShrinkEndStep,
     Zenon DEF Freeing, Still, segs, space
<1>8. CASE Collecting
  BY <1>1, <1>2, <1>8, GcChooseStep, GcMarkStep, GcScanStep, GcShrinkStep, GcOutStep,
     Zenon DEF Collecting, Still, segs, space
<1>9. CASE Halted \/ UNCHANGED vars
  BY <1>2, <1>9, Zenon DEF Halted, vars, segs, space
<1> QED
  BY <1>4, <1>5, <1>6, <1>7, <1>8, <1>9, Zenon DEF Next

LEMMA KnownStays == ASSUME Fixed, NEW s, Known(s) PROVE Known(s)'
BY DEF Fixed, Known

LEMMA RangeFact ==
    ASSUME NEW S, NEW s \in Seq(S), NEW g
    PROVE  g \in Range(s) <=> \E i \in 1 .. Len(s) : s[i] = g
<1>1. DOMAIN s = 1 .. Len(s)
  OBVIOUS
<1> QED
  BY <1>1, Zenon DEF Range

LEMMA GivenPop ==
    ASSUME Types, free_segments # <<>>, free_segments' = Pop(free_segments)
    PROVE  Given' \subseteq Given
<1>1. free_segments \in Seq(Segs)
  BY DEF Types
<1>2. SUFFICES ASSUME NEW g \in Given' PROVE g \in Given
  OBVIOUS
<1>3. free_segments' \in Seq(Segs) /\ Len(free_segments') = Len(free_segments) - 1
      /\ \A i \in 1 .. Len(free_segments) - 1 : free_segments'[i] = free_segments[i]
  BY <1>1, PopFact
<1>4. PICK i \in 1 .. Len(free_segments') : free_segments'[i] = g
  BY <1>2, <1>3, RangeFact, Zenon DEF Given
<1>5. i \in 1 .. Len(free_segments) /\ free_segments[i] = g
  BY <1>1, <1>3, <1>4
<1> QED
  BY <1>1, <1>5, RangeFact, Zenon DEF Given

LEMMA GivenAppend ==
    ASSUME Types, NEW g \in Segs, free_segments' = Append(free_segments, g)
    PROVE  \A h : h \in Given' => h \in Given \/ h = g
<1>1. free_segments \in Seq(Segs)
  BY DEF Types
<1>2. SUFFICES ASSUME NEW h, h \in Given' PROVE h \in Given \/ h = g
  BY Zenon
<1>3. free_segments' \in Seq(Segs) /\ Len(free_segments') = Len(free_segments) + 1
      /\ \A i \in 1 .. Len(free_segments) : free_segments'[i] = free_segments[i]
      /\ free_segments'[Len(free_segments) + 1] = g
  BY <1>1
<1>4. PICK i \in 1 .. Len(free_segments') : free_segments'[i] = h
  BY <1>2, <1>3, RangeFact, ZenonT(30) DEF Given
<1>5. (i \in 1 .. Len(free_segments) /\ free_segments[i] = h) \/ h = g
  BY <1>1, <1>3, <1>4
<1> QED
  BY <1>1, <1>5, RangeFact, Zenon DEF Given

(* What growing does, place by place.                                       *)
LEMMA GrownFact ==
    ASSUME Types, Assigned, NEW c \in Classes, Grown(c)
    PROVE  LET g == blk_allocated + 1
               k == num_segments[c] + 1
           IN  /\ g \in Segs /\ k \in 1 .. NSegs /\ k <= g /\ blk_allocated' = g
               /\ Given' = Given /\ g \notin Given
               /\ class'[g] = c /\ idx'[g] = k /\ mos_bitmap'[g] = {}
               /\ \A h \in Segs \ {g} : /\ class'[h] = class[h] /\ idx'[h] = idx[h]
                                       /\ mos_bitmap'[h] = mos_bitmap[h]
               /\ num_segments'[c] = k
               /\ \A d \in Classes \ {c} : num_segments'[d] = num_segments[d]
               /\ segments'[c][k] = g
               /\ \A d \in Classes, j \in 1 .. NSegs : d # c \/ j # k =>
                    segments'[d][j] = segments[d][j]
<1> DEFINE g == blk_allocated + 1
           k == num_segments[c] + 1
<1>1. /\ g \in Segs /\ k \in 1 .. NSegs /\ k <= g /\ blk_allocated' = g
      /\ UNCHANGED free_segments /\ blk_allocated \in Nat
  <2>1. blk_allocated \in Nat
    BY AllocAssumption DEF Types
  <2> QED
    BY <2>1, Zenon DEF Grown
<1>2. /\ class'[g] = c /\ idx'[g] = k /\ mos_bitmap'[g] = {}
      /\ \A h \in Segs \ {g} : /\ class'[h] = class[h] /\ idx'[h] = idx[h]
                              /\ mos_bitmap'[h] = mos_bitmap[h]
  BY <1>1, Zenon DEF Grown, Types
<1>3. num_segments'[c] = k /\ \A d \in Classes \ {c} : num_segments'[d] = num_segments[d]
  BY DEF Grown, Types
<1>4. /\ segments'[c][k] = g
      /\ \A d \in Classes, j \in 1 .. NSegs : d # c \/ j # k => segments'[d][j] = segments[d][j]
  BY <1>1, Zenon DEF Grown, Types
<1>5. Given' = Given
  BY <1>1, Zenon DEF Given
<1>6. g \notin Given
  BY <1>1 DEF Assigned
<1> QED
  BY <1>1, <1>2, <1>3, <1>4, <1>5, <1>6

LEMMA GivenSegs == ASSUME Types PROVE Given \subseteq Segs
<1>1. free_segments \in Seq(Segs)
  BY DEF Types
<1>2. \A g : g \in Given <=> \E i \in 1 .. Len(free_segments) : free_segments[i] = g
  BY GivenFact, Zenon
<1> QED
  BY <1>1, <1>2

(* The bits of one segment change.                                          *)
LEMMA BitsAssigned ==
    ASSUME Types, Assigned, NEW g \in Segs, g <= blk_allocated, NEW B \in SUBSET Nat,
           mos_bitmap' = [mos_bitmap EXCEPT ![g] = B], g \in Given => B = {},
           UNCHANGED <<class, idx, num_segments, free_segments, blk_allocated>>
    PROVE  Assigned'
<1>1. Given' = Given /\ Given \subseteq Segs
  BY GivenSegs, Zenon DEF Given
<1>2. mos_bitmap'[g] = B /\ \A h \in Segs \ {g} : mos_bitmap'[h] = mos_bitmap[h]
  BY DEF Types
<1>3. \A h \in Segs :
        IF h <= blk_allocated
        THEN class[h] \in Classes /\ idx[h] \in 1 .. NSegs /\ mos_bitmap'[h] \in SUBSET Nat
        ELSE class[h] = None /\ mos_bitmap'[h] = None
  BY <1>2, Zenon DEF Assigned
<1>4. \A h \in Given : h <= blk_allocated /\ mos_bitmap'[h] = {}
  BY <1>1, <1>2, Zenon DEF Assigned
<1> QED
  BY <1>1, <1>3, <1>4, Zenon DEF Assigned

LEMMA NextAssigned ==
    ASSUME AllocInv, Trimmed, Emptied, Gc \notin MayFail, [Next]_vars PROVE Assigned'
<1>1. Types /\ Control /\ Assigned /\ AllKnown /\ Alone
  BY DEF AllocInv
<1>2. CASE UNCHANGED <<class, idx, mos_bitmap, num_segments, free_segments, blk_allocated>>
  BY <1>1, <1>2, Zenon DEF Assigned, Given
<1>3. ASSUME NEW t \in Threads, NEW c \in Classes, GrowClass(t, c) PROVE Assigned'
  <2>1. CASE GrowFails
    <3>1. Given' \subseteq Given
      BY <1>1, <2>1, GivenPop, Zenon DEF GrowFails
    <3> QED
      BY <1>1, <2>1, <3>1, Zenon DEF Assigned, GrowFails
  <2>2. CASE Grown(c)
    <3> DEFINE g == blk_allocated + 1
               k == num_segments[c] + 1
    <3>1. blk_allocated \in Nat /\ NSegs \in Nat /\ Segs = 1 .. NSegs
          /\ num_segments \in [Classes -> Nat]
      BY <1>1, AllocAssumption DEF Types, Segs
    <3>2. /\ g \in Segs /\ k \in 1 .. NSegs /\ k <= g /\ blk_allocated' = g
          /\ class'[g] = c /\ idx'[g] = k /\ mos_bitmap'[g] = {}
          /\ \A h \in Segs \ {g} : /\ class'[h] = class[h] /\ idx'[h] = idx[h]
                                  /\ mos_bitmap'[h] = mos_bitmap[h]
      BY <1>1, <2>2, GrownFact, Zenon
    <3>3. /\ Given' = Given /\ g \notin Given /\ num_segments'[c] = k
          /\ \A d \in Classes \ {c} : num_segments'[d] = num_segments[d]
      BY <1>1, <2>2, GrownFact, Zenon
    <3>4. \A h \in Segs \ {g} : h <= g <=> h <= blk_allocated
      BY <3>1
    <3> HIDE DEF g, k
    <3>5. \A h \in Segs :
            IF h <= g
            THEN class'[h] \in Classes /\ idx'[h] \in 1 .. NSegs /\ mos_bitmap'[h] \in SUBSET Nat
            ELSE class'[h] = None /\ mos_bitmap'[h] = None
      <4> SUFFICES ASSUME NEW h \in Segs
                   PROVE  IF h <= g
                          THEN /\ class'[h] \in Classes /\ idx'[h] \in 1 .. NSegs
                               /\ mos_bitmap'[h] \in SUBSET Nat
                          ELSE class'[h] = None /\ mos_bitmap'[h] = None
        BY Zenon
      <4>1. CASE h = g
        BY <3>1, <3>2, <4>1
      <4>2. CASE h # g
        BY <1>1, <3>2, <3>4, <4>2, Zenon DEF Assigned
      <4> QED
        BY <4>1, <4>2, Zenon
    <3>6. \A d \in Classes : num_segments'[d] <= g
      <4>1. \A d \in Classes : num_segments[d] \in Nat /\ num_segments[d] <= blk_allocated
        BY <1>1, <3>1, Zenon DEF Assigned
      <4>2. \A d \in Classes : num_segments[d] <= g
        BY <3>1, <4>1 DEF g
      <4> QED
        BY <3>2, <3>3, <4>2, Zenon
    <3>7. \A h \in Given : h <= g /\ mos_bitmap'[h] = {}
      BY <1>1, <3>2, <3>3, <3>4, GivenSegs, Zenon DEF Assigned
    <3> QED
      BY <3>2, <3>3, <3>5, <3>6, <3>7, Zenon DEF Assigned
  <2> QED
    BY <1>1, <1>3, <2>1, <2>2, GrowClassStep, Zenon
<1>4. ASSUME NEW t \in Threads, SlotAlloc(t) PROVE Assigned'
  <2>1. pc[t] = "slot" /\ t \in Actors
    BY <1>1, <1>4, SlotAllocStep, IsActor, Zenon
  <2>2. my[t].g \in Segs /\ my[t].g <= blk_allocated
    BY <1>1, <2>1, SegFact, Zenon
  <2>3. mos_bitmap[my[t].g] \cup {my[t].m} \in SUBSET Nat
    BY <1>1, <2>1, <2>2, SMTT(30) DEF Assigned, Types, Calls
  <2>4. my[t].g \notin Given
    BY <1>1, <2>1, Zenon DEF Alone, Inside
  <2>5. /\ mos_bitmap' = [mos_bitmap EXCEPT ![my[t].g] = mos_bitmap[my[t].g] \cup {my[t].m}]
        /\ UNCHANGED <<class, idx, num_segments, free_segments, blk_allocated>>
    BY <1>1, <1>4, <2>2, SlotAllocStep, Zenon DEF classes, space, Types
  <2> QED
    BY <1>1, <2>2, <2>3, <2>4, <2>5, BitsAssigned, Zenon
<1>5. ASSUME NEW s \in Slab, Known(s), mos_bitmap' = [mos_bitmap EXCEPT ![s.g] = @ \ {s.m}],
             UNCHANGED <<class, idx, num_segments, free_segments, blk_allocated>>
      PROVE  Assigned'
  <2>1. s.g \in Segs /\ s.g <= blk_allocated
    BY <1>1, <1>5, KnownSeg, Zenon
  <2>2. mos_bitmap' = [mos_bitmap EXCEPT ![s.g] = mos_bitmap[s.g] \ {s.m}]
    BY <1>1, <1>5, <2>1, Zenon DEF Types
  <2>3. mos_bitmap[s.g] \ {s.m} \in SUBSET Nat
        /\ (s.g \in Given => mos_bitmap[s.g] \ {s.m} = {})
    BY <1>1, <2>1, Zenon DEF Assigned
  <2> QED
    BY <1>1, <1>5, <2>1, <2>2, <2>3, BitsAssigned, Zenon
<1>6. ASSUME NEW t \in Threads, Discard(t) PROVE Assigned'
  <2>1. my[t] \in Slab /\ Known(my[t])
    BY <1>1, <1>6, DiscardStep, IsActor, Zenon DEF Control, AllKnown
  <2> QED
    BY <1>1, <1>5, <1>6, <2>1, DiscardStep, Zenon DEF classes, space
<1>7. CASE Logged
  <2>1. \A s \in dead : s \in Slab /\ Known(s)
    BY <1>1, Zenon DEF Types, AllKnown
  <2> QED
    BY <1>1, <1>5, <1>7, <2>1, LoggedStep, Zenon DEF classes, space
<1>8. ASSUME NEW a \in Actors, ShrinkEnd(a) PROVE Assigned'
  <2>0. /\ pc[a] = "decide" /\ UNCHANGED <<class, idx, used_slabs, mos_bitmap, blk_allocated>>
        /\ \/ used_slabs[my[a].g] = 0 /\ FreeSegment(class[my[a].g], my[a].g)
           \/ PutBack(class[my[a].g], my[a].g)
    BY <1>1, <1>8, ShrinkEndStep, Zenon DEF segs
  <2>1. CASE PutBack(class[my[a].g], my[a].g)
    BY <1>2, <2>0, <2>1, Zenon DEF PutBack
  <2>2. CASE used_slabs[my[a].g] = 0 /\ FreeSegment(class[my[a].g], my[a].g)
    <3>1. /\ free_segments' = Append(free_segments, my[a].g)
          /\ num_segments' = [num_segments EXCEPT ![class[my[a].g]] = LastPlace(class[my[a].g])]
      BY <2>2, Zenon DEF FreeSegment
    <3>2. my[a].g \in Segs /\ my[a].g <= blk_allocated /\ mos_bitmap[my[a].g] = {}
      BY <1>1, <2>0, <2>2, SegFact, Zenon DEF Emptied
    <3>3. class[my[a].g] \in Classes
      BY <1>1, <3>2, Zenon DEF Assigned
    <3>4. \A c \in Classes : num_segments'[c] <= blk_allocated
      BY <1>1, <3>1, <3>3, AllocAssumption DEF Assigned, Types, Trimmed
    <3>5. \A g : g \in Given' => g \in Given \/ g = my[a].g
      BY <1>1, <3>1, <3>2, GivenAppend, Zenon
    <3> QED
      BY <1>1, <2>0, <3>2, <3>4, <3>5, Zenon DEF Assigned
  <2> QED
    BY <2>0, <2>1, <2>2, Zenon
<1>9. ASSUME NEW t \in Threads, Taking(t) PROVE Assigned'
  BY <1>1, <1>2, <1>3, <1>4, <1>9, GetFreeSlabStep, GetSegmentStep, SegmentLockStep,
     SegmentCheckStep, SlotCountStep, SegmentUnlockStep, Zenon
     DEF Taking, Still, segs, classes, space
<1>10. ASSUME NEW t \in Threads, Insert(t) \/ Discard(t) \/ RemoveEntry(t) PROVE Assigned'
  BY <1>1, <1>2, <1>6, <1>10, InsertStep, Zenon DEF RemoveEntry, segs, classes, space
<1>11. ASSUME NEW a \in Actors, Freeing(a) PROVE Assigned'
  BY <1>1, <1>2, <1>8, <1>11, UncountStep, DeallocEndStep, ShrinkStep, ShrinkWaitStep,
     Zenon DEF Freeing, Still, segs, classes, space
<1>12. CASE Collecting
  BY <1>1, <1>2, <1>12, GcChooseStep, GcMarkStep, GcScanStep, GcShrinkStep, GcOutStep,
     Zenon DEF Collecting, Still, segs, classes, space
<1>13. CASE Halted \/ UNCHANGED vars
  BY <1>2, <1>13, Zenon DEF Halted, vars, segs, classes, space
<1> QED
  BY <1>7, <1>9, <1>10, <1>11, <1>12, <1>13, Zenon DEF Next

(* Slabs come from known places only.                                       *)
LEMMA KnownObjs ==
    ASSUME AllocInv, Gc \notin MayFail, [Next]_vars PROVE \A s \in objs' \cup dead' : Known(s)
<1>1. Types /\ AllKnown /\ \A s \in objs \cup dead : Known(s)
  BY DEF AllocInv, AllKnown
<1> DEFINE Goal == \A s \in objs' \cup dead' : Known(s)
<1>2. CASE UNCHANGED <<objs, dead>>
  BY <1>1, <1>2, Zenon
<1>3. ASSUME NEW t \in Threads, Insert(t) PROVE Goal
  <2>1. Known(my[t]) /\ objs' = objs \cup {my[t]} /\ dead' = dead
    BY <1>1, <1>3, InsertStep, IsActor, Zenon DEF AllKnown
  <2> QED
    BY <1>1, <2>1, Zenon
<1>4. ASSUME NEW t \in Threads, RemoveEntry(t) PROVE Goal
  BY <1>1, <1>4, Zenon DEF RemoveEntry
<1>5. CASE Logged
  BY <1>1, <1>5, LoggedStep, Zenon
<1> HIDE DEF Goal
<1>6. ASSUME NEW t \in Threads, Taking(t) PROVE Goal
  <2>1. ASSUME NEW c \in Classes, GrowClass(t, c) PROVE Goal
    BY <1>2, <2>1, Zenon DEF GrowClass, slabs, Goal
  <2> QED
    BY <1>1, <1>2, <1>6, <2>1, GetFreeSlabStep, GetSegmentStep, SegmentLockStep, SegmentCheckStep,
       SlotAllocStep, SlotCountStep, SegmentUnlockStep, Zenon DEF Taking, Still, slabs, Goal
<1>7. ASSUME NEW t \in Threads, Insert(t) \/ Discard(t) \/ RemoveEntry(t) PROVE Goal
  BY <1>1, <1>2, <1>3, <1>4, <1>7, DiscardStep, Zenon DEF slabs, Goal
<1>8. ASSUME NEW a \in Actors, Freeing(a) PROVE Goal
  BY <1>1, <1>2, <1>8, UncountStep, DeallocEndStep, ShrinkStep, ShrinkWaitStep, ShrinkEndStep,
     Zenon DEF Freeing, Still, slabs, Goal
<1>9. CASE Collecting
  BY <1>1, <1>2, <1>9, GcChooseStep, GcMarkStep, GcScanStep, GcShrinkStep, GcOutStep,
     Zenon DEF Collecting, Still, slabs, Goal
<1>10. CASE Halted \/ UNCHANGED vars
  BY <1>2, <1>10, Zenon DEF Halted, vars, slabs, Goal
<1> QED
  BY <1>5, <1>6, <1>7, <1>8, <1>9, <1>10, Zenon DEF Next, Goal

(* The slabs on the free lists.                                             *)
ListsKnown(f) == \A c \in Classes, t \in Threads : \A i \in 1 .. Len(f[c][t]) : Known(f[c][t][i])

LEMMA KnownLists ==
    ASSUME AllocInv, Gc \notin MayFail, [Next]_vars PROVE ListsKnown(free_slabs')
<1>1. /\ Types /\ AllKnown /\ ListsKnown(free_slabs)
      /\ free_slabs \in [Classes -> [Threads -> Seq(Slab)]]
  BY Zenon DEF AllocInv, AllKnown, Types, ListsKnown
<1> DEFINE Goal == ListsKnown(free_slabs')
<1>2. CASE UNCHANGED free_slabs
  BY <1>1, <1>2, Zenon
<1>3. ASSUME NEW t \in Threads, NEW c \in Classes, NEW q \in Seq(Slab),
             \A i \in 1 .. Len(q) : Known(q[i]),
             free_slabs' = [free_slabs EXCEPT ![c][t] = q]
      PROVE  Goal
  <2>1. \A d \in Classes, u \in Threads :
          free_slabs'[d][u] = IF d = c /\ u = t THEN q ELSE free_slabs[d][u]
    BY <1>1, <1>3, Zenon
  <2>2. ASSUME NEW d \in Classes, NEW u \in Threads
        PROVE  \A i \in 1 .. Len(free_slabs'[d][u]) : Known(free_slabs'[d][u][i])
    <3>1. CASE d = c /\ u = t
      BY <1>3, <2>1, <3>1
    <3>2. CASE ~(d = c /\ u = t)
      <4>1. free_slabs'[d][u] = free_slabs[d][u]
        BY <2>1, <3>2, Zenon
      <4> QED
        BY <1>1, <4>1, Zenon DEF ListsKnown
    <3> QED
      BY <3>1, <3>2, Zenon
  <2> QED
    BY <2>2, Zenon DEF ListsKnown
<1> HIDE DEF Goal
<1>4. ASSUME NEW t \in Threads, NEW c \in Classes, GetFreeSlab(t, c) PROVE Goal
  <2>1. /\ free_slabs[c][t] # <<>> /\ free_slabs[c][t] \in Seq(Slab)
        /\ free_slabs' = [free_slabs EXCEPT ![c][t] = Pop(free_slabs[c][t])]
        /\ \A i \in 1 .. Len(free_slabs[c][t]) : Known(free_slabs[c][t][i])
    BY <1>1, <1>4, GetFreeSlabStep, Zenon DEF ListsKnown
  <2>2. \A i \in 1 .. Len(Pop(free_slabs[c][t])) : Known(Pop(free_slabs[c][t])[i])
    <3> DEFINE q == free_slabs[c][t]
    <3>1. /\ Len(q) \in 1 .. Len(q) /\ Len(Pop(q)) = Len(q) - 1
          /\ \A i \in 1 .. Len(q) - 1 : Pop(q)[i] = q[i]
      BY <2>1, PopFact, Zenon
    <3>2. \A i \in 1 .. Len(q) : Known(q[i])
      BY <2>1
    <3>3. Len(q) \in Nat
      BY <2>1, SMTT(30), ZenonT(30)
    <3> HIDE DEF q
    <3> QED
      BY <3>1, <3>2, <3>3 DEF q
  <2> QED
    BY <1>3, <2>1, <2>2, PopFact, Zenon
<1>5. ASSUME NEW a \in Actors, DeallocEnd(a) PROVE Goal
  <2>1. pc[a] = "freed" /\ Known(my[a])
    BY <1>1, <1>5, DeallocEndStep, Zenon DEF AllKnown
  <2>2. my[a].g \in Segs /\ class[my[a].g] = my[a].c
    BY <1>1, <2>1, SegFact, Zenon
  <2>3. CASE a \notin Threads \/ UNCHANGED free_slabs
    <3>1. a \notin Threads => a = Lgwr
      BY <1>1, <2>1, Zenon DEF Actors, AllocInv, Control, GcSteps, Taken, Marked
    <3> QED
      BY <1>1, <1>2, <1>5, <2>3, <3>1, DeallocEndStep, Zenon DEF Goal
  <2>4. CASE /\ a \in Threads
             /\ free_slabs' = [free_slabs EXCEPT ![class[my[a].g]][a] = Append(@, my[a])]
    <3>1. my[a] \in Slab /\ class[my[a].g] \in Classes
      BY <1>1, <2>1, <2>2, <2>4, IsActor, Zenon DEF AllocInv, Control, Slab
    <3> DEFINE c == class[my[a].g]
    <3>2. free_slabs' = [free_slabs EXCEPT ![c][a] = Append(free_slabs[c][a], my[a])]
      BY <1>1, <2>4, <3>1, Zenon
    <3>3. free_slabs[c][a] \in Seq(Slab) /\ \A i \in 1 .. Len(free_slabs[c][a]) : Known(free_slabs[c][a][i])
      BY <1>1, <2>4, <3>1, Zenon DEF ListsKnown
    <3> HIDE DEF c
    <3>4. /\ Append(free_slabs[c][a], my[a]) \in Seq(Slab)
          /\ \A i \in 1 .. Len(Append(free_slabs[c][a], my[a])) :
               Known(Append(free_slabs[c][a], my[a])[i])
      BY <2>1, <3>1, <3>3
    <3> QED
      BY <1>3, <2>4, <3>1, <3>2, <3>4, Zenon DEF c
  <2> QED
    BY <1>1, <1>5, <2>3, <2>4, DeallocEndStep, Zenon
<1>6. ASSUME NEW t \in Threads, Taking(t) PROVE Goal
  <2>1. ASSUME NEW c \in Classes, GrowClass(t, c) PROVE Goal
    BY <1>2, <2>1, Zenon DEF GrowClass, slabs, Goal
  <2> QED
    BY <1>1, <1>2, <1>4, <1>6, <2>1, GetSegmentStep, SegmentLockStep, SegmentCheckStep,
       SlotAllocStep, SlotCountStep, SegmentUnlockStep, Zenon DEF Taking, Still, slabs, Goal
<1>7. ASSUME NEW t \in Threads, Insert(t) \/ Discard(t) \/ RemoveEntry(t) PROVE Goal
  BY <1>1, <1>2, <1>7, InsertStep, DiscardStep, Zenon DEF RemoveEntry, slabs, Goal
<1>8. ASSUME NEW a \in Actors, Freeing(a) PROVE Goal
  BY <1>1, <1>2, <1>5, <1>8, UncountStep, ShrinkStep, ShrinkWaitStep, ShrinkEndStep,
     Zenon DEF Freeing, Still, slabs, Goal
<1>9. CASE Collecting \/ Logged
  BY <1>1, <1>2, <1>9, LoggedStep, GcChooseStep, GcMarkStep, GcScanStep, GcShrinkStep, GcOutStep,
     Zenon DEF Collecting, Still, slabs, Goal
<1>10. CASE Halted \/ UNCHANGED vars
  BY <1>2, <1>10, Zenon DEF Halted, vars, slabs, Goal
<1> QED
  BY <1>6, <1>7, <1>8, <1>9, <1>10, Zenon DEF Next, Goal

(* A segment that is read from a class's array.                             *)
LEMMA PlaceKnown ==
    ASSUME AllocInv, NEW c \in Classes, NEW k \in 1 .. num_segments[c], segments[c][k] \in Segs, NEW m
    PROVE  Known([c |-> c, g |-> segments[c][k], m |-> m])
<1>1. k \in 1 .. NSegs
  BY AllocAssumption DEF AllocInv, Types, Assigned
<1>2. class[segments[c][k]] = c /\ segments[c][k] <= blk_allocated
  BY <1>1, Zenon DEF AllocInv, InPlaces, Held
<1>3. segments[c][k] \in 1 .. blk_allocated
  BY <1>2, AllocAssumption DEF AllocInv, Types, Segs
<1> QED
  BY <1>2, <1>3, Zenon DEF Known

LEMMA KnownCalls ==
    ASSUME AllocInv, Gc \notin MayFail, [Next]_vars
    PROVE  \A a \in Actors : pc'[a] # "idle" => Known(my'[a])
<1>1. Types /\ AllKnown /\ \A a \in Actors : pc[a] # "idle" => Known(my[a])
  BY Zenon DEF AllocInv, AllKnown
<1> DEFINE Goal == \A a \in Actors : pc'[a] # "idle" => Known(my'[a])
<1>2. CASE UNCHANGED <<pc, my>>
  BY <1>1, <1>2, Zenon
<1>3. ASSUME NEW a \in Actors, NEW l, NEW s, Moves(a, l, s), l = "idle" \/ Known(s) PROVE Goal
  BY <1>1, <1>3, Zenon DEF Moves
<1> HIDE DEF Goal
<1>4. ASSUME NEW a \in Actors, NEW l, Moves(a, l, my[a]), pc[a] # "idle" PROVE Goal
  BY <1>1, <1>3, <1>4, Zenon
<1>5. ASSUME NEW a \in Actors, Moves(a, "idle", Nowhere) PROVE Goal
  BY <1>3, <1>5, Zenon
<1>6. ASSUME NEW t \in Threads, NEW c \in Classes,
             GetFreeSlab(t, c) \/ GetSegment(t, c) \/ GrowClass(t, c)
      PROVE  Goal
  <2>1. CASE GetFreeSlab(t, c)
    <3>1. Known(Top(free_slabs[c][t]))
      <4>1. free_slabs[c][t] \in Seq(Slab) /\ free_slabs[c][t] # <<>>
        BY <1>1, <2>1, GetFreeSlabStep DEF Types
      <4>2. \A i \in 1 .. Len(free_slabs[c][t]) : Known(free_slabs[c][t][i])
        BY <1>1, Zenon DEF AllKnown
      <4> QED
        <5>1. \E i \in 1 .. Len(free_slabs[c][t]) : Top(free_slabs[c][t]) = free_slabs[c][t][i]
          BY <4>1, PopFact, Zenon
        <5> QED
          BY <4>2, <5>1, Zenon
    <3> QED
      BY <1>1, <1>3, <2>1, <3>1, GetFreeSlabStep, IsActor, Zenon
  <2>2. CASE GetSegment(t, c)
    <3>1. PICK k \in 1 .. num_segments[c], m \in 1 .. PerSeg[c] :
             segments[c][k] \in Segs /\ Moves(t, "lock", [c |-> c, g |-> segments[c][k], m |-> m])
      BY <1>1, <2>2, GetSegmentStep, Zenon
    <3> QED
      BY <1>3, <3>1, PlaceKnown, IsActor, Zenon
  <2>3. CASE GrowClass(t, c)
    BY <1>2, <2>3, Zenon DEF GrowClass, Goal
  <2> QED
    BY <1>6, <2>1, <2>2, <2>3, Zenon
<1>7. ASSUME NEW t \in Threads, SegmentLock(t) \/ SegmentCheck(t) \/ SlotAlloc(t) PROVE Goal
  <2>1. pc[t] # "idle"
    BY <1>1, <1>7, SegmentLockStep, SegmentCheckStep, SlotAllocStep, Zenon
  <2> QED
    BY <1>1, <1>4, <1>7, <2>1, SegmentLockStep, SegmentCheckStep, SlotAllocStep, IsActor, Zenon
<1>8. ASSUME NEW t \in Threads, SlotCount(t) \/ SegmentUnlock(t) PROVE Goal
  <2>1. pc[t] # "idle"
    BY <1>1, <1>8, SlotCountStep, SegmentUnlockStep, Zenon
  <2> QED
    BY <1>1, <1>4, <1>5, <1>8, <2>1, SlotCountStep, SegmentUnlockStep, IsActor, Zenon
<1>9. ASSUME NEW t \in Threads, Insert(t) \/ Discard(t) \/ RemoveEntry(t) PROVE Goal
  <2>1. Discard(t) => pc[t] # "idle"
    BY <1>1, DiscardStep, Zenon
  <2> QED
    BY <1>1, <1>2, <1>4, <1>5, <1>9, <2>1, InsertStep, DiscardStep, IsActor, Zenon
       DEF RemoveEntry, Goal
<1>10. CASE Logged
  <2>1. \A s \in dead : Known(s)
    BY <1>1, Zenon DEF AllKnown
  <2>2. PICK s \in dead : Moves(Lgwr, "uncount", s)
    BY <1>1, <1>10, LoggedStep, Zenon
  <2> QED
    BY <1>3, <2>1, <2>2, IsActor, Zenon DEF Goal
<1>11. ASSUME NEW a \in Actors, Freeing(a) PROVE Goal
  <2>1. pc[a] # "idle"
    BY <1>1, <1>11, UncountStep, DeallocEndStep, ShrinkStep, ShrinkWaitStep, ShrinkEndStep, Zenon DEF Freeing
  <2>2. CASE Uncount(a) \/ DeallocEnd(a) \/ Shrink(a)
    BY <1>1, <1>4, <1>5, <2>1, <2>2, UncountStep, DeallocEndStep, ShrinkStep, Zenon
  <2>3. CASE ShrinkWait(a) \/ ShrinkEnd(a)
    BY <1>1, <1>4, <1>5, <2>1, <2>3, ShrinkWaitStep, ShrinkEndStep, Zenon
  <2> QED
    BY <1>11, <2>2, <2>3, Zenon DEF Freeing
<1>12. CASE Collecting
  <2>1. CASE GcChoose
    <3>1. ASSUME NEW c \in Classes, NEW k \in 1 .. num_segments[c], segments[c][k] \in Segs,
                 Moves(Gc, "mark", [c |-> c, g |-> segments[c][k], m |-> 0])
          PROVE  Goal
      <4>1. Known([c |-> c, g |-> segments[c][k], m |-> 0])
        BY <3>1, PlaceKnown, Zenon
      <4> QED
        BY <1>3, <3>1, <4>1, IsActor, Zenon
    <3>2. ASSUME NEW c \in Classes, Moves(Gc, "idle", [c |-> c, g |-> 0, m |-> 0]) PROVE Goal
      BY <1>3, <3>2, IsActor, Zenon
    <3> QED
      BY <1>1, <1>2, <2>1, <3>1, <3>2, GcChooseStep, Zenon DEF Goal
  <2>2. CASE GcMark \/ GcScan \/ GcShrink \/ GcOut
    <3>1. pc[Gc] # "idle"
      BY <1>1, <2>2, GcMarkStep, GcScanStep, GcShrinkStep, GcOutStep, Zenon
    <3> QED
      BY <1>1, <1>2, <1>4, <1>5, <2>2, <3>1, GcMarkStep, GcScanStep, GcShrinkStep, GcOutStep,
         IsActor, Zenon DEF Goal
  <2> QED
    BY <1>12, <2>1, <2>2, Zenon DEF Collecting
<1>13. CASE Halted \/ UNCHANGED vars
  BY <1>2, <1>13, Zenon DEF Halted, vars, Goal
<1> QED
  BY <1>6, <1>7, <1>8, <1>9, <1>10, <1>11, <1>12, <1>13, Zenon DEF Next, Taking, Goal

LEMMA NextAllKnown == ASSUME AllocInv, Gc \notin MayFail, [Next]_vars PROVE AllKnown'
<1>1. Fixed
  BY NextFixed, Zenon
<1>2. \A s : Known(s) => Known(s)'
  BY <1>1, KnownStays, Zenon
<1>3. \A s \in objs' \cup dead' : Known(s)
  BY KnownObjs
<1>4. \A c \in Classes, t \in Threads : \A i \in 1 .. Len(free_slabs'[c][t]) :
        Known(free_slabs'[c][t][i])
  BY KnownLists, Zenon DEF ListsKnown
<1>5. \A a \in Actors : pc'[a] # "idle" => Known(my'[a])
  BY KnownCalls
<1>6. \A s : Known(s) => s.g \in 1 .. blk_allocated' /\ class'[s.g] = s.c
  BY <1>2, Zenon DEF Known
<1> QED
  BY <1>3, <1>4, <1>5, <1>6, Zenon DEF AllKnown, Known
-----------------------------------------------------------------------------
LEMMA CallFact ==
    ASSUME AllocInv, NEW a \in Actors, pc[a] # "idle"
    PROVE  /\ my[a].c \in Classes /\ idx[my[a].g] \in 1 .. NSegs
           /\ my[a].g \in Segs /\ my[a].g <= blk_allocated /\ class[my[a].g] = my[a].c
           /\ mos_bitmap[my[a].g] \in SUBSET Nat
<1>1. my[a].g \in Segs /\ my[a].g <= blk_allocated /\ class[my[a].g] = my[a].c
  BY SegFact, Zenon DEF AllocInv
<1> QED
  BY <1>1, Zenon DEF AllocInv, Assigned

(* A segment in a place was not given back.                                 *)
LEMMA PlaceHeld ==
    ASSUME Held, NEW c \in Classes, NEW k \in 1 .. NSegs, NEW g \in Segs, segments[c][k] = g
    PROVE  g \notin Given /\ g # None /\ g # Gc /\ None \notin Segs
<1>1. None \notin Segs /\ Gc \notin Segs
  BY AllocAssumption, Zenon DEF Segs
<1>2. segments[c][k] \notin Given
  BY Zenon DEF Held
<1> QED
  BY <1>1, <1>2, Zenon

LEMMA GrowPlace ==
    ASSUME Types, NEW c \in Classes
    PROVE  /\ blk_allocated \in Nat /\ num_segments[c] \in Nat /\ NSegs \in Nat /\ Segs = 1 .. NSegs
           /\ num_segments[c] + 1 > num_segments[c]
           /\ blk_allocated + 1 <= blk_allocated + 1 /\ blk_allocated + 1 > blk_allocated
           /\ \A h \in Segs : h <= blk_allocated => h # blk_allocated + 1 /\ h <= blk_allocated + 1
<1>1. blk_allocated \in Nat /\ num_segments[c] \in Nat /\ NSegs \in Nat
  BY AllocAssumption DEF Types
<1>2. Segs = 1 .. NSegs
  BY Zenon DEF Segs
<1> QED
  BY <1>1, <1>2

(* One place of a class changes and one call goes on.                       *)
SetsPlace(a, l, s, c, k, v) ==
    /\ c \in Classes /\ k \in 1 .. NSegs /\ k <= num_segments[c]
    /\ segments' = [segments EXCEPT ![c][k] = v]
    /\ UNCHANGED <<class, idx, num_segments, free_segments, blk_allocated>>
    /\ v \in Segs => class[v] = c /\ idx[v] = k /\ v <= blk_allocated /\ v \notin Given
    /\ \A b \in Actors \ {a} : pc[b] \in Taken => my[b].c # c
    /\ \A d \in Classes \ {c} : class_lock'[d] = class_lock[d]
    /\ a = Gc \/ segments[c][k] # Gc
    /\ l \in Taken => /\ s.c = c /\ idx[s.g] = k /\ v = None
                      /\ class_lock'[c] = a /\ s.g \notin Given
    /\ a = Gc /\ l \in Marked => s.c = c /\ idx[s.g] = k /\ v = Gc /\ s.g \notin Given

LEMMA PlaceStep ==
    ASSUME AllocInv, NEW a \in Actors, NEW l, NEW s, Moves(a, l, s),
           NEW c, NEW k, NEW v, SetsPlace(a, l, s, c, k, v)
    PROVE  InPlaces'
<1> USE DEF SetsPlace
<1>0. Held /\ Behind /\ TakenOut /\ MarkedOut
  BY Zenon DEF AllocInv, InPlaces
<1>1. Given' = Given
  BY DEF Given
<1>2. /\ segments'[c][k] = v
      /\ \A d \in Classes, j \in 1 .. NSegs : d # c \/ j # k => segments'[d][j] = segments[d][j]
  BY Zenon DEF AllocInv, Types
<1>3. Held'
  <2> SUFFICES ASSUME NEW d \in Classes, NEW j \in 1 .. NSegs, segments'[d][j] \in Segs
               PROVE  /\ class[segments'[d][j]] = d /\ idx[segments'[d][j]] = j
                      /\ segments'[d][j] <= blk_allocated /\ segments'[d][j] \notin Given
    BY <1>1 DEF Held
  <2>1. CASE d = c /\ j = k
    <3>1. segments'[d][j] = v
      BY <1>2, <2>1, Zenon
    <3> QED
      BY <2>1, <3>1, Zenon
  <2>2. CASE d # c \/ j # k
    <3>1. segments'[d][j] = segments[d][j]
      BY <1>2, <2>2, Zenon
    <3>2. segments[d][j] \in Segs
      BY <3>1, Zenon
    <3>3. /\ class[segments[d][j]] = d /\ idx[segments[d][j]] = j
          /\ segments[d][j] <= blk_allocated /\ segments[d][j] \notin Given
      BY <1>0, <3>2, Zenon DEF Held
    <3> QED
      BY <3>1, <3>3, Zenon
  <2> QED
    BY <2>1, <2>2, Zenon
<1>4. Behind'
  <2>1. num_segments \in [Classes -> Nat]
    BY Zenon DEF AllocInv, Types
  <2> QED
    BY <1>0, <1>2, <2>1, AllocAssumption, SMTT(30), ZenonT(30) DEF Behind
<1>5. TakenOut'
  <2> SUFFICES ASSUME NEW b \in Actors, pc'[b] \in Taken
               PROVE  /\ segments'[my'[b].c][idx[my'[b].g]] = None /\ class_lock'[my'[b].c] = b
                      /\ my'[b].g \notin Given /\ idx[my'[b].g] <= num_segments[my'[b].c]
    BY <1>1 DEF TakenOut
  <2>1. CASE b = a
    BY <1>2, <2>1, Zenon DEF Moves
  <2>2. CASE b # a
    <3>1. pc[b] \in Taken /\ my'[b] = my[b] /\ pc[b] # "idle"
      BY <2>2, Zenon DEF Moves, Taken
    <3>2. my[b].c # c /\ my[b].c \in Classes /\ idx[my[b].g] \in 1 .. NSegs
      BY <2>2, <3>1, CallFact, Zenon
    <3> QED
      BY <1>0, <1>2, <3>1, <3>2 DEF TakenOut
  <2> QED
    BY <2>1, <2>2, Zenon
<1>6. MarkedOut'
  <2> SUFFICES ASSUME pc'[Gc] \in Marked
               PROVE  segments'[my'[Gc].c][idx[my'[Gc].g]] = Gc /\ my'[Gc].g \notin Given
    BY <1>1 DEF MarkedOut
  <2>1. CASE a = Gc
    BY <1>2, <2>1, Zenon DEF Moves
  <2>2. CASE a # Gc
    <3>1. pc[Gc] \in Marked /\ my'[Gc] = my[Gc] /\ pc[Gc] # "idle"
      BY <2>2, IsActor, Zenon DEF Moves, Marked
    <3>2. my[Gc].c \in Classes /\ idx[my[Gc].g] \in 1 .. NSegs
      BY <3>1, CallFact, IsActor, Zenon
    <3> QED
      BY <1>0, <1>2, <2>2, <3>1, <3>2 DEF MarkedOut
  <2> QED
    BY <2>1, <2>2, Zenon
<1> QED
  BY <1>3, <1>4, <1>5, <1>6, Zenon DEF InPlaces

LEMMA CallStep ==
    ASSUME AllocInv, NEW a \in Actors, NEW l, NEW s, Moves(a, l, s),
           UNCHANGED <<class, idx, segments, num_segments, class_lock, free_segments, blk_allocated>>,
           l \in Taken => pc[a] \in Taken /\ s = my[a],
           l \in Marked => pc[a] \in Marked /\ s = my[a]
    PROVE  InPlaces'
<1>0. Held /\ Behind /\ TakenOut /\ MarkedOut
  BY Zenon DEF AllocInv, InPlaces
<1>1. Given' = Given
  BY Zenon DEF Given
<1>2. Held' /\ Behind'
  BY <1>0, <1>1, Zenon DEF Held, Behind
<1>3. \A b \in Actors : pc'[b] \in Taken => pc[b] \in Taken /\ my'[b] = my[b]
  BY Zenon DEF Moves
<1>4. pc'[Gc] \in Marked => pc[Gc] \in Marked /\ my'[Gc] = my[Gc]
  BY IsActor, Zenon DEF Moves
<1>5. TakenOut' /\ MarkedOut'
  BY <1>0, <1>1, <1>3, <1>4, Zenon DEF TakenOut, MarkedOut
<1> QED
  BY <1>2, <1>5, Zenon DEF InPlaces

LEMMA GrowPlaces ==
    ASSUME AllocInv, NEW t \in Threads, NEW c \in Classes, GrowClass(t, c) PROVE InPlaces'
<1>0. Types /\ Assigned /\ Held /\ Behind /\ TakenOut /\ MarkedOut
  BY DEF AllocInv, InPlaces
<1>1. UNCHANGED <<class_lock, pc, my>> /\ class_lock[c] = None /\ (GrowFails \/ Grown(c))
  BY <1>0, GrowClassStep, Zenon
<1>2. CASE GrowFails
  <2>1. Given' \subseteq Given
    BY <1>0, <1>2, GivenPop, Zenon DEF GrowFails
  <2>2. UNCHANGED <<class, idx, segments, num_segments, blk_allocated>>
    BY <1>2 DEF GrowFails
  <2>3. Held' /\ Behind'
    BY <1>0, <2>1, <2>2, Zenon DEF Held, Behind
  <2>4. TakenOut' /\ MarkedOut'
    BY <1>0, <1>1, <2>1, <2>2, Zenon DEF TakenOut, MarkedOut
  <2> QED
    BY <2>3, <2>4, Zenon DEF InPlaces
<1>3. CASE Grown(c)
  <2> DEFINE g == blk_allocated + 1
             k == num_segments[c] + 1
  <2>1. /\ g \in Segs /\ k \in 1 .. NSegs /\ blk_allocated' = g
        /\ Given' = Given /\ g \notin Given /\ class'[g] = c /\ idx'[g] = k
        /\ \A h \in Segs \ {g} : class'[h] = class[h] /\ idx'[h] = idx[h]
    BY <1>0, <1>3, GrownFact, Zenon
  <2>2. /\ num_segments'[c] = k
        /\ \A d \in Classes \ {c} : num_segments'[d] = num_segments[d]
        /\ segments'[c][k] = g
        /\ \A d \in Classes, j \in 1 .. NSegs : d # c \/ j # k => segments'[d][j] = segments[d][j]
    BY <1>0, <1>3, GrownFact, Zenon
  <2>3. /\ blk_allocated \in Nat /\ num_segments[c] \in Nat /\ NSegs \in Nat /\ Segs = 1 .. NSegs
        /\ k > num_segments[c] /\ g <= g /\ g > blk_allocated
        /\ \A h \in Segs : h <= blk_allocated => h # g /\ h <= g
    BY <1>0, GrowPlace, Zenon
  <2>4. segments[c][k] = None
    BY <1>0, <2>1, <2>3, Zenon DEF Behind
  <2>5. \A a \in Actors : pc[a] # "idle" =>
          /\ my[a].c \in Classes /\ idx[my[a].g] \in 1 .. NSegs
          /\ my[a].g \in Segs /\ my[a].g <= blk_allocated
    BY CallFact, Zenon
  <2>6. \A a \in Actors : pc[a] # "idle" => idx'[my[a].g] = idx[my[a].g]
    BY <2>1, <2>3, <2>5, Zenon
  <2>7. Behind'
    <3> SUFFICES ASSUME NEW d \in Classes, NEW j \in 1 .. NSegs, j > num_segments'[d]
                 PROVE  segments'[d][j] = None
      BY Zenon DEF Behind
    <3>1. j > num_segments[d] /\ (d # c \/ j # k)
      BY <2>2, <2>3
    <3> QED
      BY <1>0, <2>2, <3>1 DEF Behind
  <2> HIDE DEF g, k
  <2>8. Held'
    <3> SUFFICES ASSUME NEW d \in Classes, NEW j \in 1 .. NSegs, segments'[d][j] \in Segs
                 PROVE  /\ class'[segments'[d][j]] = d /\ idx'[segments'[d][j]] = j
                        /\ segments'[d][j] <= g /\ segments'[d][j] \notin Given
      BY <2>1 DEF Held
    <3>1. CASE d = c /\ j = k
      BY <2>1, <2>2, <2>3, <3>1, Zenon
    <3>2. CASE d # c \/ j # k
      <4>1. segments'[d][j] = segments[d][j] /\ segments[d][j] \in Segs
        BY <2>2, <3>2, Zenon
      <4>2. /\ class[segments[d][j]] = d /\ idx[segments[d][j]] = j
            /\ segments[d][j] <= blk_allocated /\ segments[d][j] \notin Given
        BY <1>0, <4>1, Zenon DEF Held
      <4>3. segments[d][j] # g /\ segments[d][j] <= g
        BY <2>3, <4>1, <4>2, Zenon
      <4> QED
        BY <2>1, <4>1, <4>2, <4>3, Zenon
    <3> QED
      BY <3>1, <3>2, Zenon
  <2>9. TakenOut'
    <3> SUFFICES ASSUME NEW a \in Actors, pc[a] \in Taken
                 PROVE  /\ segments'[my[a].c][idx[my[a].g]] = None /\ class_lock[my[a].c] = a
                        /\ my[a].g \notin Given /\ idx[my[a].g] <= num_segments'[my[a].c]
                        /\ idx'[my[a].g] = idx[my[a].g]
      BY <1>1, <2>1, ZenonT(40) DEF TakenOut
    <3>1. pc[a] # "idle"
      BY DEF Taken
    <3>2. /\ segments[my[a].c][idx[my[a].g]] = None /\ class_lock[my[a].c] = a
          /\ my[a].g \notin Given /\ idx[my[a].g] <= num_segments[my[a].c]
      BY <1>0, Zenon DEF TakenOut
    <3>3. my[a].c # c
      BY <1>1, <3>2, AllocAssumption, Zenon DEF Actors
    <3> QED
      BY <2>2, <2>5, <2>6, <3>1, <3>2, <3>3, Zenon
  <2>10. MarkedOut'
    <3> SUFFICES ASSUME pc[Gc] \in Marked
                 PROVE  /\ segments'[my[Gc].c][idx[my[Gc].g]] = Gc /\ my[Gc].g \notin Given
                        /\ idx'[my[Gc].g] = idx[my[Gc].g]
      BY <1>1, <2>1, Zenon DEF MarkedOut
    <3>1. pc[Gc] # "idle"
      BY DEF Marked
    <3>2. segments[my[Gc].c][idx[my[Gc].g]] = Gc /\ my[Gc].g \notin Given
      BY <1>0, Zenon DEF MarkedOut
    <3>3. my[Gc].c # c \/ idx[my[Gc].g] # k
      BY <2>4, <3>2, AllocAssumption, Zenon
    <3> QED
      BY <2>2, <2>5, <2>6, <3>1, <3>2, <3>3, IsActor, Zenon
  <2> QED
    BY <2>7, <2>8, <2>9, <2>10, Zenon DEF InPlaces
<1> QED
  BY <1>1, <1>2, <1>3

(* While the lock of a class is free, nobody has taken a segment of it.     *)
LEMMA LockFree ==
    ASSUME AllocInv, NEW c, class_lock[c] = None
    PROVE  \A b \in Actors : pc[b] \in Taken => my[b].c # c
BY AllocAssumption DEF AllocInv, InPlaces, TakenOut, Actors

(* A place that holds something.                                            *)
LEMMA UsedPlace ==
    ASSUME AllocInv, NEW c \in Classes, NEW k \in 1 .. NSegs, segments[c][k] # None
    PROVE  k <= num_segments[c]
<1>1. num_segments[c] \in Nat /\ NSegs \in Nat
  BY AllocAssumption, Zenon DEF AllocInv, Types
<1>2. ~(k > num_segments[c])
  BY Zenon DEF AllocInv, InPlaces, Behind
<1> QED
  BY <1>1, <1>2

LEMMA ShrinkPlaces ==
    ASSUME AllocInv, NEW a \in Actors, Shrink(a) PROVE InPlaces'
<1> DEFINE g == my[a].g
           c == class[g]
<1>0. Types /\ Held
  BY DEF AllocInv, InPlaces
<1>1. /\ pc[a] = "shrink"
      /\ UNCHANGED <<class, idx, num_segments, free_segments, blk_allocated>>
      /\ \/ /\ class_lock[c] = None /\ segments[c][idx[g]] = g
            /\ segments' = [segments EXCEPT ![c][idx[g]] = None]
            /\ class_lock' = [class_lock EXCEPT ![c] = a]
            /\ Moves(a, "wait", my[a])
         \/ Moves(a, "idle", Nowhere) /\ UNCHANGED <<segments, class_lock>>
  BY <1>0, ShrinkStep, Zenon DEF segs, space
<1>2. /\ my[a].c \in Classes /\ idx[g] \in 1 .. NSegs /\ g \in Segs /\ c = my[a].c
  BY <1>1, CallFact, Zenon
<1> HIDE DEF c
<1>3. CASE Moves(a, "idle", Nowhere) /\ UNCHANGED <<segments, class_lock>>
  <2>1. "idle" \notin Taken /\ "idle" \notin Marked
    BY DEF Taken, Marked
  <2> QED
    BY <1>1, <1>3, <2>1, CallStep, Zenon
<1>4. CASE /\ class_lock[c] = None /\ segments[c][idx[g]] = g
           /\ segments' = [segments EXCEPT ![c][idx[g]] = None]
           /\ class_lock' = [class_lock EXCEPT ![c] = a]
           /\ Moves(a, "wait", my[a])
  <2>1. g \notin Given /\ g # None /\ g # Gc /\ None \notin Segs
    BY <1>0, <1>2, <1>4, PlaceHeld, Zenon
  <2>2. idx[g] <= num_segments[c]
    BY <1>2, <1>4, <2>1, UsedPlace, Zenon
  <2>3. class_lock'[c] = a /\ \A d \in Classes \ {c} : class_lock'[d] = class_lock[d]
    BY <1>0, <1>2, <1>4, Zenon DEF Types
  <2>4. \A b \in Actors \ {a} : pc[b] \in Taken => my[b].c # c
    BY <1>4, LockFree, Zenon
  <2>5. "wait" \notin Marked
    BY Zenon DEF Marked
  <2>6. segments[c][idx[g]] # Gc /\ c \in Classes
    BY <1>2, <1>4, <2>1, Zenon
  <2>7. UNCHANGED <<class, idx, num_segments, free_segments, blk_allocated>>
    BY <1>1, Zenon
  <2>8. segments' = [segments EXCEPT ![c][idx[g]] = None] /\ Moves(a, "wait", my[a])
    BY <1>4, Zenon
  <2>9. my[a].c = c /\ my[a].g \notin Given /\ None \notin Segs /\ idx[g] \in 1 .. NSegs
        /\ class_lock'[c] = a
    BY <1>2, <2>1, <2>3, Zenon
  <2>10. \A d \in Classes \ {c} : class_lock'[d] = class_lock[d]
    BY <2>3, Zenon
  <2> QED
    <3> DEFINE k == idx[g]
    <3>1. k \in 1 .. NSegs /\ k <= num_segments[c] /\ segments[c][k] # Gc /\ c \in Classes
      BY <2>2, <2>6, <2>9, Zenon
    <3>2. segments' = [segments EXCEPT ![c][k] = None] /\ Moves(a, "wait", my[a])
      BY <2>8, Zenon
    <3>3. my[a].c = c /\ idx[my[a].g] = k /\ class_lock'[c] = a /\ my[a].g \notin Given
      BY <2>9, Zenon
    <3>4. None \notin Segs
      BY <2>9, Zenon
    <3> HIDE DEF g, k
    <3>5. SetsPlace(a, "wait", my[a], c, k, None)
      BY <2>4, <2>5, <2>7, <2>10, <3>1, <3>2, <3>3, <3>4, Zenon DEF SetsPlace
    <3> QED
      BY <3>2, <3>5, PlaceStep, Zenon
<1> QED
  BY <1>1, <1>3, <1>4, Zenon

LEMMA CollectPlaces == ASSUME AllocInv, Collecting PROVE InPlaces'
<1> DEFINE g == my[Gc].g
           c == my[Gc].c
           k == idx[g]
<1>0. Types /\ Held /\ MarkedOut /\ Gc \in Actors
  BY IsActor, Zenon DEF AllocInv, InPlaces
<1>1. pc[Gc] # "idle" => /\ c \in Classes /\ k \in 1 .. NSegs
                         /\ g \in Segs /\ g <= blk_allocated /\ class[g] = c
  BY <1>0, CallFact, Zenon
<1>2. /\ "idle" \notin Taken /\ "idle" \notin Marked /\ "mark" \notin Taken /\ "mark" \notin Marked
      /\ "wait" \notin Marked /\ "scan" \notin Taken /\ "gcshrink" \notin Taken /\ "out" \notin Taken
      /\ "scan" \in Marked /\ "gcshrink" \in Marked /\ "out" \in Marked
  BY Zenon DEF Taken, Marked
<1>3. Gc \notin Segs /\ None \notin Segs /\ None # Gc
  BY AllocAssumption, Zenon DEF Segs
<1> DEFINE Places ==
      UNCHANGED <<class, idx, segments, num_segments, class_lock, free_segments, blk_allocated>>
<1>9. CASE Places /\ UNCHANGED <<pc, my>>
  <2>1. Given' = Given
    BY <1>9, Zenon DEF Given
  <2>2. Held' /\ Behind'
    BY <1>9, <2>1, Zenon DEF AllocInv, InPlaces, Held, Behind
  <2>3. TakenOut' /\ MarkedOut'
    BY <1>9, <2>1, Zenon DEF AllocInv, InPlaces, TakenOut, MarkedOut
  <2> QED
    BY <2>2, <2>3, Zenon DEF InPlaces
<1>4. CASE GcChoose
  <2>1. UNCHANGED <<pc, my>> \/ \E l \in {"idle", "mark"} : \E s : Moves(Gc, l, s)
    BY <1>0, <1>4, GcChooseStep, Zenon
  <2>2. Places
    BY <1>0, <1>4, GcChooseStep, Zenon DEF Still, segs, classes, space
  <2>3. ASSUME NEW l \in {"idle", "mark"}, NEW s, Moves(Gc, l, s) PROVE InPlaces'
    BY <1>0, <1>2, <2>2, <2>3, CallStep, Zenon
  <2> QED
    BY <1>9, <2>1, <2>2, <2>3, Zenon
<1>5. CASE GcScan
  <2>2. UNCHANGED <<class, idx, segments, num_segments, class_lock, free_segments, blk_allocated>>
    BY <1>0, <1>5, GcScanStep, Zenon DEF Still, segs, classes, space
  <2>3. CASE UNCHANGED <<pc, my>>
    BY <1>9, <2>2, <2>3, Zenon
  <2>4. CASE Moves(Gc, "gcshrink", my[Gc]) \/ Moves(Gc, "out", my[Gc])
    <3>1. pc[Gc] \in Marked
      BY <1>0, <1>2, <1>5, GcScanStep, Zenon
    <3> QED
      BY <1>0, <1>2, <2>2, <2>4, <3>1, CallStep, Zenon
  <2> QED
    BY <1>0, <1>5, <2>3, <2>4, GcScanStep, Zenon
<1>6. CASE GcMark
  <2>1. /\ pc[Gc] = "mark" /\ UNCHANGED <<class, idx, num_segments, free_segments, blk_allocated>>
        /\ UNCHANGED class_lock
        /\ \/ /\ segments[c][k] = g /\ class_lock[c] = None
              /\ segments' = [segments EXCEPT ![c][k] = Gc] /\ Moves(Gc, "scan", my[Gc])
           \/ Moves(Gc, "idle", Nowhere) /\ UNCHANGED segments
    BY <1>0, <1>6, GcMarkStep, Zenon DEF segs, space
  <2>2. CASE Moves(Gc, "idle", Nowhere) /\ UNCHANGED segments
    BY <1>0, <1>2, <2>1, <2>2, CallStep, Zenon
  <2>3. CASE /\ segments[c][k] = g /\ class_lock[c] = None
             /\ segments' = [segments EXCEPT ![c][k] = Gc] /\ Moves(Gc, "scan", my[Gc])
    <3>1. /\ c \in Classes /\ k \in 1 .. NSegs /\ g \in Segs
      BY <1>1, <2>1, Zenon
    <3>2. g \notin Given /\ k <= num_segments[c]
      <4>1. g \notin Given /\ g # None
        BY <1>0, <1>3, <2>3, <3>1, PlaceHeld, Zenon
      <4> QED
        BY <2>3, <3>1, <4>1, UsedPlace, Zenon
    <3>3. \A b \in Actors \ {Gc} : pc[b] \in Taken => my[b].c # c
      BY <2>3, LockFree, Zenon
    <3>4. UNCHANGED <<class, idx, num_segments, free_segments, blk_allocated>>
          /\ \A d \in Classes \ {c} : class_lock'[d] = class_lock[d]
      BY <2>1, Zenon
    <3>5. segments' = [segments EXCEPT ![c][k] = Gc] /\ Moves(Gc, "scan", my[Gc])
      BY <2>3, Zenon
    <3>6. SetsPlace(Gc, "scan", my[Gc], c, k, Gc)
      BY <1>2, <1>3, <3>1, <3>2, <3>3, <3>4, <3>5, Zenon DEF SetsPlace
    <3> QED
      BY <1>0, <3>5, <3>6, PlaceStep, Zenon
  <2> QED
    BY <2>1, <2>2, <2>3, Zenon
<1>7. CASE GcShrink
  <2>1. /\ pc[Gc] = "gcshrink" /\ UNCHANGED <<class, idx, num_segments, free_segments, blk_allocated>>
        /\ class_lock[class[g]] = None /\ segments' = [segments EXCEPT ![class[g]][k] = None]
        /\ class_lock' = [class_lock EXCEPT ![class[g]] = Gc] /\ Moves(Gc, "wait", my[Gc])
    BY <1>0, <1>7, GcShrinkStep, Zenon DEF segs, space
  <2>2. /\ c \in Classes /\ k \in 1 .. NSegs /\ g \in Segs /\ class[g] = c
    BY <1>1, <2>1, Zenon
  <2>3. segments[c][k] = Gc /\ g \notin Given
    BY <1>0, <1>2, <2>1, Zenon DEF MarkedOut
  <2>4. k <= num_segments[c]
    BY <1>3, <2>2, <2>3, UsedPlace, Zenon
  <2>5. \A b \in Actors \ {Gc} : pc[b] \in Taken => my[b].c # c
    BY <2>1, <2>2, LockFree, Zenon
  <2>6. class_lock'[c] = Gc /\ \A d \in Classes \ {c} : class_lock'[d] = class_lock[d]
    BY <1>0, <2>1, <2>2, Zenon DEF Types
  <2>7. SetsPlace(Gc, "wait", my[Gc], c, k, None)
    BY <1>2, <1>3, <2>1, <2>2, <2>3, <2>4, <2>5, <2>6, Zenon DEF SetsPlace
  <2> QED
    BY <1>0, <2>1, <2>7, PlaceStep, Zenon
<1>8. CASE GcOut
  <2>1. /\ pc[Gc] = "out" /\ UNCHANGED <<class, idx, num_segments, free_segments, blk_allocated>>
        /\ UNCHANGED class_lock /\ class_lock[c] = None
        /\ segments' = [segments EXCEPT ![c][k] = g] /\ Moves(Gc, "idle", Nowhere)
    BY <1>0, <1>8, GcOutStep, Zenon DEF segs, space
  <2>2. /\ c \in Classes /\ k \in 1 .. NSegs /\ g \in Segs /\ class[g] = c /\ g <= blk_allocated
    BY <1>1, <2>1, Zenon
  <2>3. segments[c][k] = Gc /\ g \notin Given
    BY <1>0, <1>2, <2>1, Zenon DEF MarkedOut
  <2>4. k <= num_segments[c]
    BY <1>3, <2>2, <2>3, UsedPlace, Zenon
  <2>5. \A b \in Actors \ {Gc} : pc[b] \in Taken => my[b].c # c
    BY <2>1, LockFree, Zenon
  <2>6. SetsPlace(Gc, "idle", Nowhere, c, k, g)
    BY <1>2, <1>3, <2>1, <2>2, <2>3, <2>4, <2>5, Zenon DEF SetsPlace
  <2> QED
    BY <1>0, <2>1, <2>6, PlaceStep, Zenon
<1> QED
  BY <1>4, <1>5, <1>6, <1>7, <1>8, Zenon DEF Collecting

LEMMA EndPlaces ==
    ASSUME AllocInv, Trimmed, Gc \notin MayFail, NEW a \in Actors, ShrinkEnd(a) PROVE InPlaces'
<1> DEFINE g == my[a].g
           c == class[g]
           k == idx[g]
<1>0. Types /\ Held /\ Behind /\ TakenOut /\ MarkedOut
  BY DEF AllocInv, InPlaces
<1>1. /\ pc[a] = "decide" /\ Moves(a, "idle", Nowhere) /\ UNCHANGED <<class, idx, blk_allocated>>
      /\ class_lock' = [class_lock EXCEPT ![c] = None]
      /\ FreeSegment(c, g) \/ PutBack(c, g)
  BY <1>0, ShrinkEndStep, Zenon DEF segs
<1>2. /\ c = my[a].c /\ c \in Classes /\ k \in 1 .. NSegs /\ g \in Segs /\ g <= blk_allocated
  BY <1>1, CallFact, Zenon
<1>3. segments[c][k] = None /\ class_lock[c] = a /\ g \notin Given /\ k <= num_segments[c]
  BY <1>0, <1>1, <1>2, Zenon DEF TakenOut, Taken
<1>4. \A b \in Actors \ {a} : pc[b] \in Taken => my[b].c # c
  BY <1>0, <1>3, Zenon DEF TakenOut
<1>5. \A d \in Classes \ {c} : class_lock'[d] = class_lock[d]
  BY <1>0, <1>1, <1>2, Zenon DEF Types
<1>6. "idle" \notin Taken /\ "idle" \notin Marked /\ None # Gc /\ None \notin Segs
  BY AllocAssumption, Zenon DEF Taken, Marked, Segs
<1>7. CASE PutBack(c, g)
  <2>1. segments' = [segments EXCEPT ![c][k] = g] /\ UNCHANGED <<num_segments, free_segments>>
    BY <1>7, Zenon DEF PutBack
  <2>2. SetsPlace(a, "idle", Nowhere, c, k, g)
    BY <1>1, <1>2, <1>3, <1>4, <1>5, <1>6, <2>1, Zenon DEF SetsPlace
  <2> QED
    BY <1>1, <2>2, PlaceStep, Zenon
<1>8. CASE FreeSegment(c, g)
  <2>1. /\ free_segments' = Append(free_segments, g) /\ UNCHANGED segments
        /\ num_segments' = [num_segments EXCEPT ![c] = LastPlace(c)]
    BY <1>8, Zenon DEF FreeSegment
  <2>2. \A h : h \in Given' => h \in Given \/ h = g
    BY <1>0, <1>2, <2>1, GivenAppend, Zenon
  <2>3. num_segments'[c] = LastPlace(c) /\ \A d \in Classes \ {c} : num_segments'[d] = num_segments[d]
    BY <1>0, <1>2, <2>1, Zenon DEF Types
  <2>4. Held'
    <3> SUFFICES ASSUME NEW d \in Classes, NEW j \in 1 .. NSegs, segments[d][j] \in Segs
                 PROVE  /\ class[segments[d][j]] = d /\ idx[segments[d][j]] = j
                        /\ segments[d][j] <= blk_allocated /\ segments[d][j] \notin Given'
      BY <1>1, <2>1, Zenon DEF Held
    <3>1. /\ class[segments[d][j]] = d /\ idx[segments[d][j]] = j
          /\ segments[d][j] <= blk_allocated /\ segments[d][j] \notin Given
      BY <1>0, Zenon DEF Held
    <3>2. segments[d][j] # g
      BY <1>3, <1>6, <3>1, Zenon
    <3> QED
      BY <2>2, <3>1, <3>2, Zenon
  <2>5. Behind'
    <3> SUFFICES ASSUME NEW d \in Classes, NEW j \in 1 .. NSegs, j > num_segments'[d]
                 PROVE  segments[d][j] = None
      BY <2>1, Zenon DEF Behind
    <3>1. CASE d # c
      BY <1>0, <2>3, <3>1, Zenon DEF Behind
    <3>2. CASE d = c
      <4>0. num_segments[c] \in Nat
        BY <1>0, <1>2, Zenon DEF Types
      <4>1. /\ LastPlace(c) \in Nat /\ num_segments[c] \in Nat
            /\ \A i \in LastPlace(c) + 1 .. num_segments[c] : segments[c][i] = None
        <5>1. /\ LastPlace(c) \in 0 .. num_segments[c]
              /\ \A i \in LastPlace(c) + 1 .. num_segments[c] : segments[c][i] = None
          BY <1>2, Zenon DEF Trimmed
        <5> HIDE DEF c
        <5> QED
          BY <4>0, <5>1
      <4>2. j > num_segments[c] \/ j \in LastPlace(c) + 1 .. num_segments[c]
        BY <2>3, <3>2, <4>1
      <4> QED
        BY <1>0, <3>2, <4>1, <4>2, Zenon DEF Behind
    <3> QED
      BY <3>1, <3>2, Zenon
  <2>6. TakenOut'
    <3> SUFFICES ASSUME NEW b \in Actors, pc'[b] \in Taken
                 PROVE  /\ segments[my'[b].c][idx[my'[b].g]] = None /\ class_lock'[my'[b].c] = b
                        /\ my'[b].g \notin Given' /\ idx[my'[b].g] <= num_segments'[my'[b].c]
      BY <1>1, <2>1, Zenon DEF TakenOut
    <3>1. b # a /\ pc[b] \in Taken /\ my'[b] = my[b] /\ pc[b] # "idle"
      BY <1>1, <1>6, Zenon DEF Moves, Taken
    <3>2. /\ segments[my[b].c][idx[my[b].g]] = None /\ class_lock[my[b].c] = b
          /\ my[b].g \notin Given /\ idx[my[b].g] <= num_segments[my[b].c]
      BY <1>0, <3>1, Zenon DEF TakenOut
    <3>3. my[b].c # c /\ my[b].c \in Classes /\ class[my[b].g] = my[b].c
      BY <1>4, <3>1, CallFact, Zenon
    <3>4. my[b].g # g
      BY <3>3, Zenon
    <3> QED
      BY <1>5, <2>2, <2>3, <3>1, <3>2, <3>3, <3>4, Zenon
  <2>7. MarkedOut'
    <3> SUFFICES ASSUME pc'[Gc] \in Marked
                 PROVE  segments[my'[Gc].c][idx[my'[Gc].g]] = Gc /\ my'[Gc].g \notin Given'
      BY <1>1, <2>1, Zenon DEF MarkedOut
    <3>1. pc[Gc] \in Marked /\ my'[Gc] = my[Gc] /\ pc[Gc] # "idle"
      BY <1>1, <1>6, IsActor, Zenon DEF Moves, Marked
    <3>2. /\ segments[my[Gc].c][idx[my[Gc].g]] = Gc /\ my[Gc].g \notin Given
          /\ class[my[Gc].g] = my[Gc].c
      BY <1>0, <3>1, CallFact, IsActor, Zenon DEF MarkedOut
    <3>3. my[Gc].g # g
      BY <1>3, <1>6, <3>2, Zenon
    <3> QED
      BY <2>2, <3>1, <3>2, <3>3, Zenon
  <2> QED
    BY <2>4, <2>5, <2>6, <2>7, Zenon DEF InPlaces
<1> QED
  BY <1>1, <1>7, <1>8, Zenon

LEMMA NextInPlaces ==
    ASSUME AllocInv, Trimmed, Gc \notin MayFail, [Next]_vars PROVE InPlaces'
<1>1. Types /\ Control
  BY DEF AllocInv
<1> DEFINE Same == UNCHANGED <<class, idx, segments, num_segments, class_lock, free_segments, blk_allocated>>
<1>2. CASE Same /\ UNCHANGED <<pc, my>>
  <2>1. Given' = Given
    BY <1>2, Zenon DEF Given
  <2>2. Held' /\ Behind'
    BY <1>2, <2>1, Zenon DEF AllocInv, InPlaces, Held, Behind
  <2>3. TakenOut' /\ MarkedOut'
    BY <1>2, <2>1, Zenon DEF AllocInv, InPlaces, TakenOut, MarkedOut
  <2> QED
    BY <2>2, <2>3, Zenon DEF InPlaces
<1>3. ASSUME NEW a \in Actors, NEW l, NEW s, Moves(a, l, s), l \notin Taken, l \notin Marked, Same
      PROVE  InPlaces'
  BY <1>3, CallStep, Zenon
<1> HIDE DEF Same
<1>4. ASSUME NEW l \in Steps \ (Taken \cup Marked), NEW a \in Actors, NEW s, Moves(a, l, s), Same
      PROVE  InPlaces'
  BY <1>3, <1>4, Zenon
<1>5. {"idle", "lock", "recheck", "slot", "count", "got", "unlock", "own", "uncount", "freed",
       "shrink"} \subseteq Steps \ (Taken \cup Marked)
  BY Zenon DEF Steps, Taken, Marked, Locked
<1>6. ASSUME NEW t \in Threads, Taking(t) PROVE InPlaces'
  <2>1. ASSUME NEW c \in Classes, GetFreeSlab(t, c) \/ GetSegment(t, c) PROVE InPlaces'
    BY <1>1, <1>4, <1>5, <2>1, GetFreeSlabStep, GetSegmentStep, IsActor, Zenon
       DEF Same, Still, segs, classes, space
  <2>2. ASSUME NEW c \in Classes, GrowClass(t, c) PROVE InPlaces'
    BY <2>2, GrowPlaces, Zenon
  <2>3. CASE SegmentLock(t) \/ SegmentCheck(t)
    BY <1>1, <1>4, <1>5, <2>3, SegmentLockStep, SegmentCheckStep, IsActor, Zenon
       DEF Same, Still, segs, classes, space
  <2>4. CASE SlotAlloc(t) \/ SlotCount(t)
    BY <1>1, <1>4, <1>5, <2>4, SlotAllocStep, SlotCountStep, IsActor, Zenon
       DEF Same, classes, space
  <2>5. CASE SegmentUnlock(t)
    BY <1>1, <1>4, <1>5, <2>5, SegmentUnlockStep, IsActor, Zenon DEF Same, classes, space
  <2> QED
    BY <1>6, <2>1, <2>2, <2>3, <2>4, <2>5, Zenon DEF Taking
<1>7. ASSUME NEW t \in Threads, Insert(t) \/ Discard(t) \/ RemoveEntry(t) PROVE InPlaces'
  <2>1. CASE Insert(t) \/ Discard(t)
    BY <1>1, <1>4, <1>5, <2>1, InsertStep, DiscardStep, IsActor, Zenon DEF Same, segs, classes, space
  <2>2. CASE RemoveEntry(t)
    BY <1>2, <2>2, Zenon DEF RemoveEntry, Same, segs, space
  <2> QED
    BY <1>7, <2>1, <2>2, Zenon
<1>8. CASE Logged
  BY <1>1, <1>4, <1>5, <1>8, LoggedStep, IsActor, Zenon DEF Same, classes, space
<1>9. ASSUME NEW a \in Actors, Freeing(a) PROVE InPlaces'
  <2>1. CASE Uncount(a) \/ DeallocEnd(a)
    BY <1>1, <1>4, <1>5, <2>1, UncountStep, DeallocEndStep, Zenon DEF Same, segs, space
  <2>2. CASE ShrinkWait(a)
    <3>1. /\ pc[a] \in Taken /\ Moves(a, "decide", my[a]) /\ "decide" \notin Marked
          /\ UNCHANGED <<class, idx, segments, num_segments, class_lock, free_segments, blk_allocated>>
      BY <1>1, <2>2, ShrinkWaitStep, Zenon DEF Still, segs, classes, space, Taken, Marked
    <3> QED
      BY <3>1, CallStep, Zenon
  <2> QED
    BY <1>9, <2>1, <2>2, ShrinkPlaces, EndPlaces, Zenon DEF Freeing
<1>10. CASE Halted \/ UNCHANGED vars
  BY <1>2, <1>10, Zenon DEF Halted, vars, segs, classes, space, Same
<1> QED
  BY <1>6, <1>7, <1>8, <1>9, <1>10, CollectPlaces, Zenon DEF Next

LEMMA AloneStep ==
    ASSUME Alone, NEW a \in Actors, NEW l, NEW s, Moves(a, l, s), Given' \subseteq Given,
           l # "decide", l \in Inside => pc[a] \in Inside /\ s = my[a]
    PROVE  Alone'
<1>1. \A b \in Actors : pc'[b] = "decide" => pc[b] = "decide" /\ my'[b] = my[b]
  BY Zenon DEF Moves
<1>2. \A t \in Threads : pc'[t] \in Inside => pc[t] \in Inside /\ my'[t] = my[t]
  BY IsActor, Zenon DEF Moves
<1> QED
  BY <1>1, <1>2, Zenon DEF Alone

LEMMA CheckAlone == ASSUME AllocInv, NEW t \in Threads, SegmentCheck(t) PROVE Alone'
<1>0. Types /\ Alone /\ Held /\ TakenOut /\ t \in Actors
  BY IsActor DEF AllocInv, InPlaces
<1>1. /\ pc[t] = "recheck" /\ free_segments' = free_segments
      /\ \/ segments[my[t].c][idx[my[t].g]] = my[t].g /\ Moves(t, "slot", my[t])
         \/ Moves(t, "unlock", my[t])
  BY <1>0, SegmentCheckStep, Zenon DEF Still, space
<1>2. Given' = Given
  BY <1>1, Zenon DEF Given
<1>3. CASE Moves(t, "unlock", my[t])
  BY <1>0, <1>2, <1>3, AloneStep, Zenon DEF Inside
<1>4. CASE segments[my[t].c][idx[my[t].g]] = my[t].g /\ Moves(t, "slot", my[t])
  <2>1. /\ my[t].c \in Classes /\ idx[my[t].g] \in 1 .. NSegs /\ my[t].g \in Segs
        /\ class[my[t].g] = my[t].c
    BY <1>0, <1>1, CallFact, Zenon
  <2>2. my[t].g \notin Given /\ my[t].g # None
    BY <1>0, <1>4, <2>1, PlaceHeld, Zenon
  <2>3. ASSUME NEW b \in Actors, pc[b] = "decide" PROVE my[b].g # my[t].g
    <3>1. segments[my[b].c][idx[my[b].g]] = None /\ class[my[b].g] = my[b].c
      BY <1>0, <2>3, CallFact, Zenon DEF TakenOut, Taken
    <3> QED
      BY <1>4, <2>1, <2>2, <3>1, Zenon
  <2>4. \A b \in Actors : pc'[b] = "decide" => pc[b] = "decide" /\ my'[b] = my[b]
    BY <1>4, Zenon DEF Moves
  <2>5. my'[t] = my[t]
        /\ \A u \in Threads : pc'[u] \in Inside => u = t \/ (pc[u] \in Inside /\ my'[u] = my[u])
    BY <1>4, IsActor, Zenon DEF Moves
  <2> QED
    BY <1>0, <1>2, <2>2, <2>3, <2>4, <2>5, Zenon DEF Alone
<1> QED
  BY <1>1, <1>3, <1>4, Zenon

LEMMA WaitAlone == ASSUME AllocInv, Drained, NEW a \in Actors, ShrinkWait(a) PROVE Alone'
<1>0. Types /\ Alone
  BY DEF AllocInv
<1>1. pc[a] = "wait" /\ used[my[a].g] = 0 /\ Moves(a, "decide", my[a]) /\ free_segments' = free_segments
  BY <1>0, ShrinkWaitStep, Zenon DEF Still, space
<1>2. Given' = Given
  BY <1>1, Zenon DEF Given
<1>3. my[a].g \in Segs
  BY <1>1, CallFact, Zenon
<1>4. Users(my[a].g) = {}
  BY <1>1, <1>3, Zenon DEF Drained
<1>5. \A t \in Threads : pc[t] \in Inside => my[t].g # my[a].g
  BY <1>4, Zenon DEF Users, Inside, Locked
<1>6. my'[a] = my[a] /\ \A b \in Actors \ {a} : pc'[b] = pc[b] /\ my'[b] = my[b]
  BY <1>1, Zenon DEF Moves
<1>7. \A t \in Threads : pc'[t] \in Inside => pc[t] \in Inside /\ my'[t] = my[t]
  BY <1>1, IsActor, Zenon DEF Moves, Inside
<1> QED
  BY <1>0, <1>2, <1>5, <1>6, <1>7, Zenon DEF Alone

LEMMA EndAlone == ASSUME AllocInv, Gc \notin MayFail, NEW a \in Actors, ShrinkEnd(a) PROVE Alone'
<1>0. Types /\ Alone
  BY DEF AllocInv
<1>1. /\ pc[a] = "decide" /\ Moves(a, "idle", Nowhere)
      /\ FreeSegment(class[my[a].g], my[a].g) \/ PutBack(class[my[a].g], my[a].g)
  BY <1>0, ShrinkEndStep, Zenon
<1>2. my[a].g \in Segs
  BY <1>1, CallFact, Zenon
<1>3. CASE PutBack(class[my[a].g], my[a].g)
  <2>1. Given' = Given
    BY <1>3, Zenon DEF PutBack, Given
  <2> QED
    BY <1>0, <1>1, <2>1, AloneStep, Zenon DEF Inside
<1>4. CASE FreeSegment(class[my[a].g], my[a].g)
  <2>1. \A h : h \in Given' => h \in Given \/ h = my[a].g
    BY <1>0, <1>2, <1>4, GivenAppend, Zenon DEF FreeSegment
  <2>2. \A b \in Actors : pc'[b] = "decide" => pc[b] = "decide" /\ my'[b] = my[b]
    BY <1>1, Zenon DEF Moves
  <2>3. \A t \in Threads : pc'[t] \in Inside => pc[t] \in Inside /\ my'[t] = my[t]
    BY <1>1, IsActor, Zenon DEF Moves, Inside
  <2> QED
    BY <1>0, <1>1, <2>1, <2>2, <2>3, Zenon DEF Alone
<1> QED
  BY <1>1, <1>3, <1>4, Zenon

LEMMA NextAlone == ASSUME AllocInv, Drained, Gc \notin MayFail, [Next]_vars PROVE Alone'
<1>1. Types /\ Control /\ Assigned /\ Alone
  BY DEF AllocInv
<1>2. CASE Given' \subseteq Given /\ UNCHANGED <<pc, my>>
  BY <1>1, <1>2, Zenon DEF Alone
<1>3. ASSUME NEW a \in Actors, NEW l, NEW s, Moves(a, l, s), UNCHANGED free_segments,
             l # "decide", l \in Inside => pc[a] \in Inside /\ s = my[a]
      PROVE  Alone'
  <2>1. Given' = Given
    BY <1>3, Zenon DEF Given
  <2> QED
    BY <1>1, <1>3, <2>1, AloneStep, Zenon
<1> DEFINE Outside == {"idle", "lock", "recheck", "unlock", "own", "uncount", "freed", "shrink",
                       "wait", "mark", "scan", "gcshrink", "out"}
<1>4. ASSUME NEW l \in Outside, NEW a \in Actors, NEW s, Moves(a, l, s), UNCHANGED free_segments
      PROVE  Alone'
  BY <1>3, <1>4, Zenon DEF Inside
<1>5. CASE UNCHANGED <<free_segments, pc, my>>
  BY <1>1, <1>5, Zenon DEF Alone, Given
<1>6. ASSUME NEW t \in Threads, Taking(t) PROVE Alone'
  <2>1. ASSUME NEW c \in Classes, GetFreeSlab(t, c) \/ GetSegment(t, c) PROVE Alone'
    BY <1>1, <1>4, <2>1, GetFreeSlabStep, GetSegmentStep, IsActor, Zenon DEF Still, space
  <2>2. ASSUME NEW c \in Classes, GrowClass(t, c) PROVE Alone'
    <3>1. UNCHANGED <<pc, my>> /\ (GrowFails \/ Grown(c))
      BY <1>1, <2>2, GrowClassStep, Zenon
    <3>2. GrowFails => Given' \subseteq Given
      BY <1>1, GivenPop, Zenon DEF GrowFails
    <3>3. Grown(c) => Given' = Given
      BY Zenon DEF Grown, Given
    <3> QED
      BY <1>2, <3>1, <3>2, <3>3, Zenon
  <2>3. CASE SegmentLock(t)
    BY <1>1, <1>4, <2>3, SegmentLockStep, IsActor, Zenon DEF space
  <2>4. CASE SlotAlloc(t) \/ SlotCount(t)
    <3>1. pc[t] \in Inside /\ UNCHANGED free_segments
      BY <1>1, <2>4, SlotAllocStep, SlotCountStep, Zenon DEF Inside, space
    <3>2. Moves(t, "count", my[t]) \/ Moves(t, "unlock", my[t]) \/ Moves(t, "got", my[t])
      BY <1>1, <2>4, SlotAllocStep, SlotCountStep, Zenon
    <3>3. "count" # "decide" /\ "unlock" # "decide" /\ "got" # "decide"
      OBVIOUS
    <3> QED
      BY <1>3, <3>1, <3>2, <3>3, IsActor, Zenon
  <2>5. CASE SegmentUnlock(t)
    BY <1>1, <1>4, <2>5, SegmentUnlockStep, IsActor, Zenon DEF space
  <2> QED
    BY <1>6, <2>1, <2>2, <2>3, <2>4, <2>5, CheckAlone, Zenon DEF Taking
<1>7. ASSUME NEW t \in Threads, Insert(t) \/ Discard(t) \/ RemoveEntry(t) PROVE Alone'
  <2>1. CASE Insert(t) \/ Discard(t)
    BY <1>1, <1>4, <2>1, InsertStep, DiscardStep, IsActor, Zenon DEF space
  <2>2. CASE RemoveEntry(t)
    BY <1>5, <2>2, Zenon DEF RemoveEntry, space
  <2> QED
    BY <1>7, <2>1, <2>2
<1>8. CASE Logged
  BY <1>1, <1>4, <1>8, LoggedStep, IsActor, Zenon DEF space
<1>9. ASSUME NEW a \in Actors, Freeing(a) PROVE Alone'
  <2>1. CASE Uncount(a) \/ DeallocEnd(a) \/ Shrink(a)
    BY <1>1, <1>4, <2>1, UncountStep, DeallocEndStep, ShrinkStep, Zenon DEF space
  <2> QED
    BY <1>9, <2>1, WaitAlone, EndAlone, Zenon DEF Freeing
<1>10. CASE Collecting
  <2>1. CASE GcChoose \/ GcMark \/ GcScan
    BY <1>1, <1>4, <1>5, <2>1, GcChooseStep, GcMarkStep, GcScanStep, IsActor, Zenon DEF Still, space
  <2>2. CASE GcShrink \/ GcOut
    BY <1>1, <1>4, <2>2, GcShrinkStep, GcOutStep, IsActor, Zenon DEF space
  <2> QED
    BY <1>10, <2>1, <2>2, Zenon DEF Collecting
<1>11. CASE Halted \/ UNCHANGED vars
  BY <1>5, <1>11, Zenon DEF Halted, vars, space
<1> QED
  BY <1>6, <1>7, <1>8, <1>9, <1>10, <1>11, Zenon DEF Next
-----------------------------------------------------------------------------
(* No slab is used twice.                                                   *)

Sound(s) == class[s.g] = s.c /\ s.m \in mos_bitmap[s.g] /\ s.g \notin Given

LEMMA ApartFact ==
    SlabsApart <=> /\ objs \cap dead = {}
                   /\ \A a \in Holders : my[a] \notin objs \cup dead
                   /\ \A a, b \in Holders : my[a] = my[b] => a = b
                   /\ \A s \in objs \cup dead : Sound(s)
                   /\ \A a \in Holders : Sound(my[a])
<1> DEFINE Owned == objs \cup dead \cup {my[a] : a \in Holders}
<1>1. \A s : s \in Owned <=> s \in objs \cup dead \/ \E a \in Holders : s = my[a]
  BY Zenon
<1>2. (\A s \in Owned : Sound(s)) <=> /\ \A s \in objs \cup dead : Sound(s)
                                      /\ \A a \in Holders : Sound(my[a])
  <2> HIDE DEF Owned
  <2> QED
    BY <1>1, Zenon
<1>3. SlabsApart <=> /\ objs \cap dead = {}
                     /\ \A a \in Holders : my[a] \notin objs \cup dead
                     /\ \A a, b \in Holders : my[a] = my[b] => a = b
                     /\ \A s \in Owned : Sound(s)
  <2>1. SlabsApart <=> /\ objs \cap dead = {}
                       /\ \A a \in Holders : my[a] \notin objs \cup dead
                                             /\ \A b \in Holders : my[a] = my[b] => a = b
                       /\ \A s \in Owned : Sound(s)
    BY DEF SlabsApart, Sound, Given
  <2> HIDE DEF Owned
  <2> QED
    BY <2>1, Zenon
<1> HIDE DEF Owned
<1> QED
  BY <1>2, <1>3, Zenon

LEMMA ApartNext ==
    ASSUME objs' \cap dead' = {},
           \A a \in Holders' : my'[a] \notin objs' \cup dead',
           \A a, b \in Holders' : my'[a] = my'[b] => a = b,
           \A s \in objs' \cup dead' : Sound(s)',
           \A a \in Holders' : Sound(my[a])'
    PROVE  SlabsApart'
<1>1. \A a \in Holders' : my'[a] \notin objs' \cup dead'
                          /\ \A b \in Holders' : my'[a] = my'[b] => a = b
  BY Zenon
<1>2. ASSUME NEW s \in (objs \cup dead \cup {my[a] : a \in Holders})'
      PROVE  /\ class'[s.g] = s.c /\ s.m \in mos_bitmap'[s.g]
             /\ s.g \notin Range(free_segments)'
  <2>1. CASE s \in objs' \cup dead'
    BY <2>1, Zenon DEF Sound, Given
  <2>2. CASE s \in {my'[a] : a \in Holders'}
    <3>1. PICK a \in Holders' : s = my'[a]
      BY <2>2, Zenon
    <3> QED
      BY <3>1, Zenon DEF Sound, Given
  <2> QED
    BY <1>2, <2>1, <2>2, Zenon
<1> QED
  BY <1>1, <1>2, Zenon DEF SlabsApart

LEMMA HolderFact == \A a \in Actors : a \in Holders <=> pc[a] \in {"count", "got", "own"}
BY Zenon DEF Holders

LEMMA SlabEq ==
    ASSUME NEW s \in Slab, NEW r \in Slab, s.c = r.c, s.g = r.g, s.m = r.m PROVE s = r
BY DEF Slab

LEMMA OwnedFact ==
    ASSUME AllocInv
    PROVE  /\ \A s \in objs \cup dead : s \in Slab /\ Known(s) /\ Sound(s)
           /\ \A a \in Holders : a \in Threads /\ my[a] \in Slab /\ Known(my[a]) /\ Sound(my[a])
<1>1. SlabsApart /\ Types /\ Control /\ AllKnown
  BY DEF AllocInv
<1>2. ASSUME NEW a \in Holders PROVE a \in Threads /\ my[a] \in Slab /\ Known(my[a])
  <2>1. a \in Actors /\ pc[a] \in {"count", "got", "own"}
    BY DEF Holders
  <2>2. a \in Threads
    BY <1>1, <2>1, Zenon DEF Control, Actors, LgwrSteps, GcSteps, Taken, Marked
  <2> QED
    BY <1>1, <2>1, <2>2, IsActor, Zenon DEF Control, AllKnown
<1>3. \A s \in objs \cup dead : s \in Slab /\ Known(s)
  BY <1>1, Zenon DEF Types, AllKnown
<1> QED
  BY <1>1, <1>2, <1>3, ApartFact, Zenon

(* Nobody gets a slab.                                                      *)
LEMMA StillApart ==
    ASSUME SlabsApart, UNCHANGED <<objs, dead>>,
           \A b \in Actors : pc'[b] \in {"count", "got", "own"} =>
               pc[b] \in {"count", "got", "own"} /\ my'[b] = my[b] /\ Sound(my[b])',
           \A s \in objs \cup dead : Sound(s)'
    PROVE  SlabsApart'
<1>1. \A b \in Holders' : b \in Holders /\ my'[b] = my[b] /\ Sound(my[b])'
  BY Zenon DEF Holders
<1>2. /\ objs \cap dead = {}
      /\ \A a \in Holders : my[a] \notin objs \cup dead
      /\ \A a, b \in Holders : my[a] = my[b] => a = b
  BY ApartFact, Zenon
<1>3. /\ objs' \cap dead' = {}
      /\ \A a \in Holders' : my'[a] \notin objs' \cup dead'
      /\ \A a, b \in Holders' : my'[a] = my'[b] => a = b
  BY <1>1, <1>2, Zenon
<1>4. \A s \in objs' \cup dead' : Sound(s)'
  BY Zenon DEF Sound
<1>5. \A a \in Holders' : Sound(my[a])'
  BY <1>1, Zenon
<1> QED
  BY <1>3, <1>4, <1>5, ApartNext, Zenon

LEMMA MoveApart ==
    ASSUME AllocInv, NEW a \in Actors, NEW l, NEW s, Moves(a, l, s),
           l \in {"count", "got", "own"} => pc[a] \in {"count", "got", "own"} /\ s = my[a],
           UNCHANGED <<objs, dead, class, mos_bitmap, free_segments>>
    PROVE  SlabsApart'
<1>1. Given' = Given
  BY DEF Given
<1>2. \A b \in Actors : pc'[b] \in {"count", "got", "own"} =>
        pc[b] \in {"count", "got", "own"} /\ my'[b] = my[b]
  BY Zenon DEF Moves
<1>3. /\ \A r \in objs \cup dead : Sound(r)
      /\ \A b \in Actors : pc[b] \in {"count", "got", "own"} => Sound(my[b])
  BY OwnedFact, HolderFact, Zenon
<1>4. /\ \A r \in objs \cup dead : Sound(r)'
      /\ \A b \in Actors : pc'[b] \in {"count", "got", "own"} => Sound(my[b])'
  BY <1>1, <1>2, <1>3, Zenon DEF Sound
<1> QED
  BY <1>2, <1>4, StillApart, Zenon DEF AllocInv

(* The bit of a slab that a thread takes was clear, so that nobody has it.  *)
LEMMA AllocApart == ASSUME AllocInv, NEW t \in Threads, SlotAlloc(t) PROVE SlabsApart'
<1>0. Types /\ SlabsApart /\ Alone /\ t \in Actors
  BY IsActor, Zenon DEF AllocInv
<1>1. /\ pc[t] = "slot" /\ UNCHANGED <<class, free_segments, objs, dead>>
      /\ mos_bitmap' = [mos_bitmap EXCEPT ![my[t].g] = @ \cup {my[t].m}]
      /\ \/ my[t].m \notin mos_bitmap[my[t].g] /\ Moves(t, "count", my[t])
         \/ Moves(t, "unlock", my[t])
  BY <1>0, SlotAllocStep, Zenon DEF space, slabs
<1>2. Given' = Given
  BY <1>1, Zenon DEF Given
<1>3. my[t].g \in Segs /\ class[my[t].g] = my[t].c
  BY <1>0, <1>1, CallFact, Zenon
<1>4. \A s : s.g \in Segs /\ Sound(s) => Sound(s)'
  BY <1>0, <1>1, <1>2, <1>3, Zenon DEF Types, Sound
<1>5. my[t].g \notin Given /\ my[t].m \in mos_bitmap'[my[t].g]
  BY <1>0, <1>1, <1>3, Zenon DEF Alone, Inside, Types
<1>6. /\ \A s \in objs \cup dead : s.g \in Segs /\ Sound(s)
      /\ \A a \in Holders : my[a].g \in Segs /\ Sound(my[a])
  BY OwnedFact, Zenon DEF Slab
<1>7. CASE Moves(t, "unlock", my[t])
  <2>1. \A b \in Actors : pc'[b] \in {"count", "got", "own"} =>
          pc[b] \in {"count", "got", "own"} /\ my'[b] = my[b]
    BY <1>7, Zenon DEF Moves
  <2>2. \A s \in objs \cup dead : Sound(s)'
    BY <1>4, <1>6, Zenon
  <2>3. \A b \in Actors : pc'[b] \in {"count", "got", "own"} => Sound(my[b])'
    BY <1>4, <1>6, <2>1, HolderFact, Zenon DEF Sound
  <2> QED
    BY <1>0, <1>1, <2>1, <2>2, <2>3, StillApart, Zenon
<1>8. CASE my[t].m \notin mos_bitmap[my[t].g] /\ Moves(t, "count", my[t])
  <2>1. my'[t] = my[t] /\ \A a \in Holders' : a = t \/ (a \in Holders /\ my'[a] = my[a])
    BY <1>8, Zenon DEF Moves, Holders
  <2>2. /\ \A s \in objs \cup dead : s # my[t]
        /\ \A a \in Holders : my[a] # my[t]
    BY <1>6, <1>8, Zenon DEF Sound
  <2>3. /\ objs \cap dead = {} /\ \A a \in Holders : my[a] \notin objs \cup dead
        /\ \A a, b \in Holders : my[a] = my[b] => a = b
    BY <1>0, ApartFact, Zenon
  <2>4. /\ objs' \cap dead' = {} /\ \A a \in Holders' : my'[a] \notin objs' \cup dead'
        /\ \A a, b \in Holders' : my'[a] = my'[b] => a = b
    <3>1. ASSUME NEW a \in Holders' PROVE my'[a] \notin objs \cup dead
      BY <2>1, <2>2, <2>3, Zenon
    <3>2. ASSUME NEW a \in Holders', NEW b \in Holders', my'[a] = my'[b] PROVE a = b
      BY <2>1, <2>2, <2>3, <3>2, Zenon
    <3> QED
      BY <1>1, <2>3, <3>1, <3>2, Zenon
  <2>5. \A s \in objs' \cup dead' : Sound(s)'
    BY <1>1, <1>4, <1>6, Zenon
  <2>6. \A a \in Holders' : Sound(my[a])'
    <3> SUFFICES ASSUME NEW a \in Holders'
                 PROVE  /\ class'[my'[a].g] = my'[a].c /\ my'[a].m \in mos_bitmap'[my'[a].g]
                        /\ my'[a].g \notin Given'
      BY Zenon DEF Sound
    <3>1. CASE a = t
      BY <1>1, <1>2, <1>3, <1>5, <2>1, <3>1, Zenon
    <3>2. CASE a \in Holders /\ my'[a] = my[a]
      BY <1>4, <1>6, <3>2, Zenon DEF Sound
    <3> QED
      BY <2>1, <3>1, <3>2, Zenon
  <2> QED
    BY <2>4, <2>5, <2>6, ApartNext, Zenon
<1> QED
  BY <1>1, <1>7, <1>8, Zenon

(* A freed slab was nobody else's: clearing its bit touches no other.       *)
LEMMA OtherBit ==
    ASSUME AllocInv, NEW s \in Slab, class[s.g] = s.c,
           mos_bitmap' = [mos_bitmap EXCEPT ![s.g] = @ \ {s.m}], UNCHANGED <<class, free_segments>>,
           NEW r \in Slab, r # s, Sound(r)
    PROVE  Sound(r)'
<1>1. Given' = Given
  BY Zenon DEF Given
<1>2. r.g \in Segs /\ s.g \in Segs /\ mos_bitmap \in [Segs -> {None} \cup SUBSET Nat]
  BY Zenon DEF Slab, AllocInv, Types
<1>3. ~(r.g = s.g /\ r.m = s.m)
  BY SlabEq, Zenon DEF Sound
<1>4. r.m \in mos_bitmap'[r.g]
  BY <1>2, <1>3, Zenon DEF Sound
<1> QED
  BY <1>1, <1>4, Zenon DEF Sound

LEMMA DiscardApart == ASSUME AllocInv, NEW t \in Threads, Discard(t) PROVE SlabsApart'
<1>0. Types /\ SlabsApart /\ t \in Actors
  BY IsActor, Zenon DEF AllocInv
<1>1. /\ pc[t] = "own" /\ Moves(t, "uncount", my[t]) /\ UNCHANGED <<class, free_segments, objs, dead>>
      /\ mos_bitmap' = [mos_bitmap EXCEPT ![my[t].g] = @ \ {my[t].m}]
  BY <1>0, DiscardStep, Zenon DEF space, slabs
<1>2. t \in Holders /\ my[t] \in Slab /\ class[my[t].g] = my[t].c
  BY <1>0, <1>1, HolderFact, OwnedFact, CallFact, Zenon
<1>3. /\ \A s \in objs \cup dead : s # my[t] /\ s \in Slab /\ Sound(s)
      /\ \A a \in Holders : my[a] \in Slab /\ Sound(my[a]) /\ (a # t => my[a] # my[t])
  BY <1>0, <1>2, ApartFact, OwnedFact, Zenon
<1>4. \A b \in Actors : pc'[b] \in {"count", "got", "own"} =>
        b # t /\ pc[b] \in {"count", "got", "own"} /\ my'[b] = my[b]
  BY <1>1, Zenon DEF Moves
<1>5. \A s \in objs \cup dead : Sound(s)'
  BY <1>1, <1>2, <1>3, OtherBit, Zenon
<1>6. ASSUME NEW b \in Actors, pc'[b] \in {"count", "got", "own"} PROVE Sound(my[b])'
  <2>1. my[b] \in Slab /\ my[b] # my[t] /\ Sound(my[b]) /\ my'[b] = my[b]
    BY <1>3, <1>4, <1>6, HolderFact, Zenon
  <2>2. PICK r \in Slab : r = my[b]
    BY <2>1, Zenon
  <2>3. Sound(r)'
    BY <1>1, <1>2, <2>1, <2>2, OtherBit, Zenon
  <2> QED
    BY <2>1, <2>2, <2>3, Zenon DEF Sound
<1> QED
  BY <1>0, <1>1, <1>4, <1>5, <1>6, StillApart, Zenon

LEMMA LoggedApart == ASSUME AllocInv, Logged PROVE SlabsApart'
<1>0. Types /\ SlabsApart
  BY Zenon DEF AllocInv
<1>1. /\ pc[Lgwr] = "idle" /\ UNCHANGED <<class, free_segments, objs>>
      /\ \E s \in dead : /\ dead' = dead \ {s} /\ Moves(Lgwr, "uncount", s)
                         /\ mos_bitmap' = [mos_bitmap EXCEPT ![s.g] = @ \ {s.m}]
  BY <1>0, LoggedStep, Zenon DEF space
<1>2. PICK s \in dead : /\ dead' = dead \ {s} /\ Moves(Lgwr, "uncount", s)
                        /\ mos_bitmap' = [mos_bitmap EXCEPT ![s.g] = @ \ {s.m}]
  BY <1>1, Zenon
<1>3. /\ objs \cap dead = {} /\ \A a \in Holders : my[a] \notin objs \cup dead
      /\ \A a, b \in Holders : my[a] = my[b] => a = b
  BY <1>0, ApartFact, Zenon
<1>4. s \in Slab /\ class[s.g] = s.c
  BY OwnedFact, Zenon DEF Sound
<1>5. \A b \in Holders' : b \in Holders /\ my'[b] = my[b]
  BY <1>2, Zenon DEF Holders, Moves
<1>6. /\ objs' \cap dead' = {} /\ \A a \in Holders' : my'[a] \notin objs' \cup dead'
      /\ \A a, b \in Holders' : my'[a] = my'[b] => a = b
  BY <1>1, <1>2, <1>3, <1>5, Zenon
<1>7. \A r \in objs' \cup dead' : Sound(r)'
  <2>1. \A r \in objs' \cup dead' : r # s /\ r \in objs \cup dead
    BY <1>1, <1>2, <1>3, Zenon
  <2>2. \A r \in objs' \cup dead' : r # s /\ r \in Slab /\ Sound(r)
    BY <2>1, OwnedFact, Zenon
  <2> QED
    BY <1>1, <1>2, <1>4, <2>2, OtherBit, Zenon
<1>8. ASSUME NEW b \in Holders' PROVE Sound(my[b])'
  <2>1. my[b] \in Slab /\ my[b] # s /\ Sound(my[b]) /\ my'[b] = my[b]
    BY <1>3, <1>5, <1>8, OwnedFact, Zenon
  <2>2. PICK r \in Slab : r = my[b]
    BY <2>1, Zenon
  <2>3. Sound(r)'
    BY <1>1, <1>2, <1>4, <2>1, <2>2, OtherBit, Zenon
  <2> QED
    BY <2>1, <2>2, <2>3, Zenon DEF Sound
<1> QED
  BY <1>6, <1>7, <1>8, ApartNext, Zenon

LEMMA InsertApart == ASSUME AllocInv, NEW t \in Threads, Insert(t) PROVE SlabsApart'
<1>0. Types /\ SlabsApart /\ t \in Actors
  BY IsActor DEF AllocInv
<1>1. /\ pc[t] = "own" /\ Moves(t, "idle", Nowhere) /\ objs' = objs \cup {my[t]}
      /\ UNCHANGED <<class, mos_bitmap, free_segments, dead>>
  BY <1>0, InsertStep, Zenon DEF segs, space
<1>2. t \in Holders /\ Given' = Given
  BY <1>0, <1>1, HolderFact, Zenon DEF Given
<1>3. /\ objs \cap dead = {} /\ \A a \in Holders : my[a] \notin objs \cup dead
      /\ \A a, b \in Holders : my[a] = my[b] => a = b
  BY <1>0, ApartFact, Zenon
<1>4. \A b \in Holders' : b \in Holders /\ my'[b] = my[b] /\ b # t
  BY <1>1, Zenon DEF Holders, Moves
<1>5. /\ objs' \cap dead' = {} /\ \A a \in Holders' : my'[a] \notin objs' \cup dead'
      /\ \A a, b \in Holders' : my'[a] = my'[b] => a = b
  <2>1. objs' \cap dead' = {}
    BY <1>1, <1>2, <1>3, Zenon
  <2>2. \A a \in Holders' : my'[a] \notin objs' \cup dead'
    BY <1>1, <1>2, <1>3, <1>4, Zenon
  <2> QED
    BY <1>3, <1>4, <2>1, <2>2, Zenon
<1>6. /\ \A r \in objs \cup dead : Sound(r)
      /\ \A a \in Holders : Sound(my[a])
  BY OwnedFact, Zenon
<1>7. \A r : Sound(r) => Sound(r)'
  BY <1>1, <1>2, Zenon DEF Sound
<1>8. \A r \in objs' \cup dead' : Sound(r)'
  <2>1. \A r \in objs' \cup dead' : r \in objs \cup dead \/ r = my[t]
    BY <1>1, Zenon
  <2>2. \A r \in objs' \cup dead' : Sound(r)
    BY <1>2, <1>6, <2>1, Zenon
  <2> QED
    BY <1>7, <2>2, Zenon
<1>9. \A a \in Holders' : Sound(my[a])'
  BY <1>1, <1>2, <1>4, <1>6, Zenon DEF Sound
<1> QED
  BY <1>5, <1>8, <1>9, ApartNext, Zenon

LEMMA RemoveApart == ASSUME AllocInv, NEW t \in Threads, RemoveEntry(t) PROVE SlabsApart'
<1>0. SlabsApart
  BY Zenon DEF AllocInv
<1>1. PICK s \in objs : objs' = objs \ {s} /\ dead' = dead \cup {s}
  BY Zenon DEF RemoveEntry
<1>2. UNCHANGED <<class, mos_bitmap, free_segments, pc, my>>
  BY Zenon DEF RemoveEntry, segs, space
<1>3. Given' = Given /\ Holders' = Holders
  BY <1>2, Zenon DEF Given, Holders
<1>4. /\ objs \cap dead = {} /\ \A a \in Holders : my[a] \notin objs \cup dead
      /\ \A a, b \in Holders : my[a] = my[b] => a = b
  BY <1>0, ApartFact, Zenon
<1>5. objs' \cap dead' = {} /\ objs' \cup dead' = objs \cup dead
  BY <1>1, <1>4, Zenon
<1>6. /\ \A r \in objs' \cup dead' : Sound(r)'
      /\ \A a \in Holders' : Sound(my[a])'
  BY <1>2, <1>3, <1>5, OwnedFact, Zenon DEF Sound
<1> QED
  BY <1>2, <1>3, <1>4, <1>5, <1>6, ApartNext, Zenon

LEMMA GrowApart ==
    ASSUME AllocInv, NEW t \in Threads, NEW c \in Classes, GrowClass(t, c) PROVE SlabsApart'
<1>0. Types /\ Assigned /\ SlabsApart
  BY DEF AllocInv
<1>1. UNCHANGED <<objs, dead, pc, my>> /\ (GrowFails \/ Grown(c))
  BY <1>0, GrowClassStep, Zenon DEF slabs
<1>2. ASSUME NEW s, Known(s), s.g \in Segs, Sound(s) PROVE Sound(s)'
  <2>1. CASE GrowFails
    <3>1. Given' \subseteq Given /\ UNCHANGED <<class, mos_bitmap>>
      BY <1>0, <2>1, GivenPop, Zenon DEF GrowFails
    <3> QED
      BY <1>2, <3>1, Zenon DEF Sound
  <2>2. CASE Grown(c)
    <3>1. /\ Given' = Given
          /\ \A h \in Segs \ {blk_allocated + 1} : class'[h] = class[h] /\ mos_bitmap'[h] = mos_bitmap[h]
      BY <1>0, <2>2, GrownFact, Zenon
    <3>2. s.g # blk_allocated + 1
      BY <1>0, <1>2, AllocAssumption DEF Known, Types
    <3> QED
      BY <1>2, <3>1, <3>2, Zenon DEF Sound
  <2> QED
    BY <1>1, <2>1, <2>2, Zenon
<1>3. \A s \in objs \cup dead : Sound(s)'
  <2>1. \A s \in objs \cup dead : Known(s) /\ s.g \in Segs /\ Sound(s)
    BY OwnedFact DEF Slab
  <2> QED
    BY <1>2, <2>1, Zenon
<1>4. ASSUME NEW a \in Holders PROVE Sound(my[a])'
  <2>1. Known(my[a]) /\ my[a].g \in Segs /\ Sound(my[a])
    BY <1>4, OwnedFact DEF Slab
  <2>2. PICK s : s = my[a]
    OBVIOUS
  <2>3. Sound(s)'
    BY <1>2, <2>1, <2>2, Zenon
  <2> QED
    BY <1>1, <2>2, <2>3, Zenon DEF Sound
<1> QED
  BY <1>0, <1>1, <1>3, <1>4, HolderFact, StillApart, Zenon

LEMMA EndApart ==
    ASSUME AllocInv, Emptied, Gc \notin MayFail, NEW a \in Actors, ShrinkEnd(a) PROVE SlabsApart'
<1>0. Types /\ SlabsApart
  BY DEF AllocInv
<1>1. /\ pc[a] = "decide" /\ Moves(a, "idle", Nowhere) /\ UNCHANGED <<class, mos_bitmap, objs, dead>>
      /\ \/ used_slabs[my[a].g] = 0 /\ FreeSegment(class[my[a].g], my[a].g)
         \/ PutBack(class[my[a].g], my[a].g)
  BY <1>0, ShrinkEndStep, Zenon DEF segs, slabs
<1>2. my[a].g \in Segs
  BY <1>1, CallFact, Zenon
<1>3. CASE PutBack(class[my[a].g], my[a].g)
  <2>1. UNCHANGED free_segments
    BY <1>3, Zenon DEF PutBack
  <2> QED
    BY <1>1, <2>1, MoveApart, Zenon
<1>4. CASE used_slabs[my[a].g] = 0 /\ FreeSegment(class[my[a].g], my[a].g)
  <2>1. \A h : h \in Given' => h \in Given \/ h = my[a].g
    BY <1>0, <1>2, <1>4, GivenAppend, Zenon DEF FreeSegment
  <2>2. mos_bitmap[my[a].g] = {}
    BY <1>1, <1>4, Zenon DEF Emptied
  <2>3. \A s : Sound(s) => Sound(s)'
    <3> SUFFICES ASSUME NEW s, Sound(s)
                 PROVE  class[s.g] = s.c /\ s.m \in mos_bitmap[s.g] /\ s.g \notin Given'
      BY <1>1, Zenon DEF Sound
    <3>1. class[s.g] = s.c /\ s.m \in mos_bitmap[s.g] /\ s.g \notin Given
      BY DEF Sound
    <3>2. s.g # my[a].g
      BY <2>2, <3>1, Zenon
    <3> QED
      BY <2>1, <3>1, <3>2, Zenon
  <2>4. \A b \in Actors : pc'[b] \in {"count", "got", "own"} =>
          pc[b] \in {"count", "got", "own"} /\ my'[b] = my[b]
    BY <1>1, Zenon DEF Moves
  <2>5. \A s \in objs \cup dead : Sound(s)'
    BY <2>3, OwnedFact, Zenon
  <2>6. \A b \in Actors : pc'[b] \in {"count", "got", "own"} => Sound(my[b])'
    BY <2>3, <2>4, HolderFact, OwnedFact, Zenon DEF Sound
  <2> QED
    BY <1>0, <1>1, <2>4, <2>5, <2>6, StillApart, Zenon
<1> QED
  BY <1>1, <1>3, <1>4, Zenon

LEMMA NextApart == ASSUME AllocInv, Emptied, Gc \notin MayFail, [Next]_vars PROVE SlabsApart'
<1>1. Types /\ SlabsApart
  BY DEF AllocInv
<1> DEFINE Same == UNCHANGED <<objs, dead, class, mos_bitmap, free_segments>>
<1>2. CASE Same /\ UNCHANGED <<pc, my>>
  <2>1. Holders' = Holders
    BY <1>2, Zenon DEF Holders
  <2> QED
    BY <1>1, <1>2, <2>1, Zenon DEF SlabsApart
<1>3. ASSUME NEW a \in Actors, NEW l, NEW s, Moves(a, l, s), l \notin {"count", "got", "own"}, Same
      PROVE  SlabsApart'
  BY <1>3, MoveApart, Zenon
<1> HIDE DEF Same
<1> DEFINE Others == {"idle", "lock", "recheck", "slot", "unlock", "freed", "shrink",
                      "wait", "decide", "mark", "scan", "gcshrink", "out"}
<1>4. ASSUME NEW l \in Others, NEW a \in Actors, NEW s, Moves(a, l, s), Same PROVE SlabsApart'
  BY <1>3, <1>4
<1>5. ASSUME NEW t \in Threads, Taking(t) PROVE SlabsApart'
  <2>1. ASSUME NEW c \in Classes, GetFreeSlab(t, c) \/ GetSegment(t, c) PROVE SlabsApart'
    BY <1>1, <1>4, <2>1, GetFreeSlabStep, GetSegmentStep, IsActor, Zenon
       DEF Same, Still, segs, space, slabs
  <2>2. CASE SegmentLock(t) \/ SegmentCheck(t)
    BY <1>1, <1>4, <2>2, SegmentLockStep, SegmentCheckStep, IsActor, Zenon
       DEF Same, Still, segs, space, slabs
  <2>3. CASE SlotCount(t)
    <3>1. /\ pc[t] = "count" /\ Moves(t, "got", my[t])
          /\ UNCHANGED <<objs, dead, class, mos_bitmap, free_segments>>
      BY <1>1, <2>3, SlotCountStep, Zenon DEF space, slabs
    <3> QED
      BY <3>1, MoveApart, IsActor, Zenon
  <2>4. CASE SegmentUnlock(t)
    <3>1. UNCHANGED <<objs, dead, class, mos_bitmap, free_segments>>
      BY <1>1, <2>4, SegmentUnlockStep, Zenon DEF space, slabs
    <3>2. (pc[t] = "got" /\ Moves(t, "own", my[t])) \/ Moves(t, "idle", Nowhere)
      BY <1>1, <2>4, SegmentUnlockStep, Zenon
    <3> QED
      BY <3>1, <3>2, MoveApart, IsActor, Zenon
  <2> QED
    BY <1>5, <2>1, <2>2, <2>3, <2>4, GrowApart, AllocApart, Zenon DEF Taking
<1>6. ASSUME NEW a \in Actors, Freeing(a) PROVE SlabsApart'
  <2>1. CASE Uncount(a) \/ DeallocEnd(a)
    BY <1>1, <1>4, <2>1, UncountStep, DeallocEndStep, Zenon DEF Same, segs, space, slabs
  <2>2. CASE Shrink(a) \/ ShrinkWait(a)
    BY <1>1, <1>4, <2>2, ShrinkStep, ShrinkWaitStep, Zenon DEF Same, Still, segs, space, slabs
  <2> QED
    BY <1>6, <2>1, <2>2, EndApart, Zenon DEF Freeing
<1>7. CASE Collecting
  <2>1. CASE GcChoose \/ GcMark \/ GcScan
    BY <1>1, <1>2, <1>4, <2>1, GcChooseStep, GcMarkStep, GcScanStep, IsActor, Zenon
       DEF Same, Still, segs, space, slabs
  <2>2. CASE GcShrink \/ GcOut
    BY <1>1, <1>4, <2>2, GcShrinkStep, GcOutStep, IsActor, Zenon DEF Same, segs, space, slabs
  <2> QED
    BY <1>7, <2>1, <2>2, Zenon DEF Collecting
<1>8. CASE Halted \/ UNCHANGED vars
  BY <1>2, <1>8, Zenon DEF Halted, vars, segs, space, slabs, Same
<1> QED
  BY <1>5, <1>6, <1>7, <1>8, InsertApart, DiscardApart, RemoveApart, LoggedApart, Zenon DEF Next

LEMMA NextAlloc ==
    ASSUME AllocInv, Trimmed, Drained, Emptied, Gc \notin MayFail, [Next]_vars PROVE AllocInv'
BY NextTypes, NextControl, NextAssigned, NextAllKnown, NextInPlaces, NextAlone, NextApart, Zenon
   DEF AllocInv
=============================================================================
