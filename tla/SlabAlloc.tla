------------------------------ MODULE SlabAlloc ------------------------------
(***************************************************************************)
(* The slab allocator of a shard (ssd/fifo/mcd_osd.c) and the compaction   *)
(* thread that works beside it (ssd/fifo/slab_gc.c).                       *)
(*                                                                         *)
(* The flash space is cut into segments.  A slab class owns some of them,  *)
(* in its array segments, and cuts each into slabs of its size.  Slabs are *)
(* taken from a segment's mos_bitmap without a lock: a thread announces    *)
(* itself in segment->used and then looks whether the array still holds    *)
(* the segment, while whoever wants to take the segment away clears its    *)
(* place in the array and then waits for segment->used to become zero.     *)
(*                                                                         *)
(* Memory is sequentially consistent here.  The barrier of                 *)
(* mcd_fth_osd_shrink_class (sfence, sdftcp/locks.h) orders its stores but *)
(* not the store to segments before the load of segment->used, which the   *)
(* processor may take first; what is shown holds where it does not.        *)
(*                                                                         *)
(* Which segment and which free slot a thread tries (next_slab, scan_hand, *)
(* its part of the bitmap) is left open, and a slab is asked for one at a  *)
(* time.  plat_assert is active in every build; a failed one sets halt.    *)
(***************************************************************************)
EXTENDS Integers, Sequences, FiniteSets, Functions

CONSTANTS
    Threads,    \* client threads
    Lgwr,       \* the log writer, which frees the slabs of removed objects
    Gc,         \* slab_gc_worker_thread
    Classes,
    PerSeg,     \* slabs_per_segment of each class
    NSegs,      \* total_segments
    FreeLen,    \* freelist_len
    MayFail,    \* actors whose update_class may fail
    None        \* NULL; the places of segments that GC works on hold Gc

ASSUME AllocAssumption ==
    /\ Lgwr \notin Threads /\ Gc \notin Threads /\ Lgwr # Gc
    /\ IsFiniteSet(Threads)
    /\ None \notin Threads \cup {Lgwr, Gc} /\ None \notin Classes
    /\ None \notin 1 .. NSegs /\ Gc \notin 1 .. NSegs /\ None # {}
    /\ NSegs \in Nat \ {0} /\ FreeLen \in Nat
    /\ PerSeg \in [Classes -> Nat \ {0}]
    /\ MayFail \subseteq Threads \cup {Lgwr, Gc}

Actors == Threads \cup {Lgwr, Gc}
Segs == 1 .. NSegs

VARIABLES
    class, idx, used, used_slabs, mos_bitmap,          \* of each segment
    segments, num_segments, total_slabs, class_used,   \* of each class
    dealloc_pending, class_lock,                       \* of each class
    free_segments, blk_allocated,                      \* of the shard
    free_slabs, \* of each class and client thread
    objs,       \* slabs of the objects in the hash table, with their class
    dead,       \* slabs of objects whose removal is being logged
    pc, my,     \* each actor's step, and the class, segment and slot it is at
    halt        \* the assertion that has failed

segs == <<class, idx, used, used_slabs, mos_bitmap>>
classes == <<segments, num_segments, total_slabs, class_used, dealloc_pending, class_lock>>
space == <<free_segments, blk_allocated>>
slabs == <<free_slabs, objs, dead>>
vars == <<segs, classes, space, slabs, pc, my, halt>>

Nowhere == [c |-> None, g |-> 0, m |-> 0]
Goto(a, l) == pc' = [pc EXCEPT ![a] = l]
Return(a) == Goto(a, "idle") /\ my' = [my EXCEPT ![a] = Nowhere]
At(a, l) == halt = "" /\ pc[a] = l

(* Lists used as stacks.                                                    *)
Top(s) == s[Len(s)]
Pop(s) == SubSeq(s, 1, Len(s) - 1)

Init ==
    /\ class = [g \in Segs |-> None] /\ idx = [g \in Segs |-> 0]
    /\ used = [g \in Segs |-> 0] /\ used_slabs = [g \in Segs |-> 0]
    /\ mos_bitmap = [g \in Segs |-> None]
    /\ segments = [c \in Classes |-> [k \in 1 .. NSegs |-> None]]
    /\ num_segments = [c \in Classes |-> 0]
    /\ total_slabs = [c \in Classes |-> 0] /\ class_used = [c \in Classes |-> 0]
    /\ dealloc_pending = [c \in Classes |-> 0]
    /\ class_lock = [c \in Classes |-> None]
    /\ free_segments = <<>> /\ blk_allocated = 0
    /\ free_slabs = [c \in Classes |-> [t \in Threads |-> <<>>]]
    /\ objs = {} /\ dead = {}
    /\ pc = [a \in Actors |-> "idle"] /\ my = [a \in Actors |-> Nowhere]
    /\ halt = ""
-----------------------------------------------------------------------------
(* mcd_fth_osd_slab_alloc tries for a slab of class c, in these ways, until  *)
(* it has one or gives up; a failed attempt leaves the thread as it was.     *)

(* mcd_fth_osd_get_free_slab: try the slab the thread freed last.           *)
GetFreeSlab(t, c) ==
    /\ At(t, "idle")
    /\ free_slabs[c][t] # <<>>
    /\ my' = [my EXCEPT ![t] = Top(free_slabs[c][t])]
    /\ free_slabs' = [free_slabs EXCEPT ![c][t] = Pop(@)]
    /\ Goto(t, "lock")
    /\ UNCHANGED <<segs, classes, space, objs, dead, halt>>

(* mcd_osd_segment_get_and_lock: read a place of the array ...              *)
GetSegment(t, c) ==
    /\ At(t, "idle")
    /\ \E k \in 1 .. num_segments[c], m \in 1 .. PerSeg[c] :
         /\ segments[c][k] \in Segs
         /\ my' = [my EXCEPT ![t] = [c |-> c, g |-> segments[c][k], m |-> m]]
    /\ Goto(t, "lock")
    /\ UNCHANGED <<segs, classes, space, slabs, halt>>

(* ... mcd_osd_segment_lock: announce the use ...                           *)
SegmentLock(t) ==
    /\ At(t, "lock")
    /\ used' = [used EXCEPT ![my[t].g] = @ + 1]
    /\ Goto(t, "recheck")
    /\ UNCHANGED <<class, idx, used_slabs, mos_bitmap, classes, space, slabs, my, halt>>

(* ... and look whether the place still holds the segment.                  *)
SegmentCheck(t) ==
    /\ At(t, "recheck")
    /\ Goto(t, IF segments[my[t].c][idx[my[t].g]] = my[t].g THEN "slot" ELSE "unlock")
    /\ UNCHANGED <<segs, classes, space, slabs, my, halt>>

(* mcd_osd_slab_slot_alloc: test and set the slot's bit ...                 *)
SlotAlloc(t) ==
    LET g == my[t].g
        free == my[t].m \notin mos_bitmap[g]
    IN  /\ At(t, "slot")
        /\ mos_bitmap' = [mos_bitmap EXCEPT ![g] = @ \cup {my[t].m}]
        /\ Goto(t, IF free THEN "count" ELSE "unlock")
        /\ UNCHANGED <<class, idx, used, used_slabs, classes, space, slabs, my, halt>>

(* ... and count the slab.                                                  *)
SlotCount(t) ==
    LET g == my[t].g
    IN  /\ At(t, "count")
        /\ class_used' = [class_used EXCEPT ![class[g]] = @ + 1]
        /\ used_slabs' = [used_slabs EXCEPT ![g] = @ + 1]
        /\ Goto(t, "got")
        /\ UNCHANGED <<class, idx, used, mos_bitmap, segments, num_segments, total_slabs,
                       dealloc_pending, class_lock, space, slabs, my, halt>>

(* mcd_osd_segment_unlock: the slab is the thread's, or it tries another.   *)
SegmentUnlock(t) ==
    /\ At(t, "unlock") \/ At(t, "got")
    /\ used' = [used EXCEPT ![my[t].g] = @ - 1]
    /\ IF pc[t] = "got" THEN Goto(t, "own") /\ UNCHANGED my ELSE Return(t)
    /\ UNCHANGED <<class, idx, used_slabs, mos_bitmap, classes, space, slabs, halt>>
-----------------------------------------------------------------------------
(* The place of a new segment: behind the others, or one that was cleared.  *)
Place(c) ==
    IF num_segments[c] < NSegs
    THEN num_segments[c] + 1
    ELSE CHOOSE k \in 1 .. NSegs :
           segments[c][k] = None /\ \A j \in 1 .. k - 1 : segments[c][j] # None

(* mcd_osd_assign_segment, with the assertion that the segment is unused.   *)
AssignSegment(c, g) ==
    IF mos_bitmap[g] # None
    THEN /\ halt' = "bitmap"
         /\ UNCHANGED <<class, idx, mos_bitmap, segments, num_segments, total_slabs>>
    ELSE /\ class' = [class EXCEPT ![g] = c]
         /\ idx' = [idx EXCEPT ![g] = Place(c)]
         /\ mos_bitmap' = [mos_bitmap EXCEPT ![g] = {}]
         /\ segments' = [segments EXCEPT ![c][Place(c)] = g]
         /\ num_segments' = [num_segments EXCEPT ![c] = IF @ < NSegs THEN @ + 1 ELSE @]
         /\ total_slabs' = [total_slabs EXCEPT ![c] = @ + PerSeg[c]]
         /\ UNCHANGED halt

(* mcd_fth_osd_grow_class, under the class lock: the next segment of the    *)
(* shard, or one from the free list.  With neither, a sync request to GC is *)
(* waited for (the locks are released meanwhile) or the call fails.         *)
GrowClass(t, c) ==
    /\ At(t, "idle")
    /\ class_lock[c] = None
    /\ IF blk_allocated < NSegs
       THEN /\ AssignSegment(c, blk_allocated + 1)
            /\ blk_allocated' = blk_allocated + 1
            /\ UNCHANGED free_segments
       ELSE /\ free_segments # <<>>
            /\ AssignSegment(c, Top(free_segments))
            /\ free_segments' = Pop(free_segments)
            /\ UNCHANGED blk_allocated
    /\ UNCHANGED <<used, used_slabs, class_used, dealloc_pending, class_lock, slabs, pc, my>>
-----------------------------------------------------------------------------
(* The object is written and enters the hash table.                         *)
Insert(t) ==
    /\ At(t, "own")
    /\ objs' = objs \cup {my[t]}
    /\ Return(t)
    /\ UNCHANGED <<segs, classes, space, free_slabs, dead, halt>>

(* mcd_fth_osd_remove_entry: the slab is freed once the removal is logged,  *)
(* as its callers want for an object of a persistent shard.                 *)
RemoveEntry(t) ==
    /\ At(t, "idle")
    /\ \E s \in objs :
         /\ objs' = objs \ {s} /\ dead' = dead \cup {s}
         /\ dealloc_pending' = [dealloc_pending EXCEPT ![s.c] = @ + 1]
    /\ UNCHANGED <<segs, segments, num_segments, total_slabs, class_used, class_lock,
                   space, free_slabs, pc, my, halt>>

(* mcd_fth_osd_slab_dealloc_low of slab s: clear the bit ...                *)
ClearBit(a, s) ==
    /\ mos_bitmap' = [mos_bitmap EXCEPT ![s.g] = @ \ {s.m}]
    /\ Goto(a, "uncount")
    /\ UNCHANGED <<class, idx, used, used_slabs, classes, space, free_slabs, objs, halt>>

(* ... of an object that did not get into the hash table (no entry, a       *)
(* rollback) ...                                                            *)
Discard(t) ==
    /\ At(t, "own")
    /\ ClearBit(t, my[t])
    /\ UNCHANGED <<dead, my>>

(* ... or of a removal whose record the log writer has come to ...          *)
Logged ==
    /\ At(Lgwr, "idle")
    /\ \E s \in dead :
         /\ dead' = dead \ {s}
         /\ my' = [my EXCEPT ![Lgwr] = s]
         /\ ClearBit(Lgwr, s)

(* Mutant of Uncount: the count of the class is forgotten.                  *)
UncountSegment(a) ==
    LET g == my[a].g
    IN  /\ At(a, "uncount")
        /\ used_slabs' = [used_slabs EXCEPT ![g] = @ - 1]
        /\ Goto(a, "freed")
        /\ UNCHANGED <<class, idx, used, mos_bitmap, classes, space, slabs, my, halt>>

(* ... and the counts.                                                      *)
Uncount(a) ==
    LET g == my[a].g
    IN  /\ At(a, "uncount")
        /\ class_used' = [class_used EXCEPT ![class[g]] = @ - 1]
        /\ used_slabs' = [used_slabs EXCEPT ![g] = @ - 1]
        /\ Goto(a, "freed")
        /\ UNCHANGED <<class, idx, used, mos_bitmap, segments, num_segments, total_slabs,
                       dealloc_pending, class_lock, space, slabs, my, halt>>

(* mcd_fth_osd_slab_dealloc: the pending count of the class, or the list of *)
(* the thread; then an empty segment is given back.                         *)
DeallocEnd(a) ==
    LET g == my[a].g
        c == class[g]
        full == a \in Threads /\ Len(free_slabs[c][a]) >= FreeLen
    IN  /\ At(a, "freed")
        /\ IF used_slabs[g] = 0 THEN Goto(a, "shrink") /\ UNCHANGED my ELSE Return(a)
        /\ IF a = Lgwr
           THEN /\ halt' = IF dealloc_pending[c] = 0 THEN "pending" ELSE ""
                /\ dealloc_pending' = [dealloc_pending EXCEPT ![c] = @ - 1]
                /\ UNCHANGED free_slabs
           ELSE /\ free_slabs' = IF full THEN free_slabs
                                 ELSE [free_slabs EXCEPT ![c][a] = Append(@, my[a])]
                /\ UNCHANGED <<dealloc_pending, halt>>
        /\ UNCHANGED <<segs, segments, num_segments, total_slabs, class_used, class_lock,
                       space, objs, dead>>
-----------------------------------------------------------------------------
(* Mutant of Shrink: a segment that is not in its place is freed as well.   *)
ShrinkAny(a) ==
    LET g == my[a].g
        c == class[g]
    IN  /\ At(a, "shrink")
        /\ class_lock[c] = None
        /\ segments' = [segments EXCEPT ![c][idx[g]] = None]
        /\ class_lock' = [class_lock EXCEPT ![c] = a]
        /\ Goto(a, "wait")
        /\ UNCHANGED <<segs, num_segments, total_slabs, class_used, dealloc_pending,
                       space, slabs, my, halt>>

(* mcd_fth_osd_shrink_class: under the class lock, take the segment out of  *)
(* its place, unless it is not there ...                                    *)
Shrink(a) ==
    LET g == my[a].g
        c == class[g]
    IN  /\ At(a, "shrink")
        /\ class_lock[c] = None
        /\ IF segments[c][idx[g]] = g
           THEN /\ segments' = [segments EXCEPT ![c][idx[g]] = None]
                /\ class_lock' = [class_lock EXCEPT ![c] = a]
                /\ Goto(a, "wait") /\ UNCHANGED my
           ELSE Return(a) /\ UNCHANGED <<segments, class_lock>>
        /\ UNCHANGED <<segs, num_segments, total_slabs, class_used, dealloc_pending,
                       space, slabs, halt>>

(* Mutant of ShrinkWait: the threads at the segment are not waited for.     *)
ShrinkNoWait(a) ==
    /\ At(a, "wait")
    /\ Goto(a, "decide")
    /\ UNCHANGED <<segs, classes, space, slabs, my, halt>>

(* ... wait while(segment->used) ...                                        *)
ShrinkWait(a) ==
    /\ At(a, "wait")
    /\ used[my[a].g] = 0
    /\ Goto(a, "decide")
    /\ UNCHANGED <<segs, classes, space, slabs, my, halt>>

(* The number of places of a class up to the last one that is in use.       *)
LastPlace(c) ==
    CHOOSE n \in 0 .. num_segments[c] :
      /\ n = 0 \/ segments[c][n] # None
      /\ \A k \in n + 1 .. num_segments[c] : segments[c][k] = None

(* mcd_fth_osd_free_segment; mos_bitmap stays as it is.                     *)
FreeSegment(c, g) ==
    /\ total_slabs' = [total_slabs EXCEPT ![c] = @ - PerSeg[c]]
    /\ num_segments' = [num_segments EXCEPT ![c] = LastPlace(c)]
    /\ free_segments' = Append(free_segments, g)
    /\ UNCHANGED segments

PutBack(c, g) ==
    /\ segments' = [segments EXCEPT ![c][idx[g]] = g]
    /\ UNCHANGED <<num_segments, total_slabs, free_segments>>

(* ... and free it if it is empty.  Otherwise, or if update_class could not *)
(* write that down, it goes back to its place; only of the latter is        *)
(* compaction told, which then takes the way out that puts it back again.   *)
ShrinkEnd(a) ==
    LET g == my[a].g
        c == class[g]
    IN  /\ At(a, "decide")
        /\ \/ used_slabs[g] = 0 /\ FreeSegment(c, g) /\ Return(a)
           \/ used_slabs[g] # 0 /\ PutBack(c, g) /\ Return(a)
           \/ /\ used_slabs[g] = 0 /\ a \in MayFail /\ PutBack(c, g)
              /\ IF a = Gc THEN Goto(a, "out") /\ UNCHANGED my ELSE Return(a)
        /\ class_lock' = [class_lock EXCEPT ![c] = None]
        /\ UNCHANGED <<segs, class_used, dealloc_pending, blk_allocated, slabs, halt>>
-----------------------------------------------------------------------------
(* slab_gc_able for a sync request: room for an average segment, thrice.    *)
(* The differences are unsigned: class_used can run ahead of total_slabs    *)
(* (a slab is taken before its last owner has counted it back), and the     *)
(* class then seems to have room.                                           *)
SlabGcAble(c) ==
    /\ total_slabs[c] \div PerSeg[c] > 1
    /\ \/ total_slabs[c] < class_used[c]
       \/ total_slabs[c] - class_used[c]
            > 3 * ((class_used[c] * PerSeg[c]) \div total_slabs[c])
    /\ class_used[c] - dealloc_pending[c] # 0

(* slab_gc_worker_thread has a request for the class and may compact it.    *)
GcAble ==
    /\ At(Gc, "idle") /\ my[Gc] = Nowhere
    /\ \E c \in Classes :
         SlabGcAble(c) /\ my' = [my EXCEPT ![Gc] = [c |-> c, g |-> 0, m |-> 0]]
    /\ Goto(Gc, "idle")
    /\ UNCHANGED <<segs, classes, space, slabs, halt>>

(* slab_gc_least_used_segment looks for a segment without a lock.  The      *)
(* counts it compares change meanwhile: which segment it finds is left      *)
(* open.  If none is left in its place, slab_gc_compact_class goes on with  *)
(* a null pointer.                                                          *)
GcPick ==
    LET c == my[Gc].c
    IN  /\ At(Gc, "idle") /\ c # None
        /\ \E k \in 1 .. num_segments[c] :
             /\ segments[c][k] \in Segs
             /\ my' = [my EXCEPT ![Gc] = [c |-> c, g |-> segments[c][k], m |-> 0]]
        /\ Goto(Gc, "mark")
        /\ UNCHANGED <<segs, classes, space, slabs, halt>>

GcPickNone ==
    LET c == my[Gc].c
    IN  /\ At(Gc, "idle") /\ c # None
        /\ \A k \in 1 .. num_segments[c] : segments[c][k] \notin Segs
        /\ halt' = "null"
        /\ UNCHANGED <<segs, classes, space, slabs, pc, my>>

GcChoose == GcAble \/ GcPick \/ GcPickNone

(* Mutant of GcMark: allocations go on, the place is left as it is.         *)
GcNoMark ==
    /\ At(Gc, "mark")
    /\ class_lock[my[Gc].c] = None
    /\ IF segments[my[Gc].c][idx[my[Gc].g]] = my[Gc].g
       THEN Goto(Gc, "scan") /\ UNCHANGED my
       ELSE Return(Gc)
    /\ UNCHANGED <<segs, classes, space, slabs, halt>>

(* slab_gc_compact_class: mark the place under the class lock, if it still  *)
(* holds the segment ...                                                    *)
GcMark ==
    LET c == my[Gc].c
        k == idx[my[Gc].g]
    IN  /\ At(Gc, "mark")
        /\ class_lock[c] = None
        /\ IF segments[c][k] = my[Gc].g
           THEN segments' = [segments EXCEPT ![c][k] = Gc] /\ Goto(Gc, "scan") /\ UNCHANGED my
           ELSE Return(Gc) /\ UNCHANGED segments
        /\ UNCHANGED <<segs, num_segments, total_slabs, class_used, dealloc_pending,
                       class_lock, space, slabs, halt>>

(* ... relocate the slabs of live objects, which meets plat_assert(0) in    *)
(* slab_gc_relocate_slab once a slab to move to is found; after a log_sync, *)
(* in hope that the log writer frees the removed ones, look whether the     *)
(* segment is empty.  The scan can also end early: no memory, no read.      *)
GcScan ==
    /\ At(Gc, "scan")
    /\ \/ (\E s \in objs : s.g = my[Gc].g) /\ halt' = "relocate" /\ UNCHANGED pc
       \/ used_slabs[my[Gc].g] = 0 /\ Goto(Gc, "gcshrink") /\ UNCHANGED halt
       \/ Goto(Gc, "out") /\ UNCHANGED halt
    /\ UNCHANGED <<segs, classes, space, slabs, my>>

(* ... mcd_fth_osd_shrink_class(gc = true), with its assertion ...          *)
GcShrink ==
    LET g == my[Gc].g
        c == class[g]
    IN  /\ At(Gc, "gcshrink")
        /\ class_lock[c] = None
        /\ halt' = IF segments[c][idx[g]] = Gc THEN "" ELSE "gc"
        /\ segments' = [segments EXCEPT ![c][idx[g]] = None]
        /\ class_lock' = [class_lock EXCEPT ![c] = Gc]
        /\ Goto(Gc, "wait")
        /\ UNCHANGED <<segs, num_segments, total_slabs, class_used, dealloc_pending,
                       space, slabs, my>>

(* ... or put the segment back.                                             *)
GcOut ==
    LET g == my[Gc].g
        c == my[Gc].c
    IN  /\ At(Gc, "out")
        /\ class_lock[c] = None
        /\ segments' = [segments EXCEPT ![c][idx[g]] = g]
        /\ Return(Gc)
        /\ UNCHANGED <<segs, num_segments, total_slabs, class_used, dealloc_pending,
                       class_lock, space, slabs, halt>>
-----------------------------------------------------------------------------
Taking(t) ==
    \/ \E c \in Classes : GetFreeSlab(t, c) \/ GetSegment(t, c) \/ GrowClass(t, c)
    \/ SegmentLock(t) \/ SegmentCheck(t)
    \/ SlotAlloc(t) \/ SlotCount(t) \/ SegmentUnlock(t)

Freeing(a) ==
    \/ Uncount(a) \/ DeallocEnd(a)
    \/ Shrink(a) \/ ShrinkWait(a) \/ ShrinkEnd(a)

Collecting ==
    \/ GcChoose \/ GcMark \/ GcScan \/ GcShrink \/ GcOut

(* A failed assertion ends the process.                                     *)
Halted == halt # "" /\ UNCHANGED vars

Next ==
    \/ \E t \in Threads :
         Taking(t) \/ Insert(t) \/ Discard(t) \/ RemoveEntry(t)
    \/ Logged
    \/ \E a \in Actors : Freeing(a)
    \/ Collecting
    \/ Halted

Spec == Init /\ [][Next]_vars
-----------------------------------------------------------------------------
Slab == [c : Classes, g : Segs, m : Nat \ {0}]

TypeOK ==
    /\ class \in [Segs -> Classes \cup {None}] /\ idx \in [Segs -> 0 .. NSegs]
    /\ used \in [Segs -> Nat] /\ used_slabs \in [Segs -> Nat]
    /\ segments \in [Classes -> [1 .. NSegs -> Segs \cup {None, Gc}]]
    /\ num_segments \in [Classes -> 0 .. NSegs]
    /\ \A c \in Classes : total_slabs[c] \in 0 .. NSegs * PerSeg[c]
    /\ class_used \in [Classes -> Nat] /\ dealloc_pending \in [Classes -> Nat]
    /\ class_lock \in [Classes -> Actors \cup {None}]
    /\ IsInjective(free_segments) /\ Range(free_segments) \subseteq 1 .. blk_allocated
    /\ objs \subseteq Slab /\ dead \subseteq Slab

(* The slabs of the actors that have one and neither stored nor freed it.   *)
Holders == {a \in Actors : pc[a] \in {"count", "got", "own"}}

(* No slab is used twice and none lies in a segment that was given back:    *)
(* the slab of every object, of every object being removed and of every     *)
(* call has its bit set, is nobody else's, and its segment belongs to the   *)
(* slab's class, whatever shrinking and compaction do meanwhile (lock-free  *)
(* protocol of mcd_osd_segment_lock, mcd_osd.c:3792, against                *)
(* mcd_fth_osd_shrink_class, mcd_osd.c:2478).                               *)
SlabsApart ==
    /\ objs \cap dead = {}
    /\ \A a \in Holders : my[a] \notin objs \cup dead
                          /\ \A b \in Holders : my[a] = my[b] => a = b
    /\ \A s \in objs \cup dead \cup {my[a] : a \in Holders} :
         /\ class[s.g] = s.c /\ s.m \in mos_bitmap[s.g]
         /\ s.g \notin Range(free_segments)

InStep(g, l) == Cardinality({a \in Actors : pc[a] = l /\ my[a].g = g})

(* used_slabs, by which an empty segment is told, lags behind the bitmap    *)
(* only by the calls between their two atomic operations                    *)
(* (mcd_osd.c:3761 and 2524).                                               *)
SegmentCounts ==
    \A g \in 1 .. blk_allocated :
        used_slabs[g] = Cardinality(mos_bitmap[g]) - InStep(g, "count") + InStep(g, "uncount")

(* So does the class's count, by which compaction chooses, behind the       *)
(* bitmaps of all its segments.                                             *)
ClassCounts ==
    \A c \in Classes :
        LET bits == UNION {{g} \X mos_bitmap[g] : g \in {h \in Segs : class[h] = c}}
            InCall(l) == {a \in Actors : pc[a] = l /\ my[a].c = c}
        IN  class_used[c] = Cardinality(bits) - Cardinality(InCall("count"))
                            + Cardinality(InCall("uncount"))

CountsExact == SegmentCounts /\ ClassCounts

(* The assertions on dealloc_pending (mcd_osd.c:2603) and on the place that *)
(* compaction marked (mcd_osd.c:2497) hold.                                 *)
AssertsHold == halt \notin {"pending", "gc"}
=============================================================================
