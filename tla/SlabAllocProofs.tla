--------------------------- MODULE SlabAllocProofs ---------------------------
(***************************************************************************)
(* No slab of a shard is used twice, its counts are exact and its          *)
(* assertions hold, for any number of threads, classes, segments and       *)
(* slabs: the counts of SlabAlloc, and its theorems.                       *)
(***************************************************************************)
EXTENDS SlabAllocPlaces

Grows(S, T) == \E x : x \notin S /\ T = S \cup {x}
Drops(S, T) == \E x : x \in S /\ T = S \ {x}

(* A count n of the bits B lags behind by the calls C that have set one and *)
(* the calls U that have cleared one: what a step does to the four.         *)
Balanced(n, B, C, U, nn, BB, CC, UU) ==
    \/ nn = n /\ BB = B /\ CC = C /\ UU = U
    \/ nn = n /\ Grows(B, BB) /\ Grows(C, CC) /\ UU = U
    \/ nn = n + 1 /\ BB = B /\ Drops(C, CC) /\ UU = U
    \/ nn = n /\ Drops(B, BB) /\ CC = C /\ Grows(U, UU)
    \/ nn = n - 1 /\ BB = B /\ CC = C /\ Drops(U, UU)

(* Of a segment; one that is not assigned has no bits.                      *)
Bits(g) == IF g <= blk_allocated THEN mos_bitmap[g] ELSE {}
CallsAt(g, l) == {a \in Actors : pc[a] = l /\ my[a].g = g}

SegBalanced ==
    \A g \in Segs : Balanced(used_slabs[g], Bits(g), CallsAt(g, "count"), CallsAt(g, "uncount"),
                             used_slabs'[g], Bits(g)', CallsAt(g, "count")', CallsAt(g, "uncount")')

(* Of a class.                                                              *)
ClassBits(c) == UNION {{g} \X mos_bitmap[g] : g \in {h \in Segs : class[h] = c}}
ClassCalls(c, l) == {a \in Actors : pc[a] = l /\ my[a].c = c}

ClassBalanced ==
    \A c \in Classes :
        Balanced(class_used[c], ClassBits(c), ClassCalls(c, "count"), ClassCalls(c, "uncount"),
                 class_used'[c], ClassBits(c)', ClassCalls(c, "count")', ClassCalls(c, "uncount")')
-----------------------------------------------------------------------------
LEMMA CallsMove ==
    ASSUME NEW a \in Actors, NEW l, NEW s, Moves(a, l, s), NEW m
    PROVE  /\ \A g : CallsAt(g, m)' = (CallsAt(g, m) \ {a}) \cup (IF l = m /\ s.g = g THEN {a} ELSE {})
           /\ \A c : ClassCalls(c, m)' =
                       (ClassCalls(c, m) \ {a}) \cup (IF l = m /\ s.c = c THEN {a} ELSE {})
BY DEF Moves, CallsAt, ClassCalls

(* A call that has not come to a count, or has left it, is in no set.       *)
LEMMA CallsQuiet ==
    ASSUME NEW a \in Actors, NEW l, NEW s, Moves(a, l, s), NEW m, pc[a] # m, l # m
    PROVE  /\ \A g : CallsAt(g, m)' = CallsAt(g, m)
           /\ \A c : ClassCalls(c, m)' = ClassCalls(c, m)
BY DEF Moves, CallsAt, ClassCalls

LEMMA CallsEnter ==
    ASSUME NEW a \in Actors, NEW m, NEW s, Moves(a, m, s), pc[a] # m
    PROVE  /\ \A g : IF g = s.g THEN Grows(CallsAt(g, m), CallsAt(g, m)')
                     ELSE CallsAt(g, m)' = CallsAt(g, m)
           /\ \A c : IF c = s.c THEN Grows(ClassCalls(c, m), ClassCalls(c, m)')
                     ELSE ClassCalls(c, m)' = ClassCalls(c, m)
<1>1. /\ \A g : a \notin CallsAt(g, m)
      /\ \A c : a \notin ClassCalls(c, m)
  BY DEF CallsAt, ClassCalls
<1>2. /\ \A g : IF g = s.g THEN CallsAt(g, m)' = CallsAt(g, m) \cup {a}
                ELSE CallsAt(g, m)' = CallsAt(g, m)
      /\ \A c : IF c = s.c THEN ClassCalls(c, m)' = ClassCalls(c, m) \cup {a}
                ELSE ClassCalls(c, m)' = ClassCalls(c, m)
  BY DEF Moves, CallsAt, ClassCalls
<1> QED
  BY <1>1, <1>2, Zenon DEF Grows

LEMMA CallsLeave ==
    ASSUME NEW a \in Actors, NEW l, NEW m, Moves(a, l, my[a]), pc[a] = m, l # m
    PROVE  /\ \A g : IF g = my[a].g THEN Drops(CallsAt(g, m), CallsAt(g, m)')
                     ELSE CallsAt(g, m)' = CallsAt(g, m)
           /\ \A c : IF c = my[a].c THEN Drops(ClassCalls(c, m), ClassCalls(c, m)')
                     ELSE ClassCalls(c, m)' = ClassCalls(c, m)
<1>1. a \in CallsAt(my[a].g, m) /\ a \in ClassCalls(my[a].c, m)
  BY DEF CallsAt, ClassCalls
<1>2. /\ \A g : IF g = my[a].g THEN CallsAt(g, m)' = CallsAt(g, m) \ {a}
                ELSE CallsAt(g, m)' = CallsAt(g, m)
      /\ \A c : IF c = my[a].c THEN ClassCalls(c, m)' = ClassCalls(c, m) \ {a}
                ELSE ClassCalls(c, m)' = ClassCalls(c, m)
  BY DEF Moves, CallsAt, ClassCalls
<1> QED
  BY <1>1, <1>2, Zenon DEF Drops

LEMMA ClassBitsFact ==
    ASSUME NEW c, NEW x
    PROVE  x \in ClassBits(c) <=> \E g \in Segs : class[g] = c /\ \E m \in mos_bitmap[g] : x = <<g, m>>
<1>1. x \in ClassBits(c) <=> \E g \in {h \in Segs : class[h] = c} : x \in {g} \X mos_bitmap[g]
  BY Zenon DEF ClassBits
<1>2. \A g : x \in {g} \X mos_bitmap[g] <=> \E m \in mos_bitmap[g] : x = <<g, m>>
  OBVIOUS
<1> QED
  BY <1>1, <1>2, Zenon

LEMMA ClassBitsPrime ==
    ASSUME NEW c, NEW x
    PROVE  x \in ClassBits(c)' <=>
             \E g \in Segs : class'[g] = c /\ \E m \in mos_bitmap'[g] : x = <<g, m>>
<1>1. x \in ClassBits(c)' <=> \E g \in {h \in Segs : class'[h] = c} : x \in {g} \X mos_bitmap'[g]
  BY Zenon DEF ClassBits
<1>2. \A g : x \in {g} \X mos_bitmap'[g] <=> \E m \in mos_bitmap'[g] : x = <<g, m>>
  OBVIOUS
<1> QED
  BY <1>1, <1>2, Zenon

(* The bit of one slab is set, or cleared.                                  *)
LEMMA OneBit ==
    ASSUME AllocInv, NEW g \in Segs, NEW B, mos_bitmap' = [mos_bitmap EXCEPT ![g] = B],
           UNCHANGED <<class, blk_allocated>>
    PROVE  /\ \A h \in Segs \ {g} : Bits(h)' = Bits(h)
           /\ \A c \in Classes : c # class[g] => ClassBits(c)' = ClassBits(c)
<1>1. mos_bitmap'[g] = B /\ \A h \in Segs \ {g} : mos_bitmap'[h] = mos_bitmap[h]
  BY DEF AllocInv, Types
<1>2. \A h \in Segs \ {g} : Bits(h)' = Bits(h)
  BY <1>1 DEF Bits
<1>3. ASSUME NEW c \in Classes, c # class[g] PROVE ClassBits(c)' = ClassBits(c)
  <2> DEFINE H == {h \in Segs : class[h] = c}
  <2>1. \A h \in H : {h} \X mos_bitmap'[h] = {h} \X mos_bitmap[h]
    BY <1>1, <1>3, Zenon
  <2>2. {{h} \X mos_bitmap'[h] : h \in H} = {{h} \X mos_bitmap[h] : h \in H}
    <3> HIDE DEF H
    <3> QED
      BY <2>1
  <2> QED
    BY <2>2, Zenon DEF ClassBits
<1> QED
  BY <1>2, <1>3

LEMMA BitSet ==
    ASSUME AllocInv, NEW g \in Segs, g <= blk_allocated, NEW m, m \notin mos_bitmap[g],
           NEW c, class[g] = c, mos_bitmap' = [mos_bitmap EXCEPT ![g] = @ \cup {m}],
           UNCHANGED <<class, blk_allocated>>
    PROVE  Grows(Bits(g), Bits(g)') /\ Grows(ClassBits(c), ClassBits(c)')
<1>1. /\ mos_bitmap'[g] = mos_bitmap[g] \cup {m}
      /\ \A h \in Segs \ {g} : mos_bitmap'[h] = mos_bitmap[h]
  BY DEF AllocInv, Types
<1>2. Grows(Bits(g), Bits(g)')
  BY <1>1 DEF Grows, Bits
<1>3. ASSUME NEW x
      PROVE  x \in ClassBits(c) <=> \E h \in Segs : class[h] = c /\ \E k \in mos_bitmap[h] : x = <<h, k>>
  BY ClassBitsFact
<1>4. ASSUME NEW x
      PROVE  x \in ClassBits(c)' <=> \E h \in Segs : class[h] = c /\ \E k \in mos_bitmap'[h] : x = <<h, k>>
  BY ClassBitsPrime
<1>5. ASSUME <<g, m>> \in ClassBits(c) PROVE FALSE
  <2>1. PICK h \in Segs : class[h] = c /\ \E k \in mos_bitmap[h] : <<g, m>> = <<h, k>>
    BY <1>3, <1>5, Zenon
  <2>2. PICK k \in mos_bitmap[h] : <<g, m>> = <<h, k>>
    BY <2>1
  <2> QED
    BY <2>2
<1>6. ASSUME NEW x \in ClassBits(c)' PROVE x \in ClassBits(c) \cup {<<g, m>>}
  <2>1. PICK h \in Segs : class[h] = c /\ \E k \in mos_bitmap'[h] : x = <<h, k>>
    BY <1>4, <1>6, Zenon
  <2>2. PICK k \in mos_bitmap'[h] : x = <<h, k>>
    BY <2>1
  <2>3. k \in mos_bitmap[h] \/ (h = g /\ k = m)
    BY <1>1, <2>2
  <2> QED
    BY <1>3, <2>1, <2>2, <2>3, Zenon
<1>7. ASSUME NEW x \in ClassBits(c) \cup {<<g, m>>} PROVE x \in ClassBits(c)'
  <2>1. CASE x = <<g, m>>
    <3>1. m \in mos_bitmap'[g]
      BY <1>1
    <3> QED
      BY <1>4, <2>1, <3>1, Zenon
  <2>2. CASE x \in ClassBits(c)
    <3>1. PICK h \in Segs : class[h] = c /\ \E k \in mos_bitmap[h] : x = <<h, k>>
      BY <1>3, <2>2, Zenon
    <3>2. mos_bitmap[h] \subseteq mos_bitmap'[h]
      BY <1>1
    <3> QED
      BY <1>4, <3>1, <3>2, Zenon
  <2> QED
    BY <1>7, <2>1, <2>2
<1>8. ClassBits(c)' = ClassBits(c) \cup {<<g, m>>}
  BY <1>6, <1>7, Zenon
<1> QED
  BY <1>2, <1>5, <1>8, Zenon DEF Grows

LEMMA BitClear ==
    ASSUME AllocInv, NEW g \in Segs, g <= blk_allocated, NEW m, m \in mos_bitmap[g],
           NEW c, class[g] = c, mos_bitmap' = [mos_bitmap EXCEPT ![g] = @ \ {m}],
           UNCHANGED <<class, blk_allocated>>
    PROVE  Drops(Bits(g), Bits(g)') /\ Drops(ClassBits(c), ClassBits(c)')
<1>1. /\ mos_bitmap'[g] = mos_bitmap[g] \ {m}
      /\ \A h \in Segs \ {g} : mos_bitmap'[h] = mos_bitmap[h]
  BY DEF AllocInv, Types
<1>2. Drops(Bits(g), Bits(g)')
  BY <1>1 DEF Drops, Bits
<1>3. ASSUME NEW x
      PROVE  x \in ClassBits(c) <=> \E h \in Segs : class[h] = c /\ \E k \in mos_bitmap[h] : x = <<h, k>>
  BY ClassBitsFact
<1>4. ASSUME NEW x
      PROVE  x \in ClassBits(c)' <=> \E h \in Segs : class[h] = c /\ \E k \in mos_bitmap'[h] : x = <<h, k>>
  BY ClassBitsPrime
<1>5. <<g, m>> \in ClassBits(c)
  BY <1>3, Zenon
<1>6. ASSUME NEW x \in ClassBits(c)' PROVE x \in ClassBits(c) \ {<<g, m>>}
  <2>1. PICK h \in Segs : class[h] = c /\ \E k \in mos_bitmap'[h] : x = <<h, k>>
    BY <1>4, <1>6, Zenon
  <2>2. PICK k \in mos_bitmap'[h] : x = <<h, k>>
    BY <2>1
  <2>3. k \in mos_bitmap[h] /\ <<h, k>> # <<g, m>>
    BY <1>1, <2>2
  <2> QED
    BY <1>3, <2>1, <2>2, <2>3, Zenon
<1>7. ASSUME NEW x \in ClassBits(c) \ {<<g, m>>} PROVE x \in ClassBits(c)'
  <2>1. PICK h \in Segs : class[h] = c /\ \E k \in mos_bitmap[h] : x = <<h, k>>
    BY <1>3, <1>7, Zenon
  <2>2. PICK k \in mos_bitmap[h] : x = <<h, k>>
    BY <2>1
  <2>3. k \in mos_bitmap'[h]
    BY <1>1, <1>7, <2>2
  <2> QED
    BY <1>4, <2>1, <2>2, <2>3, Zenon
<1>8. ClassBits(c)' = ClassBits(c) \ {<<g, m>>}
  BY <1>6, <1>7, Zenon
<1> QED
  BY <1>2, <1>5, <1>8, Zenon DEF Drops

LEMMA QuietBalanced ==
    ASSUME NEW a \in Actors, NEW l, NEW s, Moves(a, l, s), pc[a] \notin {"count", "uncount"},
           l \notin {"count", "uncount"},
           UNCHANGED <<class, used_slabs, class_used, mos_bitmap, blk_allocated>>
    PROVE  SegBalanced /\ ClassBalanced
<1>1. /\ \A g : CallsAt(g, "count")' = CallsAt(g, "count") /\ CallsAt(g, "uncount")' = CallsAt(g, "uncount")
      /\ \A c : ClassCalls(c, "count")' = ClassCalls(c, "count")
                /\ ClassCalls(c, "uncount")' = ClassCalls(c, "uncount")
  BY CallsQuiet
<1>2. /\ \A g : Bits(g)' = Bits(g)
      /\ \A c : ClassBits(c)' = ClassBits(c)
  BY Zenon DEF Bits, ClassBits
<1> QED
  BY <1>1, <1>2, Zenon DEF SegBalanced, ClassBalanced, Balanced

LEMMA StillBalanced ==
    ASSUME UNCHANGED <<pc, my, used_slabs, class_used>>,
           \A g \in Segs : Bits(g)' = Bits(g), \A c \in Classes : ClassBits(c)' = ClassBits(c)
    PROVE  SegBalanced /\ ClassBalanced
<1>1. /\ \A g : CallsAt(g, "count")' = CallsAt(g, "count") /\ CallsAt(g, "uncount")' = CallsAt(g, "uncount")
      /\ \A c : ClassCalls(c, "count")' = ClassCalls(c, "count")
                /\ ClassCalls(c, "uncount")' = ClassCalls(c, "uncount")
  BY Zenon DEF CallsAt, ClassCalls
<1> QED
  BY <1>1, Zenon DEF SegBalanced, ClassBalanced, Balanced

(* A segment that a class grows by has no bits, before and after.           *)
LEMMA GrowBalanced ==
    ASSUME AllocInv, NEW t \in Threads, NEW c \in Classes, GrowClass(t, c)
    PROVE  SegBalanced /\ ClassBalanced
<1>0. Types /\ Assigned
  BY DEF AllocInv
<1>1. UNCHANGED <<pc, my, used_slabs, class_used>> /\ (GrowFails \/ Grown(c))
  BY <1>0, GrowClassStep, Zenon
<1>2. CASE GrowFails
  <2>1. UNCHANGED <<class, mos_bitmap, blk_allocated>>
    BY <1>2 DEF GrowFails
  <2>2. /\ \A g : Bits(g)' = Bits(g)
        /\ \A d : ClassBits(d)' = ClassBits(d)
    BY <2>1, Zenon DEF Bits, ClassBits
  <2> QED
    BY <1>1, <2>2, StillBalanced, Zenon
<1>3. CASE Grown(c)
  <2> DEFINE g == blk_allocated + 1
  <2>1. /\ g \in Segs /\ blk_allocated' = g /\ class'[g] = c /\ mos_bitmap'[g] = {}
        /\ \A h \in Segs \ {g} : class'[h] = class[h] /\ mos_bitmap'[h] = mos_bitmap[h]
    BY <1>0, <1>3, GrownFact, Zenon
  <2>2. blk_allocated \in Nat /\ Segs \subseteq Nat /\ class[g] = None /\ None \notin Classes
    <3>1. blk_allocated \in Nat /\ Segs \subseteq Nat /\ None \notin Classes
      BY <1>0, AllocAssumption DEF Types, Segs
    <3> QED
      BY <1>0, <2>1, <3>1 DEF Assigned
  <2>3. ASSUME NEW h \in Segs PROVE Bits(h)' = Bits(h)
    <3>1. Bits(h)' = IF h <= g THEN mos_bitmap'[h] ELSE {}
      BY <2>1, Zenon DEF Bits
    <3>2. h \in Nat
      BY <2>2
    <3>3. CASE h = g
      <4>1. h <= g /\ ~(h <= blk_allocated)
        BY <2>2, <3>3
      <4> QED
        BY <2>1, <3>1, <3>3, <4>1, Zenon DEF Bits
    <3>4. CASE h # g
      <4>1. h <= g <=> h <= blk_allocated
        BY <2>2, <3>2, <3>4
      <4>2. mos_bitmap'[h] = mos_bitmap[h]
        BY <2>1, <3>4, SMTT(30), ZenonT(30)
      <4> QED
        BY <3>1, <4>1, <4>2, Zenon DEF Bits
    <3> QED
      BY <3>3, <3>4
  <2> HIDE DEF g
  <2>4. ASSUME NEW d \in Classes PROVE ClassBits(d)' = ClassBits(d)
    <3>1. ASSUME NEW x
          PROVE  x \in ClassBits(d) <=> \E h \in Segs : class[h] = d /\ \E k \in mos_bitmap[h] : x = <<h, k>>
      BY ClassBitsFact
    <3>2. ASSUME NEW x
          PROVE  x \in ClassBits(d)' <=> \E h \in Segs : class'[h] = d /\ \E k \in mos_bitmap'[h] : x = <<h, k>>
      BY ClassBitsPrime
    <3>3. ASSUME NEW x \in ClassBits(d)' PROVE x \in ClassBits(d)
      <4>1. PICK h \in Segs : class'[h] = d /\ \E k \in mos_bitmap'[h] : x = <<h, k>>
        BY <3>2, <3>3, Zenon
      <4>2. h # g
        BY <2>1, <4>1
      <4> QED
        BY <2>1, <3>1, <4>1, <4>2, Zenon
    <3>4. ASSUME NEW x \in ClassBits(d) PROVE x \in ClassBits(d)'
      <4>1. PICK h \in Segs : class[h] = d /\ \E k \in mos_bitmap[h] : x = <<h, k>>
        BY <3>1, <3>4, Zenon
      <4>2. h # g
        BY <2>2, <4>1
      <4> QED
        BY <2>1, <3>2, <4>1, <4>2, Zenon
    <3> QED
      BY <3>3, <3>4, Zenon
  <2> QED
    BY <1>1, <2>3, <2>4, StillBalanced, Zenon
<1> QED
  BY <1>1, <1>2, <1>3

LEMMA AllocBalanced ==
    ASSUME AllocInv, NEW t \in Threads, SlotAlloc(t) PROVE SegBalanced /\ ClassBalanced
<1>0. Types /\ t \in Actors
  BY IsActor DEF AllocInv
<1>1. /\ pc[t] = "slot" /\ UNCHANGED <<class, used_slabs, class_used, blk_allocated>>
      /\ mos_bitmap' = [mos_bitmap EXCEPT ![my[t].g] = @ \cup {my[t].m}]
      /\ \/ my[t].m \notin mos_bitmap[my[t].g] /\ Moves(t, "count", my[t])
         \/ my[t].m \in mos_bitmap[my[t].g] /\ Moves(t, "unlock", my[t])
  BY <1>0, SlotAllocStep, Zenon DEF classes, space
<1> DEFINE g == my[t].g
           c == my[t].c
<1>2. g \in Segs /\ g <= blk_allocated /\ class[g] = c /\ c \in Classes
  BY <1>0, <1>1, CallFact, Zenon
<1>3. CASE my[t].m \in mos_bitmap[g] /\ Moves(t, "unlock", my[t])
  <2>1. mos_bitmap' = mos_bitmap
    BY <1>0, <1>1, <1>2, <1>3, Zenon DEF Types
  <2> QED
    BY <1>0, <1>1, <1>3, <2>1, QuietBalanced
<1>4. CASE my[t].m \notin mos_bitmap[g] /\ Moves(t, "count", my[t])
  <2>1. /\ \A h : IF h = g THEN Grows(CallsAt(h, "count"), CallsAt(h, "count")')
                  ELSE CallsAt(h, "count")' = CallsAt(h, "count")
        /\ \A d : IF d = c THEN Grows(ClassCalls(d, "count"), ClassCalls(d, "count")')
                  ELSE ClassCalls(d, "count")' = ClassCalls(d, "count")
    BY <1>0, <1>1, <1>4, CallsEnter
  <2>2. /\ \A h : CallsAt(h, "uncount")' = CallsAt(h, "uncount")
        /\ \A d : ClassCalls(d, "uncount")' = ClassCalls(d, "uncount")
    BY <1>0, <1>1, <1>4, CallsQuiet
  <2>3. /\ \A h \in Segs \ {g} : Bits(h)' = Bits(h)
        /\ \A d \in Classes : d # c => ClassBits(d)' = ClassBits(d)
    <3>1. mos_bitmap' = [mos_bitmap EXCEPT ![g] = mos_bitmap[g] \cup {my[t].m}]
      BY <1>0, <1>1, <1>2 DEF Types
    <3> QED
      BY <1>1, <1>2, <3>1, OneBit, Zenon
  <2>4. \A h, d, m : h = g /\ d = c /\ m = my[t].m =>
           Grows(Bits(h), Bits(h)') /\ Grows(ClassBits(d), ClassBits(d)')
    BY <1>1, <1>2, <1>4, BitSet, Zenon
  <2>5. SegBalanced
    BY <1>1, <2>1, <2>2, <2>3, <2>4, Zenon DEF SegBalanced, Balanced
  <2>6. ClassBalanced
    BY <1>1, <2>1, <2>2, <2>3, <2>4, Zenon DEF ClassBalanced, Balanced
  <2> QED
    BY <2>5, <2>6, Zenon
<1> QED
  BY <1>1, <1>3, <1>4

LEMMA CountBalanced ==
    ASSUME AllocInv, NEW t \in Threads, SlotCount(t) PROVE SegBalanced /\ ClassBalanced
<1>0. Types /\ t \in Actors
  BY IsActor DEF AllocInv
<1> DEFINE g == my[t].g
           c == my[t].c
<1>1. /\ pc[t] = "count" /\ Moves(t, "got", my[t])
      /\ UNCHANGED <<class, mos_bitmap, blk_allocated>>
      /\ used_slabs' = [used_slabs EXCEPT ![g] = @ + 1]
      /\ class_used' = [class_used EXCEPT ![class[g]] = @ + 1]
  BY <1>0, SlotCountStep, Zenon DEF space
<1>2. g \in Segs /\ class[g] = c /\ c \in Classes
  BY <1>0, <1>1, CallFact, Zenon
<1>3. /\ \A h \in Segs : used_slabs'[h] = IF h = g THEN used_slabs[h] + 1 ELSE used_slabs[h]
      /\ \A d \in Classes : class_used'[d] = IF d = c THEN class_used[d] + 1 ELSE class_used[d]
  BY <1>0, <1>1, <1>2, Zenon DEF Types
<1>4. /\ \A h : IF h = g THEN Drops(CallsAt(h, "count"), CallsAt(h, "count")')
                ELSE CallsAt(h, "count")' = CallsAt(h, "count")
      /\ \A d : IF d = c THEN Drops(ClassCalls(d, "count"), ClassCalls(d, "count")')
                ELSE ClassCalls(d, "count")' = ClassCalls(d, "count")
  BY <1>0, <1>1, CallsLeave, Zenon
<1>5. /\ \A h : CallsAt(h, "uncount")' = CallsAt(h, "uncount")
      /\ \A d : ClassCalls(d, "uncount")' = ClassCalls(d, "uncount")
  BY <1>0, <1>1, CallsQuiet
<1>6. /\ \A h : Bits(h)' = Bits(h)
      /\ \A d : ClassBits(d)' = ClassBits(d)
  BY <1>1, Zenon DEF Bits, ClassBits
<1> HIDE DEF g, c
<1>7. SegBalanced
  BY <1>3, <1>4, <1>5, <1>6, Zenon DEF SegBalanced, Balanced
<1>8. ClassBalanced
  BY <1>3, <1>4, <1>5, <1>6, Zenon DEF ClassBalanced, Balanced
<1> QED
  BY <1>7, <1>8

LEMMA UncountBalanced ==
    ASSUME AllocInv, NEW a \in Actors, Uncount(a) PROVE SegBalanced /\ ClassBalanced
<1>0. Types
  BY DEF AllocInv
<1> DEFINE g == my[a].g
           c == my[a].c
<1>1. /\ pc[a] = "uncount" /\ Moves(a, "freed", my[a])
      /\ UNCHANGED <<class, mos_bitmap, blk_allocated>>
      /\ used_slabs' = [used_slabs EXCEPT ![g] = @ - 1]
      /\ class_used' = [class_used EXCEPT ![class[g]] = @ - 1]
  BY <1>0, UncountStep, Zenon DEF space
<1>2. g \in Segs /\ class[g] = c /\ c \in Classes
  BY <1>1, CallFact, Zenon
<1>3. /\ \A h \in Segs : used_slabs'[h] = IF h = g THEN used_slabs[h] - 1 ELSE used_slabs[h]
      /\ \A d \in Classes : class_used'[d] = IF d = c THEN class_used[d] - 1 ELSE class_used[d]
  BY <1>0, <1>1, <1>2, Zenon DEF Types
<1>4. /\ \A h : IF h = g THEN Drops(CallsAt(h, "uncount"), CallsAt(h, "uncount")')
                ELSE CallsAt(h, "uncount")' = CallsAt(h, "uncount")
      /\ \A d : IF d = c THEN Drops(ClassCalls(d, "uncount"), ClassCalls(d, "uncount")')
                ELSE ClassCalls(d, "uncount")' = ClassCalls(d, "uncount")
  BY <1>1, CallsLeave, Zenon
<1>5. /\ \A h : CallsAt(h, "count")' = CallsAt(h, "count")
      /\ \A d : ClassCalls(d, "count")' = ClassCalls(d, "count")
  BY <1>1, CallsQuiet
<1>6. /\ \A h : Bits(h)' = Bits(h)
      /\ \A d : ClassBits(d)' = ClassBits(d)
  BY <1>1, Zenon DEF Bits, ClassBits
<1> HIDE DEF g, c
<1>7. SegBalanced
  BY <1>3, <1>4, <1>5, <1>6, Zenon DEF SegBalanced, Balanced
<1>8. ClassBalanced
  BY <1>3, <1>4, <1>5, <1>6, Zenon DEF ClassBalanced, Balanced
<1> QED
  BY <1>7, <1>8

(* A slab that is freed had its bit set.                                    *)
LEMMA ClearBalanced ==
    ASSUME AllocInv, NEW a \in Actors, NEW s, pc[a] \notin {"count", "uncount"},
           Moves(a, "uncount", s), s.g \in Segs, s.g <= blk_allocated, s.c \in Classes,
           class[s.g] = s.c, s.m \in mos_bitmap[s.g],
           mos_bitmap' = [mos_bitmap EXCEPT ![s.g] = @ \ {s.m}],
           UNCHANGED <<class, used_slabs, class_used, blk_allocated>>
    PROVE  SegBalanced /\ ClassBalanced
<1>0. Types
  BY DEF AllocInv
<1>1. PICK g, c, m : g = s.g /\ c = s.c /\ m = s.m
  OBVIOUS
<1>2. /\ \A h : IF h = g THEN Grows(CallsAt(h, "uncount"), CallsAt(h, "uncount")')
                ELSE CallsAt(h, "uncount")' = CallsAt(h, "uncount")
      /\ \A d : IF d = c THEN Grows(ClassCalls(d, "uncount"), ClassCalls(d, "uncount")')
                ELSE ClassCalls(d, "uncount")' = ClassCalls(d, "uncount")
  BY <1>1, CallsEnter
<1>3. /\ \A h : CallsAt(h, "count")' = CallsAt(h, "count")
      /\ \A d : ClassCalls(d, "count")' = ClassCalls(d, "count")
  BY CallsQuiet
<1>4. mos_bitmap' = [mos_bitmap EXCEPT ![g] = mos_bitmap[g] \ {m}]
  BY <1>0, <1>1 DEF Types
<1>5. /\ \A h \in Segs \ {g} : Bits(h)' = Bits(h)
      /\ \A d \in Classes : d # c => ClassBits(d)' = ClassBits(d)
  BY <1>0, <1>1, <1>4, OneBit, Zenon
<1>6. Drops(Bits(g), Bits(g)') /\ Drops(ClassBits(c), ClassBits(c)')
  BY <1>0, <1>1, <1>4, BitClear, Zenon
<1>7. SegBalanced
  BY <1>2, <1>3, <1>5, <1>6, Zenon DEF SegBalanced, Balanced
<1>8. ClassBalanced
  BY <1>2, <1>3, <1>5, <1>6, Zenon DEF ClassBalanced, Balanced
<1> QED
  BY <1>7, <1>8

LEMMA FreedBalanced ==
    ASSUME AllocInv, (\E t \in Threads : Discard(t)) \/ Logged PROVE SegBalanced /\ ClassBalanced
<1>0. Types
  BY DEF AllocInv
<1>1. ASSUME NEW s \in Slab, Known(s), Sound(s)
      PROVE  /\ s.g \in Segs /\ s.g <= blk_allocated /\ s.c \in Classes /\ class[s.g] = s.c
             /\ s.m \in mos_bitmap[s.g]
  BY <1>1 DEF Known, Sound, Slab, Segs
<1>2. ASSUME NEW t \in Threads, Discard(t) PROVE SegBalanced /\ ClassBalanced
  <2>1. /\ pc[t] = "own" /\ Moves(t, "uncount", my[t])
        /\ mos_bitmap' = [mos_bitmap EXCEPT ![my[t].g] = @ \ {my[t].m}]
        /\ UNCHANGED <<class, used_slabs, class_used, blk_allocated>>
    BY <1>0, <1>2, DiscardStep, Zenon DEF classes, space
  <2>2. my[t] \in Slab /\ Known(my[t]) /\ Sound(my[t])
    BY <2>1, HolderFact, OwnedFact, IsActor, Zenon
  <2> QED
    BY <1>1, <2>1, <2>2, ClearBalanced, IsActor, Zenon
<1>3. CASE Logged
  <2>1. PICK s \in dead : /\ Moves(Lgwr, "uncount", s)
                          /\ mos_bitmap' = [mos_bitmap EXCEPT ![s.g] = @ \ {s.m}]
    BY <1>0, <1>3, LoggedStep, Zenon
  <2>2. pc[Lgwr] = "idle" /\ UNCHANGED <<class, used_slabs, class_used, blk_allocated>>
    BY <1>0, <1>3, LoggedStep, Zenon DEF classes, space
  <2>3. s \in Slab /\ Known(s) /\ Sound(s)
    BY OwnedFact
  <2> QED
    BY <1>1, <2>1, <2>2, <2>3, ClearBalanced, IsActor, Zenon
<1> QED
  BY <1>2, <1>3

LEMMA NextBalanced == ASSUME AllocInv, Gc \notin MayFail, [Next]_vars PROVE SegBalanced /\ ClassBalanced
<1>1. Types
  BY DEF AllocInv
<1> DEFINE Same == UNCHANGED <<class, used_slabs, class_used, mos_bitmap, blk_allocated>>
           Goal == SegBalanced /\ ClassBalanced
           Others == {"idle", "lock", "recheck", "slot", "got", "own", "unlock", "freed", "shrink",
                      "wait", "decide", "mark", "scan", "gcshrink", "out"}
<1>2. ASSUME Same, UNCHANGED <<pc, my>> PROVE Goal
  <2>1. /\ \A g : Bits(g)' = Bits(g)
        /\ \A c : ClassBits(c)' = ClassBits(c)
    BY <1>2, Zenon DEF Bits, ClassBits
  <2> QED
    BY <1>2, <2>1, StillBalanced, Zenon
<1>3. ASSUME NEW a \in Actors, pc[a] \in Others, NEW l \in Others, NEW s, Moves(a, l, s), Same PROVE Goal
  BY <1>3, QuietBalanced
<1> SUFFICES Goal
  OBVIOUS
<1> HIDE DEF Same, Goal
<1>4. ASSUME NEW t \in Threads, Taking(t) PROVE Goal
  <2>1. ASSUME NEW c \in Classes, GetFreeSlab(t, c) \/ GetSegment(t, c) PROVE Goal
    BY <1>1, <1>3, <2>1, GetFreeSlabStep, GetSegmentStep, IsActor, Zenon
       DEF Same, Still, segs, classes, space
  <2>2. CASE SegmentLock(t) \/ SegmentCheck(t) \/ SegmentUnlock(t)
    BY <1>1, <1>3, <2>2, SegmentLockStep, SegmentCheckStep, SegmentUnlockStep, IsActor, Zenon
       DEF Same, Still, segs, classes, space
  <2>3. ASSUME NEW c \in Classes, GrowClass(t, c) PROVE Goal
    BY <2>3, GrowBalanced, Zenon DEF Goal
  <2>4. CASE SlotAlloc(t) \/ SlotCount(t)
    BY <2>4, AllocBalanced, CountBalanced, Zenon DEF Goal
  <2> QED
    BY <1>4, <2>1, <2>2, <2>3, <2>4, Zenon DEF Taking
<1>5. ASSUME NEW t \in Threads, Insert(t) \/ RemoveEntry(t) PROVE Goal
  BY <1>1, <1>2, <1>3, <1>5, InsertStep, IsActor, Zenon
     DEF RemoveEntry, Same, segs, classes, space
<1>6. ASSUME NEW a \in Actors, Freeing(a) PROVE Goal
  <2>1. CASE Uncount(a)
    BY <2>1, UncountBalanced, Zenon DEF Goal
  <2>2. CASE DeallocEnd(a)
    BY <1>1, <1>3, <2>2, DeallocEndStep, Zenon DEF Same, segs, space
  <2>3. CASE Shrink(a) \/ ShrinkWait(a)
    BY <1>1, <1>3, <2>3, ShrinkStep, ShrinkWaitStep, Zenon DEF Same, Still, segs, classes, space
  <2>4. CASE ShrinkEnd(a)
    BY <1>1, <1>3, <2>4, ShrinkEndStep, Zenon DEF Same, segs
  <2> QED
    BY <1>6, <2>1, <2>2, <2>3, <2>4, Zenon DEF Freeing
<1>7. CASE Collecting
  <2>1. CASE GcChoose \/ GcMark \/ GcScan
    BY <1>1, <1>2, <1>3, <2>1, GcChooseStep, GcMarkStep, GcScanStep, IsActor, Zenon
       DEF Same, Still, segs, classes, space
  <2>2. CASE GcShrink \/ GcOut
    BY <1>1, <1>3, <2>2, GcShrinkStep, GcOutStep, IsActor, Zenon DEF Same, segs, space
  <2> QED
    BY <1>7, <2>1, <2>2, Zenon DEF Collecting
<1>8. CASE Halted \/ UNCHANGED vars
  BY <1>2, <1>8, Zenon DEF Halted, vars, segs, classes, space, Same
<1>9. ASSUME (\E t \in Threads : Discard(t)) \/ Logged PROVE Goal
  BY <1>9, FreedBalanced, Zenon DEF Goal
<1> QED
  BY <1>4, <1>5, <1>6, <1>7, <1>8, <1>9, Zenon DEF Next
-----------------------------------------------------------------------------
(* used with the threads it counts.                                         *)
UsedTracks ==
    \A g \in Segs :
        \/ used'[g] = used[g] /\ Users(g)' = Users(g)
        \/ used'[g] = used[g] + 1 /\ Grows(Users(g), Users(g)')
        \/ used'[g] = used[g] - 1 /\ Drops(Users(g), Users(g)')

(* dealloc_pending with the removals that are not logged and the one that   *)
(* the log writer is at.                                                    *)
Dead(c) == {s \in dead : s.c = c}
Logging(c) == {a \in {Lgwr} : pc[a] \in {"uncount", "freed"} /\ my[a].c = c}

PendingTracks ==
    \A c \in Classes :
        \/ dealloc_pending'[c] = dealloc_pending[c] /\ Dead(c)' = Dead(c) /\ Logging(c)' = Logging(c)
        \/ /\ dealloc_pending'[c] = dealloc_pending[c] + 1
           /\ Grows(Dead(c), Dead(c)') /\ Logging(c)' = Logging(c)
        \/ /\ dealloc_pending'[c] = dealloc_pending[c]
           /\ Drops(Dead(c), Dead(c)') /\ Grows(Logging(c), Logging(c)')
        \/ /\ dealloc_pending'[c] = dealloc_pending[c] - 1
           /\ Dead(c)' = Dead(c) /\ Drops(Logging(c), Logging(c)')

LEMMA UsersQuiet ==
    ASSUME NEW a \in Actors, NEW l, NEW s, Moves(a, l, s), used' = used,
           \/ a \notin Threads
           \/ pc[a] \notin Locked /\ l \notin Locked
           \/ pc[a] \in Locked /\ l \in Locked /\ s = my[a]
    PROVE  UsedTracks
<1>1. \A t \in Threads : t # a => pc'[t] = pc[t] /\ my'[t] = my[t]
  BY IsActor DEF Moves
<1>2. a \in Threads => (pc'[a] \in Locked <=> pc[a] \in Locked)
                       /\ (pc[a] \in Locked => my'[a] = my[a])
  BY DEF Moves
<1>3. ASSUME NEW g PROVE Users(g)' = Users(g)
  <2>1. Users(g)' = {t \in Threads : pc'[t] \in Locked /\ my'[t].g = g}
    BY Zenon DEF Users
  <2>2. \A t \in Threads : pc'[t] \in Locked /\ my'[t].g = g <=> pc[t] \in Locked /\ my[t].g = g
    BY <1>1, <1>2, Zenon
  <2> QED
    BY <2>1, <2>2, Zenon DEF Users
<1> QED
  BY <1>3, Zenon DEF UsedTracks

LEMMA LoggingQuiet ==
    ASSUME NEW a \in Actors, NEW l, NEW s, Moves(a, l, s),
           \/ a # Lgwr
           \/ pc[a] \notin {"uncount", "freed"} /\ l \notin {"uncount", "freed"}
           \/ pc[a] = "uncount" /\ l = "freed" /\ s = my[a]
    PROVE  \A c : Logging(c)' = Logging(c)
<1>1. \/ pc'[Lgwr] = pc[Lgwr] /\ my'[Lgwr] = my[Lgwr]
      \/ pc'[Lgwr] \notin {"uncount", "freed"} /\ pc[Lgwr] \notin {"uncount", "freed"}
      \/ pc'[Lgwr] = "freed" /\ pc[Lgwr] = "uncount" /\ my'[Lgwr] = my[Lgwr]
  BY IsActor DEF Moves
<1> QED
  BY <1>1, Zenon DEF Logging

LEMMA PendingQuiet ==
    ASSUME NEW a \in Actors, NEW l, NEW s, Moves(a, l, s), UNCHANGED <<dealloc_pending, dead>>,
           \/ a # Lgwr
           \/ pc[a] \notin {"uncount", "freed"} /\ l \notin {"uncount", "freed"}
           \/ pc[a] = "uncount" /\ l = "freed" /\ s = my[a]
    PROVE  PendingTracks
<1>1. \A c : Logging(c)' = Logging(c)
  BY LoggingQuiet
<1>2. \A c : Dead(c)' = Dead(c)
  BY Zenon DEF Dead
<1> QED
  BY <1>1, <1>2, Zenon DEF PendingTracks

LEMMA LockTracks ==
    ASSUME Types, NEW t \in Threads, NEW l, NEW s, Moves(t, l, s), my[t].g \in Segs,
           \/ /\ pc[t] \notin Locked /\ l \in Locked /\ s = my[t]
              /\ used' = [used EXCEPT ![my[t].g] = @ + 1]
           \/ pc[t] \in Locked /\ l \notin Locked /\ used' = [used EXCEPT ![my[t].g] = @ - 1]
    PROVE  UsedTracks
<1> DEFINE g == my[t].g
<1>1. \A u \in Threads : u # t => pc'[u] = pc[u] /\ my'[u] = my[u]
  BY IsActor DEF Moves
<1>2. pc'[t] = l /\ my'[t] = s
  BY DEF Moves
<1>3. ASSUME NEW h \in Segs, h # g PROVE used'[h] = used[h] /\ Users(h)' = Users(h)
  <2>1. used'[h] = used[h]
    BY <1>3 DEF Types
  <2>2. Users(h)' = {u \in Threads : pc'[u] \in Locked /\ my'[u].g = h}
    BY Zenon DEF Users
  <2>3. \A u \in Threads : pc'[u] \in Locked /\ my'[u].g = h <=> pc[u] \in Locked /\ my[u].g = h
    BY <1>1, <1>2, <1>3, Zenon
  <2> QED
    BY <2>1, <2>2, <2>3, Zenon DEF Users
<1>4. CASE /\ pc[t] \notin Locked /\ l \in Locked /\ s = my[t]
           /\ used' = [used EXCEPT ![g] = @ + 1]
  <2>1. PICK h : h = g
    BY Zenon
  <2>2. used'[h] = used[h] + 1
    BY <1>4, <2>1, Zenon DEF Types
  <2>3. t \notin Users(h) /\ Users(h)' = Users(h) \cup {t}
    BY <1>1, <1>2, <1>4, <2>1, Zenon DEF Users
  <2> QED
    BY <1>3, <2>1, <2>2, <2>3, Zenon DEF UsedTracks, Grows
<1>5. CASE pc[t] \in Locked /\ l \notin Locked /\ used' = [used EXCEPT ![g] = @ - 1]
  <2>1. PICK h : h = g
    OBVIOUS
  <2>2. used'[h] = used[h] - 1
    BY <1>5, <2>1, Zenon DEF Types
  <2>3. t \in Users(h) /\ Users(h)' = Users(h) \ {t}
    BY <1>1, <1>2, <1>5, <2>1, Zenon DEF Users
  <2> QED
    BY <1>3, <2>1, <2>2, <2>3, Zenon DEF UsedTracks, Drops
<1> QED
  BY <1>4, <1>5, Zenon

LEMMA NextUsed == ASSUME AllocInv, Gc \notin MayFail, [Next]_vars PROVE UsedTracks
<1>1. Types
  BY DEF AllocInv
<1> DEFINE Out == {"idle", "lock", "own", "uncount", "freed", "shrink", "wait", "decide", "mark",
                   "scan", "gcshrink", "out"}
<1>2. ASSUME UNCHANGED <<pc, my, used>> PROVE UsedTracks
  BY <1>2, Zenon DEF UsedTracks, Users
<1>3. ASSUME NEW a \in Actors, pc[a] \in Out, NEW l \in Out, NEW s, Moves(a, l, s), used' = used
      PROVE  UsedTracks
  BY <1>3, UsersQuiet DEF Locked
<1>4. ASSUME NEW t \in Threads, pc[t] \in {"recheck", "slot", "count"},
             NEW l \in {"slot", "count", "got", "unlock"}, Moves(t, l, my[t]), used' = used
      PROVE  UsedTracks
  BY <1>4, UsersQuiet, IsActor DEF Locked
<1>5. ASSUME NEW t \in Threads, SegmentLock(t) \/ SegmentUnlock(t) PROVE UsedTracks
  <2>1. CASE SegmentLock(t)
    <3>1. /\ pc[t] = "lock" /\ Moves(t, "recheck", my[t])
          /\ used' = [used EXCEPT ![my[t].g] = @ + 1]
      BY <1>1, <2>1, SegmentLockStep, Zenon
    <3>2. my[t].g \in Segs
      BY <3>1, CallFact, IsActor
    <3> QED
      BY <1>1, <3>1, <3>2, LockTracks, Zenon DEF Locked
  <2>2. CASE SegmentUnlock(t)
    <3>1. /\ used' = [used EXCEPT ![my[t].g] = @ - 1] /\ pc[t] \in {"got", "unlock"}
          /\ Moves(t, "own", my[t]) \/ Moves(t, "idle", Nowhere)
      BY <1>1, <2>2, SegmentUnlockStep, Zenon
    <3>2. my[t].g \in Segs
      BY <3>1, CallFact, IsActor
    <3> QED
      BY <1>1, <3>1, <3>2, LockTracks, Zenon DEF Locked
  <2> QED
    BY <1>5, <2>1, <2>2
<1>6. ASSUME NEW t \in Threads, Taking(t) PROVE UsedTracks
  <2>1. ASSUME NEW c \in Classes, GetFreeSlab(t, c) \/ GetSegment(t, c) PROVE UsedTracks
    BY <1>1, <1>3, <2>1, GetFreeSlabStep, GetSegmentStep, IsActor, Zenon DEF Still, segs
  <2>2. CASE SegmentCheck(t)
    BY <1>1, <1>4, <2>2, SegmentCheckStep, Zenon DEF Still, segs
  <2>3. CASE SlotAlloc(t) \/ SlotCount(t)
    BY <1>1, <1>4, <2>3, SlotAllocStep, SlotCountStep, Zenon
  <2>4. ASSUME NEW c \in Classes, GrowClass(t, c) PROVE UsedTracks
    BY <1>2, <2>4, Zenon DEF GrowClass
  <2> QED
    BY <1>5, <1>6, <2>1, <2>2, <2>3, <2>4, Zenon DEF Taking
<1>7. ASSUME NEW t \in Threads, Insert(t) \/ Discard(t) \/ RemoveEntry(t) PROVE UsedTracks
  BY <1>1, <1>2, <1>3, <1>7, InsertStep, DiscardStep, IsActor, Zenon DEF RemoveEntry, segs
<1>8. CASE Logged
  BY <1>1, <1>3, <1>8, LoggedStep, IsActor, Zenon
<1>9. ASSUME NEW a \in Actors, Freeing(a) PROVE UsedTracks
  <2>1. CASE Uncount(a) \/ DeallocEnd(a)
    BY <1>1, <1>3, <2>1, UncountStep, DeallocEndStep, Zenon DEF segs
  <2>2. CASE Shrink(a) \/ ShrinkWait(a) \/ ShrinkEnd(a)
    BY <1>1, <1>3, <2>2, ShrinkStep, ShrinkWaitStep, ShrinkEndStep, Zenon DEF Still, segs
  <2> QED
    BY <1>9, <2>1, <2>2, Zenon DEF Freeing
<1>10. CASE Collecting
  <2>1. CASE GcChoose \/ GcMark \/ GcScan
    BY <1>1, <1>2, <1>3, <2>1, GcChooseStep, GcMarkStep, GcScanStep, IsActor, Zenon DEF Still, segs
  <2>2. CASE GcShrink \/ GcOut
    BY <1>1, <1>3, <2>2, GcShrinkStep, GcOutStep, IsActor, Zenon DEF segs
  <2> QED
    BY <1>10, <2>1, <2>2, Zenon DEF Collecting
<1>11. CASE Halted \/ UNCHANGED vars
  BY <1>2, <1>11, Zenon DEF Halted, vars, segs
<1> QED
  BY <1>6, <1>7, <1>8, <1>9, <1>10, <1>11, Zenon DEF Next

LEMMA RemoveTracks == ASSUME AllocInv, NEW t \in Threads, RemoveEntry(t) PROVE PendingTracks
<1>1. PICK s \in objs : /\ dead' = dead \cup {s}
                        /\ dealloc_pending' = [dealloc_pending EXCEPT ![s.c] = @ + 1]
  BY Zenon DEF RemoveEntry
<1>2. UNCHANGED <<pc, my>>
  BY DEF RemoveEntry
<1>3. s \notin dead /\ s \in Slab
  BY OwnedFact DEF AllocInv, SlabsApart
<1>4. PICK d : d = s.c
  OBVIOUS
<1>5. d \in Classes
  BY <1>3, <1>4, Zenon DEF Slab
<1>6. dealloc_pending'[d] = dealloc_pending[d] + 1 /\ s \notin Dead(d) /\ Dead(d)' = Dead(d) \cup {s}
  BY <1>1, <1>3, <1>4, <1>5, Zenon DEF AllocInv, Types, Dead
<1>7. ASSUME NEW c \in Classes, c # d
      PROVE  dealloc_pending'[c] = dealloc_pending[c] /\ Dead(c)' = Dead(c)
  BY <1>1, <1>4, <1>7, Zenon DEF AllocInv, Types, Dead
<1>8. \A c : Logging(c)' = Logging(c)
  BY <1>2, Zenon DEF Logging
<1> QED
  BY <1>6, <1>7, <1>8, Zenon DEF PendingTracks, Grows

LEMMA LoggedTracks == ASSUME AllocInv, Logged PROVE PendingTracks
<1>0. Types
  BY DEF AllocInv
<1>1. PICK s \in dead : dead' = dead \ {s} /\ Moves(Lgwr, "uncount", s)
  BY <1>0, LoggedStep, Zenon
<1>2. pc[Lgwr] = "idle" /\ UNCHANGED dealloc_pending
  BY <1>0, LoggedStep, Zenon DEF classes
<1>3. pc'[Lgwr] = "uncount" /\ my'[Lgwr] = s
  BY <1>1 DEF Moves
<1>4. PICK d : d = s.c
  OBVIOUS
<1>5. s \in Dead(d) /\ Dead(d)' = Dead(d) \ {s} /\ \A c : c # d => Dead(c)' = Dead(c)
  BY <1>1, <1>4 DEF Dead
<1>6. Lgwr \notin Logging(d) /\ Logging(d)' = Logging(d) \cup {Lgwr}
  BY <1>2, <1>3, <1>4, Zenon DEF Logging
<1>7. \A c : c # d => Logging(c)' = Logging(c)
  BY <1>2, <1>3, <1>4, Zenon DEF Logging
<1> QED
  BY <1>2, <1>5, <1>6, <1>7, Zenon DEF PendingTracks, Grows, Drops

LEMMA DeallocTracks == ASSUME AllocInv, NEW a \in Actors, DeallocEnd(a) PROVE PendingTracks
<1>0. Types
  BY DEF AllocInv
<1>1. /\ pc[a] = "freed" /\ UNCHANGED dead
      /\ Moves(a, "shrink", my[a]) \/ Moves(a, "idle", Nowhere)
      /\ \/ a = Lgwr /\ dealloc_pending' = [dealloc_pending EXCEPT ![class[my[a].g]] = @ - 1]
         \/ a # Lgwr /\ UNCHANGED dealloc_pending
  BY <1>0, DeallocEndStep, Zenon
<1>2. CASE a # Lgwr
  BY <1>1, <1>2, PendingQuiet
<1>3. CASE a = Lgwr
  <2>1. PICK d : d = my[a].c
    OBVIOUS
  <2>2. class[my[a].g] = d /\ d \in Classes
    BY <1>1, <2>1, CallFact, Zenon
  <2>3. pc'[Lgwr] \notin {"uncount", "freed"}
    BY <1>1, <1>3, Zenon DEF Moves
  <2>4. /\ dealloc_pending'[d] = dealloc_pending[d] - 1
        /\ \A c \in Classes : c # d => dealloc_pending'[c] = dealloc_pending[c]
    BY <1>0, <1>1, <1>3, <2>2, Zenon DEF Types
  <2>5. Lgwr \in Logging(d) /\ Logging(d)' = Logging(d) \ {Lgwr}
    BY <1>1, <1>3, <2>1, <2>3, Zenon DEF Logging
  <2>6. \A c : c # d => Logging(c)' = Logging(c)
    BY <1>1, <1>3, <2>1, <2>3 DEF Logging
  <2>7. \A c : Dead(c)' = Dead(c)
    BY <1>1, Zenon DEF Dead
  <2> QED
    BY <2>4, <2>5, <2>6, <2>7, Zenon DEF PendingTracks, Drops
<1> QED
  BY <1>2, <1>3

LEMMA NextPending == ASSUME AllocInv, Gc \notin MayFail, [Next]_vars PROVE PendingTracks
<1>1. Types
  BY DEF AllocInv
<1> DEFINE Same == UNCHANGED <<dealloc_pending, dead>>
<1>2. ASSUME UNCHANGED <<pc, my>>, Same PROVE PendingTracks
  BY <1>2, Zenon DEF PendingTracks, Dead, Logging
<1>3. ASSUME NEW a \in Actors, a # Lgwr, NEW l, NEW s, Moves(a, l, s), Same PROVE PendingTracks
  BY <1>3, PendingQuiet, Zenon
<1>4. ASSUME NEW a \in Actors, pc[a] \in {"shrink", "wait", "decide"},
             NEW l \in {"idle", "wait", "decide"}, NEW s, Moves(a, l, s), Same PROVE PendingTracks
  BY <1>4, PendingQuiet
<1>5. ASSUME NEW a \in Actors, Uncount(a) PROVE PendingTracks
  BY <1>1, <1>5, UncountStep, PendingQuiet, Zenon DEF slabs
<1>6. Gc # Lgwr
  BY AllocAssumption
<1> HIDE DEF Same
<1>7. ASSUME NEW t \in Threads, Taking(t) PROVE PendingTracks
  <2>1. ASSUME NEW c \in Classes, GetFreeSlab(t, c) \/ GetSegment(t, c) PROVE PendingTracks
    BY <1>1, <1>3, <2>1, GetFreeSlabStep, GetSegmentStep, IsActor, Zenon DEF Same, Still, classes, slabs
  <2>2. CASE SegmentLock(t) \/ SegmentCheck(t) \/ SegmentUnlock(t)
    BY <1>1, <1>3, <2>2, SegmentLockStep, SegmentCheckStep, SegmentUnlockStep, IsActor, Zenon
       DEF Same, Still, classes, slabs
  <2>3. CASE SlotAlloc(t) \/ SlotCount(t)
    BY <1>1, <1>3, <2>3, SlotAllocStep, SlotCountStep, IsActor, Zenon DEF Same, classes, slabs
  <2>4. ASSUME NEW c \in Classes, GrowClass(t, c) PROVE PendingTracks
    BY <1>2, <2>4, Zenon DEF GrowClass, Same, slabs
  <2> QED
    BY <1>7, <2>1, <2>2, <2>3, <2>4, Zenon DEF Taking
<1>8. ASSUME NEW t \in Threads, Insert(t) \/ Discard(t) PROVE PendingTracks
  BY <1>1, <1>3, <1>8, InsertStep, DiscardStep, IsActor, Zenon DEF Same, classes, slabs
<1>9. ASSUME NEW a \in Actors, Shrink(a) \/ ShrinkWait(a) \/ ShrinkEnd(a) PROVE PendingTracks
  BY <1>1, <1>4, <1>9, ShrinkStep, ShrinkWaitStep, ShrinkEndStep, Zenon DEF Same, Still, classes, slabs
<1>10. CASE Collecting
  <2>1. CASE GcChoose \/ GcMark \/ GcScan
    BY <1>1, <1>2, <1>3, <1>6, <2>1, GcChooseStep, GcMarkStep, GcScanStep, IsActor, Zenon
       DEF Same, Still, classes, slabs
  <2>2. CASE GcShrink \/ GcOut
    BY <1>1, <1>3, <1>6, <2>2, GcShrinkStep, GcOutStep, IsActor, Zenon DEF Same, slabs
  <2> QED
    BY <1>10, <2>1, <2>2, Zenon DEF Collecting
<1>11. CASE Halted \/ UNCHANGED vars
  BY <1>2, <1>11, Zenon DEF Halted, vars, Same, classes, slabs
<1> QED
  BY <1>5, <1>7, <1>8, <1>9, <1>10, <1>11, RemoveTracks, LoggedTracks, DeallocTracks, Zenon
     DEF Next, Freeing
-----------------------------------------------------------------------------
(* The log writer has something to take off dealloc_pending.                *)
Owing == pc[Lgwr] = "freed" => dealloc_pending[my[Lgwr].c] # 0

LEMMA NextAsserts == ASSUME AllocInv, Owing, AssertsHold, [Next]_vars PROVE AssertsHold'
<1>1. Types /\ MarkedOut
  BY DEF AllocInv, InPlaces
<1>2. ASSUME UNCHANGED halt PROVE AssertsHold'
  BY <1>2 DEF AssertsHold
<1>3. ASSUME halt' \in {"", "bitmap", "relocate", "null"} PROVE AssertsHold'
  BY <1>3, Zenon DEF AssertsHold
<1>4. ASSUME NEW t \in Threads, Taking(t) PROVE AssertsHold'
  <2>1. ASSUME NEW c \in Classes, GrowClass(t, c) PROVE AssertsHold'
    <3>1. halt' = "bitmap" \/ UNCHANGED halt
      BY <2>1, Zenon DEF GrowClass, AssignSegment
    <3> QED
      BY <1>2, <1>3, <3>1, Zenon
  <2>2. ASSUME NEW c \in Classes, GetFreeSlab(t, c) \/ GetSegment(t, c) PROVE AssertsHold'
    BY <1>2, <2>2, Zenon DEF GetFreeSlab, GetSegment
  <2>3. CASE SegmentLock(t) \/ SegmentCheck(t) \/ SlotAlloc(t) \/ SlotCount(t) \/ SegmentUnlock(t)
    BY <1>2, <2>3, Zenon DEF SegmentLock, SegmentCheck, SlotAlloc, SlotCount, SegmentUnlock
  <2> QED
    BY <1>4, <2>1, <2>2, <2>3, Zenon DEF Taking
<1>5. ASSUME NEW t \in Threads, Insert(t) \/ Discard(t) \/ RemoveEntry(t) PROVE AssertsHold'
  BY <1>2, <1>5, Zenon DEF Insert, Discard, RemoveEntry, ClearBit
<1>6. CASE Logged
  BY <1>2, <1>6, Zenon DEF Logged, ClearBit
<1>7. ASSUME NEW a \in Actors, DeallocEnd(a) PROVE AssertsHold'
  <2>1. /\ pc[a] = "freed"
        /\ \/ a = Lgwr /\ halt' = IF dealloc_pending[class[my[a].g]] = 0 THEN "pending" ELSE ""
           \/ UNCHANGED halt
    BY <1>1, <1>7, DeallocEndStep, Zenon
  <2>2. class[my[a].g] = my[a].c
    BY <2>1, CallFact, Zenon
  <2>3. CASE a = Lgwr /\ halt' = IF dealloc_pending[class[my[a].g]] = 0 THEN "pending" ELSE ""
    <3>1. halt' = ""
      BY <2>1, <2>2, <2>3, Zenon DEF Owing
    <3> QED
      BY <1>3, <3>1, Zenon
  <2> QED
    BY <1>2, <2>1, <2>3, Zenon
<1>8. ASSUME NEW a \in Actors, Freeing(a) PROVE AssertsHold'
  BY <1>2, <1>7, <1>8, Zenon DEF Freeing, Uncount, Shrink, ShrinkWait, ShrinkEnd
<1>9. CASE GcShrink
  <2>1. /\ pc[Gc] = "gcshrink"
        /\ halt' = IF segments[class[my[Gc].g]][idx[my[Gc].g]] = Gc THEN "" ELSE "gc"
    BY <1>1, <1>9, GcShrinkStep, Zenon
  <2>2. class[my[Gc].g] = my[Gc].c
    BY <2>1, CallFact, IsActor, Zenon
  <2>3. halt' = ""
    BY <1>1, <2>1, <2>2, Zenon DEF MarkedOut, Marked
  <2> QED
    BY <1>3, <2>3, Zenon
<1>10. CASE GcScan
  <2>1. halt' = "relocate" \/ UNCHANGED halt
    BY <1>10, Zenon DEF GcScan
  <2> QED
    BY <1>2, <1>3, <2>1, Zenon
<1>13. CASE GcChoose
  <2>1. halt' = "null" \/ UNCHANGED halt
    BY <1>13, Zenon DEF GcChoose, GcAble, GcPick, GcPickNone
  <2> QED
    BY <1>2, <1>3, <2>1, Zenon
<1>11. CASE GcMark \/ GcOut
  BY <1>2, <1>11, Zenon DEF GcMark, GcOut
<1>12. CASE Halted \/ UNCHANGED vars
  BY <1>2, <1>12, Zenon DEF Halted, vars
<1> QED
  BY <1>4, <1>5, <1>6, <1>8, <1>9, <1>10, <1>11, <1>12, <1>13, Zenon DEF Next, Collecting

LEMMA InitAlloc == ASSUME Init PROVE AllocInv /\ AssertsHold
<1>1. NSegs \in Nat /\ Segs = 1 .. NSegs
  BY AllocAssumption DEF Segs
<1>2. /\ class = [g \in Segs |-> None] /\ idx = [g \in Segs |-> 0]
      /\ used = [g \in Segs |-> 0] /\ used_slabs = [g \in Segs |-> 0]
      /\ mos_bitmap = [g \in Segs |-> None]
  BY Zenon DEF Init
<1>3. /\ num_segments = [c \in Classes |-> 0]
      /\ total_slabs = [c \in Classes |-> 0] /\ class_used = [c \in Classes |-> 0]
      /\ dealloc_pending = [c \in Classes |-> 0]
      /\ class_lock = [c \in Classes |-> None]
  BY Zenon DEF Init
<1>4. segments = [c \in Classes |-> [k \in 1 .. NSegs |-> None]]
  BY Zenon DEF Init
<1>5. free_slabs = [c \in Classes |-> [t \in Threads |-> <<>>]]
  BY Zenon DEF Init
<1>6. blk_allocated = 0 /\ objs = {} /\ dead = {}
  BY Zenon DEF Init
<1>0. free_segments \in Seq(Segs) /\ Len(free_segments) = 0
  <2>1. free_segments = <<>>
    BY Zenon DEF Init
  <2>2. <<>> \in Seq(Segs) /\ Len(<<>>) = 0
    BY SMTT(30), ZenonT(30)
  <2> QED
    BY <2>1, <2>2, Zenon
<1>7. pc = [a \in Actors |-> "idle"] /\ my = [a \in Actors |-> Nowhere]
  BY Zenon DEF Init
<1>8. \A a \in Actors : pc[a] = "idle"
  BY <1>7
<1>9. Types
  <2>1. Nowhere \in Calls
    BY <1>1 DEF Nowhere, Calls
  <2>2. pc \in [Actors -> Steps] /\ my \in [Actors -> Calls]
    BY <1>7, <2>1, Zenon DEF Steps
  <2>3. /\ class \in [Segs -> Classes \cup {None}] /\ idx \in [Segs -> Nat]
        /\ used \in [Segs -> Int] /\ used_slabs \in [Segs -> Int]
        /\ mos_bitmap \in [Segs -> {None} \cup SUBSET Nat]
    BY <1>2
  <2>4. /\ num_segments \in [Classes -> Nat] /\ total_slabs \in [Classes -> Int]
        /\ class_used \in [Classes -> Int] /\ dealloc_pending \in [Classes -> Int]
        /\ class_lock \in [Classes -> Actors \cup {None}]
    BY <1>3
  <2>5. segments \in [Classes -> [1 .. NSegs -> Segs \cup {None, Gc}]]
    BY <1>4
  <2>6. free_slabs \in [Classes -> [Threads -> Seq(Slab)]]
    <3>1. <<>> \in Seq(Slab)
      OBVIOUS
    <3>2. \A e \in Seq(Slab) :
            [c \in Classes |-> [t \in Threads |-> e]] \in [Classes -> [Threads -> Seq(Slab)]]
      OBVIOUS
    <3> QED
      BY <1>5, <3>1, <3>2, Zenon
  <2>7. blk_allocated \in 0 .. NSegs
    BY <1>1, <1>6
  <2>8. objs \subseteq Slab /\ dead \subseteq Slab
    BY <1>6, Zenon
  <2> QED
    BY <1>0, <2>2, <2>3, <2>4, <2>5, <2>6, <2>7, <2>8, Zenon DEF Types
<1>10. Given = {}
  <2>1. \A i : i \notin 1 .. Len(free_segments)
    BY <1>0
  <2> QED
    BY <1>9, <2>1, GivenFact, Zenon
<1>11. Control
  BY <1>8, IsActor, Zenon DEF Control, ThreadSteps, LgwrSteps, GcSteps
<1>12. Assigned
  <2>1. \A g \in Segs : ~(g <= blk_allocated)
    BY <1>1, <1>6
  <2>2. \A c \in Classes : num_segments[c] <= blk_allocated
    BY <1>3, <1>6
  <2>3. \A g \in Segs : class[g] = None /\ mos_bitmap[g] = None
    BY <1>2, Zenon
  <2> QED
    BY <1>10, <2>1, <2>2, <2>3, Zenon DEF Assigned
<1>13. AllKnown
  <2>1. \A c \in Classes, t \in Threads : 1 .. Len(free_slabs[c][t]) = {}
    <3>1. 1 .. Len(<<>>) = {}
      OBVIOUS
    <3>2. \A c \in Classes, t \in Threads : free_slabs[c][t] = <<>>
      BY <1>5, Zenon
    <3> QED
      BY <3>1, <3>2, Zenon
  <2> QED
    BY <1>6, <1>8, <2>1, Zenon DEF AllKnown
<1>14. InPlaces
  <2>1. \A c \in Classes, k \in 1 .. NSegs : segments[c][k] = None
    BY <1>4, Zenon
  <2>2. Held
    BY <1>1, <2>1, AllocAssumption, Zenon DEF Held
  <2>3. Behind
    BY <2>1, Zenon DEF Behind
  <2>4. TakenOut /\ MarkedOut
    BY <1>8, IsActor, Zenon DEF TakenOut, MarkedOut, Taken, Marked
  <2> QED
    BY <2>2, <2>3, <2>4, Zenon DEF InPlaces
<1>15. Alone
  BY <1>8, IsActor DEF Alone, Inside
<1>16. SlabsApart
  <2>1. Holders = {}
    BY <1>8 DEF Holders
  <2> QED
    BY <1>6, <2>1, ApartFact, Zenon
<1>17. AssertsHold
  BY Zenon DEF Init, AssertsHold
<1> QED
  BY <1>9, <1>11, <1>12, <1>13, <1>14, <1>15, <1>16, <1>17, Zenon DEF AllocInv
-----------------------------------------------------------------------------
(* Arithmetic of the counts.                                                *)
Sum3(n, b, c, u) == n = b - c + u

Step3(n, b, c, u, nn, bb, cc, uu) ==
    \/ nn = n /\ bb = b + 1 /\ cc = c + 1 /\ uu = u
    \/ nn = n + 1 /\ bb = b /\ cc = c - 1 /\ uu = u
    \/ nn = n /\ bb = b - 1 /\ cc = c /\ uu = u + 1
    \/ nn = n - 1 /\ bb = b /\ cc = c /\ uu = u - 1

LEMMA BalanceSums ==
    ASSUME NEW n, NEW b \in Nat, NEW c \in Nat, NEW u \in Nat, Sum3(n, b, c, u),
           NEW nn, NEW bb, NEW cc, NEW uu, Step3(n, b, c, u, nn, bb, cc, uu)
    PROVE  Sum3(nn, bb, cc, uu)
BY DEF Sum3, Step3

LEMMA NoneLeft == ASSUME NEW b \in Nat, NEW c, NEW u \in Nat, c = 0, Sum3(0, b, c, u) PROVE b = 0
BY DEF Sum3

Sum2(n, d, l) == n = d + l

Step2(n, d, l, nn, dd, ll) ==
    \/ nn = n + 1 /\ dd = d + 1 /\ ll = l
    \/ nn = n /\ dd = d - 1 /\ ll = l + 1
    \/ nn = n - 1 /\ dd = d /\ ll = l - 1

LEMMA PairSums ==
    ASSUME NEW n, NEW d \in Nat, NEW l \in Nat, Sum2(n, d, l),
           NEW nn, NEW dd, NEW ll, Step2(n, d, l, nn, dd, ll)
    PROVE  Sum2(nn, dd, ll)
BY DEF Sum2, Step2

LEMMA SomeLeft == ASSUME NEW n, NEW d \in Nat, NEW l, l = 1, Sum2(n, d, l) PROVE n # 0
BY DEF Sum2

LEMMA NoSums == 0 - 0 + 0 = 0 /\ 0 + 0 = 0
OBVIOUS

LEMMA Counted == ASSUME NEW n \in Nat, NEW x \in Nat, x <= n PROVE n - x \in 0 .. n
OBVIOUS

INSTANCE FiniteSetTheorems

LEMMA GrowsCount ==
    ASSUME NEW S, IsFiniteSet(S), NEW T, Grows(S, T)
    PROVE  IsFiniteSet(T) /\ Cardinality(S) \in Nat /\ Cardinality(T) = Cardinality(S) + 1
<1>1. PICK x : x \notin S /\ T = S \cup {x}
  BY DEF Grows
<1> QED
  BY <1>1, FS_AddElement, FS_CardinalityType, Zenon

LEMMA DropsCount ==
    ASSUME NEW S, IsFiniteSet(S), NEW T, Drops(S, T)
    PROVE  IsFiniteSet(T) /\ Cardinality(S) \in Nat /\ Cardinality(T) = Cardinality(S) - 1
<1>1. PICK x : x \in S /\ T = S \ {x}
  BY Zenon DEF Drops
<1> QED
  BY <1>1, FS_RemoveElement, FS_CardinalityType, Zenon

(* The balance of a count.                                                  *)
Exact(n, B, C, U) ==
    /\ IsFiniteSet(B) /\ IsFiniteSet(C) /\ IsFiniteSet(U)
    /\ n = Cardinality(B) - Cardinality(C) + Cardinality(U)

LEMMA BalancedExact ==
    ASSUME NEW n, NEW B, NEW C, NEW U, NEW nn, NEW BB, NEW CC, NEW UU,
           Exact(n, B, C, U), Balanced(n, B, C, U, nn, BB, CC, UU)
    PROVE  Exact(nn, BB, CC, UU)
<1>1. IsFiniteSet(B) /\ IsFiniteSet(C) /\ IsFiniteSet(U)
  BY DEF Exact
<1>2. Cardinality(B) \in Nat /\ Cardinality(C) \in Nat /\ Cardinality(U) \in Nat
  BY <1>1, FS_CardinalityType, Zenon
<1>3. n = Cardinality(B) - Cardinality(C) + Cardinality(U)
  BY DEF Exact
<1>9. ASSUME IsFiniteSet(BB), IsFiniteSet(CC), IsFiniteSet(UU),
             Step3(n, Cardinality(B), Cardinality(C), Cardinality(U),
                   nn, Cardinality(BB), Cardinality(CC), Cardinality(UU))
      PROVE  Exact(nn, BB, CC, UU)
  <2>1. Sum3(n, Cardinality(B), Cardinality(C), Cardinality(U))
    BY <1>3, Zenon DEF Sum3
  <2>2. Sum3(nn, Cardinality(BB), Cardinality(CC), Cardinality(UU))
    BY <1>2, <1>9, <2>1, BalanceSums, Zenon
  <2> QED
    BY <1>9, <2>2, Zenon DEF Exact, Sum3
<1>4. CASE nn = n /\ BB = B /\ CC = C /\ UU = U
  BY <1>4, Zenon
<1>5. CASE nn = n /\ Grows(B, BB) /\ Grows(C, CC) /\ UU = U
  <2>1. /\ IsFiniteSet(BB) /\ Cardinality(BB) = Cardinality(B) + 1
        /\ IsFiniteSet(CC) /\ Cardinality(CC) = Cardinality(C) + 1
    BY <1>1, <1>5, GrowsCount, Zenon
  <2> QED
    BY <1>1, <1>5, <1>9, <2>1, Zenon DEF Step3
<1>6. CASE nn = n + 1 /\ BB = B /\ Drops(C, CC) /\ UU = U
  <2>1. IsFiniteSet(CC) /\ Cardinality(CC) = Cardinality(C) - 1
    BY <1>1, <1>6, DropsCount, Zenon
  <2> QED
    BY <1>1, <1>6, <1>9, <2>1, Zenon DEF Step3
<1>7. CASE nn = n /\ Drops(B, BB) /\ CC = C /\ Grows(U, UU)
  <2>1. /\ IsFiniteSet(BB) /\ Cardinality(BB) = Cardinality(B) - 1
        /\ IsFiniteSet(UU) /\ Cardinality(UU) = Cardinality(U) + 1
    BY <1>1, <1>7, GrowsCount, DropsCount, Zenon
  <2> QED
    BY <1>1, <1>7, <1>9, <2>1, Zenon DEF Step3
<1>8. CASE nn = n - 1 /\ BB = B /\ CC = C /\ Drops(U, UU)
  <2>1. IsFiniteSet(UU) /\ Cardinality(UU) = Cardinality(U) - 1
    BY <1>1, <1>8, DropsCount, Zenon
  <2> QED
    BY <1>1, <1>8, <1>9, <2>1, Zenon DEF Step3
<1> QED
  BY <1>4, <1>5, <1>6, <1>7, <1>8, Zenon DEF Balanced

(* The four counts.                                                         *)
SegExact == \A g \in Segs : Exact(used_slabs[g], Bits(g), CallsAt(g, "count"), CallsAt(g, "uncount"))

ClassExact ==
    \A c \in Classes :
        Exact(class_used[c], ClassBits(c), ClassCalls(c, "count"), ClassCalls(c, "uncount"))

UsedExact == \A g \in Segs : IsFiniteSet(Users(g)) /\ used[g] = Cardinality(Users(g))

PendingExact ==
    \A c \in Classes :
        /\ IsFiniteSet(Dead(c)) /\ IsFiniteSet(Logging(c))
        /\ dealloc_pending[c] = Cardinality(Dead(c)) + Cardinality(Logging(c))

Counts == SegExact /\ ClassExact /\ UsedExact /\ PendingExact

LEMMA NextCounts == ASSUME AllocInv, Counts, Gc \notin MayFail, [Next]_vars PROVE Counts'
<1>1. SegBalanced /\ ClassBalanced /\ UsedTracks /\ PendingTracks
  BY NextBalanced, NextUsed, NextPending, Zenon
<1>2. SegExact'
  <2>1. ASSUME NEW g \in Segs
        PROVE  Exact(used_slabs'[g], Bits(g)', CallsAt(g, "count")', CallsAt(g, "uncount")')
    <3>1. Exact(used_slabs[g], Bits(g), CallsAt(g, "count"), CallsAt(g, "uncount"))
      BY Zenon DEF Counts, SegExact
    <3>2. Balanced(used_slabs[g], Bits(g), CallsAt(g, "count"), CallsAt(g, "uncount"),
                   used_slabs'[g], Bits(g)', CallsAt(g, "count")', CallsAt(g, "uncount")')
      BY <1>1, Zenon DEF SegBalanced
    <3> QED
      BY <3>1, <3>2, BalancedExact, Zenon
  <2> QED
    BY <2>1, Zenon DEF SegExact, Exact
<1>3. ClassExact'
  <2>1. ASSUME NEW c \in Classes
        PROVE  Exact(class_used'[c], ClassBits(c)', ClassCalls(c, "count")', ClassCalls(c, "uncount")')
    <3>1. Exact(class_used[c], ClassBits(c), ClassCalls(c, "count"), ClassCalls(c, "uncount"))
      BY Zenon DEF Counts, ClassExact
    <3>2. Balanced(class_used[c], ClassBits(c), ClassCalls(c, "count"), ClassCalls(c, "uncount"),
                   class_used'[c], ClassBits(c)', ClassCalls(c, "count")', ClassCalls(c, "uncount")')
      BY <1>1 DEF ClassBalanced
    <3> QED
      BY <3>1, <3>2, BalancedExact, Zenon
  <2> QED
    BY <2>1, Zenon DEF ClassExact, Exact
<1>4. UsedExact'
  <2>1. ASSUME NEW g \in Segs PROVE IsFiniteSet(Users(g)') /\ used'[g] = Cardinality(Users(g)')
    <3>1. IsFiniteSet(Users(g)) /\ used[g] = Cardinality(Users(g))
      BY DEF Counts, UsedExact
    <3>2. CASE used'[g] = used[g] /\ Users(g)' = Users(g)
      BY <3>1, <3>2, Zenon
    <3>3. CASE used'[g] = used[g] + 1 /\ Grows(Users(g), Users(g)')
      BY <3>1, <3>3, GrowsCount, Zenon
    <3>4. CASE used'[g] = used[g] - 1 /\ Drops(Users(g), Users(g)')
      BY <3>1, <3>4, DropsCount, Zenon
    <3> QED
      BY <1>1, <3>2, <3>3, <3>4, Zenon DEF UsedTracks
  <2> QED
    BY <2>1, Zenon DEF UsedExact
<1>5. PendingExact'
  <2>1. ASSUME NEW c \in Classes
        PROVE  /\ IsFiniteSet(Dead(c)') /\ IsFiniteSet(Logging(c)')
               /\ dealloc_pending'[c] = Cardinality(Dead(c)') + Cardinality(Logging(c)')
    <3> DEFINE p == dealloc_pending[c]
               q == dealloc_pending'[c]
               D == Dead(c)
               E == Dead(c)'
               L == Logging(c)
               M == Logging(c)'
    <3>1. IsFiniteSet(D) /\ IsFiniteSet(L) /\ p = Cardinality(D) + Cardinality(L)
      BY DEF Counts, PendingExact
    <3>2. \/ q = p /\ E = D /\ M = L
          \/ q = p + 1 /\ Grows(D, E) /\ M = L
          \/ q = p /\ Drops(D, E) /\ Grows(L, M)
          \/ q = p - 1 /\ E = D /\ Drops(L, M)
      BY <1>1, Zenon DEF PendingTracks
    <3> HIDE DEF p, q, D, E, L, M
    <3>3. IsFiniteSet(E) /\ IsFiniteSet(M) /\ q = Cardinality(E) + Cardinality(M)
      <4>1. Cardinality(D) \in Nat /\ Cardinality(L) \in Nat
        BY <3>1, FS_CardinalityType, Zenon
      <4>6. ASSUME IsFiniteSet(E), IsFiniteSet(M),
                   Step2(p, Cardinality(D), Cardinality(L), q, Cardinality(E), Cardinality(M))
            PROVE  IsFiniteSet(E) /\ IsFiniteSet(M) /\ q = Cardinality(E) + Cardinality(M)
        <5>1. Sum2(p, Cardinality(D), Cardinality(L))
          BY <3>1, Zenon DEF Sum2
        <5>2. Sum2(q, Cardinality(E), Cardinality(M))
          BY <4>1, <4>6, <5>1, PairSums, Zenon
        <5> QED
          BY <4>6, <5>2, Zenon DEF Sum2
      <4>2. CASE q = p /\ E = D /\ M = L
        BY <3>1, <4>2, Zenon
      <4>3. CASE q = p + 1 /\ Grows(D, E) /\ M = L
        <5>1. IsFiniteSet(E) /\ Cardinality(E) = Cardinality(D) + 1
          BY <3>1, <4>3, GrowsCount, Zenon
        <5> QED
          BY <3>1, <4>3, <4>6, <5>1, Zenon DEF Step2
      <4>4. CASE q = p /\ Drops(D, E) /\ Grows(L, M)
        <5>1. /\ IsFiniteSet(E) /\ Cardinality(E) = Cardinality(D) - 1
              /\ IsFiniteSet(M) /\ Cardinality(M) = Cardinality(L) + 1
          BY <3>1, <4>4, GrowsCount, DropsCount, Zenon
        <5> QED
          BY <3>1, <4>4, <4>6, <5>1, Zenon DEF Step2
      <4>5. CASE q = p - 1 /\ E = D /\ Drops(L, M)
        <5>1. IsFiniteSet(M) /\ Cardinality(M) = Cardinality(L) - 1
          BY <3>1, <4>5, DropsCount, Zenon
        <5> QED
          BY <3>1, <4>5, <4>6, <5>1, Zenon DEF Step2
      <4> QED
        BY <3>2, <4>2, <4>3, <4>4, <4>5, Zenon
    <3> QED
      BY <3>3, Zenon DEF q, E, M
  <2> QED
    BY <2>1, Zenon DEF PendingExact
<1> QED
  BY <1>2, <1>3, <1>4, <1>5, Zenon DEF Counts

LEMMA LastPlaceFact ==
    ASSUME NEW c, num_segments[c] \in Nat
    PROVE  /\ LastPlace(c) \in 0 .. num_segments[c]
           /\ \A k \in LastPlace(c) + 1 .. num_segments[c] : segments[c][k] = None
<1> PICK n \in Nat : n = num_segments[c]
  BY Zenon
<1> DEFINE Good(m) == m = 0 \/ segments[c][m] # None
           T == {m \in Nat : m <= n /\ Good(n - m)}
           R == {xy \in Nat \X Nat : xy[1] < xy[2]}
<1>1. T \subseteq Nat /\ T # {}
  <2>1. n \in T
    OBVIOUS
  <2> QED
    BY <2>1, Zenon
<1>2. PICK x \in T : \A y \in T : <<y, x>> \notin R
  <2>1. IsWellFoundedOn(R, Nat)
    BY NatLessThanWellFounded, Zenon DEF OpToRel
  <2> HIDE DEF T, R
  <2> QED
    BY <1>1, <2>1, WFMin, Zenon
<1>3. x \in Nat /\ x <= n /\ Good(n - x)
  BY <1>2, Zenon
<1> HIDE DEF Good
<1>4. ASSUME NEW k \in (n - x) + 1 .. n PROVE segments[c][k] = None
  <2>1. n - k \in Nat /\ n - k <= n /\ n - k < x /\ n - (n - k) = k /\ k # 0
    BY <1>3
  <2>2. CASE Good(k)
    <3>1. n - k \in T
      BY <2>1, <2>2, Zenon
    <3>2. <<n - k, x>> \in R
      BY <1>3, <2>1, Zenon
    <3> QED
      BY <1>2, <3>1, <3>2, Zenon
  <2> QED
    BY <2>1, <2>2, Zenon DEF Good
<1>5. n - x \in 0 .. n
  BY <1>3, Counted, Zenon
<1> DEFINE P(l) == /\ l = 0 \/ segments[c][l] # None
                   /\ \A k \in l + 1 .. n : segments[c][k] = None
<1>6. P(n - x)
  BY <1>3, <1>4, Zenon DEF Good
<1>7. LastPlace(c) = CHOOSE l \in 0 .. n : P(l)
  BY Zenon DEF LastPlace
<1> HIDE DEF P
<1>8. LastPlace(c) \in 0 .. n /\ P(LastPlace(c))
  BY <1>5, <1>6, <1>7, Zenon
<1> QED
  BY <1>8, Zenon DEF P


(* An empty segment is told by its count: nobody at it has set a bit that   *)
(* is not counted yet.                                                      *)
LEMMA EmptiedFact == ASSUME AllocInv, SegExact PROVE Emptied
<1> SUFFICES ASSUME NEW a \in Actors, pc[a] = "decide", used_slabs[my[a].g] = 0
             PROVE  mos_bitmap[my[a].g] = {}
  BY Zenon DEF Emptied
<1> DEFINE g == my[a].g
<1>1. g \in Segs /\ g <= blk_allocated
  BY CallFact, Zenon
<1>2. CallsAt(g, "count") = {}
  <2>1. ASSUME NEW b \in Actors, pc[b] = "count" PROVE my[b].g # g
    <3>1. b \in Threads
      BY <2>1, HolderFact, OwnedFact, Zenon
    <3> QED
      BY <2>1, <3>1, Zenon DEF AllocInv, Alone, Inside
  <2> QED
    BY <2>1, Zenon DEF CallsAt
<1>3. /\ IsFiniteSet(Bits(g)) /\ IsFiniteSet(CallsAt(g, "uncount"))
      /\ 0 = Cardinality(Bits(g)) - Cardinality(CallsAt(g, "count")) + Cardinality(CallsAt(g, "uncount"))
  BY <1>1, Zenon DEF SegExact, Exact
<1>4. Cardinality(CallsAt(g, "count")) = 0
  BY <1>2, FS_EmptySet, Zenon
<1>5. Cardinality(Bits(g)) \in Nat /\ Cardinality(CallsAt(g, "uncount")) \in Nat
  BY <1>3, FS_CardinalityType, Zenon
<1>6. Cardinality(Bits(g)) = 0
  <2>1. Sum3(0, Cardinality(Bits(g)), Cardinality(CallsAt(g, "count")),
             Cardinality(CallsAt(g, "uncount")))
    BY <1>3, Zenon DEF Sum3
  <2> QED
    BY <1>4, <1>5, <2>1, NoneLeft, Zenon
<1>7. Bits(g) = {}
  BY <1>3, <1>6, FS_EmptySet, Zenon
<1> QED
  BY <1>1, <1>7, Zenon DEF Bits

LEMMA DrainedFact == ASSUME UsedExact PROVE Drained
<1> SUFFICES ASSUME NEW g \in Segs, used[g] = 0 PROVE Users(g) = {}
  BY DEF Drained
<1>1. IsFiniteSet(Users(g)) /\ Cardinality(Users(g)) = 0
  BY Zenon DEF UsedExact
<1> QED
  BY <1>1, FS_EmptySet, Zenon

LEMMA TrimmedFact == ASSUME AllocInv PROVE Trimmed
<1>1. \A c \in Classes : num_segments[c] \in Nat
  BY Zenon DEF AllocInv, Types
<1> QED
  BY <1>1, LastPlaceFact, Zenon DEF Trimmed

LEMMA OwingFact == ASSUME AllocInv, PendingExact PROVE Owing
<1> SUFFICES ASSUME pc[Lgwr] = "freed" PROVE dealloc_pending[my[Lgwr].c] # 0
  BY DEF Owing
<1>1. PICK c : c = my[Lgwr].c
  OBVIOUS
<1>2. c \in Classes
  BY <1>1, CallFact, IsActor, Zenon
<1>3. Logging(c) = {Lgwr}
  BY <1>1, Zenon DEF Logging
<1>4. /\ IsFiniteSet(Dead(c))
      /\ dealloc_pending[c] = Cardinality(Dead(c)) + Cardinality(Logging(c))
  BY <1>2, Zenon DEF PendingExact
<1>5. Cardinality(Dead(c)) \in Nat /\ Cardinality(Logging(c)) = 1
  BY <1>3, <1>4, FS_CardinalityType, FS_Singleton, Zenon
<1> QED
  <2>1. Sum2(dealloc_pending[c], Cardinality(Dead(c)), Cardinality(Logging(c)))
    BY <1>4, Zenon DEF Sum2
  <2>2. dealloc_pending[c] # 0
    BY <1>5, <2>1, SomeLeft, Zenon
  <2> QED
    BY <1>1, <2>2, Zenon

LEMMA CountsFact == ASSUME AllocInv, Counts PROVE CountsExact
<1>1. SegmentCounts
  <2> SUFFICES ASSUME NEW g \in 1 .. blk_allocated
               PROVE  used_slabs[g] = Cardinality(mos_bitmap[g]) - InStep(g, "count")
                                      + InStep(g, "uncount")
    BY Zenon DEF SegmentCounts
  <2>1. g \in Segs /\ g <= blk_allocated
    BY AllocAssumption DEF AllocInv, Types, Segs
  <2>2. Bits(g) = mos_bitmap[g]
    BY <2>1, Zenon DEF Bits
  <2>3. \A l : InStep(g, l) = Cardinality(CallsAt(g, l))
    BY Zenon DEF InStep, CallsAt
  <2>4. used_slabs[g] = Cardinality(Bits(g)) - Cardinality(CallsAt(g, "count"))
                        + Cardinality(CallsAt(g, "uncount"))
    BY <2>1, Zenon DEF Counts, SegExact, Exact
  <2>5. /\ InStep(g, "count") = Cardinality(CallsAt(g, "count"))
        /\ InStep(g, "uncount") = Cardinality(CallsAt(g, "uncount"))
    BY <2>3, Zenon
  <2> QED
    BY <2>2, <2>4, <2>5, Zenon
<1>2. ClassCounts
  BY Zenon DEF ClassCounts, Counts, ClassExact, Exact, ClassBits, ClassCalls
<1> QED
  BY <1>1, <1>2, Zenon DEF CountsExact

LEMMA InitCounts == ASSUME Init PROVE Counts
<1>1. /\ used = [g \in Segs |-> 0] /\ used_slabs = [g \in Segs |-> 0]
      /\ class_used = [c \in Classes |-> 0] /\ dealloc_pending = [c \in Classes |-> 0]
  BY Zenon DEF Init
<1>2. /\ class = [g \in Segs |-> None] /\ blk_allocated = 0 /\ dead = {}
      /\ pc = [a \in Actors |-> "idle"]
  BY Zenon DEF Init
<1>3. \A a \in Actors : pc[a] = "idle"
  BY <1>2, Zenon
<1>4. /\ \A g : Users(g) = {}
      /\ \A g : CallsAt(g, "count") = {} /\ CallsAt(g, "uncount") = {}
  BY <1>3, IsActor, Zenon DEF Users, CallsAt, Locked
<1>5. /\ \A c : ClassCalls(c, "count") = {} /\ ClassCalls(c, "uncount") = {}
      /\ \A c : Logging(c) = {} /\ Dead(c) = {}
  BY <1>2, <1>3, IsActor, Zenon DEF ClassCalls, Logging, Dead
<1>6. \A g \in Segs : Bits(g) = {}
  <2>1. \A g \in Segs : ~(g <= blk_allocated)
    BY <1>2 DEF Segs
  <2> QED
    BY <2>1, Zenon DEF Bits
<1>7. ASSUME NEW c \in Classes PROVE ClassBits(c) = {}
  <2>1. \A g \in Segs : class[g] # c
    BY <1>2, AllocAssumption, Zenon
  <2> QED
    BY <2>1, ClassBitsFact, Zenon
<1>8. IsFiniteSet({}) /\ Cardinality({}) = 0 /\ 0 - 0 + 0 = 0 /\ 0 + 0 = 0
  BY FS_EmptySet, NoSums, Zenon
<1>9. Exact(0, {}, {}, {})
  BY <1>8, Zenon DEF Exact
<1>10. SegExact
  BY <1>1, <1>4, <1>6, <1>9, Zenon DEF SegExact
<1>11. ClassExact
  BY <1>1, <1>5, <1>7, <1>9, Zenon DEF ClassExact
<1>12. UsedExact
  BY <1>1, <1>4, <1>8, Zenon DEF UsedExact
<1>13. PendingExact
  BY <1>1, <1>5, <1>8, Zenon DEF PendingExact
<1> QED
  BY <1>10, <1>11, <1>12, <1>13, Zenon DEF Counts

LEMMA AllocAlways ==
    ASSUME Gc \notin MayFail PROVE Spec => [](AllocInv /\ Counts /\ AssertsHold)
<1> DEFINE Inv == AllocInv /\ Counts /\ AssertsHold
<1>1. Init => Inv
  BY InitAlloc, InitCounts, Zenon
<1>2. Inv /\ [Next]_vars => Inv'
  <2> SUFFICES ASSUME AllocInv, Counts, AssertsHold, [Next]_vars PROVE Inv'
    OBVIOUS
  <2>1. Trimmed /\ Drained /\ Emptied /\ Owing
    BY TrimmedFact, DrainedFact, EmptiedFact, OwingFact, Zenon DEF Counts
  <2> QED
    BY <2>1, NextAlloc, NextCounts, NextAsserts, Zenon
<1> QED
  BY <1>1, <1>2, PTL DEF Spec

(* Whatever allocation, freeing, shrinking and compaction do at once        *)
(* (mcd_osd_segment_lock, mcd_fth_osd_shrink_class), no slab of a shard is  *)
(* used twice and none lies in a segment that was given back, as long as    *)
(* update_class does not fail under compaction.                             *)
THEOREM SlabsNeverShared == ASSUME Gc \notin MayFail PROVE Spec => []SlabsApart
<1>1. AllocInv => SlabsApart
  BY DEF AllocInv
<1> QED
  BY <1>1, AllocAlways, PTL

(* used_slabs of a segment and of its class are the bits that are set, but  *)
(* for the calls between setting or clearing a bit and counting it          *)
(* (mcd_osd.c:3761 and 2524).                                               *)
THEOREM CountsAgree == ASSUME Gc \notin MayFail PROVE Spec => []CountsExact
<1>1. AllocInv /\ Counts => CountsExact
  BY CountsFact, Zenon
<1> QED
  BY <1>1, AllocAlways, PTL

(* The assertions on dealloc_pending (mcd_osd.c:2603) and on the place that *)
(* compaction marked (mcd_osd.c:2497) never fail.                           *)
THEOREM AssertsPass == ASSUME Gc \notin MayFail PROVE Spec => []AssertsHold
BY AllocAlways, PTL
=============================================================================
