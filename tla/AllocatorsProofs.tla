-------------------------- MODULE AllocatorsProofs --------------------------
(***************************************************************************)
(* Theorems about the allocators, for every value of their constants.  Each *)
(* part of MCAllocators is an instance of its module: first its own         *)
(* specification is shown to keep what the part promises, then the          *)
(* composition is shown to be an implementation of each part.               *)
(***************************************************************************)
EXTENDS MCAllocators, FiniteSetTheorems, SequenceTheorems, WellFoundedInduction, TLAPS

----------------------------------------------------------------------------
(* The slab allocator keeps its books: its lists, counters and maps         *)
(* describe the blocks its client holds, find_slab finds the slab of each,  *)
(* and the allocator is a pool of blocks.                                   *)

\* The instance's Cardinality is that of FiniteSets.
LEMMA SlabCardinality ==
  ASSUME NEW S
  PROVE  Slab!Cardinality(S) = Cardinality(S)
BY DEF Slab!Cardinality, Cardinality

\* The slots of a slab that are in use, as its map says.
SlabUsed(s) == {i \in Slab!Slots : ~free[s][i]}

SlabTyped ==
  /\ slabs_free \subseteq Addresses /\ slabs_partial \subseteq Addresses
  /\ slabs_full \subseteq Addresses
  /\ hot_slab \in Addresses \cup {Null}
  /\ next_free_cache \in [Addresses -> {-1, 0, 1}]
  /\ size \in [Addresses -> 0 .. PerSlab]
  /\ free \in [Addresses -> [Slab!Slots -> BOOLEAN]]
  /\ slab_held \in [Slab!Blocks -> {0, 1}]

\* Each slab is where its counter says, and memory that is no slab counts nothing.
SlabFiled ==
  /\ \A s \in slabs_free : Slab!Free(s)
  /\ \A s \in slabs_partial : ~Slab!Free(s) /\ ~Slab!Full(s)
  /\ \A s \in slabs_full : Slab!Full(s)
  /\ \A s \in Addresses \ Slab!Slabs : Slab!Free(s)
  /\ slabs_sort = slabs_partial \cup slabs_full
  /\ hot_slab \in Slab!Slabs => ~Slab!Full(hot_slab)
  /\ state = "gone" => slabs_free = {}

\* The counter of a slab is the number of slots its map marks as used, and those are
\* the slots the client holds.
SlabMapped ==
  /\ \A s \in Addresses : size[s] = Cardinality(SlabUsed(s))
  /\ \A b \in Slab!Blocks : slab_held[b] = IF free[b[1]][b[2]] THEN 0 ELSE 1

\* What next_free returns without a look at the map: the cache is 0 in a slab that
\* was never used, 1 after the first allocation, and nothing from the second on.
SlabCached ==
  \A s \in Addresses :
    /\ next_free_cache[s] = 0 => \A i \in Slab!Slots : free[s][i]
    /\ next_free_cache[s] = 1 => PerSlab > 1 /\ free[s][1]

SlabInv == SlabTyped /\ SlabFiled /\ SlabMapped /\ SlabCached

----------------------------------------------------------------------------
(* Numbers and sets *)

\* A set of numbers that is not empty has a least element.
LEMMA LeastNumber ==
  ASSUME NEW T \in SUBSET Nat, T # {}
  PROVE  \E x \in T : \A y \in T : x <= y
<1>1. \E x \in T : \A y \in T : <<y, x>> \notin OpToRel(<, Nat)
  BY NatLessThanWellFounded, WFMin
<1>2. \A x, y \in Nat : <<y, x>> \in OpToRel(<, Nat) <=> y < x
  BY DEF OpToRel
<1>3. PICK x \in T : \A y \in T : <<y, x>> \notin OpToRel(<, Nat)
  BY <1>1
<1>4. \A y \in T : ~(y < x)
  BY <1>2, <1>3
<1> QED BY <1>4

LEMMA MinIsLeast ==
  ASSUME NEW T \in SUBSET Nat, T # {}
  PROVE  Slab!Min(T) \in T /\ \A y \in T : Slab!Min(T) <= y
BY LeastNumber DEF Slab!Min

\* The greatest element of a set of numbers that has one.
LEMMA MaxIsGreatest ==
  ASSUME NEW T \in SUBSET Nat, NEW m \in T, \A y \in T : y <= m
  PROVE  Slab!Max(T) = m
<1>1. \E x \in T : \A y \in T : x >= y
  OBVIOUS
<1>2. Slab!Max(T) \in T /\ \A y \in T : Slab!Max(T) >= y
  BY <1>1 DEF Slab!Max
<1>3. Slab!Max(T) \in Nat /\ Slab!Max(T) >= m /\ Slab!Max(T) <= m
  BY <1>2
<1> QED BY <1>3

\* The slots in use are at most all of them; a slab that is not full has a free one.
LEMMA UsedSlots ==
  ASSUME Slab!SlabAssumption, NEW s
  PROVE  /\ IsFiniteSet(SlabUsed(s)) /\ Cardinality(SlabUsed(s)) \in 0 .. PerSlab
         /\ Cardinality(SlabUsed(s)) = 0 => \A i \in Slab!Slots : free[s][i]
         /\ Cardinality(SlabUsed(s)) < PerSlab => \E i \in Slab!Slots : free[s][i]
<1>1. IsFiniteSet(Slab!Slots) /\ Cardinality(Slab!Slots) = PerSlab
  BY FS_Interval DEF Slab!SlabAssumption, Slab!Slots
<1>2. SlabUsed(s) \subseteq Slab!Slots
  BY DEF SlabUsed
<1>3. /\ IsFiniteSet(SlabUsed(s)) /\ Cardinality(SlabUsed(s)) <= PerSlab
      /\ Cardinality(SlabUsed(s)) \in Nat
  BY <1>1, <1>2, FS_Subset, FS_CardinalityType
<1>4. Cardinality(SlabUsed(s)) = 0 => \A i \in Slab!Slots : free[s][i]
  BY <1>3, FS_EmptySet DEF SlabUsed
<1>5. Cardinality(SlabUsed(s)) < PerSlab => \E i \in Slab!Slots : free[s][i]
  <2>1. SlabUsed(s) = Slab!Slots => Cardinality(SlabUsed(s)) = PerSlab
    BY <1>1
  <2>2. (\A i \in Slab!Slots : ~free[s][i]) => SlabUsed(s) = Slab!Slots
    BY DEF SlabUsed
  <2> QED BY <1>3, <2>1, <2>2 DEF Slab!SlabAssumption
<1> QED BY <1>3, <1>4, <1>5 DEF Slab!SlabAssumption

----------------------------------------------------------------------------
(* What the helpers return *)

\* The slab an allocation comes from is not full, and is no slab, free or partial.
LEMMA BestSlabIsUsable ==
  ASSUME Slab!SlabAssumption, SlabInv, NEW s \in Slab!BestSlab
  PROVE  s \in Addresses /\ ~Slab!Full(s) /\ s \notin slabs_full
BY DEF SlabInv, SlabTyped, SlabFiled, Slab!BestSlab, Slab!Slabs, Slab!Full, Slab!Free,
       Slab!SlabAssumption

\* next_free returns a slot that is free, whether it comes from the cache or the map.
LEMMA NextFreeIsFree ==
  ASSUME Slab!SlabAssumption, SlabInv, NEW s \in Addresses, ~Slab!Full(s)
  PROVE  Slab!NextFree(s) \in Slab!Slots /\ free[s][Slab!NextFree(s)]
<1>1. CASE next_free_cache[s] = -1
  <2> DEFINE T == {i \in Slab!Slots : free[s][i]}
  <2>1. Cardinality(SlabUsed(s)) < PerSlab
    <3>1. /\ size[s] \in 0 .. PerSlab /\ size[s] # PerSlab
          /\ size[s] = Cardinality(SlabUsed(s))
      BY DEF SlabInv, SlabTyped, SlabMapped, Slab!Full
    <3> QED BY <3>1 DEF Slab!SlabAssumption
  <2>2. T # {} /\ T \in SUBSET Nat
    BY <2>1, UsedSlots DEF Slab!Slots, Slab!SlabAssumption
  <2>3. Slab!Min(T) \in T
    BY <2>2, MinIsLeast
  <2> QED BY <1>1, <2>3 DEF Slab!NextFree, Slab!FirstFree
<1>2. CASE next_free_cache[s] # -1
  BY <1>2
     DEF SlabInv, SlabTyped, SlabCached, Slab!NextFree, Slab!Slots, Slab!SlabAssumption
<1> QED BY <1>1, <1>2

\* find_slab finds the slab of a block in use: no slab lies between the two.
LEMMA FindSlabIsOwner ==
  ASSUME Slab!SlabAssumption, SlabInv, NEW b \in Slab!Blocks, slab_held[b] > 0
  PROVE  Slab!FindSlab(b) = b[1]
<1> DEFINE s == b[1]
           above == {t \in slabs_sort : t > s}
<1>1. slabs_sort \in SUBSET Nat /\ s \in Nat
  BY DEF Slab!SlabAssumption, SlabInv, SlabTyped, SlabFiled, Slab!Blocks
<1>2. s \in slabs_sort
  <2>1. s \in Addresses /\ b[2] \in Slab!Slots /\ ~free[s][b[2]]
    BY DEF SlabInv, SlabMapped, Slab!Blocks
  <2>2. ~Slab!Free(s)
    BY <2>1, UsedSlots DEF SlabInv, SlabMapped, Slab!Free
  <2> QED BY <2>1, <2>2 DEF SlabInv, SlabFiled, Slab!Slabs
<1>3. CASE above = {}
  <2>1. \A t \in slabs_sort : t <= s
    BY <1>1, <1>3
  <2>2. Slab!Max(slabs_sort) = s
    BY <1>1, <1>2, <2>1, MaxIsGreatest
  <2> QED BY <1>3, <2>2 DEF Slab!FindSlab
<1>4. CASE above # {}
  <2> DEFINE below == {t \in slabs_sort : t < Slab!Min(above)}
  <2>1. Slab!Min(above) \in above /\ \A t \in above : Slab!Min(above) <= t
    BY <1>1, <1>4, MinIsLeast
  <2>2. below \in SUBSET Nat /\ s \in below
    BY <1>1, <1>2, <2>1
  <2>3. ASSUME NEW t \in below PROVE t <= s
    <3>1. t \in slabs_sort /\ t < Slab!Min(above) /\ t \in Nat /\ Slab!Min(above) \in Nat
      BY <1>1, <2>1
    <3>2. t > s => t \in above
      BY <3>1
    <3>3. t > s => Slab!Min(above) <= t
      BY <2>1, <3>2
    <3> QED BY <1>1, <3>1, <3>3
  <2>4. Slab!Max(below) = s
    BY <2>2, <2>3, MaxIsGreatest
  <2> QED BY <1>4, <2>4 DEF Slab!FindSlab
<1> QED BY <1>3, <1>4

----------------------------------------------------------------------------
(* The invariant *)

LEMMA SlabInitIsFiled ==
  ASSUME Slab!SlabAssumption, Slab!Init
  PROVE  SlabInv
<1>1. \A s \in Addresses : SlabUsed(s) = {}
  BY DEF Slab!Init, SlabUsed
<1>2. Cardinality({}) = 0
  BY FS_EmptySet
<1>3. SlabTyped /\ SlabCached
  BY DEF Slab!Init, SlabTyped, SlabCached, Slab!SlabAssumption
<1>4. SlabFiled
  <2>1. \A s \in Addresses : size[s] = 0
    BY DEF Slab!Init
  <2>2. /\ slabs_free \subseteq Addresses /\ slabs_partial = {} /\ slabs_full = {}
        /\ slabs_sort = {} /\ hot_slab = Null /\ state = "alive"
    BY DEF Slab!Init
  <2> QED BY <2>1, <2>2 DEF SlabFiled, Slab!Slabs, Slab!Free, Slab!SlabAssumption
<1>5. SlabMapped
  BY <1>1, <1>2 DEF Slab!Init, SlabMapped, Slab!Blocks
<1> QED BY <1>3, <1>4, <1>5 DEF SlabInv

\* An allocation.
LEMMA GetSlabEntryStep ==
  ASSUME Slab!SlabAssumption, SlabInv, NEW s \in Addresses, Slab!GetSlabEntry(s)
  PROVE  SlabInv'
<1> DEFINE slot == Slab!NextFree(s)
<1>1. /\ ~Slab!Full(s) /\ s \notin slabs_full
      /\ slot \in Slab!Slots /\ free[s][slot] /\ <<s, slot>> \in Slab!Blocks
      /\ slab_held[<<s, slot>>] = 0 /\ size[s] \in 0 .. PerSlab - 1
  <2>1. ~Slab!Full(s) /\ s \notin slabs_full
    BY BestSlabIsUsable DEF Slab!GetSlabEntry
  <2>2. slot \in Slab!Slots /\ free[s][slot]
    BY <2>1, NextFreeIsFree DEF Slab!GetSlabEntry
  <2>3. <<s, slot>> \in Slab!Blocks
    BY <2>2 DEF Slab!Blocks
  <2>4. slab_held[<<s, slot>>] = 0
    BY <2>2, <2>3 DEF SlabInv, SlabMapped
  <2>5. size[s] \in 0 .. PerSlab - 1
    BY <2>1 DEF SlabInv, SlabTyped, Slab!Full, Slab!SlabAssumption
  <2> QED BY <2>1, <2>2, <2>3, <2>4, <2>5
<1>2. Slab!NextCache(s) \in {-1, 1}
  BY DEF Slab!NextCache
<1>3. SlabTyped'
  BY <1>1, <1>2
     DEF Slab!GetSlabEntry, SlabInv, SlabTyped, Slab!HotAfter, Slab!SlabAssumption,
         Slab!Blocks
<1>4. SlabFiled'
  <2>1. \A t \in Addresses \ {s} : size'[t] = size[t]
    BY DEF Slab!GetSlabEntry, SlabInv, SlabTyped
  <2>2. size'[s] = size[s] + 1
    BY DEF Slab!GetSlabEntry, SlabInv, SlabTyped
  <2>3. /\ slabs_free' = slabs_free \ {s}
        /\ slabs_partial' = IF size'[s] = PerSlab THEN slabs_partial \ {s}
                                                  ELSE slabs_partial \cup {s}
        /\ slabs_full' = IF size'[s] = PerSlab THEN slabs_full \cup {s} ELSE slabs_full
        /\ slabs_sort' = IF size[s] = 0 THEN slabs_sort \cup {s} ELSE slabs_sort
        /\ hot_slab' = IF size'[s] = PerSlab THEN Null ELSE s
        /\ size'[s] # 0 /\ state' = "alive"
    BY <1>1, <2>2 DEF Slab!GetSlabEntry, Slab!Free, Slab!HotAfter, Slab!SlabAssumption
  <2>4. size[s] # 0 => s \in slabs_partial
    BY <1>1 DEF SlabInv, SlabFiled, Slab!Slabs, Slab!Free
  <2>5. /\ \A t \in slabs_free' : Slab!Free(t)'
        /\ \A t \in slabs_partial' : ~Slab!Free(t)' /\ ~Slab!Full(t)'
        /\ \A t \in slabs_full' : Slab!Full(t)'
    BY <1>1, <2>1, <2>3 DEF SlabInv, SlabTyped, SlabFiled, Slab!Free, Slab!Full
  <2>6. \A t \in Addresses \ Slab!Slabs' : Slab!Free(t)'
    BY <2>1, <2>3 DEF SlabInv, SlabFiled, Slab!Slabs, Slab!Free
  <2>7. slabs_sort' = slabs_partial' \cup slabs_full'
    <3>1. slabs_sort = slabs_partial \cup slabs_full
      BY DEF SlabInv, SlabFiled
    <3> QED BY <2>3, <2>4, <3>1
  <2>8. hot_slab' \in Slab!Slabs' => ~Slab!Full(hot_slab)'
    BY <1>3, <2>3 DEF SlabTyped, Slab!Full, Slab!Slabs, Slab!SlabAssumption
  <2> QED BY <2>3, <2>5, <2>6, <2>7, <2>8 DEF SlabFiled
<1>5. SlabMapped'
  <2>1. ASSUME NEW t \in Addresses PROVE size'[t] = Cardinality(SlabUsed(t)')
    <3>1. CASE t = s
      <4>1. SlabUsed(s)' = SlabUsed(s) \cup {slot} /\ slot \notin SlabUsed(s)
        BY <1>1 DEF Slab!GetSlabEntry, SlabInv, SlabTyped, SlabUsed
      <4>2. Cardinality(SlabUsed(s)') = Cardinality(SlabUsed(s)) + 1
        <5>1. IsFiniteSet(SlabUsed(s))
          BY UsedSlots
        <5> HIDE DEF slot
        <5> QED BY <4>1, <5>1, FS_AddElement
      <4> QED BY <3>1, <4>2 DEF Slab!GetSlabEntry, SlabInv, SlabTyped, SlabMapped
    <3>2. CASE t # s
      BY <2>1, <3>2 DEF Slab!GetSlabEntry, SlabInv, SlabTyped, SlabMapped, SlabUsed
    <3> QED BY <3>1, <3>2
  <2>2. ASSUME NEW b \in Slab!Blocks
        PROVE  slab_held'[b] = IF free'[b[1]][b[2]] THEN 0 ELSE 1
    <3>1. b = <<b[1], b[2]>> /\ b[1] \in Addresses /\ b[2] \in Slab!Slots
      BY DEF Slab!Blocks
    <3>2. CASE b = <<s, slot>>
      BY <1>1, <3>1, <3>2 DEF Slab!GetSlabEntry, SlabInv, SlabTyped, SlabMapped
    <3>3. CASE b # <<s, slot>>
      BY <1>1, <3>1, <3>3 DEF Slab!GetSlabEntry, SlabInv, SlabTyped, SlabMapped
    <3> QED BY <3>2, <3>3
  <2> QED BY <2>1, <2>2 DEF SlabMapped
<1>6. SlabCached'
  <2>1. ASSUME NEW t \in Addresses, t # s
        PROVE  next_free_cache'[t] = next_free_cache[t] /\ free'[t] = free[t]
    BY <2>1 DEF Slab!GetSlabEntry, SlabInv, SlabTyped
  <2>2. next_free_cache'[s] = Slab!NextCache(s) /\ Slab!NextCache(s) # 0
    BY <1>2 DEF Slab!GetSlabEntry, SlabInv, SlabTyped
  <2>3. ASSUME Slab!NextCache(s) = 1 PROVE PerSlab > 1 /\ free'[s][1]
    <3>1. next_free_cache[s] \in {0, 1} /\ (next_free_cache[s] + 1) % PerSlab = 1
      BY <2>3 DEF Slab!NextCache, SlabInv, SlabTyped
    <3>2. PerSlab \in Nat \ {0} /\ 1 % PerSlab \in 0 .. 1 /\ 2 % PerSlab # 1
      BY Z3 DEF Slab!SlabAssumption
    <3>3. next_free_cache[s] = 0 /\ PerSlab > 1
      BY <3>1, <3>2
    <3>4. slot = 0 /\ 1 \in Slab!Slots
      BY <3>2, <3>3 DEF Slab!NextFree, Slab!Slots
    <3>5. free[s][1]
      BY <3>3, <3>4 DEF SlabInv, SlabCached
    <3> QED BY <1>1, <3>3, <3>4, <3>5 DEF Slab!GetSlabEntry, SlabInv, SlabTyped
  <2> QED BY <2>1, <2>2, <2>3 DEF SlabInv, SlabCached
<1> QED BY <1>3, <1>4, <1>5, <1>6 DEF SlabInv

\* A block that comes back.
LEMMA PutSlabEntryStep ==
  ASSUME Slab!SlabAssumption, SlabInv, NEW b \in Slab!Blocks, Slab!PutSlabEntry(b)
  PROVE  SlabInv'
<1> DEFINE s == b[1]
           slot == b[2]
<1>1. /\ b = <<s, slot>> /\ s \in Addresses /\ slot \in Slab!Slots
      /\ Slab!FindSlab(b) = s /\ slab_held[b] = 1 /\ ~free[s][slot]
  BY FindSlabIsOwner DEF Slab!PutSlabEntry, SlabInv, SlabTyped, SlabMapped, Slab!Blocks
<1>2. size[s] \in 1 .. PerSlab /\ PerSlab \in Nat
  <2>1. size[s] = Cardinality(SlabUsed(s)) /\ size[s] \in 0 .. PerSlab
    BY <1>1 DEF SlabInv, SlabTyped, SlabMapped
  <2>2. Cardinality(SlabUsed(s)) # 0
    BY <1>1, UsedSlots
  <2> QED BY <2>1, <2>2 DEF Slab!SlabAssumption
<1>3. /\ free' = [free EXCEPT ![s][slot] = TRUE]
      /\ size' = [size EXCEPT ![s] = @ - 1]
      /\ slab_held' = [slab_held EXCEPT ![b] = @ - 1]
      /\ Slab!Relist(s, size[s] = 1)
      /\ UNCHANGED <<hot_slab, next_free_cache, state>> /\ state = "alive"
  BY <1>1 DEF Slab!PutSlabEntry
<1>4. SlabTyped'
  BY <1>1, <1>2, <1>3 DEF SlabInv, SlabTyped, Slab!Relist, Slab!Blocks
<1>5. SlabFiled'
  <2>1. size'[s] = size[s] - 1 /\ \A t \in Addresses \ {s} : size'[t] = size[t]
    BY <1>1, <1>3 DEF SlabInv, SlabTyped
  <2>2. s \in slabs_partial \cup slabs_full
    BY <1>1, <1>2 DEF SlabInv, SlabFiled, Slab!Slabs, Slab!Free
  <2>3. Slab!Slabs' = Slab!Slabs
    BY <1>3, <2>2 DEF Slab!Relist, Slab!Slabs
  <2>4. /\ \A t \in slabs_free' : Slab!Free(t)'
        /\ \A t \in slabs_partial' : ~Slab!Free(t)' /\ ~Slab!Full(t)'
        /\ \A t \in slabs_full' : Slab!Full(t)'
    BY <1>1, <1>2, <1>3, <2>1
       DEF SlabInv, SlabTyped, SlabFiled, Slab!Relist, Slab!Free, Slab!Full
  <2>5. \A t \in Addresses \ Slab!Slabs' : Slab!Free(t)'
    BY <1>1, <2>1, <2>2, <2>3 DEF SlabInv, SlabFiled, Slab!Slabs, Slab!Free
  <2>6. slabs_sort' = slabs_partial' \cup slabs_full'
    BY <1>3, <2>2 DEF SlabInv, SlabFiled, Slab!Relist
  <2>7. hot_slab' \in Slab!Slabs' => ~Slab!Full(hot_slab)'
    <3>1. ASSUME hot_slab \in Slab!Slabs PROVE ~Slab!Full(hot_slab)'
      BY <1>2, <1>3, <2>1, <3>1 DEF SlabInv, SlabTyped, SlabFiled, Slab!Full, Slab!Slabs
    <3> QED BY <1>3, <2>3, <3>1
  <2> QED BY <1>3, <2>4, <2>5, <2>6, <2>7 DEF SlabFiled
<1>6. SlabMapped'
  <2>1. ASSUME NEW t \in Addresses PROVE size'[t] = Cardinality(SlabUsed(t)')
    <3>1. CASE t = s
      <4>1. SlabUsed(s)' = SlabUsed(s) \ {slot} /\ slot \in SlabUsed(s)
        BY <1>1, <1>3 DEF SlabInv, SlabTyped, SlabUsed
      <4>2. Cardinality(SlabUsed(s) \ {slot}) = Cardinality(SlabUsed(s)) - 1
        <5>1. IsFiniteSet(SlabUsed(s))
          BY UsedSlots
        <5> HIDE DEF slot
        <5> QED BY <4>1, <5>1, FS_RemoveElement
      <4> QED BY <1>1, <1>3, <3>1, <4>1, <4>2 DEF SlabInv, SlabTyped, SlabMapped
    <3>2. CASE t # s
      BY <1>3, <2>1, <3>2 DEF SlabInv, SlabTyped, SlabMapped, SlabUsed
    <3> QED BY <3>1, <3>2
  <2>2. ASSUME NEW c \in Slab!Blocks
        PROVE  slab_held'[c] = IF free'[c[1]][c[2]] THEN 0 ELSE 1
    <3>1. c = <<c[1], c[2]>> /\ c[1] \in Addresses /\ c[2] \in Slab!Slots
      BY DEF Slab!Blocks
    <3>2. CASE c = b
      BY <1>1, <1>3, <3>1, <3>2 DEF SlabInv, SlabTyped, SlabMapped
    <3>3. CASE c # b
      BY <1>1, <1>3, <3>1, <3>3 DEF SlabInv, SlabTyped, SlabMapped
    <3> QED BY <3>2, <3>3
  <2> QED BY <2>1, <2>2 DEF SlabMapped
<1>7. SlabCached'
  <2>1. \A t \in Addresses, i \in Slab!Slots : free[t][i] => free'[t][i]
    BY <1>3 DEF SlabInv, SlabTyped
  <2>2. ASSUME NEW t \in Addresses, next_free_cache[t] = 1
        PROVE  1 \in Slab!Slots
    BY <2>2 DEF SlabInv, SlabCached, Slab!Slots, Slab!SlabAssumption
  <2> QED BY <1>3, <2>1, <2>2 DEF SlabInv, SlabCached
<1> QED BY <1>4, <1>5, <1>6, <1>7 DEF SlabInv

\* The slabs that trim_slabs deletes have no block in use: their maps are as new.
LEMMA TrimSlabsStep ==
  ASSUME Slab!SlabAssumption, SlabInv, Slab!TrimSlabs
  PROVE  SlabInv' /\ free' = free
<1>1. \A s \in slabs_free : s \in Addresses /\ \A i \in Slab!Slots : free[s][i]
  <2> SUFFICES ASSUME NEW s \in slabs_free
               PROVE  s \in Addresses /\ \A i \in Slab!Slots : free[s][i]
    OBVIOUS
  <2>1. s \in Addresses /\ size[s] = 0 /\ size[s] = Cardinality(SlabUsed(s))
    BY DEF SlabInv, SlabTyped, SlabFiled, SlabMapped, Slab!Free
  <2> QED BY <2>1, UsedSlots
<1>2. free' = free
  BY <1>1 DEF Slab!TrimSlabs, SlabInv, SlabTyped
<1>3. SlabTyped' /\ SlabFiled'
  BY <1>2
     DEF Slab!TrimSlabs, SlabInv, SlabTyped, SlabFiled, Slab!Slabs, Slab!Free, Slab!Full
<1>4. SlabMapped'
  <2>1. \A s \in Addresses : SlabUsed(s)' = SlabUsed(s)
    BY <1>2 DEF SlabUsed
  <2> QED BY <1>2, <2>1 DEF Slab!TrimSlabs, SlabInv, SlabMapped
<1>5. SlabCached'
  BY <1>1, <1>2 DEF Slab!TrimSlabs, SlabInv, SlabCached
<1> QED BY <1>2, <1>3, <1>4, <1>5 DEF SlabInv

LEMMA SlabDestroyStep ==
  ASSUME Slab!SlabAssumption, SlabInv, Slab!Destroy
  PROVE  SlabInv'
BY DEF Slab!Destroy, Slab!fields, SlabInv, SlabTyped, SlabFiled, SlabMapped,
       SlabCached, Slab!Slabs, Slab!Free, Slab!Full, SlabUsed

\* Arrays, and allocation from a slab that was deleted, touch no slab.
LEMMA SlabOtherStep ==
  ASSUME SlabInv, state' \in {state, "broken"},
         UNCHANGED <<Slab!lists, hot_slab, Slab!fields, slab_held>>
  PROVE  SlabInv'
BY DEF Slab!lists, Slab!fields, SlabInv, SlabTyped, SlabFiled, SlabMapped, SlabCached,
       Slab!Slabs, Slab!Free, Slab!Full, SlabUsed

\* The invariant holds, whatever the addresses and the number of slots.
LEMMA SlabInvariance ==
  ASSUME Slab!SlabAssumption
  PROVE  Slab!Spec => []SlabInv
<1>1. SlabInv /\ [Slab!Next]_(Slab!vars) => SlabInv'
  <2> SUFFICES ASSUME SlabInv, [Slab!Next]_(Slab!vars) PROVE SlabInv'
    OBVIOUS
  <2>1. ASSUME NEW n \in Lengths, Slab!Allocate(n) PROVE SlabInv'
    <3>1. CASE Slab!AllocateArray(n) \/ Slab!UseDeletedSlab
      BY <3>1, SlabOtherStep DEF Slab!AllocateArray, Slab!UseDeletedSlab
    <3>2. CASE \E s \in Addresses : Slab!GetSlabEntry(s)
      BY <3>2, GetSlabEntryStep
    <3> QED BY <2>1, <3>1, <3>2 DEF Slab!Allocate
  <2>2. ASSUME NEW b \in Slab!Blocks, Slab!PutSlabEntry(b) PROVE SlabInv'
    BY <2>2, PutSlabEntryStep
  <2>3. ASSUME NEW i \in DOMAIN slab_arrays, Slab!DeallocateArray(i) PROVE SlabInv'
    BY <2>3, SlabOtherStep DEF Slab!DeallocateArray
  <2>4. CASE Slab!TrimSlabs
    BY <2>4, TrimSlabsStep
  <2>5. CASE Slab!Destroy
    BY <2>5, SlabDestroyStep
  <2>6. CASE UNCHANGED Slab!vars
    BY <2>6, SlabOtherStep DEF Slab!vars
  <2> QED BY <2>1, <2>2, <2>3, <2>4, <2>5, <2>6 DEF Slab!Next
<1>2. QED
  BY <1>1, SlabInitIsFiled, PTL DEF Slab!Spec

----------------------------------------------------------------------------
(* Theorems *)

\* The lists, the counters, the maps and the client agree at every moment.
THEOREM SlabKeepsItsBooks ==
  ASSUME Slab!SlabAssumption
  PROVE  Slab!Spec => []Slab!Bookkeeping
<1>1. SlabInv => Slab!Bookkeeping
  <2>1. \A s \in Addresses :
          SlabUsed(s) = {i \in Slab!Slots : ~free[s][i]}
    BY DEF SlabUsed
  <2> QED
    BY <2>1, SlabCardinality
       DEF SlabInv, SlabTyped, SlabFiled, SlabMapped, Slab!Bookkeeping
<1>2. QED
  BY <1>1, SlabInvariance, PTL

\* find_slab finds the slab of every block in use.
THEOREM SlabFindsTheOwner ==
  ASSUME Slab!SlabAssumption
  PROVE  Slab!Spec => []Slab!OwnerIsFound
<1>1. SlabInv => Slab!OwnerIsFound
  BY FindSlabIsOwner DEF Slab!OwnerIsFound
<1>2. QED
  BY <1>1, SlabInvariance, PTL

\* The destructor reports a leak only to a client that has one.
THEOREM SlabReportsNoFalseLeak ==
  ASSUME Slab!SlabAssumption
  PROVE  Slab!Spec => []Slab!LeakMeansLeak
<1>1. SlabInv => Slab!LeakMeansLeak
  <2> SUFFICES ASSUME SlabInv, state = "gone", \A b \in Slab!Blocks : slab_held[b] = 0
               PROVE  Slab!Slabs = {}
    BY DEF Slab!LeakMeansLeak
  <2>1. ASSUME NEW s \in slabs_partial \cup slabs_full PROVE FALSE
    <3>1. s \in Addresses /\ size[s] # 0 /\ size[s] = Cardinality(SlabUsed(s))
      BY <2>1
         DEF SlabInv, SlabTyped, SlabFiled, SlabMapped, Slab!Free, Slab!Full,
             Slab!SlabAssumption
    <3>2. \A i \in Slab!Slots : <<s, i>> \in Slab!Blocks /\ free[s][i]
      BY <3>1 DEF SlabInv, SlabMapped, Slab!Blocks
    <3>3. SlabUsed(s) = {}
      BY <3>2 DEF SlabUsed
    <3> QED BY <3>1, <3>3, FS_EmptySet
  <2> QED BY <2>1 DEF SlabInv, SlabFiled, Slab!Slabs
<1>2. QED
  BY <1>1, SlabInvariance, PTL

\* No step but the deletion of a free hot slab leaves a hot slab that cannot be used.
THEOREM OnlyTrimmingLosesIt ==
  ASSUME Slab!SlabAssumption
  PROVE  Slab!Spec => Slab!OnlyTrimmingLosesHotSlab
<1> DEFINE Lost == Slab!HotSlabIsUsable /\ ~Slab!HotSlabIsUsable' =>
                     hot_slab \in slabs_free /\ slabs_free' = {}
<1>1. SlabInv /\ SlabInv' /\ [Slab!Next]_(Slab!vars) => [Lost]_(Slab!vars)
  <2> SUFFICES ASSUME SlabInv, SlabInv', Slab!Next,
                      Slab!HotSlabIsUsable, ~Slab!HotSlabIsUsable'
               PROVE  hot_slab \in slabs_free /\ slabs_free' = {}
    OBVIOUS
  <2>1. hot_slab' # Null /\ hot_slab' \notin Slab!Slabs'
    BY DEF Slab!HotSlabIsUsable, SlabInv, SlabFiled
  <2>2. ASSUME NEW s \in Addresses, Slab!GetSlabEntry(s) PROVE FALSE
    BY <2>1, <2>2 DEF Slab!GetSlabEntry, Slab!HotAfter, Slab!Slabs
  <2>3. ASSUME NEW b \in Slab!Blocks, Slab!PutSlabEntry(b) PROVE FALSE
    BY <2>1, <2>3 DEF Slab!PutSlabEntry, Slab!Relist, Slab!HotSlabIsUsable, Slab!Slabs
  <2>4. ASSUME UNCHANGED <<Slab!lists, hot_slab>> PROVE FALSE
    BY <2>1, <2>4 DEF Slab!HotSlabIsUsable, Slab!lists, Slab!Slabs
  <2>5. CASE Slab!TrimSlabs \/ Slab!Destroy
    BY <2>1, <2>5 DEF Slab!TrimSlabs, Slab!Destroy, Slab!HotSlabIsUsable, Slab!Slabs
  <2> QED
    BY <2>2, <2>3, <2>4, <2>5
       DEF Slab!Next, Slab!Allocate, Slab!AllocateArray, Slab!DeallocateArray,
           Slab!UseDeletedSlab
<1>2. QED
  BY <1>1, SlabInvariance, PTL DEF Slab!Spec, Slab!OnlyTrimmingLosesHotSlab

\* The allocator is a pool: it hands out blocks nobody holds, in slabs that exist, and
\* never deletes a slab with a block in use.
THEOREM SlabRefinesPool ==
  ASSUME Slab!SlabAssumption
  PROVE  Slab!Spec => Slab!ImplementsPool
<1>1. Slab!Init => Slab!Pool!Init
  BY DEF Slab!Init, Slab!Pool!Init, Slab!Slabs, Slab!Blocks
<1>2. ASSUME SlabInv, NEW b \in Slab!Blocks, slab_held[b] > 0
      PROVE  b[1] \in slabs_partial \cup slabs_full
  <2>1. b[1] \in Addresses /\ b[2] \in Slab!Slots /\ ~free[b[1]][b[2]]
    BY <1>2 DEF SlabInv, SlabMapped, Slab!Blocks
  <2>2. ~Slab!Free(b[1])
    BY <1>2, <2>1, UsedSlots DEF SlabInv, SlabMapped, Slab!Free
  <2> QED BY <1>2, <2>1, <2>2 DEF SlabInv, SlabFiled, Slab!Slabs
<1>3. SlabInv /\ SlabInv' /\ [Slab!Next]_(Slab!vars)
        => [Slab!Pool!Next]_<<slab_held, Slab!Slabs \X Slab!Slots>>
  <2> SUFFICES ASSUME SlabInv, SlabInv', [Slab!Next]_(Slab!vars)
               PROVE  [Slab!Pool!Next]_<<slab_held, Slab!Slabs \X Slab!Slots>>
    OBVIOUS
  <2>1. ASSUME NEW s \in Addresses, Slab!GetSlabEntry(s) PROVE Slab!Pool!Next
    <3> DEFINE b == <<s, Slab!NextFree(s)>>
    <3>1. b \in Slab!Blocks /\ slab_held[b] = 0 /\ Slab!NextFree(s) \in Slab!Slots
      BY <2>1, BestSlabIsUsable, NextFreeIsFree
         DEF Slab!GetSlabEntry, SlabInv, SlabMapped, Slab!Blocks
    <3>2. slab_held' = [slab_held EXCEPT ![b] = 1]
      BY <2>1, <3>1 DEF Slab!GetSlabEntry
    <3>3. s \in Slab!Slabs' /\ Slab!Slabs \subseteq Slab!Slabs'
      BY <2>1 DEF Slab!GetSlabEntry, Slab!Slabs
    <3>4. Slab!Pool!Allocate(b)
      BY <3>1, <3>2, <3>3 DEF Slab!Pool!Allocate
    <3> QED BY <3>1, <3>4 DEF Slab!Pool!Next
  <2>2. ASSUME NEW b \in Slab!Blocks, Slab!PutSlabEntry(b) PROVE Slab!Pool!Next
    <3>1. slab_held[b] = 1 /\ slab_held[b] > 0
      BY <2>2 DEF Slab!PutSlabEntry, SlabInv, SlabTyped
    <3>2. slab_held' = [slab_held EXCEPT ![b] = 0] /\ Slab!FindSlab(b) = b[1]
      BY <2>2, <3>1, FindSlabIsOwner DEF Slab!PutSlabEntry
    <3>3. Slab!Slabs' = Slab!Slabs
      BY <1>2, <2>2, <3>1, <3>2 DEF Slab!PutSlabEntry, Slab!Relist, Slab!Slabs
    <3>4. \A c \in Slab!Blocks : slab_held[c] > 0 => c \in Slab!Slabs \X Slab!Slots
      BY <1>2 DEF Slab!Blocks, Slab!Slabs
    <3>5. Slab!Pool!Deallocate(b)
      BY <3>1, <3>2, <3>3, <3>4 DEF Slab!Pool!Deallocate, Slab!Pool!InUse
    <3> QED BY <3>5 DEF Slab!Pool!Next
  <2>3. CASE Slab!TrimSlabs \/ Slab!Destroy
    <3>1. slab_held' = slab_held /\ Slab!Slabs' = slabs_partial \cup slabs_full
      BY <2>3 DEF Slab!TrimSlabs, Slab!Destroy, Slab!Slabs
    <3>2. \A c \in Slab!Blocks : slab_held[c] > 0 => c \in Slab!Slabs' \X Slab!Slots
      BY <1>2, <3>1 DEF Slab!Blocks
    <3>3. Slab!Slabs' \subseteq Slab!Slabs
      BY <3>1 DEF Slab!Slabs
    <3> QED BY <3>1, <3>2, <3>3 DEF Slab!Pool!Next, Slab!Pool!Trim, Slab!Pool!InUse
  <2>4. ASSUME UNCHANGED <<Slab!lists, slab_held>>
        PROVE  UNCHANGED <<slab_held, Slab!Slabs \X Slab!Slots>>
    BY <2>4 DEF Slab!lists, Slab!Slabs
  <2> QED
    BY <2>1, <2>2, <2>3, <2>4
       DEF Slab!Next, Slab!Allocate, Slab!AllocateArray, Slab!DeallocateArray,
           Slab!UseDeletedSlab, Slab!vars
<1>4. QED
  BY <1>1, <1>3, SlabInvariance, PTL DEF Slab!Spec, Slab!ImplementsPool, Slab!Pool!Spec

----------------------------------------------------------------------------
(* Chunks: the free list meets the blocks not in use, each once.            *)

\* p lists the blocks of U in the order of a free list of m blocks, which are linked
\* from the first on by their bytes.
FreePath(m, first, byte, U, p) ==
  /\ p \in [0 .. m - 1 -> U]
  /\ \A x \in U : \E j \in 0 .. m - 1 : p[j] = x
  /\ \A j, k \in 0 .. m - 1 : p[j] = p[k] => j = k
  /\ m > 0 => p[0] = first
  /\ \A j \in 1 .. m - 1 : p[j] = byte[p[j - 1]]

\* chunk::chunk
LEMMA PathOfNew ==
  ASSUME NEW n \in Nat \ {0}
  PROVE  FreePath(n, 0, [j \in 0 .. n - 1 |-> j + 1], 0 .. n - 1, [j \in 0 .. n - 1 |-> j])
BY DEF FreePath

\* chunk::allocate
LEMMA PathOfPopped ==
  ASSUME NEW m \in Nat \ {0}, NEW first, NEW byte, NEW U, NEW p,
         FreePath(m, first, byte, U, p)
  PROVE  first \in U /\ \E q : FreePath(m - 1, byte[first], byte, U \ {first}, q)
<1> DEFINE q == [j \in 0 .. m - 2 |-> p[j + 1]]
<1>1. /\ p \in [0 .. m - 1 -> U] /\ p[0] = first /\ 0 \in 0 .. m - 1
      /\ \A x \in U : \E j \in 0 .. m - 1 : p[j] = x
      /\ \A j, k \in 0 .. m - 1 : p[j] = p[k] => j = k
      /\ \A j \in 1 .. m - 1 : p[j] = byte[p[j - 1]]
  BY DEF FreePath
<1>2. first \in U
  BY <1>1
<1>3. \A j \in 0 .. m - 2 : j + 1 \in 0 .. m - 1 /\ j + 1 # 0
  OBVIOUS
<1>4. q \in [0 .. (m - 1) - 1 -> U \ {first}]
  <2>1. \A j \in 0 .. m - 2 : p[j + 1] \in U \ {first}
    BY <1>1, <1>3
  <2>2. (m - 1) - 1 = m - 2
    OBVIOUS
  <2> QED BY <2>1, <2>2
<1>5. ASSUME NEW x \in U \ {first} PROVE \E j \in 0 .. (m - 1) - 1 : q[j] = x
  <2>1. PICK k \in 0 .. m - 1 : p[k] = x
    BY <1>1
  <2>2. k # 0
    BY <1>1, <2>1
  <2>3. k - 1 \in 0 .. m - 2 /\ (k - 1) + 1 = k /\ k - 1 \in 0 .. (m - 1) - 1
    BY <2>2
  <2>4. q[k - 1] = x
    BY <2>1, <2>3
  <2> QED BY <2>3, <2>4
<1>6. ASSUME NEW j \in 0 .. (m - 1) - 1, NEW k \in 0 .. (m - 1) - 1, q[j] = q[k]
      PROVE  j = k
  <2>1. j \in 0 .. m - 2 /\ k \in 0 .. m - 2
    OBVIOUS
  <2>2. p[j + 1] = p[k + 1]
    BY <1>6, <2>1
  <2>3. j + 1 = k + 1
    BY <1>1, <1>3, <2>1, <2>2
  <2> QED BY <2>3
<1>7. m - 1 > 0 => q[0] = byte[first]
  BY <1>1
<1>8. ASSUME NEW j \in 1 .. (m - 1) - 1 PROVE q[j] = byte[q[j - 1]]
  <2>1. j \in 0 .. m - 2 /\ j - 1 \in 0 .. m - 2 /\ j + 1 \in 1 .. m - 1
        /\ (j + 1) - 1 = j /\ (j - 1) + 1 = j
    OBVIOUS
  <2>2. q[j] = p[j + 1] /\ q[j - 1] = p[j]
    BY <2>1
  <2>3. p[j + 1] = byte[p[j]]
    BY <1>1, <2>1
  <2> QED BY <2>2, <2>3
<1> HIDE DEF q
<1>9. FreePath(m - 1, byte[first], byte, U \ {first}, q)
  BY <1>4, <1>5, <1>6, <1>7, <1>8 DEF FreePath
<1> QED BY <1>2, <1>9

\* chunk::deallocate
LEMMA PathOfPushed ==
  ASSUME NEW m \in Nat, NEW first, NEW D, NEW R, NEW byte \in [D -> R], NEW U \in SUBSET D,
         NEW p, FreePath(m, first, byte, U, p), NEW b \in D \ U
  PROVE  \E q : FreePath(m + 1, b, [byte EXCEPT ![b] = first], U \cup {b}, q)
<1> DEFINE q == [j \in 0 .. m |-> IF j = 0 THEN b ELSE p[j - 1]]
           now == [byte EXCEPT ![b] = first]
<1>1. /\ p \in [0 .. m - 1 -> U] /\ (m > 0 => p[0] = first)
      /\ \A x \in U : \E j \in 0 .. m - 1 : p[j] = x
      /\ \A j, k \in 0 .. m - 1 : p[j] = p[k] => j = k
      /\ \A j \in 1 .. m - 1 : p[j] = byte[p[j - 1]]
  BY DEF FreePath
<1>2. /\ (m + 1) - 1 = m /\ q[0] = b
      /\ \A j \in 1 .. m : j - 1 \in 0 .. m - 1 /\ q[j] = p[j - 1] /\ q[j] \in U
  BY <1>1
<1>3. q \in [0 .. (m + 1) - 1 -> U \cup {b}]
  <2>1. \A j \in 0 .. m : (IF j = 0 THEN b ELSE p[j - 1]) \in U \cup {b}
    BY <1>1
  <2> QED BY <1>2, <2>1
<1>4. ASSUME NEW x \in U \cup {b} PROVE \E j \in 0 .. (m + 1) - 1 : q[j] = x
  <2>1. CASE x = b
    BY <1>2, <2>1
  <2>2. CASE x # b
    <3>1. PICK k \in 0 .. m - 1 : p[k] = x
      BY <1>1, <2>2
    <3>2. k + 1 \in 1 .. m /\ k + 1 \in 0 .. (m + 1) - 1 /\ (k + 1) - 1 = k
      OBVIOUS
    <3>3. q[k + 1] = x
      BY <1>2, <3>1, <3>2
    <3> QED BY <3>2, <3>3
  <2> QED BY <2>1, <2>2
<1> HIDE DEF q
<1>5. ASSUME NEW j \in 0 .. (m + 1) - 1, NEW k \in 0 .. (m + 1) - 1, q[j] = q[k]
      PROVE  j = k
  <2>1. CASE j = 0 \/ k = 0
    BY <1>2, <1>5, <2>1
  <2>2. CASE j # 0 /\ k # 0
    <3>1. j \in 1 .. m /\ k \in 1 .. m
      BY <2>2
    <3>2. p[j - 1] = p[k - 1] /\ j - 1 \in 0 .. m - 1 /\ k - 1 \in 0 .. m - 1
      BY <1>2, <1>5, <3>1
    <3>3. j - 1 = k - 1
      BY <1>1, <3>2
    <3> QED BY <3>1, <3>3
  <2> QED BY <2>1, <2>2
<1>6. ASSUME NEW j \in 1 .. (m + 1) - 1 PROVE q[j] = now[q[j - 1]]
  <2>0. j \in 1 .. m
    OBVIOUS
  <2>1. CASE j = 1
    <3>1. q[1] = p[0] /\ q[0] = b /\ p[0] = first
      BY <1>1, <1>2, <2>0, <2>1
    <3> QED BY <2>1, <3>1
  <2>2. CASE j # 1
    <3>1. j - 1 \in 1 .. m /\ j - 1 \in 1 .. m - 1
      BY <2>0, <2>2
    <3>2. q[j] = p[j - 1] /\ q[j - 1] = p[(j - 1) - 1] /\ q[j - 1] \in U
      BY <1>2, <2>0, <3>1
    <3>3. p[j - 1] = byte[p[(j - 1) - 1]]
      BY <1>1, <3>1
    <3>4. now[q[j - 1]] = byte[q[j - 1]]
      BY <3>2
    <3> QED BY <3>2, <3>3, <3>4
  <2> QED BY <2>1, <2>2
<1>7. FreePath(m + 1, b, now, U \cup {b}, q)
  BY <1>2, <1>3, <1>4, <1>5, <1>6 DEF FreePath
<1> QED BY <1>7

\* A client writes into a block it holds.
LEMMA PathOfWritten ==
  ASSUME NEW m \in Nat, NEW first, NEW D, NEW R, NEW byte \in [D -> R], NEW U \in SUBSET D,
         NEW p, FreePath(m, first, byte, U, p), NEW b \in D \ U, NEW v
  PROVE  FreePath(m, first, [byte EXCEPT ![b] = v], U, p)
<1>1. \A j \in 1 .. m - 1 : j - 1 \in 0 .. m - 1 /\ p[j - 1] \in U
  BY DEF FreePath
<1>2. \A x \in U : [byte EXCEPT ![b] = v][x] = byte[x]
  OBVIOUS
<1> QED BY <1>1, <1>2 DEF FreePath

\* The free list of a chunk, walked, gives the blocks that the path lists.
LEMMA FreeListIs ==
  ASSUME NEW c, c.num_blocks_free \in Nat, NEW U, NEW p,
         FreePath(c.num_blocks_free, c.first_free_block, c.byte, U, p)
  PROVE  Fixed!FreeList(c) = U
<1> DEFINE m == c.num_blocks_free
           Is(f) == f = [j \in 0 .. m - 1 |->
                           IF j = 0 THEN c.first_free_block ELSE c.byte[f[j - 1]]]
           walk == CHOOSE f : Is(f)
<1>1. /\ m \in Nat /\ p \in [0 .. m - 1 -> U] /\ (m > 0 => p[0] = c.first_free_block)
      /\ \A x \in U : \E j \in 0 .. m - 1 : p[j] = x
      /\ \A j \in 1 .. m - 1 : p[j] = c.byte[p[j - 1]]
  BY DEF FreePath
<1>2. Is(p)
  <2>1. ASSUME NEW j \in 0 .. m - 1
        PROVE  p[j] = IF j = 0 THEN c.first_free_block ELSE c.byte[p[j - 1]]
    <3>1. CASE j = 0
      BY <1>1, <3>1
    <3>2. CASE j # 0
      BY <1>1, <3>2
    <3> QED BY <3>1, <3>2
  <2> QED BY <1>1, <2>1
<1>3. Is(walk)
  <2> HIDE DEF Is
  <2> QED BY <1>2
<1> HIDE DEF walk
<1>4. \A j \in 0 .. m - 1 : walk[j] = p[j]
  <2> DEFINE R == {j \in 0 .. m - 1 : walk[j] # p[j]}
  <2>1. SUFFICES ASSUME R # {} PROVE FALSE
    OBVIOUS
  <2>2. R \in SUBSET Nat
    OBVIOUS
  <2>3. PICK j \in R : \A k \in R : j <= k
    BY <2>1, <2>2, LeastNumber
  <2>4. j \in 0 .. m - 1 /\ walk[j] # p[j]
    OBVIOUS
  <2>5. j # 0
    BY <1>2, <1>3, <2>4
  <2>6. j - 1 \in 0 .. m - 1 /\ j \in 1 .. m - 1 /\ ~(j <= j - 1)
    BY <2>4, <2>5
  <2>7. walk[j - 1] = p[j - 1]
    BY <2>3, <2>6
  <2>8. walk[j] = c.byte[walk[j - 1]] /\ p[j] = c.byte[p[j - 1]]
    BY <1>2, <1>3, <2>4, <2>5
  <2> QED BY <2>4, <2>7, <2>8
<1>5. {walk[j] : j \in 0 .. m - 1} = U
  <2> HIDE DEF m, Is
  <2>1. \A x \in U : \E j \in 0 .. m - 1 : walk[j] = x
    BY <1>1, <1>4
  <2>2. \A j \in 0 .. m - 1 : walk[j] \in U
    BY <1>1, <1>4
  <2> QED BY <2>1, <2>2, Zenon
<1> QED BY <1>5 DEF Fixed!FreeList, walk

LEMMA SmallFreeListIs ==
  ASSUME NEW c
  PROVE  Small!FreeList(c) = Fixed!FreeList(c)
BY DEF Small!FreeList, Fixed!FreeList

----------------------------------------------------------------------------
(* Fixed allocators of chunks of n blocks.  What the instances call by names *)
(* of their own is spelt out here once.                                      *)

Chunk(n) == [first_free_block : 0 .. n, num_blocks_free : 0 .. n,
             byte : [0 .. n - 1 -> 0 .. n]]

\* A chunk has its blocks U on the free list.
Lists(n, c, U) ==
  /\ c \in Chunk(n) /\ c.num_blocks_free = Cardinality(U)
  /\ \E p : FreePath(c.num_blocks_free, c.first_free_block, c.byte, U, p)

NewOf(n) == [first_free_block |-> 0, num_blocks_free |-> n,
             byte |-> [j \in 0 .. n - 1 |-> j + 1]]
PoppedOf(c) == [c EXCEPT !.num_blocks_free = @ - 1,
                         !.first_free_block = c.byte[c.first_free_block]]
PushedOf(c, b) == [c EXCEPT !.num_blocks_free = @ + 1, !.first_free_block = b,
                            !.byte[b] = c.first_free_block]
WrittenOf(c, b, v) == [c EXCEPT !.byte[b] = v]

LEMMA FiniteIndices ==
  ASSUME NEW n \in Nat \ {0}, NEW U \in SUBSET (0 .. n - 1)
  PROVE  /\ IsFiniteSet(U) /\ Cardinality(U) \in 0 .. n
         /\ Cardinality(0 .. n - 1) = n
         /\ U # 0 .. n - 1 => Cardinality(U) < n
<1>1. IsFiniteSet(0 .. n - 1) /\ Cardinality(0 .. n - 1) = n
  BY FS_Interval
<1>2. IsFiniteSet(U) /\ Cardinality(U) <= Cardinality(0 .. n - 1)
      /\ (Cardinality(0 .. n - 1) = Cardinality(U) => 0 .. n - 1 = U)
  BY <1>1, FS_Subset
<1>3. Cardinality(U) \in Nat
  BY <1>2, FS_CardinalityType
<1> QED BY <1>1, <1>2, <1>3

LEMMA NewLists ==
  ASSUME NEW n \in Nat \ {0}
  PROVE  Lists(n, NewOf(n), 0 .. n - 1)
<1>1. NewOf(n) \in Chunk(n)
  BY DEF NewOf, Chunk
<1>2. NewOf(n).num_blocks_free = Cardinality(0 .. n - 1)
  BY FiniteIndices DEF NewOf
<1>3. FreePath(n, 0, [j \in 0 .. n - 1 |-> j + 1], 0 .. n - 1, [j \in 0 .. n - 1 |-> j])
  BY PathOfNew
<1> QED BY <1>1, <1>2, <1>3 DEF Lists, NewOf

LEMMA PoppedLists ==
  ASSUME NEW n \in Nat \ {0}, NEW U \in SUBSET (0 .. n - 1), NEW c, Lists(n, c, U),
         c.num_blocks_free > 0
  PROVE  /\ c.first_free_block \in U
         /\ Lists(n, PoppedOf(c), U \ {c.first_free_block})
         /\ PoppedOf(c).num_blocks_free = c.num_blocks_free - 1
<1> DEFINE m == c.num_blocks_free
           first == c.first_free_block
           byte == c.byte
           q == PoppedOf(c)
<1>1. /\ c \in Chunk(n) /\ m \in Nat \ {0} /\ m = Cardinality(U)
      /\ byte \in [0 .. n - 1 -> 0 .. n] /\ m <= n
  BY DEF Lists, Chunk
<1>2. PICK p : FreePath(m, first, byte, U, p)
  BY DEF Lists
<1>3. q.num_blocks_free = m - 1 /\ q.first_free_block = byte[first] /\ q.byte = byte
  BY <1>1 DEF PoppedOf, Chunk
<1> HIDE DEF m, first, byte
<1>4. first \in U /\ \E k : FreePath(m - 1, byte[first], byte, U \ {first}, k)
  BY <1>1, <1>2, PathOfPopped
<1>5. q \in Chunk(n)
  <2>1. m - 1 \in 0 .. n /\ byte[first] \in 0 .. n
    BY <1>1, <1>4
  <2>2. q = [c EXCEPT !.num_blocks_free = m - 1, !.first_free_block = byte[first]]
    BY DEF PoppedOf, m, first, byte
  <2> HIDE DEF q
  <2> QED BY <1>1, <2>1, <2>2 DEF Chunk
<1>6. Cardinality(U \ {first}) = m - 1
  <2>1. IsFiniteSet(U)
    BY FiniteIndices
  <2> QED BY <1>1, <1>4, <2>1, FS_RemoveElement
<1> HIDE DEF q
<1>7. Lists(n, q, U \ {first})
  BY <1>3, <1>4, <1>5, <1>6 DEF Lists
<1> QED BY <1>3, <1>4, <1>7 DEF q, m, first

LEMMA PushedLists ==
  ASSUME NEW n \in Nat \ {0}, NEW U \in SUBSET (0 .. n - 1), NEW c, Lists(n, c, U),
         NEW b \in 0 .. n - 1, b \notin U
  PROVE  /\ Lists(n, PushedOf(c, b), U \cup {b})
         /\ PushedOf(c, b).num_blocks_free = c.num_blocks_free + 1
<1> DEFINE m == c.num_blocks_free
           first == c.first_free_block
           byte == c.byte
           q == PushedOf(c, b)
<1>1. /\ c \in Chunk(n) /\ m \in Nat /\ m = Cardinality(U) /\ first \in 0 .. n
      /\ byte \in [0 .. n - 1 -> 0 .. n]
  BY DEF Lists, Chunk
<1>2. PICK p : FreePath(m, first, byte, U, p)
  BY DEF Lists
<1>3. /\ q.num_blocks_free = m + 1 /\ q.first_free_block = b
      /\ q.byte = [byte EXCEPT ![b] = first]
  BY <1>1 DEF PushedOf, Chunk
<1> HIDE DEF m, first, byte
<1>4. \E k : FreePath(m + 1, b, [byte EXCEPT ![b] = first], U \cup {b}, k)
  BY <1>1, <1>2, PathOfPushed
<1>5. Cardinality(U) < n /\ Cardinality(U \cup {b}) = m + 1
  <2>1. IsFiniteSet(U) /\ Cardinality(U) < n
    BY FiniteIndices
  <2> QED BY <1>1, <2>1, FS_AddElement
<1>6. q \in Chunk(n)
  <2> DEFINE now == [byte EXCEPT ![b] = first]
  <2>1. m + 1 \in 0 .. n /\ b \in 0 .. n /\ now \in [0 .. n - 1 -> 0 .. n]
    BY <1>1, <1>5
  <2>2. q = [c EXCEPT !.num_blocks_free = m + 1, !.first_free_block = b, !.byte = now]
    BY <1>1 DEF PushedOf, m, first, byte, Chunk
  <2> HIDE DEF q, now
  <2> QED BY <1>1, <2>1, <2>2 DEF Chunk
<1> HIDE DEF q
<1>7. Lists(n, q, U \cup {b})
  BY <1>3, <1>4, <1>5, <1>6 DEF Lists
<1> QED BY <1>3, <1>7 DEF q, m

LEMMA WrittenLists ==
  ASSUME NEW n \in Nat \ {0}, NEW U \in SUBSET (0 .. n - 1), NEW c, Lists(n, c, U),
         NEW b \in 0 .. n - 1, b \notin U, NEW v \in 0 .. n
  PROVE  /\ Lists(n, WrittenOf(c, b, v), U)
         /\ WrittenOf(c, b, v).num_blocks_free = c.num_blocks_free
<1> DEFINE m == c.num_blocks_free
           first == c.first_free_block
           byte == c.byte
           q == WrittenOf(c, b, v)
<1>1. /\ c \in Chunk(n) /\ m \in Nat /\ m = Cardinality(U) /\ first \in 0 .. n
      /\ byte \in [0 .. n - 1 -> 0 .. n]
  BY DEF Lists, Chunk
<1>2. PICK p : FreePath(m, first, byte, U, p)
  BY DEF Lists
<1>3. /\ q.num_blocks_free = m /\ q.first_free_block = first
      /\ q.byte = [byte EXCEPT ![b] = v]
  BY <1>1 DEF Chunk, WrittenOf
<1>4. q \in Chunk(n)
  <2> DEFINE now == [byte EXCEPT ![b] = v]
  <2>1. now \in [0 .. n - 1 -> 0 .. n]
    BY <1>1
  <2>2. q = [c EXCEPT !.byte = now]
    BY <1>1 DEF Chunk, WrittenOf
  <2> HIDE DEF q, now
  <2> QED BY <1>1, <2>1, <2>2 DEF Chunk
<1> HIDE DEF m, first, byte, q
<1>5. FreePath(m, first, [byte EXCEPT ![b] = v], U, p)
  BY <1>1, <1>2, PathOfWritten
<1>6. Lists(n, q, U)
  BY <1>1, <1>3, <1>4, <1>5 DEF Lists
<1> QED BY <1>3, <1>6 DEF q, m

\* The blocks of a chunk that are not in use.
Unused(n, c, U) == {b \in 0 .. n - 1 : <<c, b>> \notin U}

\* The chunks of a fixed allocator whose blocks U are in use.
Stored(n, chunks, U) ==
  /\ chunks \in Seq(Chunk(n)) /\ U \subseteq (DOMAIN chunks) \X (0 .. n - 1)
  /\ \A c \in DOMAIN chunks : Lists(n, chunks[c], Unused(n, c, U))
  /\ IsFiniteSet(Fixed!FreeBlocks(chunks))

\* What the operations of a chunk make of the chunks.
Put(chunks, c, d) == [chunks EXCEPT ![c] = d]
Pop(chunks, c) == Put(chunks, c, PoppedOf(chunks[c]))
Push(chunks, c, b) == Put(chunks, c, PushedOf(chunks[c], b))
Wrote(chunks, c, b, v) == Put(chunks, c, WrittenOf(chunks[c], b, v))

LEMMA InFreeBlocks ==
  ASSUME NEW chunks
  PROVE  \A x : x \in Fixed!FreeBlocks(chunks) <=>
           \E c \in DOMAIN chunks : \E k \in 1 .. chunks[c].num_blocks_free : x = <<c, k>>
BY DEF Fixed!FreeBlocks

\* One chunk, and what is in use of it, changes.
LEMMA OneChunkChanges ==
  ASSUME NEW n \in Nat \ {0}, NEW chunks, NEW U, Stored(n, chunks, U),
         NEW c \in DOMAIN chunks, NEW V \in SUBSET ((DOMAIN chunks) \X (0 .. n - 1)),
         \A e \in DOMAIN chunks \ {c} : \A b \in 0 .. n - 1 : <<e, b>> \in V <=> <<e, b>> \in U,
         NEW d, Lists(n, d, Unused(n, c, V)),
         IsFiniteSet(Fixed!FreeBlocks(Put(chunks, c, d)))
  PROVE  /\ Stored(n, Put(chunks, c, d), V)
         /\ DOMAIN Put(chunks, c, d) = DOMAIN chunks
         /\ Len(Put(chunks, c, d)) = Len(chunks)
<1> DEFINE now == Put(chunks, c, d)
<1>0. now = [chunks EXCEPT ![c] = d]
  BY DEF Put
<1> HIDE DEF now
<1>1. /\ chunks \in Seq(Chunk(n)) /\ d \in Chunk(n) /\ Len(chunks) \in Nat
      /\ DOMAIN chunks = 1 .. Len(chunks)
  BY LenProperties DEF Stored, Lists
<1>2. now \in Seq(Chunk(n)) /\ Len(now) = Len(chunks)
  BY <1>0, <1>1, ExceptSeq
<1>3. DOMAIN now = DOMAIN chunks
  BY <1>0, <1>1
<1>4. ASSUME NEW e \in DOMAIN chunks PROVE Lists(n, now[e], Unused(n, e, V))
  <2>1. CASE e = c
    BY <1>0, <1>1, <2>1
  <2>2. CASE e # c
    <3>1. Unused(n, e, V) = Unused(n, e, U)
      BY <2>2 DEF Unused
    <3>2. now[e] = chunks[e] /\ Lists(n, chunks[e], Unused(n, e, U))
      BY <1>0, <2>2 DEF Stored
    <3> QED BY <3>1, <3>2
  <2> QED BY <2>1, <2>2
<1>5. IsFiniteSet(Fixed!FreeBlocks(now))
  BY DEF now
<1>6. Stored(n, now, V)
  BY <1>2, <1>3, <1>4, <1>5 DEF Stored
<1> QED BY <1>2, <1>3, <1>6 DEF now

LEMMA UnusedIs ==
  ASSUME NEW n \in Nat \ {0}, NEW c, NEW U, NEW b \in 0 .. n - 1
  PROVE  /\ Unused(n, c, U) \in SUBSET (0 .. n - 1)
         /\ Unused(n, c, U \cup {<<c, b>>}) = Unused(n, c, U) \ {b}
         /\ Unused(n, c, U \ {<<c, b>>}) = Unused(n, c, U) \cup {b}
BY DEF Unused

\* A block is taken from a chunk that has one.
LEMMA StoredPops ==
  ASSUME NEW n \in Nat \ {0}, NEW chunks, NEW U, Stored(n, chunks, U),
         NEW c \in DOMAIN chunks, chunks[c].num_blocks_free > 0
  PROVE  LET b == chunks[c].first_free_block
             now == Pop(chunks, c)
         IN  /\ b \in 0 .. n - 1 /\ <<c, b>> \notin U
             /\ Stored(n, now, U \cup {<<c, b>>})
             /\ DOMAIN now = DOMAIN chunks /\ Len(now) = Len(chunks)
             /\ Cardinality(Fixed!FreeBlocks(now)) = Cardinality(Fixed!FreeBlocks(chunks)) - 1
<1> DEFINE b == chunks[c].first_free_block
           d == PoppedOf(chunks[c])
           now == Put(chunks, c, d)
           m == chunks[c].num_blocks_free
           F == Fixed!FreeBlocks(chunks)
<1>1. /\ chunks \in Seq(Chunk(n)) /\ Lists(n, chunks[c], Unused(n, c, U)) /\ IsFiniteSet(F)
      /\ U \subseteq (DOMAIN chunks) \X (0 .. n - 1)
  BY DEF Stored
<1>2. Unused(n, c, U) \in SUBSET (0 .. n - 1)
  BY DEF Unused
<1>3. /\ b \in Unused(n, c, U) /\ Lists(n, d, Unused(n, c, U) \ {b})
      /\ d.num_blocks_free = m - 1
  BY <1>1, <1>2, PoppedLists
<1>4. b \in 0 .. n - 1 /\ <<c, b>> \notin U
  BY <1>3 DEF Unused
<1>5. m \in Nat \ {0}
  BY <1>1 DEF Lists, Chunk
<1>6. Fixed!FreeBlocks(now) = F \ {<<c, m>>} /\ <<c, m>> \in F
  <2>1. /\ DOMAIN now = DOMAIN chunks /\ now[c].num_blocks_free = m - 1
        /\ \A e \in DOMAIN chunks \ {c} : now[e] = chunks[e]
    BY <1>1, <1>3 DEF Put
  <2> HIDE DEF now, d
  <2>2. <<c, m>> \in F
    BY <1>5, InFreeBlocks
  <2>3. ASSUME NEW x \in Fixed!FreeBlocks(now) PROVE x \in F \ {<<c, m>>}
    <3>0. PICK e \in DOMAIN chunks : \E k \in 1 .. now[e].num_blocks_free : x = <<e, k>>
      BY <2>1, InFreeBlocks
    <3>1. PICK k \in 1 .. now[e].num_blocks_free : x = <<e, k>>
      BY <3>0
    <3>2. CASE e = c
      <4>1. k \in 1 .. m /\ k # m
        BY <1>5, <2>1, <3>2
      <4> QED BY <3>1, <3>2, <4>1, InFreeBlocks
    <3>3. CASE e # c
      <4>1. k \in 1 .. chunks[e].num_blocks_free
        BY <2>1, <3>3
      <4> QED BY <3>1, <3>3, <4>1, InFreeBlocks
    <3> QED BY <3>2, <3>3
  <2>4. ASSUME NEW x \in F, x # <<c, m>> PROVE x \in Fixed!FreeBlocks(now)
    <3>0. PICK e \in DOMAIN chunks : \E k \in 1 .. chunks[e].num_blocks_free : x = <<e, k>>
      BY InFreeBlocks
    <3>1. PICK k \in 1 .. chunks[e].num_blocks_free : x = <<e, k>>
      BY <3>0
    <3>2. CASE e = c
      <4>1. k \in 1 .. m /\ k # m
        BY <2>4, <3>1, <3>2
      <4>2. k \in 1 .. now[e].num_blocks_free
        BY <1>5, <2>1, <3>2, <4>1
      <4> QED BY <2>1, <3>1, <4>2, InFreeBlocks
    <3>3. CASE e # c
      <4>1. k \in 1 .. now[e].num_blocks_free
        BY <2>1, <3>3
      <4> QED BY <2>1, <3>1, <4>1, InFreeBlocks
    <3> QED BY <3>2, <3>3
  <2> HIDE DEF F
  <2> QED BY <2>2, <2>3, <2>4
<1>7. /\ IsFiniteSet(Fixed!FreeBlocks(now))
      /\ Cardinality(Fixed!FreeBlocks(now)) = Cardinality(F) - 1
  <2> DEFINE x == <<c, m>>
             G == Fixed!FreeBlocks(now)
  <2>1. IsFiniteSet(F) /\ x \in F /\ G = F \ {x}
    BY <1>1, <1>6
  <2> HIDE DEF F, G, x
  <2>2. IsFiniteSet(F \ {x}) /\ Cardinality(F \ {x}) = Cardinality(F) - 1
    BY <2>1, FS_RemoveElement
  <2>3. IsFiniteSet(G) /\ Cardinality(G) = Cardinality(F) - 1
    BY <2>1, <2>2
  <2> QED BY <2>3 DEF G
<1>8. Lists(n, d, Unused(n, c, U \cup {<<c, b>>}))
  <2>1. Unused(n, c, U \cup {<<c, b>>}) = Unused(n, c, U) \ {b}
    BY <1>4, UnusedIs
  <2> HIDE DEF b, d
  <2> QED BY <1>3, <2>1
<1> DEFINE V == U \cup {<<c, b>>}
<1>9. /\ V \in SUBSET ((DOMAIN chunks) \X (0 .. n - 1))
      /\ \A e \in DOMAIN chunks \ {c} : \A k \in 0 .. n - 1 : <<e, k>> \in V <=> <<e, k>> \in U
  BY <1>1, <1>4
<1>10. Lists(n, d, Unused(n, c, V))
  BY <1>8
<1> HIDE DEF V, d
<1>11. Stored(n, now, V) /\ DOMAIN now = DOMAIN chunks /\ Len(now) = Len(chunks)
  BY <1>7, <1>9, <1>10, OneChunkChanges
<1>12. Pop(chunks, c) = now
  BY DEF Pop, d
<1> QED BY <1>4, <1>7, <1>11, <1>12 DEF V

\* A block is given back to its chunk.
LEMMA StoredPushes ==
  ASSUME NEW n \in Nat \ {0}, NEW chunks, NEW U, Stored(n, chunks, U),
         NEW x \in U, NEW V, V = U \ {x}
  PROVE  LET now == Push(chunks, x[1], x[2])
         IN  /\ Stored(n, now, V)
             /\ DOMAIN now = DOMAIN chunks /\ Len(now) = Len(chunks)
             /\ Cardinality(Fixed!FreeBlocks(now)) = Cardinality(Fixed!FreeBlocks(chunks)) + 1
<1> DEFINE c == x[1]
           b == x[2]
<1>0. c \in DOMAIN chunks /\ b \in 0 .. n - 1 /\ x = <<c, b>>
  BY DEF Stored
<1> HIDE DEF c, b
<1> DEFINE d == PushedOf(chunks[c], b)
           now == Put(chunks, c, d)
           m == chunks[c].num_blocks_free
           F == Fixed!FreeBlocks(chunks)
<1>1. /\ chunks \in Seq(Chunk(n)) /\ Lists(n, chunks[c], Unused(n, c, U)) /\ IsFiniteSet(F)
      /\ U \subseteq (DOMAIN chunks) \X (0 .. n - 1)
  BY <1>0 DEF Stored
<1>2. Unused(n, c, U) \in SUBSET (0 .. n - 1) /\ b \in 0 .. n - 1 /\ b \notin Unused(n, c, U)
  BY <1>0 DEF Unused
<1>3. Lists(n, d, Unused(n, c, U) \cup {b}) /\ d.num_blocks_free = m + 1
  <2> DEFINE ch == chunks[c]
             X == Unused(n, c, U)
  <2>1. Lists(n, ch, X) /\ X \in SUBSET (0 .. n - 1) /\ b \in 0 .. n - 1 /\ b \notin X
    BY <1>1, <1>2
  <2> HIDE DEF ch, X
  <2>2. Lists(n, PushedOf(ch, b), X \cup {b})
    BY <2>1, PushedLists
  <2>3. PushedOf(ch, b).num_blocks_free = ch.num_blocks_free + 1
    BY <2>1, PushedLists
  <2> QED BY <2>2, <2>3 DEF ch, X
<1>5. m \in Nat
  <2>1. chunks[c] \in Chunk(n)
    BY <1>1 DEF Lists
  <2>2. chunks[c].num_blocks_free \in 0 .. n
    BY <2>1 DEF Chunk
  <2> QED BY <2>2
<1>6. Fixed!FreeBlocks(now) = F \cup {<<c, m + 1>>} /\ <<c, m + 1>> \notin F
  <2>0. c \in DOMAIN chunks
    BY <1>0
  <2>1. /\ DOMAIN now = DOMAIN chunks /\ now[c].num_blocks_free = m + 1
        /\ \A e \in DOMAIN chunks \ {c} : now[e] = chunks[e]
    BY <1>0, <1>1, <1>3 DEF Put
  <2> HIDE DEF now, d
  <2>2. <<c, m + 1>> \notin F
    <3>1. ~(m + 1 \in 1 .. m)
      BY <1>5
    <3> QED BY <3>1, InFreeBlocks
  <2>3. ASSUME NEW y \in Fixed!FreeBlocks(now), y # <<c, m + 1>> PROVE y \in F
    <3>0. PICK e \in DOMAIN chunks : \E k \in 1 .. now[e].num_blocks_free : y = <<e, k>>
      BY <2>1, InFreeBlocks
    <3>1. PICK k \in 1 .. now[e].num_blocks_free : y = <<e, k>>
      BY <3>0
    <3>2. CASE e = c
      <4>1. k \in 1 .. m
        BY <1>5, <2>1, <2>3, <3>1, <3>2
      <4> QED BY <3>1, <3>2, <4>1, InFreeBlocks
    <3>3. CASE e # c
      <4>1. k \in 1 .. chunks[e].num_blocks_free
        BY <2>1, <3>3
      <4> QED BY <3>1, <3>3, <4>1, InFreeBlocks
    <3> QED BY <3>2, <3>3
  <2>4. ASSUME NEW y \in F PROVE y \in Fixed!FreeBlocks(now)
    <3>0. PICK e \in DOMAIN chunks : \E k \in 1 .. chunks[e].num_blocks_free : y = <<e, k>>
      BY InFreeBlocks
    <3>1. PICK k \in 1 .. chunks[e].num_blocks_free : y = <<e, k>>
      BY <3>0
    <3>2. CASE e = c
      <4>2. k \in 1 .. now[e].num_blocks_free
        BY <1>5, <2>1, <3>2
      <4> QED BY <2>1, <3>1, <4>2, InFreeBlocks
    <3>3. CASE e # c
      <4>1. k \in 1 .. now[e].num_blocks_free
        BY <2>1, <3>3
      <4> QED BY <2>1, <3>1, <4>1, InFreeBlocks
    <3> QED BY <3>2, <3>3
  <2>5. <<c, m + 1>> \in Fixed!FreeBlocks(now)
    <3>1. m + 1 \in 1 .. now[c].num_blocks_free
      BY <1>5, <2>1
    <3> QED BY <2>0, <2>1, <3>1, InFreeBlocks
  <2> HIDE DEF F
  <2> QED BY <2>2, <2>3, <2>4, <2>5
<1>7. /\ IsFiniteSet(Fixed!FreeBlocks(now))
      /\ Cardinality(Fixed!FreeBlocks(now)) = Cardinality(F) + 1
  <2> DEFINE y == <<c, m + 1>>
             G == Fixed!FreeBlocks(now)
  <2>1. IsFiniteSet(F) /\ y \notin F /\ G = F \cup {y}
    BY <1>1, <1>6
  <2> HIDE DEF F, G, y
  <2>2. IsFiniteSet(F \cup {y}) /\ Cardinality(F \cup {y}) = Cardinality(F) + 1
    BY <2>1, FS_AddElement
  <2>3. IsFiniteSet(G) /\ Cardinality(G) = Cardinality(F) + 1
    BY <2>1, <2>2
  <2> QED BY <2>3 DEF G
<1>9. /\ V \in SUBSET ((DOMAIN chunks) \X (0 .. n - 1))
      /\ \A e \in DOMAIN chunks \ {c} : \A k \in 0 .. n - 1 : <<e, k>> \in V <=> <<e, k>> \in U
  BY <1>0, <1>1
<1>10. Lists(n, d, Unused(n, c, V))
  <2>1. Unused(n, c, V) = Unused(n, c, U) \cup {b}
    BY <1>0 DEF Unused
  <2> HIDE DEF d
  <2> QED BY <1>3, <2>1
<1> HIDE DEF d
<1>11. Stored(n, now, V) /\ DOMAIN now = DOMAIN chunks /\ Len(now) = Len(chunks)
  BY <1>0, <1>7, <1>9, <1>10, OneChunkChanges
<1>12. Push(chunks, x[1], x[2]) = now
  BY DEF Push, d, c, b
<1> HIDE DEF now
<1> QED BY <1>7, <1>11, <1>12

\* A client writes into a block it holds.
LEMMA StoredWrites ==
  ASSUME NEW n \in Nat \ {0}, NEW chunks, NEW U, Stored(n, chunks, U),
         NEW x \in U, NEW v \in 0 .. n
  PROVE  LET now == Wrote(chunks, x[1], x[2], v)
         IN  /\ Stored(n, now, U)
             /\ DOMAIN now = DOMAIN chunks /\ Len(now) = Len(chunks)
             /\ Fixed!FreeBlocks(now) = Fixed!FreeBlocks(chunks)
<1> DEFINE c == x[1]
           b == x[2]
<1>0. c \in DOMAIN chunks /\ b \in 0 .. n - 1 /\ x = <<c, b>>
  BY DEF Stored
<1> HIDE DEF c, b
<1> DEFINE d == WrittenOf(chunks[c], b, v)
           now == Put(chunks, c, d)
<1>1. /\ chunks \in Seq(Chunk(n)) /\ Lists(n, chunks[c], Unused(n, c, U))
      /\ IsFiniteSet(Fixed!FreeBlocks(chunks)) /\ U \subseteq (DOMAIN chunks) \X (0 .. n - 1)
  BY <1>0 DEF Stored
<1>2. Unused(n, c, U) \in SUBSET (0 .. n - 1) /\ b \in 0 .. n - 1 /\ b \notin Unused(n, c, U)
  BY <1>0 DEF Unused
<1>3. Lists(n, d, Unused(n, c, U)) /\ d.num_blocks_free = chunks[c].num_blocks_free
  <2> DEFINE ch == chunks[c]
             X == Unused(n, c, U)
  <2>1. Lists(n, ch, X) /\ X \in SUBSET (0 .. n - 1) /\ b \in 0 .. n - 1 /\ b \notin X
    BY <1>1, <1>2
  <2> HIDE DEF ch, X
  <2>2. Lists(n, WrittenOf(ch, b, v), X)
    BY <2>1, WrittenLists
  <2>3. WrittenOf(ch, b, v).num_blocks_free = ch.num_blocks_free
    BY <2>1 DEF Lists, Chunk, WrittenOf
  <2> QED BY <2>2, <2>3 DEF ch, X
<1>4. /\ DOMAIN now = DOMAIN chunks
      /\ \A e \in DOMAIN chunks : now[e].num_blocks_free = chunks[e].num_blocks_free
  BY <1>0, <1>1, <1>3 DEF Put
<1>5. Wrote(chunks, x[1], x[2], v) = now
  BY DEF Wrote, c, b
<1> HIDE DEF d
<1>6. Fixed!FreeBlocks(now) = Fixed!FreeBlocks(chunks)
  <2> HIDE DEF now
  <2> QED BY <1>4 DEF Fixed!FreeBlocks
<1>7. Stored(n, now, U) /\ Len(now) = Len(chunks)
  BY <1>0, <1>1, <1>3, <1>6, OneChunkChanges
<1> QED BY <1>4, <1>5, <1>6, <1>7

\* A new chunk comes behind the others.
LEMMA StoredGrows ==
  ASSUME NEW n \in Nat \ {0}, NEW chunks, NEW U, Stored(n, chunks, U)
  PROVE  LET now == Append(chunks, NewOf(n))
         IN  /\ Stored(n, now, U) /\ DOMAIN now = 1 .. Len(chunks) + 1
             /\ Len(now) = Len(chunks) + 1 /\ now[Len(chunks) + 1].num_blocks_free = n
             /\ Cardinality(Fixed!FreeBlocks(now)) = Cardinality(Fixed!FreeBlocks(chunks)) + n
<1> DEFINE d == NewOf(n)
           now == Append(chunks, d)
           k == Len(chunks) + 1
           F == Fixed!FreeBlocks(chunks)
           G == {k} \X (1 .. n)
<1>1. /\ chunks \in Seq(Chunk(n)) /\ Len(chunks) \in Nat /\ DOMAIN chunks = 1 .. Len(chunks)
      /\ IsFiniteSet(F) /\ U \subseteq (DOMAIN chunks) \X (0 .. n - 1)
      /\ \A c \in DOMAIN chunks : Lists(n, chunks[c], Unused(n, c, U))
  BY LenProperties DEF Stored
<1>2. Lists(n, d, 0 .. n - 1) /\ d.num_blocks_free = n /\ d \in Chunk(n)
  BY NewLists DEF NewOf, Lists
<1> HIDE DEF d
<1>3. /\ now \in Seq(Chunk(n)) /\ Len(now) = k /\ now[k] = d
      /\ \A c \in 1 .. Len(chunks) : now[c] = chunks[c]
  BY <1>1, <1>2, AppendProperties
<1>4. DOMAIN now = 1 .. k
  BY <1>3, LenProperties
<1> HIDE DEF now
<1>5. 1 .. k = DOMAIN chunks \cup {k} /\ k \notin DOMAIN chunks
  BY <1>1
<1> HIDE DEF k
<1>6. Unused(n, k, U) = 0 .. n - 1
  BY <1>1, <1>5 DEF Unused
<1>7. ASSUME NEW c \in DOMAIN now PROVE Lists(n, now[c], Unused(n, c, U))
  <2>1. CASE c = k
    BY <1>2, <1>3, <1>6, <2>1
  <2>2. CASE c # k
    <3>1. c \in DOMAIN chunks
      BY <1>4, <1>5, <2>2
    <3> QED BY <1>1, <1>3, <3>1
  <2> QED BY <2>1, <2>2
<1>8. Fixed!FreeBlocks(now) = F \cup G /\ F \cap G = {}
  <2>1. /\ now[k].num_blocks_free = n
        /\ \A c \in DOMAIN chunks : now[c].num_blocks_free = chunks[c].num_blocks_free
    BY <1>1, <1>2, <1>3
  <2>2. F \cap G = {}
    BY <1>5, InFreeBlocks
  <2>3. ASSUME NEW x \in Fixed!FreeBlocks(now) PROVE x \in F \cup G
    <3>0. PICK c \in DOMAIN now : \E j \in 1 .. now[c].num_blocks_free : x = <<c, j>>
      BY InFreeBlocks
    <3>1. PICK j \in 1 .. now[c].num_blocks_free : x = <<c, j>>
      BY <3>0
    <3>2. CASE c = k
      BY <2>1, <3>1, <3>2
    <3>3. CASE c # k
      <4>1. c \in DOMAIN chunks /\ j \in 1 .. chunks[c].num_blocks_free
        BY <1>4, <1>5, <2>1, <3>3
      <4> QED BY <3>1, <4>1, InFreeBlocks
    <3> QED BY <3>2, <3>3
  <2>4. ASSUME NEW x \in F PROVE x \in Fixed!FreeBlocks(now)
    <3>0. PICK c \in DOMAIN chunks : \E j \in 1 .. chunks[c].num_blocks_free : x = <<c, j>>
      BY InFreeBlocks
    <3>1. PICK j \in 1 .. chunks[c].num_blocks_free : x = <<c, j>>
      BY <3>0
    <3>2. c \in DOMAIN now /\ j \in 1 .. now[c].num_blocks_free
      BY <1>4, <1>5, <2>1
    <3> QED BY <3>1, <3>2, InFreeBlocks
  <2>5. ASSUME NEW x \in G PROVE x \in Fixed!FreeBlocks(now)
    <3>1. PICK j \in 1 .. n : x = <<k, j>>
      OBVIOUS
    <3>2. k \in DOMAIN now /\ j \in 1 .. now[k].num_blocks_free
      BY <1>4, <1>5, <2>1
    <3> QED BY <3>1, <3>2, InFreeBlocks
  <2> HIDE DEF F, G
  <2> QED BY <2>2, <2>3, <2>4, <2>5
<1>9. IsFiniteSet(G) /\ Cardinality(G) = n
  <2>1. IsFiniteSet({k}) /\ Cardinality({k}) = 1
    BY FS_Singleton
  <2>2. IsFiniteSet(1 .. n) /\ Cardinality(1 .. n) = n
    BY FS_Interval
  <2>3. IsFiniteSet(G) /\ Cardinality(G) = 1 * n
    <3> DEFINE S == {k}
               T == 1 .. n
    <3>1. IsFiniteSet(S) /\ Cardinality(S) = 1 /\ IsFiniteSet(T) /\ Cardinality(T) = n
      BY <2>1, <2>2
    <3> HIDE DEF S, T
    <3>2. IsFiniteSet(S \X T)
      BY <3>1, FS_Product
    <3>3. Cardinality(S \X T) = Cardinality(S) * Cardinality(T)
      BY <3>1, FS_Product
    <3>4. Cardinality(S \X T) = 1 * n
      BY <3>1, <3>3
    <3> QED BY <3>2, <3>4 DEF S, T
  <2> QED BY <2>3
<1> HIDE DEF G, F
<1>10. IsFiniteSet(F \cup G) /\ Cardinality(F \cup G) = Cardinality(F) + n
  <2>1. /\ IsFiniteSet(F \cup G)
        /\ Cardinality(F \cup G) = Cardinality(F) + Cardinality(G) - Cardinality(F \cap G)
    BY <1>1, <1>9, FS_Union
  <2>2. Cardinality(F \cap G) = 0 /\ Cardinality(F) \in Nat
    BY <1>1, <1>8, FS_EmptySet, FS_CardinalityType
  <2> QED BY <1>9, <2>1, <2>2
<1>11. U \subseteq (DOMAIN now) \X (0 .. n - 1)
  BY <1>1, <1>4, <1>5
<1>12. Stored(n, now, U)
  BY <1>3, <1>7, <1>8, <1>10, <1>11 DEF Stored
<1>13. Cardinality(Fixed!FreeBlocks(now)) = Cardinality(F) + n
  BY <1>8, <1>10
<1> QED BY <1>2, <1>3, <1>4, <1>12, <1>13 DEF now, d, k, F

Hints == Nat \cup {Null}
FixedAllocators(n) ==
  [block_size : Nat, storage : Seq(Chunk(n)), alloc : Hints, dealloc : Hints,
   num_blocks_free : Nat]

\* A fixed allocator, of chunks of n blocks, that keeps its books of the blocks U in use.
Sound(n, f, U) ==
  /\ f \in FixedAllocators(n) /\ Stored(n, f.storage, U)
  /\ f.num_blocks_free = Cardinality(Fixed!FreeBlocks(f.storage))
  /\ f.alloc # Null => f.alloc \in DOMAIN f.storage
  /\ f.dealloc # Null => f.dealloc \in DOMAIN f.storage

\* What the operations of a fixed allocator make of it.
With(U, x) == U \cup {x}
Without(U, x) == U \ {x}
NextOf(f) == <<f.alloc, f.storage[f.alloc].first_free_block>>
HintOf(f, m) == [f EXCEPT !.alloc = m]
GrownOf(n, f) ==
  [f EXCEPT !.storage = Append(@, NewOf(n)), !.num_blocks_free = @ + n,
            !.alloc = Len(f.storage) + 1,
            !.dealloc = IF f.dealloc = Null THEN 1 ELSE f.dealloc]
AllocatedOf(f) ==
  [f EXCEPT !.num_blocks_free = @ - 1, !.storage = Pop(@, f.alloc)]
DeallocatedOf(f, b) ==
  [f EXCEPT !.dealloc = b[1], !.num_blocks_free = @ + 1, !.storage = Push(@, b[1], b[2])]
FilledOf(f, b, v) == [f EXCEPT !.storage = Wrote(@, b[1], b[2], v)]

LEMMA StorageIs ==
  ASSUME NEW n \in Nat \ {0}, NEW f, NEW U, Sound(n, f, U)
  PROVE  /\ f.storage \in Seq(Chunk(n)) /\ Len(f.storage) \in Nat
         /\ DOMAIN f.storage = 1 .. Len(f.storage)
         /\ \A c \in DOMAIN f.storage : f.storage[c].num_blocks_free \in Nat
BY LenProperties DEF Sound, Stored, Lists, Chunk

\* A chunk is chosen: the hint moves.
LEMMA HintSound ==
  ASSUME NEW n \in Nat \ {0}, NEW f, NEW U, Sound(n, f, U), NEW m \in DOMAIN f.storage
  PROVE  LET g == HintOf(f, m)
         IN  /\ Sound(n, g, U) /\ g.alloc = m /\ g.storage = f.storage
             /\ g.block_size = f.block_size
<1> DEFINE g == HintOf(f, m)
<1>1. f \in FixedAllocators(n) /\ m \in Hints
  <2>1. m \in 1 .. Len(f.storage) /\ Len(f.storage) \in Nat
    BY StorageIs
  <2> QED BY <2>1 DEF Sound, Hints
<1>2. g \in FixedAllocators(n)
  BY <1>1 DEF FixedAllocators, HintOf
<1>3. /\ g.storage = f.storage /\ g.num_blocks_free = f.num_blocks_free
      /\ g.dealloc = f.dealloc /\ g.alloc = m /\ g.block_size = f.block_size
  BY <1>1 DEF FixedAllocators, HintOf
<1> HIDE DEF g
<1>4. Sound(n, g, U)
  BY <1>2, <1>3 DEF Sound
<1> QED BY <1>3, <1>4 DEF g

\* A chunk is added, and the hints follow the chunks.
LEMMA GrownSound ==
  ASSUME NEW n \in Nat \ {0}, NEW f, NEW U, Sound(n, f, U)
  PROVE  LET g == GrownOf(n, f)
         IN  /\ Sound(n, g, U) /\ g.alloc = Len(f.storage) + 1
             /\ g.block_size = f.block_size /\ g.storage = Append(f.storage, NewOf(n))
<1> DEFINE chunks == Append(f.storage, NewOf(n))
           total == f.num_blocks_free + n
           top == Len(f.storage) + 1
           hint == IF f.dealloc = Null THEN 1 ELSE f.dealloc
           g == [f EXCEPT !.storage = chunks, !.num_blocks_free = total,
                          !.alloc = top, !.dealloc = hint]
<1>1. /\ f \in FixedAllocators(n) /\ Stored(n, f.storage, U) /\ f.num_blocks_free \in Nat
      /\ f.num_blocks_free = Cardinality(Fixed!FreeBlocks(f.storage))
      /\ f.dealloc # Null => f.dealloc \in 1 .. Len(f.storage)
      /\ Len(f.storage) \in Nat
  BY StorageIs DEF Sound, FixedAllocators
<1>2. /\ Stored(n, chunks, U) /\ DOMAIN chunks = 1 .. top
      /\ Cardinality(Fixed!FreeBlocks(chunks)) = total
  BY <1>1, StoredGrows
<1>3. chunks \in Seq(Chunk(n))
  BY <1>2 DEF Stored
<1>4. total \in Nat /\ top \in Nat \ {0} /\ hint \in 1 .. top
  BY <1>1
<1>5. top \in Hints /\ hint \in Hints /\ top \in 1 .. top
  BY <1>4 DEF Hints
<1>6. g = GrownOf(n, f)
  BY <1>1 DEF FixedAllocators, GrownOf
<1> HIDE DEF chunks, total, top, hint
<1>7. g \in FixedAllocators(n)
  BY <1>1, <1>3, <1>4, <1>5 DEF FixedAllocators
<1>8. /\ g.storage = chunks /\ g.num_blocks_free = total /\ g.alloc = top
      /\ g.dealloc = hint /\ g.block_size = f.block_size
  BY <1>1 DEF FixedAllocators
<1> HIDE DEF g
<1>9. Sound(n, g, U)
  BY <1>2, <1>4, <1>5, <1>7, <1>8 DEF Sound
<1> QED BY <1>6, <1>8, <1>9 DEF chunks, top

\* allocate, from the chunk that was chosen
LEMMA AllocatedSound ==
  ASSUME NEW n \in Nat \ {0}, NEW f, NEW U, Sound(n, f, U), f.alloc \in DOMAIN f.storage,
         f.storage[f.alloc].num_blocks_free > 0,
         NEW x, x = NextOf(f), NEW V, V = With(U, x), NEW h, h = AllocatedOf(f)
  PROVE  /\ x \in (DOMAIN f.storage) \X (0 .. n - 1) /\ x \notin U
         /\ Sound(n, h, V) /\ h.block_size = f.block_size
         /\ DOMAIN h.storage = DOMAIN f.storage /\ Len(h.storage) = Len(f.storage)
<1> DEFINE k == f.alloc
           b == f.storage[k].first_free_block
           chunks == Pop(f.storage, k)
           total == f.num_blocks_free - 1
           g == [f EXCEPT !.num_blocks_free = total, !.storage = chunks]
<1>1. /\ f \in FixedAllocators(n) /\ Stored(n, f.storage, U) /\ f.num_blocks_free \in Nat
      /\ f.num_blocks_free = Cardinality(Fixed!FreeBlocks(f.storage))
  BY DEF Sound, FixedAllocators
<1>2. b \in 0 .. n - 1 /\ <<k, b>> \notin U
  BY <1>1, StoredPops
<1>3. Stored(n, chunks, U \cup {<<k, b>>})
  BY <1>1, StoredPops
<1>4. DOMAIN chunks = DOMAIN f.storage /\ Len(chunks) = Len(f.storage)
  BY <1>1, StoredPops
<1>5. Cardinality(Fixed!FreeBlocks(chunks)) = total
  BY <1>1, StoredPops
<1>6. total \in Nat /\ chunks \in Seq(Chunk(n))
  <2>1. IsFiniteSet(Fixed!FreeBlocks(chunks)) /\ chunks \in Seq(Chunk(n))
    BY <1>3 DEF Stored
  <2> HIDE DEF chunks, total
  <2> QED BY <1>5, <2>1, FS_CardinalityType
<1>7. g = AllocatedOf(f)
  BY <1>1 DEF FixedAllocators, AllocatedOf
<1> HIDE DEF chunks, total
<1>8. g \in FixedAllocators(n)
  BY <1>1, <1>6 DEF FixedAllocators
<1>9. /\ g.storage = chunks /\ g.num_blocks_free = total /\ g.alloc = f.alloc
      /\ g.dealloc = f.dealloc /\ g.block_size = f.block_size
  BY <1>1 DEF FixedAllocators
<1> HIDE DEF g, b
<1>10. Sound(n, g, U \cup {<<k, b>>})
  BY <1>3, <1>4, <1>5, <1>8, <1>9 DEF Sound
<1>11. h = g /\ x = <<k, b>> /\ V = U \cup {<<k, b>>}
  BY <1>7 DEF b, NextOf, With
<1>12. x \in (DOMAIN f.storage) \X (0 .. n - 1) /\ x \notin U
  BY <1>2, <1>11
<1> QED BY <1>4, <1>9, <1>10, <1>11, <1>12

\* deallocate
LEMMA DeallocatedSound ==
  ASSUME NEW n \in Nat \ {0}, NEW f, NEW U, Sound(n, f, U), NEW b \in U,
         NEW V, V = Without(U, b), NEW h, h = DeallocatedOf(f, b)
  PROVE  /\ Sound(n, h, V) /\ h.block_size = f.block_size
         /\ DOMAIN h.storage = DOMAIN f.storage /\ Len(h.storage) = Len(f.storage)
<1>0. V = U \ {b}
  BY DEF Without
<1> DEFINE k == b[1]
           q == b[2]
           chunks == Push(f.storage, k, q)
           total == f.num_blocks_free + 1
           g == [f EXCEPT !.dealloc = k, !.num_blocks_free = total, !.storage = chunks]
<1>1. /\ f \in FixedAllocators(n) /\ Stored(n, f.storage, U) /\ f.num_blocks_free \in Nat
      /\ f.num_blocks_free = Cardinality(Fixed!FreeBlocks(f.storage))
  BY DEF Sound, FixedAllocators
<1>2. k \in DOMAIN f.storage
  BY <1>1 DEF Stored
<1>3. /\ Stored(n, chunks, V)
      /\ DOMAIN chunks = DOMAIN f.storage /\ Len(chunks) = Len(f.storage)
      /\ Cardinality(Fixed!FreeBlocks(chunks)) = total
  <2> DEFINE storage == f.storage
             now == Push(storage, b[1], b[2])
  <2>1. Stored(n, storage, U)
    BY <1>1
  <2> HIDE DEF storage
  <2>2. /\ Stored(n, now, V)
        /\ DOMAIN now = DOMAIN storage /\ Len(now) = Len(storage)
        /\ Cardinality(Fixed!FreeBlocks(now)) = Cardinality(Fixed!FreeBlocks(storage)) + 1
    BY <1>0, <2>1, StoredPushes
  <2> QED BY <1>1, <2>2 DEF storage
<1>6. total \in Nat /\ chunks \in Seq(Chunk(n)) /\ k \in Hints
  BY <1>1, <1>2, <1>3, StorageIs DEF Stored, Hints
<1>7. g = DeallocatedOf(f, b)
  BY <1>1 DEF FixedAllocators, DeallocatedOf
<1> HIDE DEF chunks, total, q, k
<1>8. g \in FixedAllocators(n)
  BY <1>1, <1>6 DEF FixedAllocators
<1>9. /\ g.storage = chunks /\ g.num_blocks_free = total /\ g.alloc = f.alloc
      /\ g.dealloc = k /\ g.block_size = f.block_size
  BY <1>1 DEF FixedAllocators
<1> HIDE DEF g
<1>10. Sound(n, g, V)
  <2>1. f.alloc # Null => f.alloc \in DOMAIN f.storage
    BY DEF Sound
  <2> QED BY <1>2, <1>3, <1>8, <1>9, <2>1 DEF Sound
<1>11. h = g
  BY <1>7
<1> QED BY <1>3, <1>9, <1>10, <1>11

\* A client writes into a block it holds.
LEMMA WrittenSound ==
  ASSUME NEW n \in Nat \ {0}, NEW f, NEW U, Sound(n, f, U), NEW b \in U, NEW v \in 0 .. n
  PROVE  LET g == FilledOf(f, b, v)
         IN  Sound(n, g, U) /\ DOMAIN g.storage = DOMAIN f.storage
             /\ Len(g.storage) = Len(f.storage)
<1> DEFINE k == b[1]
           q == b[2]
           chunks == Wrote(f.storage, k, q, v)
           g == [f EXCEPT !.storage = chunks]
<1>1. /\ f \in FixedAllocators(n) /\ Stored(n, f.storage, U) /\ f.num_blocks_free \in Nat
      /\ f.num_blocks_free = Cardinality(Fixed!FreeBlocks(f.storage))
  BY DEF Sound, FixedAllocators
<1>3. Stored(n, chunks, U)
  BY <1>1, StoredWrites
<1>4. DOMAIN chunks = DOMAIN f.storage /\ Len(chunks) = Len(f.storage)
  BY <1>1, StoredWrites
<1>5. Fixed!FreeBlocks(chunks) = Fixed!FreeBlocks(f.storage)
  BY <1>1, StoredWrites
<1>6. chunks \in Seq(Chunk(n))
  BY <1>3 DEF Stored
<1>7. g = FilledOf(f, b, v)
  BY <1>1 DEF FixedAllocators, FilledOf
<1> HIDE DEF chunks, q, k
<1>8. g \in FixedAllocators(n)
  BY <1>1, <1>6 DEF FixedAllocators
<1>9. /\ g.storage = chunks /\ g.num_blocks_free = f.num_blocks_free /\ g.alloc = f.alloc
      /\ g.dealloc = f.dealloc
  BY <1>1 DEF FixedAllocators
<1> HIDE DEF g
<1>10. Sound(n, g, U)
  BY <1>1, <1>3, <1>4, <1>5, <1>8, <1>9 DEF Sound
<1> QED BY <1>4, <1>7, <1>9, <1>10

\* One that is new.
LEMMA NewSound ==
  ASSUME NEW n \in Nat \ {0}, NEW s \in Nat
  PROVE  Sound(n, [block_size |-> s, storage |-> <<>>, alloc |-> Null, dealloc |-> Null,
                   num_blocks_free |-> 0], {})
<1> DEFINE f == [block_size |-> s, storage |-> <<>>, alloc |-> Null, dealloc |-> Null,
                 num_blocks_free |-> 0]
<1>1. <<>> \in Seq(Chunk(n)) /\ DOMAIN <<>> = {}
  BY EmptySeq
<1>2. f \in FixedAllocators(n)
  BY <1>1 DEF FixedAllocators, Hints
<1>3. Fixed!FreeBlocks(<<>>) = {}
  BY <1>1, InFreeBlocks
<1>4. IsFiniteSet({}) /\ Cardinality({}) = 0
  BY FS_EmptySet
<1>5. Stored(n, <<>>, {})
  BY <1>1, <1>3, <1>4 DEF Stored
<1> QED BY <1>2, <1>3, <1>4, <1>5 DEF Sound

\* get_next_block_to_allocate_from, of chunks of n blocks
ChosenOf(n, f) ==
  IF Fixed!HotHasSpace(f) THEN {f}
  ELSE IF f.num_blocks_free > 0 /\ Fixed!WithSpace(f) # {}
  THEN {HintOf(f, Fixed!Min(Fixed!WithSpace(f)))}
  ELSE {GrownOf(n, f)}

LEMMA FixedMinIsLeast ==
  ASSUME NEW T \in SUBSET Nat, T # {}
  PROVE  Fixed!Min(T) \in T /\ \A y \in T : Fixed!Min(T) <= y
BY LeastNumber DEF Fixed!Min

\* The chunk chosen has a free block, and nothing is lost by choosing it.
LEMMA ChosenSound ==
  ASSUME NEW n \in Nat \ {0}, NEW f, NEW U, Sound(n, f, U), NEW g \in ChosenOf(n, f)
  PROVE  /\ Sound(n, g, U) /\ g.block_size = f.block_size
         /\ g.alloc \in DOMAIN g.storage /\ g.storage[g.alloc].num_blocks_free > 0
         /\ DOMAIN f.storage \subseteq DOMAIN g.storage
<1>1. /\ f.storage \in Seq(Chunk(n)) /\ Len(f.storage) \in Nat
      /\ DOMAIN f.storage = 1 .. Len(f.storage)
  BY StorageIs
<1>2. CASE Fixed!HotHasSpace(f)
  BY <1>2 DEF ChosenOf, Fixed!HotHasSpace, Fixed!WithSpace
<1>3. CASE ~Fixed!HotHasSpace(f) /\ f.num_blocks_free > 0 /\ Fixed!WithSpace(f) # {}
  <2> DEFINE m == Fixed!Min(Fixed!WithSpace(f))
  <2>1. Fixed!WithSpace(f) \in SUBSET Nat
    BY <1>1 DEF Fixed!WithSpace
  <2>2. m \in Fixed!WithSpace(f)
    BY <1>3, <2>1, FixedMinIsLeast
  <2>3. m \in DOMAIN f.storage /\ f.storage[m].num_blocks_free > 0
    BY <2>2 DEF Fixed!WithSpace
  <2>4. g = HintOf(f, m)
    BY <1>3 DEF ChosenOf
  <2> HIDE DEF m
  <2>5. /\ Sound(n, g, U) /\ g.alloc = m /\ g.storage = f.storage
        /\ g.block_size = f.block_size
    BY <2>3, <2>4, HintSound
  <2> QED BY <2>3, <2>5
<1>4. CASE ~Fixed!HotHasSpace(f) /\ ~(f.num_blocks_free > 0 /\ Fixed!WithSpace(f) # {})
  <2>1. g = GrownOf(n, f)
    BY <1>4 DEF ChosenOf
  <2>2. Sound(n, g, U)
    BY <2>1, GrownSound
  <2>3. g.alloc = Len(f.storage) + 1
    BY <2>1, GrownSound
  <2>4. g.block_size = f.block_size
    BY <2>1, GrownSound
  <2>5. g.storage = Append(f.storage, NewOf(n))
    BY <2>1, GrownSound
  <2>6. Stored(n, f.storage, U)
    BY DEF Sound
  <2>7. /\ DOMAIN g.storage = 1 .. Len(f.storage) + 1
        /\ g.storage[Len(f.storage) + 1].num_blocks_free = n
    <3> DEFINE storage == f.storage
    <3>1. Stored(n, storage, U)
      BY <2>6
    <3> HIDE DEF storage
    <3>2. /\ DOMAIN Append(storage, NewOf(n)) = 1 .. Len(storage) + 1
          /\ Append(storage, NewOf(n))[Len(storage) + 1].num_blocks_free = n
      BY <3>1, StoredGrows
    <3> QED BY <2>5, <3>2 DEF storage
  <2>8. n > 0
    OBVIOUS
  <2> QED BY <1>1, <2>2, <2>3, <2>4, <2>7, <2>8
<1> QED BY <1>2, <1>3, <1>4

----------------------------------------------------------------------------
(* The fixed allocator keeps its books, whatever its client writes into the *)
(* blocks it holds, and is a pool of blocks.                                *)

\* The operations of the instance are those above.
LEMMA FixedIs ==
  ASSUME NEW f \in FixedAllocators(NumBlocks)
  PROVE  /\ \A g \in Fixed!Chosen(f) : g \in ChosenOf(NumBlocks, f)
         /\ Fixed!Allocated(f) = AllocatedOf(f)
         /\ \A b : Fixed!Deallocated(f, b) = DeallocatedOf(f, b)
         /\ \A b, v : [f EXCEPT !.storage[b[1]].byte[b[2]] = v] = FilledOf(f, b, v)
<1>1. ASSUME NEW g \in Fixed!Chosen(f) PROVE g \in ChosenOf(NumBlocks, f)
  <2>1. \A moved \in BOOLEAN : Fixed!Grown(f, moved) = GrownOf(NumBlocks, f)
    BY DEF Fixed!Grown, Fixed!FixedUp, Fixed!NewChunk, Fixed!Indices, GrownOf, NewOf
  <2>2. \A m : [f EXCEPT !.alloc = m] = HintOf(f, m)
    BY DEF HintOf
  <2> QED BY <2>1, <2>2 DEF Fixed!Chosen, ChosenOf
<1>2. Fixed!Allocated(f) = AllocatedOf(f)
  BY DEF Fixed!Allocated, Fixed!Popped, AllocatedOf, Pop, Put, PoppedOf, FixedAllocators
<1>3. ASSUME NEW b PROVE Fixed!Deallocated(f, b) = DeallocatedOf(f, b)
  BY DEF Fixed!Deallocated, Fixed!Pushed, DeallocatedOf, Push, Put, PushedOf,
         FixedAllocators
<1>4. ASSUME NEW b, NEW v
      PROVE  [f EXCEPT !.storage[b[1]].byte[b[2]] = v] = FilledOf(f, b, v)
  BY DEF FilledOf, Wrote, Put, WrittenOf, FixedAllocators
<1> QED BY <1>1, <1>2, <1>3, <1>4

FixedUse == {b \in Fixed!Blocks : held[b] > 0}
FixedInv == held \in [Fixed!Blocks -> {0, 1}] /\ Sound(NumBlocks, fixed, FixedUse)

LEMMA FixedSizes ==
  ASSUME Fixed!FixedAllocatorAssumption
  PROVE  NumBlocks \in Nat \ {0} /\ MaxChunks \in Nat /\ Fixed!Indices = 0 .. NumBlocks - 1
BY DEF Fixed!FixedAllocatorAssumption, Fixed!ChunksAssumption, Fixed!Indices

\* allocate hands out a block that nobody holds.
LEMMA FixedAllocateStep ==
  ASSUME Fixed!FixedAllocatorAssumption, FixedInv, NEW f \in Fixed!Chosen(fixed),
         Len(f.storage) <= MaxChunks, fixed' = Fixed!Allocated(f),
         held' = [held EXCEPT ![Fixed!NextBlock(f)] = @ + 1]
  PROVE  LET b == Fixed!NextBlock(f)
         IN  /\ FixedInv' /\ b \in Fixed!Blocks /\ held[b] = 0
             /\ held' = [held EXCEPT ![b] = 1]
             /\ b \in (DOMAIN fixed'.storage) \X Fixed!Indices
             /\ DOMAIN fixed.storage \subseteq DOMAIN fixed'.storage
<1> DEFINE U == FixedUse
           V == U \cup {Fixed!NextBlock(f)}
           n == NumBlocks
           b == Fixed!NextBlock(f)
<1>1. n \in Nat \ {0} /\ MaxChunks \in Nat /\ Fixed!Indices = 0 .. n - 1
  BY FixedSizes
<1>2. Sound(n, fixed, U) /\ held \in [Fixed!Blocks -> {0, 1}]
  BY DEF FixedInv
<1>3. f \in ChosenOf(n, fixed)
  <2>1. fixed \in FixedAllocators(n)
    BY <1>2 DEF Sound
  <2> QED BY <2>1, FixedIs
<1>0. V = With(U, b)
  BY DEF With
<1> HIDE DEF U, n, V
<1>4. /\ Sound(n, f, U) /\ f.alloc \in DOMAIN f.storage
      /\ f.storage[f.alloc].num_blocks_free > 0
      /\ DOMAIN fixed.storage \subseteq DOMAIN f.storage
  BY <1>1, <1>2, <1>3, ChosenSound
<1>5. fixed' = AllocatedOf(f)
  <2>1. f \in FixedAllocators(n)
    BY <1>4 DEF Sound
  <2> QED BY <2>1, FixedIs DEF n
<1>6. b = NextOf(f)
  BY DEF Fixed!NextBlock, NextOf
<1> HIDE DEF b
<1>7. b \in (DOMAIN f.storage) \X (0 .. n - 1) /\ b \notin U
  BY <1>0, <1>1, <1>4, <1>5, <1>6, AllocatedSound
<1>8. Sound(n, fixed', V)
  BY <1>0, <1>1, <1>4, <1>5, <1>6, AllocatedSound
<1>9. DOMAIN fixed'.storage = DOMAIN f.storage
  BY <1>0, <1>1, <1>4, <1>5, <1>6, AllocatedSound
<1>10. b \in Fixed!Blocks
  <2>1. DOMAIN f.storage = 1 .. Len(f.storage) /\ Len(f.storage) \in Nat
    BY <1>1, <1>4, StorageIs
  <2> QED BY <1>1, <1>7, <2>1 DEF Fixed!Blocks
<1>11. held[b] = 0 /\ held' = [held EXCEPT ![b] = 1]
  <2>1. held[b] = 0
    BY <1>2, <1>7, <1>10 DEF U, FixedUse
  <2>2. held' = [held EXCEPT ![b] = @ + 1]
    BY DEF b
  <2>3. held[b] + 1 = 1
    BY <2>1
  <2> QED BY <2>1, <2>2, <2>3
<1>12. FixedUse' = V /\ held' \in [Fixed!Blocks -> {0, 1}]
  BY <1>0, <1>2, <1>10, <1>11 DEF U, FixedUse, With
<1>13. FixedInv'
  BY <1>8, <1>12 DEF FixedInv, n
<1> QED BY <1>1, <1>4, <1>7, <1>9, <1>10, <1>11, <1>13 DEF b

LEMMA FixedDeallocateStep ==
  ASSUME Fixed!FixedAllocatorAssumption, FixedInv, NEW b \in Fixed!Blocks,
         Fixed!Deallocate(b)
  PROVE  /\ FixedInv' /\ held[b] = 1 /\ held' = [held EXCEPT ![b] = 0]
         /\ DOMAIN fixed'.storage = DOMAIN fixed.storage
<1> DEFINE U == FixedUse
           V == U \ {b}
           n == NumBlocks
<1>1. n \in Nat \ {0}
  BY FixedSizes
<1>2. Sound(n, fixed, U) /\ held \in [Fixed!Blocks -> {0, 1}]
  BY DEF FixedInv
<1>3. held[b] = 1 /\ b \in U /\ held' = [held EXCEPT ![b] = 0]
  <2>1. held[b] > 0 /\ held' = [held EXCEPT ![b] = held[b] - 1]
    BY DEF Fixed!Deallocate
  <2>2. held[b] = 1 /\ b \in U
    BY <1>2, <2>1 DEF FixedUse
  <2>3. held[b] - 1 = 0
    BY <2>2
  <2> QED BY <2>1, <2>2, <2>3
<1>4. fixed' = DeallocatedOf(fixed, b)
  <2>1. fixed \in FixedAllocators(n)
    BY <1>2 DEF Sound
  <2> QED BY <2>1, FixedIs DEF Fixed!Deallocate
<1>5. FixedUse' = V /\ held' \in [Fixed!Blocks -> {0, 1}]
  BY <1>2, <1>3 DEF FixedUse
<1>6. V = Without(U, b)
  BY DEF Without
<1> HIDE DEF U, V, n
<1>7. Sound(n, fixed', V)
  BY <1>1, <1>2, <1>3, <1>4, <1>6, DeallocatedSound
<1>8. DOMAIN fixed'.storage = DOMAIN fixed.storage
  BY <1>1, <1>2, <1>3, <1>4, <1>6, DeallocatedSound
<1> QED BY <1>3, <1>5, <1>7, <1>8 DEF FixedInv, n

LEMMA FixedWriteStep ==
  ASSUME Fixed!FixedAllocatorAssumption, FixedInv, NEW b \in Fixed!Blocks,
         NEW v \in 0 .. NumBlocks, Fixed!Write(b, v)
  PROVE  FixedInv' /\ held' = held /\ DOMAIN fixed'.storage = DOMAIN fixed.storage
<1> DEFINE U == FixedUse
           n == NumBlocks
<1>1. n \in Nat \ {0} /\ v \in 0 .. n
  BY FixedSizes
<1>2. Sound(n, fixed, U) /\ held \in [Fixed!Blocks -> {0, 1}]
  BY DEF FixedInv
<1>3. b \in U /\ held' = held /\ FixedUse' = U
  BY <1>2 DEF Fixed!Write, FixedUse
<1>4. fixed' = FilledOf(fixed, b, v)
  <2>1. fixed \in FixedAllocators(n)
    BY <1>2 DEF Sound
  <2> QED BY <2>1, FixedIs DEF Fixed!Write
<1> HIDE DEF U, n
<1>5. Sound(n, fixed', U) /\ DOMAIN fixed'.storage = DOMAIN fixed.storage
  BY <1>1, <1>2, <1>3, <1>4, WrittenSound
<1> QED BY <1>2, <1>3, <1>5 DEF FixedInv, n

LEMMA FixedInvariance ==
  ASSUME Fixed!FixedAllocatorAssumption
  PROVE  Fixed!Spec => []FixedInv
<1>1. Fixed!Init => FixedInv
  <2> SUFFICES ASSUME Fixed!Init PROVE FixedInv
    OBVIOUS
  <2>1. FixedUse = {} /\ held \in [Fixed!Blocks -> {0, 1}]
    BY DEF Fixed!Init, FixedUse
  <2>2. Sound(NumBlocks, fixed, {})
    BY FixedSizes, NewSound DEF Fixed!Init, Fixed!NewFixed
  <2> QED BY <2>1, <2>2 DEF FixedInv
<1>2. FixedInv /\ [Fixed!Next]_(Fixed!vars) => FixedInv'
  <2> SUFFICES ASSUME FixedInv, [Fixed!Next]_(Fixed!vars) PROVE FixedInv'
    OBVIOUS
  <2>1. CASE Fixed!Allocate
    <3>1. PICK f \in Fixed!Chosen(fixed) :
            /\ Len(f.storage) <= MaxChunks /\ fixed' = Fixed!Allocated(f)
            /\ held' = [held EXCEPT ![Fixed!NextBlock(f)] = @ + 1]
      BY <2>1 DEF Fixed!Allocate
    <3> QED BY <3>1, FixedAllocateStep
  <2>2. ASSUME NEW b \in Fixed!Blocks, Fixed!Deallocate(b) PROVE FixedInv'
    BY <2>2, FixedDeallocateStep
  <2>3. ASSUME NEW b \in Fixed!Blocks, NEW v \in 0 .. NumBlocks, Fixed!Write(b, v)
        PROVE  FixedInv'
    BY <2>3, FixedWriteStep
  <2>4. CASE UNCHANGED Fixed!vars
    BY <2>4 DEF Fixed!vars, FixedInv, FixedUse
  <2> QED BY <2>1, <2>2, <2>3, <2>4 DEF Fixed!Next
<1>3. QED
  BY <1>1, <1>2, PTL DEF Fixed!Spec

LEMMA FixedCardinality ==
  ASSUME NEW S
  PROVE  Fixed!Cardinality(S) = Cardinality(S)
BY DEF Fixed!Cardinality, Cardinality

\* A fixed allocator that keeps its books: what the invariants of the two instances say.
LEMMA SoundSays ==
  ASSUME NEW n \in Nat \ {0}, NEW f, NEW U, Sound(n, f, U), NEW V,
         \A c \in DOMAIN f.storage : \A j \in 0 .. n - 1 : <<c, j>> \in V <=> <<c, j>> \in U
  PROVE  /\ \A c \in DOMAIN f.storage :
              LET unused == {j \in 0 .. n - 1 : <<c, j>> \notin V}
              IN  /\ f.storage[c].num_blocks_free = Cardinality(unused)
                  /\ Fixed!FreeList(f.storage[c]) = unused
         /\ f.num_blocks_free = Cardinality(Fixed!FreeBlocks(f.storage))
         /\ {f.alloc, f.dealloc} \ {Null} \subseteq DOMAIN f.storage
<1>1. ASSUME NEW c \in DOMAIN f.storage
      PROVE  LET unused == {j \in 0 .. n - 1 : <<c, j>> \notin V}
             IN  /\ f.storage[c].num_blocks_free = Cardinality(unused)
                 /\ Fixed!FreeList(f.storage[c]) = unused
  <2> DEFINE unused == {j \in 0 .. n - 1 : <<c, j>> \notin V}
             d == f.storage[c]
  <2>1. unused = Unused(n, c, U)
    BY DEF Unused
  <2>2. Lists(n, d, Unused(n, c, U))
    BY DEF Sound, Stored
  <2> HIDE DEF unused, d
  <2>3. Lists(n, d, unused)
    BY <2>1, <2>2
  <2>4. /\ d.num_blocks_free = Cardinality(unused) /\ d.num_blocks_free \in Nat
    BY <2>3 DEF Lists, Chunk
  <2>5. PICK p : FreePath(d.num_blocks_free, d.first_free_block, d.byte, unused, p)
    BY <2>3 DEF Lists
  <2>6. Fixed!FreeList(d) = unused
    BY <2>4, <2>5, FreeListIs
  <2> QED BY <2>4, <2>6 DEF unused, d
<1>2. f.num_blocks_free = Cardinality(Fixed!FreeBlocks(f.storage))
  BY DEF Sound
<1>3. {f.alloc, f.dealloc} \ {Null} \subseteq DOMAIN f.storage
  BY DEF Sound
<1> QED BY <1>1, <1>2, <1>3

\* The free lists, the total and the hints of a fixed allocator agree with its client.
THEOREM FixedKeepsItsBooks ==
  ASSUME Fixed!FixedAllocatorAssumption
  PROVE  Fixed!Spec => [](Fixed!FreeListsAreFree /\ Fixed!TotalIsSum /\ Fixed!HintsAreCurrent)
<1>1. FixedInv => Fixed!FreeListsAreFree /\ Fixed!TotalIsSum /\ Fixed!HintsAreCurrent
  <2> SUFFICES ASSUME FixedInv
               PROVE  Fixed!FreeListsAreFree /\ Fixed!TotalIsSum /\ Fixed!HintsAreCurrent
    OBVIOUS
  <2> DEFINE n == NumBlocks
             U == FixedUse
  <2>1. n \in Nat \ {0} /\ Fixed!Indices = 0 .. n - 1 /\ Sound(n, fixed, U)
    BY FixedSizes DEF FixedInv
  <2> HIDE DEF n, U
  <2>2. /\ \A c \in DOMAIN fixed.storage :
             LET unused == {j \in 0 .. n - 1 : <<c, j>> \notin U}
             IN  /\ fixed.storage[c].num_blocks_free = Cardinality(unused)
                 /\ Fixed!FreeList(fixed.storage[c]) = unused
        /\ fixed.num_blocks_free = Cardinality(Fixed!FreeBlocks(fixed.storage))
        /\ {fixed.alloc, fixed.dealloc} \ {Null} \subseteq DOMAIN fixed.storage
    BY <2>1, SoundSays
  <2>3. Fixed!FreeListsAreFree
    BY <2>1, <2>2, FixedCardinality
       DEF Fixed!FreeListsAreFree, Fixed!FreeListsAre, U, FixedUse
  <2>4. Fixed!TotalIsSum
    BY <2>2, FixedCardinality DEF Fixed!TotalIsSum, Fixed!TotalIs
  <2>5. Fixed!HintsAreCurrent
    BY <2>2 DEF Fixed!HintsAreCurrent, Fixed!HintsAre
  <2> QED BY <2>3, <2>4, <2>5
<1>2. QED
  BY <1>1, FixedInvariance, PTL

\* The fixed allocator is a pool: it hands out blocks nobody holds, in chunks it never
\* gives up.
THEOREM FixedRefinesPool ==
  ASSUME Fixed!FixedAllocatorAssumption
  PROVE  Fixed!Spec => Fixed!ImplementsPool
<1> DEFINE backed == (DOMAIN fixed.storage) \X Fixed!Indices
<1>1. Fixed!Init => Fixed!Pool!Init
  BY DEF Fixed!Init, Fixed!Pool!Init, Fixed!NewFixed
<1>2. FixedInv /\ [Fixed!Next]_(Fixed!vars) => [Fixed!Pool!Next]_<<held, backed>>
  <2> SUFFICES ASSUME FixedInv, [Fixed!Next]_(Fixed!vars)
               PROVE  [Fixed!Pool!Next]_<<held, backed>>
    OBVIOUS
  <2>1. CASE Fixed!Allocate
    <3>1. PICK f \in Fixed!Chosen(fixed) :
            /\ Len(f.storage) <= MaxChunks /\ fixed' = Fixed!Allocated(f)
            /\ held' = [held EXCEPT ![Fixed!NextBlock(f)] = @ + 1]
      BY <2>1 DEF Fixed!Allocate
    <3> DEFINE b == Fixed!NextBlock(f)
    <3>2. /\ b \in Fixed!Blocks /\ held[b] = 0 /\ held' = [held EXCEPT ![b] = 1]
          /\ b \in backed' /\ backed \subseteq backed'
      BY <3>1, FixedAllocateStep
    <3>3. Fixed!Pool!Allocate(b)
      BY <3>2 DEF Fixed!Pool!Allocate
    <3> QED BY <3>2, <3>3 DEF Fixed!Pool!Next
  <2>2. ASSUME NEW b \in Fixed!Blocks, Fixed!Deallocate(b) PROVE Fixed!Pool!Next
    <3>1. /\ held[b] = 1 /\ held' = [held EXCEPT ![b] = 0]
          /\ DOMAIN fixed'.storage = DOMAIN fixed.storage
      BY <2>2, FixedDeallocateStep
    <3>2. FixedUse \subseteq backed
      BY FixedSizes DEF FixedInv, Sound, Stored
    <3>3. backed' = backed
      BY <3>1
    <3>4. Fixed!Pool!Deallocate(b)
      BY <3>1, <3>2, <3>3 DEF Fixed!Pool!Deallocate, Fixed!Pool!InUse, FixedUse
    <3> QED BY <3>4 DEF Fixed!Pool!Next
  <2>3. ASSUME NEW b \in Fixed!Blocks, NEW v \in 0 .. NumBlocks, Fixed!Write(b, v)
        PROVE  UNCHANGED <<held, backed>>
    BY <2>3, FixedWriteStep
  <2>4. CASE UNCHANGED Fixed!vars
    BY <2>4 DEF Fixed!vars
  <2> QED BY <2>1, <2>2, <2>3, <2>4 DEF Fixed!Next
<1>3. QED
  BY <1>1, <1>2, FixedInvariance, PTL
     DEF Fixed!Spec, Fixed!ImplementsPool, Fixed!Pool!Spec

----------------------------------------------------------------------------
(* The small-object allocator: one fixed allocator for each size, in order, *)
(* found by a hint and a binary search.                                     *)

LEMMA SmallSizes ==
  ASSUME Small!SmallObjectAssumption
  PROVE  /\ SmallNumBlocks \in Nat \ {0} /\ MaxChunks \in Nat /\ Sizes \subseteq Nat
         /\ Small!Indices = 0 .. SmallNumBlocks - 1
BY DEF Small!SmallObjectAssumption, Small!ChunksAssumption, Small!Indices

LEMMA SmallMin ==
  ASSUME NEW T
  PROVE  Small!Min(T) = Fixed!Min(T)
BY DEF Small!Min, Fixed!Min

\* The operations of the instance are those above.
LEMMA SmallIs ==
  ASSUME NEW f \in FixedAllocators(SmallNumBlocks)
  PROVE  /\ \A g \in Small!Chosen(f) : g \in ChosenOf(SmallNumBlocks, f)
         /\ Small!Allocated(f) = AllocatedOf(f)
         /\ \A b : Small!Deallocated(f, b) = DeallocatedOf(f, b)
<1>1. ASSUME NEW g \in Small!Chosen(f) PROVE g \in ChosenOf(SmallNumBlocks, f)
  <2>1. \A moved \in BOOLEAN : Small!Grown(f, moved) = GrownOf(SmallNumBlocks, f)
    BY DEF Small!Grown, Small!FixedUp, Small!NewChunk, Small!Indices, GrownOf, NewOf
  <2>2. \A m : [f EXCEPT !.alloc = m] = HintOf(f, m)
    BY DEF HintOf
  <2>3. Small!WithSpace(f) = Fixed!WithSpace(f) /\ Small!HotHasSpace(f) = Fixed!HotHasSpace(f)
    BY DEF Small!WithSpace, Fixed!WithSpace, Small!HotHasSpace, Fixed!HotHasSpace
  <2>4. Small!Min(Small!WithSpace(f)) = Fixed!Min(Fixed!WithSpace(f))
    BY <2>3, SmallMin
  <2> QED BY <2>1, <2>2, <2>3, <2>4 DEF Small!Chosen, ChosenOf
<1>2. Small!Allocated(f) = AllocatedOf(f)
  BY DEF Small!Allocated, Small!Popped, AllocatedOf, Pop, Put, PoppedOf, FixedAllocators
<1>3. ASSUME NEW b PROVE Small!Deallocated(f, b) = DeallocatedOf(f, b)
  BY DEF Small!Deallocated, Small!Pushed, DeallocatedOf, Push, Put, PushedOf,
         FixedAllocators
<1> QED BY <1>1, <1>2, <1>3

----------------------------------------------------------------------------
(* The blocks of a size in use *)

UseIn(h, s) == {<<b[2], b[3]>> : b \in {b \in Small!Blocks : b[1] = s /\ h[b] > 0}}
Part(b) == <<b[2], b[3]>>
Taking(h, b) == [h EXCEPT ![b] = 1]
Leaving(h, b) == [h EXCEPT ![b] = 0]

LEMMA BlockIs ==
  ASSUME NEW b \in Small!Blocks
  PROVE  /\ b[1] \in Sizes /\ b[2] \in 1 .. MaxChunks /\ b[3] \in Small!Indices
         /\ b = <<b[1], b[2], b[3]>>
BY DEF Small!Blocks

LEMMA InUseIs ==
  ASSUME NEW h, NEW s, NEW x
  PROVE  x \in UseIn(h, s) <=>
           \E b \in Small!Blocks : b[1] = s /\ h[b] > 0 /\ x = Part(b)
BY DEF UseIn, Part

LEMMA SameBlock ==
  ASSUME NEW b \in Small!Blocks, NEW d \in Small!Blocks, b[1] = d[1], Part(b) = Part(d)
  PROVE  b = d
<1>1. b[2] = d[2] /\ b[3] = d[3]
  BY DEF Part
<1> QED BY <1>1, BlockIs

LEMMA UseAfterTaking ==
  ASSUME NEW h \in [Small!Blocks -> {0, 1}], NEW b \in Small!Blocks, NEW s,
         NEW now, now = Taking(h, b)
  PROVE  UseIn(now, s) = IF s = b[1] THEN With(UseIn(h, s), Part(b)) ELSE UseIn(h, s)
<1>1. \A d \in Small!Blocks : now[d] > 0 <=> d = b \/ h[d] > 0
  BY DEF Taking
<1>2. CASE s = b[1]
  <2>1. ASSUME NEW x PROVE x \in UseIn(now, s) <=> x \in UseIn(h, s) \/ x = Part(b)
    BY <1>1, <1>2, InUseIs
  <2> QED BY <1>2, <2>1 DEF With
<1>3. CASE s # b[1]
  <2>1. ASSUME NEW x PROVE x \in UseIn(now, s) <=> x \in UseIn(h, s)
    BY <1>1, <1>3, InUseIs
  <2> QED BY <1>3, <2>1
<1> QED BY <1>2, <1>3

LEMMA UseAfterLeaving ==
  ASSUME NEW h \in [Small!Blocks -> {0, 1}], NEW b \in Small!Blocks, NEW s,
         NEW now, now = Leaving(h, b)
  PROVE  UseIn(now, s) = IF s = b[1] THEN Without(UseIn(h, s), Part(b)) ELSE UseIn(h, s)
<1>1. \A d \in Small!Blocks : now[d] > 0 <=> d # b /\ h[d] > 0
  BY DEF Leaving
<1>2. CASE s = b[1]
  <2>1. ASSUME NEW x PROVE x \in UseIn(now, s) <=> x \in UseIn(h, s) /\ x # Part(b)
    BY <1>1, <1>2, InUseIs, SameBlock
  <2> QED BY <1>2, <2>1 DEF Without
<1>3. CASE s # b[1]
  <2>1. ASSUME NEW x PROVE x \in UseIn(now, s) <=> x \in UseIn(h, s)
    BY <1>1, <1>3, InUseIs
  <2> QED BY <1>3, <2>1
<1> QED BY <1>2, <1>3

----------------------------------------------------------------------------
(* The vector of fixed allocators *)

\* Every fixed allocator keeps its books of the objects of its size.
SmallFiled ==
  \A k \in DOMAIN allocators :
    Sound(SmallNumBlocks, allocators[k], UseIn(small_held, allocators[k].block_size))
SmallKnown == \A b \in Small!Blocks : small_held[b] > 0 => b[1] \in Small!KnownSizes

SmallInv ==
  /\ allocators \in Seq(FixedAllocators(SmallNumBlocks))
  /\ small_held \in [Small!Blocks -> {0, 1}]
  /\ Small!SortedBySize /\ SmallFiled /\ SmallKnown
  /\ alloc # Null => alloc \in DOMAIN allocators
  /\ dealloc # Null => dealloc \in DOMAIN allocators

LEMMA SmallVector ==
  ASSUME SmallInv
  PROVE  /\ Len(allocators) \in Nat /\ DOMAIN allocators = 1 .. Len(allocators)
         /\ \A k \in DOMAIN allocators :
              /\ allocators[k] \in FixedAllocators(SmallNumBlocks)
              /\ allocators[k].block_size \in Nat
<1>1. allocators \in Seq(FixedAllocators(SmallNumBlocks))
  BY DEF SmallInv
<1>2. Len(allocators) \in Nat /\ DOMAIN allocators = 1 .. Len(allocators)
  BY <1>1, LenProperties
<1>3. ASSUME NEW k \in DOMAIN allocators
      PROVE  allocators[k] \in FixedAllocators(SmallNumBlocks)
  BY <1>1, <1>2, ElementOfSeq
<1> QED BY <1>2, <1>3 DEF FixedAllocators

\* std::lower_bound finds the size where it is in the range.
LEMMA LowerBoundFinds ==
  ASSUME SmallInv, NEW s \in Nat, NEW first \in 1 .. Len(allocators),
         NEW end \in 1 .. Len(allocators) + 1,
         NEW k \in DOMAIN allocators, allocators[k].block_size = s, first <= k, k < end
  PROVE  Small!LowerBound(first, end, s) = k
<1> DEFINE T == {m \in first .. end - 1 : allocators[m].block_size >= s} \cup {end}
           m == Fixed!Min(T)
<1>1. Len(allocators) \in Nat /\ DOMAIN allocators = 1 .. Len(allocators)
  BY SmallVector
<1>2. T \in SUBSET Nat /\ k \in T
  BY <1>1
<1> HIDE DEF T
<1>3. m \in T /\ m <= k
  BY <1>2, FixedMinIsLeast
<1>4. Small!LowerBound(first, end, s) = m
  BY SmallMin DEF Small!LowerBound, T
<1> HIDE DEF m
<1>5. m \in first .. end - 1 /\ allocators[m].block_size >= s
  BY <1>1, <1>3 DEF T
<1>6. m \in DOMAIN allocators /\ m \in Nat
  BY <1>1, <1>5
<1>7. ~(m < k)
  <2>1. m < k => allocators[m].block_size < allocators[k].block_size
    BY <1>6 DEF SmallInv, Small!SortedBySize
  <2>2. allocators[m].block_size \in Nat
    BY <1>6, SmallVector
  <2> QED BY <1>5, <2>1, <2>2
<1> QED BY <1>1, <1>3, <1>4, <1>6, <1>7

\* Whatever the hint points to, the fixed allocator found is that of the size.
LEMMA AllocatorIsFound ==
  ASSUME SmallInv, NEW s \in Small!KnownSizes, NEW hint,
         hint # Null => hint \in DOMAIN allocators
  PROVE  /\ Small!AllocatorFor(s, hint) \in DOMAIN allocators
         /\ allocators[Small!AllocatorFor(s, hint)].block_size = s
<1>1. PICK k \in DOMAIN allocators : allocators[k].block_size = s
  BY DEF Small!KnownSizes
<1>2. /\ Len(allocators) \in Nat /\ DOMAIN allocators = 1 .. Len(allocators)
      /\ k \in 1 .. Len(allocators) /\ s \in Nat
  BY <1>1, SmallVector
<1>3. CASE hint = Null
  <2>1. /\ 1 \in 1 .. Len(allocators) /\ Len(allocators) + 1 \in 1 .. Len(allocators) + 1
        /\ 1 <= k /\ k < Len(allocators) + 1
    BY <1>2
  <2>2. Small!LowerBound(1, Len(allocators) + 1, s) = k
    BY <1>1, <1>2, <2>1, LowerBoundFinds
  <2> QED BY <1>1, <1>3, <2>2 DEF Small!AllocatorFor
<1>4. CASE hint # Null /\ allocators[hint].block_size = s
  BY <1>4 DEF Small!AllocatorFor
<1>5. CASE hint # Null /\ allocators[hint].block_size < s
  <2>1. hint \in DOMAIN allocators /\ hint \in 1 .. Len(allocators)
    BY <1>2, <1>5
  <2>2. allocators[hint].block_size \in Nat
    BY <2>1, SmallVector
  <2>3. k < hint => allocators[k].block_size < allocators[hint].block_size
    BY <1>1, <2>1 DEF SmallInv, Small!SortedBySize
  <2>4. hint <= k /\ k < Len(allocators) + 1
    BY <1>1, <1>2, <1>5, <2>1, <2>2, <2>3
  <2>5. Small!LowerBound(hint, Len(allocators) + 1, s) = k
    BY <1>1, <1>2, <2>1, <2>4, LowerBoundFinds
  <2>6. allocators[hint].block_size # s
    BY <1>2, <1>5, <2>2
  <2> QED BY <1>1, <1>5, <2>5, <2>6 DEF Small!AllocatorFor
<1>6. CASE /\ hint # Null /\ allocators[hint].block_size # s
           /\ ~(allocators[hint].block_size < s)
  <2>1. hint \in DOMAIN allocators /\ hint \in 1 .. Len(allocators)
    BY <1>2, <1>6
  <2>2. allocators[hint].block_size \in Nat
    BY <2>1, SmallVector
  <2>3. hint < k => allocators[hint].block_size < allocators[k].block_size
    BY <1>1, <2>1 DEF SmallInv, Small!SortedBySize
  <2>4. 1 <= k /\ k < hint
    BY <1>1, <1>2, <1>6, <2>1, <2>2, <2>3
  <2>5. Small!LowerBound(1, hint, s) = k
    BY <1>1, <1>2, <2>1, <2>4, LowerBoundFinds
  <2> QED BY <1>1, <1>6, <2>5 DEF Small!AllocatorFor
<1> QED BY <1>3, <1>4, <1>5, <1>6

\* One fixed allocator, and what is in use of its size, changes.
LEMMA OneAllocatorChanges ==
  ASSUME Small!SmallObjectAssumption, SmallInv, NEW k \in DOMAIN allocators, NEW g,
         NEW s, s = allocators[k].block_size, g.block_size = s,
         allocators' = [allocators EXCEPT ![k] = g],
         small_held' \in [Small!Blocks -> {0, 1}],
         Sound(SmallNumBlocks, g, UseIn(small_held', s)),
         \A t : t # s => UseIn(small_held', t) = UseIn(small_held, t),
         \A b \in Small!Blocks : small_held'[b] > 0 => small_held[b] > 0 \/ b[1] = s,
         alloc' # Null => alloc' \in DOMAIN allocators,
         dealloc' # Null => dealloc' \in DOMAIN allocators
  PROVE  SmallInv'
<1> DEFINE n == SmallNumBlocks
<1>1. /\ allocators \in Seq(FixedAllocators(n)) /\ DOMAIN allocators = 1 .. Len(allocators)
      /\ g \in FixedAllocators(n)
  BY SmallVector DEF SmallInv, Sound
<1>2. allocators' \in Seq(FixedAllocators(n)) /\ DOMAIN allocators' = DOMAIN allocators
  BY <1>1, ExceptSeq
<1>3. /\ allocators'[k] = g
      /\ \A m \in DOMAIN allocators \ {k} : allocators'[m] = allocators[m]
  BY <1>1
<1>4. \A m \in DOMAIN allocators : allocators'[m].block_size = allocators[m].block_size
  BY <1>3
<1>5. Small!SortedBySize'
  BY <1>2, <1>4 DEF SmallInv, Small!SortedBySize
<1>6. SmallFiled'
  <2>1. ASSUME NEW m \in DOMAIN allocators
        PROVE  Sound(n, allocators'[m], UseIn(small_held', allocators'[m].block_size))
    <3>1. CASE m = k
      BY <1>3, <3>1
    <3>2. CASE m # k
      <4>1. allocators[m].block_size # s
        <5>1. /\ m < k => allocators[m].block_size < s
              /\ k < m => s < allocators[m].block_size
          BY DEF SmallInv, Small!SortedBySize
        <5>2. m \in Nat /\ k \in Nat /\ s \in Nat /\ allocators[m].block_size \in Nat
          BY <1>1, SmallVector
        <5> QED BY <3>2, <5>1, <5>2
      <4>2. Sound(n, allocators[m], UseIn(small_held, allocators[m].block_size))
        BY DEF SmallInv, SmallFiled
      <4> QED BY <1>3, <3>2, <4>1, <4>2
    <3> QED BY <3>1, <3>2
  <2> QED BY <1>2, <2>1 DEF SmallFiled
<1>7. SmallKnown'
  <2>1. \A t : t \in Small!KnownSizes => t \in Small!KnownSizes'
    BY <1>2, <1>4 DEF Small!KnownSizes
  <2>2. s \in Small!KnownSizes
    BY DEF Small!KnownSizes
  <2> QED BY <2>1, <2>2 DEF SmallInv, SmallKnown
<1> QED BY <1>2, <1>5, <1>6, <1>7 DEF SmallInv

\* The memory of the small-object allocator.
SmallBacked ==
  {b \in Small!Blocks : \E k \in DOMAIN allocators :
     allocators[k].block_size = b[1] /\ b[2] \in DOMAIN allocators[k].storage}

LEMMA InSmallBacked ==
  ASSUME NEW b \in Small!Blocks
  PROVE  b \in SmallBacked <=> \E k \in DOMAIN allocators :
           allocators[k].block_size = b[1] /\ b[2] \in DOMAIN allocators[k].storage
BY DEF SmallBacked

\* What is in use lies in that memory.
LEMMA UseIsBacked ==
  ASSUME Small!SmallObjectAssumption, SmallInv, NEW b \in Small!Blocks, small_held[b] > 0
  PROVE  b \in SmallBacked
<1>1. PICK k \in DOMAIN allocators : allocators[k].block_size = b[1]
  BY DEF SmallInv, SmallKnown, Small!KnownSizes
<1>2. Part(b) \in UseIn(small_held, b[1])
  BY InUseIs
<1>3. Stored(SmallNumBlocks, allocators[k].storage, UseIn(small_held, b[1]))
  BY <1>1 DEF SmallInv, SmallFiled, Sound
<1>4. Part(b) \in (DOMAIN allocators[k].storage) \X (0 .. SmallNumBlocks - 1)
  BY <1>2, <1>3 DEF Stored
<1>5. b[2] \in DOMAIN allocators[k].storage
  BY <1>4 DEF Part
<1> QED BY <1>1, <1>5, InSmallBacked

\* An object's block, of its size, from what a fixed allocator hands out.
LEMMA TheBlock ==
  ASSUME NEW s, NEW c, NEW j
  PROVE  <<s>> \o <<c, j>> = <<s, c, j>> /\ Tail(<<s, c, j>>) = <<c, j>>
<1> DEFINE S == {s, c, j}
           p == <<s>>
           q == <<c, j>>
           r == <<s, c, j>>
<1>1. p \in Seq(S) /\ Len(p) = 1 /\ p[1] = s
  OBVIOUS
<1>2. q \in Seq(S) /\ Len(q) = 2 /\ q[1] = c /\ q[2] = j
  OBVIOUS
<1>3. r \in Seq(S) /\ Len(r) = 3 /\ r[1] = s /\ r[2] = c /\ r[3] = j
  OBVIOUS
<1> HIDE DEF p, q, r, S
<1>4. /\ p \o q \in Seq(S) /\ Len(p \o q) = 3
      /\ \A m \in 1 .. 3 : (p \o q)[m] = IF m <= 1 THEN p[m] ELSE q[m - 1]
  BY <1>1, <1>2, ConcatProperties
<1>5. p \o q = r
  <2>1. \A m \in 1 .. 3 : (p \o q)[m] = r[m]
    BY <1>1, <1>2, <1>3, <1>4
  <2> QED BY <1>3, <1>4, <2>1, SeqEqual
<1>6. Tail(r) = q
  <2>1. /\ Tail(r) \in Seq(S) /\ Len(Tail(r)) = 2
        /\ \A m \in 1 .. 2 : Tail(r)[m] = r[m + 1]
    BY <1>3, HeadTailProperties
  <2>2. \A m \in 1 .. 2 : Tail(r)[m] = q[m]
    <3> DEFINE w == Tail(r)
    <3>1. \A m \in 1 .. 2 : w[m] = r[m + 1]
      BY <2>1
    <3> HIDE DEF w
    <3>2. w[1] = r[1 + 1] /\ w[2] = r[2 + 1]
      BY <3>1
    <3>3. w[1] = q[1] /\ w[2] = q[2]
      BY <1>2, <1>3, <3>2
    <3>4. \A m \in 1 .. 2 : m = 1 \/ m = 2
      OBVIOUS
    <3> QED BY <3>3, <3>4 DEF w
  <2> QED BY <1>2, <2>1, <2>2, SeqEqual
<1> QED BY <1>5, <1>6 DEF p, q, r

LEMMA SmallAllocateStep ==
  ASSUME Small!SmallObjectAssumption, SmallInv, NEW s \in Sizes, s \in Small!KnownSizes,
         Small!AllocateObject(s)
  PROVE  /\ SmallInv' /\ SmallBacked \subseteq SmallBacked'
         /\ \E b \in Small!Blocks : /\ small_held[b] = 0 /\ b \in SmallBacked'
                                    /\ small_held' = [small_held EXCEPT ![b] = 1]
<1> DEFINE n == SmallNumBlocks
           k == Small!AllocatorFor(s, alloc)
           f == allocators[k]
           U == UseIn(small_held, s)
<1>1. n \in Nat \ {0} /\ Small!Indices = 0 .. n - 1
  BY SmallSizes
<1>2. k \in DOMAIN allocators /\ f.block_size = s
  BY AllocatorIsFound DEF SmallInv
<1>3. Sound(n, f, U) /\ small_held \in [Small!Blocks -> {0, 1}]
  BY <1>2 DEF SmallInv, SmallFiled
<1>4. PICK g \in Small!Chosen(f) :
        /\ Len(g.storage) <= MaxChunks /\ alloc' = k
        /\ allocators' = [allocators EXCEPT ![k] = Small!Allocated(g)]
        /\ small_held' = [small_held EXCEPT ![<<s>> \o Small!NextBlock(g)] = @ + 1]
        /\ UNCHANGED <<capacity, dealloc, small_arrays>>
  BY DEF Small!AllocateObject
<1>5. g \in ChosenOf(n, f)
  <2>1. f \in FixedAllocators(n)
    BY <1>3 DEF Sound
  <2> QED BY <2>1, SmallIs
<1> DEFINE h == AllocatedOf(g)
           x == NextOf(g)
           V == With(U, x)
           b == <<s, x[1], x[2]>>
<1>6. h = Small!Allocated(g) /\ x = Small!NextBlock(g)
  <2>1. Sound(n, g, U)
    BY <1>1, <1>3, <1>5, ChosenSound
  <2>2. g \in FixedAllocators(n)
    BY <2>1 DEF Sound
  <2> QED BY <2>2, SmallIs DEF Small!NextBlock, NextOf
<1>7. h = AllocatedOf(g) /\ x = NextOf(g) /\ V = With(U, x)
  OBVIOUS
<1>8. <<s>> \o Small!NextBlock(g) = b
  <2>1. x = <<x[1], x[2]>>
    BY DEF NextOf
  <2>2. <<s>> \o <<x[1], x[2]>> = <<s, x[1], x[2]>>
    BY TheBlock
  <2> QED BY <1>6, <2>1, <2>2
<1>9. allocators' = [allocators EXCEPT ![k] = h]
  BY <1>4, <1>6
<1> HIDE DEF n, k, f, U, h, x, V
<1>10. /\ Sound(n, g, U) /\ g.block_size = f.block_size
       /\ g.alloc \in DOMAIN g.storage /\ g.storage[g.alloc].num_blocks_free > 0
       /\ DOMAIN f.storage \subseteq DOMAIN g.storage
  BY <1>1, <1>3, <1>5, ChosenSound
<1>11. /\ x \in (DOMAIN g.storage) \X (0 .. n - 1) /\ x \notin U
       /\ Sound(n, h, V) /\ h.block_size = g.block_size
       /\ DOMAIN h.storage = DOMAIN g.storage
  BY <1>1, <1>7, <1>10, AllocatedSound
<1>12. /\ b \in Small!Blocks /\ b[1] = s /\ b[2] = x[1] /\ Part(b) = x
       /\ b[2] \in DOMAIN h.storage
  <2>1. DOMAIN g.storage = 1 .. Len(g.storage) /\ Len(g.storage) \in Nat
    BY <1>1, <1>10, StorageIs
  <2>2. MaxChunks \in Nat
    BY SmallSizes
  <2> QED BY <1>1, <1>4, <1>11, <2>1, <2>2 DEF Small!Blocks, Part
<1> HIDE DEF b
<1>13. small_held[b] = 0
  <2>1. ~(small_held[b] > 0)
    BY <1>11, <1>12, InUseIs DEF U
  <2> QED BY <1>3, <1>12, <2>1
<1>14. small_held' = [small_held EXCEPT ![b] = 1]
  <2>1. small_held' = [small_held EXCEPT ![b] = small_held[b] + 1]
    BY <1>4, <1>8
  <2>2. small_held[b] + 1 = 1
    BY <1>13
  <2> QED BY <2>1, <2>2
<1>15. small_held' = Taking(small_held, b)
  BY <1>14 DEF Taking
<1>16. /\ UseIn(small_held', s) = V
       /\ \A t : t # s => UseIn(small_held', t) = UseIn(small_held, t)
  BY <1>3, <1>7, <1>12, <1>15, UseAfterTaking DEF U
<1>17. /\ small_held' \in [Small!Blocks -> {0, 1}]
       /\ \A d \in Small!Blocks : small_held'[d] > 0 => small_held[d] > 0 \/ d[1] = s
  BY <1>3, <1>12, <1>14
<1>18. SmallInv'
  <2>1. s = allocators[k].block_size /\ h.block_size = s
    BY <1>2, <1>10, <1>11 DEF f
  <2>2. Sound(SmallNumBlocks, h, UseIn(small_held', s))
    BY <1>11, <1>16 DEF n
  <2>3. /\ alloc' # Null => alloc' \in DOMAIN allocators
        /\ dealloc' # Null => dealloc' \in DOMAIN allocators
    BY <1>2, <1>4 DEF SmallInv, k
  <2> QED BY <1>2, <1>9, <1>16, <1>17, <2>1, <2>2, <2>3, OneAllocatorChanges
<1>19. /\ DOMAIN allocators' = DOMAIN allocators /\ allocators'[k] = h
       /\ \A m \in DOMAIN allocators \ {k} : allocators'[m] = allocators[m]
  BY <1>2, <1>9
<1>20. h.block_size = allocators[k].block_size
       /\ DOMAIN allocators[k].storage \subseteq DOMAIN h.storage
  BY <1>10, <1>11 DEF f
<1>21. SmallBacked \subseteq SmallBacked'
  <2>1. \A m \in DOMAIN allocators :
          /\ allocators'[m].block_size = allocators[m].block_size
          /\ DOMAIN allocators[m].storage \subseteq DOMAIN allocators'[m].storage
    BY <1>19, <1>20
  <2> QED BY <1>19, <2>1 DEF SmallBacked
<1>22. b \in SmallBacked'
  <2>1. allocators'[k].block_size = b[1] /\ b[2] \in DOMAIN allocators'[k].storage
    BY <1>2, <1>12, <1>19, <1>20 DEF f
  <2> QED BY <1>2, <1>12, <1>19, <2>1 DEF SmallBacked
<1> QED BY <1>12, <1>13, <1>14, <1>18, <1>21, <1>22

LEMMA SmallDeallocateStep ==
  ASSUME Small!SmallObjectAssumption, SmallInv, NEW b \in Small!Blocks,
         Small!DeallocateObject(b)
  PROVE  /\ SmallInv' /\ SmallBacked' = SmallBacked
         /\ small_held[b] = 1 /\ small_held' = [small_held EXCEPT ![b] = 0]
<1> DEFINE n == SmallNumBlocks
           s == b[1]
           k == Small!AllocatorFor(s, dealloc)
           f == allocators[k]
           U == UseIn(small_held, s)
           x == Part(b)
           h == DeallocatedOf(f, x)
           V == Without(U, x)
<1>1. n \in Nat \ {0}
  BY SmallSizes
<1>2. /\ small_held[b] > 0 /\ dealloc' = k
      /\ allocators' = [allocators EXCEPT ![k] = Small!Deallocated(f, Tail(b))]
      /\ small_held' = [small_held EXCEPT ![b] = small_held[b] - 1]
      /\ UNCHANGED <<capacity, alloc, small_arrays>>
  BY DEF Small!DeallocateObject
<1>3. k \in DOMAIN allocators /\ f.block_size = s
  <2>1. s \in Small!KnownSizes
    BY <1>2 DEF SmallInv, SmallKnown
  <2> QED BY <2>1, AllocatorIsFound DEF SmallInv
<1>4. Sound(n, f, U) /\ small_held \in [Small!Blocks -> {0, 1}]
  BY <1>3 DEF SmallInv, SmallFiled
<1>5. x \in U /\ x = Tail(b)
  <2>1. x \in U
    BY <1>2, InUseIs
  <2>2. b = <<b[1], b[2], b[3]>>
    BY BlockIs
  <2>3. Tail(<<b[1], b[2], b[3]>>) = <<b[2], b[3]>>
    BY TheBlock
  <2> QED BY <2>1, <2>2, <2>3 DEF Part
<1>6. allocators' = [allocators EXCEPT ![k] = h]
  <2>1. f \in FixedAllocators(n)
    BY <1>4 DEF Sound
  <2> QED BY <1>2, <1>5, <2>1, SmallIs
<1>7. small_held[b] = 1 /\ small_held' = [small_held EXCEPT ![b] = 0]
  <2>1. small_held[b] = 1
    BY <1>2, <1>4
  <2>2. small_held[b] - 1 = 0
    BY <2>1
  <2> QED BY <1>2, <2>1, <2>2
<1>8. h = DeallocatedOf(f, x) /\ V = Without(U, x)
  OBVIOUS
<1>9. small_held' = Leaving(small_held, b)
  BY <1>7 DEF Leaving
<1>10. /\ UseIn(small_held', s) = V
       /\ \A t : t # s => UseIn(small_held', t) = UseIn(small_held, t)
  BY <1>4, <1>9, UseAfterLeaving
<1>11. /\ small_held' \in [Small!Blocks -> {0, 1}]
       /\ \A d \in Small!Blocks : small_held'[d] > 0 => small_held[d] > 0
  BY <1>4, <1>7
<1> HIDE DEF n, s, k, f, U, h, x, V
<1>12. /\ Sound(n, h, V) /\ h.block_size = f.block_size
       /\ DOMAIN h.storage = DOMAIN f.storage
  BY <1>1, <1>4, <1>5, <1>8, DeallocatedSound
<1>13. SmallInv'
  <2>1. s = allocators[k].block_size /\ h.block_size = s
    BY <1>3, <1>12 DEF f
  <2>2. Sound(SmallNumBlocks, h, UseIn(small_held', s))
    BY <1>10, <1>12 DEF n
  <2>3. /\ alloc' # Null => alloc' \in DOMAIN allocators
        /\ dealloc' # Null => dealloc' \in DOMAIN allocators
    BY <1>2, <1>3 DEF SmallInv
  <2> QED BY <1>3, <1>6, <1>10, <1>11, <2>1, <2>2, <2>3, OneAllocatorChanges
<1>14. SmallBacked' = SmallBacked
  <2>1. /\ DOMAIN allocators' = DOMAIN allocators /\ allocators'[k] = h
        /\ \A m \in DOMAIN allocators \ {k} : allocators'[m] = allocators[m]
    BY <1>3, <1>6
  <2>2. \A m \in DOMAIN allocators :
          /\ allocators'[m].block_size = allocators[m].block_size
          /\ DOMAIN allocators[m].storage = DOMAIN allocators'[m].storage
    BY <1>12, <2>1 DEF f
  <2> QED BY <2>1, <2>2 DEF SmallBacked
<1> QED BY <1>7, <1>13, <1>14

\* A sequence with an element more.
Inserted(q, k, e) == SubSeq(q, 1, k - 1) \o <<e>> \o SubSeq(q, k, Len(q))

LEMMA InsertedIs ==
  ASSUME NEW S, NEW q \in Seq(S), NEW k \in 1 .. Len(q) + 1, NEW e \in S,
         NEW r, r = Inserted(q, k, e)
  PROVE  /\ r \in Seq(S) /\ Len(r) = Len(q) + 1 /\ r[k] = e
         /\ \A m \in 1 .. k - 1 : r[m] = q[m]
         /\ \A m \in k + 1 .. Len(q) + 1 : r[m] = q[m - 1]
<1> DEFINE n == Len(q)
           x == SubSeq(q, 1, k - 1)
           y == <<e>>
           z == SubSeq(q, k, n)
<1>1. n \in Nat /\ k \in 1 .. n + 1 /\ \A m \in 1 .. n : q[m] \in S
  BY LenProperties, ElementOfSeq
<1>2. x \in Seq(S) /\ Len(x) = k - 1 /\ \A m \in 1 .. k - 1 : x[m] = q[m]
  <2>1. 1 \in Int /\ k - 1 \in Int /\ \A m \in 1 .. k - 1 : q[m] \in S
    BY <1>1
  <2>2. /\ x \in Seq(S) /\ Len(x) = IF 1 <= k - 1 THEN (k - 1) - 1 + 1 ELSE 0
        /\ \A m \in 1 .. (k - 1) - 1 + 1 : x[m] = q[1 + m - 1]
    BY <2>1, SubSeqProperties
  <2> HIDE DEF x
  <2>3. Len(x) = k - 1
    BY <1>1, <2>2
  <2>4. ASSUME NEW m \in 1 .. k - 1 PROVE x[m] = q[m]
    <3>1. m \in 1 .. (k - 1) - 1 + 1 /\ 1 + m - 1 = m
      BY <1>1
    <3>2. x[m] = q[1 + m - 1]
      BY <2>2, <3>1
    <3> QED BY <3>1, <3>2
  <2> QED BY <2>2, <2>3, <2>4
<1>3. z \in Seq(S) /\ Len(z) = (n + 1) - k /\ \A m \in 1 .. (n + 1) - k : z[m] = q[k + m - 1]
  <2> HIDE DEF n
  <2>1. k \in Int /\ n \in Int /\ \A m \in k .. n : q[m] \in S
    BY <1>1
  <2>2. /\ z \in Seq(S) /\ Len(z) = IF k <= n THEN n - k + 1 ELSE 0
        /\ \A m \in 1 .. n - k + 1 : z[m] = q[k + m - 1]
    BY <2>1, SubSeqProperties
  <2> HIDE DEF z
  <2>3. Len(z) = (n + 1) - k /\ n - k + 1 = (n + 1) - k
    BY <1>1, <2>2
  <2> QED BY <2>2, <2>3
<1>4. y \in Seq(S) /\ Len(y) = 1 /\ y[1] = e
  OBVIOUS
<1>5. r = (x \o y) \o z
  BY DEF Inserted
<1> HIDE DEF x, y, z, n
<1> DEFINE w == x \o y
<1>6. /\ w \in Seq(S) /\ Len(w) = k
      /\ \A m \in 1 .. k : w[m] = IF m <= k - 1 THEN x[m] ELSE y[m - (k - 1)]
  <2>1. /\ w \in Seq(S) /\ Len(w) = Len(x) + Len(y)
        /\ \A m \in 1 .. Len(x) + Len(y) :
             w[m] = IF m <= Len(x) THEN x[m] ELSE y[m - Len(x)]
    BY <1>2, <1>4, ConcatProperties
  <2> HIDE DEF w
  <2>2. Len(x) + Len(y) = k /\ Len(x) = k - 1
    BY <1>1, <1>2, <1>4
  <2> QED BY <2>1, <2>2
<1> HIDE DEF w
<1>7. /\ r \in Seq(S) /\ Len(r) = n + 1
      /\ \A m \in 1 .. n + 1 : r[m] = IF m <= k THEN w[m] ELSE z[m - k]
  <2>0. r = w \o z
    BY <1>5 DEF w
  <2>1. /\ r \in Seq(S) /\ Len(r) = Len(w) + Len(z)
        /\ \A m \in 1 .. Len(w) + Len(z) :
             r[m] = IF m <= Len(w) THEN w[m] ELSE z[m - Len(w)]
    <3>1. w \in Seq(S) /\ z \in Seq(S)
      BY <1>3, <1>6
    <3> QED BY <2>0, <3>1, ConcatProperties
  <2>2. Len(w) + Len(z) = n + 1
    BY <1>1, <1>3, <1>6
  <2> QED BY <1>6, <2>1, <2>2
<1>8. r[k] = e
  <2>1. r[k] = w[k] /\ w[k] = y[k - (k - 1)] /\ k - (k - 1) = 1
    BY <1>1, <1>6, <1>7
  <2> QED BY <1>4, <2>1
<1>9. ASSUME NEW m \in 1 .. k - 1 PROVE r[m] = q[m]
  <2>1. m \in 1 .. n + 1 /\ m \in 1 .. k /\ m <= k /\ m <= k - 1
    BY <1>1
  <2> QED BY <1>2, <1>6, <1>7, <2>1
<1>10. ASSUME NEW m \in k + 1 .. n + 1 PROVE r[m] = q[m - 1]
  <2>1. m \in 1 .. n + 1 /\ ~(m <= k) /\ m - k \in 1 .. (n + 1) - k /\ k + (m - k) - 1 = m - 1
    BY <1>1
  <2>2. r[m] = z[m - k] /\ z[m - k] = q[k + (m - k) - 1]
    BY <1>3, <1>7, <2>1
  <2> QED BY <2>1, <2>2
<1> QED BY <1>7, <1>8, <1>9, <1>10 DEF n

\* Where a new size goes: all sizes before it are smaller, all others larger.
LEMMA PlaceIs ==
  ASSUME SmallInv, NEW s \in Nat, s \notin Small!KnownSizes, NEW k, k = Small!Place(s)
  PROVE  /\ k \in 1 .. Len(allocators) + 1
         /\ \A m \in DOMAIN allocators :
              /\ m < k => allocators[m].block_size < s
              /\ m >= k => allocators[m].block_size > s
<1> DEFINE end == Len(allocators) + 1
           T == {m \in 1 .. end - 1 : allocators[m].block_size >= s} \cup {end}
<1>1. Len(allocators) \in Nat /\ DOMAIN allocators = 1 .. Len(allocators)
  BY SmallVector
<1>2. k = Fixed!Min(T)
  BY SmallMin DEF Small!Place, Small!LowerBound
<1>3. T \in SUBSET Nat /\ T # {} /\ end - 1 = Len(allocators)
  BY <1>1
<1> HIDE DEF T
<1>4. k \in T /\ \A y \in T : k <= y
  BY <1>2, <1>3, FixedMinIsLeast
<1>5. k \in 1 .. Len(allocators) + 1
  BY <1>1, <1>4 DEF T
<1>6. ASSUME NEW m \in DOMAIN allocators
      PROVE  /\ m < k => allocators[m].block_size < s
             /\ m >= k => allocators[m].block_size > s
  <2>1. m \in 1 .. Len(allocators) /\ m \in Nat /\ k \in Nat
    BY <1>1, <1>5
  <2>2. allocators[m].block_size \in Nat /\ allocators[m].block_size # s
    BY SmallVector DEF Small!KnownSizes
  <2>3. ASSUME m < k PROVE allocators[m].block_size < s
    <3>1. m \notin T
      BY <1>4, <2>1, <2>3
    <3>2. ~(allocators[m].block_size >= s)
      BY <1>3, <2>1, <3>1 DEF T
    <3> QED BY <2>2, <3>2
  <2>4. ASSUME m >= k PROVE allocators[m].block_size > s
    <3>1. k \in DOMAIN allocators /\ k # Len(allocators) + 1
      BY <1>1, <1>5, <2>1, <2>4
    <3>2. allocators[k].block_size >= s
      BY <1>3, <1>4, <3>1 DEF T
    <3>3. allocators[k].block_size \in Nat
      BY <3>1, SmallVector
    <3>4. k < m => allocators[k].block_size < allocators[m].block_size
      BY <3>1 DEF SmallInv, Small!SortedBySize
    <3> QED BY <2>1, <2>2, <2>4, <3>2, <3>3, <3>4
  <2> QED BY <2>3, <2>4
<1> QED BY <1>5, <1>6

LEMMA SmallConstructStep ==
  ASSUME Small!SmallObjectAssumption, SmallInv, NEW s \in Sizes, Small!Construct(s)
  PROVE  SmallInv' /\ SmallBacked' = SmallBacked /\ small_held' = small_held
<1> DEFINE n == SmallNumBlocks
           k == Small!Place(s)
           e == Small!NewFixed(s)
           top == Len(allocators)
<1>1. n \in Nat \ {0} /\ s \in Nat
  BY SmallSizes
<1>2. /\ s \notin Small!KnownSizes /\ small_held' = small_held
      /\ alloc' \in {alloc, Null} /\ dealloc' \in {dealloc, Null}
  BY DEF Small!Construct, Small!Kept
<1>3. allocators' = Inserted(allocators, k, e)
  <2>1. allocators = [m \in DOMAIN allocators |-> allocators[m]]
    BY SmallVector DEF SmallInv
  <2>2. \A moved : [m \in DOMAIN allocators |->
                      IF moved \/ m >= k THEN Small!Shifted(allocators[m]) ELSE allocators[m]]
                   = allocators
    BY <2>1 DEF Small!Shifted
  <2>3. allocators' = Small!InsertAt(allocators, k, e)
    BY <2>2 DEF Small!Construct
  <2> QED BY <2>3 DEF Small!InsertAt, Inserted
<1>4. /\ k \in 1 .. top + 1
      /\ \A m \in DOMAIN allocators :
           /\ m < k => allocators[m].block_size < s
           /\ m >= k => allocators[m].block_size > s
  BY <1>1, <1>2, PlaceIs
<1>5. Sound(n, e, {}) /\ e.block_size = s /\ DOMAIN e.storage = {}
  BY <1>1, NewSound DEF Small!NewFixed
<1>6. /\ allocators \in Seq(FixedAllocators(n)) /\ top \in Nat
      /\ DOMAIN allocators = 1 .. top /\ e \in FixedAllocators(n)
  BY <1>5, SmallVector DEF SmallInv, Sound
<1> HIDE DEF n, k, e
<1>7. /\ allocators' \in Seq(FixedAllocators(n)) /\ Len(allocators') = top + 1
      /\ allocators'[k] = e
      /\ \A m \in 1 .. k - 1 : allocators'[m] = allocators[m]
      /\ \A m \in k + 1 .. top + 1 : allocators'[m] = allocators[m - 1]
  BY <1>3, <1>4, <1>6, InsertedIs, SMTT(30)
<1>8. DOMAIN allocators' = 1 .. top + 1
  BY <1>7, LenProperties
<1> HIDE DEF top
\* Where an element comes from, and where it goes.
<1> DEFINE Old(m) == IF m < k THEN m ELSE m - 1
           Now(m) == IF m < k THEN m ELSE m + 1
<1>9. ASSUME NEW m \in DOMAIN allocators', m # k
      PROVE  /\ Old(m) \in DOMAIN allocators /\ allocators'[m] = allocators[Old(m)]
             /\ m < k => Old(m) < k
             /\ m > k => Old(m) >= k
  <2>1. m \in 1 .. top + 1 /\ k \in 1 .. top + 1 /\ top \in Nat
    BY <1>4, <1>6, <1>8
  <2>2. CASE m < k
    <3>1. m \in 1 .. k - 1 /\ m \in 1 .. top
      BY <2>1, <2>2
    <3> QED BY <1>6, <1>7, <2>1, <2>2, <3>1
  <2>3. CASE m > k
    <3>1. m \in k + 1 .. top + 1 /\ m - 1 \in 1 .. top /\ m - 1 >= k /\ ~(m < k)
      BY <2>1, <2>3
    <3> QED BY <1>6, <1>7, <2>1, <2>3, <3>1
  <2> QED BY <1>9, <2>1, <2>2, <2>3
<1>10. ASSUME NEW m \in DOMAIN allocators
       PROVE  Now(m) \in DOMAIN allocators' /\ allocators'[Now(m)] = allocators[m]
  <2>1. m \in 1 .. top /\ k \in 1 .. top + 1 /\ top \in Nat
    BY <1>4, <1>6
  <2>2. CASE m < k
    <3>1. m \in 1 .. k - 1 /\ m \in 1 .. top + 1
      BY <2>1, <2>2
    <3> QED BY <1>7, <1>8, <2>2, <3>1
  <2>3. CASE ~(m < k)
    <3>1. m + 1 \in k + 1 .. top + 1 /\ (m + 1) - 1 = m /\ m + 1 \in 1 .. top + 1
      BY <2>1, <2>3
    <3> QED BY <1>7, <1>8, <2>3, <3>1
  <2> QED BY <2>2, <2>3
<1>11. k \in DOMAIN allocators' /\ \A m \in DOMAIN allocators' : m \in Int
  BY <1>4, <1>6, <1>8 DEF top
<1>12. Small!SortedBySize'
  <2>1. ASSUME NEW l \in DOMAIN allocators', NEW m \in DOMAIN allocators', l < m
        PROVE  allocators'[l].block_size < allocators'[m].block_size
    <3>1. l \in Int /\ m \in Int /\ k \in Int
      BY <1>11
    <3>2. CASE l # k /\ m # k
      <4>1. Old(l) < Old(m) /\ Old(l) \in DOMAIN allocators /\ Old(m) \in DOMAIN allocators
        BY <1>9, <2>1, <3>1, <3>2
      <4>2. allocators'[l] = allocators[Old(l)] /\ allocators'[m] = allocators[Old(m)]
        BY <1>9, <3>2
      <4> HIDE DEF Old
      <4> QED BY <4>1, <4>2 DEF SmallInv, Small!SortedBySize
    <3>3. CASE l = k
      <4>1. m # k /\ m > k
        BY <2>1, <3>1, <3>3
      <4>2. /\ Old(m) \in DOMAIN allocators /\ allocators'[m] = allocators[Old(m)]
            /\ Old(m) >= k
        BY <1>9, <4>1
      <4> HIDE DEF Old
      <4>3. allocators[Old(m)].block_size > s /\ allocators[Old(m)].block_size \in Nat
        BY <1>4, <4>2, SmallVector
      <4> QED BY <1>1, <1>5, <1>7, <3>3, <4>2, <4>3
    <3>4. CASE m = k
      <4>1. l # k /\ l < k
        BY <2>1, <3>1, <3>4
      <4>2. /\ Old(l) \in DOMAIN allocators /\ allocators'[l] = allocators[Old(l)]
            /\ Old(l) < k
        BY <1>9, <4>1
      <4> HIDE DEF Old
      <4>3. allocators[Old(l)].block_size < s
        BY <1>4, <4>2
      <4> QED BY <1>5, <1>7, <3>4, <4>2, <4>3
    <3> QED BY <3>2, <3>3, <3>4
  <2> QED BY <2>1 DEF Small!SortedBySize
<1>13. SmallFiled'
  <2>1. ASSUME NEW m \in DOMAIN allocators'
        PROVE  Sound(n, allocators'[m], UseIn(small_held', allocators'[m].block_size))
    <3>1. CASE m = k
      <4>1. UseIn(small_held, s) = {}
        <5>1. \A b \in Small!Blocks : b[1] = s => ~(small_held[b] > 0)
          BY <1>2 DEF SmallInv, SmallKnown
        <5>2. \A x : x \notin UseIn(small_held, s)
          BY <5>1, InUseIs
        <5> QED BY <5>2
      <4> QED BY <1>2, <1>5, <1>7, <3>1, <4>1
    <3>2. CASE m # k
      <4>1. Old(m) \in DOMAIN allocators /\ allocators'[m] = allocators[Old(m)]
        BY <1>9, <3>2
      <4> HIDE DEF Old
      <4>2. Sound(n, allocators[Old(m)], UseIn(small_held, allocators[Old(m)].block_size))
        BY <4>1 DEF SmallInv, SmallFiled, n
      <4> QED BY <1>2, <4>1, <4>2
    <3> QED BY <3>1, <3>2
  <2> QED BY <2>1 DEF SmallFiled, n
<1>14. SmallKnown'
  <2>1. ASSUME NEW t \in Small!KnownSizes PROVE t \in Small!KnownSizes'
    <3>1. PICK m \in DOMAIN allocators : t = allocators[m].block_size
      BY DEF Small!KnownSizes
    <3>2. Now(m) \in DOMAIN allocators' /\ allocators'[Now(m)] = allocators[m]
      BY <1>10
    <3> HIDE DEF Now
    <3> QED BY <3>1, <3>2 DEF Small!KnownSizes
  <2> QED BY <1>2, <2>1 DEF SmallInv, SmallKnown
<1>15. /\ alloc' # Null => alloc' \in DOMAIN allocators'
       /\ dealloc' # Null => dealloc' \in DOMAIN allocators'
  <2>1. DOMAIN allocators \subseteq DOMAIN allocators'
    BY <1>6, <1>8
  <2> QED BY <1>2, <2>1 DEF SmallInv
<1>16. SmallInv'
  BY <1>2, <1>7, <1>12, <1>13, <1>14, <1>15 DEF SmallInv, n
<1>17. SmallBacked' = SmallBacked
  <2>1. ASSUME NEW b \in Small!Blocks, b \in SmallBacked PROVE b \in SmallBacked'
    <3>1. PICK m \in DOMAIN allocators :
            allocators[m].block_size = b[1] /\ b[2] \in DOMAIN allocators[m].storage
      BY <2>1 DEF SmallBacked
    <3>2. Now(m) \in DOMAIN allocators' /\ allocators'[Now(m)] = allocators[m]
      BY <1>10
    <3> HIDE DEF Now
    <3> QED BY <3>1, <3>2 DEF SmallBacked
  <2>2. ASSUME NEW b \in Small!Blocks, b \in SmallBacked' PROVE b \in SmallBacked
    <3>1. PICK m \in DOMAIN allocators' :
            allocators'[m].block_size = b[1] /\ b[2] \in DOMAIN allocators'[m].storage
      BY <2>2 DEF SmallBacked
    <3>2. m # k
      BY <1>5, <1>7, <3>1
    <3>3. Old(m) \in DOMAIN allocators /\ allocators'[m] = allocators[Old(m)]
      BY <1>9, <3>2
    <3> HIDE DEF Old
    <3> QED BY <3>1, <3>3 DEF SmallBacked
  <2> QED BY <2>1, <2>2 DEF SmallBacked
<1> QED BY <1>2, <1>16, <1>17

LEMMA SmallInvariance ==
  ASSUME Small!SmallObjectAssumption
  PROVE  Small!Spec => []SmallInv
<1>1. Small!Init => SmallInv
  <2> SUFFICES ASSUME Small!Init PROVE SmallInv
    OBVIOUS
  <2>1. allocators = <<>> /\ alloc = Null /\ dealloc = Null
        /\ small_held = [b \in Small!Blocks |-> 0]
    BY DEF Small!Init
  <2>2. allocators \in Seq(FixedAllocators(SmallNumBlocks)) /\ DOMAIN allocators = {}
    BY <2>1, EmptySeq
  <2> QED BY <2>1, <2>2 DEF SmallInv, Small!SortedBySize, SmallFiled, SmallKnown
<1>2. SmallInv /\ [Small!Next]_(Small!vars) => SmallInv'
  <2> SUFFICES ASSUME SmallInv, [Small!Next]_(Small!vars) PROVE SmallInv'
    OBVIOUS
  <2>1. ASSUME NEW s \in Sizes, Small!Construct(s) PROVE SmallInv'
    BY <2>1, SmallConstructStep
  <2>2. ASSUME NEW s \in Sizes, s \in Small!KnownSizes, Small!AllocateObject(s)
        PROVE  SmallInv'
    BY <2>2, SmallAllocateStep
  <2>3. ASSUME NEW b \in Small!Blocks, Small!DeallocateObject(b) PROVE SmallInv'
    BY <2>3, SmallDeallocateStep
  <2>4. CASE UNCHANGED <<allocators, alloc, dealloc, small_held>>
    BY <2>4 DEF SmallInv, Small!SortedBySize, SmallFiled, SmallKnown, Small!KnownSizes
  <2> QED
    BY <2>1, <2>2, <2>3, <2>4
       DEF Small!Next, Small!Allocate, Small!AllocateArray, Small!DeallocateArray,
           Small!vars
<1>3. QED
  BY <1>1, <1>2, PTL DEF Small!Spec

LEMMA SmallCardinality ==
  ASSUME NEW S
  PROVE  Small!Cardinality(S) = Cardinality(S)
BY DEF Small!Cardinality, Cardinality

\* The sizes stay in order, the hints in the vector, and the fixed allocator of each
\* size agrees with the objects of that size.
THEOREM SmallKeepsItsBooks ==
  ASSUME Small!SmallObjectAssumption
  PROVE  Small!Spec => [](Small!SortedBySize /\ Small!HintsAreCurrent /\ Small!ObjectsBySize)
<1>1. SmallInv => Small!SortedBySize /\ Small!HintsAreCurrent /\ Small!ObjectsBySize
  <2> SUFFICES ASSUME SmallInv
               PROVE  Small!SortedBySize /\ Small!HintsAreCurrent /\ Small!ObjectsBySize
    OBVIOUS
  <2>1. ASSUME NEW k \in DOMAIN allocators
        PROVE  LET f == allocators[k]
               IN  /\ Small!FreeListsAre(f, Small!InUseOf(f.block_size))
                   /\ Small!TotalIs(f) /\ Small!HintsAre(f)
    <3> DEFINE n == SmallNumBlocks
               f == allocators[k]
               U == UseIn(small_held, f.block_size)
    <3>1. n \in Nat \ {0} /\ Small!Indices = 0 .. n - 1 /\ Sound(n, f, U)
      BY SmallSizes DEF SmallInv, SmallFiled
    <3>2. Small!InUseOf(f.block_size) = U
      BY DEF Small!InUseOf, UseIn
    <3> HIDE DEF n, f, U
    <3>3. /\ \A c \in DOMAIN f.storage :
               LET unused == {j \in 0 .. n - 1 : <<c, j>> \notin U}
               IN  /\ f.storage[c].num_blocks_free = Cardinality(unused)
                   /\ Fixed!FreeList(f.storage[c]) = unused
          /\ f.num_blocks_free = Cardinality(Fixed!FreeBlocks(f.storage))
          /\ {f.alloc, f.dealloc} \ {Null} \subseteq DOMAIN f.storage
      BY <3>1, SoundSays
    <3>4. Small!FreeListsAre(f, U)
      BY <3>1, <3>3, SmallCardinality, SmallFreeListIs DEF Small!FreeListsAre
    <3>5. Small!TotalIs(f)
      BY <3>3, SmallCardinality DEF Small!TotalIs, Small!FreeBlocks, Fixed!FreeBlocks
    <3>6. Small!HintsAre(f)
      BY <3>3 DEF Small!HintsAre
    <3> QED BY <3>2, <3>4, <3>5, <3>6 DEF f
  <2>2. Small!HintsAreCurrent
    BY DEF SmallInv, Small!HintsAreCurrent
  <2> QED BY <2>1, <2>2 DEF SmallInv, Small!ObjectsBySize
<1>2. QED
  BY <1>1, SmallInvariance, PTL

\* The allocator of small objects is a pool, whatever sizes are added on the way.
THEOREM SmallRefinesPool ==
  ASSUME Small!SmallObjectAssumption
  PROVE  Small!Spec => Small!ImplementsPool
<1>1. Small!Init => Small!Pool!Init
  BY DEF Small!Init, Small!Pool!Init
<1>2. SmallInv /\ [Small!Next]_(Small!vars) => [Small!Pool!Next]_<<small_held, SmallBacked>>
  <2> SUFFICES ASSUME SmallInv, [Small!Next]_(Small!vars)
               PROVE  [Small!Pool!Next]_<<small_held, SmallBacked>>
    OBVIOUS
  <2>1. ASSUME NEW s \in Sizes, Small!Construct(s)
        PROVE  UNCHANGED <<small_held, SmallBacked>>
    BY <2>1, SmallConstructStep
  <2>2. ASSUME NEW s \in Sizes, s \in Small!KnownSizes, Small!AllocateObject(s)
        PROVE  Small!Pool!Next
    <3>1. /\ SmallBacked \subseteq SmallBacked'
          /\ \E b \in Small!Blocks : /\ small_held[b] = 0 /\ b \in SmallBacked'
                                     /\ small_held' = [small_held EXCEPT ![b] = 1]
      BY <2>2, SmallAllocateStep
    <3>2. PICK b \in Small!Blocks : /\ small_held[b] = 0 /\ b \in SmallBacked'
                                    /\ small_held' = [small_held EXCEPT ![b] = 1]
      BY <3>1
    <3>3. Small!Pool!Allocate(b)
      BY <3>1, <3>2 DEF Small!Pool!Allocate, SmallBacked
    <3> QED BY <3>3 DEF Small!Pool!Next
  <2>3. ASSUME NEW b \in Small!Blocks, Small!DeallocateObject(b) PROVE Small!Pool!Next
    <3>1. /\ SmallBacked' = SmallBacked /\ small_held[b] = 1
          /\ small_held' = [small_held EXCEPT ![b] = 0]
      BY <2>3, SmallDeallocateStep
    <3>2. \A d \in Small!Blocks : small_held[d] > 0 => d \in SmallBacked
      BY UseIsBacked
    <3>3. Small!Pool!InUse \ {b} \subseteq SmallBacked'
      BY <3>1, <3>2 DEF Small!Pool!InUse
    <3>4. Small!Pool!Deallocate(b)
      BY <3>1, <3>3 DEF Small!Pool!Deallocate, SmallBacked
    <3> QED BY <3>4 DEF Small!Pool!Next
  <2>4. ASSUME UNCHANGED <<allocators, small_held>>
        PROVE  UNCHANGED <<small_held, SmallBacked>>
    BY <2>4 DEF SmallBacked
  <2> QED
    BY <2>1, <2>2, <2>3, <2>4
       DEF Small!Next, Small!Allocate, Small!AllocateArray, Small!DeallocateArray,
           Small!vars
<1>3. SmallInv /\ [Small!Next]_(Small!vars)
        => [Small!Pool!Next]_<<small_held,
                               {b \in Small!Blocks : \E i \in DOMAIN allocators :
                                  /\ allocators[i].block_size = b[1]
                                  /\ b[2] \in DOMAIN allocators[i].storage}>>
  BY <1>2 DEF SmallBacked
<1>4. QED
  BY <1>1, <1>3, SmallInvariance, PTL
     DEF Small!Spec, Small!ImplementsPool, Small!Pool!Spec

----------------------------------------------------------------------------
(* Object stacks: the modular arithmetic of align never moves the free bytes *)
(* of a node over a block, and a fresh node serves every small request.      *)

\* Modular arithmetic, one step from the range.
LEMMA ModIs ==
  ASSUME NEW m \in Nat \ {0}, NEW x \in Int
  PROVE  /\ 0 <= x /\ x < m => x % m = x
         /\ 0 - m <= x /\ x < 0 => x % m = x + m
         /\ m <= x /\ x < m + m => x % m = x - m
BY Z3

LEMMA MaskedIs ==
  ASSUME NEW x \in Nat, NEW s \in Nat \ {0}
  PROVE  \/ Stack!Masked(x, s) = x
         \/ Stack!Masked(x, s) = x - s /\ x >= s
<1>1. ASSUME x < s PROVE x \div s = 0
  BY <1>1, Z3
<1>2. 0 % 2 = 0
  OBVIOUS
<1>3. ASSUME x < s PROVE Stack!Masked(x, s) = x
  BY <1>1, <1>2, <1>3 DEF Stack!Masked
<1> QED BY <1>3 DEF Stack!Masked

StackNode == [base : Bases, size : 0 .. N]

LEMMA RequestIs ==
  ASSUME Stack!ObjStackAssumption, NEW q \in StackNode, NEW r \in Stack!Requests,
         r.alignment <= N
  PROVE  r.n \in Nat \ {0} /\ r.alignment \in Nat \ {0} /\ r.n + r.alignment <= Modulus
<1>1. CASE r = [n |-> N + 1, alignment |-> 1]
  <2>1. N \in Nat /\ Modulus \in Nat /\ q.base \in Nat /\ q.base + 2 * N < Modulus
    BY DEF Stack!ObjStackAssumption, StackNode
  <2> QED BY <1>1, <2>1
<1>2. ASSUME NEW s \in Alignments, NEW k \in 1 .. MaxLength, r = [n |-> s * k, alignment |-> s]
      PROVE  r.n \in Nat \ {0} /\ r.alignment \in Nat \ {0} /\ r.n + r.alignment <= Modulus
  <2>1. s \in Nat \ {0} /\ k \in Nat \ {0} /\ MaxLength \in Nat /\ k <= MaxLength
    BY DEF Stack!ObjStackAssumption
  <2>2. s * k \in Nat \ {0} /\ s * k <= s * MaxLength
    BY <2>1, Z3
  <2>3. s * (MaxLength + 1) <= Modulus /\ Modulus \in Nat
    BY DEF Stack!ObjStackAssumption
  <2>4. s * (MaxLength + 1) = s * MaxLength + s /\ s * MaxLength \in Nat
    BY <2>1, Z3
  <2>5. s * k + s <= Modulus
    <3> DEFINE y == s * k
               z == s * MaxLength
    <3>1. y \in Nat /\ z \in Nat /\ y <= z /\ z + s <= Modulus
      BY <2>2, <2>3, <2>4
    <3> HIDE DEF y, z
    <3>2. y + s <= Modulus
      BY <2>1, <2>3, <3>1
    <3> QED BY <3>2 DEF y
  <2> QED BY <1>2, <2>1, <2>2, <2>5
<1> QED BY <1>1, <1>2 DEF Stack!Requests

\* Where align moves the pointer to the first free byte, and how far that is: back by
\* one byte, or forward by the alignment less one.
LEMMA PadIs ==
  ASSUME Stack!ObjStackAssumption, NEW q \in StackNode, NEW s \in Nat \ {0}, s <= N
  PROVE  /\ Stack!Top(q) = (q.base + N) - q.size /\ Stack!Top(q) \in Nat
         /\ Stack!Aligned(Stack!Top(q), s) \in Nat
         /\ \/ /\ Stack!Aligned(Stack!Top(q), s) = (Stack!Top(q) + s) - 1
               /\ Stack!Padding(Stack!Top(q), s) = s - 1
            \/ /\ Stack!Aligned(Stack!Top(q), s) = Stack!Top(q) - 1
               /\ Stack!Padding(Stack!Top(q), s) = Modulus - 1
<1>1. /\ N \in Nat /\ Modulus \in Nat \ {0} /\ q.base \in Nat /\ q.size \in 0 .. N
      /\ q.base + 2 * N < Modulus
  BY DEF Stack!ObjStackAssumption, StackNode
<1> DEFINE x == (q.base + N) - q.size
           y == (x + s) - 1
           a == Stack!Masked(y, s)
<1>2. x \in Nat /\ x < Modulus /\ y \in Nat /\ y < Modulus /\ x + s - 1 = y
  BY <1>1
<1>3. Stack!Top(q) = x
  <2>1. q.base + N - q.size = x
    BY <1>1
  <2> QED BY <1>1, <1>2, <2>1, ModIs DEF Stack!Top
<1>4. Stack!Aligned(x, s) = a
  <2>1. (x + s - 1) % Modulus = y
    BY <1>1, <1>2, ModIs
  <2> QED BY <2>1 DEF Stack!Aligned
<1>5. a = y \/ (a = y - s /\ y >= s)
  BY <1>2, MaskedIs
<1> HIDE DEF a
<1>6. CASE a = y
  <2>1. a - x = s - 1 /\ 0 <= s - 1 /\ s - 1 < Modulus
    BY <1>1, <1>2, <1>6
  <2>2. (a - x) % Modulus = s - 1
    BY <1>1, <2>1, ModIs
  <2> QED BY <1>2, <1>3, <1>4, <1>6, <2>2 DEF Stack!Padding
<1>7. CASE a = y - s /\ y >= s
  <2>1. a - x = 0 - 1 /\ 0 - Modulus <= 0 - 1 /\ a = x - 1 /\ a \in Nat
    BY <1>1, <1>2, <1>7
  <2>2. (0 - 1) % Modulus = Modulus - 1
    <3>1. (0 - 1) % Modulus = (0 - 1) + Modulus
      BY <1>1, <2>1, ModIs
    <3> QED BY <1>1, <3>1
  <2>3. (a - x) % Modulus = Modulus - 1
    BY <2>1, <2>2
  <2>4. Stack!Aligned(Stack!Top(q), s) = a
    BY <1>3, <1>4
  <2>5. Stack!Padding(Stack!Top(q), s) = Modulus - 1
    BY <1>3, <2>3, <2>4 DEF Stack!Padding
  <2>6. Stack!Aligned(Stack!Top(q), s) = Stack!Top(q) - 1
    BY <1>3, <2>1, <2>4
  <2>7. Stack!Aligned(Stack!Top(q), s) \in Nat
    BY <2>1, <2>4
  <2>8. Stack!Top(q) = (q.base + N) - q.size /\ Stack!Top(q) \in Nat
    BY <1>2, <1>3
  <2> QED BY <2>5, <2>6, <2>7, <2>8
<1> QED BY <1>5, <1>6, <1>7

\* The size of a request and its pad, as align adds them up.
LEMMA NeedIs ==
  ASSUME Stack!ObjStackAssumption, NEW q \in StackNode, NEW r \in Stack!Requests,
         r.alignment <= N
  PROVE  LET pad == Stack!Aligned(Stack!Top(q), r.alignment) - Stack!Top(q)
         IN  /\ pad \in Int /\ pad + r.n \in Nat /\ pad + 1 <= r.alignment
             /\ (r.n + Stack!Padding(Stack!Top(q), r.alignment)) % Modulus = pad + r.n
<1> DEFINE s == r.alignment
           n == r.n
           top == Stack!Top(q)
           a == Stack!Aligned(top, s)
           p == Stack!Padding(top, s)
<1>1. n \in Nat \ {0} /\ s \in Nat \ {0} /\ n + s <= Modulus /\ s <= N
  BY RequestIs
<1>2. /\ top \in Nat /\ a \in Nat
      /\ \/ a = (top + s) - 1 /\ p = s - 1
         \/ a = top - 1 /\ p = Modulus - 1
  BY <1>1, PadIs
<1>3. Modulus \in Nat \ {0}
  BY DEF Stack!ObjStackAssumption
<1> HIDE DEF s, n, a, p, top
<1>4. CASE a = (top + s) - 1 /\ p = s - 1
  <2>1. /\ n + p = (a - top) + n /\ 0 <= n + p /\ n + p < Modulus /\ n + p \in Int
        /\ (a - top) + 1 <= s /\ a - top \in Int
    BY <1>1, <1>2, <1>3, <1>4
  <2>2. (n + p) % Modulus = n + p
    BY <1>3, <2>1, ModIs
  <2> QED BY <2>1, <2>2 DEF s, n, a, p, top
<1>5. CASE a = top - 1 /\ p = Modulus - 1
  <2>1. /\ n + p = ((a - top) + n) + Modulus /\ n + p \in Int /\ (a - top) + n \in Nat
        /\ Modulus <= n + p /\ n + p < Modulus + Modulus
        /\ (a - top) + 1 <= s /\ a - top \in Int
    BY <1>1, <1>2, <1>3, <1>5
  <2>2. (n + p) % Modulus = (n + p) - Modulus
    BY <1>3, <2>1, ModIs
  <2>3. (n + p) - Modulus = (a - top) + n
    BY <1>3, <2>1
  <2> QED BY <2>1, <2>2, <2>3 DEF s, n, a, p, top
<1> QED BY <1>2, <1>4, <1>5

\* The node a request is served from.
LEMMA CutIs ==
  ASSUME Stack!ObjStackAssumption, NEW q \in StackNode, NEW r \in Stack!Requests,
         Stack!Fits(q, r), NEW d, d = Stack!Cut(q, r),
         NEW a, a = Stack!Aligned(Stack!Top(q), r.alignment)
  PROVE  /\ d \in StackNode /\ d.base = q.base /\ a \in Nat /\ r.n \in Nat
         /\ a + r.n = Stack!Top(d) /\ Stack!Top(q) <= Stack!Top(d)
         /\ Stack!Top(d) <= d.base + N
<1> DEFINE s == r.alignment
           n == r.n
           top == Stack!Top(q)
           p == Stack!Padding(top, s)
           z == (q.size - p - n) % Modulus
<1>1. /\ N \in Nat /\ Modulus \in Nat \ {0} /\ N < Modulus /\ q.base \in Nat
      /\ q.base \in Bases /\ q.size \in 0 .. N
  BY DEF Stack!ObjStackAssumption, StackNode
<1>2. s <= N
  <2>1. s <= q.size
    BY DEF Stack!Fits
  <2>2. s \in Nat
    BY DEF Stack!Requests, Stack!ObjStackAssumption
  <2> QED BY <1>1, <2>1, <2>2
<1>3. n \in Nat \ {0} /\ s \in Nat \ {0} /\ n + s <= Modulus
  BY <1>2, RequestIs
<1>4. /\ top = (q.base + N) - q.size /\ top \in Nat /\ a \in Nat
      /\ \/ a = (top + s) - 1 /\ p = s - 1
         \/ a = top - 1 /\ p = Modulus - 1
  BY <1>2, <1>3, PadIs
<1>5. (n + p) % Modulus = (a - top) + n /\ (a - top) + n \in Nat
  BY <1>2, NeedIs
<1>6. q.size >= (a - top) + n
  BY <1>5 DEF Stack!Fits
<1> HIDE DEF s, n, p
<1>7. z = q.size - ((a - top) + n)
  <2>1. CASE a = (top + s) - 1 /\ p = s - 1
    <3>1. /\ q.size - p - n = q.size - ((a - top) + n) /\ q.size - p - n \in Int
          /\ 0 <= q.size - p - n /\ q.size - p - n < Modulus
      BY <1>1, <1>3, <1>4, <1>5, <1>6, <2>1
    <3> HIDE DEF top
    <3> QED BY <1>1, <3>1, ModIs
  <2>2. CASE a = top - 1 /\ p = Modulus - 1
    <3> DEFINE room == q.size
    <3>0. /\ room \in 0 .. N /\ N \in Nat /\ Modulus \in Nat /\ N < Modulus /\ n \in Nat \ {0}
          /\ top \in Nat /\ a = top - 1 /\ p = Modulus - 1 /\ room >= (a - top) + n
      BY <1>1, <1>3, <1>4, <1>6, <2>2
    <3> HIDE DEF room, top
    <3>9. a - top = 0 - 1 /\ room >= n - 1
      BY <3>0
    <3>1. /\ room - p - n = (room - ((a - top) + n)) - Modulus /\ room - p - n \in Int
          /\ 0 - Modulus <= room - p - n /\ room - p - n < 0
      BY <3>0, <3>9
    <3>2. (room - p - n) % Modulus = (room - p - n) + Modulus
      BY <1>1, <3>1, ModIs
    <3>3. (room - p - n) + Modulus = room - ((a - top) + n)
      BY <3>0, <3>9, <3>1
    <3> QED BY <3>2, <3>3 DEF room
  <2> QED BY <1>4, <2>1, <2>2
<1>8. d = [q EXCEPT !.size = z]
  BY DEF Stack!Cut, s, n, p
<1> HIDE DEF z, top
<1>9. z \in 0 .. N /\ z <= q.size
  BY <1>1, <1>3, <1>4, <1>5, <1>6, <1>7
<1>10. d \in StackNode /\ d.base = q.base /\ d.size = z
  BY <1>8, <1>9 DEF StackNode
<1>11. Stack!Top(d) = (d.base + N) - d.size
  BY <1>2, <1>3, <1>10, PadIs
<1>12. /\ a + n = Stack!Top(d) /\ top <= Stack!Top(d) /\ Stack!Top(d) <= d.base + N
  BY <1>1, <1>3, <1>4, <1>7, <1>9, <1>10, <1>11
<1> QED BY <1>3, <1>4, <1>10, <1>12 DEF n, top

\* A request that a fresh node does not fit is large.
LEMMA FailsIs ==
  ASSUME Stack!ObjStackAssumption, NEW base \in Bases, NEW r \in Stack!Requests,
         ~Stack!Fits(Stack!NewNode(base), r)
  PROVE  r.n + r.alignment > N
<1> DEFINE q == Stack!NewNode(base)
<1>1. q \in StackNode /\ q.size = N /\ N \in Nat
  BY DEF Stack!NewNode, StackNode, Stack!ObjStackAssumption
<1>2. r.n \in Nat /\ r.alignment \in Nat \ {0}
  <2>1. \A s \in Alignments, k \in 1 .. MaxLength : s \in Nat \ {0} /\ k \in Nat
    BY DEF Stack!ObjStackAssumption
  <2>2. \A s \in Nat, k \in Nat : s * k \in Nat
    OBVIOUS
  <2> QED BY <1>1, <2>1, <2>2 DEF Stack!Requests
<1>3. CASE r.alignment > N
  BY <1>1, <1>2, <1>3
<1>4. CASE r.alignment <= N
  <2> DEFINE pad == Stack!Aligned(Stack!Top(q), r.alignment) - Stack!Top(q)
  <2>1. /\ pad \in Int /\ pad + r.n \in Nat /\ pad + 1 <= r.alignment
        /\ (r.n + Stack!Padding(Stack!Top(q), r.alignment)) % Modulus = pad + r.n
    BY <1>1, <1>4, NeedIs
  <2> HIDE DEF pad
  <2>2. ~(N >= pad + r.n)
    BY <1>1, <1>4, <2>1 DEF Stack!Fits
  <2> QED BY <1>1, <1>2, <2>1, <2>2
<1> QED BY <1>1, <1>2, <1>3, <1>4

\* The nodes ns, one at each address, and the blocks bs cut off them.
Stacked(ns, bs) ==
  /\ ns \in Seq(StackNode)
  /\ \A j, k \in DOMAIN ns : ns[j].base = ns[k].base => j = k
  /\ \A b \in bs : /\ b.ptr \in Int /\ b.n \in Int
                   /\ \E k \in DOMAIN ns : ns[k].base = b.base
  /\ \A k \in DOMAIN ns : \A b \in bs : b.base = ns[k].base =>
       b.ptr + b.n <= Stack!Top(ns[k]) /\ Stack!Top(ns[k]) <= ns[k].base + N

StackInv == Stacked(nodes, blocks) /\ Stack!SmallRequestsSucceed

LEMMA StackedIs ==
  ASSUME NEW ns, NEW bs, Stacked(ns, bs)
  PROVE  /\ Len(ns) \in Nat /\ DOMAIN ns = 1 .. Len(ns)
         /\ \A k \in DOMAIN ns : ns[k] \in StackNode
<1>1. ns \in Seq(StackNode)
  BY DEF Stacked
<1>2. Len(ns) \in Nat /\ DOMAIN ns = 1 .. Len(ns)
  BY <1>1, LenProperties
<1>3. ASSUME NEW k \in DOMAIN ns PROVE ns[k] \in StackNode
  BY <1>1, <1>2, ElementOfSeq
<1> QED BY <1>2, <1>3

\* Another node.
LEMMA StackedGrows ==
  ASSUME Stack!ObjStackAssumption, NEW ns, NEW bs, Stacked(ns, bs), NEW base \in Bases,
         \A k \in DOMAIN ns : ns[k].base # base,
         NEW more, more = Append(ns, Stack!NewNode(base))
  PROVE  Stacked(more, bs) /\ more # <<>> /\ more[Len(more)] = Stack!NewNode(base)
<1> DEFINE d == Stack!NewNode(base)
<1>1. d \in StackNode /\ d.base = base
  BY DEF Stack!NewNode, StackNode, Stack!ObjStackAssumption
<1>2. /\ ns \in Seq(StackNode) /\ Len(ns) \in Nat /\ DOMAIN ns = 1 .. Len(ns)
      /\ \A k \in DOMAIN ns : ns[k] \in StackNode
  BY StackedIs DEF Stacked
<1> HIDE DEF d
<1>3. /\ more \in Seq(StackNode) /\ Len(more) = Len(ns) + 1 /\ more[Len(ns) + 1] = d
      /\ \A k \in 1 .. Len(ns) : more[k] = ns[k]
  BY <1>1, <1>2, AppendProperties DEF d
<1>4. DOMAIN more = 1 .. Len(ns) + 1
  BY <1>3, LenProperties
<1>5. ASSUME NEW k \in DOMAIN more
      PROVE  \/ k = Len(ns) + 1 /\ more[k] = d
             \/ k \in DOMAIN ns /\ more[k] = ns[k]
  <2>1. k = Len(ns) + 1 \/ k \in 1 .. Len(ns)
    BY <1>2, <1>4
  <2> QED BY <1>2, <1>3, <2>1
<1>6. \A j, k \in DOMAIN more : more[j].base = more[k].base => j = k
  <2> SUFFICES ASSUME NEW j \in DOMAIN more, NEW k \in DOMAIN more,
                      more[j].base = more[k].base
               PROVE  j = k
    OBVIOUS
  <2>1. j \in DOMAIN ns /\ k \in DOMAIN ns => j = k
    BY <1>2, <1>3, <1>5 DEF Stacked
  <2> QED BY <1>1, <1>5, <2>1
<1>7. ASSUME NEW b \in bs
      PROVE  /\ b.ptr \in Int /\ b.n \in Int /\ b.base # base
             /\ \E k \in DOMAIN more : more[k].base = b.base
  <2>1. /\ b.ptr \in Int /\ b.n \in Int
        /\ \E k \in DOMAIN ns : ns[k].base = b.base
    BY DEF Stacked
  <2>2. PICK k \in DOMAIN ns : ns[k].base = b.base
    BY <2>1
  <2>3. k \in DOMAIN more /\ more[k] = ns[k]
    BY <1>2, <1>3, <1>4
  <2> QED BY <2>1, <2>2, <2>3
<1>8. ASSUME NEW k \in DOMAIN more, NEW b \in bs, b.base = more[k].base
      PROVE  b.ptr + b.n <= Stack!Top(more[k]) /\ Stack!Top(more[k]) <= more[k].base + N
  <2>1. k \in DOMAIN ns /\ more[k] = ns[k]
    BY <1>1, <1>5, <1>7, <1>8
  <2> QED BY <1>8, <2>1 DEF Stacked
<1>9. Stacked(more, bs)
  BY <1>3, <1>6, <1>7, <1>8 DEF Stacked
<1>10. more # <<>>
  BY <1>2, <1>3, EmptySeq
<1> QED BY <1>3, <1>9, <1>10 DEF d

\* The last node serves a request.
LEMMA StackedServes ==
  ASSUME Stack!ObjStackAssumption, NEW ns, Stacked(ns, blocks), ns # <<>>,
         NEW r \in Stack!Requests, Stack!Fits(Stack!Last(ns), r), Stack!ServedFrom(ns, r)
  PROVE  StackInv'
<1> DEFINE k == Len(ns)
           q == ns[k]
           d == Stack!Cut(q, r)
           a == Stack!Aligned(Stack!Top(q), r.alignment)
           c == [base |-> q.base, ptr |-> a, n |-> r.n]
<1>1. /\ ns \in Seq(StackNode) /\ Len(ns) \in Nat /\ DOMAIN ns = 1 .. Len(ns)
      /\ \A m \in DOMAIN ns : ns[m] \in StackNode
  BY StackedIs DEF Stacked
<1>2. k \in DOMAIN ns
  <2>1. Len(ns) # 0
    BY <1>1, EmptySeq
  <2> QED BY <1>1, <2>1
<1>3. q \in StackNode /\ Stack!Fits(q, r)
  BY <1>1, <1>2 DEF Stack!Last
<1>4. nodes' = [ns EXCEPT ![k] = d] /\ blocks' = blocks \cup {c}
      /\ last' = [n |-> r.n, alignment |-> r.alignment, ptr |-> a]
  BY DEF Stack!ServedFrom, Stack!Last
<1>5. d = Stack!Cut(q, r) /\ a = Stack!Aligned(Stack!Top(q), r.alignment)
  OBVIOUS
<1>6. c.base = q.base /\ c.ptr = a /\ c.n = r.n
  OBVIOUS
<1> HIDE DEF q, d, a, c, k
<1>7. /\ d \in StackNode /\ d.base = q.base /\ a \in Nat /\ r.n \in Nat
      /\ a + r.n = Stack!Top(d) /\ Stack!Top(q) <= Stack!Top(d)
      /\ Stack!Top(d) <= d.base + N
  BY <1>3, <1>5, CutIs
<1>8. nodes' \in Seq(StackNode) /\ DOMAIN nodes' = DOMAIN ns
  BY <1>1, <1>2, <1>4, <1>7, ExceptSeq
<1>9. nodes'[k] = d /\ \A m \in DOMAIN ns \ {k} : nodes'[m] = ns[m]
  BY <1>1, <1>2, <1>4
<1>10. \A m \in DOMAIN ns : nodes'[m].base = ns[m].base
  BY <1>7, <1>9 DEF q
<1>11. \A j, m \in DOMAIN nodes' : nodes'[j].base = nodes'[m].base => j = m
  BY <1>8, <1>10 DEF Stacked
<1>12. \A b \in blocks' : /\ b.ptr \in Int /\ b.n \in Int
                          /\ \E m \in DOMAIN nodes' : nodes'[m].base = b.base
  BY <1>2, <1>4, <1>6, <1>7, <1>8, <1>9, <1>10 DEF Stacked
<1>13. ASSUME NEW m \in DOMAIN nodes', NEW b \in blocks', b.base = nodes'[m].base
       PROVE  b.ptr + b.n <= Stack!Top(nodes'[m]) /\ Stack!Top(nodes'[m]) <= nodes'[m].base + N
  <2>1. CASE b = c
    <3>1. m = k
      BY <1>2, <1>6, <1>8, <1>10, <1>13, <2>1 DEF Stacked, q
    <3> QED BY <1>6, <1>7, <1>9, <2>1, <3>1
  <2>2. CASE b # c /\ m = k
    <3>1. b \in blocks /\ b.base = q.base /\ b.ptr \in Int /\ b.n \in Int
      BY <1>4, <1>7, <1>9, <1>13, <2>2 DEF Stacked
    <3>2. b.ptr + b.n <= Stack!Top(q)
      BY <1>2, <3>1 DEF Stacked, q
    <3>3. Stack!Top(q) \in Int /\ Stack!Top(d) \in Int
      <4>1. \A x \in StackNode : x.base + N - x.size \in Int /\ Modulus \in Nat \ {0}
        BY DEF StackNode, Stack!ObjStackAssumption
      <4>2. \A x \in Int, y \in Nat \ {0} : x % y \in Int
        OBVIOUS
      <4> QED BY <1>3, <1>7, <4>1, <4>2 DEF Stack!Top
    <3> QED BY <1>7, <1>9, <2>2, <3>1, <3>2, <3>3
  <2>3. CASE b # c /\ m # k
    <3>1. b \in blocks /\ m \in DOMAIN ns /\ nodes'[m] = ns[m]
      BY <1>4, <1>8, <1>9, <2>3
    <3> QED BY <1>13, <3>1 DEF Stacked
  <2> QED BY <2>1, <2>2, <2>3
<1>14. Stacked(nodes', blocks')
  BY <1>8, <1>11, <1>12, <1>13 DEF Stacked
<1>15. last'.ptr # Null
  BY <1>4, <1>7 DEF Stack!ObjStackAssumption
<1> QED BY <1>14, <1>15 DEF StackInv, Stack!SmallRequestsSucceed, Stacked

LEMMA StackInvariance ==
  ASSUME Stack!ObjStackAssumption
  PROVE  Stack!Spec => []StackInv
<1>1. Stack!Init => StackInv
  <2> SUFFICES ASSUME Stack!Init PROVE StackInv
    OBVIOUS
  <2>1. nodes = <<>> /\ blocks = {} /\ last.ptr = 0
    BY DEF Stack!Init, Stack!NoRequest
  <2>2. nodes \in Seq(StackNode) /\ DOMAIN nodes = {}
    BY <2>1, EmptySeq
  <2> QED
    BY <2>1, <2>2
       DEF StackInv, Stacked, Stack!SmallRequestsSucceed, Stack!ObjStackAssumption
<1>2. StackInv /\ [Stack!Next]_(Stack!vars) => StackInv'
  <2> SUFFICES ASSUME StackInv, [Stack!Next]_(Stack!vars) PROVE StackInv'
    OBVIOUS
  <2>1. ASSUME NEW r \in Stack!Requests, Stack!Allocate(r) PROVE StackInv'
    <3>1. PICK first \in Bases :
            LET have == IF nodes = <<>> THEN <<Stack!NewNode(first)>> ELSE nodes
            IN  IF Stack!Fits(Stack!Last(have), r) THEN Stack!ServedFrom(have, r)
                ELSE \E second \in Bases \ {have[m].base : m \in DOMAIN have} :
                       LET more == Stack!WithNewNode(have, second)
                       IN  IF Stack!Fits(Stack!Last(more), r) THEN Stack!ServedFrom(more, r)
                           ELSE Stack!Failed(more, r)
      BY <2>1 DEF Stack!Allocate
    <3> DEFINE have == IF nodes = <<>> THEN <<Stack!NewNode(first)>> ELSE nodes
    <3>2. Stacked(have, blocks) /\ have # <<>>
      <4>1. CASE nodes = <<>>
        <5>1. have = Append(nodes, Stack!NewNode(first))
          BY <4>1
        <5>2. Stacked(nodes, blocks) /\ DOMAIN nodes = {}
          BY <4>1, StackedIs DEF StackInv
        <5> QED BY <5>1, <5>2, StackedGrows
      <4>2. CASE nodes # <<>>
        BY <4>2 DEF StackInv
      <4> QED BY <4>1, <4>2
    <3> HIDE DEF have
    <3>3. CASE Stack!Fits(Stack!Last(have), r)
      <4>1. Stack!ServedFrom(have, r)
        BY <3>1, <3>3 DEF have
      <4> QED BY <3>2, <3>3, <4>1, StackedServes
    <3>4. CASE ~Stack!Fits(Stack!Last(have), r)
      <4>1. PICK second \in Bases \ {have[m].base : m \in DOMAIN have} :
              LET more == Stack!WithNewNode(have, second)
              IN  IF Stack!Fits(Stack!Last(more), r) THEN Stack!ServedFrom(more, r)
                  ELSE Stack!Failed(more, r)
        BY <3>1, <3>4 DEF have
      <4> DEFINE more == Stack!WithNewNode(have, second)
      <4>2. second \in Bases /\ \A m \in DOMAIN have : have[m].base # second
        OBVIOUS
      <4>3. more = Append(have, Stack!NewNode(second))
        BY DEF Stack!WithNewNode
      <4>4. IF Stack!Fits(Stack!Last(more), r) THEN Stack!ServedFrom(more, r)
            ELSE Stack!Failed(more, r)
        BY <4>1
      <4> HIDE DEF more
      <4>5. Stacked(more, blocks) /\ more # <<>> /\ Stack!Last(more) = Stack!NewNode(second)
        BY <3>2, <4>2, <4>3, StackedGrows DEF Stack!Last
      <4>6. CASE Stack!Fits(Stack!Last(more), r)
        BY <4>4, <4>5, <4>6, StackedServes
      <4>7. CASE ~Stack!Fits(Stack!Last(more), r)
        <5>1. Stack!Failed(more, r)
          BY <4>4, <4>7
        <5>2. /\ nodes' = more /\ blocks' = blocks
              /\ last'.n = r.n /\ last'.alignment = r.alignment
          BY <5>1 DEF Stack!Failed
        <5>3. r.n + r.alignment > N
          BY <4>2, <4>5, <4>7, FailsIs
        <5> QED BY <4>5, <5>2, <5>3 DEF StackInv, Stacked, Stack!SmallRequestsSucceed
      <4> QED BY <4>6, <4>7
    <3> QED BY <3>3, <3>4
  <2>2. CASE UNCHANGED Stack!vars
    BY <2>2 DEF Stack!vars, StackInv, Stacked, Stack!SmallRequestsSucceed
  <2> QED BY <2>1, <2>2 DEF Stack!Next
<1>3. QED
  BY <1>1, <1>2, PTL DEF Stack!Spec

\* The free bytes of a node lie beyond its blocks; only large requests fail.
THEOREM StackKeepsBlocksApart ==
  ASSUME Stack!ObjStackAssumption
  PROVE  Stack!Spec => [](Stack!FreeIsBeyondBlocks /\ Stack!SmallRequestsSucceed)
<1>1. StackInv => Stack!FreeIsBeyondBlocks /\ Stack!SmallRequestsSucceed
  BY DEF StackInv, Stacked, Stack!FreeIsBeyondBlocks
<1>2. QED
  BY <1>1, StackInvariance, PTL

----------------------------------------------------------------------------
(* The allocators on object stacks and their containers: a stack is there    *)
(* while a container holds a block of it, and malloc's blocks are freed once. *)

UserBlock == [owner : Allocators, from : Stacks \cup {Malloc}, n : Nat]

\* The blocks of malloc among those of q.
OfMalloc(q) == {m \in DOMAIN q : q[m].from = Malloc}
Removed(q, k) == SubSeq(q, 1, k - 1) \o SubSeq(q, k + 1, Len(q))

UsersInv ==
  /\ stack \in [Allocators -> Stacks \cup {None, Null}]
  /\ stack_held \in Seq(UserBlock)
  /\ \A m \in DOMAIN stack_held :
       /\ stack[stack_held[m].owner] \in Stacks
       /\ stack_held[m].from = IF Users!Bytes(stack_held[m].n) > MaxSize
                               THEN Malloc ELSE stack[stack_held[m].owner]
  /\ heap = Cardinality(OfMalloc(stack_held))

LEMMA HeldIs ==
  ASSUME NEW q \in Seq(UserBlock)
  PROVE  /\ Len(q) \in Nat /\ DOMAIN q = 1 .. Len(q)
         /\ \A m \in DOMAIN q : q[m] \in UserBlock
         /\ IsFiniteSet(OfMalloc(q)) /\ Cardinality(OfMalloc(q)) \in Nat
<1>1. Len(q) \in Nat /\ DOMAIN q = 1 .. Len(q)
  BY LenProperties
<1>2. ASSUME NEW m \in DOMAIN q PROVE q[m] \in UserBlock
  BY <1>1, ElementOfSeq
<1>3. IsFiniteSet(1 .. Len(q)) /\ OfMalloc(q) \in SUBSET (1 .. Len(q))
  BY <1>1, FS_Interval DEF OfMalloc
<1>4. IsFiniteSet(OfMalloc(q))
  BY <1>3, FS_Subset
<1>5. Cardinality(OfMalloc(q)) \in Nat
  BY <1>4, FS_CardinalityType
<1> QED BY <1>1, <1>2, <1>4, <1>5

LEMMA RemovedIs ==
  ASSUME NEW S, NEW q \in Seq(S), NEW k \in 1 .. Len(q), NEW r, r = Removed(q, k)
  PROVE  /\ r \in Seq(S) /\ Len(r) = Len(q) - 1
         /\ \A m \in 1 .. k - 1 : r[m] = q[m]
         /\ \A m \in k .. Len(q) - 1 : r[m] = q[m + 1]
<1> DEFINE n == Len(q)
           x == SubSeq(q, 1, k - 1)
           z == SubSeq(q, k + 1, n)
<1>1. n \in Nat /\ k \in 1 .. n /\ \A m \in 1 .. n : q[m] \in S
  BY LenProperties, ElementOfSeq
<1>2. x \in Seq(S) /\ Len(x) = k - 1 /\ \A m \in 1 .. k - 1 : x[m] = q[m]
  <2>1. 1 \in Int /\ k - 1 \in Int /\ \A m \in 1 .. k - 1 : q[m] \in S
    BY <1>1
  <2>2. /\ x \in Seq(S) /\ Len(x) = IF 1 <= k - 1 THEN (k - 1) - 1 + 1 ELSE 0
        /\ \A m \in 1 .. (k - 1) - 1 + 1 : x[m] = q[1 + m - 1]
    BY <2>1, SubSeqProperties
  <2> HIDE DEF x
  <2>3. Len(x) = k - 1
    BY <1>1, <2>2
  <2>4. ASSUME NEW m \in 1 .. k - 1 PROVE x[m] = q[m]
    <3>1. m \in 1 .. (k - 1) - 1 + 1 /\ 1 + m - 1 = m
      BY <1>1
    <3>2. x[m] = q[1 + m - 1]
      BY <2>2, <3>1
    <3> QED BY <3>1, <3>2
  <2> QED BY <2>2, <2>3, <2>4
<1>3. z \in Seq(S) /\ Len(z) = n - k /\ \A m \in 1 .. n - k : z[m] = q[k + m]
  <2> HIDE DEF n
  <2>1. k + 1 \in Int /\ n \in Int /\ \A m \in k + 1 .. n : q[m] \in S
    BY <1>1
  <2>2. /\ z \in Seq(S) /\ Len(z) = IF k + 1 <= n THEN n - (k + 1) + 1 ELSE 0
        /\ \A m \in 1 .. n - (k + 1) + 1 : z[m] = q[(k + 1) + m - 1]
    BY <2>1, SubSeqProperties
  <2> HIDE DEF z
  <2>3. Len(z) = n - k
    BY <1>1, <2>2
  <2>4. ASSUME NEW m \in 1 .. n - k PROVE z[m] = q[k + m]
    <3>1. m \in 1 .. n - (k + 1) + 1 /\ (k + 1) + m - 1 = k + m
      BY <1>1
    <3>2. z[m] = q[(k + 1) + m - 1]
      BY <2>2, <3>1
    <3> QED BY <3>1, <3>2
  <2> QED BY <2>2, <2>3, <2>4
<1>4. r = x \o z
  BY DEF Removed
<1> HIDE DEF x, z, n
<1>5. /\ r \in Seq(S) /\ Len(r) = n - 1
      /\ \A m \in 1 .. n - 1 : r[m] = IF m <= k - 1 THEN x[m] ELSE z[m - (k - 1)]
  <2>1. /\ r \in Seq(S) /\ Len(r) = Len(x) + Len(z)
        /\ \A m \in 1 .. Len(x) + Len(z) :
             r[m] = IF m <= Len(x) THEN x[m] ELSE z[m - Len(x)]
    <3>1. x \in Seq(S) /\ z \in Seq(S)
      BY <1>2, <1>3
    <3> QED BY <1>4, <3>1, ConcatProperties
  <2>2. Len(x) + Len(z) = n - 1 /\ Len(x) = k - 1
    BY <1>1, <1>2, <1>3
  <2> QED BY <2>1, <2>2
<1>6. ASSUME NEW m \in 1 .. k - 1 PROVE r[m] = q[m]
  <2>1. m \in 1 .. n - 1 /\ m <= k - 1
    BY <1>1
  <2> QED BY <1>2, <1>5, <2>1
<1>7. ASSUME NEW m \in k .. n - 1 PROVE r[m] = q[m + 1]
  <2>1. /\ m \in 1 .. n - 1 /\ ~(m <= k - 1) /\ m - (k - 1) \in 1 .. n - k
        /\ k + (m - (k - 1)) = m + 1
    BY <1>1
  <2>2. r[m] = z[m - (k - 1)] /\ z[m - (k - 1)] = q[k + (m - (k - 1))]
    BY <1>3, <1>5, <2>1
  <2> QED BY <2>1, <2>2
<1> QED BY <1>5, <1>6, <1>7 DEF n

\* A block leaves, and with it one of malloc's if it is one.
LEMMA HeapAfterRemoval ==
  ASSUME NEW q \in Seq(UserBlock), NEW k \in 1 .. Len(q), NEW r, r = Removed(q, k)
  PROVE  Cardinality(OfMalloc(r)) =
           IF q[k].from = Malloc THEN Cardinality(OfMalloc(q)) - 1
           ELSE Cardinality(OfMalloc(q))
<1> DEFINE S == OfMalloc(q) \ {k}
           T == OfMalloc(r)
           To(m) == IF m < k THEN m ELSE m - 1
           Back(m) == IF m < k THEN m ELSE m + 1
           f == [m \in S |-> To(m)]
<1>1. /\ r \in Seq(UserBlock) /\ Len(r) = Len(q) - 1
      /\ \A m \in 1 .. k - 1 : r[m] = q[m]
      /\ \A m \in k .. Len(q) - 1 : r[m] = q[m + 1]
  BY RemovedIs
<1>2. /\ Len(q) \in Nat /\ DOMAIN q = 1 .. Len(q) /\ DOMAIN r = 1 .. Len(q) - 1
      /\ IsFiniteSet(OfMalloc(q)) /\ Cardinality(OfMalloc(q)) \in Nat
  BY <1>1, HeldIs
<1>3. ASSUME NEW m \in S PROVE To(m) \in T /\ Back(To(m)) = m
  <2>1. m \in 1 .. Len(q) /\ m # k /\ q[m].from = Malloc /\ k \in 1 .. Len(q)
    BY <1>2 DEF OfMalloc
  <2>2. CASE m < k
    <3>1. m \in 1 .. k - 1 /\ m \in 1 .. Len(q) - 1
      BY <1>2, <2>1, <2>2
    <3> QED BY <1>1, <1>2, <2>1, <2>2, <3>1 DEF OfMalloc
  <2>3. CASE m > k
    <3>1. /\ m - 1 \in k .. Len(q) - 1 /\ m - 1 \in 1 .. Len(q) - 1 /\ (m - 1) + 1 = m
          /\ ~(m < k) /\ ~(m - 1 < k)
      BY <1>2, <2>1, <2>3
    <3> QED BY <1>1, <1>2, <2>1, <3>1 DEF OfMalloc
  <2> QED BY <1>2, <2>1, <2>2, <2>3
<1>4. ASSUME NEW m \in T PROVE Back(m) \in S /\ To(Back(m)) = m
  <2>1. m \in 1 .. Len(q) - 1 /\ r[m].from = Malloc /\ k \in 1 .. Len(q)
    BY <1>2 DEF OfMalloc
  <2>2. CASE m < k
    <3>1. m \in 1 .. k - 1 /\ m \in 1 .. Len(q) /\ m # k
      BY <1>2, <2>1, <2>2
    <3> QED BY <1>1, <1>2, <2>1, <2>2, <3>1 DEF OfMalloc
  <2>3. CASE ~(m < k)
    <3>1. /\ m \in k .. Len(q) - 1 /\ m + 1 \in 1 .. Len(q) /\ m + 1 # k
          /\ ~(m + 1 < k) /\ (m + 1) - 1 = m
      BY <1>2, <2>1, <2>3
    <3> QED BY <1>1, <1>2, <2>1, <2>3, <3>1 DEF OfMalloc
  <2> QED BY <2>2, <2>3
<1> HIDE DEF S, T, To, Back
<1>5. f \in [S -> T] /\ \A m \in S : f[m] = To(m)
  BY <1>3
<1> HIDE DEF f
<1>6. f \in Bijection(S, T)
  <2>1. \A j, m \in S : f[j] = f[m] => j = m
    BY <1>3, <1>5
  <2>2. \A y \in T : \E m \in S : f[m] = y
    BY <1>4, <1>5
  <2> QED BY <1>5, <2>1, <2>2 DEF Bijection, Injection, Surjection, IsInjective
<1>7. IsFiniteSet(S)
  BY <1>2, FS_RemoveElement, FS_Subset DEF S
<1>8. Cardinality(T) = Cardinality(S)
  BY <1>6, <1>7, FS_Bijection DEF ExistsBijection
<1> DEFINE G == OfMalloc(q)
<1>9. Cardinality(S) = IF k \in G THEN Cardinality(G) - 1 ELSE Cardinality(G)
  <2>1. IsFiniteSet(G) /\ S = G \ {k}
    BY <1>2 DEF S
  <2> HIDE DEF G, S
  <2>2. CASE k \in G
    BY <2>1, <2>2, FS_RemoveElement
  <2>3. CASE k \notin G
    <3>1. S = G
      BY <2>1, <2>3
    <3> QED BY <2>3, <3>1
  <2> QED BY <2>2, <2>3
<1>10. k \in G <=> q[k].from = Malloc
  BY <1>2 DEF OfMalloc
<1> QED BY <1>8, <1>9, <1>10 DEF T

\* A block comes.
LEMMA HeapAfterAppend ==
  ASSUME NEW q \in Seq(UserBlock), NEW e \in UserBlock, NEW r, r = Append(q, e)
  PROVE  Cardinality(OfMalloc(r)) =
           IF e.from = Malloc THEN Cardinality(OfMalloc(q)) + 1
           ELSE Cardinality(OfMalloc(q))
<1> DEFINE n == Len(q) + 1
           G == OfMalloc(q)
<1>1. /\ r \in Seq(UserBlock) /\ Len(r) = n /\ r[n] = e
      /\ \A m \in 1 .. Len(q) : r[m] = q[m]
  BY AppendProperties
<1>2. Len(q) \in Nat /\ DOMAIN q = 1 .. Len(q) /\ DOMAIN r = 1 .. n /\ IsFiniteSet(G)
  BY <1>1, HeldIs
<1>3. 1 .. n = DOMAIN q \cup {n} /\ n \notin DOMAIN q
  BY <1>2
<1> HIDE DEF n
<1>4. OfMalloc(r) = IF e.from = Malloc THEN G \cup {n} ELSE G
  BY <1>1, <1>2, <1>3 DEF OfMalloc
<1>5. n \notin G
  BY <1>3 DEF OfMalloc
<1> HIDE DEF G
<1>6. Cardinality(G \cup {n}) = Cardinality(G) + 1
  BY <1>2, <1>5, FS_AddElement
<1> QED BY <1>4, <1>6 DEF G

\* A block given out or taken back leaves the others as they are.
LEMMA UsersAppended ==
  ASSUME Users!StackAllocatorAssumption, UsersInv, NEW o \in Allocators, NEW n \in Nat,
         stack[o] \in Stacks, NEW t,
         t = IF Users!Bytes(n) > MaxSize THEN Malloc ELSE stack[o],
         stack_held' = Append(stack_held, [owner |-> o, from |-> t, n |-> n]),
         heap' = IF Users!Bytes(n) > MaxSize THEN heap + 1 ELSE heap,
         UNCHANGED stack
  PROVE  UsersInv'
<1> DEFINE q == stack_held
           e == [owner |-> o, from |-> t, n |-> n]
           r == stack_held'
<1>1. q \in Seq(UserBlock) /\ e \in UserBlock
  BY DEF UsersInv, UserBlock
<1>2. r = Append(q, e)
  OBVIOUS
<1>3. e.owner = o /\ e.from = t /\ e.n = n
  OBVIOUS
<1>4. stack[o] # Malloc
  BY DEF Users!StackAllocatorAssumption
<1> HIDE DEF q, e, r
<1>5. /\ r \in Seq(UserBlock) /\ Len(r) = Len(q) + 1 /\ r[Len(q) + 1] = e
      /\ \A m \in 1 .. Len(q) : r[m] = q[m]
  BY <1>1, <1>2, AppendProperties
<1>6. /\ Len(q) \in Nat /\ DOMAIN q = 1 .. Len(q) /\ DOMAIN r = 1 .. Len(q) + 1
  BY <1>1, <1>5, HeldIs
<1>7. Cardinality(OfMalloc(r)) =
        IF e.from = Malloc THEN Cardinality(OfMalloc(q)) + 1 ELSE Cardinality(OfMalloc(q))
  BY <1>1, <1>2, HeapAfterAppend
<1>8. heap' = Cardinality(OfMalloc(r))
  <2>1. heap = Cardinality(OfMalloc(q))
    BY DEF UsersInv, q
  <2>2. e.from = Malloc <=> Users!Bytes(n) > MaxSize
    BY <1>3, <1>4
  <2> QED BY <1>7, <2>1, <2>2
<1>9. ASSUME NEW m \in DOMAIN r
      PROVE  /\ stack[r[m].owner] \in Stacks
             /\ r[m].from = IF Users!Bytes(r[m].n) > MaxSize THEN Malloc
                            ELSE stack[r[m].owner]
  <2>1. CASE m = Len(q) + 1
    BY <1>3, <1>5, <2>1
  <2>2. CASE m # Len(q) + 1
    <3>1. m \in DOMAIN q /\ r[m] = q[m]
      BY <1>5, <1>6, <2>2
    <3>2. /\ stack[q[m].owner] \in Stacks
          /\ q[m].from = IF Users!Bytes(q[m].n) > MaxSize THEN Malloc
                         ELSE stack[q[m].owner]
      BY <3>1 DEF UsersInv, q
    <3> QED BY <3>1, <3>2
  <2> QED BY <2>1, <2>2
<1> QED BY <1>5, <1>8, <1>9 DEF UsersInv, r

LEMMA BlockRemoved ==
  \A p \in Seq(UserBlock) : \A j \in 1 .. Len(p) :
    /\ Removed(p, j) \in Seq(UserBlock) /\ Len(Removed(p, j)) = Len(p) - 1
    /\ \A m \in 1 .. j - 1 : Removed(p, j)[m] = p[m]
    /\ \A m \in j .. Len(p) - 1 : Removed(p, j)[m] = p[m + 1]
<1> SUFFICES ASSUME NEW p \in Seq(UserBlock), NEW j \in 1 .. Len(p), NEW x,
                    x = Removed(p, j)
             PROVE  /\ x \in Seq(UserBlock) /\ Len(x) = Len(p) - 1
                    /\ \A m \in 1 .. j - 1 : x[m] = p[m]
                    /\ \A m \in j .. Len(p) - 1 : x[m] = p[m + 1]
  OBVIOUS
<1> QED BY RemovedIs

LEMMA UsersRemoved ==
  ASSUME Users!StackAllocatorAssumption, UsersInv, NEW k \in DOMAIN stack_held,
         stack_held' = Removed(stack_held, k),
         heap' = IF Users!Bytes(stack_held[k].n) > MaxSize THEN heap - 1 ELSE heap,
         UNCHANGED stack
  PROVE  UsersInv'
<1> DEFINE q == stack_held
           r == stack_held'
<1>1. q \in Seq(UserBlock) /\ heap = Cardinality(OfMalloc(q))
  BY DEF UsersInv
<1>2. r = Removed(q, k)
  OBVIOUS
<1>3. q[k].from = Malloc <=> Users!Bytes(q[k].n) > MaxSize
  BY DEF UsersInv, Users!StackAllocatorAssumption
<1> HIDE DEF q, r
<1>4. /\ Len(q) \in Nat /\ DOMAIN q = 1 .. Len(q)
  BY <1>1, HeldIs
<1>5. k \in 1 .. Len(q)
  BY <1>4 DEF q
<1>6. /\ r \in Seq(UserBlock) /\ Len(r) = Len(q) - 1
      /\ \A m \in 1 .. k - 1 : r[m] = q[m]
      /\ \A m \in k .. Len(q) - 1 : r[m] = q[m + 1]
  <2>1. /\ Removed(q, k) \in Seq(UserBlock) /\ Len(Removed(q, k)) = Len(q) - 1
        /\ \A m \in 1 .. k - 1 : Removed(q, k)[m] = q[m]
        /\ \A m \in k .. Len(q) - 1 : Removed(q, k)[m] = q[m + 1]
    BY <1>1, <1>5, BlockRemoved
  <2> QED BY <1>2, <2>1
<1>7. Cardinality(OfMalloc(r)) =
        IF q[k].from = Malloc THEN Cardinality(OfMalloc(q)) - 1
        ELSE Cardinality(OfMalloc(q))
  BY <1>1, <1>2, <1>5, HeapAfterRemoval
<1>8. heap' = Cardinality(OfMalloc(r))
  BY <1>1, <1>3, <1>7 DEF q
<1>9. ASSUME NEW m \in DOMAIN r PROVE \E j \in DOMAIN q : r[m] = q[j]
  <2>1. m \in 1 .. Len(q) - 1
    BY <1>4, <1>6, HeldIs
  <2>2. CASE m < k
    <3>1. m \in 1 .. k - 1 /\ m \in DOMAIN q
      BY <1>4, <1>5, <2>1, <2>2
    <3> QED BY <1>6, <3>1
  <2>3. CASE ~(m < k)
    <3>1. m \in k .. Len(q) - 1 /\ m + 1 \in DOMAIN q
      BY <1>4, <1>5, <2>1, <2>3
    <3> QED BY <1>6, <3>1
  <2> QED BY <2>2, <2>3
<1>10. ASSUME NEW m \in DOMAIN r
       PROVE  /\ stack[r[m].owner] \in Stacks
              /\ r[m].from = IF Users!Bytes(r[m].n) > MaxSize THEN Malloc
                             ELSE stack[r[m].owner]
  <2>1. PICK j \in DOMAIN q : r[m] = q[j]
    BY <1>9
  <2>2. /\ stack[q[j].owner] \in Stacks
        /\ q[j].from = IF Users!Bytes(q[j].n) > MaxSize THEN Malloc
                       ELSE stack[q[j].owner]
    BY DEF UsersInv, q
  <2> QED BY <2>1, <2>2
<1> QED BY <1>6, <1>8, <1>10 DEF UsersInv, r

\* An allocator without blocks changes: the stacks of the others, and the blocks, stay.
LEMMA UsersSwitched ==
  ASSUME Users!StackAllocatorAssumption, UsersInv, NEW o \in Allocators,
         \A m \in DOMAIN stack_held : stack_held[m].owner # o,
         NEW t \in Stacks \cup {None, Null}, stack' = [stack EXCEPT ![o] = t],
         UNCHANGED <<stack_held, heap>>
  PROVE  UsersInv'
<1>1. stack' \in [Allocators -> Stacks \cup {None, Null}]
  BY DEF UsersInv
<1>2. ASSUME NEW m \in DOMAIN stack_held
      PROVE  stack'[stack_held[m].owner] = stack[stack_held[m].owner]
  <2>1. stack_held[m].owner \in Allocators
    BY HeldIs DEF UsersInv, UserBlock
  <2> QED BY <2>1 DEF UsersInv
<1> QED BY <1>1, <1>2 DEF UsersInv

\* A container moves.
LEMMA UsersMoved ==
  ASSUME Users!StackAllocatorAssumption, UsersInv, NEW a \in Allocators,
         NEW b \in Allocators, Users!Move(a, b)
  PROVE  UsersInv'
<1> DEFINE q == stack_held
           r == stack_held'
           To(x) == IF x.owner = a THEN [x EXCEPT !.owner = b] ELSE x
<1>1. /\ q \in Seq(UserBlock) /\ heap = Cardinality(OfMalloc(q))
      /\ stack \in [Allocators -> Stacks \cup {None, Null}]
  BY DEF UsersInv
<1>2. Len(q) \in Nat /\ DOMAIN q = 1 .. Len(q) /\ \A m \in DOMAIN q : q[m] \in UserBlock
  BY <1>1, HeldIs
<1>3. /\ r = [m \in DOMAIN q |-> To(q[m])]
      /\ a # b /\ \A m \in DOMAIN q : q[m].owner # b
      /\ stack' = [stack EXCEPT ![b] = stack[a], ![a] = Null]
      /\ heap' = heap
  BY DEF Users!Move, Users!MovedFrom, Users!HasBlocks
<1>4. ASSUME NEW x \in UserBlock
      PROVE  /\ To(x) \in UserBlock /\ To(x).from = x.from /\ To(x).n = x.n
             /\ To(x).owner = IF x.owner = a THEN b ELSE x.owner
  BY DEF UserBlock
<1> HIDE DEF To
<1>5. DOMAIN r = DOMAIN q /\ \A m \in DOMAIN q : r[m] = To(q[m]) /\ r[m] \in UserBlock
  BY <1>2, <1>3, <1>4
<1>6. r \in Seq(UserBlock)
  BY <1>2, <1>3, <1>5, SeqDef
<1>7. OfMalloc(r) = OfMalloc(q)
  BY <1>2, <1>4, <1>5 DEF OfMalloc
<1>8. /\ stack' \in [Allocators -> Stacks \cup {None, Null}]
      /\ stack'[b] = stack[a]
      /\ \A o \in Allocators \ {a, b} : stack'[o] = stack[o]
  BY <1>1, <1>3
<1>9. ASSUME NEW m \in DOMAIN r
      PROVE  /\ stack'[r[m].owner] \in Stacks
             /\ r[m].from = IF Users!Bytes(r[m].n) > MaxSize THEN Malloc
                            ELSE stack'[r[m].owner]
  <2>1. m \in DOMAIN q /\ q[m] \in UserBlock /\ r[m] = To(q[m]) /\ q[m].owner # b
    BY <1>2, <1>3, <1>5
  <2>2. /\ stack[q[m].owner] \in Stacks
        /\ q[m].from = IF Users!Bytes(q[m].n) > MaxSize THEN Malloc
                       ELSE stack[q[m].owner]
    BY <2>1 DEF UsersInv
  <2>3. stack'[r[m].owner] = stack[q[m].owner]
    <3>1. q[m].owner \in Allocators
      BY <2>1 DEF UserBlock
    <3> QED BY <1>4, <1>8, <2>1, <3>1
  <2>4. r[m].from = q[m].from /\ r[m].n = q[m].n
    BY <1>4, <2>1
  <2> QED BY <2>2, <2>3, <2>4
<1> HIDE DEF q, r
<1>10. heap' = Cardinality(OfMalloc(r))
  BY <1>1, <1>3, <1>7
<1> QED BY <1>6, <1>8, <1>9, <1>10 DEF UsersInv, r

LEMMA UsersInvariance ==
  ASSUME Users!StackAllocatorAssumption
  PROVE  Users!Spec => []UsersInv
<1>1. Users!Init => UsersInv
  <2> SUFFICES ASSUME Users!Init PROVE UsersInv
    OBVIOUS
  <2>1. stack = [o \in Allocators |-> None] /\ stack_held = <<>> /\ heap = 0
    BY DEF Users!Init
  <2>2. stack_held \in Seq(UserBlock) /\ DOMAIN stack_held = {}
    BY <2>1
  <2>3. Cardinality(OfMalloc(stack_held)) = 0
    BY <2>2, FS_EmptySet DEF OfMalloc
  <2> QED BY <2>1, <2>2, <2>3 DEF UsersInv
<1>2. UsersInv /\ [Users!Next]_(Users!vars) => UsersInv'
  <2> SUFFICES ASSUME UsersInv, [Users!Next]_(Users!vars) PROVE UsersInv'
    OBVIOUS
  <2>0. /\ stack \in [Allocators -> Stacks \cup {None, Null}]
        /\ \A m \in DOMAIN stack_held : stack[stack_held[m].owner] \in Stacks
    BY DEF UsersInv
  <2>1. ASSUME NEW a \in Allocators, Users!Construct(a) PROVE UsersInv'
    <3>1. PICK t \in Stacks : stack' = [stack EXCEPT ![a] = t]
      BY <2>1 DEF Users!Construct
    <3>2. stack[a] = None /\ UNCHANGED <<stack_held, heap>>
      BY <2>1 DEF Users!Construct
    <3>3. \A m \in DOMAIN stack_held : stack_held[m].owner # a
      BY <2>0, <3>2 DEF Users!StackAllocatorAssumption
    <3> QED BY <3>1, <3>2, <3>3, UsersSwitched
  <2>2. ASSUME NEW a \in Allocators, Users!Destroy(a) PROVE UsersInv'
    <3>1. /\ stack' = [stack EXCEPT ![a] = None] /\ UNCHANGED <<stack_held, heap>>
          /\ \A m \in DOMAIN stack_held : stack_held[m].owner # a
      BY <2>2 DEF Users!Destroy, Users!HasBlocks
    <3> QED BY <3>1, UsersSwitched
  <2>3. ASSUME NEW a \in Allocators, Users!UseNoStack(a) PROVE UsersInv'
    BY <2>3 DEF Users!UseNoStack, UsersInv
  <2>4. ASSUME NEW a \in Allocators, NEW b \in Allocators, Users!Copy(a, b)
        PROVE  UsersInv'
    <3>1. /\ stack' = [stack EXCEPT ![b] = stack[a]] /\ UNCHANGED <<stack_held, heap>>
          /\ \A m \in DOMAIN stack_held : stack_held[m].owner # b
      BY <2>4 DEF Users!Copy, Users!HasBlocks
    <3>2. stack[a] \in Stacks \cup {None, Null}
      BY <2>0
    <3> QED BY <3>1, <3>2, UsersSwitched
  <2>5. ASSUME NEW a \in Allocators, NEW b \in Allocators, Users!Move(a, b)
        PROVE  UsersInv'
    BY <2>5, UsersMoved
  <2>6. ASSUME NEW a \in Allocators, NEW n \in StackLengths, Users!Allocate(a, n)
        PROVE  UsersInv'
    <3>0. n \in Nat /\ stack[a] \in Stacks /\ UNCHANGED stack
      BY <2>6 DEF Users!Allocate, Users!StackAllocatorAssumption
    <3>1. CASE /\ Users!Bytes(n) > MaxSize
               /\ stack_held' = Append(stack_held, [owner |-> a, from |-> Malloc, n |-> n])
               /\ heap' = heap + 1
      BY <3>0, <3>1, UsersAppended
    <3>2. CASE /\ Users!Bytes(n) <= MaxSize
               /\ stack_held' = Append(stack_held,
                                       [owner |-> a, from |-> stack[a], n |-> n])
               /\ heap' = heap
      <4>1. ~(Users!Bytes(n) > MaxSize)
        BY <3>0, <3>2 DEF Users!Bytes, Users!StackAllocatorAssumption
      <4> QED BY <3>0, <3>2, <4>1, UsersAppended
    <3> QED BY <2>6, <3>1, <3>2 DEF Users!Allocate
  <2>7. ASSUME NEW a \in Allocators, NEW k \in DOMAIN stack_held, Users!Deallocate(a, k)
        PROVE  UsersInv'
    <3>1. /\ stack_held' = Removed(stack_held, k) /\ UNCHANGED stack
          /\ heap' = IF Users!Bytes(stack_held[k].n) > MaxSize THEN heap - 1 ELSE heap
      BY <2>7 DEF Users!Deallocate, Users!RemoveAt, Users!Freed, Removed
    <3> QED BY <3>1, UsersRemoved
  <2>8. CASE UNCHANGED Users!vars
    BY <2>8 DEF Users!vars, UsersInv
  <2> QED BY <2>1, <2>2, <2>3, <2>4, <2>5, <2>6, <2>7, <2>8 DEF Users!Next
<1>3. QED
  BY <1>1, <1>2, PTL DEF Users!Spec

\* A container's allocator is on the stack its blocks come from, and malloc's blocks are
\* freed when they are given back, whatever copies and moves are made: an allocator
\* that has blocks is on a stack, and the size of a request alone says where it went.
THEOREM UsersKeepTheirStacks ==
  ASSUME Users!StackAllocatorAssumption
  PROVE  Users!Spec => [](Users!StacksOutliveBlocks /\ Users!HeapIsHeld)
<1>1. UsersInv => Users!StacksOutliveBlocks /\ Users!HeapIsHeld
  <2> SUFFICES ASSUME UsersInv PROVE Users!StacksOutliveBlocks /\ Users!HeapIsHeld
    OBVIOUS
  <2>1. Users!StacksOutliveBlocks
    BY DEF UsersInv, Users!StacksOutliveBlocks
  <2>2. \A S : Users!Cardinality(S) = Cardinality(S)
    BY DEF Users!Cardinality, Cardinality
  <2>3. Users!HeapIsHeld
    BY <2>2 DEF UsersInv, OfMalloc, Users!HeapIsHeld
  <2> QED BY <2>1, <2>3
<1>2. QED
  BY <1>1, UsersInvariance, PTL

----------------------------------------------------------------------------
(* The allocators side by side *)

\* What the slab allocator of the composition does is what SlabAllocator allows.
LEMMA SlabPart == Spec => Slab!Spec
<1>1. Init => Slab!Init
  BY DEF Init
<1>2. [Next]_<<part, slab_vars, fixed_vars, small_vars, stack_vars, user_vars>>
        => [Slab!Next]_(Slab!vars)
  BY DEF Next, slab_vars, Slab!vars, Slab!lists, Slab!fields
<1>3. QED
  BY <1>1, <1>2, PTL DEF Spec, Slab!Spec

LEMMA FixedPart == Spec => Fixed!Spec
<1>1. Init => Fixed!Init
  BY DEF Init
<1>2. [Next]_<<part, slab_vars, fixed_vars, small_vars, stack_vars, user_vars>>
        => [Fixed!Next]_(Fixed!vars)
  BY DEF Next, fixed_vars, Fixed!vars
<1>3. QED
  BY <1>1, <1>2, PTL DEF Spec, Fixed!Spec

LEMMA SmallPart == Spec => Small!Spec
<1>1. Init => Small!Init
  BY DEF Init
<1>2. [Next]_<<part, slab_vars, fixed_vars, small_vars, stack_vars, user_vars>>
        => [Small!Next]_(Small!vars)
  BY DEF Next, small_vars, Small!vars
<1>3. QED
  BY <1>1, <1>2, PTL DEF Spec, Small!Spec

LEMMA StackPart == Spec => Stack!Spec
<1>1. Init => Stack!Init
  BY DEF Init
<1>2. [Next]_<<part, slab_vars, fixed_vars, small_vars, stack_vars, user_vars>>
        => [Stack!Next]_(Stack!vars)
  BY DEF Next, stack_vars, Stack!vars
<1>3. QED
  BY <1>1, <1>2, PTL DEF Spec, Stack!Spec

LEMMA UsersPart == Spec => Users!Spec
<1>1. Init => Users!Init
  BY DEF Init
<1>2. [Next]_<<part, slab_vars, fixed_vars, small_vars, stack_vars, user_vars>>
        => [Users!Next]_(Users!vars)
  BY DEF Next, user_vars, Users!vars
<1>3. QED
  BY <1>1, <1>2, PTL DEF Spec, Users!Spec

\* Lists, maps, counters and the search of the slab allocator agree with its client.
THEOREM SlabsAlwaysAgree == Spec => []SlabsAgree
BY SlabPart, SlabConstants, SlabKeepsItsBooks, SlabFindsTheOwner,
   SlabReportsNoFalseLeak, PTL DEF SlabsAgree

\* Only trimming loses the hot slab.
THEOREM HotSlabIsLostByTrimming == Spec => OnlyTrimmingLosesHotSlab
BY SlabPart, SlabConstants, OnlyTrimmingLosesIt, PTL DEF OnlyTrimmingLosesHotSlab

\* The free lists, totals and hints of fixed allocators agree with the blocks in use,
\* alone and as the parts of the small-object allocator, one for each size.
THEOREM ChunksAlwaysAgree == Spec => []ChunksAgree
BY FixedPart, SmallPart, FixedConstants, SmallConstants, FixedKeepsItsBooks,
   SmallKeepsItsBooks, PTL DEF ChunksAgree

\* The free bytes of a node lie beyond its blocks and only requests too large fail; the
\* allocators on stacks keep them while they have blocks there.
THEOREM StacksAlwaysAgree == Spec => []StacksAgree
BY StackPart, UsersPart, StackConstants, UserConstants, StackKeepsBlocksApart,
   UsersKeepTheirStacks, PTL DEF StacksAgree

\* Each of the three allocators of blocks is a pool.
THEOREM AllocatorsRefinePools == Spec => AllocatorsImplementPools
BY SlabPart, FixedPart, SmallPart, SlabConstants, FixedConstants, SmallConstants,
   SlabRefinesPool, FixedRefinesPool, SmallRefinesPool, PTL DEF AllocatorsImplementPools

=============================================================================
