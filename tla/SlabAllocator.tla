--------------------------- MODULE SlabAllocator ---------------------------
(***************************************************************************)
(* The slab allocator of mem/slab_allocator.h: slabs of PerSlab slots, in   *)
(* one of three lists by how full they are, a hot slab to allocate from,   *)
(* and a set sorted by address that maps an object back to its slab.       *)
(*                                                                         *)
(* A slab is known by its address, a block is a slab and a slot.  The      *)
(* order inside the three lists decides only which slab is taken next: the *)
(* lists are sets and any member can be the front.  The allocator has no   *)
(* locking: its client is one thread.                                      *)
(***************************************************************************)
EXTENDS Integers, SequencesExt

CONSTANTS
  Addresses,   \* bound: where a slab can be; a set of numbers
  PerSlab,     \* slots of a slab: 4096 / (sizeof(T) + 1)
  Prealloc,    \* slabs made by the constructor (4 in the code)
  Lengths,     \* how many objects clients ask for
  MaxArrays,   \* bound: arrays held at a time
  Null         \* no slab

SlabAssumption ==
  /\ Addresses \subseteq Nat /\ IsFiniteSet(Addresses)
  /\ PerSlab \in Nat \ {0}
  /\ Prealloc \in Nat /\ Prealloc <= Cardinality(Addresses)
  /\ Lengths \subseteq Nat /\ MaxArrays \in Nat
  /\ Null \notin Addresses

VARIABLES
  slabs_free, slabs_partial, slabs_full,  \* the three lists
  slabs_sort,    \* the slabs find_slab looks among
  hot_slab,      \* the slab to allocate from, or Null
  next_free_cache, size, free,  \* per address: the fields of the slab there
  held,          \* per block: how many times the client holds it
  arrays,        \* the lengths of the arrays it holds, of operator new
  state          \* "alive"; "broken": a deleted slab was used; "gone": destroyed

lists == <<slabs_free, slabs_partial, slabs_full, slabs_sort>>
fields == <<next_free_cache, size, free>>
vars == <<lists, hot_slab, fields, held, arrays, state>>

Slots == 0 .. PerSlab - 1
Blocks == Addresses \X Slots
Slabs == slabs_free \cup slabs_partial \cup slabs_full

Init ==
  /\ slabs_free \in {S \in SUBSET Addresses : Cardinality(S) = Prealloc}
  /\ slabs_partial = {} /\ slabs_full = {} /\ slabs_sort = {}
  /\ hot_slab = Null
  /\ next_free_cache = [s \in Addresses |-> 0]
  /\ size = [s \in Addresses |-> 0]
  /\ free = [s \in Addresses |-> [i \in Slots |-> TRUE]]
  /\ held = [b \in Blocks |-> 0] /\ arrays = <<>> /\ state = "alive"

----------------------------------------------------------------------------
(* A slab *)

Full(s) == size[s] = PerSlab
Free(s) == size[s] = 0

\* memchr: the first slot marked free.
FirstFree(s) == Min({i \in Slots : free[s][i]})

\* The slot next_free returns.
NextFree(s) ==
  IF next_free_cache[s] = -1 THEN FirstFree(s) ELSE next_free_cache[s]

\* Mutant of NextCache: the next slot is cached whether it is free or not.
NextCacheAlways(s) == (next_free_cache[s] + 1) % PerSlab

\* The cache next_free leaves.  The code compares the next index, not the flag
\* there, with true: the cache goes from 0 to 1, then to -1 for ever.
NextCache(s) ==
  IF next_free_cache[s] # -1 /\ (next_free_cache[s] + 1) % PerSlab = 1 THEN 1 ELSE -1

----------------------------------------------------------------------------
(* The allocator *)

\* get_best_slab: the hot slab, else a partial one, else a free one, else (at an
\* address the system chooses) a new one.
BestSlab ==
  IF hot_slab # Null THEN {hot_slab} \cap Slabs
  ELSE IF slabs_partial # {} THEN slabs_partial
  ELSE IF slabs_free # {} THEN slabs_free
  ELSE Addresses \ Slabs

\* Mutant of HotAfter: a slab that becomes full stays hot.
HotAfterKeep(s, filled) == s

\* A slab that becomes full is not hot any more.
HotAfter(s, filled) == IF filled THEN Null ELSE s

\* get_slab_entry, from the slab that get_best_slab returns.
GetSlabEntry(s) ==
  LET slot == NextFree(s)
      filled == size[s] + 1 = PerSlab
  IN /\ state = "alive" /\ s \in BestSlab
     /\ next_free_cache' = [next_free_cache EXCEPT ![s] = NextCache(s)]
     /\ size' = [size EXCEPT ![s] = @ + 1]
     /\ free' = [free EXCEPT ![s][slot] = FALSE]
     /\ slabs_free' = slabs_free \ {s}
     /\ slabs_partial' = IF filled THEN slabs_partial \ {s} ELSE slabs_partial \cup {s}
     /\ slabs_full' = IF filled THEN slabs_full \cup {s} ELSE slabs_full
     /\ slabs_sort' = IF Free(s) THEN slabs_sort \cup {s} ELSE slabs_sort
     /\ hot_slab' = HotAfter(s, filled)
     /\ held' = [held EXCEPT ![<<s, slot>>] = @ + 1]
     /\ UNCHANGED <<arrays, state>>

\* The hot slab was deleted by trim_slabs: the allocation uses freed memory, and
\* nothing is known of what follows.
UseDeletedSlab ==
  /\ state = "alive" /\ hot_slab # Null /\ hot_slab \notin Slabs
  /\ state' = "broken"
  /\ UNCHANGED <<lists, hot_slab, fields, held, arrays>>

\* Mutant of FindSlab: the slab lower_bound returns, not the one before it.
FindSlabAbove(b) ==
  LET above == {s \in slabs_sort : s > b[1]}
  IN IF above = {} THEN Max(slabs_sort) ELSE Min(above)

\* find_slab: lower_bound gives the first slab above the block, the block is in
\* the one before it.
FindSlab(b) ==
  LET above == {s \in slabs_sort : s > b[1]}
  IN IF above = {} THEN Max(slabs_sort)
                   ELSE Max({s \in slabs_sort : s < Min(above)})

\* Mutant of Relist: a slab that becomes free stays in the partial list.
RelistPartial(s, emptied) ==
  /\ slabs_full' = slabs_full \ {s}
  /\ slabs_partial' = slabs_partial \cup {s}
  /\ UNCHANGED <<slabs_free, slabs_sort>>

\* The list of a slab that got a block back.
Relist(s, emptied) ==
  /\ slabs_full' = slabs_full \ {s}
  /\ slabs_partial' = IF emptied THEN slabs_partial \ {s} ELSE slabs_partial \cup {s}
  /\ slabs_free' = IF emptied THEN slabs_free \cup {s} ELSE slabs_free
  /\ slabs_sort' = IF emptied THEN slabs_sort \ {s} ELSE slabs_sort

\* put_slab_entry
PutSlabEntry(b) ==
  LET s == FindSlab(b)
  IN /\ state = "alive" /\ held[b] > 0
     /\ free' = [free EXCEPT ![s][b[2]] = TRUE]
     /\ size' = [size EXCEPT ![s] = @ - 1]
     /\ Relist(s, size[s] = 1)
     /\ held' = [held EXCEPT ![b] = @ - 1]
     /\ UNCHANGED <<hot_slab, next_free_cache, arrays, state>>

\* trim_slabs deletes the free slabs.  hot_slab stays as it is.
TrimSlabs ==
  /\ state = "alive" /\ slabs_free # {}
  /\ slabs_free' = {}
  /\ next_free_cache' = [s \in Addresses |-> IF s \in slabs_free THEN 0 ELSE next_free_cache[s]]
  /\ free' = [s \in Addresses |->
                IF s \in slabs_free THEN [i \in Slots |-> TRUE] ELSE free[s]]
  /\ UNCHANGED <<slabs_partial, slabs_full, slabs_sort, hot_slab, size, held, arrays, state>>

\* ~slab_allocator_base deletes the free slabs and asserts that there are no
\* others.
Destroy ==
  /\ state = "alive"
  /\ slabs_free' = {} /\ state' = "gone"
  /\ UNCHANGED <<slabs_partial, slabs_full, slabs_sort, hot_slab, fields, held, arrays>>

----------------------------------------------------------------------------
(* slab_allocator, the allocator of containers *)

\* Arrays do not come from slabs.
IsArray(n) == n > 1

AllocateArray(n) ==
  /\ state = "alive" /\ IsArray(n) /\ Len(arrays) < MaxArrays
  /\ arrays' = Append(arrays, n)
  /\ UNCHANGED <<lists, hot_slab, fields, held, state>>

DeallocateArray(i) ==
  /\ state = "alive" /\ IsArray(arrays[i])
  /\ arrays' = RemoveAt(arrays, i)
  /\ UNCHANGED <<lists, hot_slab, fields, held, state>>

\* allocate: one object, or none, takes a slot of a slab.
Allocate(n) ==
  \/ AllocateArray(n)
  \/ ~IsArray(n) /\ (UseDeletedSlab \/ \E s \in Addresses : GetSlabEntry(s))

Next ==
  \/ \E n \in Lengths : Allocate(n)
  \/ \E b \in Blocks : PutSlabEntry(b)
  \/ \E i \in DOMAIN arrays : DeallocateArray(i)
  \/ TrimSlabs
  \/ Destroy

Spec == Init /\ [][Next]_vars

----------------------------------------------------------------------------
(* Properties *)

\* A slab is in the list that its fill says, and in one only; find_slab looks
\* among the slabs with blocks in use; the counter of a slab and its map agree
\* with what the client holds; a hot slab that still exists is not full.
Bookkeeping ==
  /\ slabs_free \subseteq Addresses /\ slabs_partial \subseteq Addresses
  /\ slabs_full \subseteq Addresses
  /\ \A s \in slabs_free : Free(s)
  /\ \A s \in slabs_partial : ~Free(s) /\ ~Full(s)
  /\ \A s \in slabs_full : Full(s)
  /\ slabs_sort = slabs_partial \cup slabs_full
  /\ \A s \in Addresses : size[s] = Cardinality({i \in Slots : ~free[s][i]})
  /\ \A b \in Blocks : held[b] = IF free[b[1]][b[2]] THEN 0 ELSE 1
  /\ hot_slab \in Slabs => ~Full(hot_slab)

\* Given any block in use, find_slab finds its slab, whatever slabs came and
\* went above and below it.
OwnerIsFound == \A b \in Blocks : held[b] > 0 => FindSlab(b) = b[1]

\* The assertion "Memory leak" of the destructor fires only if there is a leak.
LeakMeansLeak ==
  state = "gone" /\ (\A b \in Blocks : held[b] = 0) => Slabs = {}

\* The comment at hot_slab: "Last slab used and not full.  If NULL, search".
HotSlabIsUsable == hot_slab # Null => hot_slab \in Slabs /\ ~Full(hot_slab)

\* The comment above holds until trim_slabs deletes the hot slab, which must have
\* become free for that: no other step leaves a hot slab that cannot be used.
OnlyTrimmingLosesHotSlab ==
  [][HotSlabIsUsable /\ ~HotSlabIsUsable' => hot_slab \in slabs_free /\ slabs_free' = {}]_vars

\* No block is handed out twice, none is handed out that is not in a slab, and
\* no slab with a block in use is deleted.
Pool == INSTANCE BlockPool WITH used <- held, backed <- Slabs \X Slots
ImplementsPool == Pool!Spec

=============================================================================
