---------------------------- MODULE MCAllocators ----------------------------
(***************************************************************************)
(* The allocators side by side.  They share nothing, so in each behaviour   *)
(* one of them runs, as TLC chooses, while the others rest in their initial *)
(* states: one run covers the states of all and never their products.      *)
(***************************************************************************)
EXTENDS Integers, Sequences, FiniteSets

CONSTANTS
  Lengths, MaxArrays, Null, Dangling,            \* of all
  Addresses, PerSlab, Prealloc,        \* SlabAllocator
  NumBlocks, MaxChunks,                \* FixedAllocator and SmallObjectAllocator
  Sizes, SmallNumBlocks, MaxInUse, MaxGrowth,   \* SmallObjectAllocator
  N, Modulus, Bases, Alignments, MaxLength, MaxBlocks,  \* ObjStack
  Allocators, Stacks, Size, MaxSize, SizeModulus, StackLengths, MaxHeld,
  Malloc, None                         \* StackAllocator

VARIABLES
  part,
  slabs_free, slabs_partial, slabs_full, slabs_sort, hot_slab, next_free_cache,
  size, free, slab_held, slab_arrays, state,
  fixed, held,
  allocators, capacity, alloc, dealloc, small_held, small_arrays,
  nodes, blocks, last,
  stack, stack_held, heap, crashed

Slab  == INSTANCE SlabAllocator WITH held <- slab_held, arrays <- slab_arrays
Fixed == INSTANCE FixedAllocator
Small == INSTANCE SmallObjectAllocator
           WITH NumBlocks <- SmallNumBlocks, held <- small_held, arrays <- small_arrays
Stack == INSTANCE ObjStack
Users == INSTANCE StackAllocator
           WITH held <- stack_held, Modulus <- SizeModulus, Lengths <- StackLengths

ASSUME SlabConstants == Slab!SlabAssumption
ASSUME FixedConstants == Fixed!FixedAllocatorAssumption
ASSUME SmallConstants == Small!SmallObjectAssumption
ASSUME StackConstants == Stack!ObjStackAssumption
ASSUME UserConstants == Users!StackAllocatorAssumption

slab_vars == <<slabs_free, slabs_partial, slabs_full, slabs_sort, hot_slab,
               next_free_cache, size, free, slab_held, slab_arrays, state>>
fixed_vars == <<fixed, held>>
small_vars == <<allocators, capacity, alloc, dealloc, small_held, small_arrays>>
stack_vars == <<nodes, blocks, last>>
user_vars == <<stack, stack_held, heap, crashed>>

Init ==
  /\ part \in {"slab", "fixed", "small", "stack", "users"}
  /\ Slab!Init /\ Fixed!Init /\ Small!Init /\ Stack!Init /\ Users!Init
  /\ part # "slab" => slabs_free = CHOOSE S \in SUBSET Addresses : Cardinality(S) = Prealloc

Next ==
  /\ UNCHANGED part
  /\ \/ part = "slab" /\ Slab!Next
        /\ UNCHANGED <<fixed_vars, small_vars, stack_vars, user_vars>>
     \/ part = "fixed" /\ Fixed!Next
        /\ UNCHANGED <<slab_vars, small_vars, stack_vars, user_vars>>
     \/ part = "small" /\ Small!Next
        /\ UNCHANGED <<slab_vars, fixed_vars, stack_vars, user_vars>>
     \/ part = "stack" /\ Stack!Next
        /\ UNCHANGED <<slab_vars, fixed_vars, small_vars, user_vars>>
     \/ part = "users" /\ Users!Next
        /\ UNCHANGED <<slab_vars, fixed_vars, small_vars, stack_vars>>

Spec == Init /\ [][Next]_<<part, slab_vars, fixed_vars, small_vars, stack_vars, user_vars>>

----------------------------------------------------------------------------
(* Properties, stated and explained in the modules of the parts *)

\* Slabs: lists, maps, counters and the search agree with what the client holds; the
\* leak report is right.
SlabsAgree == Slab!Bookkeeping /\ Slab!OwnerIsFound /\ Slab!LeakMeansLeak

\* Only trimming leaves a hot slab that cannot be used.
OnlyTrimmingLosesHotSlab == Slab!OnlyTrimmingLosesHotSlab

\* Chunks: free lists, totals and hints are right, although clients write over the
\* links and the vector moves; small objects come from and return to the fixed allocator
\* of their size, although the vector under the upper hints shifts and moves too.
ChunksAgree ==
  /\ Fixed!FreeListsAreFree /\ Fixed!TotalIsSum /\ Fixed!HintsAreCurrent
  /\ Small!SortedBySize /\ Small!HintsAreCurrent /\ Small!ObjectsBySize

\* The free bytes of a node lie beyond its blocks, and only requests that are too
\* large fail; stacks live while containers hold their blocks, and what malloc gave is
\* freed once.
StacksAgree ==
  /\ Stack!FreeIsBeyondBlocks /\ Stack!SmallRequestsSucceed
  /\ Users!StacksOutliveBlocks /\ Users!HeapIsHeld

\* Blocks are handed out once, from memory the allocator has, which stays while it is
\* in use: slabs, fixed allocators, and small objects of all sizes.
AllocatorsImplementPools ==
  Slab!ImplementsPool /\ Fixed!ImplementsPool /\ Small!ImplementsPool

(***************************************************************************)
(* What the code does not do: TLC finds each of these violated.             *)
(***************************************************************************)

\* align of mem/util.h aligns, and blocks of an object stack are apart.
PointersAreAligned == Stack!PointersAreAligned
BlocksAreDisjoint == Stack!BlocksAreDisjoint

\* The hot slab is one of the slabs, with room, after trimming too.
HotSlabIsUsable == Slab!HotSlabIsUsable

=============================================================================
