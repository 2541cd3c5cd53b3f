------------------------ MODULE SmallObjectAllocator ------------------------
(***************************************************************************)
(* The allocator of small objects of mem/fixed_allocator.h: one fixed       *)
(* allocator for each size of block, in a vector sorted by size, and two    *)
(* raw pointers into its buffer that remember the fixed allocators used     *)
(* last.  A new size shifts the larger ones in the buffer, or moves all to  *)
(* a larger one.                                                            *)
(*                                                                         *)
(* A fixed allocator travels with its chunks, and its own hints with it.    *)
(* What clients write into their objects plays no part here (see module     *)
(* FixedAllocator).  One thread: there is no locking.  The base object      *)
(* lives as long as the program: its singleton keeps a reference.           *)
(***************************************************************************)
EXTENDS Chunks

CONSTANTS
  Sizes,      \* sizeof(T) of the types objects are allocated of
  Lengths,    \* how many objects clients ask for
  MaxChunks,  \* bound: chunks of one fixed allocator
  MaxInUse,   \* bound: objects in use at a time
  MaxArrays,  \* bound: arrays in use at a time
  MaxGrowth   \* bound: elements a growing vector adds to its capacity at most

SmallObjectAssumption ==
  /\ ChunksAssumption
  /\ Sizes \subseteq Nat \ {0} /\ Lengths \subseteq Nat /\ MaxChunks \in Nat
  /\ MaxInUse \in Nat /\ MaxArrays \in Nat /\ MaxGrowth \in Nat \ {0}

VARIABLES
  allocators,      \* the fixed allocators, in the vector of a contiguous_set
  capacity,        \* of that vector
  alloc, dealloc,  \* the hints: Null, or a position in the vector
  held,            \* per block: how many times clients hold it
  arrays           \* the lengths of the arrays they hold, of operator new

vars == <<allocators, capacity, alloc, dealloc, held, arrays>>

\* A block: the size of its fixed allocator, its chunk there, its index.
Blocks == Sizes \X (1 .. MaxChunks) \X Indices
InUseOf(s) == {<<b[2], b[3]>> : b \in {b \in Blocks : b[1] = s /\ held[b] > 0}}

Init ==
  /\ allocators = <<>> /\ capacity = 0
  /\ alloc = Null /\ dealloc = Null
  /\ held = [b \in Blocks |-> 0] /\ arrays = <<>>

KnownSizes == {allocators[i].block_size : i \in DOMAIN allocators}

\* std::lower_bound by size between two positions.
LowerBound(first, last, s) ==
  Min({i \in first .. last - 1 : allocators[i].block_size >= s} \cup {last})

\* Mutant of Place: a new size goes to the end.
PlaceLast(s) == Len(allocators) + 1

\* Where contiguous_set::emplace puts a fixed allocator for blocks of size s.
Place(s) == LowerBound(1, Len(allocators) + 1, s)

\* Mutant of Kept: the hints are never reset.
KeptAlways(hint, moved) == IF moved /\ hint # Null THEN Dangling ELSE hint

\* What add_storage_size makes of a hint.
Kept(hint, moved) == IF moved THEN Null ELSE hint

\* Mutant of Shifted: the chunks are copied, the hints are not.
ShiftedCopy(f) ==
  [f EXCEPT !.alloc = IF @ = Null THEN Null ELSE Dangling,
            !.dealloc = IF @ = Null THEN Null ELSE Dangling]

\* A fixed allocator moved to another element: the buffer of its chunks goes with
\* its hints.
Shifted(f) == f

\* A small_object_allocator is constructed: add_storage_size.  The elements from the
\* new one on are moved, or all if the vector moves.
Construct(s) ==
  LET i == Place(s)
      moved == Len(allocators) = capacity
      Element(j) == IF moved \/ j >= i THEN Shifted(allocators[j]) ELSE allocators[j]
  IN /\ s \notin KnownSizes
     /\ allocators' =
          InsertAt([j \in DOMAIN allocators |-> Element(j)], i, NewFixed(s))
     /\ capacity' \in IF moved THEN capacity + 1 .. capacity + MaxGrowth ELSE {capacity}
     /\ alloc' = Kept(alloc, moved) /\ dealloc' = Kept(dealloc, moved)
     /\ UNCHANGED <<held, arrays>>

\* Mutant of AllocatorFor: blocks that are large enough will do.
AllocatorForAtLeast(s, hint) ==
  IF hint # Null /\ allocators[hint].block_size >= s THEN hint
  ELSE LowerBound(1, Len(allocators) + 1, s)

\* get_allocator_for_block_size: the hint, or what a binary search finds on the
\* side of the hint where the size must be.
AllocatorFor(s, hint) ==
  IF hint = Null THEN LowerBound(1, Len(allocators) + 1, s)
  ELSE IF allocators[hint].block_size = s THEN hint
  ELSE IF allocators[hint].block_size < s
       THEN LowerBound(hint, Len(allocators) + 1, s)
       ELSE LowerBound(1, hint, s)

\* More than one object come from operator new.
FromHeap(n) == n > 1

AllocateObject(s) ==
  LET i == AllocatorFor(s, alloc)
  IN \E f \in Chosen(allocators[i]) :
       /\ Len(f.storage) <= MaxChunks
       /\ alloc' = i
       /\ allocators' = [allocators EXCEPT ![i] = Allocated(f)]
       /\ held' = [held EXCEPT ![<<s>> \o NextBlock(f)] = @ + 1]
       /\ UNCHANGED <<capacity, dealloc, arrays>>

AllocateArray(n) ==
  /\ Len(arrays) < MaxArrays
  /\ arrays' = Append(arrays, n)
  /\ UNCHANGED <<allocators, capacity, alloc, dealloc, held>>

\* allocate, by a client, which added the size when it was constructed.
Allocate(s, n) ==
  /\ s \in KnownSizes
  /\ IF FromHeap(n) THEN AllocateArray(n)
     ELSE Cardinality({b \in Blocks : held[b] > 0}) < MaxInUse /\ AllocateObject(s)

\* deallocate, of one object.
DeallocateObject(b) ==
  LET i == AllocatorFor(b[1], dealloc)
  IN /\ held[b] > 0
     /\ dealloc' = i
     /\ allocators' = [allocators EXCEPT ![i] = Deallocated(@, Tail(b))]
     /\ held' = [held EXCEPT ![b] = @ - 1]
     /\ UNCHANGED <<capacity, alloc, arrays>>

\* deallocate, of an array.
DeallocateArray(i) ==
  /\ FromHeap(arrays[i])
  /\ arrays' = RemoveAt(arrays, i)
  /\ UNCHANGED <<allocators, capacity, alloc, dealloc, held>>

Next ==
  \/ \E s \in Sizes : Construct(s) \/ \E n \in Lengths : Allocate(s, n)
  \/ \E b \in Blocks : DeallocateObject(b)
  \/ \E i \in DOMAIN arrays : DeallocateArray(i)

Spec == Init /\ [][Next]_vars

----------------------------------------------------------------------------
(* Properties *)

\* The binary searches need the fixed allocators in strict order of size.
SortedBySize ==
  \A i, j \in DOMAIN allocators :
    i < j => allocators[i].block_size < allocators[j].block_size

\* A hint points into the vector as it is now, whatever sizes were added
\* since it was stored.
HintsAreCurrent ==
  {alloc, dealloc} \ {Null} \subseteq DOMAIN allocators

\* An object comes from, and goes back to, the fixed allocator of its own size,
\* although the element a hint points to changes when sizes are added: the free lists,
\* totals and hints of each are those of the objects of its size in use.
ObjectsBySize ==
  \A i \in DOMAIN allocators :
    LET f == allocators[i]
    IN FreeListsAre(f, InUseOf(f.block_size)) /\ TotalIs(f) /\ HintsAre(f)

\* No object is handed out twice, and memory in use stays, whatever sizes are added.
Pool == INSTANCE BlockPool
          WITH used <- held,
               backed <- {b \in Blocks : \E i \in DOMAIN allocators :
                            /\ allocators[i].block_size = b[1]
                            /\ b[2] \in DOMAIN allocators[i].storage}
ImplementsPool == Pool!Spec

=============================================================================
