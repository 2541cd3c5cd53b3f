------------------------------- MODULE Chunks -------------------------------
(***************************************************************************)
(* The chunks and the fixed allocator of mem/fixed_allocator.h as values:   *)
(* what each operation makes of the fixed allocator it is called on.  A     *)
(* chunk is an array of NumBlocks blocks; its free blocks form a list       *)
(* threaded through their first bytes, which belong to the client while    *)
(* the block is in use.  alloc and dealloc point to the chunks used last,   *)
(* inside the buffer of a std::vector that moves when it grows.             *)
(*                                                                         *)
(* A block is the number of its chunk and its index there: the data of a   *)
(* chunk stays where it is when the vector moves.                           *)
(***************************************************************************)
EXTENDS Integers, SequencesExt

CONSTANTS
  NumBlocks,   \* blocks of a chunk (255 in the code, an unsigned char)
  Null,        \* no chunk, or no fixed allocator
  Dangling     \* a pointer into a buffer that a vector has left

ChunksAssumption == NumBlocks \in 1 .. 255

Indices == 0 .. NumBlocks - 1

\* chunk::chunk: block i links to block i + 1, the last one to NumBlocks.
NewChunk ==
  [first_free_block |-> 0, num_blocks_free |-> NumBlocks,
   byte |-> [i \in Indices |-> i + 1]]

\* Mutant of Popped: the head of the free list moves to the next index.
PoppedNext(chunk) ==
  [chunk EXCEPT !.num_blocks_free = @ - 1,
                !.first_free_block = (@ + 1) % NumBlocks]

\* chunk::allocate: the head of the free list is taken off.
Popped(chunk) ==
  [chunk EXCEPT !.num_blocks_free = @ - 1,
                !.first_free_block = chunk.byte[chunk.first_free_block]]

\* Mutant of Pushed: the free list is cut.
PushedAlone(chunk, i) ==
  [chunk EXCEPT !.num_blocks_free = @ + 1, !.first_free_block = i]

\* Mutant of Pushed: the block is counted twice.
PushedTwice(chunk, i) ==
  [chunk EXCEPT !.num_blocks_free = @ + 2,
                !.first_free_block = i,
                !.byte[i] = chunk.first_free_block]

\* chunk::deallocate: the block becomes the head of the free list.
Pushed(chunk, i) ==
  [chunk EXCEPT !.num_blocks_free = @ + 1,
                !.first_free_block = i,
                !.byte[i] = chunk.first_free_block]

----------------------------------------------------------------------------
(* A fixed allocator *)

NewFixed(block_size) ==
  [block_size |-> block_size, storage |-> <<>>,
   alloc |-> Null, dealloc |-> Null, num_blocks_free |-> 0]

\* alloc and dealloc are positions in the vector.
WithSpace(f) == {c \in DOMAIN f.storage : f.storage[c].num_blocks_free > 0}
HotHasSpace(f) == f.alloc # Null /\ f.alloc \in WithSpace(f)

\* Mutant of FixedUp: dealloc keeps pointing into the old buffer.
FixedUpNot(f, moved) ==
  IF f.dealloc = Null THEN 1 ELSE IF moved THEN Dangling ELSE f.dealloc

\* dealloc after the vector has grown: its index, taken before, in the vector as it is.
FixedUp(f, moved) == IF f.dealloc = Null THEN 1 ELSE f.dealloc

\* A new chunk is added; the vector may have moved.
Grown(f, moved) ==
  [f EXCEPT !.storage = Append(@, NewChunk),
            !.num_blocks_free = @ + NumBlocks,
            !.alloc = Len(f.storage) + 1,
            !.dealloc = FixedUp(f, moved)]

\* get_next_block_to_allocate_from: alloc points to the chunk to allocate from.  The
\* hot one has space, or the first one that has, or a new one is added.
Chosen(f) ==
  IF HotHasSpace(f) THEN {f}
  ELSE IF f.num_blocks_free > 0 /\ WithSpace(f) # {}
  THEN {[f EXCEPT !.alloc = Min(WithSpace(f))]}
  ELSE {Grown(f, moved) : moved \in BOOLEAN}

\* allocate, with alloc set by get_next_block_to_allocate_from: the block, and what
\* is left.
NextBlock(f) == <<f.alloc, f.storage[f.alloc].first_free_block>>
Allocated(f) ==
  [f EXCEPT !.num_blocks_free = @ - 1, !.storage[f.alloc] = Popped(@)]

\* deallocate: dealloc points to the chunk of the block, or the chunk is searched and
\* dealloc set.
Deallocated(f, b) ==
  [f EXCEPT !.dealloc = b[1],
            !.num_blocks_free = @ + 1,
            !.storage[b[1]] = Pushed(@, b[2])]

----------------------------------------------------------------------------
(* What a fixed allocator is to be, given the blocks in use *)

\* The blocks met when the free list of a chunk is followed for num_blocks_free steps.
FreeList(chunk) ==
  LET n == chunk.num_blocks_free
      walk[i \in 0 .. n-1] ==
        IF i = 0 THEN chunk.first_free_block ELSE chunk.byte[walk[i-1]]
  IN {walk[i] : i \in 0 .. n-1}

\* The free list of each chunk has every block not in use, and no other.
FreeListsAre(f, in_use) ==
  \A c \in DOMAIN f.storage :
    LET unused == {i \in Indices : <<c, i>> \notin in_use}
    IN /\ f.storage[c].num_blocks_free = Cardinality(unused)
       /\ FreeList(f.storage[c]) = unused

\* The total is what the chunks have: the first free block, the second, ... of each.
FreeBlocks(storage) ==
  UNION {{c} \X (1 .. storage[c].num_blocks_free) : c \in DOMAIN storage}
TotalIs(f) == f.num_blocks_free = Cardinality(FreeBlocks(f.storage))

\* The hints point to chunks in the buffer the vector has.
HintsAre(f) ==
  {f.alloc, f.dealloc} \ {Null} \subseteq DOMAIN f.storage

=============================================================================
