--------------------------- MODULE FixedAllocator ---------------------------
(***************************************************************************)
(* One fixed allocator of mem/fixed_allocator.h and its client, a thread    *)
(* that writes what it likes into the blocks it holds.                      *)
(***************************************************************************)
EXTENDS Chunks

CONSTANT MaxChunks   \* bound: how many chunks the system has memory for

FixedAllocatorAssumption == ChunksAssumption /\ MaxChunks \in Nat

VARIABLES fixed,   \* the fixed allocator
          held     \* per block: how many times the client holds it

vars == <<fixed, held>>

Blocks == (1 .. MaxChunks) \X Indices

\* The size of the blocks plays no part here.
Init == fixed = NewFixed(1) /\ held = [b \in Blocks |-> 0]

Allocate ==
  \E f \in Chosen(fixed) :
    /\ Len(f.storage) <= MaxChunks
    /\ fixed' = Allocated(f)
    /\ held' = [held EXCEPT ![NextBlock(f)] = @ + 1]

Deallocate(b) ==
  /\ held[b] > 0
  /\ fixed' = Deallocated(fixed, b)
  /\ held' = [held EXCEPT ![b] = @ - 1]

\* The client writes into a block it holds, over the byte of the free list.
Write(b, byte) ==
  /\ held[b] > 0
  /\ fixed' = [fixed EXCEPT !.storage[b[1]].byte[b[2]] = byte]
  /\ UNCHANGED held

Next ==
  \/ Allocate
  \/ \E b \in Blocks : Deallocate(b) \/ \E byte \in 0 .. NumBlocks : Write(b, byte)

Spec == Init /\ [][Next]_vars

----------------------------------------------------------------------------
(* Properties *)

\* Following the free list of a chunk for num_blocks_free steps meets every block
\* that is not in use, and no other: neither clients that write over the links of
\* blocks in use nor the order in which blocks come back can break it.
FreeListsAreFree == FreeListsAre(fixed, {b \in Blocks : held[b] > 0})

\* The total steers the search for a chunk: it is what the chunks have.
TotalIsSum == TotalIs(fixed)

\* The hints survive the growth of the vector.
HintsAreCurrent == HintsAre(fixed)

\* No block is handed out twice, and memory in use stays.
Pool == INSTANCE BlockPool
          WITH used <- held, backed <- (DOMAIN fixed.storage) \X Indices
ImplementsPool == Pool!Spec

=============================================================================
