--------------------------- MODULE StackAllocator ---------------------------
(***************************************************************************)
(* The allocators on object stacks of mem/objstack_allocator.h and the      *)
(* containers that keep one each.  Allocators share a stack by a            *)
(* std::shared_ptr: copies are equal and may free each other's blocks; an   *)
(* allocator moved from has no stack.  A stack, with all its blocks, goes   *)
(* when the last allocator on it does.  Requests of more than max_size      *)
(* bytes go to malloc.                                                      *)
(*                                                                         *)
(* Where a block lies in its stack is left to module ObjStack: a stack has  *)
(* room for a request or not.                                               *)
(***************************************************************************)
EXTENDS Integers, SequencesExt

CONSTANTS
  Allocators,  \* the objects that are or may become allocators
  Stacks,      \* bound: the stacks at a time
  Size,        \* sizeof(T)
  MaxSize,     \* max_size() of a stack, in bytes
  Modulus,     \* of size_t
  Lengths,     \* how many objects containers ask for
  MaxHeld,     \* bound: blocks containers hold
  Malloc,      \* the heap
  None, Null   \* no allocator yet or any more; no stack

StackAllocatorAssumption ==
  /\ Size \in Nat \ {0} /\ MaxSize \in Nat /\ Modulus \in Nat \ {0}
  /\ Lengths \subseteq Nat /\ MaxHeld \in Nat
  /\ None \notin Stacks /\ Null \notin Stacks /\ None # Null /\ Malloc \notin Stacks

VARIABLES
  stack,    \* per allocator: None, Null or the stack it is on
  held,     \* the blocks containers hold: whose, from where, and how many objects
  heap,     \* blocks of malloc that were not freed
  crashed   \* an allocator without a stack was asked

vars == <<stack, held, heap, crashed>>

Init ==
  /\ stack = [a \in Allocators |-> None]
  /\ held = <<>> /\ heap = 0 /\ crashed = FALSE

Alive == Range(stack) \cap Stacks
HasBlocks(a) == \E i \in DOMAIN held : held[i].owner = a

\* The default constructor makes a stack.
Construct(a) ==
  /\ stack[a] = None
  /\ \E s \in Stacks \ Alive : stack' = [stack EXCEPT ![a] = s]
  /\ UNCHANGED <<held, heap, crashed>>

\* The copy constructor, and copy assignment to a container that has given its blocks
\* back.  (The converting one has a static_assert on a value that is no constant.)
Copy(a, b) ==
  /\ a # b /\ stack[a] # None /\ ~HasBlocks(b)
  /\ stack' = [stack EXCEPT ![b] = stack[a]]
  /\ UNCHANGED <<held, heap, crashed>>

\* Mutant of MovedFrom: the blocks move, and not the stack.
MovedFromKeeps(a, b) == [stack EXCEPT ![b] = IF @ = None THEN Null ELSE @]

\* Where the stack is after a move.
MovedFrom(a, b) == [stack EXCEPT ![b] = stack[a], ![a] = Null]

\* A container is moved, by construction or by assignment to one that has given its
\* blocks back: its allocator is, and its blocks change hands.
Move(a, b) ==
  /\ a # b /\ stack[a] # None /\ ~HasBlocks(b)
  /\ stack' = MovedFrom(a, b)
  /\ held' = [i \in DOMAIN held |->
                IF held[i].owner = a THEN [held[i] EXCEPT !.owner = b] ELSE held[i]]
  /\ UNCHANGED <<heap, crashed>>

\* A container goes once it has given its blocks back.
Destroy(a) ==
  /\ stack[a] # None /\ ~HasBlocks(a)
  /\ stack' = [stack EXCEPT ![a] = None]
  /\ UNCHANGED <<held, heap, crashed>>

Bytes(n) == (Size * n) % Modulus

\* allocate.  A stack without room gives no block.
Allocate(a, n) ==
  /\ stack[a] \in Stacks /\ Len(held) < MaxHeld
  /\ \/ /\ Bytes(n) > MaxSize
        /\ held' = Append(held, [owner |-> a, from |-> Malloc, n |-> n])
        /\ heap' = heap + 1
     \/ /\ Bytes(n) <= MaxSize
        /\ held' = Append(held, [owner |-> a, from |-> stack[a], n |-> n])
        /\ UNCHANGED heap
  /\ UNCHANGED <<stack, crashed>>

\* max_size, allocate and deallocate use the stack a moved-from allocator has not.
UseNoStack(a) ==
  /\ stack[a] = Null
  /\ crashed' = TRUE /\ UNCHANGED <<stack, held, heap>>

\* Mutant of Freed: objects are compared with bytes.
FreedByCount(n) == n > MaxSize

\* What deallocate frees; the rest stays with its stack.
Freed(n) == Bytes(n) > MaxSize

\* deallocate, by any allocator equal to the one of the container.
Deallocate(a, i) ==
  /\ stack[a] \in Stacks /\ stack[a] = stack[held[i].owner]
  /\ heap' = IF Freed(held[i].n) THEN heap - 1 ELSE heap
  /\ held' = RemoveAt(held, i)
  /\ UNCHANGED <<stack, crashed>>

Next ==
  /\ ~crashed
  /\ \E a \in Allocators :
       \/ Construct(a) \/ Destroy(a) \/ UseNoStack(a)
       \/ \E b \in Allocators : Copy(a, b) \/ Move(a, b)
       \/ \E n \in Lengths : Allocate(a, n)
       \/ \E i \in DOMAIN held : Deallocate(a, i)

Spec == Init /\ [][Next]_vars

----------------------------------------------------------------------------
(* Properties *)

\* While a container holds a block of a stack, its own allocator is on that stack, so
\* the stack is there, whatever copies and moves the allocators made.
StacksOutliveBlocks ==
  \A i \in DOMAIN held : held[i].from \in {Malloc, stack[held[i].owner]}

\* What malloc gave is freed once, when the block is given back, by whichever equal
\* allocator: never a block of a stack, and none is forgotten.
HeapIsHeld == heap = Cardinality({i \in DOMAIN held : held[i].from = Malloc})

=============================================================================
