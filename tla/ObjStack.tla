------------------------------ MODULE ObjStack ------------------------------
(***************************************************************************)
(* The stacks of objects of mem/objstack_allocator.h and the align they     *)
(* call, of mem/util.h.  A stack is a list of nodes of N bytes; blocks are  *)
(* cut off the head node, and nothing is given back.  A fixed_objstack is a *)
(* stack that never gets a second node.                                     *)
(*                                                                         *)
(* Addresses and sizes are numbers modulo Modulus (2^64 in the code), the   *)
(* alignments powers of two.  No array is so long that its size and the pad *)
(* before it wrap around.                                                   *)
(***************************************************************************)
EXTENDS Integers, SequencesExt

CONSTANTS
  N,           \* bytes of a node
  Modulus,     \* of the arithmetic of addresses and sizes
  Bases,       \* where the storage of a node can be
  Alignments,  \* of the types of objects, whose sizes are the same
  MaxLength,   \* bound: objects of an array
  MaxBlocks,   \* bound: blocks
  Null         \* no address

ObjStackAssumption ==
  /\ N \in Nat /\ Modulus \in Nat /\ N < Modulus
  /\ \A b \in Bases : b \in Nat /\ b + 2 * N < Modulus
  /\ Alignments \subseteq Nat \ {0} /\ MaxLength \in Nat
  /\ \A s \in Alignments : s * (MaxLength + 1) <= Modulus
  /\ Null \notin Nat

VARIABLES
  nodes,    \* the storage of each node and its free bytes; the last one is head
  blocks,   \* the blocks handed out, with what was asked for
  last      \* the last request and what it got

vars == <<nodes, blocks, last>>

\* What is asked for: arrays of objects, and one object that fits no node.
Requests ==
  {[n |-> s * k, alignment |-> s] : s \in Alignments, k \in 1 .. MaxLength}
    \cup {[n |-> N + 1, alignment |-> 1]}

NoRequest == [n |-> 0, alignment |-> 1, ptr |-> 0]

Init == nodes = <<>> /\ blocks = {} /\ last = NoRequest

\* A node just made.
NewNode(base) == [base |-> base, size |-> N]

\* x & ~alignment: one bit is cleared, where those below it should be.
Masked(x, alignment) == IF (x \div alignment) % 2 = 1 THEN x - alignment ELSE x

\* align: where it moves the pointer pn, before its checks.
Aligned(pn, alignment) == Masked((pn + alignment - 1) % Modulus, alignment)

Padding(pn, alignment) == (Aligned(pn, alignment) - pn) % Modulus

\* The first free byte of a node.
Top(node) == (node.base + N - node.size) % Modulus

\* Mutant of Fits: the padding is not counted.
FitsUnpadded(node, r) == r.alignment <= node.size /\ node.size >= r.n

\* The checks of align.
Fits(node, r) ==
  /\ r.alignment <= node.size
  /\ node.size >= (r.n + Padding(Top(node), r.alignment)) % Modulus

\* fixed_objstack::allocate in a node the request fits.
Cut(node, r) ==
  [node EXCEPT !.size = (@ - Padding(Top(node), r.alignment) - r.n) % Modulus]

\* The last of the nodes ns serves the request.
ServedFrom(ns, r) ==
  LET ptr == Aligned(Top(Last(ns)), r.alignment)
  IN /\ nodes' = [ns EXCEPT ![Len(ns)] = Cut(@, r)]
     /\ blocks' = blocks \cup {[base |-> Last(ns).base, ptr |-> ptr, n |-> r.n]}
     /\ last' = [n |-> r.n, alignment |-> r.alignment, ptr |-> ptr]

Failed(ns, r) ==
  /\ nodes' = ns /\ UNCHANGED blocks
  /\ last' = [n |-> r.n, alignment |-> r.alignment, ptr |-> Null]

\* Mutant of WithNewNode: no second try.
WithNewNodeNot(ns, base) == ns

\* allocate_new_node
WithNewNode(ns, base) == Append(ns, NewNode(base))

\* allocate: an empty stack gets a node; a request that does not fit the head is
\* tried once more in a new one.
Allocate(r) ==
  /\ Cardinality(blocks) < MaxBlocks
  /\ \E first \in Bases :
       LET have == IF nodes = <<>> THEN <<NewNode(first)>> ELSE nodes
       IN IF Fits(Last(have), r) THEN ServedFrom(have, r)
          ELSE \E second \in Bases \ {have[i].base : i \in DOMAIN have} :
                 LET more == WithNewNode(have, second)
                 IN IF Fits(Last(more), r) THEN ServedFrom(more, r) ELSE Failed(more, r)

Next == \E r \in Requests : Allocate(r)

Spec == Init /\ [][Next]_vars

----------------------------------------------------------------------------
(* Properties *)

\* What a node has free lies beyond every block it handed out, and no block goes
\* beyond the end of its node, whatever the pads add up to in modular arithmetic.
FreeIsBeyondBlocks ==
  \A i \in DOMAIN nodes : \A b \in blocks :
    b.base = nodes[i].base =>
      /\ b.ptr + b.n <= Top(nodes[i])
      /\ Top(nodes[i]) <= nodes[i].base + N

\* A request that fits an empty node with any pad never fails, however full the
\* stack is.
SmallRequestsSucceed == last.ptr = Null => last.n + last.alignment > N

\* align stands in for std::align: the pointer is a multiple of the alignment.
PointersAreAligned == last.ptr # Null => last.ptr % last.alignment = 0

\* No byte is in two blocks.
BlocksAreDisjoint ==
  \A a, b \in blocks : a # b => a.ptr + a.n <= b.ptr \/ b.ptr + b.n <= a.ptr

=============================================================================
