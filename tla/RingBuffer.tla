------------------------------ MODULE RingBuffer ------------------------------
(***************************************************************************)
(* The unsynchronised ring buffer of fifo/ring_buffer.h.  It does not check *)
(* for room: its client keeps to Limit slots.  The special members bear the *)
(* name of another class and do not compile; the model is of what they say. *)
(*                                                                         *)
(* Both ends move their index before they touch the object, and do not move *)
(* it back when the constructor or the assignment throws: a push then has   *)
(* left a slot raw between head and tail, a pop has left an object alive    *)
(* behind head.                                                            *)
(***************************************************************************)
EXTENDS Integers, Sequences

CONSTANTS
  N,        \* slots
  Limit,    \* slots the client lets the buffer have in use at most
  Items,    \* what can be pushed
  NoItem    \* no object

RingBufferAssumption ==
  N \in Nat \ {0} /\ Limit \in Nat /\ NoItem \notin Items

VARIABLES
  head, tail,   \* the indices of the next item out and of the next slot to fill
  fifo,         \* per slot: the object constructed there, or NoItem
  inside,       \* the client's count of the pushes it made and did not pop, thrown ones too
  out,          \* the item popped last
  destroyed,    \* the destructor has run
  holes,        \* history: the slots from head to tail whose push threw
  leaks         \* history: the slots behind head whose pop threw, their objects alive

vars == <<head, tail, fifo, inside, out, destroyed, holes, leaks>>

Slots == 0 .. N - 1

Init ==
  /\ head = 0 /\ tail = 0 /\ fifo = [i \in Slots |-> NoItem]
  /\ inside = 0 /\ out = NoItem /\ destroyed = FALSE
  /\ holes = {} /\ leaks = {}

\* Mutant of increment_index: the last slot is never used.
increment_index_short(index) == (index + 1) % (N - 1)

increment_index(index) == (index + 1) % N

\* Mutant of empty: no check.
emptyNever == FALSE

empty == head = tail

\* push and emplace; over an object that a pop left alive, too
push(v) ==
  /\ ~destroyed /\ inside < Limit
  /\ fifo' = [fifo EXCEPT ![tail] = v]
  /\ tail' = increment_index(tail)
  /\ inside' = inside + 1 /\ leaks' = leaks \ {tail}
  /\ UNCHANGED <<head, out, destroyed, holes>>

\* ... whose constructor throws: tail is past a slot without an object
push_throws ==
  /\ ~destroyed /\ inside < Limit
  /\ fifo' = [fifo EXCEPT ![tail] = NoItem]
  /\ tail' = increment_index(tail)
  /\ inside' = inside + 1
  /\ holes' = holes \cup {tail} /\ leaks' = leaks \ {tail}
  /\ UNCHANGED <<head, out, destroyed>>

\* Mutant of Destroyed: the object moved from is not destroyed.
DestroyedNot(i) == fifo

\* alloc.destroy
Destroyed(i) == [fifo EXCEPT ![i] = NoItem]

\* pop_value
pop_value ==
  /\ ~destroyed /\ ~empty
  /\ out' = fifo[head] /\ fifo' = Destroyed(head)
  /\ head' = increment_index(head)
  /\ inside' = inside - 1 /\ holes' = holes \ {head}
  /\ UNCHANGED <<tail, destroyed, leaks>>

\* ... whose assignment throws: head is past an object that nobody destroys
pop_value_throws ==
  /\ ~destroyed /\ ~empty
  /\ head' = increment_index(head)
  /\ inside' = inside - 1
  /\ holes' = holes \ {head} /\ leaks' = leaks \cup ({head} \ holes)
  /\ UNCHANGED <<tail, fifo, out, destroyed>>

\* The slots from head to tail.
Filled == {i \in Slots : (i - head) % N < (tail - head) % N}

\* The destructor.
Destroy ==
  /\ ~destroyed
  /\ destroyed' = TRUE
  /\ fifo' = [i \in Slots |-> IF i \in Filled THEN NoItem ELSE fifo[i]]
  /\ head' = tail /\ holes' = {}
  /\ UNCHANGED <<tail, inside, out, leaks>>

Next ==
  (\E v \in Items : push(v)) \/ push_throws \/ pop_value \/ pop_value_throws \/ Destroy

Spec == Init /\ [][Next]_vars

----------------------------------------------------------------------------
(* Properties *)

\* Objects live in the slots from head to tail and nowhere else, but for the slots whose
\* push threw, that are raw inside, and those whose pop threw, that are alive outside: none
\* is constructed over another, used after its end, or forgotten by the destructor.
ObjectsAreInside ==
  /\ holes \subseteq Filled /\ leaks \cap Filled = {}
  /\ \A i \in Slots : fifo[i] # NoItem <=> i \in (Filled \ holes) \cup leaks

\* Nothing that was pushed is lost: the indices give the count of the client.
NothingIsLost == ~destroyed => (tail - head) % N = inside

\* A FIFO for as many slots as the client keeps to.  A push that throws has entered
\* nothing in the place of the item, that a later pop hands out; a pop that throws has
\* lost the oldest item.
Queue == [n \in 1 .. (tail - head) % N |-> fifo[(head + n - 1) % N]]
Fifo == INSTANCE BoundedFifo WITH N <- Limit, queue <- Queue
Thrown ==
  \/ push_throws /\ Fifo!AcceptNothing
  \/ pop_value_throws /\ Fifo!LoseOldest
ImplementsFifo == Fifo!Init /\ [][Fifo!Next \/ Thrown]_<<Queue, out>>

\* What a container promises of a constructor and of an assignment that throw, and this
\* one does not keep: no slot from head to tail is raw, no object is left behind.
NoRawInside == holes = {}
NoObjectBehind == leaks = {}

=============================================================================
