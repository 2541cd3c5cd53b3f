---------------------------- MODULE BoundedFifo ----------------------------
(***************************************************************************)
(* What a bounded FIFO promises: it holds at most N items, accepts an item  *)
(* only when there is room and hands items out in the order it accepted    *)
(* them, each one once.                                                    *)
(***************************************************************************)
EXTENDS Naturals, Sequences

CONSTANTS N, Items, NoItem

VARIABLES queue,  \* the items accepted and not handed out, oldest first
          out     \* the item handed out last, NoItem before the first one

Init == queue = <<>> /\ out = NoItem

Accept(v) ==
  /\ Len(queue) < N
  /\ queue' = Append(queue, v) /\ UNCHANGED out

HandOut ==
  /\ queue # <<>>
  /\ out' = Head(queue) /\ queue' = Tail(queue)

\* The queue is destroyed with whatever it holds.
Discard == queue' = <<>> /\ UNCHANGED out

\* What a queue does that has moved its index when the work of a call throws: an item that
\* is none goes in, or the oldest one goes without being handed out.  A bounded FIFO does
\* neither; the queues that do say where.
AcceptNothing ==
  /\ Len(queue) < N
  /\ queue' = Append(queue, NoItem) /\ UNCHANGED out
LoseOldest ==
  /\ queue # <<>>
  /\ queue' = Tail(queue) /\ UNCHANGED out

Next == (\E v \in Items : Accept(v)) \/ HandOut \/ Discard

Spec == Init /\ [][Next]_<<queue, out>>

=============================================================================
