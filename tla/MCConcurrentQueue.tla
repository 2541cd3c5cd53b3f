------------------------- MODULE MCConcurrentQueue -------------------------
(* Instances of ConcurrentQueue for TLC. *)
EXTENDS ConcurrentQueue, TLC

CONSTANTS p1, p2, p3, c1, c2

BlockingCalls == {"push", "pop"}
BlockingCallsAndClose == {"push", "pop", "close"}
BlockingAndTryCalls == {"push", "try_push", "pop", "try_pop"}
TryCalls == {"try_push", "try_pop"}
AllCalls == {"push", "try_push", "close", "pop", "try_pop"}

ThreadSymmetry == Permutations(Producers) \cup Permutations(Consumers)

\* The part of a state that the steps to come and the properties of cq_many depend on: not
\* the items, and not what a thread has loaded and claimed in a call that is over.
Stores == {"dec_empty_store", "inc_full_store", "dec_full_store", "inc_empty_store"}
WhatMatters ==
  LET Busy(f) == [t \in {u \in Threads : ~At(u, "idle")} |-> f[t]]
      loaded == [t \in {u \in Threads : pc[u] \in Stores} |-> reg[t]]
  IN  <<control, stale, loaded, Busy(idx), Busy(tk), sent, taken, calls, threw, live>>

=============================================================================
