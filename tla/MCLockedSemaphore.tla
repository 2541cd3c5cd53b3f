-------------------------- MODULE MCLockedSemaphore --------------------------
(* Instances of LockedSemaphore for TLC. *)
EXTENDS LockedSemaphore

CONSTANTS t1, t2, t3

\* Everybody calls anything; or t1 waits and the others post.
AnyOrOneWaiter ==
  { [t \in Threads |-> Operations],
    [t \in Threads |-> IF t = t1 THEN {"wait"} ELSE {"post", "post_all"}] }

=============================================================================
