---------------------------- MODULE MCSemaphore ----------------------------
(* Instances of Semaphore for TLC. *)
EXTENDS Semaphore, TLC

CONSTANTS t1, t2, t3, t4

AnyCall == [t \in Threads |-> {"post", "post_all", "wait", "try_wait"}]

Symmetry == Permutations(Threads)

=============================================================================
