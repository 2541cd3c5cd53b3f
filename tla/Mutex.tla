------------------------------- MODULE Mutex -------------------------------
(* A mutual exclusion lock: one owner at a time. *)
CONSTANTS Threads, NoThread

VARIABLE owner

Init == owner = NoThread

Acquire(t) == owner = NoThread /\ owner' = t

Release(t) == owner = t /\ owner' = NoThread

Next == \E t \in Threads : Acquire(t) \/ Release(t)

Spec == Init /\ [][Next]_owner

=============================================================================
