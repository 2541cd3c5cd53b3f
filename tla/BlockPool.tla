----------------------------- MODULE BlockPool -----------------------------
(***************************************************************************)
(* What an allocator of blocks promises: a block is handed out to one       *)
(* client at a time, and memory in use is never given back to the system.  *)
(***************************************************************************)
EXTENDS Naturals

CONSTANT Blocks

VARIABLES used,    \* per block: how many clients hold it
          backed   \* the blocks that lie in memory the allocator owns

InUse == {b \in Blocks : used[b] > 0}

Init == used = [b \in Blocks |-> 0] /\ backed \in SUBSET Blocks

Allocate(b) ==
  /\ used[b] = 0 /\ b \in backed'
  /\ used' = [used EXCEPT ![b] = 1] /\ backed \subseteq backed'

Deallocate(b) ==
  /\ used[b] = 1
  /\ used' = [used EXCEPT ![b] = 0]
  /\ backed' \subseteq backed /\ InUse \ {b} \subseteq backed'

\* Memory no block of which is in use goes back to the system.
Trim == InUse \subseteq backed' /\ backed' \subseteq backed /\ UNCHANGED used

Next == Trim \/ \E b \in Blocks : Allocate(b) \/ Deallocate(b)

Spec == Init /\ [][Next]_<<used, backed>>

=============================================================================
