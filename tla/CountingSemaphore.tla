------------------------- MODULE CountingSemaphore -------------------------
(***************************************************************************)
(* What a semaphore promises: a permit is taken by one thread, a thread     *)
(* blocks only when there is no permit, and releasing all gives no more     *)
(* permits than there are blocked threads.                                 *)
(***************************************************************************)
EXTENDS Naturals, FiniteSets

CONSTANTS Threads, InitialCount

VARIABLES permits,  \* permits nobody has taken
          blocked   \* the threads waiting for one

Init == permits = InitialCount /\ blocked = {}

Take(t) ==
  /\ permits > 0
  /\ permits' = permits - 1 /\ blocked' = blocked \ {t}

Block(t) ==
  /\ permits = 0 /\ t \notin blocked
  /\ blocked' = blocked \cup {t} /\ UNCHANGED permits

Release == permits' = permits + 1 /\ UNCHANGED blocked

ReleaseAll ==
  /\ permits' \in permits .. permits + Cardinality(blocked)
  /\ UNCHANGED blocked

Next == Release \/ ReleaseAll \/ \E t \in Threads : Take(t) \/ Block(t)

Spec == Init /\ [][Next]_<<permits, blocked>>

=============================================================================
