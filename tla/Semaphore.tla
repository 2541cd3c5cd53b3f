----------------------------- MODULE Semaphore -----------------------------
(***************************************************************************)
(* The semaphore of smp/semaphore.h.  Every member function runs under a   *)
(* spinlock, so a critical section is one action (module LockedSemaphore,   *)
(* where each statement is a step, implements this one); post notifies     *)
(* after it has unlocked, which is a step of its own, and a wait is        *)
(* entered, left and entered again in several.                             *)
(***************************************************************************)
EXTENDS Integers, FiniteSets

CONSTANTS
  Threads,
  InitialCount,
  Calls,       \* per thread: the member functions it calls
  MaxCalls     \* bound: how many calls each thread makes

ASSUME SemaphoreAssumption ==
  /\ IsFiniteSet(Threads)
  /\ InitialCount \in Nat /\ MaxCalls \in Nat
  /\ Calls \in [Threads -> SUBSET {"post", "post_all", "wait", "try_wait"}]

VARIABLES
  count,     \* permits
  waiters,   \* waiting threads that no post has answered, as the code counts
  pc,        \* per thread: where it is
  calls      \* per thread: calls made

vars == <<count, waiters, pc, calls>>

Labels == {"idle", "post", "notify", "post_all", "wait", "asleep", "woken", "try_wait"}

At(t, label) == pc[t] = label
Goto(t, label) == pc' = [pc EXCEPT ![t] = label]

\* The threads in the loop of wait().
Waiting == {t \in Threads : pc[t] \in {"asleep", "woken"}}

Init ==
  /\ count = InitialCount /\ waiters = 0
  /\ pc = [t \in Threads |-> "idle"]
  /\ calls = [t \in Threads |-> 0]

Call(t, op) ==
  /\ At(t, "idle") /\ calls[t] < MaxCalls /\ op \in Calls[t]
  /\ Goto(t, op) /\ calls' = [calls EXCEPT ![t] = @ + 1]
  /\ UNCHANGED <<count, waiters>>

\* Mutant of PostNobody: the permit is given only if somebody waits.
PostNobodyLost(t) ==
  /\ At(t, "post") /\ waiters = 0 /\ Goto(t, "idle")
  /\ UNCHANGED <<count, waiters, calls>>

\* post with nobody waiting, and post with somebody to notify.
PostNobody(t) ==
  /\ At(t, "post") /\ waiters = 0
  /\ count' = count + 1 /\ Goto(t, "idle") /\ UNCHANGED <<waiters, calls>>

\* Mutant of Post: the waiter that is notified stays counted.
PostUncounted(t) ==
  /\ At(t, "post") /\ waiters > 0
  /\ count' = count + 1 /\ Goto(t, "notify") /\ UNCHANGED <<waiters, calls>>

Post(t) ==
  /\ At(t, "post") /\ waiters > 0
  /\ count' = count + 1 /\ waiters' = waiters - 1
  /\ Goto(t, "notify") /\ UNCHANGED calls

\* cv.notify_one(): one sleeping thread, if there is one, wakes up.
Notify(t) ==
  /\ At(t, "notify")
  /\ LET asleep == {u \in Threads : At(u, "asleep")}
     IN \/ asleep = {} /\ Goto(t, "idle")
        \/ \E u \in asleep : pc' = [pc EXCEPT ![t] = "idle", ![u] = "woken"]
  /\ UNCHANGED <<count, waiters, calls>>

\* Mutant of PostAll: waiters is not reset.
PostAllKeepsWaiters(t) ==
  /\ At(t, "post_all")
  /\ count' = count + waiters
  /\ pc' = [u \in Threads |-> IF u = t THEN "idle"
                              ELSE IF At(u, "asleep") THEN "woken" ELSE pc[u]]
  /\ UNCHANGED <<waiters, calls>>

PostAll(t) ==
  /\ At(t, "post_all")
  /\ count' = count + waiters /\ waiters' = 0
  /\ pc' = [u \in Threads |-> IF u = t THEN "idle"
                              ELSE IF At(u, "asleep") THEN "woken" ELSE pc[u]]
  /\ UNCHANGED calls

\* wait: a permit is there, or the thread counts itself and sleeps.
WaitPasses(t) ==
  /\ At(t, "wait") /\ count > 0
  /\ count' = count - 1 /\ Goto(t, "idle") /\ UNCHANGED <<waiters, calls>>

WaitSleeps(t) ==
  /\ At(t, "wait") /\ count = 0
  /\ waiters' = waiters + 1 /\ Goto(t, "asleep") /\ UNCHANGED <<count, calls>>

\* Mutant of SleepAgain: the thread counts itself again.
SleepAgainCounted(t) ==
  /\ At(t, "woken") /\ count = 0
  /\ waiters' = waiters + 1 /\ Goto(t, "asleep") /\ UNCHANGED <<count, calls>>

\* The while loop around cv.wait: somebody else took the permit.
SleepAgain(t) ==
  /\ At(t, "woken") /\ count = 0
  /\ Goto(t, "asleep") /\ UNCHANGED <<count, waiters, calls>>

\* Mutant of WaitEnds: if instead of while.
WaitEndsUnchecked(t) ==
  /\ At(t, "woken")
  /\ count' = count - 1 /\ Goto(t, "idle") /\ UNCHANGED <<waiters, calls>>

WaitEnds(t) ==
  /\ At(t, "woken") /\ count > 0
  /\ count' = count - 1 /\ Goto(t, "idle") /\ UNCHANGED <<waiters, calls>>

TryWait(t) ==
  /\ At(t, "try_wait")
  /\ count' = IF count > 0 THEN count - 1 ELSE count
  /\ Goto(t, "idle") /\ UNCHANGED <<waiters, calls>>

\* cv.wait may return without a notification.
SpuriousWakeup(t) ==
  /\ At(t, "asleep") /\ Goto(t, "woken") /\ UNCHANGED <<count, waiters, calls>>

Step(t) ==
  \/ PostNobody(t) \/ Post(t) \/ Notify(t) \/ PostAll(t)
  \/ WaitPasses(t) \/ WaitSleeps(t) \/ SleepAgain(t) \/ WaitEnds(t)
  \/ TryWait(t)

Next ==
  \E t \in Threads :
    Step(t) \/ SpuriousWakeup(t) \/ \E op \in Calls[t] : Call(t, op)

Spec == Init /\ [][Next]_vars

----------------------------------------------------------------------------
(* Properties *)

TypeOK ==
  /\ count \in Nat /\ waiters \in Nat
  /\ pc \in [Threads -> Labels]
  /\ calls \in [Threads -> 0 .. MaxCalls]

\* waiters may be too small (a woken thread that finds no permit is not counted
\* again) but never too large: for every counted waiter, and for every permit
\* not taken while there is one, a thread is in the loop of wait().  So post_all
\* never creates a permit that nobody waits for.
WaitersAreWaiting ==
  IF waiters = 0 THEN TRUE ELSE count + waiters <= Cardinality(Waiting)

\* Permits are conserved and waits block only without one: the semaphore implements
\* the abstract one.
Abstract == INSTANCE CountingSemaphore WITH permits <- count, blocked <- Waiting
ImplementsSemaphore == Abstract!Spec

=============================================================================
