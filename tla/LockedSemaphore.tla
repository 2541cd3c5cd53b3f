--------------------------- MODULE LockedSemaphore ---------------------------
(***************************************************************************)
(* The semaphore of smp/semaphore.h over the spinlock of smp/spinlock.h:    *)
(* every access to count and waiters is a step, every test-and-set of the   *)
(* flag is one, and cv.wait gives the lock back and takes it again.  It     *)
(* implements module Semaphore, whose critical sections are one action.     *)
(***************************************************************************)
EXTENDS Integers, FiniteSets

CONSTANTS
  Threads,
  InitialCount,
  Plans,       \* what the threads may call: per thread a set of member functions
  MaxCalls     \* bound: how many calls each thread makes

Operations == {"post", "post_all", "wait", "try_wait"}

ASSUME LockedSemaphoreAssumption ==
  /\ IsFiniteSet(Threads)
  /\ InitialCount \in Nat /\ MaxCalls \in Nat
  /\ Plans \subseteq [Threads -> SUBSET Operations]

VARIABLES
  flag,      \* the spinlock
  count, waiters,
  pc,        \* per thread: the next statement
  calls,     \* per thread: calls made
  plan       \* the plan of this behaviour

vars == <<flag, count, waiters, pc, calls, plan>>

At(t, label) == pc[t] = label
Goto(t, label) == pc' = [pc EXCEPT ![t] = label]

Init ==
  /\ flag = FALSE
  /\ count = InitialCount /\ waiters = 0
  /\ pc = [t \in Threads |-> "idle"]
  /\ calls = [t \in Threads |-> 0]
  /\ plan \in Plans

Call(t, op) ==
  /\ At(t, "idle") /\ calls[t] < MaxCalls /\ op \in plan[t]
  /\ Goto(t, op) /\ calls' = [calls EXCEPT ![t] = @ + 1]
  /\ UNCHANGED <<flag, count, waiters, plan>>

(* The lock *)

\* The threads that spin, and the statement that each reaches with the lock.
Spinning == Operations \cup {"woken"}
Entry(label) ==
  IF label = "post" THEN "post_count"
  ELSE IF label = "post_all" THEN "all_count"
  ELSE IF label = "wait" THEN "wait_test"
  ELSE IF label = "try_wait" THEN "try_test"
  ELSE "loop"

\* Mutant of Lock: the flag is set without a test.
LockUntested(t) ==
  /\ pc[t] \in Spinning
  /\ flag' = TRUE /\ Goto(t, Entry(pc[t]))
  /\ UNCHANGED <<count, waiters, calls, plan>>

\* lock(), by the constructors of the guards and by cv.wait before it returns: one
\* test-and-set that finds the flag clear.  (One that does not changes nothing.)
Lock(t) ==
  /\ pc[t] \in Spinning /\ ~flag
  /\ flag' = TRUE /\ Goto(t, Entry(pc[t]))
  /\ UNCHANGED <<count, waiters, calls, plan>>

\* unlock(), by post itself or by the destructors of the guards
Unlock(t) ==
  /\ \/ At(t, "unlock") /\ Goto(t, "idle")
     \/ At(t, "unlock_notify") /\ Goto(t, "notify")
  /\ flag' = FALSE
  /\ UNCHANGED <<count, waiters, calls, plan>>

(* Statements under the lock: "from" is left for "to". *)

Move(t, from, to) ==
  At(t, from) /\ Goto(t, to) /\ UNCHANGED <<flag, calls, plan>>

PostCount(t) ==
  Move(t, "post_count", "post_answer") /\ count' = count + 1 /\ UNCHANGED waiters

\* if (waiters > 0) { waiters--; ... }
PostAnswer(t) ==
  /\ Move(t, "post_answer", IF waiters > 0 THEN "unlock_notify" ELSE "unlock")
  /\ waiters' = IF waiters > 0 THEN waiters - 1 ELSE waiters
  /\ UNCHANGED count

\* The threads that the notifications wake.
Asleep == {t \in Threads : At(t, "asleep")}

\* Mutant of Notify: the notification is forgotten.
NotifyNobody(t) ==
  /\ At(t, "notify") /\ Goto(t, "idle")
  /\ UNCHANGED <<flag, count, waiters, calls, plan>>

\* cv.notify_one(), without the lock
Notify(t) ==
  /\ At(t, "notify")
  /\ \/ Asleep = {} /\ Goto(t, "idle")
     \/ \E u \in Asleep : pc' = [pc EXCEPT ![t] = "idle", ![u] = "woken"]
  /\ UNCHANGED <<flag, count, waiters, calls, plan>>

AllCount(t) ==
  Move(t, "all_count", "all_notify") /\ count' = count + waiters /\ UNCHANGED waiters

\* waiters = 0; cv.notify_all(), with the lock: the threads it wakes spin
AllNotify(t) ==
  /\ At(t, "all_notify")
  /\ waiters' = 0
  /\ pc' = [u \in Threads |-> IF u = t THEN "unlock"
                              ELSE IF u \in Asleep THEN "woken" ELSE pc[u]]
  /\ UNCHANGED <<flag, count, calls, plan>>

WaitTest(t) ==
  /\ Move(t, "wait_test", IF count > 0 THEN "wait_take" ELSE "wait_count")
  /\ UNCHANGED <<count, waiters>>

WaitCount(t) ==
  Move(t, "wait_count", "first_loop") /\ waiters' = waiters + 1 /\ UNCHANGED count

\* while (count == 0) cv.wait(lock), which unlocks and sleeps in one step for
\* those who notify; "first_loop" before the first sleep, "loop" after a wakeup.
Loop(t) ==
  /\ pc[t] \in {"first_loop", "loop"}
  /\ IF count = 0 THEN flag' = FALSE /\ Goto(t, "asleep")
                  ELSE UNCHANGED flag /\ Goto(t, "loop_take")
  /\ UNCHANGED <<count, waiters, calls, plan>>

\* Mutant of Take: the guard of a wait that ends is not destroyed.
TakeForever(t) ==
  /\ \/ Move(t, "wait_take", "unlock") \/ Move(t, "try_take", "unlock")
     \/ Move(t, "loop_take", "idle")
  /\ count' = count - 1 /\ UNCHANGED waiters

\* count--, of wait in two places and of try_wait
Take(t) ==
  /\ \E label \in {"wait_take", "loop_take", "try_take"} : Move(t, label, "unlock")
  /\ count' = count - 1 /\ UNCHANGED waiters

TryTest(t) ==
  /\ Move(t, "try_test", IF count > 0 THEN "try_take" ELSE "unlock")
  /\ UNCHANGED <<count, waiters>>

SpuriousWakeup(t) ==
  At(t, "asleep") /\ Goto(t, "woken") /\ UNCHANGED <<flag, count, waiters, calls, plan>>

Step(t) ==
  \/ Lock(t) \/ Unlock(t)
  \/ PostCount(t) \/ PostAnswer(t) \/ Notify(t) \/ AllCount(t) \/ AllNotify(t)
  \/ WaitTest(t) \/ WaitCount(t) \/ Loop(t) \/ Take(t) \/ TryTest(t)

Next ==
  \E t \in Threads :
    Step(t) \/ SpuriousWakeup(t) \/ \E op \in Operations : Call(t, op)

Spec == Init /\ [][Next]_vars

\* Every thread runs when it can; wakeups without cause end.
LiveSpec ==
  /\ Spec
  /\ \A t \in Threads : WF_vars(Step(t))
  /\ <>[][\A t \in Threads : ~SpuriousWakeup(t)]_vars

----------------------------------------------------------------------------
(* Properties *)

\* The labels between lock and unlock.
Held ==
  {"post_count", "post_answer", "all_count", "all_notify", "wait_test", "wait_take",
   "wait_count", "first_loop", "loop", "loop_take", "try_test", "try_take",
   "unlock", "unlock_notify"}
Labels == Held \cup Spinning \cup {"idle", "notify", "asleep"}

TypeOK ==
  /\ flag \in BOOLEAN /\ count \in Nat /\ waiters \in Nat
  /\ pc \in [Threads -> Labels]
  /\ calls \in [Threads -> 0 .. MaxCalls]
  /\ plan \in [Threads -> SUBSET Operations]

\* Where the threads of module Semaphore are, and its two counters, which it changes
\* at once: they differ from these while a thread is halfway through.
AtomicLabel(label) ==
  IF label \in {"post_count", "post_answer"} THEN "post"
  ELSE IF label = "unlock_notify" THEN "notify"
  ELSE IF label \in {"all_count", "all_notify"} THEN "post_all"
  ELSE IF label \in {"wait_test", "wait_take", "wait_count", "first_loop"} THEN "wait"
  ELSE IF label \in {"loop", "loop_take"} THEN "woken"
  ELSE IF label \in {"try_test", "try_take"} THEN "try_wait"
  ELSE IF label = "unlock" THEN "idle"
  ELSE label
AtomicPc == [t \in Threads |-> AtomicLabel(pc[t])]
Somebody(label) == \E t \in Threads : At(t, label)
AtomicCount ==
  IF Somebody("post_answer") THEN count - 1
  ELSE IF Somebody("all_notify") THEN count - waiters
  ELSE count
AtomicWaiters == IF Somebody("first_loop") THEN waiters - 1 ELSE waiters

\* The statements between lock and unlock cannot be told from one atomic step each,
\* although cv.wait opens the lock in the middle of wait and post notifies without it.
Atomic == INSTANCE Semaphore
            WITH count <- AtomicCount, waiters <- AtomicWaiters, pc <- AtomicPc,
                 Calls <- [t \in Threads |-> Operations]
ImplementsAtomic == Atomic!Spec

\* A thread in wait gets through if permits stay available.
WaitersAreServed ==
  \A t \in Threads : []<>(AtomicCount = 0 \/ t \notin Atomic!Waiting)

\* That holds down to the test-and-sets it loses when one thread waits and the others
\* post: then the permit that a notification stands for is still there.
OneWaits == \E w \in Threads : \A t \in Threads :
  plan[t] = IF t = w THEN {"wait"} ELSE {"post", "post_all"}
OneWaiterIsServed == OneWaits => WaitersAreServed

\* Nobody is kept from the lock for ever: a thread in a call comes back from it, or
\* sleeps in wait.
CallsEnd ==
  \A t \in Threads : [](~At(t, "idle") => <>(At(t, "idle") \/ At(t, "asleep")))

=============================================================================
