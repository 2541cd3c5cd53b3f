------------------------------ MODULE Spinlock ------------------------------
(***************************************************************************)
(* The spinlock of smp/spinlock.h: an atomic_flag that lock, try_lock and   *)
(* the timed tries test and set and unlock clears.  padded_spinlock         *)
(* forwards every call.  Test-and-set is one step; the timed tries read    *)
(* the clock in a step of their own, between which time goes on.           *)
(***************************************************************************)
EXTENDS Integers, FiniteSets

CONSTANTS
  Threads,
  NoThread,    \* nobody holds the lock
  MaxCalls,    \* bound: how many calls each thread makes
  MaxTime      \* bound: the last tick of the clock

ASSUME SpinlockAssumption ==
  NoThread \notin Threads /\ MaxCalls \in Nat /\ MaxTime \in Nat

VARIABLES
  flag,      \* the atomic_flag
  now,       \* the clock
  pc,        \* per thread: where it is; "held" after a call that took the lock
  when,      \* per thread: the deadline of try_lock_until
  calls      \* per thread: calls made

vars == <<flag, now, pc, when, calls>>

Labels == {"idle", "lock", "try_lock", "until", "try_until", "held"}

At(t, label) == pc[t] = label
Goto(t, label) == pc' = [pc EXCEPT ![t] = label]

Init ==
  /\ flag = FALSE /\ now = 0
  /\ pc = [t \in Threads |-> "idle"]
  /\ when = [t \in Threads |-> 0]
  /\ calls = [t \in Threads |-> 0]

\* lock, try_lock and try_lock_until(d); try_lock_for(d) is the latter with
\* now + d, and d may be zero or negative.
Call(t) ==
  /\ At(t, "idle") /\ calls[t] < MaxCalls
  /\ calls' = [calls EXCEPT ![t] = @ + 1]
  /\ \/ Goto(t, "lock") /\ UNCHANGED when
     \/ Goto(t, "try_lock") /\ UNCHANGED when
     \/ \E d \in 0 .. MaxTime :
          Goto(t, "until") /\ when' = [when EXCEPT ![t] = d]
  /\ UNCHANGED <<flag, now>>

\* Mutant of TestAndSet: the flag is tested, then set.
TestThenSet(t, from, miss) ==
  /\ At(t, from)
  /\ Goto(t, "held")
  /\ flag' = TRUE
  /\ UNCHANGED <<now, when, calls>>

\* flag.test_and_set(): the thread that finds the flag clear holds the lock.
TestAndSet(t, from, miss) ==
  /\ At(t, from)
  /\ Goto(t, IF flag THEN miss ELSE "held")
  /\ flag' = TRUE
  /\ UNCHANGED <<now, when, calls>>

\* Mutant of Lock: lock() returns after the first try.
LockOnce(t) == TestAndSet(t, "lock", "idle")

Lock(t) == TestAndSet(t, "lock", "lock")
TryLock(t) == TestAndSet(t, "try_lock", "idle")
TryTimed(t) == TestAndSet(t, "try_until", "until")

\* Mutant of CheckClock: the deadline is not looked at.
CheckNoClock(t) ==
  /\ At(t, "until") /\ Goto(t, "try_until")
  /\ UNCHANGED <<flag, now, when, calls>>

\* The loop condition of try_lock_until.
CheckClock(t) ==
  /\ At(t, "until")
  /\ Goto(t, IF when[t] > now THEN "try_until" ELSE "idle")
  /\ UNCHANGED <<flag, now, when, calls>>

\* Mutant of Unlock: the flag is not cleared.
UnlockNothing(t) ==
  At(t, "held") /\ Goto(t, "idle") /\ UNCHANGED <<flag, now, when, calls>>

Unlock(t) ==
  At(t, "held") /\ flag' = FALSE /\ Goto(t, "idle") /\ UNCHANGED <<now, when, calls>>

Tick == now < MaxTime /\ now' = now + 1 /\ UNCHANGED <<flag, pc, when, calls>>

\* A thread inside a call.
Step(t) == Lock(t) \/ TryLock(t) \/ TryTimed(t) \/ CheckClock(t)

Next == Tick \/ \E t \in Threads : Call(t) \/ Step(t) \/ Unlock(t)

Spec == Init /\ [][Next]_vars

\* The clock goes on and threads run; an owner may keep the lock for ever.
RunSpec == Spec /\ WF_vars(Tick) /\ \A t \in Threads : WF_vars(Step(t))

OwnersUnlock == \A t \in Threads : WF_vars(Unlock(t))

----------------------------------------------------------------------------
(* Properties *)

TypeOK ==
  /\ flag \in BOOLEAN /\ now \in 0 .. MaxTime
  /\ pc \in [Threads -> Labels]
  /\ when \in [Threads -> 0 .. MaxTime]
  /\ calls \in [Threads -> 0 .. MaxCalls]

\* The flag is set exactly while a thread holds the lock, and only one does.
MutualExclusion ==
  /\ \A t, u \in Threads : At(t, "held") /\ At(u, "held") => t = u
  /\ flag <=> \E t \in Threads : At(t, "held")

\* A timed try comes back once its deadline is past, even if the lock is never
\* released: no call of it spins for ever.
TimedTryReturns ==
  \A t \in Threads :
    [](pc[t] \in {"until", "try_until"} => <>(pc[t] \in {"idle", "held"}))

\* Threads that lock, and unlock what they locked, a bounded number of times all get
\* the lock.
LockIsTaken ==
  OwnersUnlock => \A t \in Threads : [](At(t, "lock") => <>At(t, "held"))

\* The spinlock implements a mutex whose owner is the thread that holds it.
Owner == IF flag THEN CHOOSE t \in Threads : At(t, "held") ELSE NoThread
AbstractMutex == INSTANCE Mutex WITH owner <- Owner
ImplementsMutex == AbstractMutex!Spec

=============================================================================
