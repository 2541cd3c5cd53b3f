--------------------------- MODULE SpinlockProofs ---------------------------
(***************************************************************************)
(* Theorems about smp/spinlock.h, for any number of threads.                *)
(***************************************************************************)
EXTENDS Spinlock, TLAPS

\* Type correctness.
THEOREM TypeCorrect == Spec => []TypeOK
<1>1. Init => TypeOK
  <2>1. ASSUME Init PROVE flag \in BOOLEAN
    BY <2>1 DEF Init
  <2>2. ASSUME Init
        PROVE  /\ now \in 0 .. MaxTime
               /\ pc \in [Threads -> Labels]
               /\ when \in [Threads -> 0 .. MaxTime]
               /\ calls \in [Threads -> 0 .. MaxCalls]
    BY <2>2, SpinlockAssumption DEF Init, Labels
  <2> QED BY <2>1, <2>2 DEF TypeOK
<1>2. TypeOK /\ [Next]_vars => TypeOK'
  <2> SUFFICES ASSUME TypeOK, [Next]_vars PROVE TypeOK'
    OBVIOUS
  <2> USE SpinlockAssumption DEF TypeOK, Labels, Goto, At
  <2>1. ASSUME NEW t \in Threads, Call(t) PROVE TypeOK'
    BY <2>1 DEF Call
  <2>2. ASSUME NEW t \in Threads, Step(t) PROVE TypeOK'
    BY <2>2 DEF Step, Lock, TryLock, TryTimed, CheckClock, TestAndSet
  <2>3. ASSUME NEW t \in Threads, Unlock(t) PROVE TypeOK'
    BY <2>3 DEF Unlock
  <2>4. CASE Tick
    BY <2>4 DEF Tick
  <2>5. CASE UNCHANGED vars
    BY <2>5 DEF vars
  <2> QED BY <2>1, <2>2, <2>3, <2>4, <2>5 DEF Next
<1>3. QED BY <1>1, <1>2, PTL DEF Spec

\* A test-and-set hands the lock to the thread that runs it if nobody has it,
\* and leaves it where it is otherwise.
LEMMA TestAndSetGrants ==
  ASSUME TypeOK, MutualExclusion, NEW t \in Threads, NEW from \in Labels,
         NEW miss \in Labels \ {"held"}, from # "held", TestAndSet(t, from, miss)
  PROVE  /\ ~flag => /\ \A u \in Threads : ~At(u, "held")
                     /\ \A u \in Threads : At(u, "held")' <=> u = t
         /\ flag => \A u \in Threads : At(u, "held")' <=> At(u, "held")
         /\ flag'
BY DEF TypeOK, MutualExclusion, TestAndSet, At, Goto

\* At most one thread holds the lock, and the flag is set exactly then.
THEOREM LockExcludes == Spec => []MutualExclusion
<1>1. Init => MutualExclusion
  BY DEF Init, MutualExclusion, At
<1>2. TypeOK /\ MutualExclusion /\ [Next]_vars => MutualExclusion'
  <2> SUFFICES ASSUME TypeOK, MutualExclusion, [Next]_vars PROVE MutualExclusion'
    OBVIOUS
  <2>1. ASSUME NEW t \in Threads, NEW from \in Labels, from # "held",
               NEW miss \in Labels \ {"held"}, TestAndSet(t, from, miss)
        PROVE  MutualExclusion'
    BY <2>1, TestAndSetGrants DEF MutualExclusion
  <2>2. ASSUME NEW t \in Threads, Step(t) PROVE MutualExclusion'
    <3>1. CASE Lock(t) BY <2>1, <3>1 DEF Lock, Labels
    <3>2. CASE TryLock(t) BY <2>1, <3>2 DEF TryLock, Labels
    <3>3. CASE TryTimed(t) BY <2>1, <3>3 DEF TryTimed, Labels
    <3>4. CASE CheckClock(t)
      BY <3>4 DEF CheckClock, MutualExclusion, At, Goto, TypeOK
    <3> QED BY <2>2, <3>1, <3>2, <3>3, <3>4 DEF Step
  <2>3. ASSUME NEW t \in Threads, Unlock(t) PROVE MutualExclusion'
    BY <2>3 DEF Unlock, MutualExclusion, At, Goto, TypeOK
  <2>4. ASSUME NEW t \in Threads, Call(t) PROVE MutualExclusion'
    BY <2>4 DEF Call, MutualExclusion, At, Goto, TypeOK
  <2>5. CASE Tick
    BY <2>5 DEF Tick, MutualExclusion, At
  <2>6. CASE UNCHANGED vars
    BY <2>6 DEF vars, MutualExclusion, At
  <2> QED BY <2>2, <2>3, <2>4, <2>5, <2>6 DEF Next
<1>3. QED BY <1>1, <1>2, TypeCorrect, PTL DEF Spec

\* The owner of the abstract mutex is the thread that holds the lock.
LEMMA OwnerIsHolder ==
  ASSUME MutualExclusion, NEW t \in Threads
  PROVE  (At(t, "held") <=> Owner = t) /\ (~flag <=> Owner = NoThread)
BY SpinlockAssumption DEF MutualExclusion, Owner

\* The spinlock implements a mutex: only a free lock is acquired, only its owner
\* releases it.
THEOREM RefinesMutex == Spec => ImplementsMutex
<1>1. Init => AbstractMutex!Init
  BY DEF Init, Owner, AbstractMutex!Init
<1>2. TypeOK /\ MutualExclusion /\ MutualExclusion' /\ [Next]_vars
        => [AbstractMutex!Next]_Owner
  <2> SUFFICES ASSUME TypeOK, MutualExclusion, MutualExclusion', [Next]_vars
               PROVE  AbstractMutex!Next \/ Owner' = Owner
    OBVIOUS
  <2>1. ASSUME NEW t \in Threads, NEW from \in Labels, from # "held",
               NEW miss \in Labels \ {"held"}, TestAndSet(t, from, miss)
        PROVE  AbstractMutex!Next \/ Owner' = Owner
    <3>1. CASE ~flag
      <4>1. Owner = NoThread
        BY <3>1, OwnerIsHolder, <2>1
      <4>2. flag' /\ \A u \in Threads : At(u, "held")' <=> u = t
        BY <2>1, <3>1, TestAndSetGrants
      <4>3. Owner' = t
        BY <4>2 DEF Owner
      <4> QED BY <4>1, <4>3 DEF AbstractMutex!Next, AbstractMutex!Acquire
    <3>2. CASE flag
      <4>1. flag' /\ \A u \in Threads : At(u, "held")' <=> At(u, "held")
        BY <2>1, <3>2, TestAndSetGrants
      <4>2. PICK u \in Threads : At(u, "held")
        BY <3>2 DEF MutualExclusion
      <4>3. Owner = u
        BY <4>2, OwnerIsHolder
      <4>4. Owner' = u
        BY <4>1, <4>2 DEF Owner, MutualExclusion
      <4> QED BY <4>3, <4>4
    <3> QED BY <3>1, <3>2
  <2>2. ASSUME flag' = flag, \A u \in Threads : At(u, "held")' <=> At(u, "held")
        PROVE  Owner' = Owner
    BY <2>2 DEF Owner, MutualExclusion
  <2>3. ASSUME NEW t \in Threads, Step(t)
        PROVE  AbstractMutex!Next \/ Owner' = Owner
    <3>1. CASE Lock(t) BY <2>1, <3>1 DEF Lock, Labels
    <3>2. CASE TryLock(t) BY <2>1, <3>2 DEF TryLock, Labels
    <3>3. CASE TryTimed(t) BY <2>1, <3>3 DEF TryTimed, Labels
    <3>4. CASE CheckClock(t)
      BY <2>2, <3>4 DEF CheckClock, At, Goto, TypeOK
    <3> QED BY <2>3, <3>1, <3>2, <3>3, <3>4 DEF Step
  <2>4. ASSUME NEW t \in Threads, Unlock(t)
        PROVE  AbstractMutex!Next \/ Owner' = Owner
    <3>1. Owner = t
      BY <2>4, OwnerIsHolder DEF Unlock
    <3>2. Owner' = NoThread
      BY <2>4 DEF Unlock, Owner
    <3> QED BY <3>1, <3>2 DEF AbstractMutex!Next, AbstractMutex!Release
  <2>5. ASSUME NEW t \in Threads, Call(t) PROVE Owner' = Owner
    BY <2>2, <2>5 DEF Call, At, Goto, TypeOK
  <2>6. CASE Tick
    BY <2>2, <2>6 DEF Tick, At
  <2>7. CASE UNCHANGED vars
    BY <2>2, <2>7 DEF vars, At
  <2> QED BY <2>3, <2>4, <2>5, <2>6, <2>7 DEF Next
<1>3. QED
  BY <1>1, <1>2, TypeCorrect, LockExcludes, PTL
     DEF Spec, ImplementsMutex, AbstractMutex!Spec

=============================================================================
