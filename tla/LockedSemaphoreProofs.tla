----------------------- MODULE LockedSemaphoreProofs -----------------------
(***************************************************************************)
(* The semaphore over the spinlock implements the one with atomic critical  *)
(* sections, for any number of threads and calls.                          *)
(***************************************************************************)
EXTENDS LockedSemaphore, TLAPS

\* The flag is set while a thread is between lock and unlock, and one thread is.
Guarded ==
  \A t \in Threads : pc[t] \in Held =>
    flag /\ \A u \in Threads : pc[u] \in Held => u = t

\* What a thread has tested holds until it acts on it.
Tested ==
  \A t \in Threads :
    /\ pc[t] \in {"post_answer", "wait_take", "loop_take", "try_take"} => count > 0
    /\ pc[t] \in {"wait_count", "first_loop"} => count = 0
    /\ pc[t] = "first_loop" => waiters > 0
    /\ pc[t] = "all_notify" => count >= waiters

IInv == TypeOK /\ Guarded /\ Tested

LEMMA InitIInv == Init => IInv
<1> SUFFICES ASSUME Init PROVE IInv
  OBVIOUS
<1>1. flag \in BOOLEAN
  BY DEF Init
<1>2. plan \in [Threads -> SUBSET Operations]
  BY LockedSemaphoreAssumption DEF Init
<1>3. /\ count \in Nat /\ waiters \in Nat
      /\ pc \in [Threads -> Labels] /\ calls \in [Threads -> 0 .. MaxCalls]
      /\ \A t \in Threads : pc[t] = "idle"
  BY LockedSemaphoreAssumption DEF Init, Labels
<1>4. Guarded /\ Tested
  BY <1>3 DEF Guarded, Tested, Held
<1> QED BY <1>1, <1>2, <1>3, <1>4 DEF TypeOK, IInv

LEMMA StepTypeOK ==
  ASSUME IInv, NEW t \in Threads, Step(t)
  PROVE  TypeOK'
<1> USE DEF IInv, TypeOK, Labels, Held, Spinning, Operations, Goto, At, Move
<1>1. CASE Lock(t) BY <1>1 DEF Lock, Entry
<1>2. CASE Unlock(t) BY <1>2 DEF Unlock
<1>3. CASE PostCount(t) BY <1>3 DEF PostCount
<1>4. CASE PostAnswer(t) BY <1>4 DEF PostAnswer
<1>5. CASE Notify(t) BY <1>5 DEF Notify, Asleep
<1>6. CASE AllCount(t) BY <1>6 DEF AllCount
<1>7. CASE AllNotify(t) BY <1>7 DEF AllNotify, Asleep
<1>8. CASE WaitTest(t) BY <1>8 DEF WaitTest
<1>9. CASE WaitCount(t) BY <1>9 DEF WaitCount
<1>10. CASE Loop(t) BY <1>10 DEF Loop
<1>11. CASE Take(t) BY <1>11 DEF Take, Tested
<1>12. CASE TryTest(t) BY <1>12 DEF TryTest
<1> QED BY <1>1, <1>2, <1>3, <1>4, <1>5, <1>6, <1>7, <1>8, <1>9, <1>10, <1>11, <1>12
        DEF Step

LEMMA StepGuarded ==
  ASSUME IInv, NEW t \in Threads, Step(t)
  PROVE  Guarded' /\ Tested'
<1> USE DEF IInv, TypeOK, Guarded, Tested, Labels, Held, Spinning, Operations, Goto, At, Move
<1>1. CASE Lock(t) BY <1>1 DEF Lock, Entry
<1>2. CASE Unlock(t) BY <1>2 DEF Unlock
<1>3. CASE PostCount(t) BY <1>3 DEF PostCount
<1>4. CASE PostAnswer(t) BY <1>4 DEF PostAnswer
<1>5. CASE Notify(t) BY <1>5 DEF Notify, Asleep
<1>6. CASE AllCount(t) BY <1>6 DEF AllCount
<1>7. CASE AllNotify(t) BY <1>7 DEF AllNotify, Asleep
<1>8. CASE WaitTest(t) BY <1>8 DEF WaitTest
<1>9. CASE WaitCount(t) BY <1>9 DEF WaitCount
<1>10. CASE Loop(t) BY <1>10 DEF Loop
<1>11. CASE Take(t) BY <1>11 DEF Take
<1>12. CASE TryTest(t) BY <1>12 DEF TryTest
<1> QED BY <1>1, <1>2, <1>3, <1>4, <1>5, <1>6, <1>7, <1>8, <1>9, <1>10, <1>11, <1>12
        DEF Step

LEMMA NextIInv == IInv /\ [Next]_vars => IInv'
<1> SUFFICES ASSUME IInv, [Next]_vars PROVE IInv'
  OBVIOUS
<1>1. ASSUME NEW t \in Threads, Step(t) PROVE IInv'
  BY <1>1, StepTypeOK, StepGuarded DEF IInv
<1> USE DEF IInv, TypeOK, Guarded, Tested, Labels, Held, Spinning, Operations, Goto, At
<1>2. ASSUME NEW t \in Threads, SpuriousWakeup(t) PROVE IInv'
  BY <1>2 DEF SpuriousWakeup
<1>3. ASSUME NEW t \in Threads, NEW op \in Operations, Call(t, op) PROVE IInv'
  <2>1. TypeOK'
    BY <1>3, LockedSemaphoreAssumption DEF Call
  <2> QED BY <1>3, <2>1 DEF Call
<1>4. CASE UNCHANGED vars
  BY <1>4 DEF vars
<1> QED BY <1>1, <1>2, <1>3, <1>4 DEF Next

\* Type correctness.
THEOREM TypeCorrect == Spec => []TypeOK
<1>1. IInv => TypeOK
  BY DEF IInv
<1> QED BY <1>1, InitIInv, NextIInv, PTL DEF Spec

----------------------------------------------------------------------------
(* The refinement *)

\* The counters of module Semaphore while thread t holds the lock: only t can be
\* halfway through.
LEMMA CountersOfHolder ==
  ASSUME Guarded, NEW t \in Threads, pc[t] \in Held
  PROVE  /\ AtomicCount = IF pc[t] = "post_answer" THEN count - 1
                          ELSE IF pc[t] = "all_notify" THEN count - waiters
                          ELSE count
         /\ AtomicWaiters = IF pc[t] = "first_loop" THEN waiters - 1 ELSE waiters
<1>1. \A label \in Held : Somebody(label) <=> pc[t] = label
  BY DEF Guarded, Somebody, At
<1> QED BY <1>1 DEF AtomicCount, AtomicWaiters, Held

\* The same, after a step.
LEMMA CountersOfHolderNext ==
  ASSUME Guarded', NEW t \in Threads, pc'[t] \in Held
  PROVE  /\ AtomicCount' = IF pc'[t] = "post_answer" THEN count' - 1
                           ELSE IF pc'[t] = "all_notify" THEN count' - waiters'
                           ELSE count'
         /\ AtomicWaiters' = IF pc'[t] = "first_loop" THEN waiters' - 1 ELSE waiters'
<1>1. \A label \in Held : Somebody(label)' <=> pc'[t] = label
  BY DEF Guarded, Somebody, At
<1> QED BY <1>1 DEF AtomicCount, AtomicWaiters, Held

\* And while nobody holds it, before and after a step.
LEMMA CountersOfNobody ==
  /\ (\A t \in Threads : pc[t] \notin Held)
       => AtomicCount = count /\ AtomicWaiters = waiters
  /\ (\A t \in Threads : pc'[t] \notin Held)
       => AtomicCount' = count' /\ AtomicWaiters' = waiters'
BY DEF AtomicCount, AtomicWaiters, Somebody, At, Held

\* A step outside the lock leaves them alone.
LEMMA CountersOutside ==
  ASSUME \A t \in Threads : \A label \in Held : pc'[t] = label <=> pc[t] = label,
         UNCHANGED <<count, waiters>>
  PROVE  AtomicCount' = AtomicCount /\ AtomicWaiters' = AtomicWaiters
<1>1. \A label \in Held : Somebody(label)' <=> Somebody(label)
  BY DEF Somebody, At
<1> QED BY <1>1 DEF AtomicCount, AtomicWaiters, Held

\* A thread that moves to a label moves to that of module Semaphore.
LEMMA AtomicGoto ==
  ASSUME TypeOK, NEW t \in Threads, NEW label, Goto(t, label)
  PROVE  AtomicPc' = [AtomicPc EXCEPT ![t] = AtomicLabel(label)]
BY DEF TypeOK, Goto, AtomicPc

\* Where a thread that does not move is.
LEMMA AtomicStays ==
  ASSUME TypeOK, NEW t \in Threads, NEW label, Goto(t, label),
         AtomicLabel(label) = AtomicPc[t]
  PROVE  AtomicPc' = AtomicPc
BY AtomicGoto DEF AtomicPc

\* Statements that module Semaphore does not see: the lock, and those before the one
\* that stands for the critical section.
LEMMA HiddenSteps ==
  ASSUME IInv, IInv', NEW t \in Threads,
         Lock(t) \/ Unlock(t) \/ PostCount(t) \/ AllCount(t) \/ WaitTest(t) \/ WaitCount(t)
  PROVE  UNCHANGED <<AtomicCount, AtomicWaiters, AtomicPc, calls>>
<1> USE DEF IInv, TypeOK, Move, At
<1>1. CASE Lock(t)
  <2>1. \A u \in Threads : pc[u] \notin Held
    BY <1>1 DEF Lock, Guarded
  <2>2. pc'[t] \in Held \ {"post_answer", "all_notify", "first_loop"}
    BY <1>1 DEF Lock, Goto, Entry, Held
  <2>3. AtomicCount' = AtomicCount /\ AtomicWaiters' = AtomicWaiters
    BY <1>1, <2>1, <2>2, CountersOfNobody, CountersOfHolderNext DEF Lock
  <2>4. AtomicPc' = AtomicPc
    BY <1>1, AtomicStays DEF Lock, Entry, AtomicPc, AtomicLabel, Spinning, Operations
  <2> QED BY <1>1, <2>3, <2>4 DEF Lock
<1>2. CASE Unlock(t)
  <2>1. \A u \in Threads : pc'[u] \notin Held
    BY <1>2 DEF Unlock, Goto, Guarded, Held
  <2>2. pc[t] \in {"unlock", "unlock_notify"}
    BY <1>2 DEF Unlock
  <2>3. AtomicCount' = AtomicCount /\ AtomicWaiters' = AtomicWaiters
    BY <1>2, <2>1, <2>2, CountersOfNobody, CountersOfHolder DEF Unlock, Held
  <2>4. AtomicPc' = AtomicPc
    BY <1>2, AtomicStays DEF Unlock, AtomicPc, AtomicLabel
  <2> QED BY <1>2, <2>3, <2>4 DEF Unlock
<1>3. ASSUME NEW from \in Held, NEW to \in Held, Move(t, from, to),
             AtomicLabel(from) = AtomicLabel(to)
      PROVE  /\ pc[t] = from /\ pc'[t] = to
             /\ AtomicPc' = AtomicPc /\ UNCHANGED calls
  BY <1>3, AtomicStays DEF Goto, AtomicPc
<1>4. CASE PostCount(t)
  BY <1>4, <1>3, CountersOfHolder, CountersOfHolderNext DEF PostCount, AtomicLabel, Held
<1>5. CASE AllCount(t)
  BY <1>5, <1>3, CountersOfHolder, CountersOfHolderNext DEF AllCount, AtomicLabel, Held
<1>6. CASE WaitTest(t)
  BY <1>6, <1>3, CountersOfHolder, CountersOfHolderNext DEF WaitTest, AtomicLabel, Held
<1>7. CASE WaitCount(t)
  BY <1>7, <1>3, CountersOfHolder, CountersOfHolderNext DEF WaitCount, AtomicLabel, Held
<1> QED BY <1>1, <1>2, <1>4, <1>5, <1>6, <1>7

\* The one statement of each critical section that stands for it.
LEMMA VisibleSteps ==
  ASSUME IInv, IInv', NEW t \in Threads,
         PostAnswer(t) \/ AllNotify(t) \/ Loop(t) \/ Take(t) \/ TryTest(t)
  PROVE  Atomic!Step(t) \/ UNCHANGED <<AtomicCount, AtomicWaiters, AtomicPc, calls>>
<1> USE DEF IInv, TypeOK, Move, At, Atomic!At, Atomic!Goto, Atomic!Step
<1>1. CASE PostAnswer(t)
  <2>1. /\ pc[t] = "post_answer" /\ pc[t] \in Held /\ count > 0
        /\ AtomicCount = count - 1 /\ AtomicWaiters = waiters /\ AtomicPc[t] = "post"
    BY <1>1, CountersOfHolder DEF PostAnswer, Held, Tested, AtomicPc, AtomicLabel
  <2>2. CASE waiters > 0
    <3>0. Goto(t, "unlock_notify")
      BY <1>1, <2>2 DEF PostAnswer
    <3>1. pc'[t] = "unlock_notify" /\ AtomicPc' = [AtomicPc EXCEPT ![t] = "notify"]
      BY <3>0, AtomicGoto DEF Goto, AtomicLabel
    <3>2. AtomicCount' = count' /\ AtomicWaiters' = waiters'
      BY <3>1, CountersOfHolderNext DEF Held
    <3>3. Atomic!Post(t)
      BY <1>1, <2>1, <2>2, <3>1, <3>2 DEF PostAnswer, Atomic!Post
    <3> QED BY <3>3
  <2>3. CASE waiters = 0
    <3>0. Goto(t, "unlock")
      BY <1>1, <2>3 DEF PostAnswer
    <3>1. pc'[t] = "unlock" /\ AtomicPc' = [AtomicPc EXCEPT ![t] = "idle"]
      BY <3>0, AtomicGoto DEF Goto, AtomicLabel
    <3>2. AtomicCount' = count' /\ AtomicWaiters' = waiters'
      BY <3>1, CountersOfHolderNext DEF Held
    <3>3. Atomic!PostNobody(t)
      BY <1>1, <2>1, <2>3, <3>1, <3>2 DEF PostAnswer, Atomic!PostNobody
    <3> QED BY <3>3
  <2> QED BY <2>2, <2>3
<1>2. CASE AllNotify(t)
  <2>1. /\ pc[t] = "all_notify" /\ AtomicCount = count - waiters
        /\ AtomicWaiters = waiters /\ AtomicPc[t] = "post_all"
    BY <1>2, CountersOfHolder DEF AllNotify, Held, AtomicPc, AtomicLabel
  <2>2. pc'[t] = "unlock"
    BY <1>2 DEF AllNotify
  <2>3. AtomicCount' = count' /\ AtomicWaiters' = waiters'
    BY <2>2, CountersOfHolderNext DEF Held
  <2>4. \A u \in Threads : AtomicPc[u] = "asleep" <=> u \in Asleep
    BY DEF Asleep, AtomicPc, AtomicLabel, Labels, Held, Spinning, Operations
  <2>5. AtomicPc' = [u \in Threads |-> IF u = t THEN "idle"
                       ELSE IF AtomicPc[u] = "asleep" THEN "woken" ELSE AtomicPc[u]]
    BY <1>2, <2>4 DEF AllNotify, AtomicPc, AtomicLabel
  <2>6. Atomic!PostAll(t)
    BY <1>2, <2>1, <2>3, <2>5 DEF AllNotify, Atomic!PostAll
  <2> QED BY <2>6
<1>3. CASE Loop(t)
  <2>1. /\ pc[t] \in {"first_loop", "loop"} /\ pc[t] \in Held
        /\ AtomicCount = count
        /\ pc[t] = "first_loop" =>
             count = 0 /\ AtomicWaiters = waiters - 1 /\ AtomicPc[t] = "wait"
        /\ pc[t] = "loop" => AtomicWaiters = waiters /\ AtomicPc[t] = "woken"
    BY <1>3, CountersOfHolder DEF Loop, Held, Tested, AtomicPc, AtomicLabel
  <2>2. CASE count = 0
    <3>1. \A u \in Threads : pc'[u] \notin Held
      BY <1>3, <2>1, <2>2 DEF Loop, Goto, Guarded, Held
    <3>2. AtomicCount' = count' /\ AtomicWaiters' = waiters'
      BY <3>1, CountersOfNobody
    <3>3. AtomicPc' = [AtomicPc EXCEPT ![t] = "asleep"]
      BY <1>3, <2>2, AtomicGoto DEF Loop, AtomicLabel
    <3>4. Atomic!WaitSleeps(t) \/ Atomic!SleepAgain(t)
      BY <1>3, <2>1, <2>2, <3>2, <3>3 DEF Loop, Atomic!WaitSleeps, Atomic!SleepAgain
    <3> QED BY <3>4
  <2>3. CASE count # 0
    <3>1. pc[t] = "loop" /\ pc'[t] = "loop_take"
      BY <1>3, <2>1, <2>3 DEF Loop, Goto
    <3>2. AtomicCount' = count' /\ AtomicWaiters' = waiters'
      BY <3>1, CountersOfHolderNext DEF Held
    <3>3. AtomicPc' = AtomicPc
      BY <1>3, <2>1, <2>3, <3>1, AtomicStays DEF Loop, AtomicLabel
    <3> QED BY <1>3, <2>1, <3>1, <3>2, <3>3 DEF Loop
  <2> QED BY <2>2, <2>3
<1>4. CASE Take(t)
  <2>1. /\ pc[t] \in {"wait_take", "loop_take", "try_take"} /\ count > 0
        /\ AtomicCount = count /\ AtomicWaiters = waiters
        /\ pc[t] = "wait_take" => AtomicPc[t] = "wait"
        /\ pc[t] = "loop_take" => AtomicPc[t] = "woken"
        /\ pc[t] = "try_take" => AtomicPc[t] = "try_wait"
    BY <1>4, CountersOfHolder DEF Take, Held, Tested, AtomicPc, AtomicLabel
  <2>2. pc'[t] = "unlock" /\ AtomicPc' = [AtomicPc EXCEPT ![t] = "idle"]
    BY <1>4, AtomicGoto DEF Take, Goto, AtomicLabel
  <2>3. AtomicCount' = count' /\ AtomicWaiters' = waiters'
    BY <2>2, CountersOfHolderNext DEF Held
  <2>4. Atomic!WaitPasses(t) \/ Atomic!WaitEnds(t) \/ Atomic!TryWait(t)
    BY <1>4, <2>1, <2>2, <2>3 DEF Take, Atomic!WaitPasses, Atomic!WaitEnds, Atomic!TryWait
  <2> QED BY <2>4
<1>5. CASE TryTest(t)
  <2>1. /\ pc[t] = "try_test" /\ AtomicCount = count /\ AtomicWaiters = waiters
        /\ AtomicPc[t] = "try_wait"
    BY <1>5, CountersOfHolder DEF TryTest, Held, AtomicPc, AtomicLabel
  <2>2. pc'[t] \in {"try_take", "unlock"}
    BY <1>5 DEF TryTest, Goto
  <2>3. AtomicCount' = count' /\ AtomicWaiters' = waiters'
    BY <2>2, CountersOfHolderNext DEF Held
  <2>4. CASE count > 0
    BY <1>5, <2>1, <2>3, <2>4, AtomicStays DEF TryTest, AtomicLabel
  <2>5. CASE ~(count > 0)
    <3>1. AtomicPc' = [AtomicPc EXCEPT ![t] = "idle"]
      BY <1>5, <2>5, AtomicGoto DEF TryTest, AtomicLabel
    <3>2. Atomic!TryWait(t)
      BY <1>5, <2>1, <2>3, <2>5, <3>1 DEF TryTest, Atomic!TryWait
    <3> QED BY <3>2
  <2> QED BY <2>4, <2>5
<1> QED BY <1>1, <1>2, <1>3, <1>4, <1>5

\* Steps outside the lock: notifications, wakeups and calls.
LEMMA OutsideSteps ==
  ASSUME IInv, IInv', NEW t \in Threads,
         Notify(t) \/ SpuriousWakeup(t) \/ \E op \in Operations : Call(t, op)
  PROVE  \/ Atomic!Step(t) \/ Atomic!SpuriousWakeup(t)
         \/ \E op \in Operations : Atomic!Call(t, op)
<1> USE DEF IInv, TypeOK, At, Atomic!At, Atomic!Goto
<1>1. AtomicCount' = AtomicCount /\ AtomicWaiters' = AtomicWaiters
  <2>1. UNCHANGED <<count, waiters>>
    BY DEF Notify, SpuriousWakeup, Call
  <2>2. \A u \in Threads : \A label \in Held : pc'[u] = label <=> pc[u] = label
    BY DEF Notify, SpuriousWakeup, Call, Goto, Asleep, Held, Operations
  <2> QED BY <2>1, <2>2, CountersOutside
<1>2. \A u \in Threads : AtomicPc[u] = "asleep" <=> u \in Asleep
  BY DEF Asleep, AtomicPc, AtomicLabel, Labels, Held, Spinning, Operations
<1>3. CASE Notify(t)
  <2>1. AtomicPc[t] = "notify" /\ UNCHANGED calls
    BY <1>3 DEF Notify, AtomicPc, AtomicLabel
  <2>2. CASE Asleep = {} /\ Goto(t, "idle")
    <3>1. AtomicPc' = [AtomicPc EXCEPT ![t] = "idle"]
      BY <2>2, AtomicGoto DEF AtomicLabel
    <3> QED BY <1>1, <1>2, <2>1, <2>2, <3>1 DEF Atomic!Notify, Atomic!Step
  <2>3. ASSUME NEW u \in Asleep, pc' = [pc EXCEPT ![t] = "idle", ![u] = "woken"]
        PROVE  Atomic!Notify(t)
    <3>1. AtomicPc' = [AtomicPc EXCEPT ![t] = "idle", ![u] = "woken"]
      BY <2>3 DEF AtomicPc, AtomicLabel, Asleep
    <3> QED BY <1>1, <1>2, <2>1, <2>3, <3>1 DEF Atomic!Notify, Asleep
  <2> QED BY <1>3, <2>2, <2>3 DEF Notify, Atomic!Step
<1>4. CASE SpuriousWakeup(t)
  <2>1. AtomicPc[t] = "asleep" /\ AtomicPc' = [AtomicPc EXCEPT ![t] = "woken"]
    BY <1>4, AtomicGoto DEF SpuriousWakeup, AtomicPc, AtomicLabel
  <2> QED BY <1>1, <1>4, <2>1 DEF SpuriousWakeup, Atomic!SpuriousWakeup
<1>5. ASSUME NEW op \in Operations, Call(t, op)
      PROVE  Atomic!Call(t, op)
  <2>1. AtomicPc[t] = "idle" /\ AtomicPc' = [AtomicPc EXCEPT ![t] = op]
    BY <1>5, AtomicGoto DEF Call, AtomicPc, AtomicLabel, Operations
  <2> QED BY <1>1, <1>5, <2>1 DEF Call, Atomic!Call
<1> QED BY <1>3, <1>4, <1>5

\* Every behaviour of the semaphore over the spinlock is one of the semaphore with
\* atomic critical sections, when its half-finished changes are not counted.
THEOREM RefinesAtomic == Spec => ImplementsAtomic
<1>1. Init => Atomic!Init
  BY DEF Init, Atomic!Init, AtomicCount, AtomicWaiters, AtomicPc, AtomicLabel, Somebody, At
<1>2. IInv /\ IInv' /\ [Next]_vars => [Atomic!Next]_(Atomic!vars)
  <2> SUFFICES ASSUME IInv, IInv', [Next]_vars PROVE [Atomic!Next]_(Atomic!vars)
    OBVIOUS
  <2> USE DEF Atomic!Next, Atomic!vars
  <2>1. ASSUME NEW t \in Threads, Step(t) PROVE [Atomic!Next]_(Atomic!vars)
    BY <2>1, HiddenSteps, VisibleSteps, OutsideSteps DEF Step
  <2>2. ASSUME NEW t \in Threads, SpuriousWakeup(t) \/ \E op \in Operations : Call(t, op)
        PROVE  [Atomic!Next]_(Atomic!vars)
    BY <2>2, OutsideSteps
  <2>3. CASE UNCHANGED vars
    BY <2>3 DEF vars, AtomicCount, AtomicWaiters, AtomicPc, Somebody, At
  <2> QED BY <2>1, <2>2, <2>3 DEF Next
<1> QED
  BY <1>1, <1>2, InitIInv, NextIInv, PTL DEF Spec, ImplementsAtomic, Atomic!Spec

=============================================================================
