-------------------------- MODULE SemaphoreProofs --------------------------
(***************************************************************************)
(* Theorems about smp/semaphore.h, for any number of threads and calls.     *)
(***************************************************************************)
EXTENDS Semaphore, FiniteSetTheorems, TLAPS

\* Type correctness.
THEOREM TypeCorrect == Spec => []TypeOK
<1>1. Init => TypeOK
  BY SemaphoreAssumption DEF Init, TypeOK, Labels
<1>2. TypeOK /\ [Next]_vars => TypeOK'
  <2> SUFFICES ASSUME TypeOK, [Next]_vars PROVE TypeOK'
    OBVIOUS
  <2> USE SemaphoreAssumption DEF TypeOK, Labels, Goto, At
  <2>1. ASSUME NEW t \in Threads, Step(t) PROVE TypeOK'
    <3>1. CASE PostNobody(t) BY <3>1 DEF PostNobody
    <3>2. CASE Post(t) BY <3>2 DEF Post
    <3>3. CASE Notify(t) BY <3>3 DEF Notify
    <3>4. CASE PostAll(t) BY <3>4 DEF PostAll
    <3>5. CASE WaitPasses(t) BY <3>5 DEF WaitPasses
    <3>6. CASE WaitSleeps(t) BY <3>6 DEF WaitSleeps
    <3>7. CASE SleepAgain(t) BY <3>7 DEF SleepAgain
    <3>8. CASE WaitEnds(t) BY <3>8 DEF WaitEnds
    <3>9. CASE TryWait(t) BY <3>9 DEF TryWait
    <3> QED
      BY <2>1, <3>1, <3>2, <3>3, <3>4, <3>5, <3>6, <3>7, <3>8, <3>9 DEF Step
  <2>2. ASSUME NEW t \in Threads, SpuriousWakeup(t) PROVE TypeOK'
    BY <2>2 DEF SpuriousWakeup
  <2>3. ASSUME NEW t \in Threads, NEW op \in Calls[t], Call(t, op) PROVE TypeOK'
    BY <2>3 DEF Call
  <2>4. CASE UNCHANGED vars
    BY <2>4 DEF vars
  <2> QED BY <2>1, <2>2, <2>3, <2>4 DEF Next
<1>3. QED BY <1>1, <1>2, PTL DEF Spec

\* The threads in wait() can be counted.
LEMMA WaitingIsFinite ==
  ASSUME TypeOK
  PROVE  IsFiniteSet(Waiting) /\ Cardinality(Waiting) \in Nat
BY SemaphoreAssumption, FS_Subset, FS_CardinalityType DEF Waiting

\* Entering the loop adds one thread to the waiting ones, leaving it removes one.
LEMMA EnterAndLeave ==
  ASSUME TypeOK, NEW t \in Threads
  PROVE  /\ (t \notin Waiting /\ Waiting' = Waiting \cup {t})
              => Cardinality(Waiting') = Cardinality(Waiting) + 1
         /\ (t \in Waiting /\ Waiting' = Waiting \ {t})
              => Cardinality(Waiting') = Cardinality(Waiting) - 1
BY WaitingIsFinite, FS_AddElement, FS_RemoveElement

\* No step changes the loop but the entry and the exit of wait().
LEMMA WaitingSteps ==
  ASSUME TypeOK, NEW t \in Threads
  PROVE  /\ WaitSleeps(t) => t \notin Waiting /\ Waiting' = Waiting \cup {t}
         /\ WaitEnds(t) => t \in Waiting /\ Waiting' = Waiting \ {t}
         /\ (\/ PostNobody(t) \/ Post(t) \/ Notify(t) \/ PostAll(t)
             \/ WaitPasses(t) \/ SleepAgain(t) \/ TryWait(t)
             \/ SpuriousWakeup(t) \/ \E op \in Calls[t] : Call(t, op))
              => Waiting' = Waiting
<1> USE SemaphoreAssumption DEF TypeOK, Waiting, At, Goto, Labels
<1>1. WaitSleeps(t) => t \notin Waiting /\ Waiting' = Waiting \cup {t}
  BY DEF WaitSleeps
<1>2. WaitEnds(t) => t \in Waiting /\ Waiting' = Waiting \ {t}
  BY DEF WaitEnds
<1>3. PostNobody(t) => Waiting' = Waiting BY DEF PostNobody
<1>4. Post(t) => Waiting' = Waiting BY DEF Post
<1>5. Notify(t) => Waiting' = Waiting BY DEF Notify
<1>6. PostAll(t) => Waiting' = Waiting BY DEF PostAll
<1>7. WaitPasses(t) => Waiting' = Waiting BY DEF WaitPasses
<1>8. SleepAgain(t) => Waiting' = Waiting BY DEF SleepAgain
<1>9. TryWait(t) => Waiting' = Waiting BY DEF TryWait
<1>10. SpuriousWakeup(t) => Waiting' = Waiting BY DEF SpuriousWakeup
<1>11. ASSUME NEW op \in Calls[t], Call(t, op) PROVE Waiting' = Waiting
  BY <1>11 DEF Call
<1> QED
  BY <1>1, <1>2, <1>3, <1>4, <1>5, <1>6, <1>7, <1>8, <1>9, <1>10, <1>11

\* Every counted waiter, and every permit left while there is one, has a thread
\* of its own in the loop of wait(): stolen permits, spurious wakeups and any
\* mix of post and post_all included.
THEOREM CountedWaitersWait == Spec => []WaitersAreWaiting
<1>1. Init => WaitersAreWaiting
  BY DEF Init, WaitersAreWaiting
<1>2. TypeOK /\ WaitersAreWaiting /\ [Next]_vars => WaitersAreWaiting'
  <2> SUFFICES ASSUME TypeOK, WaitersAreWaiting, [Next]_vars
               PROVE  WaitersAreWaiting'
    OBVIOUS
  <2> DEFINE n == Cardinality(Waiting)
  <2>1. n \in Nat /\ count \in Nat /\ waiters \in Nat
    BY WaitingIsFinite DEF TypeOK
  <2>2. ASSUME NEW t \in Threads, Step(t) PROVE WaitersAreWaiting'
    <3>1. CASE PostNobody(t) BY <3>1 DEF PostNobody, WaitersAreWaiting
    <3>2. CASE Post(t)
      BY <2>1, <3>2, WaitingSteps DEF Post, WaitersAreWaiting
    <3>3. CASE Notify(t)
      BY <3>3, WaitingSteps DEF Notify, WaitersAreWaiting
    <3>4. CASE PostAll(t) BY <3>4 DEF PostAll, WaitersAreWaiting
    <3>5. CASE WaitPasses(t)
      BY <2>1, <3>5, WaitingSteps DEF WaitPasses, WaitersAreWaiting
    <3>6. CASE WaitSleeps(t)
      <4>1. n' = n + 1
        BY <3>6, WaitingSteps, EnterAndLeave
      <4> QED BY <2>1, <3>6, <4>1 DEF WaitSleeps, WaitersAreWaiting
    <3>7. CASE SleepAgain(t)
      BY <3>7, WaitingSteps DEF SleepAgain, WaitersAreWaiting
    <3>8. CASE WaitEnds(t)
      <4>1. n' = n - 1
        BY <3>8, WaitingSteps, EnterAndLeave
      <4> QED BY <2>1, <3>8, <4>1 DEF WaitEnds, WaitersAreWaiting
    <3>9. CASE TryWait(t)
      BY <2>1, <3>9, WaitingSteps DEF TryWait, WaitersAreWaiting
    <3> QED
      BY <2>2, <3>1, <3>2, <3>3, <3>4, <3>5, <3>6, <3>7, <3>8, <3>9 DEF Step
  <2>3. ASSUME NEW t \in Threads, SpuriousWakeup(t) PROVE WaitersAreWaiting'
    BY <2>3, WaitingSteps DEF SpuriousWakeup, WaitersAreWaiting
  <2>4. ASSUME NEW t \in Threads, NEW op \in Calls[t], Call(t, op)
        PROVE  WaitersAreWaiting'
    BY <2>4, WaitingSteps DEF Call, WaitersAreWaiting
  <2>5. CASE UNCHANGED vars
    BY <2>5 DEF vars, WaitersAreWaiting, Waiting
  <2> QED BY <2>2, <2>3, <2>4, <2>5 DEF Next
<1>3. QED BY <1>1, <1>2, TypeCorrect, PTL DEF Spec

\* The semaphore implements the abstract counting semaphore: in particular
\* post_all gives no more permits than there are blocked threads.
THEOREM RefinesCountingSemaphore == Spec => ImplementsSemaphore
<1>1. Init => Abstract!Init
  BY DEF Init, Abstract!Init, Waiting
<1>2. TypeOK /\ WaitersAreWaiting /\ [Next]_vars
        => [Abstract!Next]_<<count, Waiting>>
  <2> SUFFICES ASSUME TypeOK, WaitersAreWaiting, [Next]_vars
               PROVE  Abstract!Next \/ UNCHANGED <<count, Waiting>>
    OBVIOUS
  <2>1. ASSUME NEW t \in Threads, Step(t)
        PROVE  Abstract!Next \/ UNCHANGED <<count, Waiting>>
    <3>1. CASE PostNobody(t)
      BY <3>1, WaitingSteps DEF PostNobody, Abstract!Next, Abstract!Release
    <3>2. CASE Post(t)
      BY <3>2, WaitingSteps DEF Post, Abstract!Next, Abstract!Release
    <3>3. CASE Notify(t)
      BY <3>3, WaitingSteps DEF Notify
    <3>4. CASE PostAll(t)
      <4>1. count' \in count .. count + Cardinality(Waiting)
        BY <3>4, WaitingIsFinite DEF PostAll, WaitersAreWaiting, TypeOK
      <4>2. Waiting' = Waiting
        BY <3>4, WaitingSteps
      <4>3. Abstract!Cardinality(Waiting) = Cardinality(Waiting)
        BY DEF Abstract!Cardinality, Cardinality
      <4> QED BY <4>1, <4>2, <4>3 DEF Abstract!Next, Abstract!ReleaseAll
    <3>5. CASE WaitPasses(t)
      <4>1. Waiting' = Waiting \ {t}
        BY <3>5, WaitingSteps DEF WaitPasses, Waiting, At
      <4> QED BY <3>5, <4>1 DEF WaitPasses, Abstract!Next, Abstract!Take
    <3>6. CASE WaitSleeps(t)
      BY <3>6, WaitingSteps DEF WaitSleeps, Abstract!Next, Abstract!Block
    <3>7. CASE SleepAgain(t)
      BY <3>7, WaitingSteps DEF SleepAgain
    <3>8. CASE WaitEnds(t)
      BY <3>8, WaitingSteps DEF WaitEnds, Abstract!Next, Abstract!Take
    <3>9. CASE TryWait(t)
      <4>1. Waiting' = Waiting /\ Waiting = Waiting \ {t}
        BY <3>9, WaitingSteps DEF TryWait, Waiting, At
      <4> QED BY <3>9, <4>1 DEF TryWait, Abstract!Next, Abstract!Take
    <3> QED
      BY <2>1, <3>1, <3>2, <3>3, <3>4, <3>5, <3>6, <3>7, <3>8, <3>9 DEF Step
  <2>2. ASSUME NEW t \in Threads, SpuriousWakeup(t)
        PROVE  UNCHANGED <<count, Waiting>>
    BY <2>2, WaitingSteps DEF SpuriousWakeup
  <2>3. ASSUME NEW t \in Threads, NEW op \in Calls[t], Call(t, op)
        PROVE  UNCHANGED <<count, Waiting>>
    BY <2>3, WaitingSteps DEF Call
  <2>4. CASE UNCHANGED vars
    BY <2>4 DEF vars, Waiting
  <2> QED BY <2>1, <2>2, <2>3, <2>4 DEF Next
<1>3. QED
  BY <1>1, <1>2, TypeCorrect, CountedWaitersWait, PTL
     DEF Spec, ImplementsSemaphore, Abstract!Spec

=============================================================================
