----------------------- MODULE SharedSingletonProofs -----------------------
(***************************************************************************)
(* Theorems about util/shared_singleton.h, for any number of threads and    *)
(* calls, with constructors that may throw.                                 *)
(***************************************************************************)
EXTENDS SharedSingleton, TLAPS

\* Type correctness.
THEOREM TypeCorrect == Spec => []TypeOK
<1>1. ASSUME Init PROVE TypeOK
  <2>1. dead \in BOOLEAN /\ live \in BOOLEAN
    BY <1>1 DEF Init
  <2>2. /\ lock \in Threads \cup {NoThread}
        /\ data \in Nat \cup {Nothing} /\ made \in Nat
        /\ temp \in [Threads -> Nat \cup {Nothing}]
        /\ holds \in [Threads -> Nat \cup {Nothing}]
        /\ pc \in [Threads -> Labels]
        /\ calls \in [Threads -> 0 .. MaxCalls]
    BY <1>1, SingletonAssumption DEF Init, Labels
  <2> QED BY <2>1, <2>2 DEF TypeOK
<1>2. TypeOK /\ [Next]_vars => TypeOK'
  <2> SUFFICES ASSUME TypeOK, [Next]_vars PROVE TypeOK'
    OBVIOUS
  <2> USE SingletonAssumption DEF TypeOK, Labels, Goto, At
  <2>1. ASSUME NEW t \in Threads, Get(t) PROVE TypeOK'
    BY <2>1 DEF Get
  <2>2. ASSUME NEW t \in Threads, Step(t) PROVE TypeOK'
    <3>1. CASE Test(t) BY <3>1 DEF Test
    <3>2. CASE Lock(t) BY <3>2 DEF Lock
    <3>3. CASE TestAgain(t) BY <3>3 DEF TestAgain
    <3>4. CASE New(t) BY <3>4 DEF New
    <3>5. CASE NewFails(t) BY <3>5 DEF NewFails
    <3>6. CASE Place(t) BY <3>6 DEF Place
    <3>7. CASE SetAlive(t) BY <3>7 DEF SetAlive
    <3>8. CASE Unlock(t) BY <3>8 DEF Unlock
    <3>9. CASE Copy(t) BY <3>9 DEF Copy
    <3> QED
      BY <2>2, <3>1, <3>2, <3>3, <3>4, <3>5, <3>6, <3>7, <3>8, <3>9 DEF Step
  <2>3. CASE Destroy BY <2>3 DEF Destroy
  <2>4. CASE UNCHANGED vars BY <2>4 DEF vars
  <2> QED BY <2>1, <2>2, <2>3, <2>4 DEF Next
<1>3. QED BY <1>1, <1>2, PTL DEF Spec

\* The inductive invariant: one thread inside, the flag cleared last.
THEOREM SingletonInvariance == Spec => []SingletonInv
<1>1. Init => SingletonInv
  BY DEF Init, SingletonInv, Inside, At
<1>2. TypeOK /\ SingletonInv /\ [Next]_vars => SingletonInv'
  <2> SUFFICES ASSUME TypeOK, SingletonInv, [Next]_vars PROVE SingletonInv'
    OBVIOUS
  <2> USE SingletonAssumption DEF TypeOK, Labels, Goto, At, SingletonInv, Inside
  <2>1. ASSUME NEW t \in Threads, Get(t) PROVE SingletonInv'
    BY <2>1 DEF Get
  <2>2. ASSUME NEW t \in Threads, Step(t) PROVE SingletonInv'
    <3>1. CASE Test(t) BY <3>1 DEF Test
    <3>2. CASE Lock(t) BY <3>2 DEF Lock
    <3>3. CASE TestAgain(t) BY <3>3 DEF TestAgain
    <3>4. CASE New(t) BY <3>4 DEF New
    <3>5. CASE NewFails(t) BY <3>5 DEF NewFails
    <3>6. CASE Place(t) BY <3>6 DEF Place
    <3>7. CASE SetAlive(t) BY <3>7 DEF SetAlive
    <3>8. CASE Unlock(t) BY <3>8 DEF Unlock
    <3>9. CASE Copy(t) BY <3>9 DEF Copy
    <3> QED
      BY <2>2, <3>1, <3>2, <3>3, <3>4, <3>5, <3>6, <3>7, <3>8, <3>9 DEF Step
  <2>3. CASE Destroy BY <2>3 DEF Destroy
  <2>4. CASE UNCHANGED vars BY <2>4 DEF vars
  <2> QED BY <2>1, <2>2, <2>3, <2>4 DEF Next
<1>3. QED BY <1>1, <1>2, TypeCorrect, PTL DEF Spec

\* One object is made and it is not lost.
THEOREM MakesOneObject == Spec => []OneObject
<1>1. SingletonInv => OneObject
  BY DEF SingletonInv, OneObject, At
<1> QED BY <1>1, SingletonInvariance, PTL

\* Every get() returns that object.
THEOREM ReturnsTheObject == Spec => []GetReturnsObject
<1>1. SingletonInv => GetReturnsObject
  BY DEF SingletonInv, GetReturnsObject, At
<1> QED BY <1>1, SingletonInvariance, PTL

\* What the lock-free test relies on: a published pointer does not change.
THEOREM PublishedDoesNotChange == Spec => PublishedIsStable
<1>1. TypeOK /\ SingletonInv /\ [Next]_vars
        => [~dead /\ live' => ~dead' /\ data # Nothing /\ data' = data]_vars
  <2> SUFFICES ASSUME TypeOK, SingletonInv, Next, ~dead, live'
               PROVE  ~dead' /\ data # Nothing /\ data' = data
    OBVIOUS
  <2>1. data = 0 /\ live
    BY DEF SingletonInv, Next, Destroy, Get, Step, Test, Lock, TestAgain, New,
           NewFails, Place, SetAlive, Unlock, Copy
  <2>2. ASSUME NEW t \in Threads, Get(t) \/ Step(t)
        PROVE  ~dead' /\ data' = data
    <3>1. CASE Place(t)
      BY <3>1 DEF Place, SingletonInv, At
    <3>2. CASE SetAlive(t)
      BY <3>2 DEF SetAlive, SingletonInv, At
    <3>3. CASE Get(t) \/ Test(t) \/ Lock(t) \/ TestAgain(t)
      <4>1. UNCHANGED <<dead, data>>
        BY <3>3 DEF Get, Test, Lock, TestAgain
      <4> QED BY <4>1
    <3>4. CASE New(t) \/ NewFails(t) \/ Unlock(t) \/ Copy(t)
      <4>1. UNCHANGED <<dead, data>>
        BY <3>4 DEF New, NewFails, Unlock, Copy
      <4> QED BY <4>1
    <3> QED BY <2>2, <3>1, <3>2, <3>3, <3>4 DEF Step
  <2>3. CASE Destroy
    BY <2>3 DEF Destroy
  <2> QED BY <2>1, <2>2, <2>3, SingletonAssumption DEF Next
<1> QED
  BY <1>1, TypeCorrect, SingletonInvariance, PTL DEF Spec, PublishedIsStable

=============================================================================
