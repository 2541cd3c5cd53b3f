----------------------- MODULE ConcurrentQueueProofs -----------------------
(***************************************************************************)
(* Theorems about the queue of fifo/concurrent_queue.h, for every capacity, *)
(* every set of threads and every counter width.                           *)
(***************************************************************************)
EXTENDS ConcurrentQueue, FiniteSetTheorems, SequenceTheorems, TLAPS

----------------------------------------------------------------------------
(* The remainder: (i + 1) % N walks round the ring, and N consecutive tickets have  *)
(* N different slots.                                                               *)

\* What a \div n and a % n are.
LEMMA DivMod ==
  ASSUME NEW a \in Nat, NEW n \in Nat \ {0}
  PROVE  /\ a \div n \in Nat /\ a % n \in 0 .. n-1
         /\ a = n * (a \div n) + (a % n)
BY Z3

\* The remainder is unique.
LEMMA ModUnique ==
  ASSUME NEW a \in Nat, NEW n \in Nat \ {0}, NEW q \in Nat, NEW r \in 0 .. n-1,
         a = n * q + r
  PROVE  a % n = r
BY Z3

\* Two different tickets less than n apart have different slots.
LEMMA ModDiffers ==
  ASSUME NEW a \in Nat, NEW b \in Nat, NEW n \in Nat \ {0}, a < b, b < a + n
  PROVE  a % n # b % n
<1> DEFINE q == a \div n
           r == b \div n
<1>1. /\ a = n * q + (a % n) /\ b = n * r + (b % n)
      /\ q \in Nat /\ r \in Nat /\ a % n \in Nat
  BY DivMod
<1>2. SUFFICES ASSUME (a % n) = (b % n) PROVE FALSE
  OBVIOUS
<1>3. b - a = n * (r - q)
  BY <1>1, <1>2
<1>4. n * (r - q) > 0 /\ n * (r - q) < n
  BY <1>3
<1>5. CASE r - q <= 0
  BY <1>4, <1>5, <1>1
<1>6. CASE r - q >= 1
  <2>1. n * (r - q) >= n
    BY <1>6, <1>1
  <2> QED BY <2>1, <1>4, <1>1
<1> QED BY <1>5, <1>6, <1>1

\* The index after the slot of ticket a is the slot of ticket a + 1.
LEMMA ModSucc ==
  ASSUME NEW a \in Nat, NEW n \in Nat \ {0}
  PROVE  ((a % n) + 1) % n = (a + 1) % n
<1> DEFINE q == a \div n
           r == a % n
<1>1. a = n * q + r /\ q \in Nat /\ r \in 0 .. n-1
  BY DivMod
<1> HIDE DEF q, r
<1>2. CASE r + 1 < n
  <2>1. (r + 1) % n = r + 1
    BY <1>1, <1>2
  <2>2. (a + 1) % n = r + 1
    <3>1. a + 1 = n * q + (r + 1)
      BY <1>1
    <3> QED BY <3>1, ModUnique, <1>1, <1>2
  <2> QED BY <2>1, <2>2 DEF r
<1>3. CASE r + 1 = n
  <2>1. (r + 1) % n = 0
    BY <1>1, <1>3
  <2>2. (a + 1) % n = 0
    <3>1. a + 1 = n * (q + 1) + 0
      BY <1>1, <1>3
    <3> QED BY <3>1, ModUnique, <1>1
  <2> QED BY <2>1, <2>2 DEF r
<1> QED BY <1>1, <1>2, <1>3

\* The slots from ticket a to ticket b are those from a's to b's, round the ring, if
\* there are fewer than n of them.
LEMMA RingRange ==
  ASSUME NEW n \in Nat \ {0}, NEW a \in Nat, NEW b \in Nat, NEW k \in Nat,
         a <= k, k < b, b < a + n
  PROVE  IF a % n <= b % n THEN a % n <= k % n /\ k % n < b % n
                           ELSE a % n <= k % n \/ k % n < b % n
<1> DEFINE q == a \div n
           h == a % n
<1>1. a = n * q + h /\ q \in Nat /\ h \in 0 .. n-1
  BY DivMod
<1> HIDE DEF q, h
<1>2. n * q \in Nat /\ n * (q + 1) = n * q + n
  BY <1>1, Z3
<1>3. ASSUME NEW x \in Nat, a <= x, x < n * q + n
      PROVE  x % n = x - n * q
  <2> DEFINE r == x - n * q
  <2>1. r \in 0 .. n-1 /\ x = n * q + r
    BY <1>1, <1>2, <1>3
  <2> HIDE DEF r
  <2>2. x % n = r
    BY <1>1, <2>1, ModUnique
  <2> QED BY <2>2 DEF r
<1>4. ASSUME NEW x \in Nat, n * q + n <= x, x < a + n
      PROVE  x % n = x - n * q - n
  <2> DEFINE r == x - n * q - n
  <2>1. r \in 0 .. n-1 /\ x = n * (q + 1) + r /\ q + 1 \in Nat
    BY <1>1, <1>2, <1>4
  <2> HIDE DEF r
  <2>2. x % n = r
    BY <2>1, ModUnique
  <2> QED BY <2>2 DEF r
<1>5. a % n = a - n * q
  BY <1>1, <1>2, <1>3
<1>6. k % n = IF k < n * q + n THEN k - n * q ELSE k - n * q - n
  BY <1>2, <1>3, <1>4
<1>7. b % n = IF b < n * q + n THEN b - n * q ELSE b - n * q - n
  BY <1>2, <1>3, <1>4
<1> QED BY <1>1, <1>2, <1>5, <1>6, <1>7

\* n tickets in a row have all slots, and the next one has the first of them again.
LEMMA RingCovered ==
  ASSUME NEW n \in Nat \ {0}, NEW a \in Nat
  PROVE  /\ (a + n) % n = a % n
         /\ \A i \in 0 .. n-1 : \E k \in a .. a + n - 1 : k % n = i
<1> DEFINE q == a \div n
           h == a % n
<1>1. a = n * q + h /\ q \in Nat /\ h \in 0 .. n-1
  BY DivMod
<1> HIDE DEF q, h
<1>2. n * q \in Nat /\ n * (q + 1) = n * q + n
  BY <1>1, Z3
<1>3. (a + n) % n = h
  <2>1. a + n = n * (q + 1) + h
    BY <1>1, <1>2
  <2> QED BY <1>1, <2>1, ModUnique
<1>4. ASSUME NEW i \in 0 .. n-1 PROVE \E k \in a .. a + n - 1 : k % n = i
  <2>1. (n * q + i) % n = i /\ (n * (q + 1) + i) % n = i
    BY <1>1, <1>2, ModUnique
  <2>2. CASE h <= i
    <3>1. n * q + i \in a .. a + n - 1
      BY <1>1, <1>2, <2>2
    <3> QED BY <2>1, <3>1
  <2>3. CASE i < h
    <3>1. n * (q + 1) + i \in a .. a + n - 1
      BY <1>1, <1>2, <2>3
    <3> QED BY <2>1, <3>1
  <2> QED BY <2>2, <2>3, <1>1
<1> QED BY <1>3, <1>4 DEF h

----------------------------------------------------------------------------
(* Types *)

\* The indices stay inside the ring: increment_index wraps at N.
LEMMA NextIndexInSlots ==
  ASSUME NEW i \in Slots
  PROVE  NextIndex(i) \in Slots
BY QueueAssumption DEF Slots, NextIndex

\* Type correctness of every discipline, torn or throwing: every index stays
\* inside the ring and every counter inside size_t.
THEOREM TypeCorrect == Spec => []TypeOK
<1>1. Init => TypeOK
  BY QueueAssumption DEF Init, TypeOK, Slots, Labels
<1>2. TypeOK /\ [Next]_vars => TypeOK'
  <2> SUFFICES ASSUME TypeOK, [Next]_vars
               PROVE  TypeOK'
    OBVIOUS
  <2> USE QueueAssumption, NextIndexInSlots
      DEF TypeOK, Labels, Goto, At, ghosts, torn, threw, Threads
  <2>1. ASSUME NEW t \in Threads, NEW op \in Calls, Call(t, op) PROVE TypeOK'
    BY <2>1 DEF Call, CallsOf
  <2>2. ASSUME NEW p \in Producers, ProducerStep(p) PROVE TypeOK'
    <3>1. CASE FindEmptySpace(p) BY <3>1 DEF FindEmptySpace
    <3>2. CASE FindNoSpace(p) BY <3>2 DEF FindNoSpace
    <3>3. CASE SleepOnEmpty(p) BY <3>3 DEF SleepOnEmpty
    <3>4. CASE TryPushFull(p) BY <3>4 DEF TryPushFull
    <3>5. CASE TryPush(p) BY <3>5 DEF TryPush
    <3>6. CASE DecEmpty(p)
      <4>1. stale' \subseteq {"full", "empty"}
        BY <3>6 DEF DecEmpty, Update
      <4>2. full' \in 0 .. CounterMod-1 /\ empty' \in 0 .. CounterMod-1
        BY <3>6 DEF DecEmpty, Update, Dec
      <4>3. pc' \in [Threads -> Labels] /\ reg' \in [Threads -> 0 .. CounterMod-1]
        BY <3>6 DEF DecEmpty, Update
      <4> QED BY <3>6, <4>1, <4>2, <4>3 DEF DecEmpty
    <3>7. CASE ClaimTail(p) BY <3>7 DEF ClaimTail, AdvanceTail
    <3>8. CASE LoadTail(p) BY <3>8 DEF LoadTail
    <3>9. CASE CasTail(p) BY <3>9 DEF CasTail, AdvanceTail
    <3>10. CASE CasTailFails(p) BY <3>10 DEF CasTailFails
    <3>11. CASE Construct(p) BY <3>11 DEF Construct
    <3>12. CASE ConstructThrows(p) BY <3>12 DEF ConstructThrows
    <3>13. CASE IncFull(p)
      <4>1. stale' \subseteq {"full", "empty"}
        BY <3>13 DEF IncFull, Update
      <4>2. full' \in 0 .. CounterMod-1 /\ empty' \in 0 .. CounterMod-1
        BY <3>13 DEF IncFull, Update, Inc
      <4>3. pc' \in [Threads -> Labels] /\ reg' \in [Threads -> 0 .. CounterMod-1]
        BY <3>13 DEF IncFull, Update
      <4> QED BY <3>13, <4>1, <4>2, <4>3 DEF IncFull
    <3>14. CASE NotifyFull(p) BY <3>14 DEF NotifyFull, NotifyOne
    <3>15. CASE Close(p) BY <3>15 DEF Close
    <3>16. CASE CloseNotify(p) BY <3>16 DEF CloseNotify
    <3> QED
      BY <2>2, <3>1, <3>2, <3>3, <3>4, <3>5, <3>6, <3>7, <3>8, <3>9, <3>10,
         <3>11, <3>12, <3>13, <3>14, <3>15, <3>16 DEF ProducerStep
  <2>3. ASSUME NEW c \in Consumers, ConsumerStep(c) PROVE TypeOK'
    <3>1. CASE FindItem(c) BY <3>1 DEF FindItem
    <3>2. CASE FindNoItem(c) BY <3>2 DEF FindNoItem
    <3>3. CASE FindOpen(c) BY <3>3 DEF FindOpen
    <3>4. CASE PopClosed(c) BY <3>4 DEF PopClosed
    <3>5. CASE SleepOnFull(c) BY <3>5 DEF SleepOnFull
    <3>6. CASE TryPopEmpty(c) BY <3>6 DEF TryPopEmpty
    <3>7. CASE TryPop(c) BY <3>7 DEF TryPop
    <3>8. CASE TryPopFinished(c) BY <3>8 DEF TryPopFinished
    <3>9. CASE ClaimHead(c) BY <3>9 DEF ClaimHead, AdvanceHead
    <3>10. CASE LoadHead(c) BY <3>10 DEF LoadHead
    <3>11. CASE CasHead(c) BY <3>11 DEF CasHead, AdvanceHead
    <3>12. CASE CasHeadFails(c) BY <3>12 DEF CasHeadFails
    <3>13. CASE DecFull(c)
      <4>1. stale' \subseteq {"full", "empty"}
        BY <3>13 DEF DecFull, Update
      <4>2. full' \in 0 .. CounterMod-1 /\ empty' \in 0 .. CounterMod-1
        BY <3>13 DEF DecFull, Update, Dec
      <4>3. pc' \in [Threads -> Labels] /\ reg' \in [Threads -> 0 .. CounterMod-1]
        BY <3>13 DEF DecFull, Update
      <4> QED BY <3>13, <4>1, <4>2, <4>3 DEF DecFull
    <3>14. CASE Take(c) BY <3>14 DEF Take
    <3>15. CASE IncEmpty(c)
      <4>1. stale' \subseteq {"full", "empty"}
        BY <3>15 DEF IncEmpty, Update
      <4>2. full' \in 0 .. CounterMod-1 /\ empty' \in 0 .. CounterMod-1
        BY <3>15 DEF IncEmpty, Update, Inc
      <4>3. pc' \in [Threads -> Labels] /\ reg' \in [Threads -> 0 .. CounterMod-1]
        BY <3>15 DEF IncEmpty, Update
      <4> QED BY <3>15, <4>1, <4>2, <4>3 DEF IncEmpty
    <3>16. CASE NotifyEmpty(c) BY <3>16 DEF NotifyEmpty, NotifyOne
    <3>17. CASE TakeThrows(c) BY <3>17 DEF TakeThrows
    <3> QED
      BY <2>3, <3>1, <3>2, <3>3, <3>4, <3>5, <3>6, <3>7, <3>8, <3>9, <3>10,
         <3>11, <3>12, <3>13, <3>14, <3>15, <3>16, <3>17 DEF ConsumerStep
  <2>4. ASSUME NEW t \in Threads, SpuriousWakeup(t) PROVE TypeOK'
    BY <2>4 DEF SpuriousWakeup
  <2>5. CASE Destroy
    BY <2>5 DEF Destroy
  <2>6. CASE UNCHANGED vars
    BY <2>6 DEF vars, control
  <2> QED
    BY <2>1, <2>2, <2>3, <2>4, <2>5, <2>6 DEF Next
<1>3. QED
  BY <1>1, <1>2, PTL DEF Spec

----------------------------------------------------------------------------
(* Every discipline *)

\* A step that moves no index and claims nothing leaves the claims as they are.
LEMMA NoClaim ==
  ASSUME ClaimsInv, UNCHANGED <<head, tail, tk, sent, taken, live>>,
         \A p \in Producers : Pushed(p)' => Pushed(p) /\ idx'[p] = idx[p],
         \A c \in Consumers : Popped(c)' => Popped(c) /\ idx'[c] = idx[c],
         ~live => UNCHANGED pc
  PROVE  ClaimsInv'
<1> USE DEF ClaimsInv
<1>1. /\ tail' = sent' % N
      /\ live' => head' = taken' % N
  OBVIOUS
<1>2. ~live' => \A t \in Threads : At(t, "idle")'
  BY DEF At
<1>3. \A p \in Producers : Pushed(p)' =>
        /\ tk'[p] < sent' /\ idx'[p] = tk'[p] % N
        /\ \A q \in Producers : Pushed(q)' /\ tk'[p] = tk'[q] => p = q
  OBVIOUS
<1>4. \A c \in Consumers : Popped(c)' =>
        /\ tk'[c] < taken' /\ idx'[c] = tk'[c] % N
        /\ \A d \in Consumers : Popped(d)' /\ tk'[c] = tk'[d] => c = d
  OBVIOUS
<1> QED BY <1>1, <1>2, <1>3, <1>4

\* A claim of tail gets the next ticket, and the slot of that ticket.
LEMMA ClaimOfTail ==
  ASSUME TypeOK, ClaimsInv, NEW p \in Producers, ~At(p, "idle"), AdvanceTail(p)
  PROVE  ClaimsInv'
<1> USE QueueAssumption DEF TypeOK, Threads
<1>1. /\ tail' = (sent + 1) % N /\ sent' = sent + 1
      /\ tk' = [tk EXCEPT ![p] = sent] /\ idx' = [idx EXCEPT ![p] = sent % N]
      /\ pc' = [pc EXCEPT ![p] = "construct"]
      /\ UNCHANGED <<head, taken, live>>
  BY ModSucc DEF AdvanceTail, NextIndex, ClaimsInv, Goto
<1>2. live
  BY DEF ClaimsInv
<1>3. \A q \in Producers : Pushed(q)' =>
        /\ tk'[q] < sent' /\ idx'[q] = tk'[q] % N
        /\ \A r \in Producers : Pushed(r)' /\ tk'[q] = tk'[r] => q = r
  <2> SUFFICES ASSUME NEW q \in Producers, Pushed(q)'
               PROVE  /\ tk'[q] < sent' /\ idx'[q] = tk'[q] % N
                      /\ \A r \in Producers : Pushed(r)' /\ tk'[q] = tk'[r] => q = r
    OBVIOUS
  <2>1. \A r \in Producers : r # p /\ Pushed(r)' =>
          /\ tk'[r] = tk[r] /\ idx'[r] = idx[r]
          /\ Pushed(r) /\ tk[r] < sent /\ idx[r] = tk[r] % N
    BY <1>1 DEF Pushed, ClaimsInv
  <2>2. tk'[p] = sent /\ idx'[p] = sent % N
    BY <1>1
  <2>3. CASE q = p
    BY <1>1, <2>1, <2>2, <2>3
  <2>4. CASE q # p
    <3>1. /\ Pushed(q) /\ tk'[q] = tk[q] /\ idx'[q] = idx[q]
          /\ tk[q] < sent /\ idx[q] = tk[q] % N
      BY <2>1, <2>4
    <3>2. \A r \in Producers : Pushed(r) /\ tk[q] = tk[r] => q = r
      BY <3>1 DEF ClaimsInv
    <3>3. ASSUME NEW r \in Producers, Pushed(r)', tk'[q] = tk'[r] PROVE q = r
      <4>1. r # p
        BY <2>2, <3>1, <3>3
      <4> QED BY <2>1, <3>1, <3>2, <3>3, <4>1
    <3> QED BY <1>1, <3>1, <3>3
  <2> QED BY <2>3, <2>4
<1>4. \A c \in Consumers : Popped(c)' =>
        /\ tk'[c] < taken' /\ idx'[c] = tk'[c] % N
        /\ \A d \in Consumers : Popped(d)' /\ tk'[c] = tk'[d] => c = d
  <2>1. \A c \in Consumers : tk'[c] = tk[c] /\ idx'[c] = idx[c] /\ pc'[c] = pc[c]
    BY <1>1
  <2> QED BY <1>1, <2>1 DEF Popped, ClaimsInv
<1> QED BY <1>1, <1>2, <1>3, <1>4 DEF ClaimsInv

\* The same of head.
LEMMA ClaimOfHead ==
  ASSUME TypeOK, ClaimsInv, NEW c \in Consumers, ~At(c, "idle"), AdvanceHead(c)
  PROVE  ClaimsInv'
<1> USE QueueAssumption DEF TypeOK, Threads
<1>1. live
  BY DEF ClaimsInv
<1>2. /\ head' = (taken + 1) % N /\ taken' = taken + 1
      /\ tk' = [tk EXCEPT ![c] = taken] /\ idx' = [idx EXCEPT ![c] = taken % N]
      /\ pc' = [pc EXCEPT ![c] = "dec_full"]
      /\ UNCHANGED <<tail, sent, live>>
  BY <1>1, ModSucc DEF AdvanceHead, NextIndex, ClaimsInv, Goto
<1>3. \A q \in Consumers : Popped(q)' =>
        /\ tk'[q] < taken' /\ idx'[q] = tk'[q] % N
        /\ \A r \in Consumers : Popped(r)' /\ tk'[q] = tk'[r] => q = r
  <2> SUFFICES ASSUME NEW q \in Consumers, Popped(q)'
               PROVE  /\ tk'[q] < taken' /\ idx'[q] = tk'[q] % N
                      /\ \A r \in Consumers : Popped(r)' /\ tk'[q] = tk'[r] => q = r
    OBVIOUS
  <2>1. \A r \in Consumers : r # c /\ Popped(r)' =>
          /\ tk'[r] = tk[r] /\ idx'[r] = idx[r]
          /\ Popped(r) /\ tk[r] < taken /\ idx[r] = tk[r] % N
    BY <1>2 DEF Popped, ClaimsInv
  <2>2. tk'[c] = taken /\ idx'[c] = taken % N
    BY <1>2
  <2>3. CASE q = c
    BY <1>2, <2>1, <2>2, <2>3
  <2>4. CASE q # c
    BY <1>2, <2>1, <2>2, <2>4 DEF ClaimsInv
  <2> QED BY <2>3, <2>4
<1>4. \A p \in Producers : Pushed(p)' =>
        /\ tk'[p] < sent' /\ idx'[p] = tk'[p] % N
        /\ \A q \in Producers : Pushed(q)' /\ tk'[p] = tk'[q] => p = q
  <2>1. \A p \in Producers : tk'[p] = tk[p] /\ idx'[p] = idx[p] /\ pc'[p] = pc[p]
    BY <1>2
  <2> QED BY <1>2, <2>1 DEF Pushed, ClaimsInv
<1> QED BY <1>1, <1>2, <1>3, <1>4 DEF ClaimsInv

\* ClaimsInv is inductive: a claim is one step, and nothing else moves an index.
LEMMA ClaimsInvariance == Spec => []ClaimsInv
<1>1. Init => ClaimsInv
  <2>1. 0 % N = 0
    BY QueueAssumption
  <2> QED BY <2>1 DEF Init, ClaimsInv, Pushed, Popped, At, Threads
<1>2. TypeOK /\ ClaimsInv /\ [Next]_vars => ClaimsInv'
  <2> SUFFICES ASSUME TypeOK, ClaimsInv, [Next]_vars PROVE ClaimsInv'
    OBVIOUS
  <2>0. ~live => \A t \in Threads : pc[t] = "idle"
    BY DEF ClaimsInv, At
  <2> USE QueueAssumption DEF TypeOK, Threads, Goto, At, ghosts, torn, threw, Pushed, Popped
  <2>1. ASSUME NEW t \in Threads, NEW op \in Calls, Call(t, op) PROVE ClaimsInv'
    BY <2>1, NoClaim DEF Call, CallsOf
  <2>2. ASSUME NEW p \in Producers, ProducerStep(p) PROVE ClaimsInv'
    <3>1. CASE FindEmptySpace(p) BY <3>1, <2>0, NoClaim DEF FindEmptySpace
    <3>2. CASE FindNoSpace(p) BY <3>2, <2>0, NoClaim DEF FindNoSpace
    <3>3. CASE SleepOnEmpty(p) BY <3>3, <2>0, NoClaim DEF SleepOnEmpty
    <3>4. CASE TryPushFull(p) BY <3>4, <2>0, NoClaim DEF TryPushFull
    <3>5. CASE TryPush(p) BY <3>5, <2>0, NoClaim DEF TryPush
    <3>6. CASE DecEmpty(p) BY <3>6, <2>0, NoClaim DEF DecEmpty, Update
    <3>7. CASE ClaimTail(p) BY <3>7, ClaimOfTail DEF ClaimTail
    <3>8. CASE LoadTail(p) BY <3>8, <2>0, NoClaim DEF LoadTail
    <3>9. CASE CasTail(p) BY <3>9, ClaimOfTail DEF CasTail
    <3>10. CASE CasTailFails(p) BY <3>10, <2>0, NoClaim DEF CasTailFails
    <3>11. CASE Construct(p) BY <3>11, <2>0, NoClaim DEF Construct
    <3>12. CASE ConstructThrows(p) BY <3>12, <2>0, NoClaim DEF ConstructThrows
    <3>13. CASE IncFull(p) BY <3>13, <2>0, NoClaim DEF IncFull, Update
    <3>14. CASE NotifyFull(p) BY <3>14, <2>0, NoClaim DEF NotifyFull, NotifyOne
    <3>15. CASE Close(p) BY <3>15, <2>0, NoClaim DEF Close
    <3>16. CASE CloseNotify(p) BY <3>16, <2>0, NoClaim DEF CloseNotify
    <3> QED
      BY <2>2, <3>1, <3>2, <3>3, <3>4, <3>5, <3>6, <3>7, <3>8, <3>9, <3>10,
         <3>11, <3>12, <3>13, <3>14, <3>15, <3>16 DEF ProducerStep
  <2>3. ASSUME NEW c \in Consumers, ConsumerStep(c) PROVE ClaimsInv'
    <3>1. CASE FindItem(c) BY <3>1, <2>0, NoClaim DEF FindItem
    <3>2. CASE FindNoItem(c) BY <3>2, <2>0, NoClaim DEF FindNoItem
    <3>3. CASE FindOpen(c) BY <3>3, <2>0, NoClaim DEF FindOpen
    <3>4. CASE PopClosed(c) BY <3>4, <2>0, NoClaim DEF PopClosed
    <3>5. CASE SleepOnFull(c) BY <3>5, <2>0, NoClaim DEF SleepOnFull
    <3>6. CASE TryPopEmpty(c) BY <3>6, <2>0, NoClaim DEF TryPopEmpty
    <3>7. CASE TryPop(c) BY <3>7, <2>0, NoClaim DEF TryPop
    <3>8. CASE TryPopFinished(c) BY <3>8, <2>0, NoClaim DEF TryPopFinished
    <3>9. CASE ClaimHead(c) BY <3>9, ClaimOfHead DEF ClaimHead
    <3>10. CASE LoadHead(c) BY <3>10, <2>0, NoClaim DEF LoadHead
    <3>11. CASE CasHead(c) BY <3>11, ClaimOfHead DEF CasHead
    <3>12. CASE CasHeadFails(c) BY <3>12, <2>0, NoClaim DEF CasHeadFails
    <3>13. CASE DecFull(c) BY <3>13, <2>0, NoClaim DEF DecFull, Update
    <3>14. CASE Take(c) BY <3>14, <2>0, NoClaim DEF Take
    <3>15. CASE IncEmpty(c) BY <3>15, <2>0, NoClaim DEF IncEmpty, Update
    <3>16. CASE NotifyEmpty(c) BY <3>16, <2>0, NoClaim DEF NotifyEmpty, NotifyOne
    <3>17. CASE TakeThrows(c) BY <3>17, <2>0, NoClaim DEF TakeThrows
    <3> QED
      BY <2>3, <3>1, <3>2, <3>3, <3>4, <3>5, <3>6, <3>7, <3>8, <3>9, <3>10,
         <3>11, <3>12, <3>13, <3>14, <3>15, <3>16, <3>17 DEF ConsumerStep
  <2>4. ASSUME NEW t \in Threads, SpuriousWakeup(t) PROVE ClaimsInv'
    BY <2>4, <2>0, NoClaim DEF SpuriousWakeup, Asleep
  <2>5. CASE Destroy
    BY <2>5 DEF Destroy, ClaimsInv
  <2>6. CASE UNCHANGED vars
    BY <2>6, NoClaim DEF vars, control
  <2> QED
    BY <2>1, <2>2, <2>3, <2>4, <2>5, <2>6 DEF Next
<1>3. QED
  BY <1>1, <1>2, TypeCorrect, PTL DEF Spec

\* Slots are claimed one at a time and in order, by any number of producers and
\* consumers, although their counters may tear and their constructors throw.
THEOREM ClaimsAreInOrder == Spec => []ClaimsInOrder
<1>1. ClaimsInv => ClaimsInOrder
  BY DEF ClaimsInv, ClaimsInOrder, Pushed, Popped, Publishing, Returning, Taking,
         Uncounting, At
<1>2. QED
  BY <1>1, ClaimsInvariance, PTL

----------------------------------------------------------------------------
(* Any number of producers and consumers, torn counters, constructors and   *)
(* assignments that throw                                                   *)

\* A multiple of CounterMod stays one when a counter wraps.
IsMultiple(x) == x % CounterMod = 0

LEMMA MultiplesAre ==
  ASSUME NEW x \in Int
  PROVE  IsMultiple(x) <=> \E k \in Int : x = CounterMod * k
<1> DEFINE m == CounterMod
<1>1. m \in Nat \ {0}
  BY QueueAssumption
<1> HIDE DEF m
<1>2. x = m * (x \div m) + (x % m) /\ x \div m \in Int /\ x % m \in 0 .. m - 1
  BY <1>1, Z3
<1>3. ASSUME x % m = 0 PROVE \E k \in Int : x = m * k
  <2>1. x = m * (x \div m)
    BY <1>1, <1>2, <1>3, Z3
  <2> QED BY <1>2, <2>1
<1>4. ASSUME NEW k \in Int, x = m * k PROVE x % m = 0
  <2>1. (m * k) % m = 0
    BY <1>1, Z3
  <2> QED BY <1>4, <2>1
<1> QED BY <1>3, <1>4 DEF m, IsMultiple

LEMMA MultiplesWrap ==
  ASSUME NEW x \in Int, IsMultiple(x)
  PROVE  IsMultiple(x + CounterMod) /\ IsMultiple(x - CounterMod)
<1> DEFINE m == CounterMod
<1>1. m \in Int
  BY QueueAssumption
<1>2. PICK k \in Int : x = m * k
  BY MultiplesAre
<1> HIDE DEF m
<1>3. x + m \in Int /\ x - m \in Int
  BY <1>1
<1>4. x + m = m * (k + 1) /\ x - m = m * (k - 1) /\ k + 1 \in Int /\ k - 1 \in Int
  BY <1>1, <1>2, Z3
<1>5. (\E j \in Int : x + m = m * j) /\ (\E j \in Int : x - m = m * j)
  BY <1>4
<1> QED BY <1>3, <1>5, MultiplesAre DEF m

\* The threads of T at the labels L, before and after a step of x alone.
LEMMA CountMoves ==
  ASSUME NEW T, IsFiniteSet(T), NEW f, NEW g, NEW L, NEW x \in T,
         \A t \in T \ {x} : g[t] = f[t],
         NEW A, A = {t \in T : f[t] \in L}, NEW B, B = {t \in T : g[t] \in L}
  PROVE  /\ Cardinality(A) \in Nat
         /\ Cardinality(B) = Cardinality(A) - One(f[x] \in L) + One(g[x] \in L)
<1> DEFINE C == {t \in T \ {x} : f[t] \in L}
<1>1. IsFiniteSet(A) /\ IsFiniteSet(B) /\ IsFiniteSet(C)
  BY FS_Subset
<1>2. Cardinality(A) \in Nat /\ Cardinality(B) \in Nat /\ Cardinality(C) \in Nat
  BY <1>1, FS_CardinalityType
<1>3. x \notin C /\ Cardinality(C \cup {x}) = Cardinality(C) + 1
  BY <1>1, FS_AddElement
<1>4. Cardinality(A) = Cardinality(C) + One(f[x] \in L)
  <2>1. CASE f[x] \in L
    <3>1. A = C \cup {x}
      BY <2>1
    <3> QED BY <1>3, <2>1, <3>1 DEF One
  <2>2. CASE f[x] \notin L
    <3>1. A = C
      BY <2>2
    <3> DEFINE o == One(f[x] \in L)
    <3>2. o = 0
      BY <2>2 DEF One
    <3> HIDE DEF o, C
    <3>3. Cardinality(C) = Cardinality(C) + o
      BY <1>2, <3>2
    <3>4. Cardinality(A) = Cardinality(C) + o
      BY <3>1, <3>3, Zenon
    <3> QED BY <3>4 DEF o
  <2> QED BY <2>1, <2>2
<1>5. Cardinality(B) = Cardinality(C) + One(g[x] \in L)
  <2>1. CASE g[x] \in L
    <3>1. B = C \cup {x}
      BY <2>1
    <3> QED BY <1>3, <2>1, <3>1 DEF One
  <2>2. CASE g[x] \notin L
    <3>1. B = C
      BY <2>2
    <3> DEFINE o == One(g[x] \in L)
    <3>2. o = 0
      BY <2>2 DEF One
    <3> HIDE DEF o, C
    <3>3. Cardinality(C) = Cardinality(C) + o
      BY <1>2, <3>2
    <3>4. Cardinality(B) = Cardinality(C) + o
      BY <3>1, <3>3, Zenon
    <3> QED BY <3>4 DEF o
  <2> QED BY <2>1, <2>2
<1> HIDE DEF C
<1>6. One(f[x] \in L) \in Int
  BY DEF One
<1> QED BY <1>2, <1>4, <1>5, <1>6

\* The threads that the counters are short of.
nClaiming == Cardinality(Claiming)
nPublishing == Cardinality(Publishing)
nReturning == Cardinality(Returning)
nUncounting == Cardinality(Uncounting)

LEMMA CountsAreNumbers ==
  /\ nClaiming \in Nat /\ nPublishing \in Nat
  /\ nReturning \in Nat /\ nUncounting \in Nat
<1>1. /\ IsFiniteSet(Claiming) /\ IsFiniteSet(Publishing)
      /\ IsFiniteSet(Returning) /\ IsFiniteSet(Uncounting)
  BY QueueAssumption, FS_Subset
     DEF Claiming, Publishing, Returning, Uncounting, Taking
<1> QED BY <1>1, FS_CardinalityType DEF nClaiming, nPublishing, nReturning, nUncounting

\* The same of the next state.
LEMMA NextCountsAreNumbers ==
  /\ nClaiming' \in Nat /\ nPublishing' \in Nat
  /\ nReturning' \in Nat /\ nUncounting' \in Nat
<1>1. /\ IsFiniteSet(Claiming') /\ IsFiniteSet(Publishing')
      /\ IsFiniteSet(Returning') /\ IsFiniteSet(Uncounting')
  BY QueueAssumption, FS_Subset
     DEF Claiming, Publishing, Returning, Uncounting, Taking
<1> QED BY <1>1, FS_CardinalityType DEF nClaiming, nPublishing, nReturning, nUncounting

\* The labels of the threads that are counted.
ClaimingLabels == {"claim_tail", "cas_tail"}
PublishingLabels == {"construct", "inc_full", "inc_full_store"}
UncountingLabels == {"dec_full", "dec_full_store"}
ReturningLabels == {"dec_full", "dec_full_store", "take", "inc_empty", "inc_empty_store"}

\* A step of a producer from label to label.
LEMMA ProducerMoves ==
  ASSUME TypeOK, NEW p \in Producers, NEW l, Goto(p, l)
  PROVE  /\ nClaiming' = nClaiming - One(pc[p] \in ClaimingLabels) + One(l \in ClaimingLabels)
         /\ nPublishing' = nPublishing - One(pc[p] \in PublishingLabels)
                                       + One(l \in PublishingLabels)
         /\ nReturning' = nReturning /\ nUncounting' = nUncounting
<1>1. /\ pc'[p] = l /\ \A t \in Producers \ {p} : pc'[t] = pc[t]
      /\ \A t \in Consumers : pc'[t] = pc[t]
  BY QueueAssumption DEF Goto, TypeOK, Threads
<1>2. IsFiniteSet(Producers)
  BY QueueAssumption
<1>3. Returning' = Returning /\ Uncounting' = Uncounting
  BY <1>1 DEF Returning, Taking, Uncounting, At
<1>4. nClaiming' = nClaiming - One(pc[p] \in ClaimingLabels) + One(l \in ClaimingLabels)
  <2> DEFINE L == ClaimingLabels
             A == Claiming
             B == Claiming'
  <2>1. A = {t \in Producers : pc[t] \in L} /\ B = {t \in Producers : pc'[t] \in L}
    BY DEF Claiming, ClaimingLabels
  <2> HIDE DEF A, B, L
  <2>2. Cardinality(B) = Cardinality(A) - One(pc[p] \in L) + One(pc'[p] \in L)
    BY <1>1, <1>2, <2>1, CountMoves
  <2> QED BY <1>1, <2>2 DEF A, B, L, nClaiming
<1>5. nPublishing' = nPublishing - One(pc[p] \in PublishingLabels)
                                 + One(l \in PublishingLabels)
  <2> DEFINE L == PublishingLabels
             A == Publishing
             B == Publishing'
  <2>1. A = {t \in Producers : pc[t] \in L} /\ B = {t \in Producers : pc'[t] \in L}
    BY DEF Publishing, PublishingLabels
  <2> HIDE DEF A, B, L
  <2>2. Cardinality(B) = Cardinality(A) - One(pc[p] \in L) + One(pc'[p] \in L)
    BY <1>1, <1>2, <2>1, CountMoves
  <2> QED BY <1>1, <2>2 DEF A, B, L, nPublishing
<1> QED BY <1>3, <1>4, <1>5 DEF nReturning, nUncounting

\* A step of a consumer from label to label.
LEMMA ConsumerMoves ==
  ASSUME TypeOK, NEW c \in Consumers, NEW l, Goto(c, l)
  PROVE  /\ nClaiming' = nClaiming /\ nPublishing' = nPublishing
         /\ nReturning' = nReturning - One(pc[c] \in ReturningLabels)
                                     + One(l \in ReturningLabels)
         /\ nUncounting' = nUncounting - One(pc[c] \in UncountingLabels)
                                       + One(l \in UncountingLabels)
<1>1. /\ pc'[c] = l /\ \A t \in Consumers \ {c} : pc'[t] = pc[t]
      /\ \A t \in Producers : pc'[t] = pc[t]
  BY QueueAssumption DEF Goto, TypeOK, Threads
<1>2. IsFiniteSet(Consumers)
  BY QueueAssumption
<1>3. Claiming' = Claiming /\ Publishing' = Publishing
  BY <1>1 DEF Claiming, Publishing
<1>4. nReturning' = nReturning - One(pc[c] \in ReturningLabels) + One(l \in ReturningLabels)
  <2> DEFINE L == ReturningLabels
             A == Returning
             B == Returning'
  <2>1. A = {t \in Consumers : pc[t] \in L} /\ B = {t \in Consumers : pc'[t] \in L}
    BY DEF Returning, Taking, Uncounting, At, ReturningLabels
  <2> HIDE DEF A, B, L
  <2>2. Cardinality(B) = Cardinality(A) - One(pc[c] \in L) + One(pc'[c] \in L)
    BY <1>1, <1>2, <2>1, CountMoves
  <2> QED BY <1>1, <2>2 DEF A, B, L, nReturning
<1>5. nUncounting' = nUncounting - One(pc[c] \in UncountingLabels)
                                 + One(l \in UncountingLabels)
  <2> DEFINE L == UncountingLabels
             A == Uncounting
             B == Uncounting'
  <2>1. A = {t \in Consumers : pc[t] \in L} /\ B = {t \in Consumers : pc'[t] \in L}
    BY DEF Uncounting, UncountingLabels
  <2> HIDE DEF A, B, L
  <2>2. Cardinality(B) = Cardinality(A) - One(pc[c] \in L) + One(pc'[c] \in L)
    BY <1>1, <1>2, <2>1, CountMoves
  <2> QED BY <1>1, <2>2 DEF A, B, L, nUncounting
<1> QED BY <1>3, <1>4, <1>5 DEF nClaiming, nPublishing

\* What is a multiple of CounterMod in the two parts of the invariant.
EmptySum == ((sent + nClaiming) - ((taken - nReturning) - unread)) + empty
FullSum == (((sent - nPublishing) - unmade) - (taken - nUncounting)) - full

Balanced ==
  /\ "empty" \notin stale => IsMultiple(EmptySum - N)
  /\ "full" \notin stale => IsMultiple(FullSum)

LEMMA BalancedIs == Balanced <=> CountersBalance
BY DEF CountersBalance, Balanced, EmptySum, FullSum, IsMultiple,
       nClaiming, nPublishing, nReturning, nUncounting

\* What the sums are made of.
LEMMA SumsAreNumbers ==
  ASSUME TypeOK
  PROVE  /\ {sent, taken, unmade, unread, full, empty} \subseteq Nat
         /\ {nClaiming, nPublishing, nReturning, nUncounting} \subseteq Nat
         /\ EmptySum \in Int /\ FullSum \in Int
         /\ N \in Nat /\ CounterMod \in Nat
<1>1. /\ sent \in Nat /\ taken \in Nat /\ unmade \in Nat /\ unread \in Nat
      /\ full \in Nat /\ empty \in Nat /\ N \in Nat /\ CounterMod \in Nat
  BY QueueAssumption DEF TypeOK
<1>2. /\ nClaiming \in Nat /\ nPublishing \in Nat /\ nReturning \in Nat /\ nUncounting \in Nat
  BY CountsAreNumbers
<1>3. EmptySum \in Int
  BY <1>1, <1>2 DEF EmptySum
<1>4. FullSum \in Int
  BY <1>1, <1>2 DEF FullSum
<1> QED BY <1>1, <1>2, <1>3, <1>4

\* A counter that is updated wraps, or its balance is what it was.
Wraps == {0, CounterMod, - CounterMod}

LEMMA IncWraps ==
  ASSUME NEW x \in 0 .. CounterMod - 1
  PROVE  \E d \in Wraps : Inc(x) = x + 1 + d
BY QueueAssumption DEF Inc, Wraps

LEMMA DecWraps ==
  ASSUME NEW x \in 0 .. CounterMod - 1
  PROVE  \E d \in Wraps : Dec(x) = x - 1 + d
BY QueueAssumption DEF Dec, Wraps

\* What a step must do to the sums to keep the balances, unless it stores a stale value.
LEMMA BalancesStay ==
  ASSUME TypeOK, Balanced, stale \subseteq stale',
         "empty" \notin stale' => \E d \in Wraps : EmptySum' = EmptySum + d,
         "full" \notin stale' => \E d \in Wraps : FullSum' = FullSum + d
  PROVE  Balanced'
<1>1. EmptySum \in Int /\ FullSum \in Int /\ N \in Nat /\ CounterMod \in Nat
  BY SumsAreNumbers
<1>2. ASSUME NEW a \in Int, NEW d \in Wraps, IsMultiple(a)
      PROVE  IsMultiple(a + d)
  <2>1. a + d = a \/ a + d = a + CounterMod \/ a + d = a - CounterMod
    BY <1>1 DEF Wraps
  <2> QED BY <1>2, <2>1, MultiplesWrap
<1>3. ASSUME "empty" \notin stale' PROVE IsMultiple(EmptySum' - N)
  <2> DEFINE a == EmptySum - N
             b == EmptySum' - N
  <2>1. a \in Int /\ IsMultiple(a)
    BY <1>1, <1>3 DEF Balanced
  <2>2. PICK d \in Wraps : EmptySum' = EmptySum + d
    BY <1>3
  <2>3. b = a + d
    BY <1>1, <2>2 DEF Wraps
  <2> HIDE DEF a, b
  <2>4. IsMultiple(b)
    BY <1>2, <2>1, <2>3
  <2> QED BY <2>4 DEF b
<1>4. ASSUME "full" \notin stale' PROVE IsMultiple(FullSum')
  <2>1. IsMultiple(FullSum)
    BY <1>4 DEF Balanced
  <2>2. PICK d \in Wraps : FullSum' = FullSum + d
    BY <1>4
  <2> QED BY <1>1, <1>2, <2>1, <2>2
<1> QED BY <1>3, <1>4 DEF Balanced, IsMultiple

\* A step of which the sums take no notice.
LEMMA QuietStep ==
  ASSUME TypeOK, Balanced, UNCHANGED <<full, empty, sent, taken, unmade, unread, stale>>,
         UNCHANGED <<nClaiming, nPublishing, nReturning, nUncounting>>
  PROVE  Balanced'
BY DEF Balanced, EmptySum, FullSum, IsMultiple

\* A new queue: all of it is counted in empty.
LEMMA BalancedAtFirst ==
  ASSUME Init
  PROVE  Balanced
<1>1. /\ Claiming = {} /\ Publishing = {} /\ Returning = {} /\ Uncounting = {}
      /\ sent = 0 /\ taken = 0 /\ unmade = 0 /\ unread = 0 /\ empty = N /\ full = 0
  BY DEF Init, Claiming, Publishing, Returning, Uncounting, Taking, Threads, At
<1>2. nClaiming = 0 /\ nPublishing = 0 /\ nReturning = 0 /\ nUncounting = 0
  BY <1>1, FS_EmptySet DEF nClaiming, nPublishing, nReturning, nUncounting
<1>3. IsMultiple(0) /\ N \in Nat
  BY QueueAssumption DEF IsMultiple
<1>4. EmptySum - N = 0
  BY <1>1, <1>2, <1>3 DEF EmptySum
<1>5. FullSum = 0
  BY <1>1, <1>2 DEF FullSum
<1> QED BY <1>3, <1>4, <1>5 DEF Balanced

\* The steps of a producer that count.
LEMMA ProducerCounts ==
  ASSUME TypeOK, Balanced, NEW p \in Producers,
         DecEmpty(p) \/ ClaimTail(p) \/ CasTail(p) \/ ConstructThrows(p) \/ IncFull(p)
  PROVE  Balanced'
<1>1. /\ sent \in Nat /\ taken \in Nat /\ unmade \in Nat /\ unread \in Nat
      /\ full \in 0 .. CounterMod - 1 /\ empty \in 0 .. CounterMod - 1
      /\ CounterMod \in Nat /\ 0 \in Wraps
      /\ nClaiming \in Nat /\ nPublishing \in Nat /\ nReturning \in Nat /\ nUncounting \in Nat
  BY CountsAreNumbers, QueueAssumption DEF TypeOK, Wraps
<1> USE DEF ClaimingLabels, PublishingLabels, One
<1>2. CASE DecEmpty(p)
  <2>1. UNCHANGED <<full, sent, taken, unmade, unread>> /\ stale \subseteq stale'
    BY <1>2 DEF DecEmpty, Update, ghosts, torn, threw
  <2>2. CASE Goto(p, "dec_empty_store")
    <3>1. pc[p] = "dec_empty" /\ UNCHANGED <<empty, stale>>
      BY <1>2, <2>2 DEF DecEmpty, Update, At, Goto, TypeOK, Threads
    <3>2. UNCHANGED <<nClaiming, nPublishing, nReturning, nUncounting>>
      BY <1>1, <2>2, <3>1, ProducerMoves
    <3> QED BY <2>1, <3>1, <3>2, QuietStep
  <2>3. CASE /\ pc[p] \in {"dec_empty", "dec_empty_store"} /\ Goto(p, "claim_tail")
             /\ "empty" \notin stale' => empty' = Dec(empty)
    <3>1. nClaiming' = nClaiming + 1 /\ UNCHANGED <<nPublishing, nReturning, nUncounting>>
      BY <1>1, <2>3, ProducerMoves
    <3>2. FullSum' = FullSum + 0
      BY <1>1, <2>1, <3>1 DEF FullSum
    <3>3. ASSUME "empty" \notin stale' PROVE \E d \in Wraps : EmptySum' = EmptySum + d
      <4>1. PICK d \in Wraps : empty' = empty - 1 + d
        BY <1>1, <2>3, <3>3, DecWraps
      <4>2. EmptySum' = EmptySum + d
        BY <1>1, <2>1, <3>1, <4>1 DEF EmptySum, Wraps
      <4> QED BY <4>2
    <3> QED BY <1>1, <2>1, <3>2, <3>3, BalancesStay
  <2> QED BY <1>2, <2>2, <2>3 DEF DecEmpty, Update, At, torn
<1>3. CASE ClaimTail(p) \/ CasTail(p)
  <2>1. pc[p] \in {"claim_tail", "cas_tail"} /\ Goto(p, "construct") /\ sent' = sent + 1
    BY <1>3 DEF ClaimTail, CasTail, AdvanceTail, At
  <2>2. UNCHANGED <<full, empty, taken, unmade, unread, stale>>
    BY <1>3 DEF ClaimTail, CasTail, AdvanceTail, torn, threw
  <2>3. /\ nClaiming' = nClaiming - 1 /\ nPublishing' = nPublishing + 1
        /\ UNCHANGED <<nReturning, nUncounting>>
    BY <1>1, <2>1, ProducerMoves
  <2>4. EmptySum' = EmptySum + 0
    BY <1>1, <2>1, <2>2, <2>3 DEF EmptySum
  <2>5. FullSum' = FullSum + 0
    BY <1>1, <2>1, <2>2, <2>3 DEF FullSum
  <2> QED BY <1>1, <2>2, <2>4, <2>5, BalancesStay
<1>4. CASE ConstructThrows(p)
  <2>1. pc[p] = "construct" /\ Goto(p, "idle") /\ unmade' = unmade + 1
    BY <1>4 DEF ConstructThrows, At
  <2>2. UNCHANGED <<full, empty, sent, taken, unread, stale>>
    BY <1>4 DEF ConstructThrows, torn
  <2>3. nPublishing' = nPublishing - 1 /\ UNCHANGED <<nClaiming, nReturning, nUncounting>>
    BY <1>1, <2>1, ProducerMoves
  <2>4. EmptySum' = EmptySum + 0
    BY <1>1, <2>1, <2>2, <2>3 DEF EmptySum
  <2>5. FullSum' = FullSum + 0
    BY <1>1, <2>1, <2>2, <2>3 DEF FullSum
  <2> QED BY <1>1, <2>2, <2>4, <2>5, BalancesStay
<1>5. CASE IncFull(p)
  <2>1. UNCHANGED <<empty, sent, taken, unmade, unread>> /\ stale \subseteq stale'
    BY <1>5 DEF IncFull, Update, ghosts, torn, threw
  <2>2. CASE Goto(p, "inc_full_store")
    <3>1. pc[p] = "inc_full" /\ UNCHANGED <<full, stale>>
      BY <1>5, <2>2 DEF IncFull, Update, At, Goto, TypeOK, Threads
    <3>2. UNCHANGED <<nClaiming, nPublishing, nReturning, nUncounting>>
      BY <1>1, <2>2, <3>1, ProducerMoves
    <3> QED BY <2>1, <3>1, <3>2, QuietStep
  <2>3. CASE /\ pc[p] \in {"inc_full", "inc_full_store"} /\ Goto(p, "notify_full")
             /\ "full" \notin stale' => full' = Inc(full)
    <3>1. nPublishing' = nPublishing - 1 /\ UNCHANGED <<nClaiming, nReturning, nUncounting>>
      BY <1>1, <2>3, ProducerMoves
    <3>2. EmptySum' = EmptySum + 0
      BY <1>1, <2>1, <3>1 DEF EmptySum
    <3>3. ASSUME "full" \notin stale' PROVE \E d \in Wraps : FullSum' = FullSum + d
      <4>1. PICK d \in Wraps : full' = full + 1 + d
        BY <1>1, <2>3, <3>3, IncWraps
      <4>2. FullSum' = FullSum + (- d) /\ - d \in Wraps
        BY <1>1, <2>1, <3>1, <4>1 DEF FullSum, Wraps
      <4> QED BY <4>2
    <3> QED BY <1>1, <2>1, <3>2, <3>3, BalancesStay
  <2> QED BY <1>5, <2>2, <2>3 DEF IncFull, Update, At, torn
<1> QED BY <1>2, <1>3, <1>4, <1>5

\* The steps of a consumer that count.
LEMMA ConsumerCounts ==
  ASSUME TypeOK, Balanced, NEW c \in Consumers,
         ClaimHead(c) \/ CasHead(c) \/ DecFull(c) \/ TakeThrows(c) \/ IncEmpty(c)
  PROVE  Balanced'
<1>1. /\ sent \in Nat /\ taken \in Nat /\ unmade \in Nat /\ unread \in Nat
      /\ full \in 0 .. CounterMod - 1 /\ empty \in 0 .. CounterMod - 1
      /\ CounterMod \in Nat /\ 0 \in Wraps
      /\ nClaiming \in Nat /\ nPublishing \in Nat /\ nReturning \in Nat /\ nUncounting \in Nat
  BY CountsAreNumbers, QueueAssumption DEF TypeOK, Wraps
<1> USE DEF UncountingLabels, ReturningLabels, One
<1>2. CASE ClaimHead(c) \/ CasHead(c)
  <2>1. pc[c] \in {"claim_head", "cas_head"} /\ Goto(c, "dec_full") /\ taken' = taken + 1
    BY <1>2 DEF ClaimHead, CasHead, AdvanceHead, At
  <2>2. UNCHANGED <<full, empty, sent, unmade, unread, stale>>
    BY <1>2 DEF ClaimHead, CasHead, AdvanceHead, torn, threw
  <2>3. /\ nReturning' = nReturning + 1 /\ nUncounting' = nUncounting + 1
        /\ UNCHANGED <<nClaiming, nPublishing>>
    BY <1>1, <2>1, ConsumerMoves
  <2>4. EmptySum' = EmptySum + 0
    BY <1>1, <2>1, <2>2, <2>3 DEF EmptySum
  <2>5. FullSum' = FullSum + 0
    BY <1>1, <2>1, <2>2, <2>3 DEF FullSum
  <2> QED BY <1>1, <2>2, <2>4, <2>5, BalancesStay
<1>3. CASE DecFull(c)
  <2>1. UNCHANGED <<empty, sent, taken, unmade, unread>> /\ stale \subseteq stale'
    BY <1>3 DEF DecFull, Update, ghosts, torn, threw
  <2>2. CASE Goto(c, "dec_full_store")
    <3>1. pc[c] = "dec_full" /\ UNCHANGED <<full, stale>>
      BY <1>3, <2>2 DEF DecFull, Update, At, Goto, TypeOK, Threads
    <3>2. UNCHANGED <<nClaiming, nPublishing, nReturning, nUncounting>>
      BY <1>1, <2>2, <3>1, ConsumerMoves
    <3> QED BY <2>1, <3>1, <3>2, QuietStep
  <2>3. CASE /\ pc[c] \in {"dec_full", "dec_full_store"} /\ Goto(c, "take")
             /\ "full" \notin stale' => full' = Dec(full)
    <3>1. nUncounting' = nUncounting - 1 /\ UNCHANGED <<nClaiming, nPublishing, nReturning>>
      BY <1>1, <2>3, ConsumerMoves
    <3>2. EmptySum' = EmptySum + 0
      BY <1>1, <2>1, <3>1 DEF EmptySum
    <3>3. ASSUME "full" \notin stale' PROVE \E d \in Wraps : FullSum' = FullSum + d
      <4>1. PICK d \in Wraps : full' = full - 1 + d
        BY <1>1, <2>3, <3>3, DecWraps
      <4>2. FullSum' = FullSum + (- d) /\ - d \in Wraps
        BY <1>1, <2>1, <3>1, <4>1 DEF FullSum, Wraps
      <4> QED BY <4>2
    <3> QED BY <1>1, <2>1, <3>2, <3>3, BalancesStay
  <2> QED BY <1>3, <2>2, <2>3 DEF DecFull, Update, At, torn
<1>4. CASE TakeThrows(c)
  <2>1. pc[c] = "take" /\ Goto(c, "idle") /\ unread' = unread + 1
    BY <1>4 DEF TakeThrows, At
  <2>2. UNCHANGED <<full, empty, sent, taken, unmade, stale>>
    BY <1>4 DEF TakeThrows, torn
  <2>3. nReturning' = nReturning - 1 /\ UNCHANGED <<nClaiming, nPublishing, nUncounting>>
    BY <1>1, <2>1, ConsumerMoves
  <2>4. EmptySum' = EmptySum + 0
    BY <1>1, <2>1, <2>2, <2>3 DEF EmptySum
  <2>5. FullSum' = FullSum + 0
    BY <1>1, <2>1, <2>2, <2>3 DEF FullSum
  <2> QED BY <1>1, <2>2, <2>4, <2>5, BalancesStay
<1>5. CASE IncEmpty(c)
  <2>1. UNCHANGED <<full, sent, taken, unmade, unread>> /\ stale \subseteq stale'
    BY <1>5 DEF IncEmpty, Update, ghosts, torn, threw
  <2>2. CASE Goto(c, "inc_empty_store")
    <3>1. pc[c] = "inc_empty" /\ UNCHANGED <<empty, stale>>
      BY <1>5, <2>2 DEF IncEmpty, Update, At, Goto, TypeOK, Threads
    <3>2. UNCHANGED <<nClaiming, nPublishing, nReturning, nUncounting>>
      BY <1>1, <2>2, <3>1, ConsumerMoves
    <3> QED BY <2>1, <3>1, <3>2, QuietStep
  <2>3. CASE /\ pc[c] \in {"inc_empty", "inc_empty_store"} /\ Goto(c, "notify_empty")
             /\ "empty" \notin stale' => empty' = Inc(empty)
    <3>1. nReturning' = nReturning - 1 /\ UNCHANGED <<nClaiming, nPublishing, nUncounting>>
      BY <1>1, <2>3, ConsumerMoves
    <3>2. FullSum' = FullSum + 0
      BY <1>1, <2>1, <3>1 DEF FullSum
    <3>3. ASSUME "empty" \notin stale' PROVE \E d \in Wraps : EmptySum' = EmptySum + d
      <4>1. PICK d \in Wraps : empty' = empty + 1 + d
        BY <1>1, <2>3, <3>3, IncWraps
      <4>2. EmptySum' = EmptySum + d
        BY <1>1, <2>1, <3>1, <4>1 DEF EmptySum, Wraps
      <4> QED BY <4>2
    <3> QED BY <1>1, <2>1, <3>2, <3>3, BalancesStay
  <2> QED BY <1>5, <2>2, <2>3 DEF IncEmpty, Update, At, torn
<1> QED BY <1>2, <1>3, <1>4, <1>5

\* A step that neither counts nor changes what is left to be counted.
LEMMA QuietMove ==
  ASSUME TypeOK, Balanced, UNCHANGED <<full, empty, sent, taken, unmade, unread, stale>>,
         \A p \in Producers :
           /\ pc'[p] \in ClaimingLabels <=> pc[p] \in ClaimingLabels
           /\ pc'[p] \in PublishingLabels <=> pc[p] \in PublishingLabels,
         \A c \in Consumers :
           /\ pc'[c] \in ReturningLabels <=> pc[c] \in ReturningLabels
           /\ pc'[c] \in UncountingLabels <=> pc[c] \in UncountingLabels
  PROVE  Balanced'
<1>1. /\ Claiming' = Claiming /\ Publishing' = Publishing
      /\ Returning' = Returning /\ Uncounting' = Uncounting
  BY DEF Claiming, Publishing, Returning, Taking, Uncounting, At,
         ClaimingLabels, PublishingLabels, ReturningLabels, UncountingLabels
<1>2. UNCHANGED <<nClaiming, nPublishing, nReturning, nUncounting>>
  BY <1>1 DEF nClaiming, nPublishing, nReturning, nUncounting
<1> QED BY <1>2, QuietStep

LEMMA BalanceInvariance == Spec => []Balanced
<1>1. Init => Balanced
  BY BalancedAtFirst
<1>2. TypeOK /\ Balanced /\ [Next]_vars => Balanced'
  <2> SUFFICES ASSUME TypeOK, Balanced, [Next]_vars PROVE Balanced'
    OBVIOUS
  <2> USE QueueAssumption DEF TypeOK, Threads, Goto, At, ghosts, torn, threw,
          ClaimingLabels, PublishingLabels, ReturningLabels, UncountingLabels
  <2>1. ASSUME NEW t \in Threads, NEW op \in Calls, Call(t, op) PROVE Balanced'
    BY <2>1, QuietMove DEF Call, CallsOf
  <2>2. ASSUME NEW p \in Producers, ProducerStep(p) PROVE Balanced'
    <3>1. CASE FindEmptySpace(p) BY <3>1, QuietMove DEF FindEmptySpace
    <3>2. CASE FindNoSpace(p) BY <3>2, QuietMove DEF FindNoSpace
    <3>3. CASE SleepOnEmpty(p) BY <3>3, QuietMove DEF SleepOnEmpty
    <3>4. CASE TryPushFull(p) BY <3>4, QuietMove DEF TryPushFull
    <3>5. CASE TryPush(p) BY <3>5, QuietMove DEF TryPush
    <3>6. CASE DecEmpty(p) BY <3>6, ProducerCounts
    <3>7. CASE ClaimTail(p) BY <3>7, ProducerCounts
    <3>8. CASE LoadTail(p) BY <3>8, QuietMove DEF LoadTail
    <3>9. CASE CasTail(p) BY <3>9, ProducerCounts
    <3>10. CASE CasTailFails(p) BY <3>10, QuietMove DEF CasTailFails
    <3>11. CASE Construct(p) BY <3>11, QuietMove DEF Construct
    <3>12. CASE ConstructThrows(p) BY <3>12, ProducerCounts
    <3>13. CASE IncFull(p) BY <3>13, ProducerCounts
    <3>14. CASE NotifyFull(p) BY <3>14, QuietMove DEF NotifyFull, NotifyOne
    <3>15. CASE Close(p) BY <3>15, QuietMove DEF Close
    <3>16. CASE CloseNotify(p) BY <3>16, QuietMove DEF CloseNotify
    <3> QED
      BY <2>2, <3>1, <3>2, <3>3, <3>4, <3>5, <3>6, <3>7, <3>8, <3>9,
         <3>10, <3>11, <3>12, <3>13, <3>14, <3>15, <3>16 DEF ProducerStep
  <2>3. ASSUME NEW c \in Consumers, ConsumerStep(c) PROVE Balanced'
    <3>1. CASE FindItem(c) BY <3>1, QuietMove DEF FindItem
    <3>2. CASE FindNoItem(c) BY <3>2, QuietMove DEF FindNoItem
    <3>3. CASE FindOpen(c) BY <3>3, QuietMove DEF FindOpen
    <3>4. CASE PopClosed(c) BY <3>4, QuietMove DEF PopClosed
    <3>5. CASE SleepOnFull(c) BY <3>5, QuietMove DEF SleepOnFull
    <3>6. CASE TryPopEmpty(c) BY <3>6, QuietMove DEF TryPopEmpty
    <3>7. CASE TryPop(c) BY <3>7, QuietMove DEF TryPop
    <3>8. CASE TryPopFinished(c) BY <3>8, QuietMove DEF TryPopFinished
    <3>9. CASE ClaimHead(c) BY <3>9, ConsumerCounts
    <3>10. CASE LoadHead(c) BY <3>10, QuietMove DEF LoadHead
    <3>11. CASE CasHead(c) BY <3>11, ConsumerCounts
    <3>12. CASE CasHeadFails(c) BY <3>12, QuietMove DEF CasHeadFails
    <3>13. CASE DecFull(c) BY <3>13, ConsumerCounts
    <3>14. CASE Take(c) BY <3>14, QuietMove DEF Take
    <3>15. CASE IncEmpty(c) BY <3>15, ConsumerCounts
    <3>16. CASE NotifyEmpty(c) BY <3>16, QuietMove DEF NotifyEmpty, NotifyOne
    <3>17. CASE TakeThrows(c) BY <3>17, ConsumerCounts
    <3> QED
      BY <2>3, <3>1, <3>2, <3>3, <3>4, <3>5, <3>6, <3>7, <3>8, <3>9,
         <3>10, <3>11, <3>12, <3>13, <3>14, <3>15, <3>16, <3>17 DEF ConsumerStep
  <2>4. ASSUME NEW t \in Threads, SpuriousWakeup(t) PROVE Balanced'
    BY <2>4, QuietMove DEF SpuriousWakeup, Asleep
  <2>5. CASE Destroy
    BY <2>5, QuietMove DEF Destroy
  <2>6. CASE UNCHANGED vars
    BY <2>6, QuietMove DEF vars, control
  <2> QED
    BY <2>1, <2>2, <2>3, <2>4, <2>5, <2>6 DEF Next
<1>3. QED
  BY <1>1, <1>2, TypeCorrect, PTL DEF Spec

\* With any number of producers and consumers, torn counters, constructors and assignments
\* that throw: at every moment each counter is what the claims make it, but for the threads
\* between their claim and their update of it and for the calls that threw, unless a stale
\* value was stored to it.
THEOREM CountersAlwaysBalance == Spec => []CountersBalance
<1>1. Balanced => CountersBalance
  BY BalancedIs
<1>2. QED
  BY <1>1, BalanceInvariance, PTL

----------------------------------------------------------------------------
(* One producer, one consumer *)

\* The instances the rest of this module is about.
Spsc(p, c) ==
  /\ Producers = {p} /\ Consumers = {c}
  /\ ~MultiProducer /\ ~MultiConsumer /\ ~TornCounters /\ ~CopyThrows

\* A new queue: everything counted, nothing stored.
LEMMA SpscInit ==
  ASSUME NEW p, NEW c, Spsc(p, c), Init
  PROVE  SpscInv(p, c)
<1> USE QueueAssumption DEF Init, Spsc, Threads, At, One
<1>1. SpscControl(p, c)
  BY DEF SpscControl
<1>2. SpscCounters(p, c)
  BY DEF SpscCounters
<1>3. SpscIndices(p, c)
  <2>1. 0 % N = 0
    OBVIOUS
  <2> QED BY <2>1 DEF SpscIndices
<1>4. SpscSlots(p, c)
  BY DEF SpscSlots, FirstStored, LastStored, Slots
<1>5. SpscWakeups(p, c)
  BY DEF SpscWakeups
<1> QED BY <1>1, <1>2, <1>3, <1>4, <1>5 DEF SpscInv

\* With one producer and one consumer a step is one of theirs, or of their environment.
LEMMA SpscSteps ==
  ASSUME NEW p, NEW c, Spsc(p, c), [Next]_vars
  PROVE  /\ \/ ProducerStep(p) \/ ConsumerStep(c)
            \/ \E t \in Threads, op \in Calls : Call(t, op)
            \/ \E t \in Threads : SpuriousWakeup(t)
            \/ Destroy \/ UNCHANGED vars
         /\ ~ConstructThrows(p) /\ ~TakeThrows(c)
BY DEF Next, Spsc, ConstructThrows, TakeThrows

\* Where the threads are, and who holds the mutex.
LEMMA SpscControlStep ==
  ASSUME NEW p, NEW c, Spsc(p, c), TypeOK, TypeOK', SpscInv(p, c), [Next]_vars
  PROVE  SpscControl(p, c)'
<1> USE QueueAssumption
    DEF Spsc, Threads, TypeOK, At, Goto, ghosts, torn, threw, SpscInv, SpscControl
<1>1. CASE FindEmptySpace(p)
  BY <1>1 DEF FindEmptySpace
<1>2. CASE FindNoSpace(p)
  BY <1>2 DEF FindNoSpace
<1>3. CASE SleepOnEmpty(p)
  BY <1>3 DEF SleepOnEmpty
<1>4. CASE TryPushFull(p)
  BY <1>4 DEF TryPushFull
<1>5. CASE TryPush(p)
  BY <1>5 DEF TryPush
<1>6. CASE DecEmpty(p)
  BY <1>6 DEF DecEmpty, Update, Dec
<1>7. CASE ClaimTail(p)
  BY <1>7 DEF ClaimTail, AdvanceTail
<1>8. CASE LoadTail(p)
  BY <1>8 DEF LoadTail
<1>9. CASE CasTail(p)
  BY <1>9 DEF CasTail, AdvanceTail
<1>10. CASE CasTailFails(p)
  BY <1>10 DEF CasTailFails
<1>11. CASE Construct(p)
  BY <1>11 DEF Construct
<1>12. CASE ConstructThrows(p)
  BY <1>12 DEF ConstructThrows
<1>13. CASE IncFull(p)
  BY <1>13 DEF IncFull, Update, Inc
<1>14. CASE NotifyFull(p)
  BY <1>14 DEF NotifyFull, NotifyOne
<1>15. CASE Close(p)
  BY <1>15 DEF Close
<1>16. CASE CloseNotify(p)
  BY <1>16 DEF CloseNotify
<1>17. CASE FindItem(c)
  BY <1>17 DEF FindItem
<1>18. CASE FindNoItem(c)
  BY <1>18 DEF FindNoItem
<1>19. CASE FindOpen(c)
  BY <1>19 DEF FindOpen
<1>20. CASE PopClosed(c)
  BY <1>20 DEF PopClosed
<1>21. CASE SleepOnFull(c)
  BY <1>21 DEF SleepOnFull
<1>22. CASE TryPopEmpty(c)
  BY <1>22 DEF TryPopEmpty
<1>23. CASE TryPop(c)
  BY <1>23 DEF TryPop
<1>24. CASE TryPopFinished(c)
  BY <1>24 DEF TryPopFinished
<1>25. CASE ClaimHead(c)
  BY <1>25 DEF ClaimHead, AdvanceHead
<1>26. CASE LoadHead(c)
  BY <1>26 DEF LoadHead
<1>27. CASE CasHead(c)
  BY <1>27 DEF CasHead, AdvanceHead
<1>28. CASE CasHeadFails(c)
  BY <1>28 DEF CasHeadFails
<1>29. CASE DecFull(c)
  BY <1>29 DEF DecFull, Update, Dec
<1>30. CASE Take(c)
  BY <1>30 DEF Take
<1>31. CASE IncEmpty(c)
  BY <1>31 DEF IncEmpty, Update, Inc
<1>32. CASE NotifyEmpty(c)
  BY <1>32 DEF NotifyEmpty, NotifyOne
<1>33. CASE \E t \in Threads, op \in Calls : Call(t, op)
  <2>1. PICK t \in Threads, op \in Calls : Call(t, op)
    BY <1>33
  <2>2. CASE t = p
    BY <2>1, <2>2 DEF Call, CallsOf
  <2>3. CASE t = c
    BY <2>1, <2>3 DEF Call, CallsOf
  <2> QED BY <2>2, <2>3
<1>34. CASE \E t \in Threads : SpuriousWakeup(t)
  BY <1>34 DEF SpuriousWakeup, Asleep
<1>35. CASE Destroy
  BY <1>35 DEF Destroy
<1>36. CASE UNCHANGED vars
  BY <1>36 DEF vars, control
<1> HIDE DEF Spsc, Threads, TypeOK, At, Goto, ghosts, torn, threw, SpscInv, SpscControl
<1> QED
  BY <1>1, <1>2, <1>3, <1>4, <1>5, <1>6, <1>7, <1>8, <1>9, <1>10, <1>11, <1>12, <1>13,
     <1>14, <1>15, <1>16, <1>17, <1>18, <1>19, <1>20, <1>21, <1>22, <1>23, <1>24, <1>25,
     <1>26, <1>27, <1>28, <1>29, <1>30, <1>31, <1>32, <1>33, <1>34, <1>35, <1>36, SpscSteps
     DEF ProducerStep, ConsumerStep

\* Every increment and decrement of a counter keeps it equal to what it counts.
LEMMA SpscCountersStep ==
  ASSUME NEW p, NEW c, Spsc(p, c), TypeOK, TypeOK', SpscInv(p, c), [Next]_vars
  PROVE  SpscCounters(p, c)'
<1> USE QueueAssumption
    DEF Spsc, Threads, TypeOK, At, Goto, One, ghosts, torn, threw, SpscInv,
        SpscControl, SpscCounters
<1>1. CASE FindEmptySpace(p)
  BY <1>1 DEF FindEmptySpace
<1>2. CASE FindNoSpace(p)
  BY <1>2 DEF FindNoSpace
<1>3. CASE SleepOnEmpty(p)
  BY <1>3 DEF SleepOnEmpty
<1>4. CASE TryPushFull(p)
  BY <1>4 DEF TryPushFull
<1>5. CASE TryPush(p)
  BY <1>5 DEF TryPush
<1>6. CASE DecEmpty(p)
  BY <1>6 DEF DecEmpty, Update, Dec
<1>7. CASE ClaimTail(p)
  BY <1>7 DEF ClaimTail, AdvanceTail
<1>8. CASE LoadTail(p)
  BY <1>8 DEF LoadTail
<1>9. CASE CasTail(p)
  BY <1>9 DEF CasTail, AdvanceTail
<1>10. CASE CasTailFails(p)
  BY <1>10 DEF CasTailFails
<1>11. CASE Construct(p)
  BY <1>11 DEF Construct
<1>12. CASE ConstructThrows(p)
  BY <1>12 DEF ConstructThrows
<1>13. CASE IncFull(p)
  BY <1>13 DEF IncFull, Update, Inc
<1>14. CASE NotifyFull(p)
  BY <1>14 DEF NotifyFull, NotifyOne
<1>15. CASE Close(p)
  BY <1>15 DEF Close
<1>16. CASE CloseNotify(p)
  BY <1>16 DEF CloseNotify
<1>17. CASE FindItem(c)
  BY <1>17 DEF FindItem
<1>18. CASE FindNoItem(c)
  BY <1>18 DEF FindNoItem
<1>19. CASE FindOpen(c)
  BY <1>19 DEF FindOpen
<1>20. CASE PopClosed(c)
  BY <1>20 DEF PopClosed
<1>21. CASE SleepOnFull(c)
  BY <1>21 DEF SleepOnFull
<1>22. CASE TryPopEmpty(c)
  BY <1>22 DEF TryPopEmpty
<1>23. CASE TryPop(c)
  BY <1>23 DEF TryPop
<1>24. CASE TryPopFinished(c)
  BY <1>24 DEF TryPopFinished
<1>25. CASE ClaimHead(c)
  BY <1>25 DEF ClaimHead, AdvanceHead
<1>26. CASE LoadHead(c)
  BY <1>26 DEF LoadHead
<1>27. CASE CasHead(c)
  BY <1>27 DEF CasHead, AdvanceHead
<1>28. CASE CasHeadFails(c)
  BY <1>28 DEF CasHeadFails
<1>29. CASE DecFull(c)
  BY <1>29 DEF DecFull, Update, Dec
<1>30. CASE Take(c)
  BY <1>30 DEF Take
<1>31. CASE IncEmpty(c)
  BY <1>31 DEF IncEmpty, Update, Inc
<1>32. CASE NotifyEmpty(c)
  BY <1>32 DEF NotifyEmpty, NotifyOne
<1>33. CASE \E t \in Threads, op \in Calls : Call(t, op)
  BY <1>33 DEF Call, CallsOf
<1>34. CASE \E t \in Threads : SpuriousWakeup(t)
  BY <1>34 DEF SpuriousWakeup, Asleep
<1>35. CASE Destroy
  BY <1>35 DEF Destroy
<1>36. CASE UNCHANGED vars
  BY <1>36 DEF vars, control
<1> HIDE DEF Spsc, Threads, TypeOK, At, Goto, One, ghosts, torn, threw, SpscInv, SpscControl,
             SpscCounters
<1> QED
  BY <1>1, <1>2, <1>3, <1>4, <1>5, <1>6, <1>7, <1>8, <1>9, <1>10, <1>11, <1>12, <1>13,
     <1>14, <1>15, <1>16, <1>17, <1>18, <1>19, <1>20, <1>21, <1>22, <1>23, <1>24, <1>25,
     <1>26, <1>27, <1>28, <1>29, <1>30, <1>31, <1>32, <1>33, <1>34, <1>35, <1>36, SpscSteps
     DEF ProducerStep, ConsumerStep

\* A thread that goes to sleep has missed one notification at most, and is
\* woken by the next one.
LEMMA SpscWakeupsStep ==
  ASSUME NEW p, NEW c, Spsc(p, c), TypeOK, TypeOK', SpscInv(p, c), [Next]_vars
  PROVE  SpscWakeups(p, c)'
<1> USE QueueAssumption
    DEF Spsc, Threads, TypeOK, At, Goto, One, ghosts, torn, threw, SpscInv,
        SpscControl, SpscCounters, SpscWakeups
<1>1. CASE FindEmptySpace(p)
  BY <1>1 DEF FindEmptySpace
<1>2. CASE FindNoSpace(p)
  BY <1>2 DEF FindNoSpace
<1>3. CASE SleepOnEmpty(p)
  BY <1>3 DEF SleepOnEmpty
<1>4. CASE TryPushFull(p)
  BY <1>4 DEF TryPushFull
<1>5. CASE TryPush(p)
  BY <1>5 DEF TryPush
<1>6. CASE DecEmpty(p)
  BY <1>6 DEF DecEmpty, Update, Dec
<1>7. CASE ClaimTail(p)
  BY <1>7 DEF ClaimTail, AdvanceTail
<1>8. CASE LoadTail(p)
  BY <1>8 DEF LoadTail
<1>9. CASE CasTail(p)
  BY <1>9 DEF CasTail, AdvanceTail
<1>10. CASE CasTailFails(p)
  BY <1>10 DEF CasTailFails
<1>11. CASE Construct(p)
  BY <1>11 DEF Construct
<1>12. CASE ConstructThrows(p)
  BY <1>12 DEF ConstructThrows
<1>13. CASE IncFull(p)
  BY <1>13 DEF IncFull, Update, Inc
<1>14. CASE NotifyFull(p)
  BY <1>14 DEF NotifyFull, NotifyOne
<1>15. CASE Close(p)
  BY <1>15 DEF Close
<1>16. CASE CloseNotify(p)
  BY <1>16 DEF CloseNotify
<1>17. CASE FindItem(c)
  BY <1>17 DEF FindItem
<1>18. CASE FindNoItem(c)
  BY <1>18 DEF FindNoItem
<1>19. CASE FindOpen(c)
  BY <1>19 DEF FindOpen
<1>20. CASE PopClosed(c)
  BY <1>20 DEF PopClosed
<1>21. CASE SleepOnFull(c)
  BY <1>21 DEF SleepOnFull
<1>22. CASE TryPopEmpty(c)
  BY <1>22 DEF TryPopEmpty
<1>23. CASE TryPop(c)
  BY <1>23 DEF TryPop
<1>24. CASE TryPopFinished(c)
  BY <1>24 DEF TryPopFinished
<1>25. CASE ClaimHead(c)
  BY <1>25 DEF ClaimHead, AdvanceHead
<1>26. CASE LoadHead(c)
  BY <1>26 DEF LoadHead
<1>27. CASE CasHead(c)
  BY <1>27 DEF CasHead, AdvanceHead
<1>28. CASE CasHeadFails(c)
  BY <1>28 DEF CasHeadFails
<1>29. CASE DecFull(c)
  BY <1>29 DEF DecFull, Update, Dec
<1>30. CASE Take(c)
  BY <1>30 DEF Take
<1>31. CASE IncEmpty(c)
  BY <1>31 DEF IncEmpty, Update, Inc
<1>32. CASE NotifyEmpty(c)
  BY <1>32 DEF NotifyEmpty, NotifyOne
<1>33. CASE \E t \in Threads, op \in Calls : Call(t, op)
  BY <1>33 DEF Call, CallsOf
<1>34. CASE \E t \in Threads : SpuriousWakeup(t)
  BY <1>34 DEF SpuriousWakeup, Asleep
<1>35. CASE Destroy
  BY <1>35 DEF Destroy
<1>36. CASE UNCHANGED vars
  BY <1>36 DEF vars, control
<1> HIDE DEF Spsc, Threads, TypeOK, At, Goto, One, ghosts, torn, threw, SpscInv, SpscControl,
             SpscCounters, SpscWakeups
<1> QED
  BY <1>1, <1>2, <1>3, <1>4, <1>5, <1>6, <1>7, <1>8, <1>9, <1>10, <1>11, <1>12, <1>13,
     <1>14, <1>15, <1>16, <1>17, <1>18, <1>19, <1>20, <1>21, <1>22, <1>23, <1>24, <1>25,
     <1>26, <1>27, <1>28, <1>29, <1>30, <1>31, <1>32, <1>33, <1>34, <1>35, <1>36, SpscSteps
     DEF ProducerStep, ConsumerStep

\* The slots claimed are the tickets modulo N.
LEMMA SpscIndicesStep ==
  ASSUME NEW p, NEW c, Spsc(p, c), TypeOK, TypeOK', SpscInv(p, c), [Next]_vars
  PROVE  SpscIndices(p, c)'
<1> USE QueueAssumption
    DEF Spsc, Threads, TypeOK, At, Goto, ghosts, torn, threw, SpscInv, SpscControl, SpscIndices
<1>1. CASE FindEmptySpace(p)
  BY <1>1 DEF FindEmptySpace
<1>2. CASE FindNoSpace(p)
  BY <1>2 DEF FindNoSpace
<1>3. CASE SleepOnEmpty(p)
  BY <1>3 DEF SleepOnEmpty
<1>4. CASE TryPushFull(p)
  BY <1>4 DEF TryPushFull
<1>5. CASE TryPush(p)
  BY <1>5 DEF TryPush
<1>6. CASE DecEmpty(p)
  BY <1>6 DEF DecEmpty, Update
<1>7. CASE ClaimTail(p)
  <2>1. tail' = (sent + 1) % N
    BY <1>7, ModSucc DEF ClaimTail, AdvanceTail, NextIndex
  <2> QED BY <1>7, <2>1 DEF ClaimTail, AdvanceTail
<1>8. CASE LoadTail(p)
  BY <1>8 DEF LoadTail
<1>9. CASE CasTail(p)
  BY <1>9 DEF CasTail, AdvanceTail
<1>10. CASE CasTailFails(p)
  BY <1>10 DEF CasTailFails
<1>11. CASE Construct(p)
  BY <1>11 DEF Construct
<1>12. CASE ConstructThrows(p)
  BY <1>12 DEF ConstructThrows
<1>13. CASE IncFull(p)
  BY <1>13 DEF IncFull, Update
<1>14. CASE NotifyFull(p)
  BY <1>14 DEF NotifyFull, NotifyOne
<1>15. CASE Close(p)
  BY <1>15 DEF Close
<1>16. CASE CloseNotify(p)
  BY <1>16 DEF CloseNotify
<1>17. CASE FindItem(c)
  BY <1>17 DEF FindItem
<1>18. CASE FindNoItem(c)
  BY <1>18 DEF FindNoItem
<1>19. CASE FindOpen(c)
  BY <1>19 DEF FindOpen
<1>20. CASE PopClosed(c)
  BY <1>20 DEF PopClosed
<1>21. CASE SleepOnFull(c)
  BY <1>21 DEF SleepOnFull
<1>22. CASE TryPopEmpty(c)
  BY <1>22 DEF TryPopEmpty
<1>23. CASE TryPop(c)
  BY <1>23 DEF TryPop
<1>24. CASE TryPopFinished(c)
  BY <1>24 DEF TryPopFinished
<1>25. CASE ClaimHead(c)
  <2>1. live => head' = (taken + 1) % N
    BY <1>25, ModSucc DEF ClaimHead, AdvanceHead, NextIndex
  <2> QED BY <1>25, <2>1 DEF ClaimHead, AdvanceHead
<1>26. CASE LoadHead(c)
  BY <1>26 DEF LoadHead
<1>27. CASE CasHead(c)
  BY <1>27 DEF CasHead, AdvanceHead
<1>28. CASE CasHeadFails(c)
  BY <1>28 DEF CasHeadFails
<1>29. CASE DecFull(c)
  BY <1>29 DEF DecFull, Update
<1>30. CASE Take(c)
  BY <1>30 DEF Take
<1>31. CASE IncEmpty(c)
  BY <1>31 DEF IncEmpty, Update
<1>32. CASE NotifyEmpty(c)
  BY <1>32 DEF NotifyEmpty, NotifyOne
<1>33. CASE \E t \in Threads, op \in Calls : Call(t, op)
  <2>1. PICK t \in Threads, op \in Calls : Call(t, op)
    BY <1>33
  <2>2. CASE t = p
    BY <2>1, <2>2 DEF Call, CallsOf
  <2>3. CASE t = c
    BY <2>1, <2>3 DEF Call, CallsOf
  <2> QED BY <2>2, <2>3
<1>34. CASE \E t \in Threads : SpuriousWakeup(t)
  BY <1>34 DEF SpuriousWakeup, Asleep
<1>35. CASE Destroy
  BY <1>35 DEF Destroy
<1>36. CASE UNCHANGED vars
  BY <1>36 DEF vars, control
<1> HIDE DEF Spsc, Threads, TypeOK, At, Goto, ghosts, torn, threw, SpscInv, SpscControl, SpscIndices
<1> QED
  BY <1>1, <1>2, <1>3, <1>4, <1>5, <1>6, <1>7, <1>8, <1>9, <1>10, <1>11, <1>12, <1>13,
     <1>14, <1>15, <1>16, <1>17, <1>18, <1>19, <1>20, <1>21, <1>22, <1>23, <1>24, <1>25,
     <1>26, <1>27, <1>28, <1>29, <1>30, <1>31, <1>32, <1>33, <1>34, <1>35, <1>36, SpscSteps
     DEF ProducerStep, ConsumerStep

\* The slots of tickets less than N apart.
LEMMA SlotsOfTickets ==
  ASSUME NEW a \in Nat
  PROVE  /\ a % N \in Slots
         /\ \A b \in Nat : (a < b /\ b < a + N) => a % N # b % N
<1>1. N \in Nat \ {0}
  BY QueueAssumption
<1>2. a % N \in Slots
  BY <1>1, DivMod DEF Slots
<1>3. QED
  BY <1>1, <1>2, ModDiffers

\* The ring holds the stored tickets, each in its slot.
LEMMA SpscSlotsStep ==
  ASSUME NEW p, NEW c, Spsc(p, c), TypeOK, TypeOK', SpscInv(p, c), [Next]_vars
  PROVE  SpscSlots(p, c)'
<1> USE QueueAssumption DEF Spsc, Threads, TypeOK, At, Goto, ghosts, torn, threw, One
<1> DEFINE lo == FirstStored(c)
           hi == LastStored(p)
<1>0. ASSUME lo' = lo, hi' = hi, fifo' = fifo, live' = live
      PROVE  SpscSlots(p, c)'
  BY <1>0 DEF SpscInv, SpscSlots
<1>1. CASE FindEmptySpace(p)
  BY <1>0, <1>1 DEF FindEmptySpace, FirstStored, LastStored
<1>2. CASE FindNoSpace(p)
  BY <1>0, <1>2 DEF FindNoSpace, FirstStored, LastStored
<1>3. CASE SleepOnEmpty(p)
  BY <1>0, <1>3 DEF SleepOnEmpty, FirstStored, LastStored
<1>4. CASE TryPushFull(p)
  BY <1>0, <1>4 DEF TryPushFull, FirstStored, LastStored
<1>5. CASE TryPush(p)
  BY <1>0, <1>5 DEF TryPush, FirstStored, LastStored
<1>6. CASE DecEmpty(p)
  BY <1>0, <1>6 DEF DecEmpty, Update, FirstStored, LastStored, SpscInv, SpscControl
<1>7. CASE ClaimTail(p)
  BY <1>0, <1>7 DEF ClaimTail, AdvanceTail, FirstStored, LastStored
<1>8. CASE LoadTail(p)
  BY <1>0, <1>8 DEF LoadTail, FirstStored, LastStored
<1>9. CASE CasTail(p)
  BY <1>0, <1>9 DEF CasTail, AdvanceTail, FirstStored, LastStored
<1>10. CASE CasTailFails(p)
  BY <1>0, <1>10 DEF CasTailFails, FirstStored, LastStored
<1>11. CASE Construct(p)
  <2>1. fifo' = [fifo EXCEPT ![(sent - 1) % N] = sent - 1] /\ live' = live
    BY <1>11 DEF Construct, SpscInv, SpscIndices
  <2>2. lo' = lo /\ hi' = sent - 1 /\ hi = sent - 2 /\ sent - 1 \in Nat /\ lo \in Nat
    BY <1>11 DEF Construct, FirstStored, LastStored, SpscInv, SpscIndices
  <2>3. sent - 1 < lo + N
    BY <1>11 DEF Construct, FirstStored, SpscInv, SpscCounters
  <2>4. \A k \in lo .. hi : k % N \in Slots /\ k % N # (sent - 1) % N
    <3> SUFFICES ASSUME NEW k \in lo .. hi
                 PROVE  k % N \in Slots /\ k % N # (sent - 1) % N
      OBVIOUS
    <3>1. k \in Nat /\ k < sent - 1 /\ sent - 1 < k + N
      BY <2>2, <2>3
    <3> QED BY <2>2, <3>1, SlotsOfTickets
  <2>5. (sent - 1) % N \in Slots
    BY <2>2, SlotsOfTickets
  <2>6. ASSUME live PROVE \A k \in lo .. sent - 1 : fifo'[k % N] = k
    <3> SUFFICES ASSUME NEW k \in lo .. sent - 1 PROVE fifo'[k % N] = k
      OBVIOUS
    <3>1. CASE k = sent - 1
      BY <2>1, <2>2, <2>5, <3>1
    <3>2. CASE k \in lo .. hi
      BY <2>1, <2>4, <2>6, <3>2 DEF SpscInv, SpscSlots
    <3> QED BY <2>2, <3>1, <3>2
  <2>7. ASSUME live, NEW i \in Slots, fifo'[i] # Raw
        PROVE  fifo'[i] \in lo .. sent - 1 /\ fifo'[i] % N = i
    <3>1. CASE i = (sent - 1) % N
      <4>1. lo <= sent - 1
        BY <1>11 DEF Construct, FirstStored, SpscInv, SpscCounters
      <4> QED BY <2>1, <2>2, <2>5, <3>1, <4>1
    <3>2. CASE i # (sent - 1) % N
      <4>1. fifo'[i] = fifo[i]
        BY <2>1, <3>2
      <4>2. fifo[i] \in lo .. hi /\ fifo[i] % N = i
        BY <2>1, <2>7, <4>1 DEF SpscInv, SpscSlots
      <4> QED BY <2>2, <4>1, <4>2
    <3> QED BY <3>1, <3>2
  <2> QED BY <2>1, <2>2, <2>6, <2>7 DEF SpscSlots
<1>12. CASE ConstructThrows(p)
  BY <1>0, <1>12 DEF ConstructThrows, FirstStored, LastStored
<1>13. CASE IncFull(p)
  BY <1>0, <1>13 DEF IncFull, Update, FirstStored, LastStored, SpscInv, SpscControl
<1>14. CASE NotifyFull(p)
  BY <1>0, <1>14 DEF NotifyFull, NotifyOne, FirstStored, LastStored
<1>15. CASE Close(p)
  BY <1>0, <1>15 DEF Close, FirstStored, LastStored
<1>16. CASE CloseNotify(p)
  BY <1>0, <1>16 DEF CloseNotify, FirstStored, LastStored
<1>17. CASE FindItem(c)
  BY <1>0, <1>17 DEF FindItem, FirstStored, LastStored
<1>18. CASE FindNoItem(c)
  BY <1>0, <1>18 DEF FindNoItem, FirstStored, LastStored
<1>19. CASE FindOpen(c)
  BY <1>0, <1>19 DEF FindOpen, FirstStored, LastStored
<1>20. CASE PopClosed(c)
  BY <1>0, <1>20 DEF PopClosed, FirstStored, LastStored
<1>21. CASE SleepOnFull(c)
  BY <1>0, <1>21 DEF SleepOnFull, FirstStored, LastStored
<1>22. CASE TryPopEmpty(c)
  BY <1>0, <1>22 DEF TryPopEmpty, FirstStored, LastStored
<1>23. CASE TryPop(c)
  BY <1>0, <1>23 DEF TryPop, FirstStored, LastStored
<1>24. CASE TryPopFinished(c)
  BY <1>0, <1>24 DEF TryPopFinished, FirstStored, LastStored
<1>25. CASE ClaimHead(c)
  BY <1>0, <1>25 DEF ClaimHead, AdvanceHead, FirstStored, LastStored
<1>26. CASE LoadHead(c)
  BY <1>0, <1>26 DEF LoadHead, FirstStored, LastStored
<1>27. CASE CasHead(c)
  BY <1>0, <1>27 DEF CasHead, AdvanceHead, FirstStored, LastStored
<1>28. CASE CasHeadFails(c)
  BY <1>0, <1>28 DEF CasHeadFails, FirstStored, LastStored
<1>29. CASE DecFull(c)
  BY <1>0, <1>29 DEF DecFull, Update, FirstStored, LastStored, SpscInv, SpscControl
<1>30. CASE Take(c)
  <2>1. fifo' = [fifo EXCEPT ![(taken - 1) % N] = Raw] /\ live' = live
    BY <1>30 DEF Take, SpscInv, SpscIndices
  <2>2. hi' = hi /\ lo' = taken /\ lo = taken - 1 /\ lo \in Nat /\ hi \in Int
    BY <1>30 DEF Take, FirstStored, LastStored, SpscInv, SpscIndices
  <2>3. hi < lo + N
    BY <1>30 DEF Take, FirstStored, LastStored, SpscInv, SpscCounters
  <2>4. \A k \in taken .. hi : k % N \in Slots /\ k % N # (taken - 1) % N
    <3> SUFFICES ASSUME NEW k \in taken .. hi
                 PROVE  k % N \in Slots /\ k % N # (taken - 1) % N
      OBVIOUS
    <3>1. k \in Nat /\ taken - 1 < k /\ k < taken - 1 + N /\ taken - 1 \in Nat
      BY <2>2, <2>3
    <3> QED BY <3>1, SlotsOfTickets
  <2>5. (taken - 1) % N \in Slots
    BY <2>2, SlotsOfTickets
  <2>6. ASSUME live PROVE \A k \in taken .. hi : fifo'[k % N] = k
    <3> SUFFICES ASSUME NEW k \in taken .. hi PROVE fifo'[k % N] = k
      OBVIOUS
    <3>1. fifo[k % N] = k
      BY <2>2, <2>6 DEF SpscInv, SpscSlots
    <3> QED BY <2>1, <2>4, <3>1
  <2>7. ASSUME live, NEW i \in Slots, fifo'[i] # Raw
        PROVE  fifo'[i] \in taken .. hi /\ fifo'[i] % N = i
    <3>1. i # (taken - 1) % N
      BY <2>1, <2>5, <2>7
    <3>2. fifo'[i] = fifo[i] /\ fifo[i] \in lo .. hi /\ fifo[i] % N = i
      BY <2>1, <2>7, <3>1 DEF SpscInv, SpscSlots
    <3> QED BY <2>2, <3>1, <3>2
  <2> QED BY <2>1, <2>2, <2>6, <2>7 DEF SpscSlots
<1>31. CASE IncEmpty(c)
  BY <1>0, <1>31 DEF IncEmpty, Update, FirstStored, LastStored, SpscInv, SpscControl
<1>32. CASE NotifyEmpty(c)
  BY <1>0, <1>32 DEF NotifyEmpty, NotifyOne, FirstStored, LastStored
<1>33. CASE \E t \in Threads, op \in Calls : Call(t, op)
  <2>1. PICK t \in Threads, op \in Calls : Call(t, op)
    BY <1>33
  <2>2. CASE t = p
    BY <2>1, <2>2, <1>0 DEF FirstStored, LastStored, Call, CallsOf
  <2>3. CASE t = c
    BY <2>1, <2>3, <1>0 DEF FirstStored, LastStored, Call, CallsOf
  <2> QED BY <2>2, <2>3
<1>34. CASE \E t \in Threads : SpuriousWakeup(t)
  BY <1>34, <1>0 DEF FirstStored, LastStored, SpuriousWakeup, Asleep
<1>35. CASE Destroy
  BY <1>35 DEF Destroy, SpscSlots
<1>36. CASE UNCHANGED vars
  BY <1>36, <1>0 DEF FirstStored, LastStored, vars, control
<1> HIDE DEF Spsc, Threads, TypeOK, At, Goto, ghosts, torn, threw, One
<1> QED
  BY <1>1, <1>2, <1>3, <1>4, <1>5, <1>6, <1>7, <1>8, <1>9, <1>10, <1>11, <1>12, <1>13,
     <1>14, <1>15, <1>16, <1>17, <1>18, <1>19, <1>20, <1>21, <1>22, <1>23, <1>24, <1>25,
     <1>26, <1>27, <1>28, <1>29, <1>30, <1>31, <1>32, <1>33, <1>34, <1>35, <1>36, SpscSteps
     DEF ProducerStep, ConsumerStep

\* QueueIsCoherent is inductive.
THEOREM SpscInvariance ==
  ASSUME NEW p, NEW c, Spsc(p, c)
  PROVE  Spec => []SpscInv(p, c)
<1>1. Init => SpscInv(p, c)
  BY SpscInit
<1>2. TypeOK /\ TypeOK' /\ SpscInv(p, c) /\ [Next]_vars => SpscInv(p, c)'
  BY SpscControlStep, SpscCountersStep, SpscIndicesStep, SpscSlotsStep,
     SpscWakeupsStep DEF SpscInv
<1>3. QED
  BY <1>1, <1>2, TypeCorrect, PTL DEF Spec

\* A push never constructs over an item: for one producer and one consumer,
\* any capacity and any number of calls.
THEOREM SpscNoOverwrite ==
  ASSUME NEW p, NEW c, Spsc(p, c)
  PROVE  Spec => []NoOverwrite
<1>1. TypeOK /\ SpscInv(p, c) => NoOverwrite
  <2> SUFFICES ASSUME TypeOK, SpscInv(p, c), At(p, "construct"),
                      fifo[idx[p]] # Raw
               PROVE  FALSE
    BY DEF NoOverwrite, Spsc
  <2> DEFINE k == fifo[idx[p]]
  <2>1. /\ idx[p] = (sent - 1) % N /\ idx[p] \in Slots
        /\ sent \in Nat /\ sent - 1 \in Nat
    BY DEF SpscInv, SpscIndices, TypeOK, Threads, Spsc
  <2>2. live
    BY DEF SpscInv, SpscControl, At
  <2>3. k \in FirstStored(c) .. sent - 2 /\ k % N = (sent - 1) % N
    BY <2>1, <2>2 DEF SpscInv, SpscSlots, LastStored, One, TypeOK
  <2>4. FirstStored(c) \in Nat /\ sent - 1 < FirstStored(c) + N
    BY QueueAssumption
       DEF SpscInv, SpscIndices, SpscCounters, FirstStored, One, TypeOK, At
  <2>5. k \in Nat /\ k < sent - 1 /\ sent - 1 < k + N
    BY <2>1, <2>3, <2>4, QueueAssumption
  <2> QED BY <2>1, <2>3, <2>5, SlotsOfTickets
<1>2. QED
  BY <1>1, TypeCorrect, SpscInvariance, PTL

\* Pop number k takes item number k.
THEOREM SpscTakesItsItem ==
  ASSUME NEW p, NEW c, Spsc(p, c)
  PROVE  Spec => []TakesItsItem
<1>1. TypeOK /\ SpscInv(p, c) => TakesItsItem
  <2> SUFFICES ASSUME TypeOK, SpscInv(p, c), At(c, "take")
               PROVE  fifo[idx[c]] = tk[c]
    BY DEF TakesItsItem, Spsc
  <2>1. idx[c] = (taken - 1) % N /\ tk[c] = taken - 1
    BY DEF SpscInv, SpscIndices, At
  <2>2. live
    BY DEF SpscInv, SpscControl, At
  <2>3. taken - 1 \in FirstStored(c) .. LastStored(p)
    BY DEF SpscInv, SpscIndices, SpscCounters, FirstStored, LastStored, One,
           TypeOK, At
  <2> QED BY <2>1, <2>2, <2>3 DEF SpscInv, SpscSlots
<1>2. QED
  BY <1>1, TypeCorrect, SpscInvariance, PTL

\* With at least two slots a push and a pop never sleep at the same time.
THEOREM SpscNoMutualSleep ==
  ASSUME NEW p, NEW c, Spsc(p, c), N >= 2
  PROVE  Spec => []NoMutualSleep
<1>1. SpscInv(p, c) => NoMutualSleep
  BY DEF SpscInv, SpscWakeups, NoMutualSleep, Spsc, At
<1>2. QED
  BY <1>1, SpscInvariance, PTL

\* The invariant of the run, for every capacity.
THEOREM SpscQueueIsCoherent ==
  ASSUME NEW p, NEW c, Spsc(p, c)
  PROVE  Spec => []QueueIsCoherent
<1>1. SpscInv(p, c) => QueueIsCoherent
  BY DEF QueueIsCoherent, Spsc
<1>2. QED
  BY <1>1, SpscInvariance, PTL

\* The sets of the properties, with one thread on each side.
LEMMA SpscCardinalities ==
  ASSUME NEW p, NEW c, Spsc(p, c), SpscControl(p, c)
  PROVE  /\ Cardinality(Producers) = 1
         /\ Cardinality(Publishing) = One(pc[p] \in {"construct", "inc_full"})
         /\ Cardinality(Taking) = One(pc[c] \in {"dec_full", "take"})
<1>1. Cardinality({}) = 0 /\ Cardinality({p}) = 1 /\ Cardinality({c}) = 1
  BY FS_EmptySet, FS_Singleton
<1>2. Publishing = IF pc[p] \in {"construct", "inc_full"} THEN {p} ELSE {}
  BY DEF Spsc, SpscControl, Publishing
<1>3. Taking = IF pc[c] \in {"dec_full", "take"} THEN {c} ELSE {}
  BY DEF Spsc, SpscControl, Taking, Uncounting, At
<1> QED BY <1>1, <1>2, <1>3 DEF Spsc, One

----------------------------------------------------------------------------
(* The abstract queue *)

\* A reader that finds no item and then no open queue left one item behind at most: the
\* one that was counted between the two.
THEOREM SpscClosedLeavesFew ==
  ASSUME NEW p, NEW c, Spsc(p, c)
  PROVE  Spec => ClosedLeavesFew
<1>1. TypeOK /\ SpscInv(p, c) /\ [Next]_vars => [LeavesFew]_vars
  <2> SUFFICES ASSUME TypeOK, SpscInv(p, c), PopClosed(c)
               PROVE  Backlog <= Cardinality(Producers)
    BY DEF LeavesFew, Spsc
  <2>1. /\ Cardinality(Publishing) = One(pc[p] \in {"construct", "inc_full"})
        /\ Cardinality(Producers) = 1
    BY SpscCardinalities DEF SpscInv
  <2>2. sent - One(pc[p] \in {"construct", "inc_full"}) - taken <= 1
    BY QueueAssumption
       DEF PopClosed, SpscInv, SpscCounters, SpscWakeups, At, One, TypeOK
  <2> QED BY <2>1, <2>2 DEF Backlog
<1>2. QED
  BY <1>1, TypeCorrect, SpscInvariance, PTL DEF Spec, ClosedLeavesFew

\* Tickets in a row, as a sequence.
Consecutive(first, n) == [i \in 1 .. n |-> first + i - 1]

\* One more at the end, or one less at the front, of tickets in a row.
LEMMA ConsecutiveTickets ==
  ASSUME NEW first \in Nat, NEW n \in Nat
  PROVE  /\ Consecutive(first, n) \in Seq(Nat) /\ Len(Consecutive(first, n)) = n
         /\ Append(Consecutive(first, n), first + n) = Consecutive(first, n + 1)
         /\ n > 0 => /\ Consecutive(first, n) # <<>>
                     /\ Head(Consecutive(first, n)) = first
                     /\ Tail(Consecutive(first, n)) = Consecutive(first + 1, n - 1)
<1>1. Consecutive(first, n) \in Seq(Nat) /\ Len(Consecutive(first, n)) = n
  BY DEF Consecutive
<1>2. Append(Consecutive(first, n), first + n) = Consecutive(first, n + 1)
  BY <1>1 DEF Consecutive
<1>3. ASSUME n > 0
      PROVE  /\ Consecutive(first, n) # <<>>
             /\ Head(Consecutive(first, n)) = first
             /\ Tail(Consecutive(first, n)) = Consecutive(first + 1, n - 1)
  <2>1. Consecutive(first, n) # <<>> /\ Head(Consecutive(first, n)) = first
    BY <1>1, <1>3 DEF Consecutive
  <2>2. Tail(Consecutive(first, n)) = Consecutive(first + 1, n - 1)
    <3> DEFINE s == Consecutive(first, n)
               t == Consecutive(first + 1, n - 1)
    <3>1. /\ Tail(s) \in Seq(Nat) /\ Len(Tail(s)) = n - 1
          /\ \A i \in 1 .. n - 1 : Tail(s)[i] = s[i + 1]
      BY <1>1, <2>1, HeadTailProperties
    <3>2. t \in Seq(Nat) /\ Len(t) = n - 1
      BY <1>3 DEF Consecutive
    <3>3. \A i \in 1 .. n - 1 : t[i] = s[i + 1]
      BY <1>3 DEF Consecutive
    <3> QED BY <3>1, <3>2, <3>3, SeqEqual
  <2> QED BY <2>1, <2>2
<1> QED BY <1>1, <1>2, <1>3

\* How many items are counted and not taken.
Counted(p, c) == sent - One(pc[p] \in {"construct", "inc_full"}) - FirstStored(c)

\* What the queue holds: the tickets from the first one not taken.
ContentsAre(p, c) ==
  /\ FirstStored(c) \in Nat /\ Counted(p, c) \in 0 .. N
  /\ Contents = IF live THEN Consecutive(FirstStored(c), Counted(p, c)) ELSE <<>>

LEMMA SpscContents ==
  ASSUME NEW p, NEW c, Spsc(p, c)
  PROVE  Spec => []ContentsAre(p, c)
<1>1. TypeOK /\ SpscInv(p, c) => ContentsAre(p, c)
  <2> SUFFICES ASSUME TypeOK, SpscInv(p, c) PROVE ContentsAre(p, c)
    OBVIOUS
  <2>1. FirstStored(c) \in Nat /\ Counted(p, c) \in 0 .. N
    BY QueueAssumption
       DEF Counted, FirstStored, SpscInv, SpscCounters, SpscIndices, At, One, TypeOK
  <2>2. FirstTicket = FirstStored(c)
    BY SpscCardinalities DEF FirstTicket, FirstStored, SpscInv
  <2>3. sent - Cardinality(Publishing) - FirstTicket = Counted(p, c)
    BY <2>2, SpscCardinalities DEF Counted, SpscInv
  <2>4. ASSUME live, NEW i \in 1 .. Counted(p, c)
        PROVE  fifo[(FirstTicket + i - 1) % N] = FirstStored(c) + i - 1
    <3>1. FirstStored(c) + i - 1 \in FirstStored(c) .. LastStored(p)
      BY <2>1 DEF Counted, FirstStored, LastStored, One, At, TypeOK
    <3> QED BY <2>2, <2>4, <3>1 DEF SpscInv, SpscSlots
  <2> QED BY <2>1, <2>2, <2>3, <2>4 DEF ContentsAre, Contents, Consecutive
<1>2. QED
  BY <1>1, TypeCorrect, SpscInvariance, PTL

\* Each claim of tail belongs to a call.
LEMMA SpscCallsInvariance ==
  ASSUME NEW p, NEW c, Spsc(p, c)
  PROVE  Spec => []SpscCalls(p)
<1> USE QueueAssumption
    DEF Spsc, Threads, TypeOK, At, Goto, One, ghosts, torn, threw, SpscCalls
<1>1. Init => SpscCalls(p)
  BY DEF Init
<1>2. TypeOK /\ SpscControl(p, c) /\ SpscCalls(p) /\ [Next]_vars => SpscCalls(p)'
  <2> SUFFICES ASSUME TypeOK, SpscControl(p, c), SpscCalls(p), [Next]_vars
               PROVE  SpscCalls(p)'
    OBVIOUS
  <2>1. ASSUME ProducerStep(p) PROVE SpscCalls(p)'
    BY <2>1
       DEF ProducerStep, FindEmptySpace, FindNoSpace, SleepOnEmpty, TryPushFull, TryPush,
           DecEmpty, ClaimTail, LoadTail, CasTail, CasTailFails, AdvanceTail, Construct,
           ConstructThrows, IncFull, NotifyFull, NotifyOne, Close, CloseNotify, Update,
           SpscControl
  <2>2. ASSUME ConsumerStep(c) PROVE SpscCalls(p)'
    BY <2>2
       DEF ConsumerStep, TakeThrows, FindItem, FindNoItem, FindOpen, PopClosed, SleepOnFull,
           TryPopEmpty, TryPop, TryPopFinished, ClaimHead, LoadHead, CasHead,
           CasHeadFails, AdvanceHead, DecFull, Take, IncEmpty, NotifyEmpty, NotifyOne,
           Update
  <2>3. ASSUME NEW t \in Threads, NEW op \in Calls, Call(t, op) PROVE SpscCalls(p)'
    BY <2>3 DEF Call
  <2>4. ASSUME NEW t \in Threads, SpuriousWakeup(t) PROVE SpscCalls(p)'
    BY <2>4 DEF SpuriousWakeup, Asleep
  <2>5. CASE Destroy \/ UNCHANGED vars
    BY <2>5 DEF Destroy, vars, control
  <2> QED BY <2>1, <2>2, <2>3, <2>4, <2>5 DEF Next
<1>3. QED
  BY <1>1, <1>2, TypeCorrect, SpscInvariance, PTL DEF Spec, SpscInv

\* A step that neither counts nor takes an item changes nothing of the abstract queue.
LEMMA SpscHiddenStep ==
  ASSUME NEW p, NEW c, ContentsAre(p, c), ContentsAre(p, c)',
         UNCHANGED <<FirstStored(c), Counted(p, c), live, got>>
  PROVE  UNCHANGED <<Contents, got>>
BY DEF ContentsAre

\* The two steps that do, and the destructor.
LEMMA SpscVisibleStep ==
  ASSUME NEW p, NEW c, Spsc(p, c), TypeOK, SpscInv(p, c), SpscCalls(p),
         ContentsAre(p, c), ContentsAre(p, c)',
         IncFull(p) \/ Take(c) \/ Destroy
  PROVE  Fifo!Next
<1> DEFINE lo == FirstStored(c)
           n == Counted(p, c)
<1>0. lo \in Nat /\ n \in 0 .. N /\ n \in Nat
  BY QueueAssumption DEF ContentsAre
<1> HIDE DEF lo, n
<1>a. /\ Len(Consecutive(lo, n)) = n
      /\ Append(Consecutive(lo, n), lo + n) = Consecutive(lo, n + 1)
      /\ n > 0 => /\ Consecutive(lo, n) # <<>>
                  /\ Head(Consecutive(lo, n)) = lo
                  /\ Tail(Consecutive(lo, n)) = Consecutive(lo + 1, n - 1)
  BY <1>0, ConsecutiveTickets
<1> USE QueueAssumption DEF lo, n, Spsc, Threads, TypeOK, At, Goto, One, ghosts, torn, threw
<1>1. CASE IncFull(p)
  <2>1. At(p, "inc_full") /\ live /\ ~TornCounters
    BY <1>1 DEF IncFull, Update, SpscInv, SpscControl
  <2>2. lo' = lo /\ n' = n + 1 /\ live' /\ got' = got /\ lo + n = sent - 1
    BY <1>1, <2>1 DEF IncFull, Update, FirstStored, Counted
  <2>3. n < N
    BY <2>1 DEF SpscInv, SpscCounters, SpscIndices, FirstStored, Counted
  <2>4. Contents' = Append(Contents, lo + n) /\ Len(Contents) < N
    <3>1. Contents = Consecutive(lo, n) /\ Contents' = Consecutive(lo, n + 1)
      BY <2>1, <2>2 DEF ContentsAre, Consecutive
    <3> HIDE DEF lo, n
    <3> QED BY <1>a, <2>3, <3>1
  <2>5. lo + n \in Tickets
    <3>1. sent <= MaxCalls /\ sent - 1 \in Nat
      BY <1>0, <2>2 DEF SpscCalls
    <3>2. Cardinality(Producers) = 1
      BY SpscCardinalities DEF SpscInv
    <3> QED BY <2>2, <3>1, <3>2 DEF Tickets
  <2> QED BY <2>2, <2>4, <2>5 DEF Fifo!Next, Fifo!Accept
<1>2. CASE Take(c)
  <2>1. At(c, "take") /\ live
    BY <1>2 DEF Take, SpscInv, SpscControl
  <2>2. lo' = lo + 1 /\ n' = n - 1 /\ live' /\ lo = taken - 1
    BY <1>2, <2>1 DEF Take, FirstStored, Counted
  <2>3. n > 0
    BY <2>1 DEF SpscInv, SpscCounters, FirstStored, Counted
  <2>4. got' = lo
    <3>1. got' = fifo[(taken - 1) % N]
      BY <1>2, <2>1 DEF Take, SpscInv, SpscIndices
    <3>2. taken - 1 \in FirstStored(c) .. LastStored(p)
      BY <1>0, <2>2, <2>3 DEF Counted, LastStored
    <3> QED BY <2>1, <2>2, <3>1, <3>2 DEF SpscInv, SpscSlots
  <2>5. /\ Contents # <<>> /\ got' = Head(Contents)
        /\ Contents' = Tail(Contents)
    <3>1. Contents = Consecutive(lo, n) /\ Contents' = Consecutive(lo + 1, n - 1)
      BY <2>1, <2>2 DEF ContentsAre, Consecutive
    <3> HIDE DEF lo, n
    <3> QED BY <1>a, <2>3, <2>4, <3>1
  <2> QED BY <2>5 DEF Fifo!Next, Fifo!HandOut
<1>3. CASE Destroy
  BY <1>3 DEF Destroy, ContentsAre, Fifo!Next, Fifo!Discard
<1> QED BY <1>1, <1>2, <1>3

\* With one producer and one consumer the queue is a bounded FIFO: an item enters it
\* when full counts it and leaves it when pop moves it out of its slot.
THEOREM SpscRefinesFifo ==
  ASSUME NEW p, NEW c, Spsc(p, c)
  PROVE  Spec => ImplementsFifo
<1>1. Init => Fifo!Init
  <2> SUFFICES ASSUME Init PROVE Fifo!Init
    OBVIOUS
  <2>1. SpscControl(p, c)
    BY SpscInit DEF SpscInv
  <2>2. Cardinality(Publishing) = 0 /\ Cardinality(Taking) = 0
    BY <2>1, SpscCardinalities DEF Init, One, Spsc, Threads
  <2>3. sent - Cardinality(Publishing) - FirstTicket = 0
    BY <2>2 DEF Init, FirstTicket
  <2>4. Contents = <<>>
    BY <2>3 DEF Contents
  <2> QED BY <2>4 DEF Init, Fifo!Init
<1>2. /\ TypeOK /\ SpscInv(p, c) /\ SpscCalls(p)
      /\ ContentsAre(p, c) /\ ContentsAre(p, c)' /\ [Next]_vars
      => [Fifo!Next]_<<Contents, got>>
  <2> SUFFICES ASSUME TypeOK, SpscInv(p, c), SpscCalls(p),
                      ContentsAre(p, c), ContentsAre(p, c)', [Next]_vars
               PROVE  [Fifo!Next]_<<Contents, got>>
    OBVIOUS
  <2>1. CASE IncFull(p) \/ Take(c) \/ Destroy
    BY <2>1, SpscVisibleStep
  <2>2. ASSUME [Next]_vars, ~IncFull(p), ~Take(c), ~Destroy
        PROVE  UNCHANGED <<FirstStored(c), Counted(p, c), live, got>>
    <3> USE QueueAssumption
        DEF Spsc, Threads, TypeOK, At, Goto, One, ghosts, torn, threw, FirstStored, Counted,
            SpscInv, SpscControl
    <3>1. ASSUME ProducerStep(p)
          PROVE  UNCHANGED <<FirstStored(c), Counted(p, c), live, got>>
      BY <2>2, <3>1
         DEF ProducerStep, FindEmptySpace, FindNoSpace, SleepOnEmpty, TryPushFull,
             TryPush, DecEmpty, ClaimTail, LoadTail, CasTail, CasTailFails, AdvanceTail,
             Construct, ConstructThrows, NotifyFull, NotifyOne, Close, CloseNotify, Update
    <3>2. ASSUME ConsumerStep(c)
          PROVE  UNCHANGED <<FirstStored(c), Counted(p, c), live, got>>
      BY <2>2, <3>2
         DEF ConsumerStep, TakeThrows, FindItem, FindNoItem, FindOpen, PopClosed, SleepOnFull,
             TryPopEmpty, TryPop, TryPopFinished, ClaimHead, LoadHead, CasHead,
             CasHeadFails, AdvanceHead, DecFull, IncEmpty, NotifyEmpty, NotifyOne, Update
    <3>3. ASSUME NEW t \in Threads, NEW op \in Calls, Call(t, op)
          PROVE  UNCHANGED <<FirstStored(c), Counted(p, c), live, got>>
      BY <3>3 DEF Call, CallsOf
    <3>4. ASSUME NEW t \in Threads, SpuriousWakeup(t)
          PROVE  UNCHANGED <<FirstStored(c), Counted(p, c), live, got>>
      BY <3>4 DEF SpuriousWakeup, Asleep
    <3>5. CASE UNCHANGED vars
      BY <3>5 DEF vars, control
    <3> QED BY <2>2, <3>1, <3>2, <3>3, <3>4, <3>5 DEF Next
  <2> QED BY <2>1, <2>2, SpscHiddenStep
<1>3. QED
  BY <1>1, <1>2, TypeCorrect, SpscInvariance, SpscCallsInvariance, SpscContents, PTL
     DEF Spec, ImplementsFifo, Fifo!Spec

\* What the destructor leaves: with one producer and one consumer the ring holds the
\* items of the tickets from taken up to sent, and the slots between head and tail are
\* exactly theirs, unless the ring is full.
LEMMA SpscDestroyStep ==
  ASSUME NEW p, NEW c, Spsc(p, c), TypeOK, SpscInv(p, c), Destroy
  PROVE  DestroysAllOrNone'
<1> USE QueueAssumption DEF Spsc, Threads, TypeOK
<1>1. /\ live /\ At(p, "idle") /\ At(c, "idle")
      /\ fifo' = [i \in Slots |-> IF InRange(i) THEN Raw ELSE fifo[i]]
  BY DEF Destroy
<1>2. /\ taken \in Nat /\ sent \in Nat /\ taken <= sent /\ sent <= taken + N
      /\ head = taken % N /\ tail = sent % N
      /\ FirstStored(c) = taken /\ LastStored(p) = sent - 1
  BY <1>1 DEF SpscInv, SpscCounters, SpscIndices, FirstStored, LastStored, One, At
<1>3. /\ \A k \in taken .. sent - 1 : fifo[k % N] = k
      /\ \A i \in Slots : fifo[i] # Raw =>
           fifo[i] \in taken .. sent - 1 /\ fifo[i] % N = i
  BY <1>1, <1>2 DEF SpscInv, SpscSlots
<1>4. CASE sent < taken + N
  <2>1. ASSUME NEW i \in Slots PROVE fifo'[i] = Raw
    <3>1. CASE fifo[i] = Raw
      BY <1>1, <3>1
    <3>2. CASE fifo[i] # Raw
      <4> DEFINE k == fifo[i]
      <4>0. k \in taken .. sent - 1 /\ k % N = i
        BY <1>3, <3>2
      <4> HIDE DEF k
      <4>1. k \in Nat /\ taken <= k /\ k < sent /\ k % N = i
        BY <1>2, <4>0
      <4>2. IF taken % N <= sent % N
            THEN taken % N <= k % N /\ k % N < sent % N
            ELSE taken % N <= k % N \/ k % N < sent % N
        BY <1>2, <1>4, <4>1, RingRange
      <4>3. InRange(i)
        BY <1>2, <4>1, <4>2 DEF InRange
      <4> QED BY <1>1, <4>3
    <3> QED BY <3>1, <3>2
  <2> QED BY <2>1 DEF DestroysAllOrNone
<1>5. CASE sent = taken + N
  <2>1. head = tail /\ \A i \in Slots : \E k \in taken .. sent - 1 : k % N = i
    <3>1. /\ (taken + N) % N = taken % N
          /\ \A i \in 0 .. N-1 : \E k \in taken .. taken + N - 1 : k % N = i
      BY <1>2, RingCovered
    <3> QED BY <1>2, <1>5, <3>1 DEF Slots
  <2>2. ASSUME NEW i \in Slots PROVE fifo[i] # Raw
    <3>1. PICK k \in taken .. sent - 1 : k % N = i
      BY <2>1
    <3>2. k \in Nat
      BY <1>2, <3>1
    <3>3. k \in taken .. sent - 1
      BY <1>2, <1>5, <3>1
    <3>4. fifo[i] = k
      BY <1>3, <3>1, <3>3
    <3> QED BY <3>2, <3>4
  <2>3. \A i \in Slots : ~InRange(i)
    BY <2>1 DEF InRange, Slots
  <2> QED BY <1>1, <2>2, <2>3 DEF DestroysAllOrNone
<1> QED BY <1>2, <1>4, <1>5

\* The destructor destroys every item that is left, or none of them if the queue is full.
THEOREM SpscDestroysAllOrNone ==
  ASSUME NEW p, NEW c, Spsc(p, c)
  PROVE  Spec => []DestroysAllOrNone
<1>1. Init => DestroysAllOrNone
  BY DEF Init, DestroysAllOrNone
<1>2. TypeOK /\ SpscInv(p, c) /\ DestroysAllOrNone /\ [Next]_vars => DestroysAllOrNone'
  <2> SUFFICES ASSUME TypeOK, SpscInv(p, c), DestroysAllOrNone, [Next]_vars
               PROVE  DestroysAllOrNone'
    OBVIOUS
  <2>1. CASE Destroy
    BY <2>1, SpscDestroyStep
  <2>2. CASE ~Destroy /\ live
    <3> USE DEF ghosts, torn, threw, Spsc
    <3>1. ASSUME ProducerStep(p) PROVE live'
      BY <2>2, <3>1
         DEF ProducerStep, FindEmptySpace, FindNoSpace, SleepOnEmpty, TryPushFull,
             TryPush, DecEmpty, ClaimTail, LoadTail, CasTail, CasTailFails, AdvanceTail,
             Construct, ConstructThrows, IncFull, NotifyFull, Close, CloseNotify
    <3>2. ASSUME ConsumerStep(c) PROVE live'
      BY <2>2, <3>2
         DEF ConsumerStep, TakeThrows, FindItem, FindNoItem, FindOpen, PopClosed, SleepOnFull,
             TryPopEmpty, TryPop, TryPopFinished, ClaimHead, LoadHead, CasHead,
             CasHeadFails, AdvanceHead, DecFull, Take, IncEmpty, NotifyEmpty
    <3>3. ASSUME NEW t \in Threads, NEW op \in Calls, Call(t, op) PROVE live'
      BY <2>2, <3>3 DEF Call
    <3>4. ASSUME NEW t \in Threads, SpuriousWakeup(t) PROVE live'
      BY <2>2, <3>4 DEF SpuriousWakeup
    <3>5. live'
      BY <2>2, <3>1, <3>2, <3>3, <3>4 DEF Next, vars
    <3> QED BY <3>5 DEF DestroysAllOrNone
  <2>3. CASE ~Destroy /\ ~live
    <3> USE DEF ghosts, torn, threw, Spsc, Threads, SpscInv, SpscControl, At
    <3>1. ~ProducerStep(p)
      BY <2>3
         DEF ProducerStep, FindEmptySpace, FindNoSpace, SleepOnEmpty, TryPushFull,
             TryPush, DecEmpty, ClaimTail, LoadTail, CasTail, CasTailFails, AdvanceTail,
             Construct, ConstructThrows, IncFull, NotifyFull, Close, CloseNotify, Update
    <3>2. ~ConsumerStep(c)
      BY <2>3
         DEF ConsumerStep, TakeThrows, FindItem, FindNoItem, FindOpen, PopClosed, SleepOnFull,
             TryPopEmpty, TryPop, TryPopFinished, ClaimHead, LoadHead, CasHead,
             CasHeadFails, AdvanceHead, DecFull, Take, IncEmpty, NotifyEmpty, Update
    <3>3. ~ \E t \in Threads : SpuriousWakeup(t) \/ \E op \in Calls : Call(t, op)
      BY <2>3 DEF SpuriousWakeup, Asleep, Call
    <3>4. UNCHANGED vars
      BY <2>3, <3>1, <3>2, <3>3 DEF Next
    <3> QED BY <3>4 DEF DestroysAllOrNone, vars
  <2> QED BY <2>1, <2>2, <2>3
<1>3. QED
  BY <1>1, <1>2, TypeCorrect, SpscInvariance, PTL DEF Spec

=============================================================================
