-------------------------- MODULE UtilitiesProofs --------------------------
(***************************************************************************)
(* Theorems about the small data structures and the wrappers of the C       *)
(* library, for every value of their constants.  Each part of MCUtilities   *)
(* is an instance of its module: its own specification is shown to keep     *)
(* what the part promises, and every behaviour of the composition is one of *)
(* the part (the lemmas named ...Part).                                     *)
(***************************************************************************)
EXTENDS MCUtilities, FiniteSetTheorems, SequenceTheorems, WellFoundedInduction, TLAPS

----------------------------------------------------------------------------
(* The ring buffer: its objects are those from head to tail, round the      *)
(* ring, and it is a FIFO.                                                  *)

\* The client leaves a slot empty: with all of them filled the indices would be equal,
\* and the buffer would look empty.
LeavesASlot == Ring!RingBufferAssumption /\ Limit < RingSlots

\* How many slots there are from one to another, round the ring.
Distance(h, t) == IF h <= t THEN t - h ELSE t - h + RingSlots

\* A remainder as the code's indices need it.
LEMMA Remainder ==
  ASSUME NEW n \in Nat \ {0}, NEW x \in Int, -n < x, x < 2 * n
  PROVE  x % n = IF x < 0 THEN x + n ELSE IF x < n THEN x ELSE x - n
BY Z3

\* A function on an initial interval is a sequence.
LEMMA FunctionIsSeq ==
  ASSUME NEW S, NEW n \in Nat, NEW f \in [1 .. n -> S]
  PROVE  f \in Seq(S) /\ Len(f) = n
<1>1. f \in Seq(S)
  BY SeqDef
<1>2. DOMAIN f = 1 .. n /\ DOMAIN f = 1 .. Len(f) /\ Len(f) \in Nat
  BY <1>1, LenProperties
<1> QED BY <1>1, <1>2

\* A step of either end changes the distance by one, unless it meets the other.
LEMMA DistanceSteps ==
  ASSUME RingSlots \in Nat \ {0}, NEW h \in 0 .. RingSlots - 1,
         NEW t \in 0 .. RingSlots - 1, NEW u \in 0 .. RingSlots - 1,
         u = IF t = RingSlots - 1 THEN 0 ELSE t + 1
  PROVE  /\ Distance(h, t) \in 0 .. RingSlots - 1
         /\ Distance(h, t) = 0 <=> h = t
         /\ Distance(h, t) < RingSlots - 1 => Distance(h, u) = Distance(h, t) + 1
         /\ h # t => Distance(u, h) = Distance(t, h) - 1
         /\ Distance(u, t) = RingSlots - 1
BY DEF Distance

LEMMA SameDistance ==
  ASSUME RingSlots \in Nat \ {0}, NEW h \in 0 .. RingSlots - 1,
         NEW t \in 0 .. RingSlots - 1, NEW slot \in 0 .. RingSlots - 1,
         Distance(h, t) = Distance(h, slot)
  PROVE  t = slot
BY DEF Distance

LEMMA DistanceIsRemainder ==
  ASSUME LeavesASlot, NEW h \in Ring!Slots, NEW t \in Ring!Slots
  PROVE  (t - h) % RingSlots = Distance(h, t) /\ Distance(h, t) \in Ring!Slots
<1>1. RingSlots \in Nat \ {0} /\ h \in 0 .. RingSlots - 1 /\ t \in 0 .. RingSlots - 1
  BY DEF LeavesASlot, Ring!RingBufferAssumption, Ring!Slots
<1> DEFINE x == t - h
<1>2. x \in Int /\ -RingSlots < x /\ x < 2 * RingSlots /\ x < RingSlots
  BY <1>1
<1> HIDE DEF x
<1>3. x % RingSlots = IF x < 0 THEN x + RingSlots
                      ELSE IF x < RingSlots THEN x ELSE x - RingSlots
  BY <1>1, <1>2, Remainder
<1> QED BY <1>1, <1>2, <1>3 DEF x, Distance, Ring!Slots

LEMMA NextIndex ==
  ASSUME LeavesASlot, NEW slot \in Ring!Slots
  PROVE  /\ Ring!increment_index(slot) = IF slot = RingSlots - 1 THEN 0 ELSE slot + 1
         /\ Ring!increment_index(slot) \in Ring!Slots
<1>1. RingSlots \in Nat \ {0} /\ slot \in 0 .. RingSlots - 1
  BY DEF LeavesASlot, Ring!RingBufferAssumption, Ring!Slots
<1> DEFINE x == slot + 1
<1>2. x \in Int /\ -RingSlots < x /\ x < 2 * RingSlots
  BY <1>1
<1> HIDE DEF x
<1>3. x % RingSlots = IF x < 0 THEN x + RingSlots
                      ELSE IF x < RingSlots THEN x ELSE x - RingSlots
  BY <1>1, <1>2, Remainder
<1> QED BY <1>1, <1>3 DEF x, Ring!increment_index, Ring!Slots

\* The n-th slot from h on.
LEMMA SlotAt ==
  ASSUME LeavesASlot, NEW h \in Ring!Slots, NEW k \in 0 .. RingSlots - 1
  PROVE  /\ (h + (k + 1) - 1) % RingSlots
              = IF h + k < RingSlots THEN h + k ELSE h + k - RingSlots
         /\ (h + (k + 1) - 1) % RingSlots \in Ring!Slots
<1>1. RingSlots \in Nat \ {0} /\ h \in 0 .. RingSlots - 1
  BY DEF LeavesASlot, Ring!RingBufferAssumption, Ring!Slots
<1> DEFINE x == h + (k + 1) - 1
<1>2. x = h + k /\ x \in Int /\ -RingSlots < x /\ x < 2 * RingSlots
  BY <1>1
<1> HIDE DEF x
<1>3. x % RingSlots = IF x < 0 THEN x + RingSlots
                      ELSE IF x < RingSlots THEN x ELSE x - RingSlots
  BY <1>1, <1>2, Remainder
<1>4. x % RingSlots = (IF h + k < RingSlots THEN h + k ELSE h + k - RingSlots)
      /\ x % RingSlots \in Ring!Slots
  BY <1>1, <1>2, <1>3 DEF Ring!Slots
<1> QED BY <1>4 DEF x

RingTyped ==
  /\ head \in Ring!Slots /\ tail \in Ring!Slots
  /\ fifo \in [Ring!Slots -> Items \cup {NoItem}]
  /\ inside \in 0 .. Limit /\ destroyed \in BOOLEAN
  /\ holes \subseteq Ring!Slots /\ leaks \subseteq Ring!Slots

\* The slots from head to tail.
InRing(slot) == Distance(head, slot) < Distance(head, tail)

\* They have objects, but for the holes, and the leaks are elsewhere.
SlotIsRight(slot) ==
  /\ fifo[slot] # NoItem <=> (InRing(slot) /\ slot \notin holes) \/ slot \in leaks
  /\ slot \in holes => InRing(slot)
  /\ slot \in leaks => ~InRing(slot)

\* There are as many of them as the client thinks.
RingInv ==
  /\ RingTyped
  /\ \A slot \in Ring!Slots : SlotIsRight(slot)
  /\ destroyed => head = tail
  /\ ~destroyed => Distance(head, tail) = inside

LEMMA RingConstantsAre ==
  ASSUME LeavesASlot
  PROVE  /\ RingSlots \in Nat \ {0} /\ Limit \in 0 .. RingSlots - 1
         /\ NoItem \notin Items /\ Ring!Slots = 0 .. RingSlots - 1
BY DEF LeavesASlot, Ring!RingBufferAssumption, Ring!Slots

\* A step of tail takes its slot in, a step of head gives its slot up; whatever they do
\* with the object.
LEMMA TailMoves ==
  ASSUME LeavesASlot, RingInv, ~destroyed, inside < Limit,
         head' = head, tail' = Ring!increment_index(tail)
  PROVE  /\ tail' \in Ring!Slots
         /\ Distance(head, tail) = inside /\ Distance(head, tail') = inside + 1
         /\ ~InRing(tail) /\ \A slot \in Ring!Slots : InRing(slot)' <=> InRing(slot) \/ slot = tail
<1>1. /\ tail' = IF tail = RingSlots - 1 THEN 0 ELSE tail + 1
      /\ tail' \in Ring!Slots
  BY NextIndex DEF RingInv, RingTyped
<1>2. /\ head \in 0 .. RingSlots - 1 /\ tail \in 0 .. RingSlots - 1
      /\ tail' \in 0 .. RingSlots - 1
  BY <1>1, RingConstantsAre DEF RingInv, RingTyped
<1>3. Distance(head, tail) = inside /\ inside < RingSlots - 1 /\ inside \in Nat
  BY RingConstantsAre DEF RingInv, RingTyped
<1>4. Distance(head, tail') = Distance(head, tail) + 1
  BY <1>1, <1>2, <1>3, RingConstantsAre, DistanceSteps
<1>5. ~InRing(tail)
  BY <1>3 DEF InRing
<1>6. ASSUME NEW slot \in Ring!Slots PROVE InRing(slot)' <=> InRing(slot) \/ slot = tail
  <2>1. Distance(head, slot) = Distance(head, tail) <=> slot = tail
    BY <1>2, RingConstantsAre, SameDistance
  <2>2. Distance(head, slot) \in Int
    BY <1>2, RingConstantsAre DEF Distance
  <2>3. InRing(slot)' <=> Distance(head, slot) < Distance(head, tail')
    BY DEF InRing
  <2> QED BY <1>3, <1>4, <2>1, <2>2, <2>3 DEF InRing
<1> QED BY <1>1, <1>3, <1>4, <1>5, <1>6

LEMMA HeadMoves ==
  ASSUME LeavesASlot, RingInv, ~destroyed, head # tail,
         tail' = tail, head' = Ring!increment_index(head)
  PROVE  /\ head' = IF head = RingSlots - 1 THEN 0 ELSE head + 1
         /\ head' \in Ring!Slots
         /\ inside > 0 /\ Distance(head, tail) = inside /\ Distance(head', tail) = inside - 1
         /\ InRing(head) /\ \A slot \in Ring!Slots : InRing(slot)' <=> InRing(slot) /\ slot # head
<1>1. /\ head' = IF head = RingSlots - 1 THEN 0 ELSE head + 1
      /\ head' \in Ring!Slots
  BY NextIndex DEF RingInv, RingTyped
<1>2. /\ head \in 0 .. RingSlots - 1 /\ tail \in 0 .. RingSlots - 1
      /\ head' \in 0 .. RingSlots - 1
  BY <1>1, RingConstantsAre DEF RingInv, RingTyped
<1>3. Distance(head, tail) = inside /\ inside \in Nat
  BY RingConstantsAre DEF RingInv, RingTyped
<1>4. inside > 0 /\ Distance(head', tail) = inside - 1
  <2>1. Distance(head, tail) # 0
    BY <1>2, RingConstantsAre DEF Distance
  <2>2. Distance(head', tail) = Distance(head, tail) - 1
    BY <1>1, <1>2, RingConstantsAre DEF Distance
  <2> QED BY <1>3, <2>1, <2>2
<1>5. InRing(head)
  <2>1. Distance(head, head) = 0
    BY <1>2 DEF Distance
  <2> QED BY <1>3, <1>4, <2>1 DEF InRing
<1>6. ASSUME NEW slot \in Ring!Slots PROVE InRing(slot)' <=> InRing(slot) /\ slot # head
  <2>0. InRing(slot)' <=> Distance(head', slot) < Distance(head', tail)
    BY DEF InRing
  <2>1. CASE slot = head
    <3>1. Distance(head', slot) = RingSlots - 1 /\ Distance(head', tail) < RingSlots
      BY <1>1, <1>2, <2>1, RingConstantsAre DEF Distance
    <3>2. Distance(head', tail) \in Int
      BY <1>3, <1>4
    <3> QED BY <2>0, <2>1, <3>1, <3>2, RingConstantsAre
  <2>2. CASE slot # head
    <3>1. slot \in 0 .. RingSlots - 1
      BY RingConstantsAre
    <3>2. Distance(head', slot) = Distance(head, slot) - 1
      BY <1>1, <1>2, <2>2, <3>1, RingConstantsAre DEF Distance
    <3>3. Distance(head, slot) \in Int
      BY <1>2, <3>1, RingConstantsAre DEF Distance
    <3> QED BY <1>3, <1>4, <2>0, <2>2, <3>2, <3>3 DEF InRing
  <2> QED BY <2>1, <2>2
<1> QED BY <1>1, <1>3, <1>4, <1>5, <1>6

LEMMA PushStep ==
  ASSUME LeavesASlot, RingInv, NEW v \in Items, Ring!push(v)
  PROVE  RingInv'
<1>1. /\ ~destroyed /\ inside < Limit
      /\ fifo' = [fifo EXCEPT ![tail] = v] /\ inside' = inside + 1
      /\ head' = head /\ destroyed' = destroyed /\ tail' = Ring!increment_index(tail)
      /\ holes' = holes /\ leaks' = leaks \ {tail}
  BY DEF Ring!push
<1>2. /\ tail' \in Ring!Slots
      /\ Distance(head, tail) = inside /\ Distance(head, tail') = inside + 1
      /\ ~InRing(tail) /\ \A slot \in Ring!Slots : InRing(slot)' <=> InRing(slot) \/ slot = tail
  BY <1>1, TailMoves
<1>3. RingTyped'
  BY <1>1, <1>2, RingConstantsAre DEF RingInv, RingTyped
<1>4. ASSUME NEW slot \in Ring!Slots PROVE SlotIsRight(slot)'
  <2>1. fifo'[slot] = IF slot = tail THEN v ELSE fifo[slot]
    BY <1>1, RingConstantsAre DEF RingInv, RingTyped
  <2>2. v # NoItem
    BY RingConstantsAre
  <2>3. SlotIsRight(slot) /\ SlotIsRight(tail)
    BY DEF RingInv, RingTyped
  <2> QED BY <1>1, <1>2, <2>1, <2>2, <2>3 DEF SlotIsRight
<1> QED BY <1>1, <1>2, <1>3, <1>4 DEF RingInv

LEMMA PushThrowsStep ==
  ASSUME LeavesASlot, RingInv, Ring!push_throws
  PROVE  RingInv'
<1>1. /\ ~destroyed /\ inside < Limit
      /\ fifo' = [fifo EXCEPT ![tail] = NoItem] /\ inside' = inside + 1
      /\ head' = head /\ destroyed' = destroyed /\ tail' = Ring!increment_index(tail)
      /\ holes' = holes \cup {tail} /\ leaks' = leaks \ {tail}
  BY DEF Ring!push_throws
<1>2. /\ tail' \in Ring!Slots
      /\ Distance(head, tail) = inside /\ Distance(head, tail') = inside + 1
      /\ ~InRing(tail) /\ \A slot \in Ring!Slots : InRing(slot)' <=> InRing(slot) \/ slot = tail
  BY <1>1, TailMoves
<1>3. RingTyped'
  BY <1>1, <1>2, RingConstantsAre DEF RingInv, RingTyped
<1>4. ASSUME NEW slot \in Ring!Slots PROVE SlotIsRight(slot)'
  <2>1. fifo'[slot] = IF slot = tail THEN NoItem ELSE fifo[slot]
    BY <1>1, RingConstantsAre DEF RingInv, RingTyped
  <2>2. SlotIsRight(slot)
    BY DEF RingInv
  <2> QED BY <1>1, <1>2, <2>1, <2>2 DEF SlotIsRight
<1> QED BY <1>1, <1>2, <1>3, <1>4 DEF RingInv

LEMMA PopStep ==
  ASSUME LeavesASlot, RingInv, Ring!pop_value
  PROVE  RingInv'
<1>1. /\ ~destroyed /\ head # tail
      /\ fifo' = [fifo EXCEPT ![head] = NoItem] /\ inside' = inside - 1
      /\ tail' = tail /\ destroyed' = destroyed /\ head' = Ring!increment_index(head)
      /\ holes' = holes \ {head} /\ leaks' = leaks
  BY DEF Ring!pop_value, Ring!empty, Ring!Destroyed
<1>2. /\ head' \in Ring!Slots
      /\ inside > 0 /\ Distance(head, tail) = inside /\ Distance(head', tail) = inside - 1
      /\ InRing(head) /\ \A slot \in Ring!Slots : InRing(slot)' <=> InRing(slot) /\ slot # head
  BY <1>1, HeadMoves
<1>3. RingTyped'
  BY <1>1, <1>2, RingConstantsAre DEF RingInv, RingTyped
<1>4. ASSUME NEW slot \in Ring!Slots PROVE SlotIsRight(slot)'
  <2>1. fifo'[slot] = IF slot = head THEN NoItem ELSE fifo[slot]
    BY <1>1, RingConstantsAre DEF RingInv, RingTyped
  <2>2. SlotIsRight(slot) /\ SlotIsRight(head)
    BY DEF RingInv, RingTyped
  <2> QED BY <1>1, <1>2, <2>1, <2>2 DEF SlotIsRight
<1> QED BY <1>1, <1>2, <1>3, <1>4 DEF RingInv

LEMMA PopThrowsStep ==
  ASSUME LeavesASlot, RingInv, Ring!pop_value_throws
  PROVE  RingInv'
<1>1. /\ ~destroyed /\ head # tail /\ fifo' = fifo /\ inside' = inside - 1
      /\ tail' = tail /\ destroyed' = destroyed /\ head' = Ring!increment_index(head)
      /\ holes' = holes \ {head} /\ leaks' = leaks \cup ({head} \ holes)
  BY DEF Ring!pop_value_throws, Ring!empty
<1>2. /\ head' \in Ring!Slots
      /\ inside > 0 /\ Distance(head, tail) = inside /\ Distance(head', tail) = inside - 1
      /\ InRing(head) /\ \A slot \in Ring!Slots : InRing(slot)' <=> InRing(slot) /\ slot # head
  BY <1>1, HeadMoves
<1>3. RingTyped'
  BY <1>1, <1>2, RingConstantsAre DEF RingInv, RingTyped
<1>4. ASSUME NEW slot \in Ring!Slots PROVE SlotIsRight(slot)'
  <2>1. SlotIsRight(slot) /\ SlotIsRight(head)
    BY DEF RingInv, RingTyped
  <2> QED BY <1>1, <1>2, <2>1 DEF SlotIsRight
<1> QED BY <1>1, <1>2, <1>3, <1>4 DEF RingInv

\* The destructor walks over the objects that are left.
LEMMA DestroyStep ==
  ASSUME LeavesASlot, RingInv, Ring!Destroy
  PROVE  RingInv' /\ head' = tail' /\ tail' = tail
<1>1. /\ destroyed' = TRUE /\ head' = tail /\ tail' = tail /\ inside' = inside
      /\ fifo' = [slot \in Ring!Slots |-> IF slot \in Ring!Filled THEN NoItem ELSE fifo[slot]]
      /\ holes' = {} /\ leaks' = leaks
  BY DEF Ring!Destroy
<1>2. ASSUME NEW slot \in Ring!Slots PROVE fifo'[slot] # NoItem <=> slot \in leaks
  <2>1. slot \in Ring!Filled <=> InRing(slot)
    BY DistanceIsRemainder DEF Ring!Filled, InRing, RingInv, RingTyped
  <2>2. SlotIsRight(slot)
    BY DEF RingInv
  <2> QED BY <1>1, <2>1, <2>2 DEF SlotIsRight
<1>3. ASSUME NEW slot \in Ring!Slots PROVE ~InRing(slot)'
  <2>1. tail \in 0 .. RingSlots - 1 /\ slot \in 0 .. RingSlots - 1
    BY RingConstantsAre DEF RingInv, RingTyped
  <2>2. ~(Distance(tail, slot) < Distance(tail, tail))
    BY <2>1, RingConstantsAre DEF Distance
  <2> QED BY <1>1, <2>2 DEF InRing
<1>4. RingTyped'
  <2>1. \A slot \in Ring!Slots : fifo[slot] \in Items \cup {NoItem}
    BY DEF RingInv, RingTyped
  <2>2. fifo' \in [Ring!Slots -> Items \cup {NoItem}]
    BY <1>1, <2>1
  <2> QED BY <1>1, <2>2 DEF RingInv, RingTyped
<1>5. \A slot \in Ring!Slots : SlotIsRight(slot)'
  BY <1>1, <1>2, <1>3 DEF SlotIsRight
<1> QED BY <1>1, <1>4, <1>5 DEF RingInv

LEMMA RingInvariance ==
  ASSUME LeavesASlot
  PROVE  Ring!Spec => []RingInv
<1>1. Ring!Init => RingInv
  <2> SUFFICES ASSUME Ring!Init PROVE RingInv
    OBVIOUS
  <2>1. RingTyped
    <3>1. 0 \in 0 .. RingSlots - 1 /\ 0 \in 0 .. Limit
      BY RingConstantsAre
    <3> QED BY <3>1, RingConstantsAre DEF Ring!Init, RingTyped
  <2>2. \A slot \in Ring!Slots : ~(Distance(0, slot) < Distance(0, 0))
    BY RingConstantsAre DEF Distance
  <2>3. Distance(0, 0) = 0
    BY DEF Distance
  <2>4. \A slot \in Ring!Slots : SlotIsRight(slot)
    BY <2>2 DEF Ring!Init, SlotIsRight, InRing
  <2> QED BY <2>1, <2>3, <2>4 DEF Ring!Init, RingInv
<1>2. RingInv /\ [Ring!Next]_(Ring!vars) => RingInv'
  <2>1. RingInv /\ UNCHANGED Ring!vars => RingInv'
    BY DEF Ring!vars, RingInv, RingTyped, SlotIsRight, InRing
  <2> QED BY <2>1, PushStep, PushThrowsStep, PopStep, PopThrowsStep, DestroyStep DEF Ring!Next
<1>3. QED
  BY <1>1, <1>2, PTL DEF Ring!Spec

LEMMA RingPart == Spec => Ring!Spec
<1>1. Init => Ring!Init
  BY DEF Init
<1>2. [Next]_vars => [Ring!Next]_(Ring!vars)
  BY DEF Next, vars, ring, Ring!vars
<1>3. QED
  BY <1>1, <1>2, PTL DEF Spec, Ring!Spec

\* Objects live in the slots from head to tail and nowhere else, but for the raw slots of
\* pushes that threw and the objects behind pops that threw, and the indices give the count
\* of the client, if it leaves a slot empty.
THEOREM RingAlwaysHoldsWhatIsInside ==
  ASSUME Limit < RingSlots
  PROVE  Spec => []RingHoldsWhatIsInside
<1>0. LeavesASlot
  BY RingConstants DEF LeavesASlot
<1>1. RingInv => RingHoldsWhatIsInside
  <2> SUFFICES ASSUME RingInv PROVE RingHoldsWhatIsInside
    OBVIOUS
  <2>1. (tail - head) % RingSlots = Distance(head, tail)
    BY <1>0, DistanceIsRemainder DEF RingInv, RingTyped
  <2>2. \A slot \in Ring!Slots : (slot - head) % RingSlots = Distance(head, slot)
    BY <1>0, DistanceIsRemainder DEF RingInv, RingTyped
  <2>3. \A slot \in Ring!Slots : slot \in Ring!Filled <=> InRing(slot)
    BY <2>1, <2>2 DEF Ring!Filled, InRing
  <2>4. \A slot \in Ring!Slots : SlotIsRight(slot)
    BY DEF RingInv
  <2>5. holes \subseteq Ring!Slots /\ leaks \subseteq Ring!Slots
    BY DEF RingInv, RingTyped
  <2>6. Ring!ObjectsAreInside
    BY <2>3, <2>4, <2>5 DEF SlotIsRight, Ring!ObjectsAreInside
  <2> QED BY <2>1, <2>6 DEF RingInv, Ring!NothingIsLost, RingHoldsWhatIsInside
<1>2. QED
  BY <1>0, <1>1, RingPart, RingInvariance, PTL

\* The n-th slot from h on, and its distance.
SlotOf(h, n) == IF h + n - 1 < RingSlots THEN h + n - 1 ELSE h + n - 1 - RingSlots

\* The slot after h, and what SlotOf gives.
SlotAfter(h) == IF h = RingSlots - 1 THEN 0 ELSE h + 1

LEMMA SlotsInOrder ==
  ASSUME RingSlots \in Nat \ {0}, NEW h \in 0 .. RingSlots - 1,
         NEW n \in 1 .. RingSlots - 1
  PROVE  /\ SlotOf(h, n) \in 0 .. RingSlots - 1
         /\ Distance(h, SlotOf(h, n)) = n - 1
         /\ SlotOf(SlotAfter(h), n) = SlotOf(h, n + 1)
         /\ SlotOf(h, 1) = h
BY DEF SlotOf, Distance, SlotAfter

LEMMA LastSlot ==
  ASSUME RingSlots \in Nat \ {0},
         NEW h \in 0 .. RingSlots - 1, NEW t \in 0 .. RingSlots - 1
  PROVE  SlotOf(h, Distance(h, t) + 1) = t
BY DEF SlotOf, Distance

\* The items in the buffer, the oldest first, with nothing where a push threw.
QueueHolds ==
  /\ Ring!Queue \in Seq(Items \cup {NoItem}) /\ Len(Ring!Queue) = Distance(head, tail)
  /\ \A n \in 1 .. Distance(head, tail) : Ring!Queue[n] = fifo[SlotOf(head, n)]

LEMMA QueueIs ==
  ASSUME LeavesASlot
  PROVE  RingInv => QueueHolds
<1> SUFFICES ASSUME RingInv PROVE QueueHolds
  OBVIOUS
<1> DEFINE d == Distance(head, tail)
<1>1. /\ head \in 0 .. RingSlots - 1 /\ tail \in 0 .. RingSlots - 1
      /\ (tail - head) % RingSlots = d /\ d \in 0 .. RingSlots - 1
  BY DistanceIsRemainder, RingConstantsAre DEF RingInv, RingTyped
<1>2. ASSUME NEW n \in 1 .. d
      PROVE  /\ (head + n - 1) % RingSlots = SlotOf(head, n)
             /\ fifo[SlotOf(head, n)] \in Items \cup {NoItem}
  <2> DEFINE j == n - 1
  <2>1. j \in 0 .. RingSlots - 1 /\ n = j + 1 /\ n \in 1 .. RingSlots - 1
    BY <1>1, RingConstantsAre
  <2>2. (head + (j + 1) - 1) % RingSlots
          = IF head + j < RingSlots THEN head + j ELSE head + j - RingSlots
    <3> HIDE DEF j
    <3> QED BY <2>1, SlotAt DEF RingInv, RingTyped
  <2>3. (head + n - 1) % RingSlots = SlotOf(head, n)
    BY <1>1, <2>1, <2>2, RingConstantsAre DEF SlotOf
  <2>4. SlotOf(head, n) \in Ring!Slots /\ Distance(head, SlotOf(head, n)) < d
    <3>1. /\ Distance(head, SlotOf(head, n)) = n - 1
          /\ SlotOf(head, n) \in 0 .. RingSlots - 1
      <4>1. head \in 0 .. RingSlots - 1
        BY <1>1
      <4>2. n \in 1 .. RingSlots - 1
        BY <2>1
      <4> HIDE DEF j
      <4> QED BY <4>1, <4>2, SlotsInOrder, RingConstantsAre
    <3> QED BY <1>1, <3>1, RingConstantsAre
  <2> QED BY <2>3, <2>4 DEF RingInv, RingTyped
<1> HIDE DEF d
<1>3. Ring!Queue = [n \in 1 .. d |-> fifo[(head + n - 1) % RingSlots]]
  BY <1>1 DEF Ring!Queue
<1>4. Ring!Queue = [n \in 1 .. d |-> Ring!Queue[n]] /\ d \in Nat
  BY <1>1, <1>3, RingConstantsAre
<1>5. \A n \in 1 .. d : Ring!Queue[n] = fifo[SlotOf(head, n)] /\ Ring!Queue[n] \in Items \cup {NoItem}
  BY <1>2, <1>3 DEF d
<1>6. Ring!Queue \in Seq(Items \cup {NoItem}) /\ Len(Ring!Queue) = d
  <2> HIDE DEF Ring!Queue
  <2>1. Ring!Queue \in [1 .. d -> Items \cup {NoItem}]
    BY <1>4, <1>5
  <2> QED BY <1>4, <2>1, FunctionIsSeq
<1> QED BY <1>5, <1>6 DEF d, QueueHolds

\* When tail moves, what its slot gets is behind all others.
LEMMA QueueGains ==
  ASSUME LeavesASlot, RingInv, RingInv', QueueHolds, QueueHolds',
         NEW v \in Items \cup {NoItem}, ~destroyed, ~destroyed', inside < Limit,
         head' = head, fifo' = [fifo EXCEPT ![tail] = v], inside' = inside + 1
  PROVE  Len(Ring!Queue) < Limit /\ Ring!Queue' = Append(Ring!Queue, v)
<1> DEFINE d == Distance(head, tail)
<1>1. /\ head' = head /\ fifo' = [fifo EXCEPT ![tail] = v]
      /\ ~destroyed /\ inside < Limit /\ inside' = inside + 1 /\ ~destroyed'
  OBVIOUS
<1>2. /\ head \in 0 .. RingSlots - 1 /\ tail \in 0 .. RingSlots - 1
      /\ d \in Nat /\ d < Limit /\ d = inside /\ Distance(head, tail') = d + 1
      /\ Limit < RingSlots /\ Limit \in Nat
  <2>1. head \in 0 .. RingSlots - 1 /\ tail \in 0 .. RingSlots - 1
    BY RingConstantsAre DEF RingInv, RingTyped
  <2>2. d = inside /\ inside \in Nat /\ Distance(head, tail') = inside + 1
    BY <1>1, RingConstantsAre DEF RingInv, RingTyped
  <2>3. Limit < RingSlots /\ Limit \in Nat
    BY RingConstantsAre
  <2> QED BY <1>1, <2>1, <2>2, <2>3
<1>3. ASSUME NEW n \in 1 .. d + 1
      PROVE  Ring!Queue'[n] = Append(Ring!Queue, v)[n]
  <2>1. Ring!Queue'[n] = fifo'[SlotOf(head, n)]
    BY <1>1, <1>2 DEF QueueHolds
  <2>2. CASE n = d + 1
    <3>1. SlotOf(head, n) = tail
      BY <1>2, <2>2, LastSlot, RingConstantsAre
    <3>2. fifo'[tail] = v
      BY <1>1, <1>2, RingConstantsAre DEF RingInv, RingTyped
    <3>3. Append(Ring!Queue, v)[n] = v
      BY <1>2, <2>2 DEF QueueHolds
    <3> QED BY <2>1, <3>1, <3>2, <3>3
  <2>3. CASE n \in 1 .. d
    <3>1. SlotOf(head, n) # tail /\ SlotOf(head, n) \in 0 .. RingSlots - 1
      <4>1. n \in 1 .. RingSlots - 1
        BY <1>2, <2>3, RingConstantsAre
      <4>2. /\ Distance(head, SlotOf(head, n)) = n - 1
            /\ SlotOf(head, n) \in 0 .. RingSlots - 1
        BY <1>2, <4>1, SlotsInOrder, RingConstantsAre
      <4> QED BY <1>2, <2>3, <4>2
    <3>2. fifo'[SlotOf(head, n)] = fifo[SlotOf(head, n)]
      BY <1>1, <3>1, RingConstantsAre DEF RingInv, RingTyped
    <3>3. /\ Append(Ring!Queue, v)[n] = Ring!Queue[n]
          /\ Ring!Queue[n] = fifo[SlotOf(head, n)]
      <4>1. Ring!Queue \in Seq(Items \cup {NoItem}) /\ Len(Ring!Queue) = d
        BY DEF QueueHolds
      <4>2. Append(Ring!Queue, v)[n] = Ring!Queue[n]
        <5> HIDE DEF Ring!Queue
        <5> QED BY <2>3, <4>1, AppendProperties
      <4> QED BY <2>3, <4>2 DEF QueueHolds
    <3> QED BY <2>1, <3>2, <3>3
  <2>4. n = d + 1 \/ n \in 1 .. d
    <3>1. d \in Nat /\ n \in 1 .. d + 1
      BY <1>2
    <3> HIDE DEF d
    <3> QED BY <3>1
  <2> QED BY <2>2, <2>3, <2>4
<1>4. Ring!Queue' = Append(Ring!Queue, v)
  <2>1. /\ Ring!Queue \in Seq(Items \cup {NoItem}) /\ Len(Ring!Queue) = d
        /\ Ring!Queue' \in Seq(Items \cup {NoItem}) /\ Len(Ring!Queue') = d + 1
    BY <1>1, <1>2 DEF QueueHolds
  <2> DEFINE q == Ring!Queue
             r == Ring!Queue'
  <2> HIDE DEF q, r
  <2>2. q \in Seq(Items \cup {NoItem}) /\ r \in Seq(Items \cup {NoItem}) /\ Len(q) = d /\ Len(r) = d + 1
        /\ \A n \in 1 .. d + 1 : r[n] = Append(q, v)[n]
    BY <2>1, <1>3 DEF q, r
  <2>3. Append(q, v) \in Seq(Items \cup {NoItem}) /\ Len(Append(q, v)) = d + 1
    BY <2>2, AppendProperties
  <2>4. r = Append(q, v)
    BY <2>2, <2>3, SeqEqual
  <2> QED BY <2>4 DEF q, r
<1>5. Len(Ring!Queue) < Limit
  BY <1>2 DEF QueueHolds
<1> QED BY <1>4, <1>5

\* When head moves, the oldest is gone, whatever becomes of its slot.
LEMMA QueueLoses ==
  ASSUME LeavesASlot, RingInv, RingInv', QueueHolds, QueueHolds',
         ~destroyed, head # tail, tail' = tail, head' = Ring!increment_index(head),
         \A slot \in Ring!Slots \ {head} : fifo'[slot] = fifo[slot]
  PROVE  Ring!Queue # <<>> /\ Head(Ring!Queue) = fifo[head] /\ Ring!Queue' = Tail(Ring!Queue)
<1> DEFINE d == Distance(head, tail)
           q == Ring!Queue
           r == Ring!Queue'
<1>1. /\ d > 0 /\ Distance(head', tail) = d - 1
      /\ head' = IF head = RingSlots - 1 THEN 0 ELSE head + 1
      /\ tail' = tail
  <2>1. /\ head' = IF head = RingSlots - 1 THEN 0 ELSE head + 1
        /\ inside > 0 /\ d = inside /\ Distance(head', tail) = inside - 1
    BY HeadMoves
  <2> HIDE DEF d
  <2> QED BY <2>1
<1>2. /\ head \in 0 .. RingSlots - 1 /\ head' \in 0 .. RingSlots - 1
      /\ tail \in 0 .. RingSlots - 1 /\ d \in 1 .. RingSlots - 1
  <2>1. head \in 0 .. RingSlots - 1 /\ head' \in 0 .. RingSlots - 1
        /\ tail \in 0 .. RingSlots - 1
    BY RingConstantsAre DEF RingInv, RingTyped
  <2> QED BY <1>1, <2>1, RingConstantsAre DEF Distance
<1>3. /\ q \in Seq(Items \cup {NoItem}) /\ Len(q) = d /\ r \in Seq(Items \cup {NoItem}) /\ Len(r) = d - 1
      /\ \A n \in 1 .. d : q[n] = fifo[SlotOf(head, n)]
      /\ \A n \in 1 .. d - 1 : r[n] = fifo'[SlotOf(head', n)]
  BY <1>1 DEF QueueHolds
<1> HIDE DEF q, r
<1>4. ASSUME NEW n \in 1 .. d - 1 PROVE r[n] = Tail(q)[n]
  <2>1. n \in 1 .. RingSlots - 1 /\ n + 1 \in 1 .. RingSlots - 1 /\ n + 1 \in 1 .. d
    BY <1>2, RingConstantsAre
  <2>0. head \in 0 .. RingSlots - 1 /\ head' = SlotAfter(head)
    BY <1>1, <1>2 DEF SlotAfter
  <2>2. SlotOf(head', n) = SlotOf(head, n + 1)
    BY <2>0, <2>1, SlotsInOrder, RingConstantsAre
  <2>3. /\ Distance(head, SlotOf(head, n + 1)) = n
        /\ SlotOf(head, n + 1) \in 0 .. RingSlots - 1
    <3>1. n + 1 \in 1 .. RingSlots - 1 /\ (n + 1) - 1 = n
      BY <2>1
    <3>2. Distance(head, SlotOf(head, n + 1)) = (n + 1) - 1
      BY <2>0, <3>1, SlotsInOrder, RingConstantsAre
    <3>3. SlotOf(head, n + 1) \in 0 .. RingSlots - 1
      BY <2>0, <3>1, SlotsInOrder, RingConstantsAre
    <3> QED BY <3>1, <3>2, <3>3
  <2>4. SlotOf(head, n + 1) # head
    BY <1>2, <2>3 DEF Distance
  <2>5. fifo'[SlotOf(head, n + 1)] = fifo[SlotOf(head, n + 1)]
    BY <2>3, <2>4, RingConstantsAre
  <2>6. Tail(q)[n] = q[n + 1]
    BY <1>2, <1>3, HeadTailProperties
  <2> QED BY <1>3, <2>1, <2>2, <2>5, <2>6
<1>5. Tail(q) \in Seq(Items \cup {NoItem}) /\ Len(Tail(q)) = d - 1 /\ q # <<>> /\ Head(q) = q[1]
  BY <1>2, <1>3, HeadTailProperties
<1>6. r = Tail(q)
  BY <1>3, <1>4, <1>5, SeqEqual
<1>7. q[1] = fifo[head]
  <2>1. SlotOf(head, 1) = head
    BY <1>2, RingConstantsAre DEF SlotOf
  <2> QED BY <1>2, <1>3, <2>1
<1> QED BY <1>5, <1>6, <1>7 DEF q, r

\* The ring buffer is a FIFO that accepts no more than its client lets it hold, a push that
\* throws enters nothing for an item, a pop that throws loses one.
THEOREM RingIsFifo ==
  ASSUME Limit < RingSlots
  PROVE  Spec => RingFifo
<1>0. LeavesASlot
  BY RingConstants DEF LeavesASlot
<1>1. RingInv => QueueHolds
  BY <1>0, QueueIs
<1>2. Ring!Init /\ QueueHolds => Ring!Fifo!Init
  <2> SUFFICES ASSUME Ring!Init, QueueHolds PROVE Ring!Queue = <<>> /\ out = NoItem
    BY DEF Ring!Fifo!Init
  <2>1. Distance(head, tail) = 0 /\ out = NoItem
    BY <1>0, RingConstantsAre DEF Ring!Init, Distance
  <2> HIDE DEF Ring!Queue
  <2> QED BY <2>1, EmptySeq DEF QueueHolds
<1>3. RingInv /\ RingInv' /\ QueueHolds /\ QueueHolds' /\ [Ring!Next]_(Ring!vars)
        => [Ring!Fifo!Next \/ Ring!Thrown]_<<Ring!Queue, out>>
  <2> SUFFICES ASSUME RingInv, RingInv', QueueHolds, QueueHolds', [Ring!Next]_(Ring!vars)
               PROVE  [Ring!Fifo!Next \/ Ring!Thrown]_<<Ring!Queue, out>>
    OBVIOUS
  <2>1. ASSUME NEW v \in Items, Ring!push(v) PROVE Ring!Fifo!Next
    <3>1. Len(Ring!Queue) < Limit /\ Ring!Queue' = Append(Ring!Queue, v)
      BY <1>0, <2>1, QueueGains DEF Ring!push
    <3> QED BY <2>1, <3>1 DEF Ring!push, Ring!Fifo!Next, Ring!Fifo!Accept
  <2>2. CASE Ring!pop_value
    <3>1. \A slot \in Ring!Slots \ {head} : fifo'[slot] = fifo[slot]
      BY <2>2 DEF Ring!pop_value, Ring!Destroyed, RingInv, RingTyped
    <3>2. /\ ~destroyed /\ head # tail /\ tail' = tail /\ out' = fifo[head]
          /\ head' = Ring!increment_index(head)
      BY <2>2 DEF Ring!pop_value, Ring!empty
    <3>3. /\ Ring!Queue # <<>> /\ Head(Ring!Queue) = fifo[head]
          /\ Ring!Queue' = Tail(Ring!Queue)
      BY <1>0, <3>1, <3>2, QueueLoses
    <3> QED BY <3>2, <3>3 DEF Ring!Fifo!Next, Ring!Fifo!HandOut
  <2>5. CASE Ring!push_throws
    <3>1. Len(Ring!Queue) < Limit /\ Ring!Queue' = Append(Ring!Queue, NoItem)
      BY <1>0, <2>5, QueueGains DEF Ring!push_throws
    <3> QED BY <2>5, <3>1 DEF Ring!push_throws, Ring!Thrown, Ring!Fifo!AcceptNothing
  <2>6. CASE Ring!pop_value_throws
    <3>1. /\ ~destroyed /\ head # tail /\ tail' = tail /\ out' = out /\ fifo' = fifo
          /\ head' = Ring!increment_index(head)
      BY <2>6 DEF Ring!pop_value_throws, Ring!empty
    <3>2. Ring!Queue # <<>> /\ Ring!Queue' = Tail(Ring!Queue)
      BY <1>0, <3>1, QueueLoses
    <3> QED BY <2>6, <3>1, <3>2 DEF Ring!Thrown, Ring!Fifo!LoseOldest
  <2>3. CASE Ring!Destroy
    <3>1. head' = tail' /\ out' = out /\ tail' \in Nat
      BY <1>0, <2>3, DestroyStep, RingConstantsAre DEF Ring!Destroy, RingInv, RingTyped
    <3>2. \A h \in Nat : Distance(h, h) = 0
      BY DEF Distance
    <3>3. Distance(head', tail') = 0
      BY <3>1, <3>2
    <3>4. Ring!Queue' = <<>>
      BY <3>3, EmptySeq DEF QueueHolds
    <3> QED BY <3>1, <3>4 DEF Ring!Fifo!Next, Ring!Fifo!Discard
  <2>4. CASE UNCHANGED Ring!vars
    BY <2>4 DEF Ring!vars, Ring!Queue
  <2> QED BY <2>1, <2>2, <2>3, <2>4, <2>5, <2>6 DEF Ring!Next
<1>4. QED
  BY <1>0, <1>1, <1>2, <1>3, RingPart, RingInvariance, PTL
     DEF Ring!Spec, RingFifo, Ring!ImplementsFifo

----------------------------------------------------------------------------
(* The search for a word.                                                   *)

\* The first n characters of x end in the first m of w, character by character.
Ends(x, n, w, m) == m <= n /\ \A c \in 1 .. m : x[n - m + c] = w[c]

\* A set of numbers that is not empty has a least element.
LEMMA LeastNumber ==
  ASSUME NEW S \in SUBSET Nat, S # {}
  PROVE  \E x \in S : \A y \in S : x <= y
<1>1. \E x \in S : \A y \in S : <<y, x>> \notin OpToRel(<, Nat)
  BY NatLessThanWellFounded, WFMin
<1>2. \A x, y \in Nat : <<y, x>> \in OpToRel(<, Nat) <=> y < x
  BY DEF OpToRel
<1>3. PICK x \in S : \A y \in S : <<y, x>> \notin OpToRel(<, Nat)
  BY <1>1
<1>4. \A y \in S : ~(y < x)
  BY <1>2, <1>3
<1> QED BY <1>4

LEMMA FindMinIs ==
  ASSUME NEW S \in SUBSET Nat, NEW m \in S, \A y \in S : m <= y
  PROVE  Find!Min(S) = m
<1>1. \E x \in S : \A y \in S : x =< y
  OBVIOUS
<1>2. Find!Min(S) \in S /\ \A y \in S : Find!Min(S) =< y
  BY <1>1 DEF Find!Min
<1>3. Find!Min(S) \in Nat /\ Find!Min(S) <= m /\ m <= Find!Min(S) /\ m \in Nat
  BY <1>2
<1> QED BY <1>3

LEMMA FindMaxIs ==
  ASSUME NEW S \in SUBSET Int, NEW m \in S, \A y \in S : y <= m
  PROVE  Find!Max(S) = m
<1>1. \E x \in S : \A y \in S : x >= y
  OBVIOUS
<1>2. Find!Max(S) \in S /\ \A y \in S : Find!Max(S) >= y
  BY <1>1 DEF Find!Max
<1>3. Find!Max(S) \in Int /\ Find!Max(S) >= m /\ Find!Max(S) <= m /\ m \in Int
  BY <1>2
<1> QED BY <1>3

\* Part of a sequence equals the beginning of another one if its characters do.
LEMMA SubSeqsAgree ==
  ASSUME NEW A, NEW x \in Seq(A), NEW w \in Seq(A),
         NEW m \in 0 .. Len(w), NEW n \in m .. Len(x)
  PROVE  SubSeq(x, n - m + 1, n) = SubSeq(w, 1, m)
           <=> \A c \in 1 .. m : x[n - m + c] = w[c]
<1> DEFINE a == SubSeq(x, n - m + 1, n)
           b == SubSeq(w, 1, m)
<1>1. a \in Seq(A) /\ Len(a) = m /\ \A c \in 1 .. m : a[c] = x[n - m + c]
  <2>1. /\ n - m + 1 \in Int /\ n \in Int /\ m \in Nat
        /\ n - m + 1 \in 1 .. Len(x) + 1 /\ n <= Len(x)
    BY LenProperties
  <2>2. \A k \in n - m + 1 .. n : x[k] \in A
    BY <2>1, ElementOfSeq, LenProperties
  <2>3. /\ a \in Seq(A) /\ Len(a) = IF n - m + 1 <= n THEN n - (n - m + 1) + 1 ELSE 0
        /\ \A c \in 1 .. n - (n - m + 1) + 1 : a[c] = x[(n - m + 1) + c - 1]
    BY <2>1, <2>2, SubSeqProperties
  <2> HIDE DEF a
  <2>4. Len(a) = m
    BY <2>1, <2>3
  <2>5. ASSUME NEW c \in 1 .. m PROVE a[c] = x[n - m + c]
    <3>1. c \in 1 .. n - (n - m + 1) + 1 /\ (n - m + 1) + c - 1 = n - m + c
      BY <2>1
    <3>2. a[c] = x[(n - m + 1) + c - 1]
      BY <2>3, <3>1
    <3> QED BY <3>1, <3>2
  <2> QED BY <2>3, <2>4, <2>5
<1>2. b \in Seq(A) /\ Len(b) = m /\ \A c \in 1 .. m : b[c] = w[c]
  <2>1. 1 \in Int /\ m \in Int /\ 0 <= m /\ m <= Len(w) /\ Len(w) \in Nat
    BY LenProperties
  <2>2. \A k \in 1 .. m : w[k] \in A
    BY <2>1, ElementOfSeq
  <2>3. /\ b \in Seq(A) /\ Len(b) = IF 1 <= m THEN m - 1 + 1 ELSE 0
        /\ \A c \in 1 .. m - 1 + 1 : b[c] = w[1 + c - 1]
    BY <2>1, <2>2, SubSeqProperties
  <2> HIDE DEF b
  <2>4. Len(b) = m
    BY <2>1, <2>3
  <2>5. ASSUME NEW c \in 1 .. m PROVE b[c] = w[c]
    <3>1. c \in 1 .. m - 1 + 1 /\ 1 + c - 1 = c
      BY <2>1
    <3>2. b[c] = w[1 + c - 1]
      BY <2>3, <3>1
    <3> QED BY <3>1, <3>2
  <2> QED BY <2>3, <2>4, <2>5
<1> HIDE DEF a, b
<1>3. a = b <=> \A c \in 1 .. m : a[c] = b[c]
  BY <1>1, <1>2, SeqEqual
<1> QED BY <1>1, <1>2, <1>3 DEF a, b

LEMMA EndsWithoutLast ==
  ASSUME NEW x, NEW w, NEW n \in Nat, NEW m \in Nat \ {0}, Ends(x, n + 1, w, m)
  PROVE  Ends(x, n, w, m - 1) /\ x[n + 1] = w[m]
<1>1. \A c \in 1 .. m - 1 : c \in 1 .. m /\ n + 1 - m + c = n - (m - 1) + c
  OBVIOUS
<1>2. m \in 1 .. m /\ n + 1 - m + m = n + 1
  OBVIOUS
<1> QED BY <1>1, <1>2 DEF Ends

LEMMA EndsExtended ==
  ASSUME NEW x, NEW w, NEW n \in Nat, NEW m \in Nat, Ends(x, n, w, m),
         x[n + 1] = w[m + 1]
  PROVE  Ends(x, n + 1, w, m + 1)
<1>1. ASSUME NEW c \in 1 .. m + 1 PROVE x[n + 1 - (m + 1) + c] = w[c]
  <2>1. CASE c = m + 1
    <3>1. n + 1 - (m + 1) + (m + 1) = n + 1
      OBVIOUS
    <3> QED BY <2>1, <3>1
  <2>2. CASE c # m + 1
    <3>1. c \in 1 .. m /\ n + 1 - (m + 1) + c = n - m + c
      BY <2>2
    <3> QED BY <3>1 DEF Ends
  <2> QED BY <2>1, <2>2
<1> QED BY <1>1 DEF Ends

\* What ends in the first p characters of w ends in what those end in, ...
LEMMA EndsOfEnds ==
  ASSUME NEW x, NEW w, NEW n \in Nat, NEW p \in Nat, NEW m \in Nat,
         Ends(x, n, w, p), Ends(w, p, w, m)
  PROVE  Ends(x, n, w, m)
<1>1. ASSUME NEW c \in 1 .. m PROVE x[n - m + c] = w[c]
  <2>1. p - m + c \in 1 .. p /\ n - p + (p - m + c) = n - m + c
    BY DEF Ends
  <2>2. x[n - p + (p - m + c)] = w[p - m + c] /\ w[p - m + c] = w[c]
    BY <2>1 DEF Ends
  <2> QED BY <2>1, <2>2
<1> QED BY <1>1 DEF Ends

\* ... and of two such ends the shorter one is an end of the longer one.
LEMMA EndsNest ==
  ASSUME NEW x, NEW w, NEW n \in Nat, NEW p \in Nat, NEW m \in 0 .. p,
         Ends(x, n, w, p), Ends(x, n, w, m)
  PROVE  Ends(w, p, w, m)
<1>1. ASSUME NEW c \in 1 .. m PROVE w[p - m + c] = w[c]
  <2>1. p - m + c \in 1 .. p /\ n - p + (p - m + c) = n - m + c
    OBVIOUS
  <2>2. x[n - p + (p - m + c)] = w[p - m + c] /\ x[n - m + c] = w[c]
    BY <2>1 DEF Ends
  <2> QED BY <2>1, <2>2
<1> QED BY <1>1 DEF Ends

\* The entry of the table for n is its longest proper border.
LongestBorder(n) ==
  /\ T[n] \in 0 .. n - 1 /\ Ends(word, n, word, T[n])
  /\ \A m \in 0 .. n - 1 : Ends(word, n, word, m) => m <= T[n]

\* x has read n characters: they end in the first p of the word, and no longer prefix,
\* of fewer than b characters, is continued by the next one.
LongestEnd(x, n, p, b) ==
  /\ p >= 0 => Ends(x, n, word, p)
  /\ \A m \in 1 .. b : Ends(x, n + 1, word, m) => m - 1 <= p

\* The word occurs in the text after its first n characters.
Occurs(n) == Ends(text, n + Len(word), word, Len(word))

NoneBefore(n) == \A k \in Nat : k + Len(word) <= n => ~Occurs(k)

FirstIsResult ==
  \/ result = Absent /\ NoneBefore(Len(text))
  \/ /\ result \in Nat /\ result + Len(word) <= Len(text) /\ Occurs(result)
     /\ \A k \in 0 .. result - 1 : ~Occurs(k)

FindTyped ==
  /\ text \in Seq(Alphabet) /\ word \in Seq(Alphabet)
  /\ T \in [0 .. Len(word) -> Int] /\ T[0] = -1
  /\ pc \in {"easy", "table", "border", "search", "done"}
  /\ i \in 1 .. Len(word) + 1 /\ sp \in Nat /\ kp \in Int /\ pos \in Int

FindInv ==
  /\ FindTyped
  /\ \A n \in 1 .. i - 1 : LongestBorder(n)
  /\ pc \in {"easy", "table", "border"} => sp = 0 /\ kp = 0
  /\ pc \in {"table", "border", "search"} => result = Absent /\ Len(word) > 0
  /\ pc = "border" =>
       i <= Len(word) /\ pos \in -1 .. i - 2 /\ LongestEnd(word, i - 1, pos, i - 1)
  /\ pc = "search" =>
       /\ i = Len(word) + 1 /\ sp <= Len(text) /\ kp \in -1 .. Len(word) - 1
       /\ LongestEnd(text, sp, kp, Len(word)) /\ NoneBefore(sp)
  /\ pc = "done" => FirstIsResult

\* After a mismatch the table gives the next longest end.
LEMMA ShorterEnd ==
  ASSUME NEW x, NEW n \in Nat, NEW b \in Nat, NEW p \in Nat, T[0] = -1,
         p > 0 => LongestBorder(p), LongestEnd(x, n, p, b), word[p + 1] # x[n + 1]
  PROVE  T[p] \in -1 .. p - 1 /\ LongestEnd(x, n, T[p], b)
<1>1. T[p] \in -1 .. p - 1
  BY DEF LongestBorder
<1>2. Ends(x, n, word, p)
  BY DEF LongestEnd
<1>3. T[p] >= 0 => Ends(x, n, word, T[p])
  <2> SUFFICES ASSUME T[p] >= 0 PROVE Ends(x, n, word, T[p])
    OBVIOUS
  <2>1. p > 0 /\ T[p] \in Nat
    BY <1>1
  <2>2. Ends(word, p, word, T[p])
    BY <2>1 DEF LongestBorder
  <2> QED BY <1>2, <2>1, <2>2, EndsOfEnds
<1>4. ASSUME NEW m \in 1 .. b, Ends(x, n + 1, word, m)
      PROVE  m - 1 <= T[p]
  <2>1. m \in Nat \ {0} /\ m - 1 \in Nat /\ m - 1 <= p
    BY <1>4 DEF LongestEnd
  <2>2. Ends(x, n, word, m - 1) /\ x[n + 1] = word[m]
    BY <1>4, <2>1, EndsWithoutLast
  <2>3. m - 1 # p
    BY <2>1, <2>2
  <2>4. m - 1 \in 0 .. p - 1 /\ p > 0
    BY <2>1, <2>3
  <2>5. Ends(word, p, word, m - 1)
    BY <1>2, <2>2, <2>4, EndsNest
  <2> QED BY <2>4, <2>5 DEF LongestBorder
<1> QED BY <1>1, <1>3, <1>4 DEF LongestEnd

\* After a match it is one longer.
LEMMA LongerEnd ==
  ASSUME NEW x, NEW n \in Nat, NEW b \in Nat, NEW p \in Nat \cup {-1},
         LongestEnd(x, n, p, b), p # -1 => word[p + 1] = x[n + 1]
  PROVE  /\ Ends(x, n + 1, word, p + 1)
         /\ LongestEnd(x, n + 1, p + 1, b)
         /\ \A m \in 1 .. b : Ends(x, n + 1, word, m) => m <= p + 1
<1>1. Ends(x, n + 1, word, p + 1)
  <2>1. CASE p = -1
    BY <2>1 DEF Ends
  <2>2. CASE p # -1
    BY <2>2, EndsExtended DEF LongestEnd
  <2> QED BY <2>1, <2>2
<1>2. ASSUME NEW m \in 1 .. b, Ends(x, (n + 1) + 1, word, m)
      PROVE  m - 1 <= p + 1
  <2>1. CASE m = 1
    BY <2>1
  <2>2. CASE m # 1
    <3>1. m \in Nat \ {0} /\ m - 1 \in 1 .. b /\ n + 1 \in Nat
      BY <2>2
    <3>2. Ends(x, n + 1, word, m - 1)
      BY <1>2, <3>1, EndsWithoutLast
    <3>3. (m - 1) - 1 <= p
      BY <3>1, <3>2 DEF LongestEnd
    <3> QED BY <3>1, <3>3
  <2> QED BY <2>1, <2>2
<1> QED BY <1>1, <1>2 DEF LongestEnd

LEMMA FindInvariance == Find!Spec => []FindInv
<1>1. Find!Init => FindInv
  <2> SUFFICES ASSUME Find!Init PROVE FindInv
    OBVIOUS
  <2>1. \A A, n : Find!BoundedSeq(A, n) \subseteq Seq(A)
    BY DEF Find!BoundedSeq, Find!SeqOf
  <2>2. text \in Seq(Alphabet) /\ word \in Seq(Alphabet)
    BY <2>1 DEF Find!Init
  <2>3. Len(word) \in Nat
    BY <2>2, LenProperties
  <2>4. T = [n \in 0 .. Len(word) |-> -1] /\ 0 \in 0 .. Len(word)
    BY <2>3 DEF Find!Init
  <2>5. T \in [0 .. Len(word) -> Int] /\ T[0] = -1
    BY <2>4
  <2> QED BY <2>2, <2>3, <2>5 DEF Find!Init, FindInv, FindTyped
<1>2. FindInv /\ [Find!Next]_(Find!vars) => FindInv'
  <2> SUFFICES ASSUME FindInv, [Find!Next]_(Find!vars) PROVE FindInv'
    OBVIOUS
  <2>0. /\ FindTyped /\ Len(word) \in Nat /\ Len(text) \in Nat
        /\ i \in Nat \ {0} /\ i <= Len(word) + 1
    BY LenProperties DEF FindInv, FindTyped
  <2>1. CASE Find!EasyOuts
    <3>1. /\ pc = "easy" /\ sp = 0 /\ kp = 0 /\ pc' \in {"done", "table"}
          /\ UNCHANGED <<text, word, T, i, pos, sp, kp>>
      BY <2>1 DEF Find!EasyOuts, Find!table, Find!search, FindInv
    <3>2. word = <<>> <=> Len(word) = 0
      BY <2>0, EmptySeq DEF FindTyped
    <3>3. CASE word = <<>>
      <4>1. pc' = "done" /\ result' = 0
        BY <2>1, <3>3 DEF Find!EasyOuts
      <4>2. Occurs(0)
        BY <2>0, <3>2, <3>3 DEF Occurs, Ends
      <4>3. FirstIsResult'
        BY <2>0, <3>1, <3>2, <3>3, <4>1, <4>2 DEF FirstIsResult, Occurs
      <4> QED BY <2>0, <3>1, <4>1, <4>3 DEF FindInv, FindTyped, LongestBorder
    <3>4. CASE word # <<>> /\ Len(text) < Len(word)
      <4>1. pc' = "done" /\ result' = Absent
        BY <2>1, <3>4 DEF Find!EasyOuts
      <4>2. NoneBefore(Len(text))
        BY <2>0, <3>4 DEF NoneBefore
      <4>3. FirstIsResult'
        BY <3>1, <4>1, <4>2 DEF FirstIsResult, NoneBefore, Occurs
      <4> QED BY <2>0, <3>1, <4>1, <4>3 DEF FindInv, FindTyped, LongestBorder
    <3>5. CASE word # <<>> /\ ~(Len(text) < Len(word))
      <4>1. pc' = "table" /\ result' = Absent
        BY <2>1, <3>5 DEF Find!EasyOuts
      <4> QED BY <2>0, <3>1, <3>2, <3>5, <4>1 DEF FindInv, FindTyped, LongestBorder
    <3> QED BY <3>3, <3>4, <3>5
  <2>2. CASE Find!NextPrefix
    <3>1. /\ pc = "table" /\ sp = 0 /\ kp = 0 /\ result = Absent /\ Len(word) > 0
          /\ UNCHANGED <<text, word, T, i, sp, kp, result>>
      BY <2>2 DEF Find!NextPrefix, Find!search, FindInv
    <3>2. CASE i <= Len(word)
      <4>1. pc' = "border" /\ pos' = T[i - 1]
        BY <2>2, <3>2 DEF Find!NextPrefix
      <4>2. pos' \in -1 .. i - 2 /\ pos' \in Int
        <5>1. CASE i = 1
          BY <4>1, <5>1 DEF FindInv, FindTyped
        <5>2. CASE i # 1
          <6>1. LongestBorder(i - 1)
            BY <2>0, <5>2 DEF FindInv
          <6> QED BY <2>0, <4>1, <5>2, <6>1 DEF LongestBorder
        <5> QED BY <5>1, <5>2
      <4>3. LongestEnd(word, i - 1, pos', i - 1)
        <5>1. CASE i = 1
          BY <4>1, <5>1 DEF FindInv, FindTyped, LongestEnd
        <5>2. CASE i # 1
          <6>1. LongestBorder(i - 1) /\ i - 1 \in Nat
            BY <2>0, <5>2 DEF FindInv
          <6>2. Ends(word, i - 1, word, pos')
            BY <4>1, <6>1 DEF LongestBorder
          <6>3. ASSUME NEW m \in 1 .. i - 1, Ends(word, (i - 1) + 1, word, m)
                PROVE  m - 1 <= pos'
            <7>1. m \in Nat \ {0} /\ m - 1 \in 0 .. (i - 1) - 1
              BY <2>0
            <7>2. Ends(word, i - 1, word, m - 1)
              BY <6>1, <6>3, <7>1, EndsWithoutLast
            <7> QED BY <4>1, <6>1, <7>1, <7>2 DEF LongestBorder
          <6> QED BY <6>2, <6>3 DEF LongestEnd
        <5> QED BY <5>1, <5>2
      <4>4. LongestEnd(word, i - 1, pos, i - 1)'
        BY <3>1, <4>3 DEF LongestEnd
      <4>5. (\A n \in 1 .. i - 1 : LongestBorder(n))'
        BY <3>1 DEF FindInv, LongestBorder
      <4>6. FindTyped'
        BY <2>0, <3>1, <4>1, <4>2 DEF FindTyped
      <4> QED BY <3>1, <3>2, <4>1, <4>2, <4>4, <4>5, <4>6 DEF FindInv
    <3>3. CASE ~(i <= Len(word))
      <4>1. pc' = "search" /\ pos' = pos /\ i = Len(word) + 1
        BY <2>0, <2>2, <3>3 DEF Find!NextPrefix
      <4>2. LongestEnd(text, 0, 0, Len(word))
        BY <2>0 DEF LongestEnd, Ends
      <4>3. NoneBefore(0)
        BY <2>0, <3>1 DEF NoneBefore
      <4>4. LongestEnd(text, sp, kp, Len(word))'
        BY <3>1, <4>2 DEF LongestEnd
      <4>5. NoneBefore(sp)'
        BY <3>1, <4>3 DEF NoneBefore, Occurs
      <4>6. (\A n \in 1 .. i - 1 : LongestBorder(n))'
        BY <3>1 DEF FindInv, LongestBorder
      <4>7. FindTyped'
        BY <2>0, <3>1, <4>1 DEF FindTyped
      <4>8. sp' <= Len(text)' /\ kp' \in -1 .. Len(word)' - 1
        BY <2>0, <3>1
      <4> QED BY <3>1, <4>1, <4>4, <4>5, <4>6, <4>7, <4>8 DEF FindInv
    <3> QED BY <3>2, <3>3
  <2>3. CASE Find!ShorterBorder
    <3>1. /\ pc = "border" /\ pc' = pc /\ pos' = T[pos]
          /\ UNCHANGED <<text, word, T, i, sp, kp, result>>
      BY <2>3 DEF Find!ShorterBorder, Find!search
    <3>2. /\ pos # -1 /\ word[pos + 1] # word[(i - 1) + 1] /\ pos \in -1 .. i - 2
          /\ i <= Len(word) /\ LongestEnd(word, i - 1, pos, i - 1)
      BY <2>3, <3>1 DEF Find!ShorterBorder, Find!Extends, Find!Char, FindInv
    <3>3. pos \in Nat /\ i - 1 \in Nat /\ (pos > 0 => LongestBorder(pos))
      BY <2>0, <3>2 DEF FindInv
    <3>4. T[pos] \in -1 .. pos - 1 /\ LongestEnd(word, i - 1, T[pos], i - 1)
      BY <2>0, <3>2, <3>3, ShorterEnd DEF FindTyped
    <3>5. LongestEnd(word, i - 1, pos, i - 1)'
      BY <3>1, <3>4 DEF LongestEnd
    <3>6. (\A n \in 1 .. i - 1 : LongestBorder(n))'
      BY <3>1 DEF FindInv, LongestBorder
    <3>7. pos' \in -1 .. i' - 2 /\ i' <= Len(word)'
      BY <2>0, <3>1, <3>2, <3>4
    <3>8. FindTyped'
      BY <2>0, <3>1, <3>4 DEF FindTyped
    <3> QED BY <3>1, <3>5, <3>6, <3>7, <3>8 DEF FindInv
  <2>4. CASE Find!SetBorder
    <3>1. /\ pc = "border" /\ pc' = "table" /\ T' = [T EXCEPT ![i] = pos + 1] /\ i' = i + 1
          /\ UNCHANGED <<text, word, pos, sp, kp, result>>
      BY <2>4 DEF Find!SetBorder, Find!Border, Find!search
    <3>2. /\ pos # -1 => word[pos + 1] = word[(i - 1) + 1]
          /\ i <= Len(word) /\ pos \in -1 .. i - 2
          /\ LongestEnd(word, i - 1, pos, i - 1)
      BY <2>4, <3>1 DEF Find!SetBorder, Find!Extends, Find!Char, FindInv
    <3>3. i - 1 \in Nat /\ pos \in Nat \cup {-1} /\ i - 1 + 1 = i /\ i \in 0 .. Len(word)
      BY <2>0, <3>2
    <3>4. /\ Ends(word, (i - 1) + 1, word, pos + 1)
          /\ \A m \in 1 .. i - 1 : Ends(word, (i - 1) + 1, word, m) => m <= pos + 1
      BY <3>2, <3>3, LongerEnd
    <3>5. T' \in [0 .. Len(word) -> Int] /\ T'[i] = pos + 1 /\ T'[0] = -1
          /\ \A n \in 1 .. i - 1 : T'[n] = T[n]
      BY <2>0, <3>1, <3>3 DEF FindTyped
    <3>6. /\ T'[i] \in 0 .. i - 1 /\ Ends(word, i, word, T'[i])
          /\ \A m \in 0 .. i - 1 : Ends(word, i, word, m) => m <= T'[i]
      <4>1. T'[i] \in 0 .. i - 1
        BY <2>0, <3>2, <3>5
      <4>2. Ends(word, i, word, T'[i])
        BY <3>3, <3>4, <3>5
      <4>3. ASSUME NEW m \in 0 .. i - 1, Ends(word, i, word, m) PROVE m <= T'[i]
        <5>1. CASE m = 0
          BY <4>1, <5>1
        <5>2. CASE m # 0
          BY <3>3, <3>4, <3>5, <4>3, <5>2
        <5> QED BY <5>1, <5>2
      <4> QED BY <4>1, <4>2, <4>3
    <3>7. ASSUME NEW n \in 1 .. i PROVE LongestBorder(n)'
      <4>1. CASE n = i
        BY <3>1, <3>6, <4>1 DEF LongestBorder
      <4>2. CASE n # i
        <5>1. n \in 1 .. i - 1 /\ T'[n] = T[n]
          BY <2>0, <3>5, <4>2
        <5>2. LongestBorder(n)
          BY <5>1 DEF FindInv
        <5> QED BY <3>1, <5>1, <5>2 DEF LongestBorder
      <4> QED BY <4>1, <4>2
    <3>8. (\A n \in 1 .. i - 1 : LongestBorder(n))'
      BY <2>0, <3>1, <3>7
    <3>9. FindTyped'
      BY <2>0, <3>1, <3>3, <3>5 DEF FindTyped
    <3>10. sp' = 0 /\ kp' = 0 /\ result' = Absent /\ Len(word)' > 0
      BY <2>0, <3>1 DEF FindInv
    <3> QED BY <3>1, <3>8, <3>9, <3>10 DEF FindInv
  <2>5. CASE Find!FallBack
    <3>1. /\ pc = "search" /\ pc' = pc /\ kp' = T[kp] /\ sp < Len(text)
          /\ UNCHANGED <<text, word, T, i, pos, sp, result>>
      BY <2>5 DEF Find!FallBack, Find!FallenBack, Find!table
    <3>2. /\ i = Len(word) + 1 /\ sp <= Len(text) /\ kp \in -1 .. Len(word) - 1
          /\ LongestEnd(text, sp, kp, Len(word)) /\ NoneBefore(sp)
          /\ result = Absent /\ Len(word) > 0
      BY <3>1 DEF FindInv
    <3>3. kp \in Nat /\ word[kp + 1] # text[sp + 1]
      BY <2>0, <2>5, <3>2 DEF Find!FallBack, Find!Matches, Find!Char
    <3>4. sp \in Nat /\ (kp > 0 => LongestBorder(kp)) /\ T[0] = -1
      BY <2>0, <3>2, <3>3 DEF FindInv, FindTyped
    <3>5. T[kp] \in -1 .. kp - 1 /\ LongestEnd(text, sp, T[kp], Len(word))
      BY <2>0, <3>2, <3>3, <3>4, ShorterEnd
    <3>6. LongestEnd(text, sp, kp, Len(word))' /\ NoneBefore(sp)'
      BY <3>1, <3>2, <3>5 DEF LongestEnd, NoneBefore, Occurs
    <3>7. (\A n \in 1 .. i - 1 : LongestBorder(n))'
      BY <3>1 DEF FindInv, LongestBorder
    <3>8. kp' \in -1 .. Len(word)' - 1
      BY <2>0, <3>1, <3>2, <3>5
    <3>9. FindTyped'
      BY <2>0, <3>1, <3>4, <3>5 DEF FindTyped
    <3> QED BY <3>1, <3>2, <3>6, <3>7, <3>8, <3>9 DEF FindInv
  <2>6. CASE Find!Advance
    <3>1. /\ pc = "search" /\ kp' = kp + 1 /\ sp' = sp + 1 /\ sp < Len(text)
          /\ UNCHANGED <<text, word, T, i, pos>>
      BY <2>6 DEF Find!Advance, Find!table
    <3>2. /\ i = Len(word) + 1 /\ sp <= Len(text) /\ kp \in -1 .. Len(word) - 1
          /\ LongestEnd(text, sp, kp, Len(word)) /\ NoneBefore(sp)
          /\ result = Absent /\ Len(word) > 0 /\ sp \in Nat
      BY <3>1 DEF FindInv, FindTyped
    <3>3. kp # -1 => word[kp + 1] = text[sp + 1]
      BY <2>6 DEF Find!Advance, Find!Matches, Find!Char
    <3>4. kp \in Nat \cup {-1}
      BY <2>0, <3>2
    <3>5. /\ Ends(text, sp + 1, word, kp + 1)
          /\ LongestEnd(text, sp + 1, kp + 1, Len(word))
          /\ \A m \in 1 .. Len(word) : Ends(text, sp + 1, word, m) => m <= kp + 1
      BY <2>0, <3>2, <3>3, <3>4, LongerEnd
    <3>6. ASSUME NEW k \in Nat, k + Len(word) <= sp + 1, Occurs(k)
          PROVE  k + Len(word) = sp + 1 /\ kp + 1 = Len(word)
      <4>1. ~(k + Len(word) <= sp)
        BY <3>2, <3>6 DEF NoneBefore
      <4>2. k + Len(word) = sp + 1
        BY <2>0, <3>2, <3>6, <4>1
      <4>3. Len(word) <= kp + 1
        BY <2>0, <3>2, <3>5, <3>6, <4>2 DEF Occurs
      <4> QED BY <2>0, <3>2, <4>2, <4>3
    <3>7. (\A n \in 1 .. i - 1 : LongestBorder(n))'
      BY <3>1 DEF FindInv, LongestBorder
    <3>8. CASE kp + 1 = Len(word)
      <4>1. pc' = "done" /\ result' = sp + 1 - Len(word)
        BY <2>6, <3>8 DEF Find!Advance, Find!Found
      <4> DEFINE r == sp + 1 - Len(word)
      <4>2. r \in Nat /\ r + Len(word) = sp + 1 /\ r + Len(word) <= Len(text)
        BY <2>0, <3>1, <3>2, <3>5, <3>8 DEF Ends
      <4>3. Occurs(r)
        BY <3>5, <3>8, <4>2 DEF Occurs
      <4>4. ASSUME NEW k \in 0 .. r - 1 PROVE ~Occurs(k)
        <5>1. k \in Nat /\ k + Len(word) <= sp
          BY <2>0, <3>2, <4>2
        <5> QED BY <3>2, <5>1 DEF NoneBefore
      <4>5. FirstIsResult'
        BY <3>1, <4>1, <4>2, <4>3, <4>4 DEF FirstIsResult, Occurs
      <4>6. FindTyped'
        BY <2>0, <3>1, <3>2, <3>4, <4>1 DEF FindTyped
      <4> QED BY <3>1, <3>7, <4>1, <4>5, <4>6 DEF FindInv
    <3>9. CASE kp + 1 # Len(word)
      <4>1. pc' = pc /\ result' = result
        BY <2>6, <3>9 DEF Find!Advance
      <4>2. NoneBefore(sp + 1)
        BY <3>6, <3>9 DEF NoneBefore
      <4>3. NoneBefore(sp)' /\ LongestEnd(text, sp, kp, Len(word))'
        BY <3>1, <3>5, <4>2 DEF NoneBefore, Occurs, LongestEnd
      <4>4. kp' \in -1 .. Len(word)' - 1 /\ sp' <= Len(text)'
        BY <2>0, <3>1, <3>2, <3>9
      <4>5. FindTyped'
        BY <2>0, <3>1, <3>2, <3>4, <4>1 DEF FindTyped
      <4> QED BY <3>1, <3>2, <3>7, <4>1, <4>3, <4>4, <4>5 DEF FindInv
    <3> QED BY <3>8, <3>9
  <2>7. CASE Find!NotFound
    <3>1. /\ pc = "search" /\ pc' = "done" /\ sp = Len(text)
          /\ UNCHANGED <<text, word, T, i, pos, sp, kp, result>>
      BY <2>7 DEF Find!NotFound, Find!table, Find!search
    <3>2. result = Absent /\ NoneBefore(Len(text))
      BY <3>1 DEF FindInv
    <3>3. FirstIsResult'
      BY <3>1, <3>2 DEF FirstIsResult, NoneBefore, Occurs
    <3> QED BY <2>0, <3>1, <3>3 DEF FindInv, FindTyped, LongestBorder
  <2>8. CASE UNCHANGED Find!vars
    <3>1. UNCHANGED <<text, word, T, i, pos, sp, kp, pc, result>>
      BY <2>8 DEF Find!vars, Find!table, Find!search
    <3> QED BY <2>0, <3>1 DEF FindInv, FindTyped, LongestBorder, LongestEnd, NoneBefore,
                              Occurs, FirstIsResult
  <2> QED BY <2>1, <2>2, <2>3, <2>4, <2>5, <2>6, <2>7, <2>8 DEF Find!Next
<1> QED BY <1>1, <1>2, PTL DEF Find!Spec

LEMMA FindPart == Spec => Find!Spec
<1>1. Init => Find!Init
  BY DEF Init
<1>2. [Next]_vars => [Find!Next]_(Find!vars)
  BY DEF Next, vars, find, Find!vars, Find!table, Find!search
<1> QED BY <1>1, <1>2, PTL DEF Spec, Find!Spec

\* For any characters, texts and words: each entry of the failure table is the longest
\* proper border, the search goes on with the longest match that the next character
\* continues, and what is returned is the first occurrence, npos if there is none.
THEOREM FindIsAlwaysRight == Spec => []FindIsRight
<1>1. FindInv => FindIsRight
  <2> SUFFICES ASSUME FindInv PROVE FindIsRight
    OBVIOUS
  <2>0. /\ FindTyped /\ Len(word) \in Nat /\ Len(text) \in Nat
        /\ i \in Nat \ {0} /\ i <= Len(word) + 1
        /\ text \in Seq(Alphabet) /\ word \in Seq(Alphabet)
    BY LenProperties DEF FindInv, FindTyped
  <2>1. ASSUME NEW x \in Seq(Alphabet), NEW n \in 0 .. Len(x), NEW m \in 0 .. Len(word)
        PROVE  Find!EndsInPrefix(x, n, m) <=> Ends(x, n, word, m)
    <3>1. CASE m <= n
      <4>1. n \in m .. Len(x)
        BY <3>1
      <4>2. SubSeq(x, n - m + 1, n) = SubSeq(word, 1, m)
              <=> \A c \in 1 .. m : x[n - m + c] = word[c]
        BY <2>0, <4>1, SubSeqsAgree
      <4>3. Find!EndsInPrefix(x, n, m) <=> SubSeq(x, n - m + 1, n) = SubSeq(word, 1, m)
        BY <3>1, Zenon DEF Find!EndsInPrefix, Find!Prefix
      <4>4. Ends(x, n, word, m) <=> \A c \in 1 .. m : x[n - m + c] = word[c]
        BY <3>1, Zenon DEF Ends
      <4> QED BY <4>2, <4>3, <4>4
    <3>2. CASE ~(m <= n)
      BY <3>2 DEF Find!EndsInPrefix, Ends
    <3> QED BY <3>1, <3>2
  <2>2. Find!TableHasLongestBorders
    <3> SUFFICES ASSUME NEW n \in 1 .. i - 1
                 PROVE  T[n] = Find!Max({m \in 0 .. n - 1 : Find!EndsInPrefix(word, n, m)})
      BY DEF Find!TableHasLongestBorders
    <3> DEFINE S == {m \in 0 .. n - 1 : Find!EndsInPrefix(word, n, m)}
    <3>1. LongestBorder(n)
      BY DEF FindInv
    <3>2. /\ n \in 0 .. Len(word)
          /\ \A m \in 0 .. n - 1 : m \in 0 .. Len(word)
      BY <2>0
    <3>3. \A m \in 0 .. n - 1 : Find!EndsInPrefix(word, n, m) <=> Ends(word, n, word, m)
      BY <2>0, <2>1, <3>2
    <3>4. S \in SUBSET Int /\ T[n] \in S /\ \A m \in S : m <= T[n]
      BY <3>1, <3>3 DEF LongestBorder
    <3> QED BY <3>4, FindMaxIs
  <2>3. Find!SearchKeepsLongestMatch
    <3> SUFFICES ASSUME pc = "search", sp < Len(text), Find!Matches
                 PROVE  kp = Find!Max({-1} \cup
                          {m \in 0 .. Len(word) - 1 : Find!EndsInPrefix(text, sp, m)
                                         /\ Find!Char(word, m) = Find!Char(text, sp)})
      BY DEF Find!SearchKeepsLongestMatch
    <3> DEFINE S == {m \in 0 .. Len(word) - 1 :
                       Find!EndsInPrefix(text, sp, m) /\ Find!Char(word, m) = Find!Char(text, sp)}
    <3>1. kp \in -1 .. Len(word) - 1 /\ sp \in 0 .. Len(text) /\ sp \in Nat
          /\ LongestEnd(text, sp, kp, Len(word))
      BY <2>0 DEF FindInv, FindTyped
    <3>2. \A m \in 0 .. Len(word) - 1 :
            Find!EndsInPrefix(text, sp, m) <=> Ends(text, sp, word, m)
      BY <2>0, <2>1, <3>1
    <3>3. ASSUME NEW m \in S PROVE m <= kp
      <4>1. m \in Nat /\ m + 1 \in 1 .. Len(word) /\ (m + 1) - 1 = m
        BY <2>0
      <4>2. Ends(text, sp + 1, word, m + 1)
        BY <3>1, <3>2, <4>1, EndsExtended DEF Find!Char
      <4>3. (m + 1) - 1 <= kp
        BY <3>1, <4>1, <4>2 DEF LongestEnd
      <4> QED BY <4>1, <4>3
    <3>4. kp # -1 => kp \in S
      <4> SUFFICES ASSUME kp # -1 PROVE kp \in S
        OBVIOUS
      <4>1. kp \in 0 .. Len(word) - 1
        BY <2>0, <3>1
      <4>2. Ends(text, sp, word, kp)
        BY <3>1, <4>1 DEF LongestEnd
      <4> QED BY <3>2, <4>1, <4>2 DEF Find!Matches
    <3> HIDE DEF S
    <3>5. S \subseteq 0 .. Len(word) - 1
      BY DEF S
    <3>6. {-1} \cup S \in SUBSET Int /\ kp \in {-1} \cup S
          /\ \A y \in {-1} \cup S : y <= kp
      BY <2>0, <3>1, <3>3, <3>4, <3>5
    <3>7. kp = Find!Max({-1} \cup S)
      BY <3>6, FindMaxIs
    <3> QED BY <3>7 DEF S
  <2>4. Find!FindsFirst
    <3> SUFFICES ASSUME pc = "done"
                 PROVE  LET all == {n \in 0 .. Len(text) : Find!OccursAt(n)}
                        IN  result = IF all = {} THEN Absent ELSE Find!Min(all)
      BY DEF Find!FindsFirst
    <3> DEFINE all == {n \in 0 .. Len(text) : Find!OccursAt(n)}
    <3>1. FirstIsResult
      BY DEF FindInv
    <3>2. ASSUME NEW n \in Nat, n + Len(word) <= Len(text)
          PROVE  SubSeq(text, n + 1, n + Len(word)) = word <=> Occurs(n)
      <4> DEFINE m == Len(word)
                 e == n + Len(word)
      <4>1. m \in 0 .. Len(word) /\ e \in m .. Len(text) /\ e - m + 1 = n + 1 /\ m <= e
        BY <2>0, <3>2
      <4>2. SubSeq(text, e - m + 1, e) = SubSeq(word, 1, m)
              <=> \A c \in 1 .. m : text[e - m + c] = word[c]
        BY <2>0, <4>1, SubSeqsAgree
      <4>3. SubSeq(word, 1, m) = word
        BY <2>0
      <4> QED BY <4>1, <4>2, <4>3 DEF Occurs, Ends
    <3>3. \A n \in 0 .. Len(text) :
            n \in all <=> n + Len(word) <= Len(text) /\ Occurs(n)
      BY <3>2 DEF Find!OccursAt
    <3> HIDE DEF all
    <3>4. all \subseteq 0 .. Len(text)
      BY DEF all
    <3>5. CASE result = Absent /\ NoneBefore(Len(text))
      <4>1. all = {}
        BY <3>3, <3>4, <3>5 DEF NoneBefore
      <4> QED BY <3>5, <4>1 DEF all
    <3>6. CASE ~(result = Absent /\ NoneBefore(Len(text)))
      <4>1. /\ result \in Nat /\ result + Len(word) <= Len(text) /\ Occurs(result)
            /\ \A k \in 0 .. result - 1 : ~Occurs(k)
        BY <3>1, <3>6 DEF FirstIsResult
      <4>2. result \in all
        BY <2>0, <3>3, <4>1
      <4>3. \A y \in all : result <= y
        BY <3>3, <3>4, <4>1
      <4>4. Find!Min(all) = result
        BY <3>4, <4>2, <4>3, FindMinIs
      <4> QED BY <4>2, <4>4 DEF all
    <3> QED BY <3>5, <3>6
  <2> QED BY <2>2, <2>3, <2>4 DEF FindIsRight
<1> QED BY <1>1, FindPart, FindInvariance, PTL

----------------------------------------------------------------------------
(* Array references: the client's part of the array begins where the        *)
(* reference does and is no longer; the reference may be longer, but ends   *)
(* within the array unless a slice took the rest.                           *)

ArraySize == 2 ^ SizeBits

LEMMA ArraySizeIs ==
  /\ ArraySize \in Nat \ {0} /\ Elements \in Nat /\ Elements < ArraySize - 1
  /\ Lengths \subseteq 0 .. ArraySize - 1
  /\ Array!minusOne = ArraySize - 1
  /\ \A n \in 0 .. ArraySize - 1 : Array!Wrap(n) = n
<1>1. /\ Elements \in Nat /\ SizeBits \in Nat /\ Elements < 2 ^ SizeBits - 1
      /\ Lengths \subseteq 0 .. 2 ^ SizeBits - 1
  BY ArrayConstants DEF Array!ArrayRefAssumption
<1>2. \A b \in Nat : 2 ^ b \in Int
  BY SMT
<1>3. /\ ArraySize \in Nat \ {0} /\ Elements < ArraySize - 1
      /\ Lengths \subseteq 0 .. ArraySize - 1
  BY <1>1, <1>2 DEF ArraySize
<1> HIDE DEF ArraySize
<1>4. (-1) % ArraySize = ArraySize - 1
  BY <1>3, Z3
<1>5. \A n \in 0 .. ArraySize - 1 : n % ArraySize = n
  BY <1>3, Z3
<1> QED BY <1>1, <1>3, <1>4, <1>5 DEF Array!minusOne, Array!Wrap, ArraySize

ArrayInv ==
  /\ start = from /\ from \in Nat /\ end \in from .. Elements
  /\ len \in end - from .. ArraySize - 1
  /\ ~rest => start + len <= Elements

LEMMA ArrayInvariance == Array!Spec => []ArrayInv
<1>0. /\ ArraySize \in Int /\ Elements \in Int /\ 0 <= Elements /\ Elements < ArraySize - 1
      /\ Lengths \subseteq 0 .. ArraySize - 1 /\ Array!minusOne = ArraySize - 1
  BY ArraySizeIs
<1> HIDE DEF ArraySize
<1>1. Array!Init => ArrayInv
  BY <1>0 DEF Array!Init, ArrayInv
<1>2. ArrayInv /\ [Array!Next]_(Array!vars) => ArrayInv'
  <2> SUFFICES ASSUME ArrayInv, [Array!Next]_(Array!vars) PROVE ArrayInv'
    OBVIOUS
  <2>0. /\ start \in Nat /\ from \in Nat /\ end \in Nat /\ len \in Nat
        /\ start = from /\ from <= end /\ end <= Elements
        /\ end - from <= len /\ len <= ArraySize - 1
        /\ ~rest => start + len <= Elements
    BY <1>0 DEF ArrayInv
  <2>1. CASE Array!clear
    BY <1>0, <2>1 DEF Array!clear, ArrayInv
  <2>2. ASSUME NEW a \in 0 .. Elements, NEW b \in a .. Elements, Array!Refer(a, b)
        PROVE  ArrayInv'
    BY <1>0, <2>2 DEF Array!Refer, ArrayInv
  <2>3. ASSUME NEW p \in 0 .. Elements, NEW n \in Lengths, Array!slice(p, n)
        PROVE  ArrayInv'
    <3>1. /\ p <= end - from /\ start' = start + p /\ from' = from + p
          /\ n = Array!minusOne \/ p + n <= end - from
          /\ end' = IF n = Array!minusOne THEN end ELSE from + p + n
          /\ ~rest' => ~rest /\ n # Array!minusOne
          /\ len' = IF n = Array!minusOne THEN n ELSE Array!Wrap(len - p)
      BY <2>3 DEF Array!slice, Array!SliceLength
    <3>2. n \in 0 .. ArraySize - 1 /\ len - p \in 0 .. ArraySize - 1
      BY <1>0, <2>0, <3>1
    <3>3. Array!Wrap(len - p) = len - p
      BY <3>2, ArraySizeIs
    <3>4. CASE n = Array!minusOne
      BY <1>0, <2>0, <3>1, <3>4 DEF ArrayInv
    <3>5. CASE n # Array!minusOne
      BY <1>0, <2>0, <3>1, <3>2, <3>3, <3>5 DEF ArrayInv
    <3> QED BY <3>4, <3>5
  <2>4. ASSUME NEW n \in 0 .. Elements, Array!remove_prefix(n) PROVE ArrayInv'
    <3>1. /\ n <= end - from /\ start' = start + n /\ from' = from + n
          /\ len' = Array!Wrap(len - n) /\ UNCHANGED <<end, rest>>
      BY <2>4 DEF Array!remove_prefix
    <3>2. len - n \in 0 .. ArraySize - 1
      BY <1>0, <2>0, <3>1
    <3>3. len' = len - n
      BY <3>1, <3>2, ArraySizeIs
    <3> QED BY <1>0, <2>0, <3>1, <3>3 DEF ArrayInv
  <2>5. ASSUME NEW n \in 0 .. Elements, Array!remove_suffix(n) PROVE ArrayInv'
    <3>1. /\ n <= end - from /\ end' = end - n
          /\ len' = Array!Wrap(len - n) /\ UNCHANGED <<start, from, rest>>
      BY <2>5 DEF Array!remove_suffix
    <3>2. len - n \in 0 .. ArraySize - 1
      BY <1>0, <2>0, <3>1
    <3>3. len' = len - n
      BY <3>1, <3>2, ArraySizeIs
    <3> QED BY <1>0, <2>0, <3>1, <3>3 DEF ArrayInv
  <2>6. CASE UNCHANGED Array!vars
    BY <2>6 DEF Array!vars, ArrayInv
  <2> QED BY <2>1, <2>2, <2>3, <2>4, <2>5, <2>6 DEF Array!Next
<1> QED BY <1>1, <1>2, PTL DEF Array!Spec

LEMMA ArrayStaysInside ==
  ArrayInv => Array!AtStaysInArray /\ Array!ShowsWhatWasAsked
<1> SUFFICES ASSUME ArrayInv PROVE Array!AtStaysInArray /\ Array!ShowsWhatWasAsked
  OBVIOUS
<1>0. /\ start \in Nat /\ from \in Nat /\ end \in Nat /\ len \in Nat
      /\ start = from /\ from <= end /\ end <= Elements
      /\ end - from <= len /\ len <= ArraySize - 1
      /\ ~rest => start + len <= Elements
  BY ArraySizeIs DEF ArrayInv
<1>1. ~rest => Array!AtAlwaysStaysInArray
  BY <1>0, ArraySizeIs DEF Array!AtAlwaysStaysInArray, Array!Accepted
<1>2. ~rest /\ len > 0 => {Array!front, Array!back} \subseteq 0 .. Elements - 1
  <2> SUFFICES ASSUME ~rest, len > 0
               PROVE  {Array!front, Array!back} \subseteq 0 .. Elements - 1
    OBVIOUS
  <2>1. len - 1 \in 0 .. ArraySize - 1
    BY <1>0, ArraySizeIs
  <2>2. Array!Wrap(len - 1) = len - 1
    BY <2>1, ArraySizeIs
  <2> QED BY <1>0, <2>2, ArraySizeIs DEF Array!front, Array!back
<1>3. Array!ShowsWhatWasAsked
  BY <1>0 DEF Array!ShowsWhatWasAsked, Array!Accepted
<1> QED BY <1>1, <1>2, <1>3 DEF Array!AtStaysInArray

LEMMA ArrayPart == Spec => Array!Spec
<1>1. Init => Array!Init
  BY DEF Init
<1>2. [Next]_vars => [Array!Next]_(Array!vars)
  BY DEF Next, vars, array, Array!vars
<1> QED BY <1>1, <1>2, PTL DEF Spec, Array!Spec

----------------------------------------------------------------------------
(* String views: a view is null and empty, or lies within its text.         *)

AddressSize == 2 ^ AddressBits

LEMMA AddressesAre ==
  /\ AddressSize \in Nat /\ MaxView \in Nat /\ Base \in Nat /\ Base > 1
  /\ Base + MaxView < AddressSize - 1 /\ View!Ref!outside \notin Chars
  /\ View!Ref!npos = AddressSize - 1
  /\ \A n \in 0 .. AddressSize - 1 : View!Ref!Wrap(n) = n
<1>1. /\ MaxView \in Nat /\ AddressBits \in Nat /\ Base \in Nat /\ Base > 1
      /\ Base + MaxView < 2 ^ AddressBits - 1 /\ View!Ref!outside \notin Chars
  BY ViewConstants DEF View!StringViewAssumption, View!Ref!StringRefAssumption
<1>2. \A b \in Nat : 2 ^ b \in Int
  BY SMT
<1>3. AddressSize \in Nat /\ AddressSize > 0 /\ Base + MaxView < AddressSize - 1
  BY <1>1, <1>2 DEF AddressSize
<1> HIDE DEF AddressSize
<1>4. \A n \in 0 .. AddressSize - 1 : n % AddressSize = n
  BY <1>3, Z3
<1> QED BY <1>1, <1>3, <1>4 DEF View!Ref!npos, View!Ref!Wrap, AddressSize

ViewInv ==
  /\ viewed \in Seq(Chars) /\ Len(viewed) <= MaxView /\ size_ \in Nat
  /\ \/ data_ = 0 /\ size_ = 0
     \/ data_ \in Nat /\ Base <= data_ /\ data_ + size_ <= Base + Len(viewed)

LEMMA ViewInvariance == View!Spec => []ViewInv
<1>0. \A t \in View!Ref!Texts : t \in Seq(Chars) /\ Len(t) <= MaxView
  <2> SUFFICES ASSUME NEW t \in View!Ref!Texts PROVE t \in Seq(Chars) /\ Len(t) <= MaxView
    OBVIOUS
  <2>1. PICK n \in 0 .. MaxView : t \in [1 .. n -> Chars]
    BY DEF View!Ref!Texts, View!Ref!BoundedSeq, View!Ref!SeqOf
  <2>2. n \in Nat /\ n <= MaxView
    BY AddressesAre
  <2> QED BY <2>1, <2>2
<1>1. View!Init => ViewInv
  BY <1>0 DEF View!Init, View!Ref!Init, View!Ref!null, ViewInv
<1>2. ViewInv /\ [View!Next]_(View!vars) => ViewInv'
  <2> SUFFICES ASSUME ViewInv, [View!Next]_(View!vars) PROVE ViewInv'
    OBVIOUS
  <2>0. /\ viewed \in Seq(Chars) /\ Len(viewed) \in Nat /\ Base \in Nat
    BY LenProperties, AddressesAre DEF ViewInv
  <2>1. ASSUME NEW t \in View!Ref!Texts, View!View(t) PROVE ViewInv'
    <3>1. viewed' = t /\ data_' = Base /\ size_' = Len(t)
      BY <2>1 DEF View!View, View!Ref!View
    <3>2. t \in Seq(Chars) /\ Len(t) <= MaxView /\ Len(t) \in Nat
      BY <1>0, LenProperties
    <3> QED BY <2>0, <3>1, <3>2 DEF ViewInv
  <2>2. CASE View!clear
    BY <2>2 DEF View!clear, View!Ref!clear, View!Ref!null, ViewInv
  <2>3. ASSUME NEW n \in 0 .. MaxView, View!remove_prefix(n) \/ View!remove_suffix(n)
        PROVE  ViewInv'
    <3>1. n \in Nat
      BY AddressesAre
    <3>2. CASE View!remove_prefix(n)
      BY <2>0, <3>1, <3>2 DEF View!remove_prefix, View!Ref!remove_prefix, ViewInv
    <3>3. CASE View!remove_suffix(n)
      BY <2>0, <3>1, <3>3 DEF View!remove_suffix, View!Ref!remove_suffix, ViewInv
    <3> QED BY <2>3, <3>2, <3>3
  <2>4. CASE UNCHANGED View!vars
    BY <2>4 DEF View!vars, ViewInv
  <2> QED BY <2>1, <2>2, <2>3, <2>4 DEF View!Next
<1> QED BY <1>1, <1>2, PTL DEF View!Spec

LEMMA ViewPart == Spec => View!Spec
<1>1. Init => View!Init
  BY DEF Init
<1>2. [Next]_vars => [View!Next]_(View!vars)
  BY DEF Next, vars, view, View!vars
<1> QED BY <1>1, <1>2, PTL DEF Spec, View!Spec

\* A view that is not null, and the string it stands for.
LEMMA ViewShows ==
  ASSUME ViewInv, data_ # 0
  PROVE  /\ data_ \in Nat /\ size_ \in Nat /\ Len(viewed) \in Nat /\ Base <= data_
         /\ data_ + size_ <= Base + Len(viewed) /\ Len(viewed) <= MaxView
         /\ data_ .. data_ + size_ - 1 \subseteq View!Ref!Readable
         /\ View!Ref!Viewed = View!str /\ View!str \in Seq(Chars) /\ Len(View!str) = size_
         /\ \A c \in 0 .. size_ - 1 : View!str[c + 1] = View!Ref!At(data_ + c)
<1>1. /\ data_ \in Nat /\ size_ \in Nat /\ Len(viewed) \in Nat /\ Base <= data_
      /\ data_ + size_ <= Base + Len(viewed) /\ Len(viewed) <= MaxView
      /\ viewed \in Seq(Chars) /\ Base \in Nat
  BY LenProperties, AddressesAre DEF ViewInv
<1>2. data_ .. data_ + size_ - 1 \subseteq View!Ref!Readable
  BY <1>1 DEF View!Ref!Readable
<1>3. View!Ref!Viewed = View!str
  BY DEF View!Ref!Viewed, View!str, View!Ref!null
<1> DEFINE a == data_ - Base
<1>4. a \in Nat /\ a + size_ <= Len(viewed)
  BY <1>1
<1>5. View!str = SubSeq(viewed, a + 1, a + size_)
  BY DEF View!str
<1> HIDE DEF a
<1>6. View!str = [c \in 1 .. size_ |-> viewed[a + c]]
  BY <1>1, <1>4, <1>5, SMTT(30)
<1>7. \A c \in 1 .. size_ : viewed[a + c] \in Chars
  BY <1>1, <1>4, ElementOfSeq
<1>8. View!str \in Seq(Chars) /\ Len(View!str) = size_
  <2>1. View!str \in [1 .. size_ -> Chars] /\ size_ \in Nat
    BY <1>1, <1>6, <1>7
  <2> QED BY <2>1, FunctionIsSeq
<1>9. \A c \in 0 .. size_ - 1 : View!str[c + 1] = View!Ref!At(data_ + c)
  <2> SUFFICES ASSUME NEW c \in 0 .. size_ - 1
               PROVE  View!str[c + 1] = View!Ref!At(data_ + c)
    OBVIOUS
  <2>1. c + 1 \in 1 .. size_ /\ a + (c + 1) = (data_ + c) - Base + 1
    BY <1>1 DEF a
  <2>2. View!str[c + 1] = viewed[a + (c + 1)]
    BY <1>6, <2>1
  <2>3. View!Ref!At(data_ + c) = viewed[(data_ + c) - Base + 1]
    BY DEF View!Ref!At
  <2> QED BY <2>1, <2>2, <2>3
<1> QED BY <1>1, <1>2, <1>3, <1>8, <1>9

LEMMA ViewStaysInside ==
  ViewInv => View!Ref!StaysInText /\ View!ElementsAgree
<1> SUFFICES ASSUME ViewInv
             PROVE  View!Ref!StaysInText /\ View!ElementsAgree
  OBVIOUS
<1>1. CASE data_ = 0
  <2>1. size_ = 0
    BY <1>1, AddressesAre DEF ViewInv
  <2> QED BY <1>1, <2>1 DEF View!Ref!StaysInText, View!ElementsAgree, View!Ref!null
<1>2. CASE data_ # 0
  <2>0. /\ data_ \in Nat /\ size_ \in Nat /\ Len(viewed) \in Nat /\ Base <= data_
        /\ data_ + size_ <= Base + Len(viewed) /\ Len(viewed) <= MaxView
        /\ data_ .. data_ + size_ - 1 \subseteq View!Ref!Readable
        /\ View!Ref!Viewed = View!str /\ View!str \in Seq(Chars) /\ Len(View!str) = size_
        /\ \A c \in 0 .. size_ - 1 : View!str[c + 1] = View!Ref!At(data_ + c)
    BY <1>2, ViewShows
  <2>1. View!Ref!StaysInText
    BY <1>2, <2>0 DEF View!Ref!StaysInText, View!Ref!null
  <2>2. \A c \in 0 .. size_ - 1 : data_ + c \in View!Ref!Readable
                                  /\ View!Read(data_ + c) = View!str[c + 1]
    <3>1. \A c \in 0 .. size_ - 1 : data_ + c \in data_ .. data_ + size_ - 1
      BY <2>0
    <3> QED BY <2>0, <3>1 DEF View!Read
  <2>3. \A c \in 0 .. MaxView :
          View!at(c) = IF c < size_ THEN View!str[c + 1] ELSE View!throws
    <3> SUFFICES ASSUME NEW c \in 0 .. MaxView
                 PROVE  View!at(c) = IF c < size_ THEN View!str[c + 1] ELSE View!throws
      OBVIOUS
    <3>1. c \in Nat
      BY AddressesAre
    <3>2. CASE c < size_
      <4>1. c \in 0 .. size_ - 1 /\ ~(c >= size_)
        BY <2>0, <3>1, <3>2
      <4> QED BY <2>2, <3>2, <4>1 DEF View!at
    <3>3. CASE ~(c < size_)
      <4>1. c >= size_
        BY <2>0, <3>1, <3>3
      <4> QED BY <3>3, <4>1 DEF View!at
    <3> QED BY <3>2, <3>3
  <2>4. size_ > 0 => View!front = Head(View!str)
    <3> SUFFICES ASSUME size_ > 0 PROVE View!front = Head(View!str)
      OBVIOUS
    <3>1. 0 \in 0 .. size_ - 1 /\ data_ + 0 = data_ /\ 0 + 1 = 1
      BY <2>0
    <3>2. Head(View!str) = View!str[1]
      OBVIOUS
    <3> QED BY <2>2, <3>1, <3>2 DEF View!front
  <2>5. View!ElementsAgree
    BY <2>0, <2>3, <2>4 DEF View!ElementsAgree
  <2> QED BY <2>1, <2>5
<1> QED BY <1>1, <1>2

\* Of numbers between two bounds there is a greatest one.
LEMMA GreatestNumber ==
  ASSUME NEW a \in Nat, NEW b \in Nat, NEW S \in SUBSET (a .. b), S # {}
  PROVE  \E x \in S : \A y \in S : x >= y
<1> DEFINE R == {b - x : x \in S}
<1>0. PICK s0 \in S : TRUE
  OBVIOUS
<1>1. R \in SUBSET Nat /\ R # {}
  <2>1. \A x \in S : b - x \in Nat
    OBVIOUS
  <2>2. b - s0 \in R
    OBVIOUS
  <2> QED BY <2>1, <2>2
<1>2. PICK r \in R : \A y \in R : r <= y
  BY <1>1, LeastNumber
<1>3. PICK x \in S : r = b - x
  BY <1>2
<1>4. ASSUME NEW y \in S PROVE x >= y
  <2>1. b - y \in R /\ x \in Nat /\ y \in Nat
    OBVIOUS
  <2>2. b - x <= b - y
    BY <1>2, <1>3, <2>1
  <2> QED BY <2>1, <2>2
<1> QED BY <1>4

\* R is S, a set of positions in n characters, moved by d.
IsShift(S, R, d, n) ==
  /\ S \in SUBSET (0 .. n - 1) /\ R \in SUBSET (d .. d + n - 1)
  /\ \A c \in 0 .. n - 1 : d + c \in R <=> c \in S

\* The greatest and the least element of a set move with the set.
LEMMA GreatestMoves ==
  ASSUME NEW d \in Nat, NEW n \in Nat, NEW S, NEW R, S # {}, IsShift(S, R, d, n)
  PROVE  View!Ref!Max(S) \in S /\ View!Ref!Max(R) = d + View!Ref!Max(S)
<1> USE DEF IsShift
<1>0. S \in SUBSET Nat /\ R \in SUBSET Nat
  OBVIOUS
<1>1. \E x \in S : \A y \in S : x >= y
  <2>1. PICK x \in S : TRUE
    OBVIOUS
  <2>2. x \in 0 .. n - 1
    OBVIOUS
  <2>3. n - 1 \in Nat
    BY <2>2
  <2> QED BY <2>3, GreatestNumber
<1>2. View!Ref!Max(S) \in S /\ \A y \in S : View!Ref!Max(S) >= y
  BY <1>1 DEF View!Ref!Max
<1> DEFINE m == d + View!Ref!Max(S)
<1>3. m \in R
  BY <1>2
<1>4. ASSUME NEW y \in R PROVE m >= y
  <2>1. y - d \in 0 .. n - 1 /\ d + (y - d) = y
    OBVIOUS
  <2>2. y - d \in S
    BY <2>1
  <2>3. View!Ref!Max(S) >= y - d /\ View!Ref!Max(S) \in Nat /\ y \in Nat
    BY <1>0, <1>2, <2>2
  <2> QED BY <2>3
<1>5. View!Ref!Max(R) \in R /\ \A y \in R : View!Ref!Max(R) >= y
  BY <1>3, <1>4 DEF View!Ref!Max
<1>6. m >= View!Ref!Max(R) /\ View!Ref!Max(R) >= m /\ m \in Nat /\ View!Ref!Max(R) \in Nat
  BY <1>0, <1>3, <1>4, <1>5
<1>7. m = View!Ref!Max(R)
  BY <1>6
<1> QED BY <1>2, <1>7

LEMMA LeastMoves ==
  ASSUME NEW d \in Nat, NEW n \in Nat, NEW S, NEW R, S # {}, IsShift(S, R, d, n)
  PROVE  View!Ref!Min(S) \in S /\ View!Ref!Min(R) = d + View!Ref!Min(S)
<1> USE DEF IsShift
<1>0. S \in SUBSET Nat /\ R \in SUBSET Nat
  OBVIOUS
<1>1. \E x \in S : \A y \in S : x =< y
  BY <1>0, LeastNumber
<1>2. View!Ref!Min(S) \in S /\ \A y \in S : View!Ref!Min(S) =< y
  BY <1>1 DEF View!Ref!Min
<1> DEFINE m == d + View!Ref!Min(S)
<1>3. m \in R
  BY <1>2
<1>4. ASSUME NEW y \in R PROVE m =< y
  <2>1. y - d \in 0 .. n - 1 /\ d + (y - d) = y
    OBVIOUS
  <2>2. y - d \in S
    BY <2>1
  <2>3. View!Ref!Min(S) =< y - d /\ View!Ref!Min(S) \in Nat /\ y \in Nat
    BY <1>0, <1>2, <2>2
  <2> QED BY <2>3
<1>5. View!Ref!Min(R) \in R /\ \A y \in R : View!Ref!Min(R) =< y
  BY <1>3, <1>4 DEF View!Ref!Min
<1>6. m =< View!Ref!Min(R) /\ View!Ref!Min(R) =< m /\ m \in Nat /\ View!Ref!Min(R) \in Nat
  BY <1>0, <1>3, <1>4, <1>5
<1>7. m = View!Ref!Min(R)
  BY <1>6
<1> QED BY <1>2, <1>7

\* Both loops over the view find the characters that are in a set.
LEMMA LoopsFind ==
  ASSUME ViewInv, data_ # 0, NEW A
  PROVE  /\ View!Ref!Backward(A) = View!Ref!LastOf(A)
         /\ View!Ref!Forward(A) = View!Ref!FirstOf(A)
<1> DEFINE S == View!Ref!Indices(A)
           R == {p \in data_ .. data_ + size_ - 1 :
                   p \in View!Ref!Readable => View!Ref!At(p) \in A}
<1>1. /\ data_ \in Nat /\ size_ \in Nat /\ Len(viewed) \in Nat /\ Base <= data_
      /\ data_ + size_ <= Base + Len(viewed) /\ Len(viewed) <= MaxView
      /\ data_ .. data_ + size_ - 1 \subseteq View!Ref!Readable
      /\ View!Ref!Viewed = View!str /\ Len(View!str) = size_
      /\ \A c \in 0 .. size_ - 1 : View!str[c + 1] = View!Ref!At(data_ + c)
  BY ViewShows
<1>2. data_ + size_ - 1 \in 0 .. AddressSize - 1
  BY <1>1, AddressesAre
<1>3. View!Ref!Wrap(data_ + size_ - 1) = data_ + size_ - 1
  BY <1>2, AddressesAre
<1>4. View!Ref!Backward(A) = View!Ref!Found(R, View!Ref!Max(R))
  BY <1>3 DEF View!Ref!Backward
<1>5. View!Ref!Forward(A) = View!Ref!Found(R, View!Ref!Min(R))
  BY DEF View!Ref!Forward
<1>6. S \in SUBSET (0 .. size_ - 1) /\ R \in SUBSET (data_ .. data_ + size_ - 1)
  BY <1>1 DEF View!Ref!Indices
<1>7. \A c \in 0 .. size_ - 1 : data_ + c \in R <=> c \in S
  <2> SUFFICES ASSUME NEW c \in 0 .. size_ - 1 PROVE data_ + c \in R <=> c \in S
    OBVIOUS
  <2>1. data_ + c \in data_ .. data_ + size_ - 1
    BY <1>1
  <2>2. data_ + c \in View!Ref!Readable
    BY <1>1, <2>1
  <2>3. c \in S <=> View!str[c + 1] \in A
    BY <1>1 DEF View!Ref!Indices
  <2> QED BY <1>1, <2>1, <2>2, <2>3
<1> HIDE DEF S, R
<1>8. CASE S = {}
  <2>1. R = {}
    <3> SUFFICES ASSUME NEW r \in R PROVE FALSE
      OBVIOUS
    <3>1. r - data_ \in 0 .. size_ - 1 /\ data_ + (r - data_) = r
      BY <1>1, <1>6
    <3> QED BY <1>7, <1>8, <3>1
  <2> QED BY <1>4, <1>5, <1>8, <2>1
          DEF S, View!Ref!Found, View!Ref!LastOf, View!Ref!FirstOf
<1>9. CASE S # {}
  <2>0. data_ \in Nat /\ size_ \in Nat /\ IsShift(S, R, data_, size_)
    BY <1>1, <1>6, <1>7 DEF IsShift
  <2>1. View!Ref!Max(S) \in S /\ View!Ref!Max(R) = data_ + View!Ref!Max(S)
    BY <1>9, <2>0, GreatestMoves
  <2>6. View!Ref!Min(S) \in S /\ View!Ref!Min(R) = data_ + View!Ref!Min(S)
    BY <1>9, <2>0, LeastMoves
  <2>2. \A c \in S : data_ + c \in R /\ data_ + c \in View!Ref!Readable
                     /\ (data_ + c) - data_ = c
    BY <1>1, <1>6, <1>7
  <2>3. R # {}
    BY <2>1, <2>2
  <2>4. View!Ref!Found(R, View!Ref!Max(R)) = View!Ref!Max(S)
    BY <2>1, <2>2, <2>3 DEF View!Ref!Found
  <2>5. View!Ref!Found(R, View!Ref!Min(R)) = View!Ref!Min(S)
    BY <2>2, <2>3, <2>6 DEF View!Ref!Found
  <2> QED BY <1>4, <1>5, <1>9, <2>4, <2>5
          DEF S, View!Ref!LastOf, View!Ref!FirstOf
<1> QED BY <1>8, <1>9

\* For any text, any addresses that do not wrap and any mutators: the searches for a
\* character and for a prefix in a view that is not null give what those of
\* std::basic_string give for the string that is viewed.
THEOREM SearchesAlwaysAgree == Spec => []SearchesAgree
<1>1. ViewInv => SearchesAgree
  <2> SUFFICES ASSUME ViewInv, data_ # 0
               PROVE  /\ \A c \in Chars :
                           /\ View!Ref!rfind(c) = View!Ref!LastOf({c})
                           /\ View!Ref!find_last_not_of(c) = View!Ref!LastOf(Chars \ {c})
                           /\ View!Ref!find_first_not_of(c) = View!Ref!FirstOf(Chars \ {c})
                           /\ View!Ref!FirstOf({c}) # View!Ref!npos =>
                                View!Ref!find(c) = View!Ref!FirstOf({c})
                      /\ \A w \in View!Ref!Texts :
                           View!Ref!starts_with(w) <=> View!Ref!IsPrefix(w, View!Ref!Viewed)
    BY DEF SearchesAgree, View!Ref!SearchesAgree, View!Ref!null
  <2>1. \A c \in Chars :
          /\ View!Ref!rfind(c) = View!Ref!LastOf({c})
          /\ View!Ref!find_last_not_of(c) = View!Ref!LastOf(Chars \ {c})
          /\ View!Ref!find_first_not_of(c) = View!Ref!FirstOf(Chars \ {c})
          /\ View!Ref!FirstOf({c}) # View!Ref!npos =>
               View!Ref!find(c) = View!Ref!FirstOf({c})
    BY LoopsFind DEF View!Ref!rfind, View!Ref!find_last_not_of,
                     View!Ref!find_first_not_of, View!Ref!find
  <2>2. ASSUME NEW w \in View!Ref!Texts
        PROVE  View!Ref!starts_with(w) <=> View!Ref!IsPrefix(w, View!Ref!Viewed)
    <3>1. PICK k \in 0 .. MaxView : w \in [1 .. k -> Chars]
      BY DEF View!Ref!Texts, View!Ref!BoundedSeq, View!Ref!SeqOf
    <3>2. w \in Seq(Chars) /\ Len(w) \in Nat
      BY <3>1, AddressesAre, LenProperties
    <3>3. /\ size_ \in Nat /\ View!Ref!Viewed = View!str
          /\ View!str \in Seq(Chars) /\ Len(View!str) = size_
          /\ \A c \in 0 .. size_ - 1 : View!str[c + 1] = View!Ref!At(data_ + c)
      BY ViewShows
    <3>4. CASE Len(w) <= size_
      <4> DEFINE m == Len(w)
      <4>1. m \in 0 .. Len(w) /\ m \in m .. Len(View!str) /\ m - m + 1 = 1
            /\ \A c \in 1 .. m : m - m + c = c
        BY <3>2, <3>3, <3>4
      <4>2. SubSeq(View!str, m - m + 1, m) = SubSeq(w, 1, m)
              <=> \A c \in 1 .. m : View!str[m - m + c] = w[c]
        BY <3>2, <3>3, <4>1, SubSeqsAgree
      <4>3. (\A c \in 1 .. m : View!str[c] = w[c])
              <=> \A c \in 0 .. m - 1 : View!Ref!At(data_ + c) = w[c + 1]
        <5>1. ASSUME \A c \in 1 .. m : View!str[c] = w[c], NEW c \in 0 .. m - 1
              PROVE  View!Ref!At(data_ + c) = w[c + 1]
          <6>1. c + 1 \in 1 .. m /\ c \in 0 .. size_ - 1
            BY <3>2, <3>3, <3>4
          <6> QED BY <3>3, <5>1, <6>1
        <5>2. ASSUME \A c \in 0 .. m - 1 : View!Ref!At(data_ + c) = w[c + 1],
                     NEW c \in 1 .. m
              PROVE  View!str[c] = w[c]
          <6>1. c - 1 \in 0 .. m - 1 /\ c - 1 \in 0 .. size_ - 1 /\ (c - 1) + 1 = c
            BY <3>2, <3>3, <3>4
          <6>2. View!str[(c - 1) + 1] = w[(c - 1) + 1]
            BY <3>3, <5>2, <6>1
          <6> QED BY <6>1, <6>2
        <5> QED BY <5>1, <5>2
      <4> QED BY <3>3, <3>4, <4>1, <4>2, <4>3
              DEF View!Ref!starts_with, View!Ref!IsPrefix
    <3>5. CASE ~(Len(w) <= size_)
      BY <3>3, <3>5 DEF View!Ref!starts_with, View!Ref!IsPrefix
    <3> QED BY <3>4, <3>5
  <2> QED BY <2>1, <2>2
<1> QED BY <1>1, ViewPart, ViewInvariance, PTL

----------------------------------------------------------------------------
(* Strings: a concatenation takes its room at once.                         *)

\* What holds of 0, and of each number up to N if of the one before.
LEMMA CountUp ==
  ASSUME NEW N \in Nat, NEW S \in SUBSET (0 .. N), 0 \in S,
         \A n \in 1 .. N : n - 1 \in S => n \in S
  PROVE  \A n \in 0 .. N : n \in S
<1> SUFFICES ASSUME (0 .. N) \ S # {} PROVE FALSE
  OBVIOUS
<1> DEFINE R == (0 .. N) \ S
<1>1. R \in SUBSET Nat /\ R # {}
  OBVIOUS
<1>2. PICK n \in R : \A m \in R : n <= m
  BY <1>1, LeastNumber
<1>3. n \in 1 .. N /\ n - 1 \in 0 .. N
  OBVIOUS
<1>4. n - 1 \in R
  BY <1>3
<1> QED BY <1>2, <1>3, <1>4

LEMMA MeantIs ==
  ASSUME NEW args, Len(args) \in Nat
  PROVE  Str!MeantUpTo(args) = [n \in 0 .. Len(args) |->
           IF n = 0 THEN <<>> ELSE Str!MeantUpTo(args)[n - 1] \o args[n].text]
<1> DEFINE Is(f, k) == f = [n \in 0 .. k |-> IF n = 0 THEN <<>> ELSE f[n - 1] \o args[n].text]
           S == {k \in 0 .. Len(args) : \E f : Is(f, k)}
<1>1. 0 \in S
  <2>1. Is([n \in 0 .. 0 |-> <<>>], 0)
    OBVIOUS
  <2> HIDE DEF Is
  <2> QED BY <2>1
<1>2. ASSUME NEW k \in 1 .. Len(args), k - 1 \in S PROVE k \in S
  <2>1. PICK f : Is(f, k - 1)
    BY <1>2
  <2> DEFINE g == [n \in 0 .. k |-> IF n = k THEN f[k - 1] \o args[k].text ELSE f[n]]
  <2>2. ASSUME NEW n \in 0 .. k
        PROVE  g[n] = IF n = 0 THEN <<>> ELSE g[n - 1] \o args[n].text
    <3>1. CASE n = 0
      BY <2>1, <3>1
    <3>2. CASE n # 0
      <4>1. n - 1 \in 0 .. k /\ n - 1 # k /\ g[n - 1] = f[n - 1]
        BY <3>2
      <4>2. CASE n = k
        BY <3>2, <4>1, <4>2
      <4>3. CASE n # k
        <5>1. n \in 0 .. k - 1 /\ g[n] = f[n]
          BY <4>3
        <5>2. f[n] = f[n - 1] \o args[n].text
          BY <2>1, <3>2, <5>1
        <5> QED BY <3>2, <4>1, <5>1, <5>2
      <4> QED BY <4>2, <4>3
    <3> QED BY <3>1, <3>2
  <2>3. Is(g, k)
    BY <2>2
  <2> HIDE DEF Is, g
  <2> QED BY <2>3
<1>3. Len(args) \in S
  <2> HIDE DEF S
  <2>1. S \in SUBSET (0 .. Len(args))
    BY DEF S
  <2>2. \A k \in 0 .. Len(args) : k \in S
    BY <1>1, <1>2, <2>1, CountUp
  <2> QED BY <2>2
<1>4. PICK f : Is(f, Len(args))
  BY <1>3
<1> QED BY <1>4 DEF Str!MeantUpTo

LEMMA ConcatenatedUpToIs ==
  ASSUME NEW str, NEW args, NEW slack, NEW shrinks, Len(args) \in Nat
  PROVE  Str!ConcatenatedUpTo(str, args, slack, shrinks) = [n \in 0 .. Len(args) |->
           IF n = 0
           THEN Str!Reserved(str, Str!string_total_len(str, args), slack, shrinks)
           ELSE Str!Appended(Str!ConcatenatedUpTo(str, args, slack, shrinks)[n - 1],
                             args[n], slack)]
<1> DEFINE first == Str!Reserved(str, Str!string_total_len(str, args), slack, shrinks)
           Is(f, k) == f = [n \in 0 .. k |->
                              IF n = 0 THEN first ELSE Str!Appended(f[n - 1], args[n], slack)]
           S == {k \in 0 .. Len(args) : \E f : Is(f, k)}
<1> HIDE DEF first
<1>1. 0 \in S
  <2>1. Is([n \in 0 .. 0 |-> first], 0)
    OBVIOUS
  <2> HIDE DEF Is
  <2> QED BY <2>1
<1>2. ASSUME NEW k \in 1 .. Len(args), k - 1 \in S PROVE k \in S
  <2>1. PICK f : Is(f, k - 1)
    BY <1>2
  <2> DEFINE g == [n \in 0 .. k |-> IF n = k THEN Str!Appended(f[k - 1], args[k], slack)
                                    ELSE f[n]]
  <2>2. ASSUME NEW n \in 0 .. k
        PROVE  g[n] = IF n = 0 THEN first ELSE Str!Appended(g[n - 1], args[n], slack)
    <3>1. CASE n = 0
      BY <2>1, <3>1
    <3>2. CASE n # 0
      <4>1. n - 1 \in 0 .. k /\ n - 1 # k /\ g[n - 1] = f[n - 1]
        BY <3>2
      <4>2. CASE n = k
        BY <3>2, <4>1, <4>2
      <4>3. CASE n # k
        <5>1. n \in 0 .. k - 1 /\ g[n] = f[n]
          BY <4>3
        <5>2. f[n] = Str!Appended(f[n - 1], args[n], slack)
          BY <2>1, <3>2, <5>1
        <5> QED BY <3>2, <4>1, <5>1, <5>2
      <4> QED BY <4>2, <4>3
    <3> QED BY <3>1, <3>2
  <2>3. Is(g, k)
    BY <2>2
  <2> HIDE DEF Is, g
  <2> QED BY <2>3
<1>3. Len(args) \in S
  <2> HIDE DEF S
  <2>1. S \in SUBSET (0 .. Len(args))
    BY DEF S
  <2>2. \A k \in 0 .. Len(args) : k \in S
    BY <1>1, <1>2, <2>1, CountUp
  <2> QED BY <2>2
<1>4. PICK f : Is(f, Len(args))
  BY <1>3
<1> QED BY <1>4 DEF Str!ConcatenatedUpTo, first

\* The characters of texts and strings, and the values of arguments and strings.
Letters == (UNION {Str!ToSet(t) : t \in GivenTexts}) \cup {NUL, Garbage}
Arguments == [own : BOOLEAN, text : Seq(Letters)]
Strings == [text : Seq(Letters), room : Nat, moves : Nat]

LEMMA GarbageIs ==
  ASSUME NEW t \in Seq(Letters)
  PROVE  /\ [c \in DOMAIN t |-> Garbage] \in Seq(Letters)
         /\ Len([c \in DOMAIN t |-> Garbage]) = Len(t)
<1>1. Garbage \in Letters /\ DOMAIN t = 1 .. Len(t) /\ Len(t) \in Nat
  BY LenProperties DEF Letters
<1>2. [c \in DOMAIN t |-> Garbage] \in [1 .. Len(t) -> Letters]
  BY <1>1
<1> QED BY <1>1, <1>2, FunctionIsSeq

LEMMA TextAdded ==
  ASSUME NEW a \in Seq(Letters), NEW b \in Seq(Letters)
  PROVE  a \o b \in Seq(Letters) /\ Len(a) <= Len(a \o b)
<1>1. a \o b \in Seq(Letters) /\ Len(a \o b) = Len(a) + Len(b)
  BY ConcatProperties
<1>2. Len(a) \in Nat /\ Len(b) \in Nat
  BY LenProperties
<1> QED BY <1>1, <1>2

LEMMA MeantProperties ==
  ASSUME NEW k \in Nat, NEW args \in [1 .. k -> Arguments]
  PROVE  /\ Len(args) = k
         /\ \A n \in 0 .. k : /\ Str!MeantUpTo(args)[n] \in Seq(Letters)
                              /\ Len(Str!MeantUpTo(args)[n]) <= Len(Str!Meant(args))
         /\ Str!Meant(args) \in Seq(Letters)
<1>1. Len(args) = k /\ args \in Seq(Arguments)
  BY FunctionIsSeq
<1> DEFINE meant == Str!MeantUpTo(args)
<1>2. meant = [n \in 0 .. k |-> IF n = 0 THEN <<>> ELSE meant[n - 1] \o args[n].text]
  BY <1>1, MeantIs
<1> HIDE DEF meant
<1> DEFINE S == {n \in 0 .. k : \A m \in 0 .. n : meant[m] \in Seq(Letters)
                                                  /\ Len(meant[m]) <= Len(meant[n])}
<1>3. 0 \in S
  <2>1. meant[0] = <<>>
    BY <1>2
  <2>2. meant[0] \in Seq(Letters) /\ Len(meant[0]) \in Nat
    BY <2>1, EmptySeq, LenProperties
  <2>3. \A m \in 0 .. 0 : m = 0
    OBVIOUS
  <2> QED BY <2>2, <2>3
<1>4. ASSUME NEW n \in 1 .. k, n - 1 \in S PROVE n \in S
  <2>1. meant[n] = meant[n - 1] \o args[n].text
    <3>1. n \in 0 .. k /\ n # 0
      OBVIOUS
    <3> QED BY <1>2, <3>1
  <2>2. meant[n - 1] \in Seq(Letters) /\ args[n].text \in Seq(Letters)
    BY <1>4 DEF Arguments
  <2>3. meant[n] \in Seq(Letters) /\ Len(meant[n - 1]) <= Len(meant[n])
    BY <2>1, <2>2, TextAdded
  <2>4. ASSUME NEW m \in 0 .. n
        PROVE  meant[m] \in Seq(Letters) /\ Len(meant[m]) <= Len(meant[n])
    <3>0. Len(meant[n]) \in Nat /\ Len(meant[n - 1]) \in Nat
      BY <2>2, <2>3, LenProperties
    <3>1. CASE m = n
      <4>1. Len(meant[m]) <= Len(meant[n])
        BY <3>0, <3>1
      <4> QED BY <2>3, <3>1, <4>1
    <3>2. CASE m # n
      <4>1. m \in 0 .. n - 1
        BY <3>2
      <4>2. meant[m] \in Seq(Letters) /\ Len(meant[m]) <= Len(meant[n - 1])
        BY <1>4, <4>1
      <4>3. Len(meant[m]) \in Nat
        BY <4>2, LenProperties
      <4>4. Len(meant[m]) <= Len(meant[n])
        BY <2>3, <3>0, <4>2, <4>3
      <4> QED BY <4>2, <4>4
    <3> QED BY <3>1, <3>2
  <2> QED BY <2>4
<1> HIDE DEF S
<1>5. S \in SUBSET (0 .. k)
  BY DEF S
<1>6. k \in S
  BY <1>3, <1>4, <1>5, CountUp
<1>7. \A m \in 0 .. k : meant[m] \in Seq(Letters) /\ Len(meant[m]) <= Len(meant[k])
  BY <1>6 DEF S
<1>8. Str!Meant(args) = meant[k]
  BY <1>1 DEF Str!Meant, meant
<1> QED BY <1>1, <1>7, <1>8 DEF meant

\* There is room behind str for ref, and r is str with ref behind it: with what ref is
\* when it is read, which is garbage if it was in the memory that str gave up.
HasRoom(str, ref) == Len(str.text) + Len(ref.text) <= str.room
IsJoined(r, str, ref) ==
  /\ r \in Strings /\ r.room = str.room /\ r.moves = str.moves
  /\ Len(r.text) = Len(str.text) + Len(ref.text)
  /\ ~ref.own \/ str.moves = 0 => r.text = str.text \o ref.text

\* An append into room that is there.
LEMMA AppendedIs ==
  ASSUME NEW str \in Strings, NEW ref \in Arguments, NEW slack \in Nat, HasRoom(str, ref)
  PROVE  IsJoined(Str!Appended(str, ref, slack), str, ref)
<1> DEFINE t == IF ref.own /\ str.moves > 0 THEN [c \in DOMAIN ref.text |-> Garbage]
                ELSE ref.text
           b == [str EXCEPT !.text = str.text \o t]
<1>1. str.text \in Seq(Letters) /\ ref.text \in Seq(Letters)
  BY DEF Strings, Arguments
<1>2. t \in Seq(Letters) /\ Len(t) = Len(ref.text)
  BY <1>1, GarbageIs
<1>3. str.text \o t \in Seq(Letters) /\ Len(str.text \o t) = Len(str.text) + Len(t)
  BY <1>1, <1>2, ConcatProperties
<1>4. /\ b \in Strings /\ b.room = str.room /\ b.moves = str.moves
      /\ b.text = str.text \o t
  BY <1>3 DEF Strings
<1>5. Str!Appended(str, ref, slack) = Str!Grown(b, Len(str.text) + Len(t), slack)
  BY DEF Str!Appended
<1>6. Str!Appended(str, ref, slack) = b
  <2>0. Len(str.text) \in Nat /\ Len(ref.text) \in Nat /\ b.room \in Nat
    BY <1>1, <1>4, LenProperties DEF Strings
  <2> HIDE DEF b, t
  <2>2. Len(str.text) + Len(t) <= b.room
    BY <1>2, <1>4 DEF HasRoom
  <2>1. ~(Len(str.text) + Len(t) > b.room)
    <3> DEFINE x == Len(str.text)
               y == Len(t)
    <3>1. x \in Nat /\ y \in Nat /\ x + y <= b.room
      BY <1>2, <2>0, <2>2
    <3> HIDE DEF x, y
    <3>2. ~(x + y > b.room)
      BY <2>0, <3>1
    <3> QED BY <3>2 DEF x, y
  <2> QED BY <1>5, <2>1 DEF Str!Grown, Str!Reserved, Str!Moves
<1>7. ~ref.own \/ str.moves = 0 => t = ref.text
  BY DEF Strings
<1> HIDE DEF b, t
<1> QED BY <1>2, <1>3, <1>4, <1>6, <1>7 DEF IsJoined

\* Of three texts in a row it makes no difference which two are joined first.
LEMMA LettersAssociate ==
  ASSUME NEW a \in Seq(Letters), NEW b \in Seq(Letters), NEW c \in Seq(Letters)
  PROVE  (a \o b) \o c = a \o (b \o c)
BY ConcatAssociative

\* The next argument takes what the length of its text adds.
LEMMA LengthsAdd ==
  ASSUME NEW a \in Seq(Letters), NEW b \in Seq(Letters), NEW c \in Seq(Letters)
  PROVE  Len(a) + Len(b) + Len(c) = Len(a) + Len(b \o c)
<1>1. Len(b \o c) = Len(b) + Len(c)
  BY ConcatProperties
<1>2. Len(a) \in Nat /\ Len(b) \in Nat /\ Len(c) \in Nat
  BY LenProperties
<1> DEFINE x == Len(a)
           y == Len(b)
           z == Len(c)
<1>3. Len(b \o c) = y + z /\ x \in Nat /\ y \in Nat /\ z \in Nat
  BY <1>1, <1>2
<1> HIDE DEF x, y, z
<1>4. (x + y) + z = x + Len(b \o c)
  BY <1>3
<1> QED BY <1>4 DEF x, y, z

\* The room for all arguments, at once.
LEMMA ReservedIs ==
  ASSUME NEW str \in Strings, str.moves = 0, NEW n \in Nat, NEW slack \in Nat,
         NEW shrinks \in BOOLEAN
  PROVE  LET r == Str!Reserved(str, n, slack, shrinks)
         IN  /\ r \in Strings /\ r.text = str.text /\ r.moves <= 1 /\ n <= r.room
             /\ ~Str!Moves(str, n, slack, shrinks) => r.moves = 0
<1>1. CASE ~Str!Moves(str, n, slack, shrinks)
  <2>1. Str!Reserved(str, n, slack, shrinks) = str
    BY <1>1 DEF Str!Reserved
  <2>2. ~(n > str.room) /\ str.room \in Nat
    BY <1>1 DEF Str!Moves, Strings
  <2> QED BY <2>1, <2>2
<1>2. CASE Str!Moves(str, n, slack, shrinks)
  <2>1. Str!Reserved(str, n, slack, shrinks)
          = [str EXCEPT !.room = n + slack, !.moves = str.moves + 1]
    BY <1>2 DEF Str!Reserved
  <2>2. n + slack \in Nat /\ str.moves + 1 \in Nat /\ str.moves + 1 = 1 /\ n <= n + slack
    OBVIOUS
  <2> DEFINE r == [str EXCEPT !.room = n + slack, !.moves = str.moves + 1]
  <2>3. r \in Strings /\ r.room = n + slack /\ r.moves = str.moves + 1 /\ r.text = str.text
    <3> DEFINE x == n + slack
               y == str.moves + 1
    <3>1. x \in Nat /\ y \in Nat
      BY <2>2
    <3> HIDE DEF x, y
    <3> DEFINE w == [str EXCEPT !.room = x, !.moves = y]
    <3>2. w \in Strings
      BY <3>1 DEF Strings
    <3>3. w.room = x
      BY <3>1 DEF Strings
    <3>4. w.moves = y
      BY <3>1 DEF Strings
    <3>5. w.text = str.text
      BY <3>1 DEF Strings
    <3> QED BY <3>2, <3>3, <3>4, <3>5 DEF x, y
  <2> HIDE DEF r
  <2>4. r.moves <= 1 /\ n <= r.room
    BY <2>2, <2>3
  <2> QED BY <1>2, <2>1, <2>3, <2>4 DEF r
<1> QED BY <1>1, <1>2

\* What a concatenation makes of a string: the text, in one change of buffer at most.
LEMMA ConcatenatedIs ==
  ASSUME NEW str \in Strings, str.moves = 0, NEW k \in Nat \ {0},
         NEW args \in [1 .. k -> Arguments], NEW slack \in Nat,
         NEW shrinks \in BOOLEAN
  PROVE  LET a == Str!Concatenated(str, args, slack, shrinks)
         IN  /\ a \in Strings /\ a.moves <= 1
             /\ Len(a.text) = Len(str.text) + Len(Str!Meant(args))
             /\ (Str!UsesString(args) =>
                   ~Str!Moves(str, Len(str.text) + Len(Str!Meant(args)), slack, shrinks)) =>
                  a.text = str.text \o Str!Meant(args)
<1> DEFINE meant == Str!MeantUpTo(args)
           built == Str!ConcatenatedUpTo(str, args, slack, shrinks)
           size(n) == Len(str.text) + Len(meant[n])
           total == Len(str.text) + Len(Str!Meant(args))
           Stays == ~Str!Moves(str, total, slack, shrinks)
           Safe == Str!UsesString(args) => Stays
<1>1. Len(args) = k /\ Str!Meant(args) = meant[k] /\ \A n \in 0 .. k : meant[n] \in Seq(Letters)
  BY MeantProperties DEF Str!Meant
<1>2. meant = [n \in 0 .. k |-> IF n = 0 THEN <<>> ELSE meant[n - 1] \o args[n].text]
  BY <1>1, MeantIs
<1>3. built = [n \in 0 .. k |-> IF n = 0 THEN Str!Reserved(str, total, slack, shrinks)
                                ELSE Str!Appended(built[n - 1], args[n], slack)]
  <2>1. Str!string_total_len(str, args) = total
    BY DEF Str!string_total_len
  <2> DEFINE first == Str!string_total_len(str, args)
  <2>2. built = [n \in 0 .. k |-> IF n = 0 THEN Str!Reserved(str, first, slack, shrinks)
                                  ELSE Str!Appended(built[n - 1], args[n], slack)]
    <3>1. Len(args) \in Nat
      BY <1>1
    <3> QED BY <1>1, <3>1, ConcatenatedUpToIs
  <2>3. first = total
    BY <2>1
  <2> HIDE DEF total, first, built
  <2> QED BY <2>2, <2>3
<1>4. str.text \in Seq(Letters) /\ str.room \in Nat
  BY DEF Strings
<1>5. /\ total \in Nat
      /\ \A n \in 0 .. k : size(n) \in Nat /\ size(n) <= total
  <2>1. Len(str.text) \in Nat /\ Len(meant[k]) \in Nat
    BY <1>1, <1>4, LenProperties
  <2>2. ASSUME NEW n \in 0 .. k PROVE size(n) \in Nat /\ size(n) <= total
    <3>1. Len(meant[n]) \in Nat
      BY <1>1, LenProperties
    <3>2. Len(meant[n]) <= Len(Str!Meant(args))
      BY MeantProperties
    <3> DEFINE x == Len(str.text)
               y == Len(meant[n])
               z == Len(Str!Meant(args))
    <3>3. x \in Nat /\ y \in Nat /\ z \in Nat /\ y <= z
      BY <1>1, <2>1, <3>1, <3>2
    <3> HIDE DEF x, y, z
    <3>4. x + y \in Nat /\ x + y <= x + z
      BY <3>3
    <3> QED BY <3>4 DEF x, y, z
  <2>3. k \in 0 .. k /\ total = size(k)
    BY <1>1
  <2> QED BY <2>2, <2>3
<1> DEFINE Good(n) == /\ built[n] \in Strings /\ built[n].moves <= 1 /\ total <= built[n].room
                      /\ Stays => built[n].moves = 0
                      /\ Len(built[n].text) = size(n)
                      /\ Safe => built[n].text = str.text \o meant[n]
           S == {n \in 0 .. k : Good(n)}
<1>6. Good(0)
  <2>1. meant[0] = <<>> /\ built[0] = Str!Reserved(str, total, slack, shrinks)
    BY <1>2, <1>3
  <2>2. str.text \o meant[0] = str.text
    BY <1>4, <2>1, ConcatEmptySeq
  <2>3. size(0) = Len(str.text)
    BY <1>4, <2>1, LenProperties, EmptySeq
  <2> HIDE DEF total, size, Safe, meant, built
  <2>4. /\ built[0] \in Strings /\ built[0].text = str.text /\ built[0].moves <= 1
        /\ total <= built[0].room /\ (Stays => built[0].moves = 0)
    BY <1>5, <2>1, ReservedIs
  <2> QED BY <2>2, <2>3, <2>4
<1>7. ASSUME NEW n \in 1 .. k, Good(n - 1) PROVE Good(n)
  <2>1. /\ meant[n] = meant[n - 1] \o args[n].text
        /\ built[n] = Str!Appended(built[n - 1], args[n], slack)
    <3> HIDE DEF total, meant, built
    <3>1. n \in 0 .. k /\ n # 0
      OBVIOUS
    <3> QED BY <1>2, <1>3, <3>1
  <2>2. args[n] \in Arguments /\ meant[n - 1] \in Seq(Letters)
    BY <1>1
  <2>3. /\ built[n - 1] \in Strings /\ built[n - 1].moves <= 1 /\ total <= built[n - 1].room
        /\ Stays => built[n - 1].moves = 0
        /\ Len(built[n - 1].text) = size(n - 1)
        /\ Safe => built[n - 1].text = str.text \o meant[n - 1]
    BY <1>7
  <2>4. size(n) <= built[n - 1].room
    <3>1. built[n - 1].room \in Nat
      BY <2>3 DEF Strings
    <3>2. size(n) \in Nat /\ size(n) <= total
      <4>1. n \in 0 .. k
        OBVIOUS
      <4> HIDE DEF size, total
      <4> QED BY <1>5, <4>1
    <3> HIDE DEF total, size
    <3> QED BY <1>5, <2>3, <3>1, <3>2
  <2>5. /\ built[n] \in Strings /\ built[n].room = built[n - 1].room
        /\ built[n].moves = built[n - 1].moves
        /\ Len(built[n].text) = Len(str.text) + Len(meant[n - 1] \o args[n].text)
        /\ (~args[n].own \/ built[n - 1].moves = 0)
             /\ built[n - 1].text = str.text \o meant[n - 1] =>
               built[n].text = str.text \o (meant[n - 1] \o args[n].text)
    <3>1. Len(str.text) + Len(meant[n - 1] \o args[n].text) <= built[n - 1].room
      BY <2>1, <2>4
    <3>2. Len(built[n - 1].text) = Len(str.text) + Len(meant[n - 1])
      BY <2>3
    <3> DEFINE a == str.text
               b == meant[n - 1]
               ref == args[n]
               x == built[n - 1]
               r == Str!Appended(x, ref, slack)
    <3>3. /\ a \in Seq(Letters) /\ b \in Seq(Letters) /\ ref \in Arguments /\ x \in Strings
          /\ Len(x.text) = Len(a) + Len(b) /\ Len(a) + Len(b \o ref.text) <= x.room
      BY <1>4, <2>2, <2>3, <3>1, <3>2
    <3>4. built[n] = r
      BY <2>1
    <3>5. r = Str!Appended(x, ref, slack)
      OBVIOUS
    <3> HIDE DEF a, b, ref, x, r
    <3>6. Len(x.text) + Len(ref.text) = Len(a) + Len(b \o ref.text)
      <4> DEFINE c == ref.text
      <4>1. c \in Seq(Letters)
        BY <3>3 DEF Arguments
      <4> HIDE DEF c
      <4>2. Len(a) + Len(b) + Len(c) = Len(a) + Len(b \o c)
        BY <3>3, <4>1, LengthsAdd
      <4>3. Len(x.text) + Len(c) = Len(a) + Len(b \o c)
        BY <3>3, <4>2, Zenon
      <4> QED BY <4>3 DEF c
    <3>7. Len(x.text) + Len(ref.text) <= x.room
      BY <3>3, <3>6
    <3>8. /\ r \in Strings /\ r.room = x.room /\ r.moves = x.moves
          /\ Len(r.text) = Len(x.text) + Len(ref.text)
          /\ ~ref.own \/ x.moves = 0 => r.text = x.text \o ref.text
      <4>1. x \in Strings /\ ref \in Arguments /\ slack \in Nat
        BY <3>3
      <4>2. HasRoom(x, ref)
        BY <3>7 DEF HasRoom
      <4>3. IsJoined(r, x, ref)
        BY <3>5, <4>1, <4>2, AppendedIs
      <4> QED BY <4>3 DEF IsJoined
    <3>9. ASSUME ~ref.own \/ x.moves = 0, x.text = a \o b
          PROVE  r.text = a \o (b \o ref.text)
      <4> DEFINE c == ref.text
      <4>1. c \in Seq(Letters)
        BY <3>3 DEF Arguments
      <4>2. r.text = (a \o b) \o c
        BY <3>8, <3>9
      <4> HIDE DEF c
      <4>3. (a \o b) \o c = a \o (b \o c)
        <5>1. a \in Seq(Letters)
          BY <3>3
        <5>2. b \in Seq(Letters)
          BY <3>3
        <5> QED BY <4>1, <5>1, <5>2, LettersAssociate
      <4>4. r.text = a \o (b \o c)
        BY <4>2, <4>3
      <4> QED BY <4>4 DEF c
    <3> QED BY <3>4, <3>6, <3>8, <3>9 DEF a, b, ref, x
  <2>6. Safe => ~args[n].own \/ built[n - 1].moves = 0
    <3>1. args[n].own => Str!UsesString(args)
      BY <1>1 DEF Str!UsesString
    <3> QED BY <2>3, <3>1
  <2>7. Len(built[n].text) = size(n)
    BY <2>1, <2>5
  <2> HIDE DEF total, size, Safe, meant, built
  <2> QED BY <2>1, <2>3, <2>5, <2>6, <2>7
<1> HIDE DEF Good
<1>8. 0 \in S /\ \A n \in 1 .. k : n - 1 \in S => n \in S
  BY <1>6, <1>7
<1> HIDE DEF S
<1>9. S \in SUBSET (0 .. k)
  BY DEF S
<1>10. k \in S
  <2>1. k \in Nat
    OBVIOUS
  <2>2. \A n \in 0 .. k : n \in S
    BY <1>8, <1>9, <2>1, CountUp
  <2> QED BY <2>1, <2>2
<1>11. Good(k)
  BY <1>10 DEF S
<1>12. Str!Concatenated(str, args, slack, shrinks) = built[k]
  BY <1>1 DEF Str!Concatenated
<1> HIDE DEF meant, built, Safe
<1> QED BY <1>1, <1>11, <1>12 DEF Good, Safe

\* The string is as long as what it should hold, and that unless a reference into it was
\* read too late; a call changes its buffer once at most.
StrInv ==
  /\ s \in Seq(Letters) /\ wanted \in Seq(Letters) /\ Len(s) = Len(wanted)
  /\ room \in Nat /\ moves \in Nat /\ moves <= 1
  /\ intact => s = wanted

LEMMA TextsAreLetters == \A t \in GivenTexts : t \in Seq(Letters)
<1> SUFFICES ASSUME NEW t \in GivenTexts PROVE t \in Seq(Letters)
  OBVIOUS
<1>1. t \in Seq(Str!ToSet(t)) /\ Str!ToSet(t) \subseteq Letters
  BY StringConstants DEF Str!StringUtilsAssumption, Letters
<1> QED BY <1>1, SeqMonotonic

LEMMA ArgsAreArguments ==
  ASSUME s \in Seq(Letters), NEW args \in Str!Args
  PROVE  \E k \in Nat \ {0} : args \in [1 .. k -> Arguments]
<1>1. ASSUME NEW r \in Str!Refs PROVE r \in Arguments
  <2>1. CASE \E t \in GivenTexts : r = Str!Other(t)
    BY <2>1, TextsAreLetters DEF Str!Other, Arguments
  <2>2. CASE \E b, e \in DOMAIN s : r = Str!Part(b, e)
    <3>1. PICK b \in DOMAIN s, e \in DOMAIN s : r = Str!Part(b, e)
      BY <2>2
    <3>2. /\ b \in Int /\ e \in Int
          /\ \A c \in b .. e : s[c] \in Letters
      BY LenProperties, ElementOfSeq
    <3>3. SubSeq(s, b, e) \in Seq(Letters)
      BY <3>2, SubSeqProperties
    <3> QED BY <3>1, <3>3 DEF Str!Part, Arguments
  <2> QED BY <2>1, <2>2 DEF Str!Refs
<1>2. PICK k \in 1 .. MaxArgs : args \in [1 .. k -> Str!Refs]
  BY DEF Str!Args
<1>3. k \in Nat \ {0}
  OBVIOUS
<1>4. args \in [1 .. k -> Arguments]
  BY <1>1, <1>2
<1> QED BY <1>3, <1>4

\* The copies that concat works on mean what its arguments mean.
LEMMA CopiesMeanTheSame ==
  ASSUME NEW k \in Nat \ {0}, NEW args \in [1 .. k -> Arguments],
         NEW texts, texts = [c \in DOMAIN args |-> Str!Other(args[c].text)]
  PROVE  /\ texts \in [1 .. k -> Arguments] /\ ~Str!UsesString(texts)
         /\ Str!Meant(texts) = Str!Meant(args)
<1>1. texts = [c \in 1 .. k |-> [own |-> FALSE, text |-> args[c].text]]
  BY DEF Str!Other
<1>2. \A c \in 1 .. k : args[c].text \in Seq(Letters)
  BY DEF Arguments
<1>3. texts \in [1 .. k -> Arguments]
  <2>1. \A c \in 1 .. k : [own |-> FALSE, text |-> args[c].text] \in Arguments
    BY <1>2 DEF Arguments
  <2> HIDE DEF Arguments
  <2> QED BY <1>1, <2>1
<1>4. ~Str!UsesString(texts)
  <2>1. \A c \in DOMAIN texts : ~texts[c].own
    BY <1>1
  <2> QED BY <2>1 DEF Str!UsesString
<1>5. Len(texts) = k /\ Len(args) = k
  BY <1>3, MeantProperties
<1> DEFINE m == Str!MeantUpTo(args)
           w == Str!MeantUpTo(texts)
<1>6. /\ m = [n \in 0 .. k |-> IF n = 0 THEN <<>> ELSE m[n - 1] \o args[n].text]
      /\ w = [n \in 0 .. k |-> IF n = 0 THEN <<>> ELSE w[n - 1] \o texts[n].text]
  BY <1>5, MeantIs
<1>7. Str!Meant(texts) = w[k] /\ Str!Meant(args) = m[k]
  BY <1>5 DEF Str!Meant
<1> HIDE DEF m, w
<1> DEFINE S == {n \in 0 .. k : w[n] = m[n]}
<1>0. k \in Nat
  OBVIOUS
<1>8. 0 \in S
  <2>1. 0 \in 0 .. k
    BY <1>0
  <2>2. w[0] = <<>>
    BY <1>6, <2>1
  <2>3. m[0] = <<>>
    BY <1>6, <2>1
  <2> QED BY <2>1, <2>2, <2>3
<1>9. ASSUME NEW n \in 1 .. k, n - 1 \in S PROVE n \in S
  <2>0. n \in 0 .. k /\ n # 0
    BY <1>0
  <2>1. w[n] = w[n - 1] \o texts[n].text /\ m[n] = m[n - 1] \o args[n].text
    BY <1>6, <2>0
  <2>2. texts[n].text = args[n].text /\ w[n - 1] = m[n - 1]
    BY <1>1, <1>9
  <2>3. w[n] = m[n]
    BY <2>1, <2>2, Zenon
  <2> QED BY <2>0, <2>3
<1> HIDE DEF S
<1>10. S \in SUBSET (0 .. k)
  BY DEF S
<1>11. k \in S
  <2>1. \A n \in 1 .. k : n - 1 \in S => n \in S
    BY <1>9
  <2>2. \A n \in 0 .. k : n \in S
    BY <1>0, <1>8, <1>10, <2>1, CountUp
  <2> QED BY <1>0, <2>2
<1>12. w[k] = m[k]
  BY <1>11 DEF S
<1> QED BY <1>3, <1>4, <1>7, <1>12

\* What is printed is as long as the text with the NUL behind it, and is that text if
\* vsnprintf saw the arguments that it measured.
LEMMA PrintedIs ==
  ASSUME NEW str \in Strings, str.moves = 0, NEW t \in Seq(Letters), NEW spoilt \in BOOLEAN,
         NEW slack \in Nat
  PROVE  LET p == Str!Printed(str, t, spoilt, slack)
         IN  /\ p \in Strings /\ p.moves <= 1
             /\ p.text \in Seq(Letters) /\ Len(p.text) = Len(t \o <<NUL>>)
             /\ ~spoilt => p.text = t \o <<NUL>>
<1> DEFINE n == Len(t) + 1
           g == [c \in 1 .. n |-> Garbage]
           w == IF spoilt THEN g ELSE t \o <<NUL>>
           r == Str!Grown(str, n, slack)
           p == Str!Printed(str, t, spoilt, slack)
<1>1. NUL \in Letters /\ Garbage \in Letters
  BY DEF Letters
<1>2. <<NUL>> \in Seq(Letters) /\ Len(<<NUL>>) = 1 /\ Len(t) \in Nat
  BY <1>1, LenProperties
<1>4. t \o <<NUL>> \in Seq(Letters) /\ Len(t \o <<NUL>>) = n
  BY <1>2, ConcatProperties
<1>5. n \in Nat
  BY <1>2
<1>3. w \in Seq(Letters) /\ Len(w) = n
  <2>1. g \in [1 .. n -> Letters]
    BY <1>1
  <2>2. g \in Seq(Letters) /\ Len(g) = n
    <3> HIDE DEF g, n
    <3> QED BY <1>5, <2>1, FunctionIsSeq
  <2> HIDE DEF g, n
  <2> QED BY <1>4, <2>2
<1>6. ~spoilt => w = t \o <<NUL>>
  OBVIOUS
<1>7. p = [r EXCEPT !.text = w]
  BY DEF Str!Printed
<1> HIDE DEF g, w, n, p
<1>8. r \in Strings /\ r.moves <= 1
  <2>1. r = Str!Reserved(str, n, slack, FALSE) /\ FALSE \in BOOLEAN
    BY DEF Str!Grown
  <2> QED BY <1>5, <2>1, ReservedIs
<1> HIDE DEF r
<1>9. p \in Strings
  BY <1>3, <1>7, <1>8 DEF Strings
<1>10. p.moves = r.moves
  BY <1>7, <1>8 DEF Strings
<1>11. p.text = w
  BY <1>7, <1>8 DEF Strings
<1>12. Len(p.text) = Len(t \o <<NUL>>)
  BY <1>3, <1>4, <1>11
<1> QED BY <1>3, <1>6, <1>8, <1>9, <1>10, <1>11, <1>12 DEF p

LEMMA StrInvariance == Str!Spec => []StrInv
<1>1. Str!Init => StrInv
  <2> SUFFICES ASSUME Str!Init PROVE StrInv
    OBVIOUS
  <2>1. <<>> \in Seq(Letters)
    BY EmptySeq
  <2> QED BY <2>1 DEF Str!Init, StrInv
<1>2. StrInv /\ [Str!Next]_(Str!vars) => StrInv'
  <2> SUFFICES ASSUME StrInv, [Str!Next]_(Str!vars) PROVE StrInv'
    OBVIOUS
  <2> DEFINE here == Str!Here
             empty == Str!Empty
  <2>0. /\ here \in Strings /\ here.moves = 0 /\ here.text = s /\ here.room = room
        /\ empty \in Strings /\ empty.moves = 0 /\ empty.text = <<>>
    <3>1. <<>> \in Seq(Letters)
      BY EmptySeq
    <3> QED BY <3>1 DEF StrInv, Strings, Str!Here, Str!Empty
  <2>1. ASSUME NEW str \in Strings, Str!Becomes(str), str.moves <= 1,
               wanted' \in Seq(Letters), Len(str.text) = Len(wanted'),
               intact' => str.text = wanted'
        PROVE  StrInv'
    <3>1. s' \in Seq(Letters) /\ room' \in Nat /\ moves' \in Nat
      BY <2>1 DEF Str!Becomes, Strings
    <3>2. Len(s') = Len(wanted') /\ moves' <= 1
      BY <2>1 DEF Str!Becomes
    <3>3. intact' => s' = wanted'
      BY <2>1, Zenon DEF Str!Becomes
    <3> QED BY <2>1, <3>1, <3>2, <3>3, Zenon DEF StrInv
  <2> HIDE DEF here, empty
  <2>2. ASSUME NEW slack \in 0 .. MaxSlack, NEW args \in Str!Args, NEW shrinks \in BOOLEAN,
               Str!concat_in_place(args, slack, shrinks)
        PROVE  StrInv'
    <3>0. slack \in Nat
      OBVIOUS
    <3>1. PICK k \in Nat \ {0} : args \in [1 .. k -> Arguments]
      BY ArgsAreArguments DEF StrInv
    <3> DEFINE m == Str!Meant(args)
               a == Str!Concatenated(here, args, slack, shrinks)
               Late == Str!UsesString(args)
                         /\ Str!Moves(here, Len(s) + Len(m), slack, shrinks)
    <3>2. Str!Becomes(a) /\ wanted' = wanted \o m
      BY <2>2 DEF Str!concat_in_place, here
    <3>3. intact' => intact /\ ~Late
      BY <2>2, Zenon DEF Str!concat_in_place, here
    <3>4. /\ a \in Strings /\ a.moves <= 1
          /\ Len(a.text) = Len(s) + Len(m)
      <4>1. Len(here.text) = Len(s)
        BY <2>0
      <4>2. a \in Strings /\ a.moves <= 1 /\ Len(a.text) = Len(here.text) + Len(m)
        BY <2>0, <3>0, <3>1, ConcatenatedIs, Zenon
      <4> QED BY <4>1, <4>2
    <3>5. ~Late => a.text = s \o m
      <4>1. (Str!UsesString(args) =>
               ~Str!Moves(here, Len(here.text) + Len(Str!Meant(args)), slack, shrinks)) =>
              Str!Concatenated(here, args, slack, shrinks).text = here.text \o Str!Meant(args)
        BY <2>0, <3>0, <3>1, ConcatenatedIs, Zenon
      <4> QED BY <2>0, <4>1, Zenon
    <3>6. m \in Seq(Letters)
      BY <3>1, MeantProperties
    <3> HIDE DEF a, m, Late
    <3>7. wanted' \in Seq(Letters) /\ Len(wanted') = Len(wanted) + Len(m)
      BY <3>2, <3>6, ConcatProperties DEF StrInv
    <3>8. Len(a.text) = Len(wanted')
      BY <3>4, <3>7 DEF StrInv
    <3>9. intact' => a.text = wanted'
      BY <3>2, <3>3, <3>5, Zenon DEF StrInv
    <3> QED BY <2>1, <3>2, <3>4, <3>7, <3>8, <3>9
  <2>3. ASSUME NEW slack \in 0 .. MaxSlack, NEW args \in Str!Args, Str!concat(args, slack)
        PROVE  StrInv'
    <3>0. slack \in Nat
      OBVIOUS
    <3>1. PICK k \in Nat \ {0} : args \in [1 .. k -> Arguments]
      BY ArgsAreArguments DEF StrInv
    <3> DEFINE texts == [c \in DOMAIN args |-> Str!Other(args[c].text)]
               m == Str!Meant(args)
               a == Str!Concatenated(empty, texts, slack, FALSE)
    <3>2. Str!Becomes(a) /\ wanted' = m
      BY <2>3 DEF Str!concat, empty
    <3>3. /\ texts \in [1 .. k -> Arguments] /\ ~Str!UsesString(texts)
          /\ Str!Meant(texts) = m
      BY <3>1, CopiesMeanTheSame
    <3>4. m \in Seq(Letters)
      BY <3>1, MeantProperties
    <3> HIDE DEF texts
    <3>5. a \in Strings /\ a.moves <= 1
      <4>1. FALSE \in BOOLEAN
        OBVIOUS
      <4> QED BY <2>0, <3>0, <3>3, <4>1, ConcatenatedIs, Zenon
    <3>6. a.text = empty.text \o Str!Meant(texts)
      <4>1. (Str!UsesString(texts) =>
               ~Str!Moves(empty, Len(empty.text) + Len(Str!Meant(texts)), slack, FALSE)) =>
              Str!Concatenated(empty, texts, slack, FALSE).text = empty.text \o Str!Meant(texts)
        BY <2>0, <3>0, <3>3, ConcatenatedIs, Zenon
      <4> QED BY <3>3, <4>1, Zenon
    <3> HIDE DEF a, m
    <3>7. a.text = m
      BY <2>0, <3>3, <3>4, <3>6, ConcatEmptySeq
    <3> QED BY <2>1, <3>2, <3>4, <3>5, <3>7
  <2>4. ASSUME NEW slack \in 0 .. MaxSlack, NEW t \in GivenTexts, NEW spoilt \in BOOLEAN,
               Str!PrintedInto(t, spoilt, slack)
        PROVE  StrInv'
    <3> DEFINE p == Str!Printed(here, t, spoilt, slack)
    <3>1. Str!Becomes(p) /\ wanted' = t \o <<NUL>>
      BY <2>4 DEF Str!PrintedInto, here
    <3>2. intact' => ~spoilt
      BY <2>4, Zenon DEF Str!PrintedInto
    <3>3. t \in Seq(Letters) /\ t \o <<NUL>> \in Seq(Letters)
      <4>1. t \in Seq(Letters) /\ <<NUL>> \in Seq(Letters)
        BY TextsAreLetters DEF Letters
      <4> QED BY <4>1, ConcatProperties
    <3>4. p \in Strings /\ p.moves <= 1 /\ Len(p.text) = Len(t \o <<NUL>>)
      BY <2>0, <3>3, PrintedIs
    <3>5. ~spoilt => p.text = t \o <<NUL>>
      BY <2>0, <3>3, PrintedIs
    <3> HIDE DEF p
    <3>6. intact' => p.text = wanted'
      BY <3>1, <3>2, <3>5, Zenon
    <3> QED BY <2>1, <3>1, <3>3, <3>4, <3>6
  <2>5. ASSUME NEW slack \in 0 .. MaxSlack, NEW t \in GivenTexts, NEW ok \in BOOLEAN,
               Str!astrprintf(t, ok, slack)
        PROVE  StrInv'
    <3>0. slack \in Nat
      OBVIOUS
    <3> DEFINE p == Str!Printed(empty, t, FALSE, slack)
    <3>1. t \in Seq(Letters) /\ t \o <<NUL>> \in Seq(Letters)
      <4>1. t \in Seq(Letters) /\ <<NUL>> \in Seq(Letters)
        BY TextsAreLetters DEF Letters
      <4> QED BY <4>1, ConcatProperties
    <3>2. p \in Strings /\ p.moves <= 1 /\ p.text = t \o <<NUL>>
      <4>1. FALSE \in BOOLEAN
        OBVIOUS
      <4>2. p \in Strings /\ p.moves <= 1
        BY <2>0, <3>0, <3>1, <4>1, PrintedIs, Zenon
      <4>3. ~FALSE => p.text = t \o <<NUL>>
        BY <2>0, <3>0, <3>1, <4>1, PrintedIs, Zenon
      <4> QED BY <4>2, <4>3
    <3>3. CASE ok
      <4>1. Str!Becomes(p) /\ wanted' = t \o <<NUL>>
        BY <2>5, <3>3 DEF Str!astrprintf, empty
      <4> HIDE DEF p
      <4> QED BY <2>1, <3>1, <3>2, <4>1
    <3>4. CASE ~ok
      <4>1. Str!Becomes(empty) /\ wanted' = <<>>
        BY <2>5, <3>4 DEF Str!astrprintf, empty
      <4>2. <<>> \in Seq(Letters)
        BY EmptySeq
      <4>3. empty.moves <= 1
        BY <2>0
      <4> QED BY <2>0, <2>1, <4>1, <4>2, <4>3
    <3> QED BY <3>3, <3>4
  <2>6. CASE Str!printf_fails
    <3>1. /\ s' = s /\ room' = room /\ wanted' = wanted /\ moves' = 0
          /\ intact' = intact
      BY <2>6 DEF Str!printf_fails
    <3>2. intact' => s' = wanted'
      BY <3>1, Zenon DEF StrInv
    <3> QED BY <3>1, <3>2 DEF StrInv
  <2>7. CASE UNCHANGED Str!vars
    <3>1. /\ s' = s /\ room' = room /\ wanted' = wanted /\ moves' = moves
          /\ intact' = intact
      BY <2>7 DEF Str!vars
    <3>2. intact' => s' = wanted'
      BY <3>1, Zenon DEF StrInv
    <3> QED BY <3>1, <3>2 DEF StrInv
  <2> QED BY <2>2, <2>3, <2>4, <2>5, <2>6, <2>7 DEF Str!Next, Str!vstrprintf, Str!strprintf
<1> QED BY <1>1, <1>2, PTL DEF Str!Spec

LEMMA StringsStayTheirs == StrInv => Str!StringsAgree /\ Str!MovesOnce
BY Zenon DEF StrInv, Str!StringsAgree, Str!MovesOnce

LEMMA StringPart == Spec => Str!Spec
<1>1. Init => Str!Init
  BY DEF Init
<1>2. [Next]_vars => [Str!Next]_(Str!vars)
  BY DEF Next, vars, string, Str!vars
<1> QED BY <1>1, <1>2, PTL DEF Spec, Str!Spec

\* For any text, array, arguments and mutators: views and array references stand for
\* what was asked, within what they refer to, unless a slice has the length -1, and a string
\* that is concatenated of references holds what those referred to, unless reserve moved a
\* part of it that is among them, to grow or to shrink.  The one change of the buffer is
\* made before any argument is read.
THEOREM ReferencesAlwaysStayInside == Spec => []ReferencesStayInside
<1>1. ViewInv /\ ArrayInv /\ StrInv => ReferencesStayInside
  BY ViewStaysInside, ArrayStaysInside, StringsStayTheirs DEF ReferencesStayInside
<1> QED BY <1>1, ViewPart, ViewInvariance, ArrayPart, ArrayInvariance, StringPart,
           StrInvariance, PTL

----------------------------------------------------------------------------
(* Bloom filters: the bits of a filter are those of the keys it was given,  *)
(* and of no other.                                                         *)

BloomInv ==
  /\ keys \in [Filter -> SUBSET Key]
  /\ data = [f \in Filter |-> UNION {Bloom!Bits(k) : k \in keys[f]}]

LEMMA BloomInvariance == Bloom!Spec => []BloomInv
<1>1. Bloom!Init => BloomInv
  BY DEF Bloom!Init, BloomInv
<1>2. BloomInv /\ [Bloom!Next]_(Bloom!vars) => BloomInv'
  <2> SUFFICES ASSUME BloomInv, [Bloom!Next]_(Bloom!vars)
               PROVE  BloomInv'
    OBVIOUS
  <2>1. ASSUME NEW f \in Filter, NEW key \in Key, Bloom!insert(f, key)
        PROVE  BloomInv'
    <3>1. keys' = [keys EXCEPT ![f] = keys[f] \cup {key}]
      BY <2>1 DEF Bloom!insert
    <3>2. data' = [data EXCEPT ![f] = data[f] \cup Bloom!Bits(key)]
      BY <2>1 DEF Bloom!insert, Bloom!set_bits
    <3>3. UNION {Bloom!Bits(k) : k \in keys[f] \cup {key}}
            = (UNION {Bloom!Bits(k) : k \in keys[f]}) \cup Bloom!Bits(key)
      OBVIOUS
    <3>4. \A g \in Filter : data'[g] = UNION {Bloom!Bits(k) : k \in keys'[g]}
      BY <3>1, <3>2, <3>3 DEF BloomInv
    <3>5. keys' \in [Filter -> SUBSET Key]
      BY <3>1 DEF BloomInv
    <3>6. data' = [g \in Filter |-> data'[g]]
      BY <3>2 DEF BloomInv
    <3> QED BY <3>4, <3>5, <3>6 DEF BloomInv
  <2>2. ASSUME NEW f \in Filter, NEW g \in Filter, Bloom!Assign(f, g) PROVE BloomInv'
    BY <2>2 DEF Bloom!Assign, BloomInv
  <2>3. ASSUME NEW f \in Filter, Bloom!Construct(f) PROVE BloomInv'
    BY <2>3 DEF Bloom!Construct, BloomInv
  <2>4. CASE UNCHANGED Bloom!vars
    BY <2>4 DEF Bloom!vars, BloomInv
  <2> QED BY <2>1, <2>2, <2>3, <2>4 DEF Bloom!Next
<1>3. QED
  BY <1>1, <1>2, PTL DEF Bloom!Spec

LEMMA BloomPart == Spec => Bloom!Spec
<1>1. Init => Bloom!Init
  BY DEF Init
<1>2. [Next]_vars => [Bloom!Next]_(Bloom!vars)
  BY DEF Next, vars, bloom, Bloom!vars
<1>3. QED
  BY <1>1, <1>2, PTL DEF Spec, Bloom!Spec

\* A key that was inserted is counted, and what is counted without having been inserted
\* collides with keys that were.
THEOREM BloomIsAlwaysRight == Spec => []BloomIsRight
<1>1. BloomInv => Bloom!NoFalseNegatives
  BY DEF BloomInv, Bloom!NoFalseNegatives, Bloom!count, Bloom!has_bits, Bloom!Bits
<1>2. BloomInv => Bloom!OnlyCollisions
  BY DEF BloomInv, Bloom!OnlyCollisions, Bloom!count, Bloom!has_bits, Bloom!Bits,
         Bloom!Same
<1>3. QED
  BY <1>1, <1>2, BloomPart, BloomInvariance, PTL DEF BloomIsRight

----------------------------------------------------------------------------
(* FILE* owners: a stream has one owner, which closes it once, unless       *)
(* fclose failed.                                                           *)

\* An object or the client has the stream.
Owned(x) == x \in raw \/ \E o \in Object : F[o] = x

FileTyped ==
  /\ F \in [Object -> Stream \cup {nullptr}] /\ alive \subseteq Object
  /\ raw \subseteq Stream /\ open \subseteq Stream
  /\ closes \in [Stream -> Nat] /\ failed \subseteq Stream

\* No two owners of a stream, and no stream of an object that is not there.
OwnersDiffer ==
  /\ \A o, p \in Object : F[o] = F[p] /\ F[o] # nullptr => o = p
  /\ \A o \in Object : F[o] \notin raw
  /\ \A o \in Object \ alive : F[o] = nullptr

\* What is open was never closed; what an owner has and is not open, failed to close.
ClosedOnce ==
  /\ \A x \in open : closes[x] = 0
  /\ \A x \in open : Owned(x) \/ x \in overwritten
  /\ \A x \in Stream : closes[x] > 1 => x \in failed
  /\ \A x \in Stream \ open : Owned(x) => x \in failed
  /\ \A x \in failed : closes[x] > 0
  /\ misused \subseteq failed

FileInv == FileTyped /\ OwnersDiffer /\ ClosedOnce

\* What fclose makes of the stream an object has, and of none.
LEMMA CloseOldStep ==
  ASSUME nullptr \notin Stream, FileInv, NEW o \in Object, NEW ok \in BOOLEAN,
         File!CloseOld(o, ok)
  PROVE  /\ open' = open \ {F[o]}
         /\ closes' \in [Stream -> Nat]
         /\ \A x \in Stream : closes'[x] = IF x = F[o] THEN closes[x] + 1 ELSE closes[x]
         /\ failed' = IF ok THEN failed ELSE failed \cup {F[o]}
         /\ F[o] = nullptr => ok
         /\ F[o] # nullptr => F[o] \in Stream
BY DEF File!CloseOld, File!Close, File!library, FileInv, FileTyped

LEMMA FileInvariance ==
  ASSUME File!StdioFileAssumption
  PROVE  File!Spec => []FileInv
<1>0. nullptr \notin Stream
  BY DEF File!StdioFileAssumption
<1>1. File!Init => FileInv
  BY <1>0 DEF File!Init, FileInv, FileTyped, OwnersDiffer, ClosedOnce, Owned
<1>2. FileInv /\ [File!Next]_(File!vars) => FileInv'
  <2> SUFFICES ASSUME FileInv, [File!Next]_(File!vars)
               PROVE  FileInv'
    OBVIOUS
  <2> USE <1>0 DEF FileInv, File!library, File!history
  <2>1. ASSUME NEW o \in Object, NEW ok \in BOOLEAN, File!fclose(o, ok)
        PROVE  FileInv'
    <3> USE <2>1, CloseOldStep DEF File!fclose, File!Kept
    <3>1. FileTyped' BY DEF FileTyped
    <3>2. OwnersDiffer' BY DEF FileTyped, OwnersDiffer
    <3>3. ClosedOnce' BY DEF FileTyped, OwnersDiffer, ClosedOnce, Owned
    <3> QED BY <3>1, <3>2, <3>3
  <2>2. ASSUME NEW o \in Object, NEW ok \in BOOLEAN, File!Destroy(o, ok)
        PROVE  FileInv'
    <3> USE <2>2, CloseOldStep DEF File!Destroy
    <3>1. FileTyped' BY DEF FileTyped
    <3>2. OwnersDiffer' BY DEF FileTyped, OwnersDiffer
    <3>3. ClosedOnce' BY DEF FileTyped, OwnersDiffer, ClosedOnce, Owned
    <3> QED BY <3>1, <3>2, <3>3
  <2>3. ASSUME NEW o \in Object, NEW x \in Stream \cup {nullptr}, NEW ok \in BOOLEAN,
               File!reset(o, x, ok)
        PROVE  FileInv'
    <3> USE <2>3, CloseOldStep DEF File!reset
    <3>1. FileTyped' BY DEF FileTyped
    <3>2. OwnersDiffer' BY DEF FileTyped, OwnersDiffer
    <3>3. ClosedOnce' BY DEF FileTyped, OwnersDiffer, ClosedOnce, Owned
    <3> QED BY <3>1, <3>2, <3>3
  <2>4. ASSUME NEW x \in Stream, File!ClientOpens(x)
        PROVE  FileInv'
    <3> USE <2>4 DEF File!ClientOpens, File!Fresh
    <3>1. FileTyped' BY DEF FileTyped
    <3>2. OwnersDiffer' BY DEF FileTyped, OwnersDiffer, ClosedOnce, Owned
    <3>3. ClosedOnce' BY DEF FileTyped, OwnersDiffer, ClosedOnce, Owned
    <3> QED BY <3>1, <3>2, <3>3
  <2>5. ASSUME NEW o \in Object, NEW x \in Stream \cup {nullptr}, File!Construct(o, x)
        PROVE  FileInv'
    <3> USE <2>5 DEF File!Construct
    <3>1. FileTyped' BY DEF FileTyped
    <3>2. OwnersDiffer' BY DEF FileTyped, OwnersDiffer
    <3>3. ClosedOnce' BY DEF FileTyped, OwnersDiffer, ClosedOnce, Owned
    <3> QED BY <3>1, <3>2, <3>3
  <2>6. ASSUME NEW o \in Object, NEW x \in Stream \cup {nullptr},
               File!ConstructOpen(o, x) \/ File!fopen(o, x)
        PROVE  FileInv'
    <3> USE <2>6 DEF File!ConstructOpen, File!fopen, File!Fresh
    <3>1. FileTyped' BY DEF FileTyped
    <3>2. OwnersDiffer' BY DEF FileTyped, OwnersDiffer, ClosedOnce, Owned
    <3>3. ClosedOnce' BY DEF FileTyped, OwnersDiffer, ClosedOnce, Owned
    <3> QED BY <3>1, <3>2, <3>3
  <2>7. ASSUME NEW o \in Object, File!release(o)
        PROVE  FileInv'
    <3> USE <2>7 DEF File!release, File!Released
    <3>1. FileTyped' BY DEF FileTyped
    <3>2. OwnersDiffer' BY DEF FileTyped, OwnersDiffer
    <3>3. ClosedOnce' BY DEF FileTyped, OwnersDiffer, ClosedOnce, Owned
    <3> QED BY <3>1, <3>2, <3>3
  <2>8. ASSUME NEW o \in Object, File!Use(o)
        PROVE  FileInv'
    BY <2>8 DEF File!Use, File!get_file, FileTyped, OwnersDiffer, ClosedOnce, Owned
  <2>9. ASSUME NEW o \in Object, NEW rhs \in Object,
               File!MoveConstruct(o, rhs) \/ File!swap(o, rhs)
        PROVE  FileInv'
    <3> USE <2>9 DEF File!MoveConstruct, File!Released, File!swap
    <3>1. FileTyped' BY DEF FileTyped
    <3>2. OwnersDiffer' BY DEF FileTyped, OwnersDiffer
    <3>3. ClosedOnce' BY DEF FileTyped, OwnersDiffer, ClosedOnce, Owned
    <3> QED BY <3>1, <3>2, <3>3
  <2>10. ASSUME NEW o \in Object, NEW rhs \in Object, NEW ok \in BOOLEAN,
                File!MoveAssign(o, rhs, ok), o # rhs
         PROVE  FileInv'
    <3> USE <2>10, CloseOldStep DEF File!MoveAssign, File!Released
    <3>1. FileTyped' BY DEF FileTyped
    <3>2. OwnersDiffer' BY DEF FileTyped, OwnersDiffer
    <3>3. ClosedOnce' BY DEF FileTyped, OwnersDiffer, ClosedOnce, Owned
    <3> QED BY <3>1, <3>2, <3>3
  <2>11. ASSUME NEW o \in Object, NEW ok \in BOOLEAN, File!MoveAssign(o, o, ok)
         PROVE  FileInv'
    <3>1. F' = F
      BY <2>11 DEF File!MoveAssign, File!Released, FileTyped
    <3> QED
      BY <2>11, <3>1 DEF File!MoveAssign, FileTyped, OwnersDiffer, ClosedOnce, Owned
  <2>12. CASE UNCHANGED File!vars
    BY <2>12 DEF File!vars, FileTyped, OwnersDiffer, ClosedOnce, Owned
  <2> QED
    BY <2>1, <2>2, <2>3, <2>4, <2>5, <2>6, <2>7, <2>8, <2>9, <2>10, <2>11, <2>12
       DEF File!Next
<1>3. QED
  BY <1>1, <1>2, PTL DEF File!Spec

LEMMA FilePart == Spec => File!Spec
<1>1. Init => File!Init
  BY DEF Init
<1>2. [Next]_vars => [File!Next]_(File!vars)
  BY DEF Next, vars, file, File!vars, File!library, File!history
<1>3. QED
  BY <1>1, <1>2, PTL DEF Spec, File!Spec

LEMMA FileCardinality ==
  ASSUME NEW S
  PROVE  File!Cardinality(S) = Cardinality(S)
BY DEF File!Cardinality, Cardinality

\* A stream has one owner at most, an open one has an owner unless it was forgotten,
\* and only what failed to close is closed again or used after its end.
THEOREM FilesAreAlwaysOwned == Spec => []FilesAreOwned
<1>1. FileInv => File!OneOwner
  <2> SUFFICES ASSUME FileInv, NEW x \in Stream
               PROVE  Cardinality(File!Owners(x)) <= 1
    BY FileCardinality DEF File!OneOwner
  <2>1. \A a, b \in File!Owners(x) : a = b
    BY FileConstants
       DEF FileInv, OwnersDiffer, File!Owners, File!StdioFileAssumption
  <2>2. CASE File!Owners(x) = {}
    BY <2>2, FS_EmptySet
  <2>3. CASE File!Owners(x) # {}
    <3>1. PICK a \in File!Owners(x) : TRUE
      BY <2>3
    <3>2. File!Owners(x) = {a}
      BY <2>1, <3>1
    <3>3. Cardinality({a}) = 1
      BY FS_Singleton
    <3> QED BY <3>2, <3>3
  <2> QED BY <2>2, <2>3
<1>2. FileInv => File!OpenIsOwned
  BY DEF FileInv, FileTyped, ClosedOnce, Owned, File!OpenIsOwned, File!Owners
<1>3. FileInv => File!ClosedAgainAfterFailure /\ File!MisusedAfterFailure
  <2> SUFFICES ASSUME FileInv, NEW x \in Stream, x \notin open, File!Owners(x) # {}
               PROVE  Owned(x)
    BY DEF FileInv, ClosedOnce, File!ClosedAgainAfterFailure, File!MisusedAfterFailure
  <2> QED BY DEF Owned, File!Owners
<1>4. QED
  BY <1>1, <1>2, <1>3, FilePart, FileInvariance, FileConstants, PTL DEF FilesAreOwned

----------------------------------------------------------------------------
(* Signal handlers: a handler is installed only when its name and, for      *)
(* SIGSEGV, a stack are there, and neither goes away.                       *)

Frame == [signo : Signals, handler : {"default"} \cup Sig!Handlers,
          step : {"format", "reset", "raise", "return"}]

SigTyped ==
  /\ action \in [Signals -> {"default"} \cup Sig!Handlers]
  /\ onstack \in [Signals -> BOOLEAN]
  /\ name \in [Signals -> 0 .. Sig!NameLength]
  /\ alt_stack \in {"none", "client", "ours"}
  /\ at \in 0 .. 4
  /\ call \in [signo : Signals, handler : {"none"} \cup Sig!Handlers]
  /\ frames \in Seq(Frame)

\* What the registration under way has done, step by step.
Registered ==
  at > 0 =>
    /\ call.handler \in Sig!Handlers
    /\ at = 2 => name[call.signo] >= 1
    /\ at \in {3, 4} => name[call.signo] = Sig!NameLength
    /\ at = 4 /\ call.signo = SIGSEGV => alt_stack # "none"

\* What is installed has its name, and its stack.
Equipped ==
  /\ \A x \in Signals : action[x] # "default" => name[x] = Sig!NameLength
  /\ action[SIGSEGV] # "default" => onstack[SIGSEGV] /\ alt_stack # "none"

SigInv == SigTyped /\ Registered /\ Equipped /\ Sig!NamesAreReady

\* The lesser of the next length of a name and the whole of it.
LEMMA NameGrows ==
  ASSUME NEW x \in 0 .. 2
  PROVE  Sig!Min({x + 1, 2}) = IF x = 0 THEN 1 ELSE 2
<1> DEFINE m == IF x = 0 THEN 1 ELSE 2
<1>1. m \in {x + 1, 2} /\ \A y \in {x + 1, 2} : m <= y
  OBVIOUS
<1>2. Sig!Min({x + 1, 2}) \in {x + 1, 2} /\ \A y \in {x + 1, 2} : Sig!Min({x + 1, 2}) <= y
  BY <1>1 DEF Sig!Min
<1> QED BY <1>1, <1>2

\* The handlers under the innermost.
LEMMA FrontFrames ==
  ASSUME SigTyped, frames # <<>>
  PROVE  /\ Len(frames) \in DOMAIN frames /\ Sig!Top \in Frame
         /\ Sig!Front(frames) \in Seq(Frame)
         /\ \A n \in DOMAIN Sig!Front(frames) :
              n \in DOMAIN frames /\ Sig!Front(frames)[n] = frames[n]
<1>1. frames \in Seq(Frame) /\ Len(frames) \in Nat /\ Len(frames) > 0
  BY DEF SigTyped
<1>2. Sig!Front(frames) = SubSeq(frames, 1, Len(frames) - 1)
  BY DEF Sig!Front
<1> QED BY <1>1, <1>2 DEF Sig!Top

\* A delivery to a program whose handlers are equipped.
LEMMA DeliveredStep ==
  ASSUME SigTyped, Equipped, NEW x \in Signals, NEW fs \in Seq(Frame),
         \A n \in DOMAIN fs : name[fs[n].signo] = Sig!NameLength,
         Sig!Delivered(x, fs)
  PROVE  /\ frames' \in Seq(Frame)
         /\ \A n \in DOMAIN frames' : name[frames'[n].signo] = Sig!NameLength
<1>1. CASE action[x] = "default"
  BY <1>1 DEF Sig!Delivered
<1>2. CASE action[x] # "default"
  <2> DEFINE g == [signo |-> x, handler |-> action[x], step |-> "format"]
  <2>1. g \in Frame /\ frames' = Append(fs, g) /\ name[g.signo] = Sig!NameLength
    BY <1>2 DEF Sig!Delivered, Frame, SigTyped, Equipped
  <2> HIDE DEF g
  <2> QED BY <2>1
<1> QED BY <1>1, <1>2

\* The handlers that run go on without a change of what is registered.
LEMMA OnlyFramesStep ==
  ASSUME SigInv, UNCHANGED <<action, onstack, name, alt_stack, call, at>>,
         frames' \in Seq(Frame),
         \A n \in DOMAIN frames' : name[frames'[n].signo] = Sig!NameLength
  PROVE  SigInv'
BY DEF SigInv, SigTyped, Registered, Equipped, Sig!NamesAreReady

LEMMA GotoStep ==
  ASSUME SigInv, frames # <<>>, NEW step \in {"format", "reset", "raise", "return"},
         Sig!Goto(step)
  PROVE  /\ frames' \in Seq(Frame)
         /\ \A n \in DOMAIN frames' : name[frames'[n].signo] = Sig!NameLength
<1>1. frames \in Seq(Frame) /\ Len(frames) \in DOMAIN frames
  BY FrontFrames DEF SigInv, SigTyped
<1> DEFINE k == Len(frames)
           g == [frames[k] EXCEPT !.step = step]
<1>2. frames' = [frames EXCEPT ![k] = g]
  BY <1>1 DEF Sig!Goto
<1>3. frames[k] \in Frame /\ g \in Frame /\ g.signo = frames[k].signo
  <2>1. frames[k] \in Frame
    BY <1>1
  <2> QED BY <2>1 DEF Frame
<1> HIDE DEF g
<1>4. frames' \in Seq(Frame)
  BY <1>1, <1>2, <1>3, ExceptSeq
<1>5. \A n \in DOMAIN frames' : n \in DOMAIN frames /\ frames'[n].signo = frames[n].signo
  BY <1>1, <1>2, <1>3
<1> QED BY <1>4, <1>5 DEF SigInv, Sig!NamesAreReady

LEMMA RegisterStep ==
  ASSUME SigInv, SIGSEGV \in Signals, Sig!CopyName \/ Sig!SetStack \/ Sig!Install
  PROVE  SigInv'
<1> USE DEF Sig!Order, Sig!Running, Sig!NameLength
<1>1. /\ frames = <<>> /\ frames' = frames /\ at \in 1 .. 4
      /\ call \in [signo : Signals, handler : Sig!Handlers]
  BY DEF Sig!Does, Sig!CopyName, Sig!SetStack, Sig!Install, Sig!process, SigInv,
         SigTyped, Registered
<1>2. /\ at' = IF at = 4 THEN 0 ELSE at + 1
      /\ call' \in [signo : Signals, handler : {"none"} \cup Sig!Handlers]
      /\ at # 4 => call' = call
  BY <1>1 DEF Sig!Does, Sig!CopyName, Sig!SetStack, Sig!Install, Sig!NoCall
<1>3. CASE Sig!CopyName
  <2>1. at \in {1, 2} /\ UNCHANGED <<action, onstack, alt_stack>>
    BY <1>1, <1>3 DEF Sig!CopyName, Sig!Does, Sig!kernel
  <2>2. name[call.signo] \in 0 .. 2
    BY <1>1 DEF SigInv, SigTyped
  <2>3. name' = [name EXCEPT ![call.signo] = IF @ = 0 THEN 1 ELSE 2]
    BY <1>1, <1>3, <2>2, NameGrows DEF Sig!CopyName, SigInv, SigTyped
  <2>4. SigTyped'
    BY <1>1, <1>2, <2>1, <2>2, <2>3 DEF SigInv, SigTyped
  <2>5. Registered'
    BY <1>1, <1>2, <2>1, <2>2, <2>3 DEF SigInv, SigTyped, Registered
  <2>6. Equipped'
    BY <1>1, <2>1, <2>2, <2>3 DEF SigInv, SigTyped, Equipped
  <2>7. Sig!NamesAreReady'
    BY <1>1 DEF Sig!NamesAreReady
  <2> QED BY <2>4, <2>5, <2>6, <2>7 DEF SigInv
<1>4. CASE Sig!SetStack
  <2>1. /\ at = 3 /\ UNCHANGED <<action, onstack, name>>
        /\ alt_stack' = IF call.signo = SIGSEGV /\ alt_stack = "none" THEN "ours"
                                                                    ELSE alt_stack
    BY <1>1, <1>4 DEF Sig!SetStack, Sig!Does, Sig!NeedsStack
  <2> QED BY <1>1, <1>2, <2>1
             DEF SigInv, SigTyped, Registered, Equipped, Sig!NamesAreReady
<1>5. CASE Sig!Install
  <2>1. at = 4 /\ at' = 0 /\ UNCHANGED <<alt_stack, name>>
    BY <1>1, <1>2, <1>5 DEF Sig!Install, Sig!Does
  <2>2. CASE UNCHANGED <<action, onstack>>
    BY <1>1, <1>2, <2>1, <2>2
       DEF SigInv, SigTyped, Registered, Equipped, Sig!NamesAreReady
  <2>3. CASE /\ action' = [action EXCEPT ![call.signo] = call.handler]
             /\ onstack' = [onstack EXCEPT ![call.signo] = call.signo = SIGSEGV]
    <3>1. SigTyped'
      BY <1>1, <1>2, <2>1, <2>3 DEF SigInv, SigTyped
    <3>2. ASSUME NEW x \in Signals, action'[x] # "default"
          PROVE  name'[x] = Sig!NameLength
      BY <1>1, <2>1, <2>3, <3>2 DEF SigInv, SigTyped, Registered, Equipped
    <3>3. ASSUME action'[SIGSEGV] # "default"
          PROVE  onstack'[SIGSEGV] /\ alt_stack' # "none"
      <4>1. CASE call.signo = SIGSEGV
        <5>1. SIGSEGV \in DOMAIN onstack
          BY DEF SigInv, SigTyped
        <5>2. onstack'[SIGSEGV] = (SIGSEGV = SIGSEGV)
          BY <2>3, <4>1, <5>1
        <5>3. alt_stack' # "none"
          BY <1>1, <2>1, <4>1 DEF SigInv, Registered
        <5> QED BY <5>2, <5>3
      <4>2. CASE call.signo # SIGSEGV
        <5>1. /\ action'[SIGSEGV] = action[SIGSEGV]
              /\ onstack'[SIGSEGV] <=> onstack[SIGSEGV]
          BY <2>3, <4>2 DEF SigInv, SigTyped
        <5> QED BY <2>1, <3>3, <5>1 DEF SigInv, Equipped
      <4> QED BY <4>1, <4>2
    <3>4. Equipped'
      BY <3>2, <3>3 DEF Equipped
    <3> QED BY <1>1, <2>1, <3>1, <3>4 DEF SigInv, Registered, Sig!NamesAreReady
  <2> QED BY <1>5, <2>2, <2>3 DEF Sig!Install
<1> QED BY <1>3, <1>4, <1>5

LEMMA SigInvariance ==
  ASSUME Sig!SignalAssumption
  PROVE  Sig!Init /\ [][Sig!Next]_(Sig!vars) => []SigInv
<1>0. SIGSEGV \in Signals
  BY DEF Sig!SignalAssumption
<1>1. Sig!Init => SigInv
  BY <1>0 DEF Sig!Init, Sig!NoCall, SigInv, SigTyped, Registered, Equipped,
              Sig!NamesAreReady, Sig!NameLength
<1>2. SigInv /\ [Sig!Next]_(Sig!vars) => SigInv'
  <2> SUFFICES ASSUME SigInv, [Sig!Next]_(Sig!vars)
               PROVE  SigInv'
    OBVIOUS
  <2>1. ASSUME NEW x \in Signals, Sig!Arrive(x) PROVE SigInv'
    <3>1. /\ UNCHANGED <<action, onstack, name, alt_stack, call, at>>
          /\ UNCHANGED frames \/ Sig!Delivered(x, frames)
      BY <2>1 DEF Sig!Arrive, Sig!kernel, Sig!program
    <3>2. /\ frames' \in Seq(Frame)
          /\ \A n \in DOMAIN frames' : name[frames'[n].signo] = Sig!NameLength
      BY <3>1, DeliveredStep DEF SigInv, SigTyped, Sig!NamesAreReady
    <3> QED BY <3>1, <3>2, OnlyFramesStep
  <2>2. ASSUME NEW x \in Signals, NEW h \in Sig!Handlers, Sig!Call(x, h) PROVE SigInv'
    BY <2>2 DEF Sig!Call, Sig!kernel, Sig!process, SigInv, SigTyped, Registered,
                Equipped, Sig!NamesAreReady
  <2>3. CASE Sig!CopyName \/ Sig!SetStack \/ Sig!Install
    BY <1>0, <2>3, RegisterStep
  <2>4. CASE Sig!Format \/ Sig!Raise
    <3>1. /\ frames # <<>> /\ UNCHANGED <<action, onstack, name, alt_stack, call, at>>
          /\ \E step \in {"format", "reset", "raise", "return"} : Sig!Goto(step)
      BY <2>4 DEF Sig!Format, Sig!Raise, Sig!InHandler, Sig!kernel, Sig!program
    <3> QED BY <3>1, GotoStep, OnlyFramesStep
  <2>5. CASE Sig!FormatOverruns
    BY <2>5, OnlyFramesStep
       DEF Sig!FormatOverruns, Sig!kernel, Sig!program, SigInv, SigTyped,
           Sig!NamesAreReady
  <2>6. CASE Sig!Reset
    <3>1. frames # <<>> /\ Sig!Goto("raise") /\ UNCHANGED <<name, alt_stack, call, at>>
      BY <2>6 DEF Sig!Reset, Sig!InHandler, Sig!program
    <3>2. Sig!Top.signo \in Signals
      BY <3>1, FrontFrames DEF SigInv, Frame
    <3>3. /\ action' = [action EXCEPT ![Sig!Top.signo] = "default"]
          /\ onstack' = [onstack EXCEPT ![Sig!Top.signo] = FALSE]
      BY <2>6 DEF Sig!Reset, Sig!ResetTo
    <3>4. /\ frames' \in Seq(Frame)
          /\ \A n \in DOMAIN frames' : name[frames'[n].signo] = Sig!NameLength
      BY <3>1, GotoStep
    <3> HIDE DEF Sig!Top
    <3>5. SigTyped'
      BY <3>1, <3>2, <3>3, <3>4 DEF SigInv, SigTyped
    <3>6. Equipped'
      BY <3>1, <3>2, <3>3 DEF SigInv, SigTyped, Equipped
    <3> QED BY <3>1, <3>4, <3>5, <3>6 DEF SigInv, Registered, Sig!NamesAreReady
  <2>7. CASE Sig!Return
    <3>1. frames # <<>> /\ UNCHANGED <<action, onstack, name, alt_stack, call, at>>
      BY <2>7 DEF Sig!Return, Sig!InHandler, Sig!kernel, Sig!program
    <3>2. /\ Sig!Top.signo \in Signals /\ Sig!Front(frames) \in Seq(Frame)
          /\ \A n \in DOMAIN Sig!Front(frames) :
               name[Sig!Front(frames)[n].signo] = Sig!NameLength
      BY <3>1, FrontFrames DEF SigInv, Frame, Sig!NamesAreReady
    <3>3. frames' = Sig!Front(frames) \/ Sig!Delivered(Sig!Top.signo, Sig!Front(frames))
      BY <2>7 DEF Sig!Return
    <3>4. /\ frames' \in Seq(Frame)
          /\ \A n \in DOMAIN frames' : name[frames'[n].signo] = Sig!NameLength
      BY <3>2, <3>3, DeliveredStep DEF SigInv
    <3> QED BY <3>1, <3>4, OnlyFramesStep
  <2>8. CASE UNCHANGED Sig!vars
    BY <2>8, OnlyFramesStep
       DEF Sig!vars, Sig!kernel, Sig!program, Sig!process, SigInv, SigTyped,
           Sig!NamesAreReady
  <2> QED
    BY <2>1, <2>2, <2>3, <2>4, <2>5, <2>6, <2>7, <2>8 DEF Sig!Next, Sig!Handle
<1>3. QED
  BY <1>1, <1>2, PTL

\* The fairness of the composition is about the part, and plays no role here.
LEMMA SigPart == Spec => Sig!Init /\ [][Sig!Next]_(Sig!vars)
<1>1. Init => Sig!Init
  BY DEF Init
<1>2. [Next]_vars => [Sig!Next]_(Sig!vars)
  BY DEF Next, vars, sig, Sig!vars, Sig!kernel, Sig!program, Sig!process
<1>3. QED
  BY <1>1, <1>2, PTL DEF Spec

\* A handler never runs without the name it prints, and that of SIGSEGV never without a
\* stack, wherever signals interrupt registrations and one another.
THEOREM HandlersAreAlwaysReady == Spec => []HandlersAreReady
<1>1. SigInv => HandlersAreReady
  BY DEF SigInv, Equipped, HandlersAreReady, Sig!SegvHasStack
<1>2. QED
  BY <1>1, SigPart, SigInvariance, SignalConstants, PTL

=============================================================================
