------------------------- MODULE SortedVectorProofs -------------------------
(***************************************************************************)
(* The sorted vector stays sorted and without equivalent keys, and is a set *)
(* to its client but for erase(key), for every set of keys and every order, *)
(* as long as moving a key is copying it and the vectors swapped with have  *)
(* the same order.                                                          *)
(***************************************************************************)
EXTENDS SortedVector, SequenceTheorems, TLAPS

Typed(s) == s \in Seq(Key)

\* Every element is less than all that follow it: unlike validate(), which looks at
\* neighbours, this survives the erasure of a range by itself.
InOrder(s) == Ordered(s, Rank)

IInv == Typed(storage) /\ Typed(todo) /\ InOrder(storage)

\* Moving a key leaves it as it was, which holds of numbers.
MoveCopies == \A k \in Key : MovedFrom[k] = k

\* Vectors of the same type have comparisons of the same order, which holds of
\* comparisons without state.
SameOrder == OtherRank = Rank

----------------------------------------------------------------------------
(* Sequences *)

\* A sequence of bounded length is a sequence.
LEMMA BoundedIsSeq ==
  ASSUME NEW S, NEW n \in Nat, NEW s \in BoundedSeq(S, n)
  PROVE  s \in Seq(S)
  BY DEF BoundedSeq, SeqOf

\* t is s with k put at position p.
IsInserted(t, s, p, k) ==
  /\ Len(t) = Len(s) + 1
  /\ \A i \in 1 .. p-1 : t[i] = s[i]
  /\ t[p] = k
  /\ \A i \in p+1 .. Len(s) + 1 : t[i] = s[i-1]

\* What InsertAt, the model of vector::insert, puts where.
LEMMA InsertAtElements ==
  ASSUME NEW S, NEW s \in Seq(S), NEW k \in S, NEW p \in 1 .. Len(s) + 1
  PROVE  /\ InsertAt(s, p, k) \in Seq(S)
         /\ IsInserted(InsertAt(s, p, k), s, p, k)
<1> DEFINE a == SubSeq(s, 1, p-1)
           b == a \o <<k>>
           c == SubSeq(s, p, Len(s))
<1>1. /\ a \in Seq(S) /\ Len(a) = p - 1
      /\ \A i \in 1 .. p-1 : a[i] = s[i]
  <2>1. \A i \in 1 .. p-1 : s[i] \in S
    OBVIOUS
  <2> QED BY <2>1, SubSeqProperties
<1>2. /\ c \in Seq(S) /\ Len(c) = Len(s) - p + 1
      /\ \A i \in 1 .. Len(s) - p + 1 : c[i] = s[p+i-1]
  <2>1. \A i \in p .. Len(s) : s[i] \in S
    OBVIOUS
  <2> QED BY <2>1, SubSeqProperties
<1>3. <<k>> \in Seq(S) /\ Len(<<k>>) = 1 /\ <<k>>[1] = k
  OBVIOUS
<1>4. /\ b \in Seq(S) /\ Len(b) = p
      /\ \A i \in 1 .. p : b[i] = IF i < p THEN s[i] ELSE k
  <2> HIDE DEF a
  <2>1. /\ b \in Seq(S) /\ Len(b) = Len(a) + Len(<<k>>)
        /\ \A i \in 1 .. Len(a) + Len(<<k>>) :
             b[i] = IF i <= Len(a) THEN a[i] ELSE <<k>>[i - Len(a)]
    BY <1>1, <1>3, ConcatProperties
  <2> QED BY <2>1, <1>1, <1>3
<1>5. /\ b \o c \in Seq(S) /\ Len(b \o c) = Len(b) + Len(c)
      /\ \A i \in 1 .. Len(b) + Len(c) :
           (b \o c)[i] = IF i <= Len(b) THEN b[i] ELSE c[i - Len(b)]
  <2> HIDE DEF b, c
  <2> QED BY <1>2, <1>4, ConcatProperties
<1>6. InsertAt(s, p, k) = b \o c
  BY DEF InsertAt
<1> HIDE DEF a, b, c
<1> QED BY <1>2, <1>4, <1>5, <1>6 DEF IsInserted

\* t is s without what was from first up to last.
IsErased(t, s, first, last) ==
  /\ Len(t) = Len(s) - (last - first)
  /\ \A i \in 1 .. Len(t) : i < first => i \in 1 .. Len(s) /\ t[i] = s[i]
  /\ \A i \in 1 .. Len(t) : i >= first =>
       i + (last - first) \in 1 .. Len(s) /\ t[i] = s[i + (last - first)]

\* What vector::erase leaves: each element from an old position that depends on the
\* new one alone.
LEMMA ErasedElements ==
  ASSUME NEW S, NEW s \in Seq(S), NEW first \in 1 .. Len(s) + 1,
         NEW last \in 1 .. Len(s) + 1, first <= last
  PROVE  /\ Erased(s, first, last) \in Seq(S)
         /\ IsErased(Erased(s, first, last), s, first, last)
<1> DEFINE a == SubSeq(s, 1, first - 1)
           c == SubSeq(s, last, Len(s))
           t == Erased(s, first, last)
           length == Len(s)
           n == (first - 1) + ((length - last) + 1)
<1>0. /\ length \in Nat /\ first \in 1 .. length + 1 /\ last \in 1 .. length + 1
      /\ first <= last
  OBVIOUS
<1>1. /\ a \in Seq(S) /\ Len(a) = first - 1
      /\ \A i \in 1 .. first-1 : a[i] = s[i]
  <2>1. \A i \in 1 .. first-1 : s[i] \in S
    OBVIOUS
  <2> QED BY <2>1, SubSeqProperties
<1>2. /\ c \in Seq(S) /\ Len(c) = (length - last) + 1
      /\ \A i \in 1 .. (length - last) + 1 : c[i] = s[(last+i)-1]
  <2>1. \A i \in last .. Len(s) : s[i] \in S
    OBVIOUS
  <2> QED BY <2>1, SubSeqProperties
<1>3. t = a \o c
  BY DEF Erased
<1> HIDE DEF a, c, t
<1>4. /\ t \in Seq(S) /\ Len(t) = Len(a) + Len(c)
      /\ \A i \in 1 .. Len(a) + Len(c) :
           t[i] = IF i <= Len(a) THEN a[i] ELSE c[i - Len(a)]
  BY <1>1, <1>2, <1>3, ConcatProperties
<1> HIDE DEF length
<1>5. n \in Nat /\ Len(t) = n
  BY <1>0, <1>1, <1>2, <1>4
<1>6. \A i \in 1 .. n : t[i] = IF i <= first - 1 THEN a[i] ELSE c[i - (first - 1)]
  BY <1>1, <1>2, <1>4
<1>7. ASSUME NEW i \in 1 .. n, i < first
      PROVE  i \in 1 .. length /\ t[i] = s[i]
  <2>1. i \in 1 .. length /\ i \in 1 .. first - 1 /\ i <= first - 1
    BY <1>0, <1>7
  <2>2. t[i] = a[i]
    BY <1>6, <2>1
  <2> QED BY <1>1, <2>1, <2>2
<1>8. ASSUME NEW i \in 1 .. n, i >= first
      PROVE  i + (last - first) \in 1 .. length /\ t[i] = s[i + (last - first)]
  <2> DEFINE j == i - (first - 1)
  <2>1. /\ j \in 1 .. (length - last) + 1
        /\ (last + j) - 1 = i + (last - first)
        /\ i + (last - first) \in 1 .. length
        /\ ~(i <= first - 1)
    BY <1>0, <1>8
  <2>2. t[i] = c[j]
    BY <1>6, <2>1
  <2> HIDE DEF j
  <2> QED BY <1>2, <2>1, <2>2
<1>9. n = length - (last - first)
  BY <1>0
<1> HIDE DEF n
<1>10. IsErased(t, s, first, last)
  BY <1>5, <1>7, <1>8, <1>9 DEF IsErased, length
<1> QED BY <1>4, <1>10 DEF t

----------------------------------------------------------------------------
(* The operations *)

\* A key put between smaller and larger ones keeps the order.
LEMMA InsertKeepsOrder ==
  ASSUME Typed(storage), InOrder(storage),
         NEW k \in Key, NEW p \in Positions,
         \A i \in DOMAIN storage : i < p => Rank[storage[i]] < Rank[k],
         \A i \in DOMAIN storage : i >= p => Rank[k] < Rank[storage[i]],
         InsertInto(p, k)
  PROVE  Typed(storage') /\ InOrder(storage')
<1>1. /\ storage' \in Seq(Key)
      /\ Len(storage') = Len(storage) + 1
      /\ \A i \in 1 .. p-1 : storage'[i] = storage[i]
      /\ storage'[p] = k
      /\ \A i \in p+1 .. Len(storage) + 1 : storage'[i] = storage[i-1]
  <2>1. storage \in Seq(Key) /\ p \in 1 .. Len(storage) + 1
    BY DEF Typed, Positions, End
  <2>2. storage' \in Seq(Key) /\ IsInserted(storage', storage, p, k)
    BY <2>1, InsertAtElements DEF InsertInto
  <2> QED BY <2>2 DEF IsInserted
<1>2. ASSUME NEW i \in DOMAIN storage', NEW j \in DOMAIN storage', i < j
      PROVE  Rank[storage'[i]] < Rank[storage'[j]]
  <2>1. /\ i \in 1 .. Len(storage) + 1 /\ j \in 1 .. Len(storage) + 1
        /\ DOMAIN storage = 1 .. Len(storage) /\ Len(storage) \in Nat
        /\ p \in 1 .. Len(storage) + 1
    BY <1>1, <1>2 DEF Typed, Positions, End
  <2>2. CASE j < p
    BY <1>1, <1>2, <2>1, <2>2 DEF InOrder, Ordered
  <2>3. CASE j = p
    BY <1>1, <1>2, <2>1, <2>3
  <2>4. CASE j > p /\ i = p
    <3>1. j - 1 \in DOMAIN storage /\ j - 1 >= p
      BY <1>2, <2>1, <2>4
    <3> QED BY <1>1, <2>1, <2>4, <3>1
  <2>5. CASE j > p /\ i < p
    <3>1. j - 1 \in DOMAIN storage /\ i \in DOMAIN storage /\ i < j - 1
      BY <1>2, <2>1, <2>5
    <3> QED BY <1>1, <2>1, <2>5, <3>1 DEF InOrder, Ordered
  <2>6. CASE j > p /\ i > p
    <3>1. j - 1 \in DOMAIN storage /\ i - 1 \in DOMAIN storage /\ i - 1 < j - 1
      BY <1>2, <2>1, <2>6
    <3> QED BY <1>1, <2>1, <2>6, <3>1 DEF InOrder, Ordered
  <2> QED BY <2>1, <2>2, <2>3, <2>4, <2>5, <2>6
<1> QED BY <1>1, <1>2 DEF Typed, InOrder, Ordered

\* Nor does an erasure disturb it.
LEMMA EraseKeepsOrder ==
  ASSUME Typed(storage), InOrder(storage),
         NEW first \in Positions, NEW last \in Positions, first <= last,
         storage' = Erased(storage, first, last)
  PROVE  Typed(storage') /\ InOrder(storage')
<1>1. /\ storage \in Seq(Key) /\ DOMAIN storage = 1 .. Len(storage)
      /\ first \in 1 .. Len(storage) + 1 /\ last \in 1 .. Len(storage) + 1
  BY DEF Typed, Positions, End
<1> DEFINE n == Len(storage')
<1>2. storage' \in Seq(Key) /\ IsErased(storage', storage, first, last)
  BY <1>1, ErasedElements
<1>3. /\ storage' \in Seq(Key) /\ DOMAIN storage' = 1 .. n
      /\ \A i \in 1 .. n : i < first =>
           i \in DOMAIN storage /\ storage'[i] = storage[i]
      /\ \A i \in 1 .. n : i >= first =>
           /\ i + (last - first) \in DOMAIN storage
           /\ storage'[i] = storage[i + (last - first)]
  BY <1>1, <1>2 DEF IsErased
<1> HIDE DEF n
<1>4. ASSUME NEW i \in 1 .. n, NEW j \in 1 .. n, i < j
      PROVE  Rank[storage'[i]] < Rank[storage'[j]]
  <2>1. CASE j < first
    <3>1. i < first
      BY <1>1, <1>4, <2>1
    <3> QED BY <1>3, <1>4, <2>1, <3>1 DEF InOrder, Ordered
  <2>2. CASE i < first /\ j >= first
    <3>1. i < j + (last - first)
      BY <1>1, <1>4
    <3> QED BY <1>3, <2>2, <3>1 DEF InOrder, Ordered
  <2>3. CASE i >= first
    <3>1. i + (last - first) < j + (last - first) /\ j >= first
      BY <1>1, <1>4, <2>3
    <3> QED BY <1>3, <2>3, <3>1 DEF InOrder, Ordered
  <2> QED BY <1>1, <1>4, <2>1, <2>2, <2>3
<1> QED BY <1>3, <1>4 DEF Typed, InOrder, Ordered

\* A key that is not there, put where lower_bound says.
LEMMA InsertAtPlaceKeepsOrder ==
  ASSUME Typed(storage), InOrder(storage), NEW k \in Key, NEW p \in Positions,
         IsLowerBound(p, k), ~(p # End /\ equivalent(storage[p], k)),
         InsertInto(p, k)
  PROVE  Typed(storage') /\ InOrder(storage')
<1>1. \A i \in DOMAIN storage : i < p => Rank[storage[i]] < Rank[k]
  BY DEF IsLowerBound, comp
<1>2. ASSUME NEW i \in DOMAIN storage, i >= p
      PROVE  Rank[k] < Rank[storage[i]]
  <2>1. p \in DOMAIN storage
    BY <1>2 DEF Positions, End, Typed
  <2>2. Rank[storage[p]] \in Int /\ Rank[storage[i]] \in Int /\ Rank[k] \in Int
    BY <2>1, SortedVectorAssumption DEF Typed
  <2>3. ~(Rank[storage[p]] < Rank[k]) /\ p # End
    BY <2>1 DEF IsLowerBound, comp, Positions, End, Typed
  <2>4. Rank[k] < Rank[storage[p]]
    BY <2>2, <2>3 DEF equivalent, comp
  <2>5. i = p \/ Rank[storage[p]] < Rank[storage[i]]
    BY <1>2, <2>1 DEF InOrder, Ordered, Positions, End, Typed
  <2> QED BY <2>2, <2>4, <2>5
<1>3. InsertInto(p, k)
  OBVIOUS
<1> QED BY <1>1, <1>2, <1>3, InsertKeepsOrder

\* insert(value), with its search.
LEMMA InsertValueKeepsOrder ==
  ASSUME Typed(storage), InOrder(storage), NEW k \in Key, InsertValue(k)
  PROVE  Typed(storage') /\ InOrder(storage')
<1>1. PICK p \in Positions :
        /\ IsLowerBound(p, k)
        /\ \/ UNCHANGED storage
           \/ ~(p # End /\ equivalent(storage[p], k)) /\ InsertInto(p, k)
  BY DEF InsertValue
<1>2. CASE UNCHANGED storage
  BY <1>2 DEF Typed, InOrder, Ordered
<1>3. CASE ~(p # End /\ equivalent(storage[p], k)) /\ InsertInto(p, k)
  BY <1>1, <1>3, InsertAtPlaceKeepsOrder
<1> QED BY <1>1, <1>2, <1>3

\* A good hint lies between the smaller keys and the larger ones.
LEMMA GoodHintSeparates ==
  ASSUME Typed(storage), InOrder(storage), NEW k \in Key, NEW p \in Positions,
         GoodHint(p, k)
  PROVE  /\ \A i \in DOMAIN storage : i < p => Rank[storage[i]] < Rank[k]
         /\ \A i \in DOMAIN storage : i >= p => Rank[k] < Rank[storage[i]]
<1>1. ASSUME NEW i \in DOMAIN storage, i < p
      PROVE  Rank[storage[i]] < Rank[k]
  <2>1. p - 1 \in DOMAIN storage /\ (i = p - 1 \/ i < p - 1) /\ p # 1
    BY <1>1 DEF Positions, End, Typed
  <2>2. Rank[storage[p-1]] < Rank[k]
    BY <2>1 DEF GoodHint, comp
  <2>3. Rank[storage[p-1]] \in Int /\ Rank[storage[i]] \in Int /\ Rank[k] \in Int
    BY <2>1, SortedVectorAssumption DEF Typed
  <2>4. i = p - 1 \/ Rank[storage[i]] < Rank[storage[p-1]]
    BY <2>1 DEF InOrder, Ordered
  <2> QED BY <2>2, <2>3, <2>4
<1>2. ASSUME NEW i \in DOMAIN storage, i >= p
      PROVE  Rank[k] < Rank[storage[i]]
  <2>1. p \in DOMAIN storage /\ (i = p \/ p < i) /\ p # End
    BY <1>2 DEF Positions, End, Typed
  <2>2. Rank[k] < Rank[storage[p]]
    BY <2>1 DEF GoodHint, comp
  <2>3. Rank[storage[p]] \in Int /\ Rank[storage[i]] \in Int /\ Rank[k] \in Int
    BY <2>1, SortedVectorAssumption DEF Typed
  <2>4. i = p \/ Rank[storage[p]] < Rank[storage[i]]
    BY <2>1 DEF InOrder, Ordered
  <2> QED BY <2>2, <2>3, <2>4
<1> QED BY <1>1, <1>2

\* insert(hint, value): the two neighbours of the place are enough.
LEMMA InsertHintKeepsOrder ==
  ASSUME Typed(storage), InOrder(storage),
         NEW k \in Key, NEW p \in Positions, InsertHint(p, k)
  PROVE  Typed(storage') /\ InOrder(storage')
<1>1. CASE ~GoodHint(p, k)
  BY <1>1, InsertValueKeepsOrder DEF InsertHint
<1>2. CASE GoodHint(p, k)
  <2>1. /\ \A i \in DOMAIN storage : i < p => Rank[storage[i]] < Rank[k]
        /\ \A i \in DOMAIN storage : i >= p => Rank[k] < Rank[storage[i]]
    BY <1>2, GoodHintSeparates
  <2>2. InsertInto(p, k)
    BY <1>2 DEF InsertHint
  <2> QED BY <2>1, <2>2, InsertKeepsOrder
<1> QED BY <1>1, <1>2

\* What sort_unique leaves is in order.
LEMMA SortUniqueOrders ==
  ASSUME NEW s \in Seq(Key), NEW t \in SortUnique(s)
  PROVE  Typed(t) /\ InOrder(t)
<1>1. t \in Seq(Key)
  BY BoundedIsSeq DEF SortUnique
<1> QED BY <1>1 DEF SortUnique, Typed, InOrder, Ordered, comp

----------------------------------------------------------------------------
(* The invariant *)

LEMMA Initially ==
  Init => IInv
<1> SUFFICES ASSUME Init PROVE IInv
  OBVIOUS
<1>1. PICK in \in Inputs : storage \in SortUnique(in) /\ todo = <<>>
  BY DEF Init
<1>2. in \in Seq(Key)
  BY BoundedIsSeq, SortedVectorAssumption DEF Inputs
<1> QED BY <1>1, <1>2, SortUniqueOrders DEF IInv, Typed

LEMMA Preserved ==
  ASSUME MoveCopies, SameOrder, IInv, [Next]_vars
  PROVE  IInv'
<1> USE DEF IInv
<1>1. CASE UNCHANGED vars
  BY <1>1 DEF vars, Typed, InOrder, Ordered
<1>2. ASSUME NEW k \in Key, Insert(k) PROVE IInv'
  BY <1>2, InsertValueKeepsOrder DEF Insert, Typed
<1>3. ASSUME NEW k \in Key, Emplace(k) PROVE IInv'
  <2>1. MovedFrom[k] = k
    BY DEF MoveCopies
  <2>2. PICK p \in Positions :
          /\ IsLowerBound(p, k)
          /\ \/ UNCHANGED storage
             \/ ~(p # End /\ equivalent(storage[p], k)) /\ InsertInto(p, k)
    BY <1>3, <2>1 DEF Emplace, EmplacedKey
  <2>3. Typed(todo')
    BY <1>3 DEF Emplace, Typed
  <2>4. CASE UNCHANGED storage
    BY <2>3, <2>4 DEF Typed, InOrder, Ordered
  <2>5. CASE ~(p # End /\ equivalent(storage[p], k)) /\ InsertInto(p, k)
    BY <2>2, <2>3, <2>5, InsertAtPlaceKeepsOrder
  <2> QED BY <2>2, <2>4, <2>5
<1>4. ASSUME NEW k \in Key, NEW p \in Positions, InsertHint(p, k) PROVE IInv'
  BY <1>4, InsertHintKeepsOrder DEF InsertHint, Typed
<1>5. ASSUME NEW in \in Inputs, Fill(in) PROVE IInv'
  <2>1. in \in Seq(Key)
    BY BoundedIsSeq, SortedVectorAssumption DEF Inputs
  <2> QED BY <1>5, <2>1, SortUniqueOrders DEF Fill, Typed
<1>6. ASSUME NEW in \in Inputs, InsertRange(in) PROVE IInv'
  <2>1. in \in Seq(Key)
    BY BoundedIsSeq, SortedVectorAssumption DEF Inputs
  <2> QED BY <1>6, <2>1 DEF InsertRange, Typed, InOrder, Ordered
<1>7. CASE InsertNext
  <2>1. Head(todo) \in Key /\ Tail(todo) \in Seq(Key)
    BY <1>7, HeadTailProperties DEF InsertNext, Typed
  <2> QED BY <1>7, <2>1, InsertValueKeepsOrder DEF InsertNext, Typed
<1>8. ASSUME NEW first \in Positions, NEW last \in Positions, EraseRange(first, last)
      PROVE  IInv'
  <2>1. first <= last
    BY <1>8 DEF EraseRange, Positions, End, Typed
  <2> QED BY <1>8, <2>1, EraseKeepsOrder DEF EraseRange, Typed
<1>9. CASE clear
  BY <1>9 DEF clear, Typed, InOrder, Ordered
<1>10. ASSUME NEW k \in Key, EraseKey(k) PROVE IInv'
  <2>1. PICK p \in Positions : IF p # End THEN storage' = Erased(storage, p, p + 1) ELSE UNCHANGED storage
    BY <1>10 DEF EraseKey
  <2>2. Typed(todo')
    BY <1>10 DEF EraseKey, Typed
  <2>3. CASE p # End
    <3>1. p + 1 \in Positions /\ p <= p + 1
      BY <2>3 DEF Positions, End, Typed
    <3> QED BY <2>1, <2>2, <2>3, <3>1, EraseKeepsOrder
  <2>4. CASE p = End
    BY <2>1, <2>2, <2>4 DEF Typed, InOrder, Ordered
  <2> QED BY <2>3, <2>4
<1>11. ASSUME NEW in \in Inputs, Assign(in) PROVE IInv'
  <2>1. in \in Seq(Key)
    BY BoundedIsSeq, SortedVectorAssumption DEF Inputs
  <2> QED BY <1>11, <2>1, SortUniqueOrders DEF Assign, Typed
<1>12. ASSUME NEW in \in Inputs, Swap(in) PROVE IInv'
  <2>1. in \in Seq(Key)
    BY BoundedIsSeq, SortedVectorAssumption DEF Inputs
  <2> QED BY <1>12, <2>1 DEF Swap, SameOrder, Typed, InOrder
<1>13. CASE MoveAway
  BY <1>13 DEF MoveAway, Typed, InOrder, Ordered
<1> QED BY <1>1, <1>2, <1>3, <1>4, <1>5, <1>6, <1>7, <1>8, <1>9, <1>10, <1>11,
           <1>12, <1>13
         DEF Next, NextButEraseKey

\* Every operation leaves the vector in strict order of its keys.
THEOREM StaysOrdered ==
  ASSUME MoveCopies, SameOrder
  PROVE  Spec => []IInv
<1>1. Init => IInv
  BY Initially
<1>2. IInv /\ [Next]_vars => IInv'
  BY Preserved
<1> QED BY <1>1, <1>2, PTL DEF Spec

\* validate(), the check of contiguous_test.cpp, never fails.
THEOREM NeverInvalid ==
  ASSUME MoveCopies, SameOrder
  PROVE  Spec => []AlwaysValid
<1>1. IInv => AlwaysValid
  <2> SUFFICES ASSUME IInv, NEW i \in 1 .. Len(storage) - 1
               PROVE  comp(storage[i], storage[i+1]) /\ ~comp(storage[i+1], storage[i])
    BY DEF AlwaysValid, validate, equivalent
  <2>1. i \in DOMAIN storage /\ i + 1 \in DOMAIN storage /\ i < i + 1
    BY DEF IInv, Typed
  <2>2. Rank[storage[i]] \in Int /\ Rank[storage[i+1]] \in Int
    BY <2>1, SortedVectorAssumption DEF IInv, Typed
  <2> QED BY <2>1, <2>2 DEF IInv, InOrder, Ordered, comp
<1> QED BY <1>1, StaysOrdered, PTL

----------------------------------------------------------------------------
(* The iterator insert returns *)

\* The property, of any moment: it does not wait for the end of a bulk insertion.
AtKey ==
  answer.op = "insert" /\ iterator # Null =>
    iterator \in DOMAIN storage /\ equivalent(storage[iterator], answer.key)

\* A key is at the place where it was inserted.
LEMMA InsertedIsThere ==
  ASSUME Typed(storage), NEW k \in Key, NEW p \in Positions, InsertInto(p, k)
  PROVE  p \in DOMAIN storage' /\ equivalent(storage'[p], k)
<1>1. storage \in Seq(Key) /\ p \in 1 .. Len(storage) + 1
  BY DEF Typed, Positions, End
<1>2. storage' \in Seq(Key) /\ IsInserted(storage', storage, p, k)
  BY <1>1, InsertAtElements DEF InsertInto
<1>3. Rank[k] \in Int
  BY SortedVectorAssumption
<1> QED BY <1>1, <1>2, <1>3 DEF IsInserted, equivalent, comp

\* So insert(value) returns an iterator to the key it inserted or to the one it found.
LEMMA InsertValueReturns ==
  ASSUME Typed(storage), NEW k \in Key, InsertValue(k)
  PROVE  AtKey'
<1>1. PICK p \in Positions :
        IF p # End /\ equivalent(storage[p], k)
        THEN UNCHANGED storage /\ answer'.key = k /\ iterator' = p
        ELSE InsertInto(p, k) /\ answer'.key = k /\ iterator' = p
  BY DEF InsertValue, Inserted, Answered
<1>2. CASE p # End /\ equivalent(storage[p], k)
  BY <1>1, <1>2 DEF AtKey, Positions, End, Typed, equivalent, comp
<1>3. CASE ~(p # End /\ equivalent(storage[p], k))
  BY <1>1, <1>3, InsertedIsThere DEF AtKey, equivalent, comp
<1> QED BY <1>2, <1>3

LEMMA ReturnsPreserved ==
  ASSUME IInv, AtKey, [Next]_vars
  PROVE  AtKey'
<1> USE DEF IInv
<1>1. CASE UNCHANGED vars
  BY <1>1 DEF vars, AtKey, equivalent, comp
<1>2. ASSUME NEW k \in Key, Insert(k) PROVE AtKey'
  BY <1>2, InsertValueReturns DEF Insert
<1>3. ASSUME NEW k \in Key, NEW p \in Positions, InsertHint(p, k) PROVE AtKey'
  <2>1. CASE ~GoodHint(p, k)
    BY <1>3, <2>1, InsertValueReturns DEF InsertHint
  <2>2. CASE GoodHint(p, k)
    <3>1. InsertInto(p, k) /\ answer'.key = k /\ iterator' = p
      BY <1>3, <2>2 DEF InsertHint, Inserted, Answered
    <3> QED BY <3>1, InsertedIsThere DEF AtKey, equivalent, comp
  <2> QED BY <2>1, <2>2
<1>4. CASE InsertNext
  <2>1. Head(todo) \in Key
    BY <1>4, HeadTailProperties DEF InsertNext, Typed
  <2> QED BY <1>4, <2>1, InsertValueReturns DEF InsertNext
<1>5. ASSUME NEW k \in Key, Emplace(k) PROVE AtKey'
  BY <1>5 DEF Emplace, Answered, AtKey
<1>6. ASSUME NEW in \in Inputs, Fill(in) \/ InsertRange(in) \/ Assign(in) \/ Swap(in)
      PROVE  AtKey'
  BY <1>6 DEF Fill, InsertRange, Assign, Swap, Answered, AtKey, equivalent, comp
<1>7. ASSUME NEW first \in Positions, NEW last \in Positions, EraseRange(first, last)
      PROVE  AtKey'
  BY <1>7 DEF EraseRange, Answered, AtKey
<1>8. ASSUME NEW k \in Key, EraseKey(k) PROVE AtKey'
  BY <1>8 DEF EraseKey, AtKey
<1>9. CASE clear \/ MoveAway
  BY <1>9 DEF clear, MoveAway, Answered, AtKey
<1> QED BY <1>1, <1>2, <1>3, <1>4, <1>5, <1>6, <1>7, <1>8, <1>9
         DEF Next, NextButEraseKey

\* The iterator insert returns is at the key, or an equivalent one, in the vector as it
\* is after the call, however often the vector moves.
THEOREM InsertReturns ==
  ASSUME MoveCopies, SameOrder
  PROVE  Spec => []InsertReturnsTheKey
<1>1. Init => AtKey
  BY DEF Init, AtKey
<1>2. IInv /\ AtKey /\ [Next]_vars => AtKey'
  BY ReturnsPreserved
<1>3. AtKey => InsertReturnsTheKey
  BY DEF AtKey, InsertReturnsTheKey, ReturnsTheKey
<1> QED BY <1>1, <1>2, <1>3, StaysOrdered, PTL DEF Spec

----------------------------------------------------------------------------
(* The set that clients see *)

\* The elements are those at the positions.
LEMMA RangeIs ==
  ASSUME NEW s, Typed(s)
  PROVE  /\ Range(s) \in SUBSET Key
         /\ \A e : e \in Range(s) <=> \E i \in 1 .. Len(s) : e = s[i]
<1>1. s \in Seq(Key) /\ DOMAIN s = 1 .. Len(s)
  BY DEF Typed
<1> QED BY <1>1, ElementOfSeq DEF Range

LEMMA RangeOfNothing == Range(<< >>) = {}
BY DEF Range

\* In order, no two of them are equivalent.
LEMMA OrderedIsDistinct ==
  ASSUME NEW s, Typed(s), InOrder(s)
  PROVE  Set!Distinct(Range(s))
<1> SUFFICES ASSUME NEW a \in Range(s), NEW b \in Range(s), Rank[a] = Rank[b]
             PROVE  a = b
  BY DEF Set!Distinct, Set!Equivalent
<1>1. PICK i \in 1 .. Len(s) : a = s[i]
  BY RangeIs
<1>2. PICK j \in 1 .. Len(s) : b = s[j]
  BY RangeIs
<1>3. Len(s) \in Nat /\ DOMAIN s = 1 .. Len(s)
  BY DEF Typed
<1>4. Rank[a] \in Int /\ Rank[b] \in Int
  BY RangeIs, SortedVectorAssumption
<1>5. ~(i < j) /\ ~(j < i)
  BY <1>1, <1>2, <1>3, <1>4 DEF InOrder, Ordered
<1> QED BY <1>1, <1>2, <1>3, <1>5

\* An insertion adds the key.
LEMMA InsertionAdds ==
  ASSUME Typed(storage), NEW k \in Key, NEW p \in Positions, InsertInto(p, k)
  PROVE  Range(storage') = Range(storage) \cup {k}
<1>1. storage \in Seq(Key) /\ p \in 1 .. Len(storage) + 1 /\ Len(storage) \in Nat
  BY DEF Typed, Positions, End
<1>2. /\ Typed(storage') /\ Len(storage') = Len(storage) + 1
      /\ \A i \in 1 .. p-1 : storage'[i] = storage[i]
      /\ storage'[p] = k
      /\ \A i \in p+1 .. Len(storage) + 1 : storage'[i] = storage[i-1]
  <2>1. storage' = InsertAt(storage, p, k)
    BY DEF InsertInto
  <2>2. Typed(storage')
    BY <1>1, <2>1, InsertAtElements DEF Typed
  <2>3. IsInserted(storage', storage, p, k)
    BY <1>1, <2>1, InsertAtElements
  <2> QED BY <2>2, <2>3 DEF IsInserted
<1>3. \A e : e \in Range(storage) <=> \E i \in 1 .. Len(storage) : e = storage[i]
  BY RangeIs
<1>4. \A e : e \in Range(storage') <=> \E i \in 1 .. Len(storage') : e = storage'[i]
  BY <1>2, RangeIs
<1>5. ASSUME NEW e \in Range(storage') PROVE e \in Range(storage) \cup {k}
  <2>1. PICK i \in 1 .. Len(storage) + 1 : e = storage'[i]
    BY <1>2, <1>4
  <2>2. CASE i < p
    <3>1. i \in 1 .. p-1 /\ i \in 1 .. Len(storage)
      BY <1>1, <2>2
    <3> QED BY <1>2, <1>3, <2>1, <3>1
  <2>3. CASE i = p
    BY <1>2, <2>1, <2>3
  <2>4. CASE i > p
    <3>1. i \in p+1 .. Len(storage) + 1 /\ i - 1 \in 1 .. Len(storage)
      BY <1>1, <2>4
    <3> QED BY <1>2, <1>3, <2>1, <3>1
  <2> QED BY <1>1, <2>2, <2>3, <2>4
<1>6. k \in Range(storage')
  <2>1. p \in 1 .. Len(storage')
    BY <1>1, <1>2
  <2> QED BY <1>2, <1>4, <2>1
<1>7. ASSUME NEW e \in Range(storage) PROVE e \in Range(storage')
  <2>1. PICK i \in 1 .. Len(storage) : e = storage[i]
    BY <1>3
  <2>2. CASE i < p
    <3>1. i \in 1 .. p-1 /\ i \in 1 .. Len(storage')
      BY <1>1, <1>2, <2>2
    <3> QED BY <1>2, <1>4, <2>1, <3>1
  <2>3. CASE i >= p
    <3>1. i + 1 \in p+1 .. Len(storage) + 1 /\ (i + 1) - 1 = i /\ i + 1 \in 1 .. Len(storage')
      BY <1>1, <1>2, <2>3
    <3>2. storage'[i + 1] = storage[i]
      BY <1>2, <3>1
    <3> QED BY <1>4, <2>1, <3>1, <3>2
  <2> QED BY <1>1, <2>2, <2>3
<1> QED BY <1>5, <1>6, <1>7

\* lower_bound finds an equivalent key where there is one.
LEMMA FoundIsPresent ==
  ASSUME Typed(storage), InOrder(storage), NEW k \in Key, NEW p \in Positions,
         IsLowerBound(p, k)
  PROVE  Set!Present(Range(storage), k) <=> p # End /\ equivalent(storage[p], k)
<1>1. /\ Len(storage) \in Nat /\ DOMAIN storage = 1 .. Len(storage)
      /\ p \in 1 .. Len(storage) + 1 /\ End = Len(storage) + 1
  BY DEF Typed, Positions, End
<1>2. \A i \in 1 .. Len(storage) : Rank[storage[i]] \in Int
  BY <1>1, SortedVectorAssumption, ElementOfSeq DEF Typed
<1>3. Rank[k] \in Int
  BY SortedVectorAssumption
<1>4. \A i \in 1 .. Len(storage) : Rank[storage[i]] < Rank[k] <=> i < p
  BY <1>1 DEF IsLowerBound, comp
<1>5. ASSUME Set!Present(Range(storage), k)
      PROVE  p # End /\ equivalent(storage[p], k)
  <2>1. PICK e \in Range(storage) : Rank[e] = Rank[k]
    BY <1>5 DEF Set!Present, Set!Equivalent
  <2>2. PICK i \in 1 .. Len(storage) : e = storage[i]
    BY RangeIs
  <2>3. i >= p /\ p \in 1 .. Len(storage)
    BY <1>1, <1>2, <1>3, <1>4, <2>1, <2>2
  <2>4. Rank[storage[p]] <= Rank[storage[i]]
    <3>1. CASE i = p
      BY <1>2, <2>2, <3>1
    <3>2. CASE p < i
      <4>1. Rank[storage[p]] < Rank[storage[i]]
        BY <1>1, <2>3, <3>2 DEF InOrder, Ordered
      <4> QED BY <1>2, <2>3, <4>1
    <3> QED BY <1>1, <2>3, <3>1, <3>2
  <2>5. ~(Rank[storage[p]] < Rank[k])
    BY <1>1, <1>4, <2>3
  <2> QED BY <1>1, <1>2, <1>3, <2>1, <2>2, <2>3, <2>4, <2>5 DEF equivalent, comp
<1>6. ASSUME p # End, equivalent(storage[p], k)
      PROVE  Set!Present(Range(storage), k)
  <2>1. p \in 1 .. Len(storage)
    BY <1>1, <1>6
  <2>2. Rank[storage[p]] = Rank[k]
    BY <1>2, <1>3, <1>6, <2>1 DEF equivalent, comp
  <2>3. storage[p] \in Range(storage)
    BY <2>1, RangeIs
  <2> QED BY <2>2, <2>3 DEF Set!Present, Set!Equivalent
<1> QED BY <1>5, <1>6

\* Insertion where lower_bound says is that of the set.
LEMMA InsertionIsOfSet ==
  ASSUME Typed(storage), InOrder(storage), NEW k \in Key, NEW p \in Positions, NEW op,
         IsLowerBound(p, k),
         IF p # End /\ equivalent(storage[p], k)
         THEN UNCHANGED storage /\ Answered(op, k, FALSE)
         ELSE InsertInto(p, k) /\ Answered(op, k, TRUE)
  PROVE  Set!Insert(op, k)
<1>1. Set!Present(Range(storage), k) <=> p # End /\ equivalent(storage[p], k)
  BY FoundIsPresent
<1>2. CASE p # End /\ equivalent(storage[p], k)
  <2>1. Set!Present(Range(storage), k) /\ UNCHANGED storage /\ Answered(op, k, FALSE)
    BY <1>1, <1>2
  <2> QED BY <2>1 DEF Set!Insert, Set!Answered, Answered
<1>3. CASE ~(p # End /\ equivalent(storage[p], k))
  <2>1. ~Set!Present(Range(storage), k) /\ InsertInto(p, k) /\ Answered(op, k, TRUE)
    BY <1>1, <1>3
  <2>2. Range(storage') = Range(storage) \cup {k}
    BY <2>1, InsertionAdds
  <2> QED BY <2>1, <2>2 DEF Set!Insert, Set!Answered, Answered
<1> QED BY <1>2, <1>3

LEMMA InsertValueIsOfSet ==
  ASSUME Typed(storage), InOrder(storage), NEW k \in Key, InsertValue(k)
  PROVE  Set!Insert("insert", k)
<1>1. PICK p \in Positions :
        /\ IsLowerBound(p, k)
        /\ IF p # End /\ equivalent(storage[p], k)
           THEN UNCHANGED storage /\ Answered("insert", k, FALSE)
           ELSE InsertInto(p, k) /\ Answered("insert", k, TRUE)
  BY DEF InsertValue
<1> QED BY <1>1, InsertionIsOfSet

\* So is insertion at a good hint, before which no equivalent key can be.
LEMMA InsertHintIsOfSet ==
  ASSUME Typed(storage), InOrder(storage), NEW k \in Key, NEW p \in Positions,
         InsertHint(p, k)
  PROVE  Set!Insert("insert", k)
<1>1. CASE ~GoodHint(p, k)
  BY <1>1, InsertValueIsOfSet DEF InsertHint
<1>2. CASE GoodHint(p, k)
  <2>1. InsertInto(p, k) /\ Answered("insert", k, TRUE)
    BY <1>2 DEF InsertHint
  <2>2. /\ \A i \in DOMAIN storage : i < p => Rank[storage[i]] < Rank[k]
        /\ \A i \in DOMAIN storage : i >= p => Rank[k] < Rank[storage[i]]
    BY <1>2, GoodHintSeparates
  <2>3. /\ p \in Int /\ DOMAIN storage = 1 .. Len(storage) /\ Len(storage) \in Nat
        /\ Rank[k] \in Int
    BY SortedVectorAssumption DEF Typed, Positions, End
  <2>4. ~Set!Present(Range(storage), k)
    <3> SUFFICES ASSUME NEW e \in Range(storage), Rank[e] = Rank[k] PROVE FALSE
      BY DEF Set!Present, Set!Equivalent
    <3>1. PICK i \in 1 .. Len(storage) : e = storage[i]
      BY RangeIs
    <3>2. i < p \/ i >= p
      BY <2>3
    <3> QED BY <2>2, <2>3, <3>1, <3>2
  <2>5. Range(storage') = Range(storage) \cup {k}
    BY <2>1, InsertionAdds
  <2> QED BY <2>1, <2>4, <2>5 DEF Set!Insert, Set!Answered, Answered
<1> QED BY <1>1, <1>2

\* What sort_unique leaves of some keys is one of each class.
LEMMA SortUniqueIsOfSet ==
  ASSUME NEW in \in Inputs, NEW t \in SortUnique(in)
  PROVE  /\ Range(in) \in SUBSET Key
         /\ Range(t) \in {S \in SUBSET Range(in) : Set!Distinct(S)}
         /\ \A k \in Range(in) : Set!Present(Range(t), k)
<1>1. in \in Seq(Key)
  BY BoundedIsSeq, SortedVectorAssumption DEF Inputs
<1>2. Typed(t) /\ InOrder(t) /\ Typed(in)
  BY <1>1, SortUniqueOrders DEF Typed
<1>3. Range(in) \in SUBSET Key /\ Set!Distinct(Range(t))
  BY <1>2, RangeIs, OrderedIsDistinct
<1>4. Range(t) \subseteq Range(in)
  BY DEF SortUnique
<1>5. ASSUME NEW k \in Range(in) PROVE Set!Present(Range(t), k)
  <2>1. PICK i \in DOMAIN t : equivalent(t[i], k)
    BY DEF SortUnique
  <2>2. t[i] \in Range(t)
    BY DEF Range
  <2>3. t[i] \in Key /\ k \in Key
    BY <1>2, <1>3, <2>2, RangeIs
  <2>4. Rank[t[i]] \in Int /\ Rank[k] \in Int
    BY <2>3, SortedVectorAssumption
  <2>5. Rank[t[i]] = Rank[k]
    BY <2>1, <2>4 DEF equivalent, comp
  <2> QED BY <2>2, <2>5 DEF Set!Present, Set!Equivalent
<1> QED BY <1>3, <1>4, <1>5

\* Erasure of a range takes the keys between its ends.
LEMMA EraseRangeIsOfSet ==
  ASSUME Typed(storage), InOrder(storage), NEW first \in Positions, NEW last \in Positions,
         EraseRange(first, last)
  PROVE  \E low, high \in Range(storage) : Set!EraseBetween(low, high)
<1> DEFINE n == Len(storage)
           low == storage[first]
           high == storage[last-1]
           m == n - (last - first)
<1>0. /\ first < last /\ storage' = Erased(storage, first, last)
      /\ Answered("erase_range", {low, high}, TRUE)
  BY DEF EraseRange
<1>1. /\ storage \in Seq(Key) /\ n \in Nat /\ DOMAIN storage = 1 .. n
      /\ first \in 1 .. n /\ last \in 2 .. n + 1 /\ last - 1 \in 1 .. n
  BY <1>0 DEF Typed, Positions, End
<1>2. /\ storage' \in Seq(Key) /\ Len(storage') = m
      /\ \A i \in 1 .. m : i < first => i \in 1 .. n /\ storage'[i] = storage[i]
      /\ \A i \in 1 .. m : i >= first =>
           i + (last - first) \in 1 .. n /\ storage'[i] = storage[i + (last - first)]
  <2>1. /\ storage \in Seq(Key) /\ first <= last
        /\ first \in 1 .. Len(storage) + 1 /\ last \in 1 .. Len(storage) + 1
    BY <1>0, <1>1
  <2>2. storage' \in Seq(Key) /\ IsErased(storage', storage, first, last)
    BY <1>0, <2>1, ErasedElements
  <2> QED BY <2>2 DEF IsErased
<1>3. \A e : e \in Range(storage) <=> \E i \in 1 .. n : e = storage[i]
  BY RangeIs
<1>4. \A e : e \in Range(storage') <=> \E i \in 1 .. m : e = storage'[i]
  BY <1>2, RangeIs DEF Typed
<1>5. \A i \in 1 .. n : Rank[storage[i]] \in Int
  BY <1>1, SortedVectorAssumption, ElementOfSeq
<1>6. \A i, j \in 1 .. n : i < j => Rank[storage[i]] < Rank[storage[j]]
  BY <1>1 DEF InOrder, Ordered
<1> HIDE DEF n, low, high, m
<1>7. ASSUME NEW e \in Range(storage')
      PROVE  e \in Range(storage) /\ (Rank[e] < Rank[low] \/ Rank[e] > Rank[high])
  <2>1. PICK i \in 1 .. m : e = storage'[i]
    BY <1>4
  <2>2. m \in Int
    BY <1>1 DEF m
  <2>3. CASE i < first
    <3>1. i \in 1 .. n /\ e = storage[i]
      BY <1>2, <2>1, <2>3
    <3> QED BY <1>1, <1>3, <1>6, <2>3, <3>1 DEF low
  <2>4. CASE i >= first
    <3> DEFINE j == i + (last - first)
    <3>1. j \in 1 .. n /\ e = storage[j]
      BY <1>2, <2>1, <2>4
    <3>2. last - 1 < j
      BY <1>1, <2>2, <2>4
    <3> HIDE DEF j
    <3>3. Rank[high] < Rank[e]
      BY <1>1, <1>6, <3>1, <3>2 DEF high
    <3>4. Rank[high] \in Int /\ Rank[e] \in Int
      BY <1>1, <1>5, <3>1 DEF high
    <3> QED BY <1>3, <3>1, <3>3, <3>4
  <2> QED BY <1>1, <2>2, <2>3, <2>4
<1>8. ASSUME NEW e \in Range(storage), Rank[e] < Rank[low] \/ Rank[e] > Rank[high]
      PROVE  e \in Range(storage')
  <2>1. PICK j \in 1 .. n : e = storage[j]
    BY <1>3
  <2>2. Rank[e] \in Int /\ Rank[low] \in Int /\ Rank[high] \in Int
    BY <1>1, <1>5, <2>1 DEF low, high
  <2>3. CASE j < first
    <3>1. j \in 1 .. m
      BY <1>1, <2>3 DEF m
    <3> QED BY <1>2, <1>4, <2>1, <2>3, <3>1
  <2>4. CASE j >= last
    <3> DEFINE i == j - (last - first)
    <3>1. i \in 1 .. m /\ i >= first /\ i + (last - first) = j
      BY <1>1, <2>4 DEF m
    <3> HIDE DEF i
    <3>2. storage'[i] = storage[j]
      BY <1>2, <3>1
    <3> QED BY <1>4, <2>1, <3>1, <3>2
  <2>5. CASE first <= j /\ j <= last - 1
    <3>1. j = first \/ first < j
      BY <1>1, <2>5
    <3>2. Rank[low] <= Rank[e]
      BY <1>1, <1>6, <2>1, <2>2, <3>1 DEF low
    <3>3. j = last - 1 \/ j < last - 1
      BY <1>1, <2>5
    <3>4. Rank[e] <= Rank[high]
      BY <1>1, <1>6, <2>1, <2>2, <3>3 DEF high
    <3> QED BY <1>8, <2>2, <3>2, <3>4
  <2> QED BY <1>1, <2>3, <2>4, <2>5
<1>9. Range(storage') = {e \in Range(storage) : Rank[e] < Rank[low] \/ Rank[e] > Rank[high]}
  BY <1>7, <1>8
<1>10. low \in Range(storage) /\ high \in Range(storage)
  BY <1>1, <1>3 DEF low, high
<1>11. Set!EraseBetween(low, high)
  BY <1>0, <1>9 DEF Set!EraseBetween, Set!Answered, Answered
<1> QED BY <1>10, <1>11

LEMMA NextIsOfSet ==
  ASSUME MoveCopies, SameOrder, IInv, [Next]_vars
  PROVE  [Set!Next \/ \E k \in Key : EraseKey(k)]_(Set!vars)
<1>0. Typed(storage) /\ InOrder(storage) /\ Typed(todo)
  BY DEF IInv
<1> DEFINE Step == Set!Next \/ (\E k \in Key : EraseKey(k)) \/ UNCHANGED Set!vars
<1>1. CASE UNCHANGED vars
  BY <1>1 DEF vars, Set!vars
<1>2. ASSUME NEW k \in Key, Insert(k) PROVE Step
  <2>1. Set!Insert("insert", k)
    BY <1>0, <1>2, InsertValueIsOfSet DEF Insert
  <2> QED BY <2>1 DEF Set!Next
<1>3. ASSUME NEW k \in Key, Emplace(k) PROVE Step
  <2>1. PICK p \in Positions :
          /\ IsLowerBound(p, k)
          /\ IF p # End /\ equivalent(storage[p], k)
             THEN UNCHANGED storage /\ Answered("emplace", k, FALSE)
             ELSE InsertInto(p, k) /\ Answered("emplace", k, TRUE)
    BY <1>3 DEF Emplace, EmplacedKey, MoveCopies
  <2>2. Set!Insert("emplace", k)
    BY <1>0, <2>1, InsertionIsOfSet
  <2> QED BY <2>2 DEF Set!Next
<1>4. ASSUME NEW k \in Key, NEW p \in Positions, InsertHint(p, k) PROVE Step
  <2>1. Set!Insert("insert", k)
    BY <1>0, <1>4, InsertHintIsOfSet
  <2> QED BY <2>1 DEF Set!Next
<1>5. ASSUME NEW in \in Inputs, Fill(in) PROVE Step
  <2>1. Set!Fill("fill", Range(in)) /\ Range(in) \in SUBSET Key
    BY <1>5, SortUniqueIsOfSet, RangeOfNothing
       DEF Fill, Set!Fill, Set!Answered, Answered
  <2> QED BY <2>1 DEF Set!Next
<1>6. ASSUME NEW in \in Inputs, InsertRange(in) PROVE Step
  BY <1>6 DEF InsertRange, Set!vars
<1>7. CASE InsertNext
  <2>1. Head(todo) \in Key /\ InsertValue(Head(todo))
    BY <1>0, <1>7, HeadTailProperties DEF InsertNext, Typed
  <2>2. Set!Insert("insert", Head(todo))
    BY <1>0, <2>1, InsertValueIsOfSet
  <2> QED BY <2>1, <2>2 DEF Set!Next
<1>8. ASSUME NEW first \in Positions, NEW last \in Positions, EraseRange(first, last)
      PROVE  Step
  BY <1>0, <1>8, EraseRangeIsOfSet DEF Set!Next
<1>9. CASE clear \/ MoveAway
  <2>1. Set!Clear
    BY <1>9, RangeOfNothing DEF clear, MoveAway, Set!Clear, Set!Answered, Answered
  <2> QED BY <2>1 DEF Set!Next
<1>10. ASSUME NEW in \in Inputs, Assign(in) PROVE Step
  <2>1. Set!Fill("assign", Range(in)) /\ Range(in) \in SUBSET Key
    BY <1>10, SortUniqueIsOfSet DEF Assign, Set!Fill, Set!Answered, Answered
  <2> QED BY <2>1 DEF Set!Next
<1>11. ASSUME NEW in \in Inputs, Swap(in) PROVE Step
  <2>1. Typed(in) /\ InOrder(in) /\ storage' = in /\ Answered("assign", Range(in), TRUE)
    BY <1>11, BoundedIsSeq, SortedVectorAssumption
       DEF Swap, SameOrder, InOrder, Typed, Inputs
  <2>2. Range(in) \in SUBSET Key /\ Set!Distinct(Range(in))
    BY <2>1, RangeIs, OrderedIsDistinct
  <2>3. \A k \in Range(in) : Set!Present(Range(in), k)
    BY DEF Set!Present, Set!Equivalent
  <2>4. Set!Fill("assign", Range(in))
    BY <2>1, <2>2, <2>3 DEF Set!Fill, Set!Answered, Answered
  <2> QED BY <2>2, <2>4 DEF Set!Next
<1>12. ASSUME NEW k \in Key, EraseKey(k) PROVE Step
  BY <1>12
<1> QED BY <1>1, <1>2, <1>3, <1>4, <1>5, <1>6, <1>7, <1>8, <1>9, <1>10, <1>11, <1>12
        DEF Next, NextButEraseKey

\* To its client the vector is a set of keys: every call but erase(key), whose search is
\* turned round, changes the elements and answers as that of a set does.
THEOREM IsSetButEraseKey ==
  ASSUME MoveCopies, SameOrder
  PROVE  Spec => ImplementsSetButEraseKey
<1>1. Init => Set!Init
  <2> SUFFICES ASSUME Init PROVE Set!Init
    OBVIOUS
  <2>1. PICK in \in Inputs :
          storage \in SortUnique(in) /\ answer = [op |-> "none", key |-> Range(in), done |-> TRUE]
    BY DEF Init
  <2>2. /\ Range(in) \in SUBSET Key
        /\ Range(storage) \in {S \in SUBSET Range(in) : Set!Distinct(S)}
    BY <2>1, SortUniqueIsOfSet
  <2> QED BY <2>1, <2>2 DEF Set!Init
<1>2. IInv /\ [Next]_vars => [Set!Next \/ \E k \in Key : EraseKey(k)]_(Set!vars)
  BY NextIsOfSet
<1> QED BY <1>1, <1>2, StaysOrdered, PTL DEF Spec, ImplementsSetButEraseKey
=============================================================================
