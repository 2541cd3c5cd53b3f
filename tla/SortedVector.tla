---------------------------- MODULE SortedVector ----------------------------
(***************************************************************************)
(* The sorted vector of ADT/sorted_vector.h (contiguous_set is another name *)
(* for it): a set kept as a std::vector without equivalent keys, in order.  *)
(* Iterators are positions in the vector, or dangle when it has grown since.*)
(* A bulk insertion into a vector that is not empty is one step per key.    *)
(* One thread.                                                              *)
(*                                                                         *)
(* The insertions with a hint have no return statement: the model is of a   *)
(* build whose functions end there all the same, and of callers that ignore *)
(* what they return.                                                        *)
(***************************************************************************)
EXTENDS Integers, SequencesExt

CONSTANTS
  Key,        \* keys
  Rank,       \* comp(a, b) is Rank[a] < Rank[b]; equivalent keys may differ
  OtherRank,  \* the same for another vector of the same type
  MovedFrom,  \* what a key is after its value was moved away
  MaxBulk,    \* bound: keys of a bulk insertion
  MaxSpare,   \* bound: elements a growing vector gets room for beyond its need
  Dangling,   \* an iterator into a buffer the vector has left
  Null        \* no iterator

ASSUME SortedVectorAssumption ==
  /\ {Rank, OtherRank} \subseteq [Key -> Int] /\ MovedFrom \in [Key -> Key]
  /\ MaxBulk \in Nat /\ MaxSpare \in Nat

VARIABLES
  storage,   \* the vector
  capacity,  \* its capacity
  todo,      \* keys the bulk insertion under way has still to insert
  answer,    \* the last call of the client and what it did
  iterator   \* what the last insertion or emplacement returned

vars == <<storage, capacity, todo, answer, iterator>>

Inputs == BoundedSeq(Key, MaxBulk)
End == Len(storage) + 1
Positions == 1 .. End

comp(a, b) == Rank[a] < Rank[b]
equivalent(a, b) == ~comp(a, b) /\ ~comp(b, a)

\* std::lower_bound: the elements before position p, and no others, are less.
IsLowerBound(p, k) ==
  \A i \in DOMAIN storage : comp(storage[i], k) <=> i < p

\* Sorted, and no two neighbours equivalent.
validate(s) ==
  /\ \A i \in 1 .. Len(s) - 1 : ~comp(s[i+1], s[i])
  /\ \A i \in 1 .. Len(s) - 1 : ~equivalent(s[i], s[i+1])

\* What sort_unique may make of the sequence s: std::sort is not stable, so any
\* key of a class may be the one that stays.
SortUnique(s) ==
  {t \in BoundedSeq(Key, Len(s)) :
    /\ \A i, j \in DOMAIN t : i < j => comp(t[i], t[j])
    /\ Range(t) \subseteq Range(s)
    /\ \A k \in Range(s) : \E i \in DOMAIN t : equivalent(t[i], k)}

\* The vector moves when n keys are more than it has room for.
Moves(n) == n > capacity
Room(n) == IF Moves(n) THEN capacity' \in n .. n + MaxSpare ELSE UNCHANGED capacity

Answered(op, k, done) == answer' = [op |-> op, key |-> k, done |-> done]

\* The constructors from a range, from a list, and from nothing.
Init ==
  \E in \in Inputs :
    /\ storage \in SortUnique(in) /\ capacity = Len(in)
    /\ todo = <<>> /\ iterator = Null
    /\ answer = [op |-> "none", key |-> Range(in), done |-> TRUE]

----------------------------------------------------------------------------
(* Insertion *)

\* storage.insert or storage.emplace at position p.
InsertInto(p, k) ==
  storage' = InsertAt(storage, p, k) /\ Room(Len(storage) + 1)

\* What an iterator to position p, from before an insertion, is after it.
Kept(p) == IF Moves(Len(storage) + 1) THEN Dangling ELSE p

\* Mutant of Inserted: the iterator lower_bound gave is returned.
InsertedBefore(p) == Kept(p)

\* The iterator storage.insert returns.
Inserted(p) == p

\* insert(value)
InsertValue(k) ==
  \E p \in Positions :
    /\ IsLowerBound(p, k)
    /\ IF p # End /\ equivalent(storage[p], k)
       THEN /\ UNCHANGED <<storage, capacity>>
            /\ Answered("insert", k, FALSE)
            /\ iterator' = p
       ELSE /\ InsertInto(p, k)
            /\ Answered("insert", k, TRUE)
            /\ iterator' = Inserted(p)

Insert(k) == todo = <<>> /\ InsertValue(k) /\ UNCHANGED todo

\* Mutant of GoodHint: the key after the hint may be equivalent.
GoodHintLoose(p, k) ==
  /\ p # 1 => comp(storage[p-1], k)
  /\ p # End => ~comp(storage[p], k)

\* good_hint
GoodHint(p, k) ==
  /\ p # 1 => comp(storage[p-1], k)
  /\ p # End => comp(k, storage[p])

\* insert(hint, value).  It has no return statement: iterator is what the insertion
\* inside it gives.
InsertHint(p, k) ==
  /\ todo = <<>>
  /\ IF GoodHint(p, k)
     THEN /\ InsertInto(p, k)
          /\ Answered("insert", k, TRUE)
          /\ iterator' = Inserted(p)
     ELSE InsertValue(k)
  /\ UNCHANGED todo

\* insert(first, last) into an empty vector.
Fill(in) ==
  /\ todo = <<>> /\ storage = <<>>
  /\ storage' \in SortUnique(in) /\ Room(Len(in))
  /\ Answered("fill", Range(in), TRUE) /\ iterator' = Null
  /\ UNCHANGED todo

\* insert(first, last) into another one makes room ...
InsertRange(in) ==
  /\ todo = <<>> /\ storage # <<>>
  /\ todo' = in /\ Room(Len(in) + Len(storage))
  /\ UNCHANGED <<storage, answer, iterator>>

\* ... and inserts key by key.
InsertNext ==
  /\ todo # <<>> /\ InsertValue(Head(todo))
  /\ todo' = Tail(todo)

\* emplace makes a temporary of its arguments to look for the place, and then the
\* element of the same arguments, whose values may have moved into the temporary.
EmplacedKey(k) == MovedFrom[k]

\* emplace, and emplace_hint, which ignores its hint.
Emplace(k) ==
  /\ todo = <<>>
  /\ \E p \in Positions :
       /\ IsLowerBound(p, k)
       /\ IF p # End /\ equivalent(storage[p], k)
          THEN /\ UNCHANGED <<storage, capacity>>
               /\ Answered("emplace", k, FALSE)
               /\ iterator' = p
          ELSE /\ InsertInto(p, EmplacedKey(k))
               /\ Answered("emplace", k, TRUE)
               /\ iterator' = Kept(p)
  /\ UNCHANGED todo

----------------------------------------------------------------------------
(* Erasure *)

\* find as the code has it: comp(key, *I) where the negation is meant.
IsFound(p, k) ==
  \E lower \in Positions :
    /\ IsLowerBound(lower, k)
    /\ p = IF lower = End \/ comp(k, storage[lower]) THEN lower ELSE End

\* Mutant of Erased: the element at the end of the range goes too.
ErasedThrough(s, first, last) ==
  SubSeq(s, 1, first - 1) \o SubSeq(s, last + 1, Len(s))

\* storage.erase(first, last)
Erased(s, first, last) == SubSeq(s, 1, first - 1) \o SubSeq(s, last, Len(s))

\* erase(first, last) and erase(pos).
EraseRange(first, last) ==
  /\ todo = <<>> /\ first < last
  /\ storage' = Erased(storage, first, last)
  /\ Answered("erase_range", {storage[first], storage[last-1]}, TRUE)
  /\ iterator' = Null
  /\ UNCHANGED <<capacity, todo>>

\* erase(key)
EraseKey(k) ==
  /\ todo = <<>>
  /\ \E p \in Positions :
       /\ IsFound(p, k)
       /\ IF p # End
          THEN storage' = Erased(storage, p, p + 1) /\ Answered("erase", k, TRUE)
          ELSE UNCHANGED storage /\ Answered("erase", k, FALSE)
  /\ iterator' = Null
  /\ UNCHANGED <<capacity, todo>>

clear ==
  /\ todo = <<>> /\ storage' = <<>>
  /\ Answered("erase_range", {}, TRUE) /\ iterator' = Null
  /\ UNCHANGED <<capacity, todo>>

----------------------------------------------------------------------------
(* Other vectors *)

\* Assignment of a list of keys (which lacks its return, like the hinted insertions).
Assign(in) ==
  /\ todo = <<>>
  /\ storage' \in SortUnique(in) /\ Room(Len(in))
  /\ Answered("assign", Range(in), TRUE) /\ iterator' = Null
  /\ UNCHANGED todo

\* What swap takes from another vector: the keys.  Each keeps its comparison.
Ordered(s, rank) == \A i, j \in DOMAIN s : i < j => rank[s[i]] < rank[s[j]]
Swap(in) ==
  /\ todo = <<>> /\ Ordered(in, OtherRank)
  /\ storage' = in /\ capacity' \in Len(in) .. Len(in) + MaxSpare
  /\ Answered("assign", Range(in), TRUE) /\ iterator' = Null
  /\ UNCHANGED todo

\* The vector is moved from, and may be used again.
MoveAway ==
  /\ todo = <<>>
  /\ storage' = <<>> /\ capacity' = 0
  /\ Answered("erase_range", {}, TRUE) /\ iterator' = Null
  /\ UNCHANGED todo

NextButEraseKey ==
  \/ \E in \in Inputs : Assign(in) \/ Swap(in)
  \/ MoveAway
  \/ \E k \in Key : Insert(k) \/ Emplace(k)
  \/ \E k \in Key, p \in Positions : InsertHint(p, k)
  \/ \E in \in Inputs : Fill(in) \/ InsertRange(in)
  \/ InsertNext
  \/ \E first, last \in Positions : EraseRange(first, last)
  \/ clear

Next == NextButEraseKey \/ \E k \in Key : EraseKey(k)

Spec == Init /\ [][Next]_vars

----------------------------------------------------------------------------
(* Properties *)

\* validate(), which contiguous_test.cpp calls after every operation, is true.
AlwaysValid == validate(storage)

\* The iterator insert returns does not dangle: it is at the key, or an equivalent
\* one, in the vector as it is after the call.
ReturnsTheKey(op) ==
  answer.op = op /\ iterator # Null /\ todo = <<>> =>
    iterator \in DOMAIN storage /\ equivalent(storage[iterator], answer.key)
InsertReturnsTheKey == ReturnsTheKey("insert")

\* The same of emplace.
EmplaceReturnsTheKey == ReturnsTheKey("emplace")

\* The vector is a set: every call changes its contents as it does those of a
\* set, and answers the same.
Set == INSTANCE OrderedSet WITH elements <- Range(storage)
ImplementsSet == Set!Spec

\* All calls but erase(key), whose search is turned round, do so.
ImplementsSetButEraseKey ==
  /\ Set!Init
  /\ [][Set!Next \/ \E k \in Key : EraseKey(k)]_(Set!vars)

=============================================================================
