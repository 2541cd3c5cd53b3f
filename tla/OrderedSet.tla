----------------------------- MODULE OrderedSet -----------------------------
(***************************************************************************)
(* What a set of keys under a strict weak order promises: no two equivalent *)
(* keys, insertion keeps the key that is there, erasure takes what it was   *)
(* asked to take, and the caller is told what happened.                     *)
(***************************************************************************)
EXTENDS Integers

CONSTANTS Key, Rank   \* the order of the keys is that of their ranks

VARIABLES
  elements,
  answer     \* the last call of the client and what it did

vars == <<elements, answer>>

Equivalent(a, b) == Rank[a] = Rank[b]
Present(S, k) == \E e \in S : Equivalent(e, k)
Distinct(S) == \A a, b \in S : Equivalent(a, b) => a = b

Answered(op, k, done) == answer' = [op |-> op, key |-> k, done |-> done]

Init ==
  /\ elements \in {S \in SUBSET Key : Distinct(S)}
  /\ answer \in {[op |-> "none", key |-> K, done |-> TRUE] : K \in SUBSET Key}

Insert(op, k) ==
  /\ elements' = IF Present(elements, k) THEN elements ELSE elements \cup {k}
  /\ Answered(op, k, ~Present(elements, k))

\* The set gets one key of each class of keys that occurs in K: an empty one if it is
\* filled, any if it is assigned to.
Fill(op, K) ==
  /\ op = "fill" => elements = {}
  /\ elements' \in {S \in SUBSET K : Distinct(S)}
  /\ \A k \in K : Present(elements', k)
  /\ Answered(op, K, TRUE)

EraseKey(k) ==
  /\ elements' = {e \in elements : ~Equivalent(e, k)}
  /\ Answered("erase", k, Present(elements, k))

\* Erasure of the keys from position to position.
EraseBetween(low, high) ==
  /\ elements' = {e \in elements : Rank[e] < Rank[low] \/ Rank[e] > Rank[high]}
  /\ Answered("erase_range", {low, high}, TRUE)

Clear == elements' = {} /\ Answered("erase_range", {}, TRUE)

Next ==
  \/ \E k \in Key : Insert("insert", k) \/ Insert("emplace", k) \/ EraseKey(k)
  \/ \E K \in SUBSET Key : Fill("fill", K) \/ Fill("assign", K)
  \/ \E low, high \in elements : EraseBetween(low, high)
  \/ Clear

Spec == Init /\ [][Next]_vars
=============================================================================
