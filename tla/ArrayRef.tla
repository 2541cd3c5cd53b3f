------------------------------- MODULE ArrayRef -------------------------------
(***************************************************************************)
(* array_ref of cxx14/array_ref.h: a pointer and a length that stand for a  *)
(* part of an array owned elsewhere.  Places are counted from the array's   *)
(* first element; lengths are of SizeBits bits.                             *)
(***************************************************************************)
EXTENDS Integers

CONSTANTS
  N,          \* elements of the array
  SizeBits,   \* width of size_type
  Lengths     \* the lengths its client slices with, the default one -1 or not

ArrayRefAssumption ==
  /\ N \in Nat /\ SizeBits \in Nat /\ N < 2 ^ SizeBits - 1
  /\ Lengths \subseteq 0 .. 2 ^ SizeBits - 1

VARIABLES
  start, len,   \* the members
  from, end,    \* the client's: what it asked the reference to stand for
  rest          \* it came of a slice without a length, "the whole string"

vars == <<start, len, from, end, rest>>

Wrap(n) == n % 2 ^ SizeBits
minusOne == Wrap(-1)

\* array_ref(), and clear()
Init == start = 0 /\ len = 0 /\ from = 0 /\ end = 0 /\ rest = FALSE

clear == start' = 0 /\ len' = 0 /\ from' = 0 /\ end' = 0 /\ rest' = FALSE

\* array_ref(data, length) and array_ref(data, end): the array, an element, or a range
Refer(a, b) ==
  /\ start' = a /\ len' = b - a
  /\ from' = a /\ end' = b /\ rest' = FALSE

\* Mutant of SliceLength: n is taken for the index of the end.
SliceLengthEnd(pos, n) == IF n = minusOne THEN n ELSE Wrap(n - pos)

\* slice(pos, n), assigned: n is used only to be compared with -1.
SliceLength(pos, n) == IF n = minusOne THEN n ELSE Wrap(len - pos)

\* slice(pos, n) as its client understands it, with n elements or, for -1, the rest
slice(pos, n) ==
  /\ pos <= end - from
  /\ n = minusOne \/ pos + n <= end - from
  /\ start' = start + pos /\ len' = SliceLength(pos, n)
  /\ from' = from + pos /\ end' = IF n = minusOne THEN end ELSE from + pos + n
  /\ rest' = (rest \/ n = minusOne)

\* Mutant of remove_prefix: the length is forgotten.
remove_prefix_only(n) ==
  /\ n <= end - from
  /\ start' = start + n /\ from' = from + n
  /\ UNCHANGED <<len, end, rest>>

\* remove_prefix, and with n = 1 pop_front
remove_prefix(n) ==
  /\ n <= end - from
  /\ start' = start + n /\ len' = Wrap(len - n)
  /\ from' = from + n /\ UNCHANGED <<end, rest>>

\* remove_suffix, and with n = 1 pop_back
remove_suffix(n) ==
  /\ n <= end - from
  /\ len' = Wrap(len - n) /\ end' = end - n
  /\ UNCHANGED <<start, from, rest>>

Next ==
  \/ clear
  \/ \E a \in 0 .. N : \E b \in a .. N : Refer(a, b)
  \/ \E pos \in 0 .. N : \E n \in Lengths : slice(pos, n)
  \/ \E n \in 0 .. N : remove_prefix(n) \/ remove_suffix(n)

Spec == Init /\ [][Next]_vars

\* The indices that at(idx) does not throw for; operator[] takes any.
Accepted(idx) == idx < len

\* The places that front() and back() read.
front == start
back == start + Wrap(len - 1)

----------------------------------------------------------------------------
(* Properties *)

\* What at(idx) does not throw for is an element of the array; of the whole rest of it,
\* "If n == -1, it's the whole string" (array_ref.h:69), as of any other part.
AtAlwaysStaysInArray == \A idx \in 0 .. minusOne : Accepted(idx) => start + idx \in 0 .. N - 1

\* It is after any slices that give a length, and removals, and so are front and back.
AtStaysInArray ==
  ~rest => /\ AtAlwaysStaysInArray
           /\ len > 0 => {front, back} \subseteq 0 .. N - 1

\* Every element that the client meant the reference to stand for is there, at its
\* index, after any slices and removals.  (A slice of n elements shows all the rest.)
ShowsWhatWasAsked ==
  /\ start = from
  /\ \A i \in 0 .. end - from - 1 : Accepted(i)

=============================================================================
