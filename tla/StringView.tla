------------------------------ MODULE StringView ------------------------------
(***************************************************************************)
(* basic_string_view of cxx14/string_view.h.  The members that              *)
(* cxx14/string_ref.h has too are the same text there, with start and len   *)
(* for data_ and size_: they are those of module StringRef.  Added here is  *)
(* what a view shows: its elements, its iterators, its string.  compare,    *)
(* substr and the members over sets of characters do not compile.           *)
(***************************************************************************)
EXTENDS Integers, SequencesExt

CONSTANTS Chars, MaxText, AddressBits, Base   \* see StringRef

VARIABLES
  text,          \* the text that the client keeps alive
  data_, size_   \* the two members

Ref == INSTANCE StringRef WITH start <- data_, len <- size_

StringViewAssumption == Ref!StringRefAssumption

vars == <<text, data_, size_>>

Init == Ref!Init
View(t) == Ref!View(t)
clear == Ref!clear
remove_prefix(n) == Ref!remove_prefix(n)
remove_suffix(n) == Ref!remove_suffix(n)

Next ==
  \/ \E t \in Ref!Texts : View(t)
  \/ clear
  \/ \E n \in 0 .. MaxText : remove_prefix(n) \/ remove_suffix(n)

Spec == Init /\ [][Next]_vars

\* Searches
rfind(c) == Ref!rfind(c)
find(c) == Ref!find(c)
find_last_not_of(c) == Ref!find_last_not_of(c)
find_first_not_of(c) == Ref!find_first_not_of(c)
starts_with(w) == Ref!starts_with(w)

\* Elements.  What is read beyond the text is no character of it.
Read(p) == IF p \in Ref!Readable THEN Ref!At(p) ELSE Ref!outside

throws == -2

\* Mutant of at: the index may be the size.
at_loose(i) == IF i > size_ THEN throws ELSE Read(data_ + i)

at(i) == IF i >= size_ THEN throws ELSE Read(data_ + i)
front == Read(data_)
back == Read(data_ + size_)

\* What a loop from begin() to end() visits: end() returns data_ too.
Visited == data_ .. data_ - 1

\* str() and the conversions to a string
str == SubSeq(text, data_ - Base + 1, data_ - Base + size_)

----------------------------------------------------------------------------
(* Properties *)

\* After any removals at accepts the indices of the string viewed and gives its
\* characters, and so does front; str gives the string.
ElementsAgree ==
  data_ # Ref!null =>
    /\ \A i \in 0 .. MaxText :
         at(i) = IF i < size_ THEN str[i + 1] ELSE throws
    /\ size_ > 0 => front = Head(str)
    /\ str = Ref!Viewed

\* The element back gives, of a view that is not empty, is its last one.
BackIsLast == size_ > 0 => back = Last(str)

\* A loop over the view visits each of its characters.
LoopsVisitAll == Cardinality(Visited) = size_

=============================================================================
