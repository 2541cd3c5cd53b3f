------------------------------ MODULE StringRef ------------------------------
(***************************************************************************)
(* basic_string_ref of cxx14/string_ref.h: a pointer into a text and a      *)
(* length, narrowed by the mutators, with the searches for a character and  *)
(* for a word.  Pointers are addresses of AddressBits bits, so that the     *)
(* arithmetic on a null one is that of the machine.  find(word) is KMP.     *)
(***************************************************************************)
EXTENDS Integers, SequencesExt

CONSTANTS
  Chars,        \* characters
  MaxText,      \* bound: the length of texts
  AddressBits,  \* width of a pointer and of size_type
  Base          \* address of the text viewed

\* What is read outside the text, which is no character.
outside == -1

StringRefAssumption ==
  /\ MaxText \in Nat /\ AddressBits \in Nat /\ outside \notin Chars
  /\ Base \in Nat \ {0, 1} /\ Base + MaxText < 2 ^ AddressBits - 1

VARIABLES
  text,         \* the text that the client keeps alive
  start, len    \* the two members

vars == <<text, start, len>>

npos == 2 ^ AddressBits - 1
null == 0
Wrap(address) == address % 2 ^ AddressBits

Texts == BoundedSeq(Chars, MaxText)

\* What may be read, and the character there.
Readable == Base .. Base + Len(text) - 1
At(p) == text[p - Base + 1]

(***************************************************************************)
(* Constructors and mutators.  The client removes no more than there is:    *)
(* the code does not check.                                                 *)
(***************************************************************************)

Init == text \in Texts /\ start = null /\ len = 0

\* string_ref(text), assigned
View(t) == text' = t /\ start' = Base /\ len' = Len(t)

clear == start' = null /\ len' = 0 /\ UNCHANGED text

\* Mutant of remove_prefix: the length is forgotten.
remove_prefix_only(n) == n <= len /\ start' = start + n /\ UNCHANGED <<len, text>>

\* remove_prefix, and with n = 1 pop_front
remove_prefix(n) ==
  /\ n <= len
  /\ start' = start + n /\ len' = len - n
  /\ UNCHANGED text

\* remove_suffix, and with n = 1 pop_back
remove_suffix(n) == n <= len /\ len' = len - n /\ UNCHANGED <<start, text>>

Next ==
  \/ \E t \in Texts : View(t)
  \/ clear
  \/ \E n \in 0 .. MaxText : remove_prefix(n) \/ remove_suffix(n)

Spec == Init /\ [][Next]_vars

(***************************************************************************)
(* Searches.  A loop over pointers ends at the first one that it accepts or *)
(* may not read; outside stands for what happens then.                      *)
(***************************************************************************)

\* Where a loop that stops at the addresses Stops, at p first, leaves.
Found(Stops, p) ==
  IF Stops = {} THEN npos
  ELSE IF p \in Readable THEN p - start ELSE outside

\* Mutant of Backward: the first character is not looked at.
BackwardShort(Accepted) ==
  LET last  == Wrap(start + len - 1)
      Stops == {p \in start + 1 .. last : p \in Readable => At(p) \in Accepted}
  IN  Found(Stops, Max(Stops))

\* for (p = data() + size() - 1; p >= data(); --p)
Backward(Accepted) ==
  LET last  == Wrap(start + len - 1)
      Stops == {p \in start .. last : p \in Readable => At(p) \in Accepted}
  IN  Found(Stops, Max(Stops))

\* for (p = data(); p < data() + size(); ++p)
Forward(Accepted) ==
  LET Stops == {p \in start .. start + len - 1 :
                  p \in Readable => At(p) \in Accepted}
  IN  Found(Stops, Min(Stops))

rfind(c) == Backward({c})
find_last_not_of(c) == Backward(Chars \ {c})
find_first_not_of(c) == Forward(Chars \ {c})

\* find(charT): the distance to what traits::find returns, null when there is none.
find(c) == LET i == Forward({c}) IN IF i = npos THEN Wrap(null - start) ELSE i

\* rfind(basic_string_ref): the loop stops where size() characters differ; it may not
\* read that many from p on, nor from a shorter word.
rfind_word(w) ==
  LET Inside(p) == p + len - 1 \in Readable /\ Len(w) = len
      Differs(p) == \E i \in 0 .. len - 1 : At(p + i) # w[i + 1]
      Stops == {p \in start .. start + len - Len(w) : Inside(p) => Differs(p)}
  IN  IF w = <<>> THEN 0
      ELSE IF Len(w) > len \/ Stops = {} THEN npos
      ELSE IF Inside(Max(Stops)) THEN Max(Stops) - start ELSE outside

starts_with(w) ==
  Len(w) <= len /\ \A i \in 0 .. Len(w) - 1 : At(start + i) = w[i + 1]

----------------------------------------------------------------------------
(* Properties.  Viewed is the string that the view stands for. *)

Viewed == IF start = null THEN <<>> ELSE SubSeq(text, start - Base + 1, start - Base + len)

\* The view stays within its text, whatever the mutators removed: clear() makes it null.
StaysInText == IF start = null THEN len = 0 ELSE start .. start + len - 1 \subseteq Readable

Indices(Accepted) == {i \in 0 .. Len(Viewed) - 1 : Viewed[i + 1] \in Accepted}
LastOf(Accepted)  == IF Indices(Accepted) = {} THEN npos ELSE Max(Indices(Accepted))
FirstOf(Accepted) == IF Indices(Accepted) = {} THEN npos ELSE Min(Indices(Accepted))

\* On a view that is not null, the searches for a character give the index that those
\* of std::basic_string give on the string viewed, find where the character occurs.
SearchesAgree ==
  start # null =>
    /\ \A c \in Chars :
         /\ rfind(c) = LastOf({c})
         /\ find_last_not_of(c) = LastOf(Chars \ {c})
         /\ find_first_not_of(c) = FirstOf(Chars \ {c})
         /\ FirstOf({c}) # npos => find(c) = FirstOf({c})
    /\ \A w \in Texts : starts_with(w) <=> IsPrefix(w, Viewed)

\* The searches have "the same semantics as std::basic_string" (string_ref.h:135).

\* find of a character that does not occur is npos.
AbsentIsNpos == \A c \in Chars : FirstOf({c}) = npos => find(c) = npos

\* rfind of a character reads nothing but the text, on a null view too.
RfindStaysInText == \A c \in Chars : rfind(c) # outside

\* rfind of a word as long as the view is 0 when they are equal, and npos otherwise.
RfindFindsWord ==
  \A w \in Texts : w # <<>> /\ Len(w) = len =>
    rfind_word(w) = (IF w = Viewed THEN 0 ELSE npos)

=============================================================================
