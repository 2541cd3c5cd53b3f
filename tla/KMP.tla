--------------------------------- MODULE KMP ---------------------------------
(***************************************************************************)
(* The search for a word in a text of cxx14/string_algo.h, loop by loop.    *)
(* Characters are counted from 0 as in the code: Char(s, i) is s[i].        *)
(***************************************************************************)
EXTENDS Integers, SequencesExt

CONSTANTS
  Alphabet,    \* characters
  MaxText,     \* bound: the length of texts
  MaxWord,     \* bound: the length of words
  npos         \* what is returned when there is no occurrence

KMPAssumption == MaxText \in Nat /\ MaxWord \in Nat /\ npos \notin Nat

VARIABLES
  text, word,  \* the arguments
  T,           \* the failure table: where to go on in the word after a mismatch
  i, pos,      \* of the loops that fill the table
  sp, kp,      \* of the search: places in the text and in the word
  pc,          \* the loop under way
  result

table == <<T, i, pos>>
search == <<sp, kp>>
vars == <<text, word, table, search, pc, result>>

Char(s, n) == s[n + 1]

Init ==
  /\ text \in BoundedSeq(Alphabet, MaxText)
  /\ word \in BoundedSeq(Alphabet, MaxWord)
  /\ T = [n \in 0 .. Len(word) |-> -1]
  /\ i = 1 /\ pos = -1 /\ sp = 0 /\ kp = 0
  /\ pc = "easy" /\ result = npos

\* The empty word, and the word that is longer than the text.
EasyOuts ==
  /\ pc = "easy"
  /\ pc' = IF word = <<>> \/ Len(text) < Len(word) THEN "done" ELSE "table"
  /\ result' = IF word = <<>> THEN 0 ELSE npos
  /\ UNCHANGED <<text, word, table, search>>

\* int pos = T[i - 1]
NextPrefix ==
  /\ pc = "table"
  /\ IF i <= Len(word) THEN pc' = "border" /\ pos' = T[i - 1]
                       ELSE pc' = "search" /\ UNCHANGED pos
  /\ UNCHANGED <<text, word, T, i, search, result>>

Extends == pos # -1 => Char(word, pos) = Char(word, i - 1)

\* pos = T[pos]
ShorterBorder ==
  /\ pc = "border" /\ ~Extends
  /\ pos' = T[pos]
  /\ UNCHANGED <<text, word, T, i, search, pc, result>>

\* Mutant of Border: the border is not extended.
BorderShort == IF pos = -1 THEN 0 ELSE pos

\* T[i] = pos + 1
Border == pos + 1

SetBorder ==
  /\ pc = "border" /\ Extends
  /\ T' = [T EXCEPT ![i] = Border]
  /\ i' = i + 1 /\ pc' = "table"
  /\ UNCHANGED <<text, word, pos, search, result>>

Matches == kp # -1 => kp # Len(word) /\ Char(word, kp) = Char(text, sp)

\* Mutant of FallenBack: the search starts over after a mismatch.
FallenBackToStart == -1

\* kp = T[kp]
FallenBack == T[kp]

FallBack ==
  /\ pc = "search" /\ sp < Len(text) /\ ~Matches
  /\ kp' = FallenBack
  /\ UNCHANGED <<text, word, table, sp, pc, result>>

\* Mutant of Found: the end of the occurrence is returned.
FoundEnd == sp + 1

\* What is returned when the word is complete.
Found == sp + 1 - Len(word)

Advance ==
  /\ pc = "search" /\ sp < Len(text) /\ Matches
  /\ kp' = kp + 1 /\ sp' = sp + 1
  /\ IF kp + 1 = Len(word) THEN pc' = "done" /\ result' = Found
                           ELSE UNCHANGED <<pc, result>>
  /\ UNCHANGED <<text, word, table>>

NotFound ==
  /\ pc = "search" /\ sp = Len(text)
  /\ pc' = "done"
  /\ UNCHANGED <<text, word, table, search, result>>

Next ==
  \/ EasyOuts \/ NextPrefix \/ ShorterBorder \/ SetBorder
  \/ FallBack \/ Advance \/ NotFound

Spec == Init /\ [][Next]_vars

----------------------------------------------------------------------------
(* Properties *)

Prefix(s, n) == SubSeq(s, 1, n)

\* The first n characters of s end in the first m of the word.
EndsInPrefix(s, n, m) == m <= n /\ SubSeq(s, n - m + 1, n) = Prefix(word, m)

OccursAt(n) == n + Len(word) <= Len(text) /\ SubSeq(text, n + 1, n + Len(word)) = word

\* The entries of the table are the longest proper borders of the prefixes of the
\* word: a shorter one would miss occurrences, a longer one invent them.  Each is less
\* than its index, so that falling back comes to -1 and the loops end.
TableHasLongestBorders ==
  \A n \in 1 .. i - 1 :
    T[n] = Max({m \in 0 .. n - 1 : EndsInPrefix(word, n, m)})

\* Whatever was skipped, the search goes on with the longest prefix of the word that
\* the text read so far ends in and that the next character continues: an occurrence
\* that has begun is never dropped.
SearchKeepsLongestMatch ==
  pc = "search" /\ sp < Len(text) /\ Matches =>
    kp = Max({-1} \cup {m \in 0 .. Len(word) - 1 :
                          EndsInPrefix(text, sp, m) /\ Char(word, m) = Char(text, sp)})

\* The place returned is the first occurrence of the word, npos if there is none.
FindsFirst ==
  pc = "done" =>
    LET all == {n \in 0 .. Len(text) : OccursAt(n)}
    IN result = IF all = {} THEN npos ELSE Min(all)

=============================================================================
