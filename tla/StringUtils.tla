----------------------------- MODULE StringUtils -----------------------------
(***************************************************************************)
(* concat_in_place and concat of str/string_utils.h and the printf family   *)
(* of str/strprintf.h, over one std::string of the client.  Arguments are   *)
(* string_refs, to other texts or to a part of that very string; formatting *)
(* is what std::vsnprintf does.  strprintf compiles only with a va_list for *)
(* its arguments, and is modelled so.                                       *)
(***************************************************************************)
EXTENDS Integers, SequencesExt

CONSTANTS
  GivenTexts,     \* texts that are appended, assigned, or the outcome of a format
  NUL,       \* the character '\0'
  Garbage,   \* a character read from a buffer that is freed, or being written
  MaxLength, \* bound: length of the string
  MaxArgs,   \* bound: arguments of a call
  MaxSlack   \* bound: room that the string allocates beyond what it needs

StringUtilsAssumption ==
  /\ {MaxLength, MaxArgs, MaxSlack} \subseteq Nat /\ NUL # Garbage
  /\ \A t \in GivenTexts : t \in Seq(ToSet(t)) /\ {NUL, Garbage} \cap ToSet(t) = {}

VARIABLES
  s, room,   \* the string: its characters, and its capacity
  moves,     \* how often the last call changed the string's buffer
  wanted,    \* history: what it should hold
  intact     \* history: no text came of the string while it moved or was written

vars == <<s, room, moves, wanted, intact>>

Init == s = <<>> /\ room = 0 /\ moves = 0 /\ wanted = <<>> /\ intact = TRUE

\* string_refs: to a text, and to the characters of the string from one to another.
Other(t) == [own |-> FALSE, text |-> t]
Part(from, to) == [own |-> TRUE, text |-> SubSeq(s, from, to)]
Refs == {Other(t) : t \in GivenTexts} \cup {Part(from, to) : from, to \in DOMAIN s}

\* The arguments of a call, one at least, and what they stand for.
Args == UNION {[1 .. n -> Refs] : n \in 1 .. MaxArgs}
MeantUpTo(args) ==
  LET upto[n \in 0 .. Len(args)] ==
        IF n = 0 THEN <<>> ELSE upto[n - 1] \o args[n].text
  IN  upto
Meant(args) == MeantUpTo(args)[Len(args)]
UsesString(args) == \E i \in DOMAIN args : args[i].own

(***************************************************************************)
(* A std::string in a call: its text, its capacity, its changes of buffer.  *)
(* slack is what it then allocates more than it needs.                      *)
(***************************************************************************)

\* reserve(n) changes the buffer if there is no room for n, and may when there is more
\* than that: up to C++17 it is then a request to shrink, which the library can grant.
Moves(string, n, slack, shrinks) ==
  n > string.room \/ (shrinks /\ n + slack < string.room)

Reserved(string, n, slack, shrinks) ==
  IF Moves(string, n, slack, shrinks)
  THEN [string EXCEPT !.room = n + slack, !.moves = @ + 1]
  ELSE string

\* The other calls only make room.
Grown(string, n, slack) == Reserved(string, n, slack, FALSE)

\* append(ref.data(), ref.size()): a reference to a buffer that is no more gives anything.
Appended(string, ref, slack) ==
  LET t == IF ref.own /\ string.moves > 0 THEN [i \in DOMAIN ref.text |-> Garbage]
           ELSE ref.text
  IN  Grown([string EXCEPT !.text = @ \o t], Len(string.text) + Len(t), slack)

\* Mutant of string_total_len: the string itself is forgotten.
string_total_len_rest(string, args) == Len(Meant(args))

string_total_len(string, args) == Len(string.text) + Len(Meant(args))

\* concat_in_place(string, args...): room for all, then one after the other
ConcatenatedUpTo(string, args, slack, shrinks) ==
  LET upto[n \in 0 .. Len(args)] ==
        IF n = 0 THEN Reserved(string, string_total_len(string, args), slack, shrinks)
        ELSE Appended(upto[n - 1], args[n], slack)
  IN  upto
Concatenated(string, args, slack, shrinks) ==
  ConcatenatedUpTo(string, args, slack, shrinks)[Len(args)]

Here == [text |-> s, room |-> room, moves |-> 0]
Empty == [text |-> <<>>, room |-> 0, moves |-> 0]

Becomes(string) ==
  /\ Len(string.text) <= MaxLength
  /\ s' = string.text /\ room' = string.room /\ moves' = string.moves

concat_in_place(args, slack, shrinks) ==
  LET n == Len(s) + Len(Meant(args))
  IN  /\ Becomes(Concatenated(Here, args, slack, shrinks))
      /\ wanted' = wanted \o Meant(args)
      /\ intact' = (intact /\ (UsesString(args) => ~Moves(Here, n, slack, shrinks)))

\* s = concat(args...): another string, so the arguments do not move
concat(args, slack) ==
  LET texts == [i \in DOMAIN args |-> Other(args[i].text)]
  IN  /\ Becomes(Concatenated(Empty, texts, slack, FALSE))
      /\ wanted' = Meant(args)
      /\ intact' = (UsesString(args) => intact)

(***************************************************************************)
(* Formatting.  t is what the format and its arguments give; it is measured *)
(* first, and the string resized to one character more, where vsnprintf     *)
(* writes its NUL.  spoilt: the second vsnprintf does not see the arguments *)
(* that the first one measured, and may write anything in that length.      *)
(***************************************************************************)

Printed(string, t, spoilt, slack) ==
  LET written == IF spoilt THEN [i \in 1 .. Len(t) + 1 |-> Garbage] ELSE t \o <<NUL>>
  IN  [Grown(string, Len(t) + 1, slack) EXCEPT !.text = written]

PrintedInto(t, spoilt, slack) ==
  /\ Becomes(Printed(Here, t, spoilt, slack))
  /\ wanted' = t \o <<NUL>> /\ intact' = ~spoilt

\* vstrprintf(s, fmt, ap).  own: an argument of %s is in the string that is written.
vstrprintf(t, own, slack) == PrintedInto(t, own, slack)

\* strprintf gives its arguments to vsnprintf as they are, which takes a va_list: the
\* calls that compile have one, and the first vsnprintf uses it up.
strprintf(t, reads, slack) == PrintedInto(t, reads, slack)

\* Either of them with a wrong format: count < 0
printf_fails == moves' = 0 /\ UNCHANGED <<s, room, wanted, intact>>

\* s = astrprintf(...), and of vstrprintf(fmt, ap): vstrprintf into another string, that
\* stays empty if the format is wrong.
astrprintf(t, ok, slack) ==
  /\ Becomes(IF ok THEN Printed(Empty, t, FALSE, slack) ELSE Empty)
  /\ wanted' = IF ok THEN t \o <<NUL>> ELSE <<>>
  /\ intact' = TRUE

Next ==
  \E slack \in 0 .. MaxSlack, b \in BOOLEAN :
    \/ \E args \in Args : concat_in_place(args, slack, b) \/ concat(args, slack)
    \/ \E t \in GivenTexts :
         vstrprintf(t, b, slack) \/ strprintf(t, b, slack) \/ astrprintf(t, b, slack)
    \/ printf_fails

Spec == Init /\ [][Next]_vars

----------------------------------------------------------------------------
(* Properties *)

\* A concatenation is that of its arguments, with parts of the string itself among them
\* too if reserve leaves the buffer where it is: the lengths are taken, and the one change
\* of buffer is made, before any argument is read.  A format gives its text where its
\* arguments are read as they were measured.
StringsAgree ==
  /\ intact => s = wanted
  /\ Len(s) = Len(wanted)

\* reserve asks for enough, also when it shrinks: a call changes the buffer once at most.
MovesOnce == moves <= 1

\* The string holds what was asked for whatever it is made of: parts of itself, that
\* string_ref takes without a word, and all formats ("Conformance of implementation to
\* sprintf semantics is paramount", strprintf.h:19).
AlwaysAgrees == s = wanted

\* The string is the text that was formatted, as sprintf counts it.  The code has the
\* terminating NUL in it, where concat leaves it.
NoNulInString == NUL \notin ToSet(s)

=============================================================================
