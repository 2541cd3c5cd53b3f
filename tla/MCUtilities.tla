------------------------------ MODULE MCUtilities ------------------------------
(***************************************************************************)
(* The small data structures and the wrappers of the C library, side by     *)
(* side as in MCAllocators: in each behaviour one of them runs.             *)
(***************************************************************************)
EXTENDS Integers, Sequences

CONSTANTS
  RingSlots, Limit, Items, NoItem,                    \* RingBuffer
  Alphabet, MaxText, MaxWord, Absent,                 \* KMP
  Chars, MaxView, AddressBits, Base,                  \* StringView
  Elements, SizeBits, Lengths,                        \* ArrayRef
  GivenTexts, NUL, Garbage, MaxLength, MaxArgs, MaxSlack,  \* StringUtils
  Filter, Key, FilterBits, num_hashers, Hash,         \* BloomFilter
  Object, Stream, nullptr,                            \* StdioFile
  Signals, SIGSEGV, Faults, MaxArrivals, MaxCalls     \* SignalHandler

VARIABLES
  part,
  head, tail, fifo, inside, out, destroyed, holes, leaks,
  text, word, T, i, pos, sp, kp, pc, result,
  viewed, data_, size_,
  start, len, from, end, rest,
  s, room, moves, wanted, intact,
  data, keys,
  F, alive, raw, open, closes, failed, overwritten, misused,
  action, onstack, name, alt_stack, call, at, frames, pending, running, output,
  arrivals, calls

Ring  == INSTANCE RingBuffer WITH N <- RingSlots
Find  == INSTANCE KMP WITH npos <- Absent
View  == INSTANCE StringView WITH MaxText <- MaxView, text <- viewed
Array == INSTANCE ArrayRef WITH N <- Elements
Str   == INSTANCE StringUtils
Bloom == INSTANCE BloomFilter WITH N <- FilterBits
File  == INSTANCE StdioFile
Sig   == INSTANCE SignalHandler WITH alive <- running

ASSUME RingConstants == Ring!RingBufferAssumption
ASSUME FindConstants == Find!KMPAssumption
ASSUME ViewConstants == View!StringViewAssumption
ASSUME ArrayConstants == Array!ArrayRefAssumption
ASSUME StringConstants == Str!StringUtilsAssumption
ASSUME BloomConstants == Bloom!BloomFilterAssumption
ASSUME FileConstants == File!StdioFileAssumption
ASSUME SignalConstants == Sig!SignalAssumption

\* Values of constants that a configuration cannot write.  Two texts; two hashers whose
\* values pass the number of bits, with keys that collide under one of them and keys
\* that collide under both.
MCTexts == {<<"a">>, <<"b", "c">>}
MCHash == << [k \in Key |-> 3 * k], [k \in Key |-> k + 1] >>

ring == <<head, tail, fifo, inside, out, destroyed, holes, leaks>>
find == <<text, word, T, i, pos, sp, kp, pc, result>>
view == <<viewed, data_, size_>>
array == <<start, len, from, end, rest>>
string == <<s, room, moves, wanted, intact>>
bloom == <<data, keys>>
file == <<F, alive, raw, open, closes, failed, overwritten, misused>>
sig == <<action, onstack, name, alt_stack, call, at, frames, pending, running, output,
         arrivals, calls>>

Init ==
  /\ part \in {"ring", "find", "view", "array", "string", "bloom", "file", "sig"}
  /\ Ring!Init /\ Find!Init /\ View!Init /\ Array!Init /\ Str!Init
  /\ Bloom!Init /\ File!Init /\ Sig!Init
  /\ part # "find" => text = <<>> /\ word = <<>>
  /\ part # "view" => viewed = <<>>
  /\ part # "sig" => alt_stack = "none"

Next ==
  /\ UNCHANGED part
  /\ \/ part = "ring"   /\ Ring!Next
        /\ UNCHANGED <<find, view, array, string, bloom, file, sig>>
     \/ part = "find"   /\ Find!Next
        /\ UNCHANGED <<ring, view, array, string, bloom, file, sig>>
     \/ part = "view"   /\ View!Next
        /\ UNCHANGED <<ring, find, array, string, bloom, file, sig>>
     \/ part = "array"  /\ Array!Next
        /\ UNCHANGED <<ring, find, view, string, bloom, file, sig>>
     \/ part = "string" /\ Str!Next
        /\ UNCHANGED <<ring, find, view, array, bloom, file, sig>>
     \/ part = "bloom"  /\ Bloom!Next
        /\ UNCHANGED <<ring, find, view, array, string, file, sig>>
     \/ part = "file"   /\ File!Next
        /\ UNCHANGED <<ring, find, view, array, string, bloom, sig>>
     \/ part = "sig"    /\ Sig!Next
        /\ UNCHANGED <<ring, find, view, array, string, bloom, file>>

vars == <<part, ring, find, view, array, string, bloom, file, sig>>

\* The fairness of the one part that has a liveness property here: a handler goes on.
Spec == Init /\ [][Next]_vars /\ WF_sig(part = "sig" /\ Sig!Handle)

----------------------------------------------------------------------------
(* Properties, stated and explained in the modules of the parts *)

\* A ring buffer is a FIFO, its objects live in the slots from head to tail, and its
\* indices give the count of its client, but for what constructors and assignments leave
\* that throw.
RingFifo == Ring!ImplementsFifo
RingHoldsWhatIsInside == Ring!ObjectsAreInside /\ Ring!NothingIsLost

\* The table has the longest borders, the search keeps the longest match and finds the
\* first occurrence.
FindIsRight ==
  Find!TableHasLongestBorders /\ Find!SearchKeepsLongestMatch /\ Find!FindsFirst

\* The searches in a view give what those of std::basic_string give.
SearchesAgree == View!Ref!SearchesAgree

\* Views and array references stand for what was asked, within what they refer to, if no
\* slice has the length -1.  Strings that are concatenated of references hold what those
\* referred to, if reserve does not move what they refer to, and change their buffer once.
ReferencesStayInside ==
  /\ View!Ref!StaysInText /\ View!ElementsAgree
  /\ Array!AtStaysInArray /\ Array!ShowsWhatWasAsked
  /\ Str!StringsAgree /\ Str!MovesOnce

\* A Bloom filter has no false negatives, and its false positives are collisions.
BloomIsRight == Bloom!NoFalseNegatives /\ Bloom!OnlyCollisions

\* A stream has one owner, that closes it once and uses it before that, unless an fclose
\* of it failed.
FilesAreOwned ==
  /\ File!OneOwner /\ File!OpenIsOwned
  /\ File!ClosedAgainAfterFailure /\ File!MisusedAfterFailure

\* A handler has what it needs, whenever it runs.
HandlersAreReady == Sig!NamesAreReady /\ Sig!SegvHasStack

\* A program whose handler reraises ends.
ReraiseEnds == Sig!ReraiseEnds

(***************************************************************************)
(* What the code does not do: TLC finds each of these violated.             *)
(***************************************************************************)

\* No raw slot between head and tail after a push that throws, no object left behind by a
\* pop that throws.
NoRawInside == Ring!NoRawInside
NoObjectBehind == Ring!NoObjectBehind

\* The searches of std::basic_string for what is absent, in null views, for a word.
AbsentIsNpos == View!Ref!AbsentIsNpos
RfindStaysInText == View!Ref!RfindStaysInText
RfindFindsWord == View!Ref!RfindFindsWord

\* The last element of a view, the loop over it, and the array behind slice(pos).
BackIsLast == View!BackIsLast
LoopsVisitAll == View!LoopsVisitAll
AtAlwaysStaysInArray == Array!AtAlwaysStaysInArray

\* Strings that are formatted, and the message of a segmentation fault.
NoNulInString == Str!NoNulInString
StringAlwaysAgrees == Str!AlwaysAgrees
PrintsAddresses == Sig!PrintsAddresses

=============================================================================
