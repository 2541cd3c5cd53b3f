------------------------------ MODULE StdioFile ------------------------------
(***************************************************************************)
(* stdio_file of stdio/stdio_file.hpp: objects that own a FILE* and close it *)
(* when they end.  The other members pass the FILE* on to the C library.      *)
(* freopen there does not compile and is left out.                           *)
(***************************************************************************)
EXTENDS Naturals, FiniteSets

CONSTANTS
  Object,    \* objects
  Stream,    \* streams the C library opens, each at an address of its own
  nullptr    \* no stream

StdioFileAssumption == nullptr \notin Stream

VARIABLES
  F,         \* per object: the member F
  alive,     \* objects between their constructor and their destructor
  raw,       \* FILE* that the client holds: opened by it or released to it
  \* the C library
  open,      \* streams that are open
  closes,    \* per stream: calls of ::fclose
  failed,    \* streams of which a ::fclose returned EOF
  \* history
  overwritten, \* streams whose object was opened anew over them
  misused    \* streams that were passed to the C library after their end

library == <<open, closes, failed>>
history == <<overwritten, misused>>
vars == <<F, alive, raw, library, history>>

Init ==
  /\ F = [o \in Object |-> nullptr] /\ alive = {} /\ raw = {}
  /\ open = {} /\ closes = [s \in Stream |-> 0] /\ failed = {}
  /\ overwritten = {} /\ misused = {}

Fresh == {s \in Stream : closes[s] = 0 /\ s \notin open}

\* ::fclose(s): the stream is gone, whether or not what was buffered could be written.
Close(s, ok) ==
  /\ open' = open \ {s}
  /\ closes' = [closes EXCEPT ![s] = @ + 1]
  /\ failed' = IF ok THEN failed ELSE failed \cup {s}

(***************************************************************************)
(* fclose of an object, alone, in the destructor and in reset.  MaxCloses   *)
(* bounds the calls for one stream: the second is undefined behaviour.      *)
(***************************************************************************)

MaxCloses == 2

CloseOld(o, ok) ==
  IF F[o] = nullptr THEN ok /\ UNCHANGED library
  ELSE closes[F[o]] < MaxCloses /\ Close(F[o], ok)

\* Mutant of Kept: F is left as it was.
KeptAlways(o, ok) == F[o]

\* What fclose leaves in F.
Kept(o, ok) == IF ok THEN nullptr ELSE F[o]

fclose(o, ok) ==
  /\ o \in alive
  /\ CloseOld(o, ok)
  /\ F' = [F EXCEPT ![o] = Kept(o, ok)]
  /\ UNCHANGED <<alive, raw, history>>

\* ~stdio_file
Destroy(o, ok) ==
  /\ o \in alive
  /\ CloseOld(o, ok)
  /\ F' = [F EXCEPT ![o] = nullptr] /\ alive' = alive \ {o}
  /\ UNCHANGED <<raw, history>>

\* reset(FILE*) and operator=(FILE*): the old stream is closed, the client's taken.
reset(o, s, ok) ==
  /\ o \in alive /\ s \in raw \cup {nullptr}
  /\ CloseOld(o, ok)
  /\ F' = [F EXCEPT ![o] = s] /\ raw' = raw \ {s}
  /\ UNCHANGED <<alive, history>>

\* The client opens a stream itself.
ClientOpens(s) ==
  /\ s \in Fresh
  /\ open' = open \cup {s} /\ raw' = raw \cup {s}
  /\ UNCHANGED <<F, alive, closes, failed, history>>

\* stdio_file() and stdio_file(FILE*)
Construct(o, s) ==
  /\ o \notin alive /\ s \in raw \cup {nullptr}
  /\ F' = [F EXCEPT ![o] = s] /\ raw' = raw \ {s} /\ alive' = alive \cup {o}
  /\ UNCHANGED <<library, history>>

\* stdio_file(path, mode) and stdio_file(fd, mode); nullptr: it cannot be opened.
ConstructOpen(o, s) ==
  /\ o \notin alive /\ s \in Fresh \cup {nullptr}
  /\ F' = [F EXCEPT ![o] = s] /\ alive' = alive \cup {o}
  /\ open' = open \cup ({s} \ {nullptr})
  /\ UNCHANGED <<raw, closes, failed, history>>

\* fopen and fdopen: the stream that F was is not closed.
fopen(o, s) ==
  /\ o \in alive /\ s \in Fresh \cup {nullptr}
  /\ F' = [F EXCEPT ![o] = s]
  /\ open' = open \cup ({s} \ {nullptr})
  /\ overwritten' = overwritten \cup ({F[o]} \ {nullptr})
  /\ UNCHANGED <<alive, raw, closes, failed, misused>>

\* Mutant of Released: the object keeps its stream.
ReleasedKept(o) == F

\* What release() leaves.
Released(o) == [F EXCEPT ![o] = nullptr]

\* release()
release(o) ==
  /\ o \in alive /\ F[o] # nullptr
  /\ F' = Released(o) /\ raw' = raw \cup {F[o]}
  /\ UNCHANGED <<alive, library, history>>

\* stdio_file(stdio_file &&)
MoveConstruct(o, rhs) ==
  /\ o \notin alive /\ rhs \in alive
  /\ F' = [Released(rhs) EXCEPT ![o] = F[rhs]] /\ alive' = alive \cup {o}
  /\ UNCHANGED <<raw, library, history>>

\* Mutant of MoveAssign: the stream of the left side is not closed.
MoveAssignOver(o, rhs, ok) ==
  /\ {o, rhs} \subseteq alive /\ ok
  /\ F' = [Released(rhs) EXCEPT ![o] = F[rhs]]
  /\ UNCHANGED <<alive, raw, library, history>>

\* operator=(stdio_file &&), of an object to itself too: rhs.release() comes first.
MoveAssign(o, rhs, ok) ==
  /\ {o, rhs} \subseteq alive
  /\ IF o = rhs THEN ok /\ UNCHANGED library ELSE CloseOld(o, ok)
  /\ F' = [Released(rhs) EXCEPT ![o] = F[rhs]]
  /\ UNCHANGED <<alive, raw, history>>

swap(o, rhs) ==
  /\ {o, rhs} \subseteq alive
  /\ F' = [F EXCEPT ![o] = F[rhs], ![rhs] = F[o]]
  /\ UNCHANGED <<alive, raw, library, history>>

get_file(o) == F[o]

\* The members that read, write, seek and ask: get_file() goes to the C library.  The
\* client calls them on an object that has a stream.
Use(o) ==
  /\ o \in alive /\ get_file(o) # nullptr
  /\ misused' = misused \cup ({get_file(o)} \ open)
  /\ UNCHANGED <<F, alive, raw, library, overwritten>>

Next ==
  \E o \in Object :
    \/ \E ok \in BOOLEAN : fclose(o, ok) \/ Destroy(o, ok)
    \/ \E s \in Stream \cup {nullptr} :
         \/ Construct(o, s) \/ ConstructOpen(o, s) \/ fopen(o, s)
         \/ \E ok \in BOOLEAN : reset(o, s, ok)
    \/ \E s \in Stream : ClientOpens(s)
    \/ release(o) \/ Use(o)
    \/ \E rhs \in Object :
         \/ MoveConstruct(o, rhs) \/ swap(o, rhs)
         \/ \E ok \in BOOLEAN : MoveAssign(o, rhs, ok)

Spec == Init /\ [][Next]_vars

----------------------------------------------------------------------------
(* Properties *)

Owners(s) == {o \in Object : F[o] = s} \cup {c \in {"client"} : s \in raw}

\* A stream has one owner at most, an object or the client, however it is handed on.
OneOwner == \A s \in Stream : Cardinality(Owners(s)) <= 1

\* An open stream has an owner that will close it, unless fopen or fdopen was called
\* on the object that had it: those two forget it.
OpenIsOwned == \A s \in open : Owners(s) # {} \/ s \in overwritten

\* A stream is closed again, and an object has one that is not open, only after an
\* fclose of it failed: F is kept then, though the stream is gone.
ClosedAgainAfterFailure ==
  \A s \in Stream :
    closes[s] > 1 \/ (s \notin open /\ Owners(s) # {}) => s \in failed

\* The C library gets a stream that is gone only after such a failure.
MisusedAfterFailure == misused \subseteq failed

=============================================================================
