---------------------------- MODULE SignalHandler ----------------------------
(***************************************************************************)
(* The signal handlers of sig/signal_handler.h: the program registers them, *)
(* and signals interrupt it at any step, the registration and one another.  *)
(*                                                                         *)
(* A handler runs to its end before what it interrupted goes on; its own    *)
(* signal is blocked meanwhile.  The system is modelled as POSIX has it.    *)
(* The message is a sequence of its parts, of which NUL ends a string.      *)
(***************************************************************************)
EXTENDS Integers, SequencesExt

CONSTANTS
  Signals,      \* signals the program registers
  SIGSEGV,      \* the one whose handler needs a stack of its own
  Faults,       \* SIGSEGV and SIGABRT: those that have addresses to print
  MaxArrivals,  \* bound: signals sent to the program
  MaxCalls      \* bound: registrations

SignalAssumption ==
  /\ Faults \subseteq Signals /\ SIGSEGV \in Faults
  /\ MaxArrivals \in Nat /\ MaxCalls \in Nat

VARIABLES
  action,     \* per signal: "default", "god" or "reraise"
  onstack,    \* per signal: SA_ONSTACK
  name,       \* per signal: how much of its name is there, of NameLength
  alt_stack,  \* "none", or whose alternate stack there is
  call,       \* the registration under way: [signo, handler], and ...
  at,         \* ... how many of its steps are done; 0 when there is none
  frames,     \* the handlers that run, the innermost last
  pending,    \* signals that were raised while blocked
  alive, output, arrivals, calls

kernel == <<action, onstack, alt_stack>>
program == <<name, call, at, calls>>
process == <<frames, pending, alive, output, arrivals>>
vars == <<kernel, program, process>>

NameLength == 2
Handlers == {"god", "reraise"}
NoCall == [signo |-> SIGSEGV, handler |-> "none"]

Init ==
  /\ action = [s \in Signals |-> "default"]
  /\ onstack = [s \in Signals |-> FALSE]
  /\ name = [s \in Signals |-> 0]
  /\ alt_stack \in {"none", "client"}
  /\ call = NoCall /\ at = 0
  /\ frames = <<>> /\ pending = {} /\ alive = TRUE /\ output = <<>>
  /\ arrivals = 0 /\ calls = 0

----------------------------------------------------------------------------
(* register_to_god_handler *)

\* Mutant of Order: the handler is installed before it has what it needs.
OrderInstallFirst == <<"install", "name", "name", "stack">>

\* The name is copied by strncpy, the stack is seen to, the handler is installed.
Order == <<"name", "name", "stack", "install">>

\* The program runs: no handler interrupts it.
Running == alive /\ frames = <<>>

\* The next step of the registration is "step".
Does(step) ==
  /\ Running /\ at > 0 /\ Order[at] = step
  /\ IF at = Len(Order) THEN at' = 0 /\ call' = NoCall
                        ELSE at' = at + 1 /\ UNCHANGED call
  /\ UNCHANGED <<calls, process>>

Call(s, h) ==
  /\ Running /\ at = 0 /\ calls < MaxCalls
  /\ call' = [signo |-> s, handler |-> h] /\ at' = 1 /\ calls' = calls + 1
  /\ UNCHANGED <<kernel, name, process>>

\* A registration repeated writes the same characters over the name.
CopyName ==
  /\ Does("name")
  /\ name' = [name EXCEPT ![call.signo] = Min({@ + 1, NameLength})]
  /\ UNCHANGED kernel

\* Mutant of NeedsStack: an alternate stack is set if there is one.
NeedsStackWrong == call.signo = SIGSEGV /\ alt_stack # "none"

NeedsStack == call.signo = SIGSEGV /\ alt_stack = "none"

SetStack ==
  /\ Does("stack")
  /\ alt_stack' = IF NeedsStack THEN "ours" ELSE alt_stack
  /\ UNCHANGED <<action, onstack, name>>

\* sigaction, which may fail.
Install ==
  /\ Does("install")
  /\ \/ UNCHANGED <<action, onstack>>
     \/ /\ action' = [action EXCEPT ![call.signo] = call.handler]
        /\ onstack' = [onstack EXCEPT ![call.signo] = call.signo = SIGSEGV]
  /\ UNCHANGED <<alt_stack, name>>

----------------------------------------------------------------------------
(* Delivery *)

Blocked == {frames[n].signo : n \in DOMAIN frames}

\* The signal s is delivered while the handlers fs run.
Delivered(s, fs) ==
  IF action[s] = "default"
  THEN alive' = FALSE /\ frames' = fs
  ELSE /\ frames' = Append(fs, [signo |-> s, handler |-> action[s], step |-> "format"])
       /\ UNCHANGED alive

Arrive(s) ==
  /\ alive /\ arrivals < MaxArrivals
  /\ arrivals' = arrivals + 1
  /\ IF s \in Blocked THEN pending' = pending \cup {s} /\ UNCHANGED <<frames, alive>>
                      ELSE Delivered(s, frames) /\ UNCHANGED pending
  /\ UNCHANGED <<kernel, program, output>>

----------------------------------------------------------------------------
(* The handlers *)

\* strcpy_end: the string goes to the end of what is written, which then is behind
\* its NUL.
StrcpyEnd(buf, str) == buf \o <<str, "NUL">>

FirstNul(buf) == Min({n \in DOMAIN buf : buf[n] = "NUL"})

\* The buffer that god_signal_handler fills, before it appends the newline.
Formatted(s) ==
  LET space == Append(StrcpyEnd(<<>>, "name"), " ")
      address == StrcpyEnd(space, "address")
      inner == StrcpyEnd(SubSeq(address, 1, FirstNul(address) - 1), " at instruction ")
  IN IF s \in Faults THEN StrcpyEnd(inner, "instruction") ELSE space

\* What is written of it: all up to its first NUL.
Message(s) == SubSeq(Formatted(s), 1, FirstNul(Formatted(s)) - 1)

Top == frames[Len(frames)]
InHandler(step) == alive /\ frames # <<>> /\ Top.step = step
Goto(step) == frames' = [frames EXCEPT ![Len(frames)].step = step]

\* The message is put together and written.
Format ==
  /\ InHandler("format")
  /\ output' = Message(Top.signo)
  /\ Goto(IF Top.handler = "reraise" THEN "reset" ELSE "return")
  /\ UNCHANGED <<kernel, program, pending, alive, arrivals>>

\* Without an address the newline is appended behind bytes nobody wrote: if there is
\* no NUL among them the handler writes past its buffer.
FormatOverruns ==
  /\ InHandler("format") /\ Top.signo \notin Faults
  /\ alive' = FALSE
  /\ UNCHANGED <<kernel, program, frames, pending, output, arrivals>>

\* Mutant of ResetTo: the handler stays installed.
ResetToItself == Top.handler

\* sa.sa_handler = SIG_DFL
ResetTo == "default"

Reset ==
  /\ InHandler("reset")
  /\ action' = [action EXCEPT ![Top.signo] = ResetTo]
  /\ onstack' = [onstack EXCEPT ![Top.signo] = FALSE]
  /\ Goto("raise")
  /\ UNCHANGED <<alt_stack, program, pending, alive, output, arrivals>>

\* raise: the signal is blocked.
Raise ==
  /\ InHandler("raise")
  /\ pending' = pending \cup {Top.signo}
  /\ Goto("return")
  /\ UNCHANGED <<kernel, program, alive, output, arrivals>>

\* A handler returns and its signal is no longer blocked.
Return ==
  /\ InHandler("return")
  /\ IF Top.signo \in pending
     THEN Delivered(Top.signo, Front(frames)) /\ pending' = pending \ {Top.signo}
     ELSE frames' = Front(frames) /\ UNCHANGED <<alive, pending>>
  /\ UNCHANGED <<kernel, program, output, arrivals>>

Handle == Format \/ FormatOverruns \/ Reset \/ Raise \/ Return

Next ==
  \/ \E s \in Signals : Arrive(s) \/ \E h \in Handlers : Call(s, h)
  \/ CopyName \/ SetStack \/ Install
  \/ Handle

\* A handler that runs goes on.
Spec == Init /\ [][Next]_vars /\ WF_vars(Handle)

----------------------------------------------------------------------------
(* Properties *)

\* A handler never runs before the name it prints is complete, wherever the signal
\* interrupts the registration.
NamesAreReady == \A n \in DOMAIN frames : name[frames[n].signo] = NameLength

\* The handler of SIGSEGV, installed by whatever interleaving of registrations, has an
\* alternate stack to run on: the overflow of the stack may be what it reports.
SegvHasStack == action[SIGSEGV] # "default" => onstack[SIGSEGV] /\ alt_stack # "none"

\* A program whose handler reraises ends, with the handlers of other signals running
\* in between or not.
ReraiseEnds ==
  (\E n \in DOMAIN frames : frames[n].handler = "reraise") ~> ~alive

\* The comment in god_signal_handler: "For SIGSEGV, print the memory address we tried
\* to access, then the address of the instruction which referenced that address."
PrintsAddresses ==
  [][InHandler("format") /\ Top.signo = SIGSEGV /\ output' # output =>
       {"address", "instruction"} \subseteq Range(output')]_vars

=============================================================================
