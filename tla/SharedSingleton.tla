-------------------------- MODULE SharedSingleton --------------------------
(***************************************************************************)
(* The lazily made object of util/shared_singleton.h: get() tests the flag  *)
(* dead_, and only if it is set takes the spinlock, tests it again and     *)
(* makes the object.  Every get() returns a shared pointer of its own to   *)
(* the object, which std::shared_ptr keeps until the last one is gone.     *)
(*                                                                         *)
(* Objects are numbered in the order they are made.                        *)
(***************************************************************************)
EXTENDS Integers, FiniteSets

CONSTANTS
  Threads,
  NoThread,     \* the spinlock is free
  Nothing,      \* no object
  MaxCalls,     \* bound: how many calls of get() each thread makes
  NewThrows     \* new T may throw

ASSUME SingletonAssumption ==
  /\ NoThread \notin Threads /\ Nothing \notin Nat
  /\ MaxCalls \in Nat /\ NewThrows \in BOOLEAN

VARIABLES
  dead,      \* dead_: no object is there
  lock,      \* the owner of the spinlock, or NoThread
  data,      \* the object the shared pointer data_ points to, or Nothing
  made,      \* objects made so far
  temp,      \* per thread: the object made and not yet put into data_
  holds,     \* per thread: the object its last get() returned
  pc,        \* per thread: where it is in get()
  calls,     \* per thread: calls made
  live       \* the shared_singleton has not been destroyed

vars == <<dead, lock, data, made, temp, holds, pc, calls, live>>

Labels == {"idle", "test", "lock", "test_again", "new", "place", "alive", "unlock", "copy"}

At(t, label) == pc[t] = label
Goto(t, label) == pc' = [pc EXCEPT ![t] = label]

Init ==
  /\ dead = TRUE /\ lock = NoThread /\ data = Nothing /\ made = 0
  /\ temp = [t \in Threads |-> Nothing]
  /\ holds = [t \in Threads |-> Nothing]
  /\ pc = [t \in Threads |-> "idle"]
  /\ calls = [t \in Threads |-> 0]
  /\ live = TRUE

Get(t) ==
  /\ live /\ At(t, "idle") /\ calls[t] < MaxCalls
  /\ Goto(t, "test") /\ calls' = [calls EXCEPT ![t] = @ + 1]
  /\ UNCHANGED <<dead, lock, data, made, temp, holds, live>>

\* is_dead() without the lock.
Test(t) ==
  /\ At(t, "test") /\ Goto(t, IF dead THEN "lock" ELSE "copy")
  /\ UNCHANGED <<dead, lock, data, made, temp, holds, calls, live>>

Lock(t) ==
  /\ At(t, "lock") /\ lock = NoThread
  /\ lock' = t /\ Goto(t, "test_again")
  /\ UNCHANGED <<dead, data, made, temp, holds, calls, live>>

\* Mutant of TestAgain: the flag is not tested under the lock.
TestOnce(t) ==
  /\ At(t, "test_again") /\ Goto(t, "new")
  /\ UNCHANGED <<dead, lock, data, made, temp, holds, calls, live>>

TestAgain(t) ==
  /\ At(t, "test_again") /\ Goto(t, IF dead THEN "new" ELSE "unlock")
  /\ UNCHANGED <<dead, lock, data, made, temp, holds, calls, live>>

\* Mutant of New: the flag is cleared before the pointer is in place.
NewSetAlive(t) ==
  /\ At(t, "new")
  /\ temp' = [temp EXCEPT ![t] = made] /\ made' = made + 1
  /\ dead' = FALSE /\ Goto(t, "place")
  /\ UNCHANGED <<lock, data, holds, calls, live>>

New(t) ==
  /\ At(t, "new")
  /\ temp' = [temp EXCEPT ![t] = made] /\ made' = made + 1
  /\ Goto(t, "place")
  /\ UNCHANGED <<dead, lock, data, holds, calls, live>>

\* Mutant of NewFails: the lock is not given back on an exception.
NewFailsLocked(t) ==
  /\ At(t, "new") /\ NewThrows
  /\ Goto(t, "idle")
  /\ UNCHANGED <<dead, lock, data, made, temp, holds, calls, live>>

\* new T throws: the guard unlocks and the exception leaves get().
NewFails(t) ==
  /\ At(t, "new") /\ NewThrows
  /\ lock' = NoThread /\ Goto(t, "idle")
  /\ UNCHANGED <<dead, data, made, temp, holds, calls, live>>

\* The shared pointer is constructed in data_, over whatever was there.
Place(t) ==
  /\ At(t, "place")
  /\ data' = temp[t] /\ temp' = [temp EXCEPT ![t] = Nothing]
  /\ Goto(t, "alive")
  /\ UNCHANGED <<dead, lock, made, holds, calls, live>>

SetAlive(t) ==
  /\ At(t, "alive")
  /\ dead' = FALSE /\ Goto(t, "unlock")
  /\ UNCHANGED <<lock, data, made, temp, holds, calls, live>>

Unlock(t) ==
  /\ At(t, "unlock")
  /\ lock' = NoThread /\ Goto(t, "copy")
  /\ UNCHANGED <<dead, data, made, temp, holds, calls, live>>

\* return *data_: the caller gets a copy of the shared pointer.
Copy(t) ==
  /\ At(t, "copy")
  /\ holds' = [holds EXCEPT ![t] = data] /\ Goto(t, "idle")
  /\ UNCHANGED <<dead, lock, data, made, temp, calls, live>>

\* ~shared_singleton destroys the pointer in data_ if there is one.
Destroy ==
  /\ live /\ \A t \in Threads : At(t, "idle")
  /\ live' = FALSE
  /\ data' = IF dead THEN data ELSE Nothing
  /\ UNCHANGED <<dead, lock, made, temp, holds, pc, calls>>

Step(t) ==
  \/ Test(t) \/ Lock(t) \/ TestAgain(t) \/ New(t) \/ NewFails(t)
  \/ Place(t) \/ SetAlive(t) \/ Unlock(t) \/ Copy(t)

Next == Destroy \/ \E t \in Threads : Get(t) \/ Step(t)

Spec == Init /\ [][Next]_vars

LiveSpec == Spec /\ \A t \in Threads : WF_vars(Step(t))

----------------------------------------------------------------------------
(* Properties *)

TypeOK ==
  /\ dead \in BOOLEAN /\ live \in BOOLEAN
  /\ lock \in Threads \cup {NoThread}
  /\ data \in Nat \cup {Nothing} /\ made \in Nat
  /\ temp \in [Threads -> Nat \cup {Nothing}]
  /\ holds \in [Threads -> Nat \cup {Nothing}]
  /\ pc \in [Threads -> Labels]
  /\ calls \in [Threads -> 0 .. MaxCalls]

\* One object is made however many threads find the flag set, failed attempts
\* included, and every object made is on its way to data_, there, or destroyed
\* with the singleton: none is leaked by a second construction in data_.
OneObject ==
  /\ made <= 1
  /\ made = 1 => \/ data = 0
                 \/ ~live
                 \/ \E t \in Threads : temp[t] = 0

\* Nobody copies the pointer before it is constructed: every get(), of any
\* thread and at any time, returns the same object.
GetReturnsObject ==
  \A t \in Threads : (At(t, "copy") => data = 0) /\ holds[t] \in {0, Nothing}

\* The fast path needs no lock because of this: once the flag is clear data_ is
\* constructed and does not change until the singleton is destroyed.
PublishedIsStable ==
  [][~dead /\ live' => ~dead' /\ data # Nothing /\ data' = data]_vars

\* Why: the lock admits one thread, the flag is cleared last, and an object has
\* been made exactly when the flag is clear or a thread is about to clear it.
Inside ==
  {t \in Threads : pc[t] \in {"test_again", "new", "place", "alive", "unlock"}}
SingletonInv ==
  /\ \A t \in Inside : lock = t
  /\ \A t \in Threads :
       /\ pc[t] \in {"new", "place", "alive"} => dead
       /\ pc[t] \in {"unlock", "copy"} => ~dead
       /\ At(t, "new") => made = 0
       /\ At(t, "place") => made = 1 /\ temp[t] = 0
       /\ At(t, "alive") => made = 1 /\ data = 0
       /\ ~live => At(t, "idle")
       /\ holds[t] \in {0, Nothing}
  /\ dead => made = 0 \/ \E t \in Threads : pc[t] \in {"place", "alive"}
  /\ ~dead => made = 1 /\ (live => data = 0)

\* Every get() comes back, after a constructor that threw as well.
GetReturns == \A t \in Threads : [](At(t, "test") => <>At(t, "idle"))

=============================================================================
