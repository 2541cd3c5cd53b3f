-------------------------- MODULE ConcurrentQueue --------------------------
(***************************************************************************)
(* The bounded queue of fifo/concurrent_queue.h: a ring of N slots, two     *)
(* counters (full, empty), two indices (head, tail), one mutex and two     *)
(* condition variables.  One action is one step of a thread that another   *)
(* thread can observe: the counters and the construction of an item are    *)
(* touched outside the mutex, so each of them is a step of its own.        *)
(*                                                                         *)
(* Acquiring the mutex and the first read under it form one step: nobody   *)
(* else can take the mutex in between, so delaying the acquisition to the  *)
(* read gives the same behaviours.  Releasing it goes with the last step   *)
(* under it, symmetrically.                                                *)
(*                                                                         *)
(* Items carry no data: an item IS the ticket of the push that claimed its *)
(* slot (0 for the first claim of tail, 1 for the next, ...).  A pop has a *)
(* ticket of its own, in the order of the claims of head; FIFO means that  *)
(* pop number k takes item number k.                                       *)
(***************************************************************************)
EXTENDS Integers, FiniteSets

CONSTANTS
  Producers, Consumers,    \* the threads that push and that pop
  N,                       \* capacity, the template parameter N
  CounterMod,              \* size_t arithmetic is modulo CounterMod
  MultiProducer,           \* atomic_discipline<MultiProducer, MultiConsumer>
  MultiConsumer,
  TornCounters,            \* ++ and -- of a counter are a load and a store
  CopyThrows,              \* constructing and assigning an item may throw
  Calls,                   \* the member functions the threads call
  MaxCalls,                \* bound: how many calls each thread makes
  NoThread,                \* the mutex is free
  Raw                      \* the content of a slot that holds no object

Threads == Producers \cup Consumers

ASSUME QueueAssumption ==
  /\ Producers # {} /\ Consumers # {} /\ Producers \cap Consumers = {}
  /\ IsFiniteSet(Producers) /\ IsFiniteSet(Consumers)
  /\ N \in Nat \ {0}
  /\ CounterMod \in Nat /\ CounterMod > N
  /\ MultiProducer \in BOOLEAN /\ MultiConsumer \in BOOLEAN
  /\ TornCounters \in BOOLEAN /\ CopyThrows \in BOOLEAN
  /\ Calls \subseteq {"push", "try_push", "close", "pop", "try_pop"}
  /\ MaxCalls \in Nat
  /\ NoThread \notin Threads
  /\ Raw \notin Nat

\* The single disciplines increment their index without protection: they are for one
\* thread, and are one step here.
ASSUME DisciplineAssumption ==
  /\ MultiProducer \/ \A p, q \in Producers : p = q
  /\ MultiConsumer \/ \A c, d \in Consumers : c = d

VARIABLES
  open,      \* the atomic flag cleared by close()
  full,      \* counter of slots holding an item
  empty,     \* counter of free slots
  head,      \* index of the next slot to pop
  tail,      \* index of the next slot to fill
  fifo,      \* the slots: a ticket, or Raw
  lock,      \* the thread that holds the mutex, or NoThread
  pc,        \* per thread: where it is in which member function
  reg,       \* per thread: the value loaded by a torn ++ or --
  stale,     \* history: the counters that a stale value of them was stored to
  idx,       \* per thread: tmp_tail or tmp_head
  tk,        \* per thread: ticket of its last claim
  sent,      \* number of claims of tail
  taken,     \* number of claims of head
  got,       \* the item the last pop moved out, Raw before the first one
  calls,     \* per thread: calls made
  unmade,    \* number of pushes whose constructors threw
  unread,    \* number of pops whose assignments threw
  live       \* the queue has not been destroyed

control == <<open, full, empty, head, tail, lock, pc>>
torn == <<reg, stale>>
threw == <<unmade, unread>>
ghosts == <<tk, sent, taken, got, calls, threw, live>>
vars == <<control, fifo, torn, idx, ghosts>>

Slots == 0 .. N-1

\* A waiter on a condition variable is a thread at one of these labels.
Asleep == {"push_asleep", "pop_asleep"}

Labels ==
  {"idle", "push", "push_block", "push_asleep", "try_push", "dec_empty",
   "dec_empty_store", "claim_tail", "cas_tail", "construct", "inc_full",
   "inc_full_store", "notify_full", "close", "close_notify"}
  \cup
  {"pop", "pop_open", "pop_block", "pop_asleep", "try_pop", "try_pop_finished",
   "claim_head", "cas_head", "dec_full", "dec_full_store", "take",
   "inc_empty", "inc_empty_store", "notify_empty"}

Init ==
  /\ open = TRUE /\ full = 0 /\ empty = N /\ head = 0 /\ tail = 0
  /\ fifo = [i \in Slots |-> Raw]
  /\ lock = NoThread
  /\ pc = [t \in Threads |-> "idle"]
  /\ reg = [t \in Threads |-> 0] /\ stale = {}
  /\ idx = [t \in Threads |-> 0]
  /\ tk = [t \in Threads |-> 0]
  /\ sent = 0 /\ taken = 0 /\ got = Raw
  /\ calls = [t \in Threads |-> 0]
  /\ unmade = 0 /\ unread = 0
  /\ live = TRUE

----------------------------------------------------------------------------
(* Steps shared by the member functions *)

Goto(t, label) == pc' = [pc EXCEPT ![t] = label]
At(t, label) == pc[t] = label

Inc(x) == IF x = CounterMod - 1 THEN 0 ELSE x + 1
Dec(x) == IF x = 0 THEN CounterMod - 1 ELSE x - 1

\* Mutant of NextIndex: the index does not wrap.
NextIndexNoWrap(i) == i + 1

NextIndex(i) == (i + 1) % N

\* x := f(x) on a plain size_t that other threads update too: one memory
\* instruction, or a load and a store that others can come between.  The store loses
\* their updates if x is no longer what was loaded.
Update(t, at, store, next, counter, x, xNext, f(_)) ==
  \/ /\ ~TornCounters /\ At(t, at)
     /\ xNext = f(x) /\ Goto(t, next) /\ UNCHANGED torn
  \/ /\ TornCounters /\ At(t, at)
     /\ reg' = [reg EXCEPT ![t] = x] /\ Goto(t, store) /\ xNext = x /\ UNCHANGED stale
  \/ /\ At(t, store)
     /\ xNext = f(reg[t]) /\ Goto(t, next) /\ UNCHANGED reg
     /\ stale' = IF reg[t] = x THEN stale ELSE stale \cup {counter}

\* notify_one: wakes one of the threads asleep at the label, if there is one.
NotifyOne(t, asleep, woken) ==
  LET waiters == {u \in Threads : At(u, asleep)}
  IN \/ waiters = {} /\ Goto(t, "idle")
     \/ \E u \in waiters :
          pc' = [pc EXCEPT ![t] = "idle", ![u] = woken]

CallsOf(t) ==
  Calls \cap (IF t \in Producers THEN {"push", "try_push", "close"}
                                 ELSE {"pop", "try_pop"})

Call(t, op) ==
  /\ live /\ At(t, "idle") /\ calls[t] < MaxCalls /\ op \in CallsOf(t)
  /\ Goto(t, op)
  /\ calls' = [calls EXCEPT ![t] = @ + 1]
  /\ UNCHANGED <<open, full, empty, head, tail, lock, fifo, torn, idx,
                 tk, sent, taken, got, threw, live>>

----------------------------------------------------------------------------
(* Producers: emplace, push, try_push, close *)

\* Mutant of FindEmptySpace: the wait for space is dropped.
FindEmptySpaceUnchecked(p) ==
  /\ At(p, "push") /\ lock = NoThread /\ Goto(p, "dec_empty")
  /\ UNCHANGED <<open, full, empty, head, tail, lock, fifo, torn, idx, ghosts>>

\* wait_for_empty_space: the mutex is taken, empty is read, the mutex is
\* released.
FindEmptySpace(p) ==
  /\ At(p, "push") /\ lock = NoThread /\ empty # 0
  /\ Goto(p, "dec_empty")
  /\ UNCHANGED <<open, full, empty, head, tail, lock, fifo, torn, idx, ghosts>>

FindNoSpace(p) ==
  /\ At(p, "push") /\ lock = NoThread /\ empty = 0
  /\ lock' = p /\ Goto(p, "push_block")
  /\ UNCHANGED <<open, full, empty, head, tail, fifo, torn, idx, ghosts>>

\* empty_cv.wait: releases the mutex and starts to wait, atomically.
SleepOnEmpty(p) ==
  /\ At(p, "push_block")
  /\ lock' = NoThread /\ Goto(p, "push_asleep")
  /\ UNCHANGED <<open, full, empty, head, tail, fifo, torn, idx, ghosts>>

TryPushFull(p) ==
  /\ At(p, "try_push") /\ lock = NoThread /\ empty = 0
  /\ Goto(p, "idle")
  /\ UNCHANGED <<open, full, empty, head, tail, lock, fifo, torn, idx, ghosts>>

\* try_push keeps the mutex until it has claimed its slot.
TryPush(p) ==
  /\ At(p, "try_push") /\ lock = NoThread /\ empty # 0
  /\ lock' = p /\ Goto(p, "dec_empty")
  /\ UNCHANGED <<open, full, empty, head, tail, fifo, torn, idx, ghosts>>

DecEmpty(p) ==
  /\ Update(p, "dec_empty", "dec_empty_store", "claim_tail", "empty", empty, empty', Dec)
  /\ UNCHANGED <<open, full, head, tail, lock, fifo, idx, ghosts>>

\* The claim proper: tail moves on, p owns slot tmp_tail, and try_push
\* releases the mutex.
AdvanceTail(p) ==
  /\ tail' = NextIndex(tail)
  /\ idx' = [idx EXCEPT ![p] = tail]
  /\ tk' = [tk EXCEPT ![p] = sent] /\ sent' = sent + 1
  /\ lock' = IF lock = p THEN NoThread ELSE lock
  /\ Goto(p, "construct")
  /\ UNCHANGED <<open, full, empty, head, fifo, torn, taken, got, calls, threw, live>>

ClaimTail(p) == At(p, "claim_tail") /\ ~MultiProducer /\ AdvanceTail(p)

\* The compare-and-swap loop of increment_index(atomic&).
LoadTail(p) ==
  /\ At(p, "claim_tail") /\ MultiProducer
  /\ idx' = [idx EXCEPT ![p] = tail] /\ Goto(p, "cas_tail")
  /\ UNCHANGED <<open, full, empty, head, tail, lock, fifo, torn, ghosts>>

\* Mutant of CasTail: a store instead of a compare-and-swap.
CasTailBlindly(p) ==
  /\ At(p, "cas_tail")
  /\ tail' = NextIndex(idx[p])
  /\ tk' = [tk EXCEPT ![p] = sent] /\ sent' = sent + 1
  /\ lock' = IF lock = p THEN NoThread ELSE lock
  /\ Goto(p, "construct")
  /\ UNCHANGED <<open, full, empty, head, fifo, torn, idx, taken, got, calls, threw, live>>

CasTail(p) == At(p, "cas_tail") /\ tail = idx[p] /\ AdvanceTail(p)

\* Mutant of CasTailFails: the retry starts over with the decrement of empty.
CasTailFailsRecounts(p) ==
  /\ At(p, "cas_tail") /\ tail # idx[p]
  /\ Goto(p, "dec_empty")
  /\ UNCHANGED <<open, full, empty, head, tail, lock, fifo, torn, idx, ghosts>>

CasTailFails(p) ==
  /\ At(p, "cas_tail") /\ tail # idx[p]
  /\ Goto(p, "claim_tail")
  /\ UNCHANGED <<open, full, empty, head, tail, lock, fifo, torn, idx, ghosts>>

Construct(p) ==
  /\ At(p, "construct")
  /\ fifo' = [fifo EXCEPT ![idx[p]] = tk[p]] /\ Goto(p, "inc_full")
  /\ UNCHANGED <<open, full, empty, head, tail, lock, torn, idx, ghosts>>

\* Mutant of ConstructThrows: the index is decremented, as the FIXME above the
\* class proposes, without the mutex.
ConstructThrowsAndUnclaims(p) ==
  /\ At(p, "construct") /\ CopyThrows
  /\ tail' = (tail + N - 1) % N /\ Goto(p, "idle") /\ unmade' = unmade + 1
  /\ UNCHANGED <<open, full, empty, head, lock, fifo, torn, idx,
                 tk, sent, taken, got, calls, unread, live>>

\* The constructor throws: the exception leaves push, the claim stays.
ConstructThrows(p) ==
  /\ At(p, "construct") /\ CopyThrows
  /\ Goto(p, "idle") /\ unmade' = unmade + 1
  /\ UNCHANGED <<open, full, empty, head, tail, lock, fifo, torn, idx,
                 tk, sent, taken, got, calls, unread, live>>

IncFull(p) ==
  /\ Update(p, "inc_full", "inc_full_store", "notify_full", "full", full, full', Inc)
  /\ UNCHANGED <<open, empty, head, tail, lock, fifo, idx, ghosts>>

\* Mutant of NotifyFull: the notification is forgotten.
NotifyFullNobody(p) ==
  /\ At(p, "notify_full") /\ Goto(p, "idle")
  /\ UNCHANGED <<open, full, empty, head, tail, lock, fifo, torn, idx, ghosts>>

NotifyFull(p) ==
  /\ At(p, "notify_full") /\ NotifyOne(p, "pop_asleep", "pop")
  /\ UNCHANGED <<open, full, empty, head, tail, lock, fifo, torn, idx, ghosts>>

Close(p) ==
  /\ At(p, "close")
  /\ open' = FALSE /\ Goto(p, "close_notify")
  /\ UNCHANGED <<full, empty, head, tail, lock, fifo, torn, idx, ghosts>>

\* full_cv.notify_all()
CloseNotify(p) ==
  /\ At(p, "close_notify")
  /\ pc' = [t \in Threads |-> IF t = p THEN "idle"
                              ELSE IF At(t, "pop_asleep") THEN "pop" ELSE pc[t]]
  /\ UNCHANGED <<open, full, empty, head, tail, lock, fifo, torn, idx, ghosts>>

----------------------------------------------------------------------------
(* Consumers: pop, try_pop *)

\* Mutant of FindItem: the wait for an item is dropped.
FindItemUnchecked(c) ==
  /\ At(c, "pop") /\ lock = NoThread /\ Goto(c, "claim_head")
  /\ UNCHANGED <<open, full, empty, head, tail, lock, fifo, torn, idx, ghosts>>

\* wait_for_used_space_or_close reads full, then open, under the mutex.
FindItem(c) ==
  /\ At(c, "pop") /\ lock = NoThread /\ full # 0
  /\ Goto(c, "claim_head")
  /\ UNCHANGED <<open, full, empty, head, tail, lock, fifo, torn, idx, ghosts>>

\* Mutant of FindNoItem: open is tested before full.
FindNoItemUnchecked(c) ==
  /\ At(c, "pop") /\ lock = NoThread
  /\ lock' = c /\ Goto(c, "pop_open")
  /\ UNCHANGED <<open, full, empty, head, tail, fifo, torn, idx, ghosts>>

FindNoItem(c) ==
  /\ At(c, "pop") /\ lock = NoThread /\ full = 0
  /\ lock' = c /\ Goto(c, "pop_open")
  /\ UNCHANGED <<open, full, empty, head, tail, fifo, torn, idx, ghosts>>

FindOpen(c) ==
  /\ At(c, "pop_open") /\ open
  /\ Goto(c, "pop_block")
  /\ UNCHANGED <<open, full, empty, head, tail, lock, fifo, torn, idx, ghosts>>

\* wait_result::closed: pop returns false.
PopClosed(c) ==
  /\ At(c, "pop_open") /\ ~open
  /\ lock' = NoThread /\ Goto(c, "idle")
  /\ UNCHANGED <<open, full, empty, head, tail, fifo, torn, idx, ghosts>>

SleepOnFull(c) ==
  /\ At(c, "pop_block")
  /\ lock' = NoThread /\ Goto(c, "pop_asleep")
  /\ UNCHANGED <<open, full, empty, head, tail, fifo, torn, idx, ghosts>>

TryPopEmpty(c) ==
  /\ At(c, "try_pop") /\ lock = NoThread /\ full = 0
  /\ Goto(c, "idle")
  /\ UNCHANGED <<open, full, empty, head, tail, lock, fifo, torn, idx, ghosts>>

TryPop(c) ==
  /\ At(c, "try_pop") /\ lock = NoThread /\ full # 0
  /\ lock' = c /\ Goto(c, "try_pop_finished")
  /\ UNCHANGED <<open, full, empty, head, tail, fifo, torn, idx, ghosts>>

\* queue_is_finished() reads full a second time, then the mutex is released.
TryPopFinished(c) ==
  /\ At(c, "try_pop_finished")
  /\ lock' = NoThread
  /\ Goto(c, IF ~open /\ full = 0 THEN "idle" ELSE "claim_head")
  /\ UNCHANGED <<open, full, empty, head, tail, fifo, torn, idx, ghosts>>

\* Mutant of AdvanceHead: pre-increment, the new index is returned.
AdvanceHeadFirst(c) ==
  /\ head' = NextIndex(head)
  /\ idx' = [idx EXCEPT ![c] = NextIndex(head)]
  /\ tk' = [tk EXCEPT ![c] = taken] /\ taken' = taken + 1
  /\ Goto(c, "dec_full")
  /\ UNCHANGED <<open, full, empty, tail, lock, fifo, torn, sent, got, calls, threw, live>>

AdvanceHead(c) ==
  /\ head' = NextIndex(head)
  /\ idx' = [idx EXCEPT ![c] = head]
  /\ tk' = [tk EXCEPT ![c] = taken] /\ taken' = taken + 1
  /\ Goto(c, "dec_full")
  /\ UNCHANGED <<open, full, empty, tail, lock, fifo, torn, sent, got, calls, threw, live>>

ClaimHead(c) == At(c, "claim_head") /\ ~MultiConsumer /\ AdvanceHead(c)

LoadHead(c) ==
  /\ At(c, "claim_head") /\ MultiConsumer
  /\ idx' = [idx EXCEPT ![c] = head] /\ Goto(c, "cas_head")
  /\ UNCHANGED <<open, full, empty, head, tail, lock, fifo, torn, ghosts>>

CasHead(c) == At(c, "cas_head") /\ head = idx[c] /\ AdvanceHead(c)

CasHeadFails(c) ==
  /\ At(c, "cas_head") /\ head # idx[c]
  /\ Goto(c, "claim_head")
  /\ UNCHANGED <<open, full, empty, head, tail, lock, fifo, torn, idx, ghosts>>

DecFull(c) ==
  /\ Update(c, "dec_full", "dec_full_store", "take", "full", full, full', Dec)
  /\ UNCHANGED <<open, empty, head, tail, lock, fifo, idx, ghosts>>

\* Mutant of Take: the object moved from is not destroyed.
TakeWithoutDestroy(c) ==
  /\ At(c, "take")
  /\ got' = fifo[idx[c]] /\ Goto(c, "inc_empty")
  /\ UNCHANGED <<open, full, empty, head, tail, lock, fifo, torn, idx,
                 tk, sent, taken, calls, threw, live>>

\* val = std::move(fifo[tmp_head]), then the object is destroyed.
Take(c) ==
  /\ At(c, "take")
  /\ got' = fifo[idx[c]] /\ fifo' = [fifo EXCEPT ![idx[c]] = Raw]
  /\ Goto(c, "inc_empty")
  /\ UNCHANGED <<open, full, empty, head, tail, lock, torn, idx,
                 tk, sent, taken, calls, threw, live>>

\* The assignment throws: the exception leaves pop, with the slot out of the queue, the
\* object alive in it, and no free slot counted.
TakeThrows(c) ==
  /\ At(c, "take") /\ CopyThrows
  /\ Goto(c, "idle") /\ unread' = unread + 1
  /\ UNCHANGED <<open, full, empty, head, tail, lock, fifo, torn, idx,
                 tk, sent, taken, got, calls, unmade, live>>

IncEmpty(c) ==
  /\ Update(c, "inc_empty", "inc_empty_store", "notify_empty", "empty", empty, empty', Inc)
  /\ UNCHANGED <<open, full, head, tail, lock, fifo, idx, ghosts>>

\* Mutant of NotifyEmpty: the notification is forgotten.
NotifyEmptyNobody(c) ==
  /\ At(c, "notify_empty") /\ Goto(c, "idle")
  /\ UNCHANGED <<open, full, empty, head, tail, lock, fifo, torn, idx, ghosts>>

NotifyEmpty(c) ==
  /\ At(c, "notify_empty") /\ NotifyOne(c, "push_asleep", "push")
  /\ UNCHANGED <<open, full, empty, head, tail, lock, fifo, torn, idx, ghosts>>

----------------------------------------------------------------------------
(* The environment *)

\* condition_variable::wait may return without a notification.
SpuriousWakeup(t) ==
  /\ pc[t] \in Asleep
  /\ Goto(t, IF At(t, "push_asleep") THEN "push" ELSE "pop")
  /\ UNCHANGED <<open, full, empty, head, tail, lock, fifo, torn, idx, ghosts>>

\* Mutant of InRange: the destructor skips the slot at head.
InRangeSkipsFirst(i) == IF head <= tail THEN head < i /\ i < tail
                                        ELSE head < i \/ i < tail

\* The slots the destructor visits: from head up to, not including, tail.
InRange(i) == IF head <= tail THEN head <= i /\ i < tail
                              ELSE head <= i \/ i < tail

\* ~concurrent_queue, once no thread is inside a member function.  Its close()
\* is reached only when the queue is closed already: open stays as it is and
\* nobody is left to be woken.
Destroy ==
  /\ live /\ \A t \in Threads : At(t, "idle")
  /\ live' = FALSE
  /\ fifo' = [i \in Slots |-> IF InRange(i) THEN Raw ELSE fifo[i]]
  /\ head' = tail
  /\ UNCHANGED <<open, full, empty, tail, lock, pc, torn, idx,
                 tk, sent, taken, got, calls, threw>>

ProducerStep(p) ==
  \/ FindEmptySpace(p) \/ FindNoSpace(p) \/ SleepOnEmpty(p)
  \/ TryPushFull(p) \/ TryPush(p) \/ DecEmpty(p)
  \/ ClaimTail(p) \/ LoadTail(p) \/ CasTail(p) \/ CasTailFails(p)
  \/ Construct(p) \/ ConstructThrows(p) \/ IncFull(p) \/ NotifyFull(p)
  \/ Close(p) \/ CloseNotify(p)

ConsumerStep(c) ==
  \/ FindItem(c) \/ FindNoItem(c) \/ FindOpen(c) \/ PopClosed(c)
  \/ SleepOnFull(c) \/ TryPopEmpty(c) \/ TryPop(c) \/ TryPopFinished(c)
  \/ ClaimHead(c) \/ LoadHead(c) \/ CasHead(c) \/ CasHeadFails(c)
  \/ DecFull(c) \/ Take(c) \/ TakeThrows(c) \/ IncEmpty(c) \/ NotifyEmpty(c)

Next ==
  \/ \E t \in Threads : \E op \in Calls : Call(t, op)
  \/ \E p \in Producers : ProducerStep(p)
  \/ \E c \in Consumers : ConsumerStep(c)
  \/ \E t \in Threads : SpuriousWakeup(t)
  \/ Destroy

Spec == Init /\ [][Next]_vars

\* The operating system runs every thread that can run.  Nothing is assumed
\* about which thread gets the mutex, only that wakeups without cause end.
Running ==
  /\ \A p \in Producers : WF_vars(ProducerStep(p))
  /\ \A c \in Consumers : WF_vars(ConsumerStep(c))
  /\ <>[][\A t \in Threads : ~SpuriousWakeup(t)]_vars

\* Clients that make all their calls.
Calling == \A t \in Threads : WF_vars(\E op \in Calls : Call(t, op))

LiveSpec == Spec /\ Running /\ Calling

----------------------------------------------------------------------------
(* Properties *)

TypeOK ==
  /\ open \in BOOLEAN /\ live \in BOOLEAN
  /\ full \in 0 .. CounterMod-1 /\ empty \in 0 .. CounterMod-1
  /\ head \in Slots /\ tail \in Slots
  /\ fifo \in [Slots -> Nat \cup {Raw}] /\ got \in Nat \cup {Raw}
  /\ lock \in Threads \cup {NoThread}
  /\ pc \in [Threads -> Labels]
  /\ reg \in [Threads -> 0 .. CounterMod-1] /\ stale \subseteq {"full", "empty"}
  /\ idx \in [Threads -> Slots]
  /\ tk \in [Threads -> Nat]
  /\ sent \in Nat /\ taken \in Nat /\ unmade \in Nat /\ unread \in Nat
  /\ calls \in [Threads -> 0 .. MaxCalls]

\* Producers that counted a slot and do not own it yet, or own one they have not counted
\* in full yet; consumers that own one they have not taken out of full, not moved out of,
\* or not counted in empty yet.
Claiming == {p \in Producers : pc[p] \in {"claim_tail", "cas_tail"}}
Publishing == {p \in Producers : pc[p] \in {"construct", "inc_full", "inc_full_store"}}
Uncounting == {c \in Consumers : pc[c] \in {"dec_full", "dec_full_store"}}
Taking == Uncounting \cup {c \in Consumers : At(c, "take")}
Returning == Taking \cup {c \in Consumers : pc[c] \in {"inc_empty", "inc_empty_store"}}

\* Items counted in full that no pop has claimed.
Backlog == sent - Cardinality(Publishing) - taken

\* A push never constructs its item over one that is still in the queue: the
\* slot claimed after wait_for_empty_space is free when construct runs.
NoOverwrite == \A p \in Producers : At(p, "construct") => fifo[idx[p]] = Raw

\* Pop number k moves out the item of push number k: not raw memory, not an
\* item that was popped before, none skipped.
TakesItsItem == \A c \in Consumers : At(c, "take") => fifo[idx[c]] = tk[c]

\* A push and a pop never wait for each other: if both conditions variables
\* have a sleeper, the queue is neither empty for the one nor full for the
\* other and no call is left that would wake them.
NoMutualSleep ==
  ~ \E p \in Producers, c \in Consumers :
      At(p, "push_asleep") /\ At(c, "pop_asleep")

\* pop reads full and open one after the other, and neither is protected by
\* the mutex on the other side; so it can report "closed" with items left
\* behind, but never more than one for each producer.
LeavesFew == \A c \in Consumers : PopClosed(c) => Backlog <= Cardinality(Producers)
ClosedLeavesFew == [][LeavesFew]_vars

\* The comment in close() and the while loop of a reader rely on this: pop
\* returns false only when every item has been popped.
ClosedMeansDrained == [][\A c \in Consumers : PopClosed(c) => Backlog <= 0]_vars

\* Concurrent claims of head and tail are handed out one at a time, in the
\* order of the slots: two threads never own the same ticket, and ticket k is
\* slot k % N, whatever happens to the counters.
ClaimsInOrder ==
  LET pushing == Publishing \cup {p \in Producers : At(p, "notify_full")}
      popping == Returning
  IN /\ tail = sent % N
     /\ live => head = taken % N
     /\ \A t \in pushing \cup popping : idx[t] = tk[t] % N
     /\ \A S \in {pushing, popping} : \A t, u \in S : tk[t] = tk[u] => t = u

\* At every moment, with any number of threads, torn counters and exceptions, each counter
\* is (modulo size_t) what the claims make it, but for the threads between their claim and
\* their update of it and for the calls that threw: a push that throws leaves its slot out
\* of full and empty for good, a pop that throws leaves it out of empty.  The one thing
\* that can put a counter out of balance is a lost update, the store of a stale value.
CountersBalance ==
  /\ "empty" \notin stale =>
       ((((sent + Cardinality(Claiming))
           - ((taken - Cardinality(Returning)) - unread)) + empty) - N) % CounterMod = 0
  /\ "full" \notin stale =>
       ((((sent - Cardinality(Publishing)) - unmade)
           - (taken - Cardinality(Uncounting))) - full) % CounterMod = 0

\* The destructor destroys every item left in the queue, or none of them: the
\* latter when the queue is full, as then head = tail.
DestroysAllOrNone ==
  ~live => \/ \A i \in Slots : fifo[i] = Raw
           \/ \A i \in Slots : fifo[i] # Raw

\* A push that has started is not blocked forever while consumers keep
\* popping: every push the producers call returns.
PushesReturn ==
  <>[](\A p \in Producers : At(p, "idle"))

\* close() wakes every reader: a reader does not sleep for ever in a closed queue.
CloseWakesReaders ==
  \A c \in Consumers : [](~open => <>(~At(c, "pop_asleep")))

\* A blocking pop does not sleep for ever beside an item that is in the queue.
ItemWakesReader ==
  \A c \in Consumers : [](Backlog > 0 => <>(Backlog <= 0 \/ ~At(c, "pop_asleep")))

----------------------------------------------------------------------------
(* Why claims are in order, in every discipline: those that lead to the     *)
(* operations in progress have tickets below the number of claims.          *)

Pushed(p) == pc[p] \in {"construct", "inc_full", "inc_full_store", "notify_full"}
Popped(c) == pc[c] \in {"dec_full", "dec_full_store", "take", "inc_empty", "inc_empty_store"}

ClaimsInv ==
  /\ tail = sent % N
  /\ live => head = taken % N
  /\ ~live => \A t \in Threads : At(t, "idle")
  /\ \A p \in Producers : Pushed(p) =>
       /\ tk[p] < sent /\ idx[p] = tk[p] % N
       /\ \A q \in Producers : Pushed(q) /\ tk[p] = tk[q] => p = q
  /\ \A c \in Consumers : Popped(c) =>
       /\ tk[c] < taken /\ idx[c] = tk[c] % N
       /\ \A d \in Consumers : Popped(d) /\ tk[c] = tk[d] => c = d

----------------------------------------------------------------------------
(* Why the properties hold with one producer p, one consumer c, counters   *)
(* that do not tear and constructors that do not throw: the parts of an    *)
(* inductive invariant.                                                    *)

One(condition) == IF condition THEN 1 ELSE 0

\* The tickets whose items are in the ring: those claimed and constructed, and
\* not moved out yet.
FirstStored(c) == taken - One(pc[c] \in {"dec_full", "take"})
LastStored(p) == sent - One(At(p, "construct")) - 1

\* Where the threads can be, and what they hold.
SpscControl(p, c) ==
  /\ pc[p] \in {"idle", "push", "push_block", "push_asleep", "try_push",
                "dec_empty", "claim_tail", "construct", "inc_full",
                "notify_full", "close", "close_notify"}
  /\ pc[c] \in {"idle", "pop", "pop_open", "pop_block", "pop_asleep",
                "try_pop", "try_pop_finished", "claim_head", "dec_full",
                "take", "inc_empty", "notify_empty"}
  /\ At(p, "push_block") => lock = p
  /\ pc[c] \in {"pop_open", "pop_block", "try_pop_finished"} => lock = c
  /\ ~live => At(p, "idle") /\ At(c, "idle")

\* What the counters count, and what their tests were good for.
SpscCounters(p, c) ==
  /\ full = sent - One(pc[p] \in {"construct", "inc_full"})
              - taken + One(At(c, "dec_full"))
  /\ empty = N - sent - One(At(p, "claim_tail"))
               + taken - One(pc[c] \in {"dec_full", "take", "inc_empty"})
  /\ At(p, "dec_empty") => empty >= 1
  /\ pc[c] \in {"try_pop_finished", "claim_head", "dec_full"} => full >= 1

\* Indices are tickets modulo N.
SpscIndices(p, c) ==
  /\ tail = sent % N
  /\ live => head = taken % N
  /\ At(p, "construct") =>
       sent >= 1 /\ idx[p] = (sent - 1) % N /\ tk[p] = sent - 1
  /\ pc[c] \in {"dec_full", "take"} =>
       taken >= 1 /\ idx[c] = (taken - 1) % N /\ tk[c] = taken - 1

\* Every stored ticket is in its slot and nothing else is in the ring.
SpscSlots(p, c) ==
  live =>
    /\ \A k \in FirstStored(c) .. LastStored(p) : fifo[k % N] = k
    /\ \A i \in Slots :
         fifo[i] # Raw =>
           /\ fifo[i] \in FirstStored(c) .. LastStored(p)
           /\ fifo[i] % N = i

\* A thread that is about to sleep, or asleep, has missed at most one change
\* of its counter; so with N >= 2 they do not sleep at the same time.
SpscWakeups(p, c) ==
  /\ pc[c] \in {"pop_open", "pop_block"} =>
       \/ full = 0
       \/ /\ full = 1
          /\ pc[p] \notin {"dec_empty", "claim_tail", "construct", "inc_full"}
  /\ At(c, "pop_asleep") => full <= 1 \/ (full = 2 /\ At(p, "notify_full"))
  /\ At(p, "push_block") =>
       \/ empty = 0
       \/ /\ empty = 1
          /\ pc[c] \notin {"claim_head", "dec_full", "take", "inc_empty"}
  /\ At(p, "push_asleep") => empty <= 1 \/ (empty = 2 /\ At(c, "notify_empty"))
  /\ N >= 2 => ~(/\ pc[p] \in {"push_block", "push_asleep"}
                 /\ pc[c] \in {"pop_open", "pop_block", "pop_asleep"})

\* A claim belongs to a call.
SpscCalls(p) ==
  sent + One(pc[p] \in {"push", "push_block", "push_asleep", "try_push",
                        "dec_empty", "claim_tail"}) <= calls[p]

SpscInv(p, c) ==
  /\ SpscControl(p, c) /\ SpscCounters(p, c) /\ SpscIndices(p, c)
  /\ SpscSlots(p, c) /\ SpscWakeups(p, c)

\* At every moment the counters, the indices and the slots describe the same
\* queue, once what each thread has done to it so far is taken into account.
QueueIsCoherent == \A p \in Producers, c \in Consumers : SpscInv(p, c)

----------------------------------------------------------------------------
\* The queue implements a bounded FIFO: an item is accepted when full counts
\* it and handed out when pop moves it out of its slot.
FirstTicket == taken - Cardinality(Taking)
Contents ==
  IF live THEN [i \in 1 .. sent - Cardinality(Publishing) - FirstTicket |->
                  fifo[(FirstTicket + i - 1) % N]]
          ELSE <<>>
Tickets == 0 .. MaxCalls * Cardinality(Producers)
Fifo == INSTANCE BoundedFifo
          WITH queue <- Contents, out <- got, Items <- Tickets, NoItem <- Raw
ImplementsFifo == Fifo!Spec

=============================================================================
