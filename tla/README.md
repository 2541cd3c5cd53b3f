# A TLA+ model of libcpp-util

libcpp-util is a header-only C++11 library: synchronisation primitives, FIFOs,
allocators, containers, string tools and a few wrappers. This directory holds
TLA+ modules of its parts, TLC configurations that check them on small
instances, and theorems proved with TLAPS for all values of the constants.
`PROJECT.json` maps every definition to the source lines it models.

1. [The system](#1-the-system)
2. [Plan](#2-plan)
3. [Modules and the code](#3-modules-and-the-code)
4. [Runs, bounds and fairness](#4-runs-bounds-and-fairness)
5. [What is proved](#5-what-is-proved)
6. [Where code and documentation disagree](#6-where-code-and-documentation-disagree)
7. [What is not modelled](#7-what-is-not-modelled)

## 1. The system

Parts, with their state, their operations, what is hard about them and what
makes them correct. Paths are relative to `src/`.

| Part | State | Operations | What is hard | Correct when |
|---|---|---|---|---|
| Blocking queue, `fifo/concurrent_queue.h` | ring of N slots, `head`, `tail`, counters `full` and `empty`, `open`; a mutex and two condition variables | `push`, `try_push`, `pop`, `try_pop`, `close`, destructor; four disciplines (one or many producers or consumers) | the counters change outside the mutex that guards their tests, and notifications are sent without it; constructors and assignments may throw; close races with pop | FIFO, no slot overwritten or read raw, nobody sleeps for ever, closed means drained |
| Semaphore, `smp/semaphore.h` | `count`, `waiters`, a spinlock, a condition variable | `post`, `post_all`, `wait`, `try_wait` | `post` notifies after unlocking; a permit can be stolen between notification and wakeup; spurious wakeups | permits are conserved; a waiter gets a permit that stays available |
| Spinlock, `smp/spinlock.h` | an `atomic_flag` | `lock`, `try_lock`, `try_lock_for`, `try_lock_until`, `unlock` | a deadline that races with the release | mutual exclusion; `lock` and timed tries return |
| No-op lock, `smp/nooplock.h` | none | empty | | |
| Shared singleton, `util/shared_singleton.h` | `data_`, the flag `dead_`, a spinlock; shared pointers of callers | `get`, destructor | double-checked locking; constructors that throw inside the critical section | one object, which every `get` returns |
| Slab allocator, `mem/slab_allocator.h` | slabs (bitmaps of free slots), lists of free, partial and full slabs, map from addresses, hot slab | allocate, deallocate (an object, or an array, which bypasses the slabs), `trim_slabs`, destructor | a block must find its slab again; the hot slab is in a list or not; trimming | no block twice; every slab in the list of its occupancy; leaks reported when there are any |
| Fixed and small-object allocators, `mem/fixed_allocator.h` | vector of chunks with free lists inside the blocks, two hints into the vector; a sorted vector of those, with two hints | allocate, deallocate at both levels | the hints are pointers into vectors that grow; clients write over the links | no block lost or handed out twice; hints never dangle |
| Object stack, `mem/objstack_allocator.h`, `mem/util.h` | list of nodes, per node the free bytes; allocators that share stacks | allocate (arrays of objects of any alignment), `align`; copies and moves of the allocators | padding that wraps around; arithmetic at the end of a node; who keeps a stack alive | blocks disjoint, aligned, inside their node; a stack outlives its blocks |
| Ring buffer, `fifo/ring_buffer.h` | slots, `head`, `tail` | `push`, `pop_value`, destructor | full and empty look the same; no check; an index moves before a constructor or an assignment that may throw | FIFO while the client keeps to N - 1 items |
| Sorted vector, `ADT/sorted_vector.h` (`contiguous_set`) | a vector of unique keys in order | construct, assign, `swap`, `insert` (value, hint, range), `emplace`, `find`, `erase` | iterators that a growing vector invalidates; hints that are wrong; moved-from arguments | sorted and unique; a set to its client; iterators returned are valid |
| Bloom filter, `ADT/bloom_filter.h` | bits | `insert`, `count`, copy, comparison | keys share bits | no false negatives |
| Substring search, `cxx14/string_algo.h` | the table and indices of one call | `KMP` | the failure table | first occurrence, in every case; ends |
| String and array references, `cxx14/string_ref.h`, `string_view.h`, `array_ref.h` | a pointer and a length | mutators, `slice`, searches | unsigned arithmetic at both ends; null references | stays in its text; searches as in `std::basic_string` |
| Signal handlers, `sig/signal_handler.h` | names of signals, an alternate stack, the kernel's table of handlers | registration, delivery, reraise | handlers that interrupt registration, the program and one another | a handler finds what it needs; a reraise ends the program |
| `FILE*` owner, `stdio/stdio_file.hpp` | a `FILE*` | open, close, reset, release, move, swap | a close that fails; opening over an open stream | one owner for each stream |
| Reference count handle, `util/ref_count_handle.h` | a reference to a counter | constructor, destructor, move | a move counts nothing | |
| String building, `str/string_utils.h`, `str/strprintf.h` | a string of the client | `concat`, `concat_in_place`, `strprintf`, `astrprintf` | the string moves under references into it, when it grows or shrinks; arguments read twice; lengths with and without a NUL | the text that was meant; one allocation |
| Stateless adapters: `util/raw_array.h`, `mem/malloc_allocator.h`, `mem/out_of_luck_allocator.h`, `mem/allocator_chain.h` | none | | | |

How the parts interact: the semaphore and the singleton run their critical
sections under the spinlock (`LockedSemaphore`, `SharedSingleton`); the
small-object allocator keeps fixed allocators in a sorted vector and allocates
from them (`SmallObjectAllocator` over `Chunks`), and its base is a shared
singleton; allocators share object stacks (`StackAllocator`);
`string_ref::find` calls `KMP`; concatenation takes `string_ref`s, into the very
string it changes too (`StringUtils`); `string_ref` converts to `array_ref`;
queue and ring buffer construct objects in raw arrays. The other parts meet
only in client code.

`README.md:21` and `:31` list a thread pool and a dynarray, for which there is
no source.

## 2. Plan

Concurrency first, then the allocators, then sequential structures.

| Step | Modules | Abstract specification | State |
|---|---|---|---|
| 1 | `ConcurrentQueue` | `BoundedFifo` | checked; order of the claims and balance of the counters proved for all disciplines, torn counters and calls that throw, the other invariants and the refinement for one producer and one consumer |
| 2 | `Spinlock`, `Semaphore`, `SharedSingleton` | `Mutex`, `CountingSemaphore` | checked; invariants and both refinements proved |
| 3 | `SlabAllocator`, `FixedAllocator` | `BlockPool` | checked; invariants and refinements proved |
| 4 | `SmallObjectAllocator`, `ObjStack`, `RingBuffer` | `BlockPool` for the first, `BoundedFifo` for the ring | checked; invariants and refinements proved |
| 5 | `SortedVector` | `OrderedSet` | checked; order, uniqueness and the refinement proved |
| 6 | `KMP`, `StringRef`, `ArrayRef`, `BloomFilter`, `SignalHandler`, `StdioFile` | definitions on sequences | checked; invariants proved |
| 7 | `LockedSemaphore`: the semaphore over the steps of the spinlock | `Semaphore` | checked; refinement proved |
| 8 | `Chunks`, shared by both levels of `mem/fixed_allocator.h`; arrays of both allocators; `StackAllocator` | `BlockPool` | checked; invariants and refinements proved |
| 9 | `SortedVector`: assignment, `swap`, moves; iterators that dangle | `OrderedSet` | checked; `InsertReturnsTheKey` proved |
| 10 | `StringView`, `StringUtils`, the rest of `StdioFile` and `ArrayRef` | definitions on sequences | checked; invariants proved |
| 11 | `ConcurrentQueueProofs`, `AllocatorsProofs`, `UtilitiesProofs` | `BoundedFifo`, `BlockPool` | every invariant the runs check, and the refinements, proved |
| 12 | open: `ClosedLeavesFew` for many producers, each of which can count one item while a reader holds the mutex | | |

## 3. Modules and the code

One action is one step that another thread (or signal handler) can observe;
sequential code has one action per operation. Control is kept in full; data is
model values or small numbers. Memory orders are not modelled: all atomics
behave as if sequentially consistent.

**`ConcurrentQueue`** (`MCConcurrentQueue`, `ConcurrentQueueProofs`).
`pc[t]` is the next statement of thread t in its member function. The two
counters are tested under the mutex (`FindItem`, `FindNoItem`, `FindEmptySpace`)
and changed outside of it, each in a step of its own; construction of an item,
claim of an index (a plain store or a compare-and-swap loop, by discipline)
and both notifications are steps too. Items carry no data: an item is the
number of the push that claimed its slot, so "pop number k takes item k" says
FIFO, nothing lost and nothing twice. `TornCounters` splits `full++` into its
load and its store, which is what a build may do with the plain `size_t`
members; a store that loses the update of another thread is recorded in `stale`.
`CopyThrows` lets constructors fail, and the assignment of a popped item to the caller:
the exception leaves the call where it stands, so the claim stays, a slot is left raw or
alive, and a counter is not updated. `BoundedFifo` is what README.md
promises: a queue of at most N, pushes at one end and pops at the other.

**`Spinlock`** is the flag, a program counter per thread and a clock; each
test-and-set is a step, and reading the clock is another. `Mutex` is its
abstraction: an owner or none. **`Semaphore`** treats a critical section as one
action, which `Spinlock` => `Mutex` justifies; unlocking, notifying, sleeping,
waking and re-locking are steps. `CountingSemaphore` is a number of permits and
the set of threads that wait; `post_all` may release as many permits as there
are waiters. **`SharedSingleton`** has the steps of double-checked locking:
first test, spin, second test, construction (which may throw), publication of
`data_`, clearing of the flag, unlock; callers hold copies of the
shared pointer.

**`LockedSemaphore`** (`MCLockedSemaphore`) composes the two: every access to `count` and
`waiters` is a step, the spinlock is the flag that threads test and set, and
`cv.wait` gives it back in the middle of `wait`. `Semaphore` is its abstraction:
the counters there change at once, so a thread halfway through a section has
not changed them yet, or has, depending on which statement the section stands
for. The spinning is kept as the choice of the thread that finds the flag clear.

**`SlabAllocator`** has slabs at addresses, each with its set of free slots, the
three lists, the address map, the hot slab, and the arrays that went to
`operator new` instead. **`Chunks`** is the lower level of `mem/fixed_allocator.h` as
values: chunks, whose free lists are where the code keeps them, inside the free
blocks, which clients overwrite while they own them; and a fixed allocator, a
record with its vector of chunks and its two hints, positions in the vector, or
`Dangling` when the vector has moved from under them.
**`FixedAllocator`** is one such value and its client;
**`SmallObjectAllocator`** the sorted vector of them by size, with two hints of its own that
an insertion invalidates, and the requests that go past it. `SlabAllocator` and
these two implement `BlockPool`: allocate a block that is not in use, free one
that is. **`ObjStack`** computes `align` in 8 bits (`Modulus`) in the place of 64, with
the subtraction that wraps; arrays so long that their size and pad wrap too are left out
(`ObjStackAssumption`). **`StackAllocator`** has the allocators on object
stacks and the containers that keep one each, with their blocks: copies share
a stack, a moved-from allocator has none, and large requests go to `malloc`.
Where a block lies in its stack is `ObjStack`'s. `MCAllocators` runs these five
side by side.

**`SortedVector`** works on a sequence of keys with a `Rank` (equivalent keys
have the same) and models `std::lower_bound` by its definition, so an unsorted
vector would give whatever that gives. Iterators are positions, or `Dangling`
when the vector has moved since. `MovedFrom` is what a key looks like after a
move, `OtherRank` the comparison of the vector that is swapped with.
`OrderedSet` is the set its client sees. Insertions with a hint and the
assignment of a list have no return statement in the code: they are modelled as a build whose
functions end there all the same.

**`RingBuffer`** has the slots and the two indices. Both are moved before the object is
touched, so a push whose constructor throws (`push_throws`) leaves a raw slot between
them (`holes`), and a pop whose assignment throws (`pop_value_throws`) an object behind
`head` that nobody destroys (`leaks`) until a push constructs over it. The client counts
a push that threw as one it made, and reads nothing in the place of the item when it pops
it. **`KMP`** has one action per
loop iteration. **`StringRef`** computes pointers as addresses of `AddressBits`
bits; a search is a loop that ends at the first address it accepts or may not
read. **`StringView`** is the same text with other names, through an instance of
`StringRef`, and adds the elements and iterators of a view. **`ArrayRef`** keeps,
beside the members, the part of the array that the client asked for.
**`StringUtils`** has a string with its capacity and the changes of its buffer
in a call; arguments refer to other texts or to the string itself, and a text
read from a buffer that was given back is `Garbage`. `reserve` changes the buffer when
the room is too small, and may do so when it is larger than asked, a request to shrink up
to C++17 (`Moves`). What a format gives is any
text (`std::vsnprintf` is not modelled); `vstrprintf` measures it and writes it in two
calls, and writes anything if an argument is in the string that it resizes in between.
`strprintf` passes its arguments to `vsnprintf` as they are, so it compiles for one
`va_list` only, and the first call uses that up: the model is of this use.
**`BloomFilter`** keeps, beside the bits,
the keys given. **`SignalHandler`** has a stack of frames (handlers nest), the
registration step by step, and the kernel's masks and pending set.
**`StdioFile`** has the member `F` of each object and the C library's streams,
where `::fclose` may fail, and closes the stream then too; a stream that is
used or closed after its end is recorded. `MCUtilities` runs the
modules of this paragraph side by side.

`RingBuffer` and `StdioFile` model members that do not compile as written (the
first has its constructor and destructor named after another class, the second
a `freopen` that calls itself with the wrong types): they are modelled as they
read, `freopen` is left out.

## 4. Runs, bounds and fairness

Properties of passing runs; each has a mutant of the code, listed in
`PROJECT.json`, that breaks it.

| Run | Bounds | Shows |
|---|---|---|
| `cq_spsc` | 1 producer, 1 consumer, N = 3, 6 calls each, counters not torn, nothing throws | coherent counters and slots, FIFO, no mutual sleep, at most one item stranded by `close`, refinement of `BoundedFifo` |
| `cq_live` | 1 + 1, N = 2, 5 blocking calls each | every push returns though notifications can be lost |
| `cq_many` | 3 producers, 2 consumers, N = 2, 1 call each, torn counters, throwing constructors and assignments | slots are claimed in order; at every moment the counters are what the claims, the operations in progress and the calls that threw make them, unless a stale value was stored |
| `sem_any` | 4 threads, 2 calls each | permits are conserved, `waiters` is never too large |
| `sem_locked` | 3 threads, 2 calls each, 1 permit; in each behaviour everybody calls anything, or one waits and the others post | statements over the spinlock implement the semaphore with atomic sections; calls end or sleep in `wait`; a thread that waits alone is served |
| `spin` | 3 threads, 2 calls, a clock | mutual exclusion; `lock` returns if owners unlock; timed tries return even if not |
| `single` | 3 threads, 2 calls, constructors throw | one object, returned by every `get`; every `get` comes back |
| `svec` | 4 keys of which two are equivalent, bulks of 3, a vector that grows by what it needs or one more | sorted and unique; the iterators of `insert`; a set to its client, but for `erase(key)` |
| `allocators` | slabs: 3 of 3 slots, 1 preallocated, 1 array; chunks: 2 of 3 blocks; small objects: 2 sizes, chunks of 2 blocks, 3 in use; stack: nodes of 8 bytes, addresses modulo 256, 4 blocks; users: 3 allocators, 2 stacks, 2 blocks held, sizes modulo 16 | slabs: lists, maps and the search agree, the leak report is right, only trimming loses the hot slab; chunks: free lists hold free blocks, totals, hints, at both levels; no block is handed out twice; stack: the free bytes lie beyond the blocks, only requests that are too large fail; users: a stack outlives its blocks, what `malloc` gave is freed once |
| `utilities` | ring: 4 slots, 3 items; search: 2 letters, texts to 6, words to 4; views: 3 letters, texts to 3, 4-bit addresses; array of 7, 4-bit lengths, -1 among them; strings to 3 characters, 2 arguments, capacity 2 beyond need; 2 Bloom filters of 5 bits, 2 hashers, 5 keys; 2 file objects, 3 streams; 3 signals, 3 registrations, 3 arrivals | ring: FIFO, objects constructed and destroyed once, but for what a push or a pop that throws does; search: table, search, result; references and views stand for what was asked, searches for a character agree with a string; strings: the text meant, unless a part of the string moves or a format reads its arguments anew, one allocation; Bloom: no false negatives, only collisions; files: one owner, what leaks, what is closed twice or used after its end; handlers find their data, a reraise ends the program |
| `cq_mp_overwrite`, `cq_close_wakes` | 2 producers; 1 + 1 | what section 6 says of them: here TLC finds a counterexample |

`MCAllocators` and `MCUtilities` hold parts that share no state. In each
behaviour one of them runs, chosen at the start by `part`, and the others rest
in their initial states, so the states of the run are the sum of the states of
the parts, and each property,
a conjunction of invariants of the parts, is checked in all of them. Their next-state relations and properties are those
of the parts' own modules, and their constants are those of the parts: the texts and the
hash functions of `utilities` too are values that its configuration gives.

Why these are enough. Every hazard needs at most two threads on a side: with
two producers one can be stopped between a test and the counter change while
the other runs, with N = 2 or 3 the ring wraps around during the calls
allowed, and six calls each let it wrap twice. Two waiters are the least that
can steal a permit; four threads leave two to post, and statement by statement
(`sem_locked`) three threads still have one that waits, one that steals and
one that posts. Bulks of three keys can be in any order and hold equivalent ones.
Three allocators on two stacks can be copied and moved round in a circle. Two chunks and three slabs
are the least with a neighbour on both sides of, or a vector that grows under,
a hint. Three blocks give a free list every shape: head, middle, end. Words of
four letters over two letters have borders of borders, which is what the table
needs twice. Counters (`MaxCalls`, `MaxTime`, `MaxBlocks`, `MaxArrivals`,
`MaxCloses`, ...) are guards of the clients' actions only; a run ends when they
are used up, hence `CHECK_DEADLOCK FALSE` in those configurations. One call of each thread is
enough for `cq_many`: a retry of a compare-and-swap, a lost update and an exception each take one call of
two threads, and a producer and a consumer that come later see what they left. Its `VIEW`
leaves out what no step and neither property reads: the items in the slots, and the registers
and the tickets of threads that are past their use.

Fairness. Weak fairness of the steps inside a call says that the operating
system runs a thread that can run; nothing is assumed about who gets a lock,
so a thread may lose every race while the others still have calls. As calls
are bounded, the spinlock is free from some moment on; with unbounded calls
`lock` could starve, and that is not claimed. Wakeups without cause, which
`std::condition_variable` allows, end at some moment: without that the code
would poll, and lost notifications would not show. Clients of `cq_live` make
all their calls; `LockIsTaken` of `spin` is about the behaviours in which owners unlock. A
signal handler that runs goes on. Symmetry is used in safety runs alone.

## 5. What is proved

All theorems hold for any number of threads, calls, slots and keys; TLC checks
the properties they state on the instances above (`TypeOK` and the inductive
invariants hold there too, when added to `INVARIANTS`). Constants have only the
assumptions named in their modules.

- **Queue** (`ConcurrentQueueProofs`).
  `TypeCorrect` holds for every discipline. For one producer p and one consumer
  c, without torn counters and without constructors and assignments that throw (`Spsc(p, c)`,
the hypothesis of every theorem named `Spsc...`),
  `SpscInvariance` proves the inductive invariant `SpscInv`, with the parts
  `SpscControl` (where the threads can be and who holds the mutex),
  `SpscCounters` (what `full` and `empty` are, given the operations in
  progress), `SpscIndices` (`tail` and `head` are the numbers of claims modulo
  N) and `SpscSlots` (the slots hold the items claimed and not taken, and
  nothing else). `NoOverwrite` and `TakesItsItem` are not inductive: whether a
  slot is free depends on `empty >= 1` having been tested by the only thread
  that can lower it. `SpscNoMutualSleep` rests on one more part, `SpscWakeups`: a
  thread that is about to sleep, or asleep, has missed one change of its
  counter at most. With two slots or more, both counters cannot then be low
  enough for both threads; with N = 1 they can (`cq_one_slot.cfg`).
  `SpscClosedLeavesFew` uses the same part: between the test of `full` and that
  of `open`, one item at most was counted. `SpscRefinesFifo`: the abstract queue is the row of tickets
  from the first one not taken to the last one counted, so `IncFull`
  accepts, `Take` hands out, `Destroy` discards, and all other steps stutter;
  `SpscCalls` says that no more items are claimed than calls are made.
  `SpscDestroysAllOrNone`: fewer than N tickets in a row have exactly the slots from
  that of the first up to that of the next one, N of them have all slots (`RingRange`,
  `RingCovered`).
  `ClaimsAreInOrder` is about any number of threads, torn counters and throwing
  constructors included: the compare-and-swap succeeds only for the thread that
  read the last value. Its invariant `ClaimsInv` has the tickets of the claims in
  progress below the number of claims. It rests on `DisciplineAssumption`: a
  single discipline is used by one thread, as its index is a plain integer.
  `CountersAlwaysBalance` is about any finite numbers of threads too, with no hypothesis beyond the
  assumptions of the module: torn counters, and constructors and assignments that throw, are
  among the cases. Its invariant counts the threads between a claim and their update of a
  counter (`Claiming`, `Publishing`, `Uncounting`, `Returning`) and the calls that threw: every
  step moves a counter and one of these sets together, or wraps the counter, which changes
  the sum by `CounterMod`. A store that follows its load with no other update in between is the
  increment it should be; one with such an update puts its counter into `stale`, of which the
  property says nothing more: that is what a build may do with `full++` on a plain `size_t`
  (section 6, `cq_torn`).
- **Spinlock**. `LockExcludes`: the flag is set exactly while one thread holds
  the lock. `RefinesMutex`: each step is a step of `Mutex` or a stutter.
- **Semaphore**. `CountedWaitersWait`: `waiters` plus the permits handed over
  never exceeds the threads in the loop of `wait`; the set of those threads is
  finite, and each action moves one thread in or out of it.
  `RefinesCountingSemaphore` follows, as it bounds what `post_all` adds.
- **Semaphore over the spinlock** (`LockedSemaphoreProofs`). `RefinesAtomic`: each statement is a step of
  `Semaphore` or a stutter, so what is proved of atomic sections holds
  of the code's statements. The invariant is that one thread at most is between
  lock and unlock (`Guarded`), the flag is set exactly then, and what that
  thread has tested under the lock is still so; with it, the mapped counters
  depend on the label of that one thread only. `TypeCorrect` comes from the same invariant.
- **Singleton**. `SingletonInvariance`: one thread between lock and unlock, the
  flag is cleared after `data_` is stored. From it `MakesOneObject`,
  `ReturnsTheObject` and `PublishedDoesNotChange`.
- **Slab allocator** (`AllocatorsProofs`), for any addresses and any number
  of slots. The invariant `SlabInv` has four parts: types; `SlabFiled`, each slab is in
  the list of its counter, and memory that is no slab counts nothing; `SlabMapped`, a
  counter is the number of slots marked as used, which are those the client holds;
  `SlabCached`, the slot that `next_free` returns without looking is free: the cache is
  0 only in a slab never used and 1 only after its first allocation.
  `SlabKeepsItsBooks`, `SlabFindsTheOwner` and `SlabReportsNoFalseLeak` follow, and
  `OnlyTrimmingLosesIt`. `SlabRefinesPool`: an allocation hands out a block
  nobody holds, and slabs with blocks in use are not among those deleted.
- **Fixed and small-object allocators** (`AllocatorsProofs`), for any numbers of blocks
  and chunks and any sizes. A free list lies in the bytes of the blocks that are
  free, so the invariant of a chunk (`Lists`) says that there is a path: as many
  different blocks as the chunk counts, which are the blocks not in use, each with the
  next one in its first byte, from `first_free_block` on. `deallocate` puts a block
  before the path, `allocate` takes the first one off it, and a client writes into
  blocks that are not on it (`PoppedLists`, `PushedLists`, `WrittenLists`).
  `FreeListIs` shows that the walk of `Chunks` gives the blocks of the path. `Sound` is a
  fixed allocator all of whose chunks are so, with a total that is the number of
  free blocks, and hints inside the vector: `FixedInv` says this of one, `SmallInv` of
  each of a sorted vector. In a vector sorted by size, `std::lower_bound` in the range
  that the hint leaves finds the size if it is there (`LowerBoundFinds`, `AllocatorIsFound`), so
  an object goes back to the allocator it came from. `FixedKeepsItsBooks`,
  `SmallKeepsItsBooks`, and the refinements `FixedRefinesPool` and `SmallRefinesPool` follow.
- **Object stacks** (`AllocatorsProofs`). `StackKeepsBlocksApart`: align moves
  the pointer back by one byte or forward by the alignment less one (`PadIs`), and the
  free bytes, by the same modular arithmetic, lose the pad and the request (`CutIs`),
  so they begin where the new block ends. A request that fails has been tried in a
  fresh node (`FailsIs`). That blocks are apart from each other is false (section 6): the byte
  that the pointer moves back may belong to another block. `UsersKeepTheirStacks`: an
  allocator whose container has blocks is on a stack (`UsersInv`), and a block comes from
  it, or from `malloc` by its size alone, which `deallocate` looks at again.
- **The allocators together**. `MCAllocators` implements each of its parts
  (`SlabPart`, `FixedPart`, `SmallPart`, `StackPart`, `UsersPart`), so the properties of the
  run `allocators` are theorems of its specification: `SlabsAlwaysAgree`,
  `ChunksAlwaysAgree`, `StacksAlwaysAgree`, `HotSlabIsLostByTrimming`, `AllocatorsRefinePools`.
- **Utilities** (`UtilitiesProofs`), in the same way for the parts of `MCUtilities`.
  - Ring buffer: `RingAlwaysHoldsWhatIsInside` and `RingIsFifo` measure every slot by its distance
    from `head` round the ring; the slots nearer than `tail` hold objects but for the holes, the
    others none but for the leaks. The abstract queue has one step more for each call that throws:
    `AcceptNothing`, `LoseOldest`. Hypothesis
    `Limit < RingSlots`: the client leaves a slot empty, as with none the ring
    looks empty (section 6).
  - Substring search: `FindIsAlwaysRight`. The invariant `FindInv` says that the table filled so far
    has the longest proper borders (`LongestBorder`), that the position in the word is that of
    the longest prefix of it which ends here and is not yet excluded (`LongestEnd`),
    and that the word does not begin at any place left behind (`NoneBefore`). A
    mismatch then goes to the longest border, as borders of a border are borders.
  - Views and references: `SearchesAlwaysAgree` and `ReferencesAlwaysStayInside` rest on
    `ViewInv` (a view that is not null is a part of the string viewed), `ArrayInv` (an array
    reference is the part asked for, or -1 was the length) and `StrInv` (the string has the
    length of the text wanted, and is that text unless a part of the string was read after the
    buffer had changed, which `concat_in_place` brings about once at most, before it reads any, or
    a format read other arguments than it had measured).
    `StringRefAssumption` says that no address wraps and that what lies outside
    of the text (`outside`) is no character.
  - Bloom filter: `BloomIsAlwaysRight`; the bits are those of the keys inserted, for any hashers.
  - `FILE*` owner: `FilesAreAlwaysOwned`. `FileInv` says that the streams of two objects
    differ, and that a stream is closed once unless `fclose` failed on it.
  - Signal handlers: `HandlersAreAlwaysReady`. `SigInv` says which registrations have been made
    wherever a frame of the stack stands: the name is whole before the handler is installed,
    and the alternate stack is there before the handler of SIGSEGV.
- **Sorted vector**. `StaysOrdered`: every element is less than all that follow
  it (stronger than `validate()`, which compares neighbours, and what the
  binary searches need), for any operation with any hint. `NeverInvalid`
  follows, and `InsertReturns`: the iterator of `insert` does not dangle and is at the key.
  `IsSetButEraseKey` is the refinement: the set is the range of the vector, and every call but
  `erase(key)` maps to the operation of `OrderedSet` of its name or to a stutter. It needs the
  order, because `lower_bound` finds an equivalent key exactly when one is present
  only in a vector in order.
  Hypotheses `MoveCopies`: a moved-from key equals the key, as for
  types without a move constructor; and `SameOrder`: a vector that is swapped
  with compares alike. Section 6 shows why both are needed.

Every invariant that the runs check is a theorem. Only model-checked: liveness
(`PushesReturn`, `CallsEnd`, `OneWaiterIsServed`, `LockIsTaken`, `TimedTryReturns`, `GetReturns`,
`ReraiseEnds`), for which the prover has no rule of fairness. With more than one producer or
consumer only `ClaimsInOrder` and `CountersBalance` are proved; `NoOverwrite` and `TakesItsItem` are
false there (section 6). What would need induction over data is stated by quantifiers instead: a border and a
path through a free list are sets and functions with a property, not the result of a recursion.

## 6. Where code and documentation disagree

Two have a run, of which `PROJECT.json` quotes the line that is contradicted. For
others there is a configuration beside the runs. For the rest, put the property
of the table in the place of those of the run's configuration: TLC finds a
counterexample. (`MCAllocators` and `MCUtilities` end with the definitions of theirs.)

| Run or configuration | Property | Source | What |
|---|---|---|---|
| `cq_mp_overwrite` (run) | `NoOverwrite` | `fifo/concurrent_queue.h:154` | two producers pass one test and take the same last slot; README.md:20 promises multiple producers |
| `cq_close_wakes` (run) | `CloseWakesReaders` | `:145` | `close` does not wake a reader between test and wait |
| `cq_torn` | `TakesItsItem` | `:110` | `full` and `empty` are plain integers changed by both sides: a data race even with one producer and one consumer |
| `cq_mc_take` | `TakesItsItem` | `:208` | two consumers see the same last item |
| `cq_many` | `TakesItsItem` | `:188`, `:166` | a pop takes a slot claimed and not yet constructed, because another producer published first; or the slot of a constructor that threw, when a later item is counted |
| `cq_one_slot` | `PushesReturn` | `:159` | a lost notification with N = 1: both sides sleep |
| `cq_closed_drained` | `ClosedMeansDrained` | `:93` | "closed" is reported with an item left |
| `cq_live` | `ItemWakesReader` | `:159` | a reader sleeps beside an item |
| `sem_locked` | `WaitersAreServed` | `smp/semaphore.h:56` | a waiter whose permit is stolen is not counted again |
| `allocators` | `HotSlabIsUsable` | `mem/slab_allocator.h:175` | `trim_slabs` deletes the hot slab; the comment at `hot_slab` says "not full" |
| `allocators` | `PointersAreAligned`, `BlocksAreDisjoint` | `mem/util.h:28` | the mask of `align` clears one bit: pointers are not aligned, blocks overlap |
| `svec` | `ImplementsSet` | `ADT/sorted_vector.h:243` | `find` is turned round, which `erase(key)` trusts |
| `svec` | `EmplaceReturnsTheKey` | `:219` | `emplace` returns an iterator from before the insertion |
| `svec`, `MovedFrom <- Emptied` | `AlwaysValid` | `:215` | `emplace` forwards its arguments twice |
| `svec`, `OtherRank <- Reversed` | `AlwaysValid` | `:163` | `swap` exchanges the keys but not the comparators |
| `utilities` | `PrintsAddresses` | `sig/signal_handler.h:33` | the message ends at a NUL left in its middle |
| `utilities` | `NoRawInside` | `fifo/ring_buffer.h:57`, `:53` | `tail` is past the slot when its constructor throws: `pop_value` and the destructor take it for an object |
| `utilities` | `NoObjectBehind` | `fifo/ring_buffer.h:68` | `head` is past the object when its assignment throws: nobody destroys it |
| `utilities` | `StringAlwaysAgrees` | `str/string_utils.h:38`, `str/strprintf.h:27`, `:48` | a string appended to itself moves under its argument, when it grows or when `reserve` shrinks it; formats into a string that is an argument; `strprintf` uses one `va_list` twice |
| `utilities` | `NoNulInString` | `str/strprintf.h:27` | the NUL of `vsnprintf` stays inside the string |
| `utilities` | `AbsentIsNpos`, `RfindStaysInText`, `RfindFindsWord` | `cxx14/string_ref.h:150`, `:164`, `:159` | searches differ from those of a string |
| `utilities` | `BackIsLast`, `LoopsVisitAll` | `cxx14/string_view.h:101`, `:64` | `back()` reads behind the last element; `end()` is `begin()` |
| `utilities` | `AtAlwaysStaysInArray` | `cxx14/array_ref.h:71` | `slice(pos)` keeps -1 as the length |

Met while reading, and not in a model: `slab_allocator.h:214` deletes an array
of `T` with `::delete`, which runs a destructor that the container has run;
`strprintf.h:45` and `:48` pass arguments where `vsnprintf` wants a `va_list`;
`stdio_file.hpp:160` and `:171` pass a `va_list` where `fprintf` and `fscanf` want arguments;
`operator==` of the small-object allocator compares the addresses of two
members (`fixed_allocator.h:287`), so no two objects are equal; the
converting constructor of the object-stack allocator asserts statically on a
value that is no constant (`objstack_allocator.h:108`).

`capacity()` of the ring buffer returns N (`fifo/ring_buffer.h:43`), but N items
look like none: with `Limit` = N, `RingHoldsWhatIsInside` of the run `utilities`
fails.

Where a defect would hide everything behind it, the passing runs go around it
by a constant (`MovedFrom`, `OtherRank`, `Limit`, N >= 2, and in `cq_spsc` and `cq_live`
`TornCounters` and `CopyThrows`) or by
a condition in the property (lengths other than -1; counters until a stale value is stored,
slots whose calls did not throw; strings no part of which moved; slabs until a deleted hot
slab is used, where the behaviour ends).

## 7. What is not modelled

- Memory orders and what weaker ones allow; the width of the semaphore's count.
- `nooplock`, raw arrays, the adapters over `malloc`, allocator policies: no
  state and no control. `allocator_chain` is an empty class that derives from the
  rest of its arguments and forwards nothing.
- Members that do not compile when used: `|=` and `&=` of the Bloom filter;
  `compare`, `substr`, `ends_with` and the searches for sets of characters of
  `string_ref` and `string_view`; the searches of a const `sorted_vector`
  (`comp_refwrap` is not const); `freopen`; `strprintf` with any arguments but one `va_list`.
- The singleton of the small-object allocators' base: its `get` is `SharedSingleton`,
  and nothing says that threads may share what it returns, which has no lock.
- What `std::vsnprintf` makes of a format.
- `ref_count_handle`: a move copies the reference and counts nothing, so two
  destructors subtract; nothing in the repository says what the counter should be.
- The backtrace of the signal handlers and the choice of the descriptor.
- The thread pool and the dynarray of `README.md`: no source.
