# A verification project for cpp_concurrency_masterclass

The repository is a collection of small concurrent C++ programs that belong to
a course: thread-safe containers, barriers, thread pools, parallel algorithms,
a lock-free hash table, and demonstrations of single library features.  It has
no README and no unit tests; a `main.cpp` beside each header runs it once.  What
it has are several data structures that other directories use (the work queue
of `common/` is in every pool, the same block arithmetic is in every parallel
algorithm) and many places where the order of two threads' steps decides.

This directory holds TLA+ specifications of those parts, TLC configurations
that check them on small instances, and theorems that TLAPS proves for every
value of the constants.  `PROJECT.json` names, for every definition, the lines
of code it models.

To check a specification: `tlc -config X.cfg M.tla`; to check a proof:
`tlapm M.tla`.

## 1. The system

### Parts that keep shared state

| Part (src/) | State | Operations | How it is used |
|---|---|---|---|
| `common/common_thread_safe_queue.h` | a `std::queue`, a mutex, a condition variable | `push`, `try_pop` (2), `wait_and_pop` (2), `empty` | work queue of every pool |
| `common/common_objs.h` | a vector of threads; a type-erased task | `~join_threads`, `function_wrapper` | all pools and block algorithms hold a `join_threads`; tasks are wrapped |
| `s8_simple_threadpool/` | flag `done`, work queue, threads | constructor, `submit`, `worker_thread`, destructor | plain functions |
| `s8_simple_threadpool_waiting/` | the same, with packaged tasks and futures | the same, and `parallel_accumulate` which owns a pool | |
| `s8_simple_threadpool_waiting_for_others/`, `..._with_local_work_queue/` | the same | `run_pending_task`, called by tasks that wait; `parallel_quick_sort` | both files hold the same pool |
| `s8_simple_threadpool_with_work_stealing/` | a queue per worker, a pool queue, `thread_local` index and queue pointer | `submit`, `run_pending_task` over three kinds of queue; `parallel_quick_sort` | |
| `s4_thread_safe_queue/` | linked list with a dummy node, head and tail mutex, condition variable | `push`, `pop`, `wait_pop`, `printData` | five versions; the last is concurrent |
| `barrier/`, `latch/`, barrier of `scan/` | counters and a generation (atomics, or under a mutex) | `wait`, `done_waiting` | the barrier of `scan/` by the partial sum in rounds |
| `scan/partial_sum.h` | the caller's list, promises, a buffer | `parallel_partial_sum`, `parallel_partial_sum_barrier` | threads in blocks; a thread per element |
| `find/parallel_find.h` | a promise, a flag | `parallel_find_pt`, `parallel_find_async` | threads in blocks; recursion on `std::async` |
| `HashTableX/`, `hashmap/` | an array of atomic keys and values | `SetItem`, `GetItem`, `GetItemCount`, `Clear` | lock-free |
| `for_each/`, `s1_parallel_accumulate/`, `s3_parallel_accumulate_algorithm/`, `sort/`, `matrix/` | the caller's range | one parallel algorithm each | threads in blocks, or recursion on `std::async` |
| `s3_thread_safe_queue_implementation/` | as in `common_thread_safe_queue.h` | `push`, `pop` (2), `wait_pop` (2), `empty`, `size` | a demonstration |
| `semaphore/` | a counter, a mutex, a condition variable | `acquire`, `release`, `available` | a demonstration |
| `s2_thread_safe_stack_implementation/` | a `std::stack` and a mutex, twice | `push`, `pop`, `top`, `empty`, `size` | two demonstrations |
| `s2_dead_locks/`, `s2_unique_locks/` | a balance and a mutex per account | `withdraw`, `deposite`, `transfer` | demonstrations of nested locks and of `std::lock` |
| `s3_*_condition_variables/`, `s3_shared_futures/` | a distance; a promise and a future | one function per thread | demonstrations |
| `interruptible_thread/` | a `thread_local` flag, and a pointer to it | constructor, `interrupt`, destructor, `interrupt_point` | a program with two such threads |

### Interactions

A pool owns a queue and a vector of threads, in that order, and a
`join_threads` after them, so that destruction joins first, and drops what is
left in the queue last.  `submit` pushes a task; workers pop tasks until `done`
is set.  A future connects a task to whoever waits for it.  `do_sort` submits
half of its work to the pool it runs on, and while it waits runs whatever is
pending, on top of itself.  `parallel_partial_sum` hands a value from block to
block through promises; `parallel_find_pt` lets all blocks race for one
promise; the partial sum in rounds depends on the barrier and on leaving it.

### What is hard

* Interleavings inside containers: what was tested or read must still hold when
  it is used (`threadsafe_queue`, the two mutexes of `sequential_queue5`, the
  claimed slots of the hash table).
* Wakeups: a notification that meets nobody, a spurious wakeup, a consumer that
  was faster.
* Waiting: calls buried under other calls on the same stack, threads that spin
  at a barrier that is being set again, threads that leave for good.
* Failure in the middle: a thread that cannot be created, a task that throws, a
  `submit` that throws, a promise that is set twice or never.
* Ends: who is still running when a pool, a call or a range goes away.
* Boundaries: empty and short ranges, a number of hardware threads of 0 or 1,
  full tables, remainders of a division.

`PROJECT.json` lists each of these at its line under "hazards", with the
properties that would catch it going wrong.

### What makes each part correct

* queue: nobody pops an empty container; first in, first out; no consumer
  sleeps beside an item nobody is coming for.
* pools: a task runs once; every future is settled; no worker outlives the
  pool; destruction ends.
* waiting pools: threads never wait in a circle; the result is the sorted list;
  a task is never lost between the queues.
* barriers: nobody leaves before the last of its batch has come; everybody
  leaves.
* block algorithms: the blocks partition the range; the result is that of the
  sequential algorithm; no exception is lost; no thread outlives the call.
* hash table: one slot per key; it is a map, at every moment; calls return
  whatever other threads do.
* small classes and programs: permissions, items and money are neither lost nor
  made; whoever can be served is, and whoever cannot is named.

## 2. The modules

Each module models what the header of its file names.  Abstract specifications
are `Fifo`, `Lifo`, `ForkJoin`, `Barrier` and `Dictionary`; a detailed one is shown to
implement them by `INSTANCE ... WITH`, or, with `ForkJoin`, by sharing its variables.

| Module | Code | Built on | Implements |
|---|---|---|---|
| `ThreadsafeQueue` | `threadsafe_queue`, and `thread_safe_queue` of section 3 | | `Fifo` |
| `ForkJoin` | how calls of `do_sort` wait for one another | | |
| `DoSort`, `SortPool`, `StealPool`, `SortingPools` | `sorter`, the shared-queue pool, the work-stealing pool, either of them | `ForkJoin` | `ForkJoin` |
| `ThreadPool`, `PoolOwner`, `PoolAccumulate`, `Pools` | the simple pools, an arbitrary owner, `parallel_accumulate`, either of them | `Partition` | |
| `FineGrainedQueue` | `sequential_queue5` | | `Fifo` |
| `BarrierThreads`, `SpinBarrier`, `CondBarrier` | threads that wait; the spinning barriers and the latch; the blocking barrier | | `Barrier` |
| `PartialSumBarrier` | `parallel_partial_sum_barrier` | `Barrier` | |
| `Barriers` | any of the last two rows | | |
| `Partition` | the cutting of a range into blocks | | |
| `BlockThreads`, `PartialSumChain`, `ParallelFind`, `ForEachBlocks`, `RawAccumulate` | threads for blocks, and `parallel_partial_sum`, `parallel_find_pt`, `parallel_for_each_pt`, the `parallel_accumulate` of raw threads | `Partition` | |
| `MatrixBlocks` | `parallel_multiply`, `parallel_transpose` | `BlockThreads` | |
| `AsyncHalves` | `parallel_find_async`, `parallel_for_each_async`, `parallal_accumulate`, the quick sort of `sort/` | | |
| `BlockAlgorithms` | a call of any of these algorithms | the four rows above | |
| `HashTable` | `parallel_hash_table` | | `Dictionary` |
| `ProgramThreads` | mutexes, a condition variable and what threads do with them | | |
| `Semaphore`, `SafeStacks`, `LinkedLists`, `BankTransfers`, `Signals` | the semaphore; both stacks; `sequential_queue1` and `2`; the bank accounts; condition variables, interruptible threads and shared futures | `ProgramThreads` | `Lifo` (the stacks) |
| `SmallPrograms` | one of the last row | | |
| `*Proofs` | | the module they are about | |

### How state and actions correspond to the code

**ThreadsafeQueue.**  `mut` is the holder of the mutex, `data_queue` the
container, `pc[t]` the statement that thread t runs next.  Every statement under
the lock is an action of its own (`Lock`, `TestFull`, `Front`, `Pop`, `Push`,
`Notify`, `Unlock`, ...), so that mutual exclusion is a result and not an
assumption.  `condition_variable::wait` is `Wait` (releases and sleeps in one
step), `SpuriousWakeup` and `Reacquire`, which goes back to the predicate.
`Notify` wakes any one of the sleeping threads.

**ForkJoin, DoSort and the pools that sort.**  Calls of `do_sort` form a binary
tree and are numbered like a heap.  `DoSort` extends `ForkJoin`, with which it
shares `stack` and `phase`, so that the pools implement `ForkJoin` in those two
variables (`ForkJoinDiscipline`) and differ from it in all the rest.  `stack[t]` is the calls on thread t's stack,
`phase[c]` how far a call has come.  `Split` is lines 100-117 of `do_sort` with
the `submit` that it makes; `NotReady` is a turn of the loop that calls
`run_pending_task`; `RunTask` puts a task on top of the waiting call;
`ReturnShort` and `ReturnJoined` return a list to the calling frame, or into a
future.  In `SortPool` the task travels through `work_queue`; in `StealPool`
through `queues` and `global_work_queue`, and the search looks at one queue per
step: own front, pool, then the back of each victim.  A list is a set as long as
its order is open, so any element may be the pivot.  Queue operations are one
step each: what the statements under the mutex of the shared queue do is the
subject of `ThreadsafeQueue`, and `push`, `pop` and `steal` of the work-stealing
queue each hold its mutex from their first statement to their last, so that no
other thread can tell a step from its parts.  The runs of the pools therefore say
nothing of a mutex that is missing there; what they show is the order in which
owners and thieves come to a queue.

**ThreadPool and its owners.**  `owner` is where the pool's owner is,
`worker[w]` where a worker is.  `StartWorker`, `ConstructFails`, `SetDone`,
`AllJoined` and `Destroyed` follow constructor and destructor; the queue is
destroyed after the join, and with it the tasks nobody ran, whose promises break.
`PoolOwner` does anything an owner may do, in any order; `PoolAccumulate` does
what `parallel_accumulate` does.  `packaged` tells packaged tasks from plain
functions, whose exceptions end the program.

**FineGrainedQueue.**  `head`, `tail`, `data`, `next` are the list, nodes are
numbered in the order in which they are linked, and `freed` are the deleted
ones.  Every access is an action; `get_tail`, which locks around one read, is
the guard `TailFree` of the action that reads.  `TakeHead` leaves `head` null
until `PutHead`, as the moves of the code do.  The properties name what each
statement reads and writes.

**Barriers.**  In `SpinBarrier` every access to `count`, `spaces` and
`generation` is a step (`spaces = count` is two, `LoadCount` and `Refill`), and one
module stands for `barrier_spin`, for the barrier of `scan/` (with `done_waiting`)
and for the latch (without the refill).  In `CondBarrier` a critical section is a
step.  Both run with threads that come
back for another round.

**PartialSumBarrier.**  Its threads stand at the abstract `Barrier`, which
`SpinBarrier` implements; one action is one statement of `process_element` that
touches the list, the buffer or the barrier.  `LaunchFails` is a thread that
cannot be created: it and those after it are `"off"`, and never come.

**BlockThreads and the algorithms.**  `pc[k]` is what the code that works on
block k does, the last block being the caller's.  `StartThread`, `StartFails`,
`StartFinal` and `Leave` are the caller; `Escape` is an exception that leaves a
thread.  `PartialSumChain` has one action per statement of `process_chunk`;
`ParallelFind` one per turn of the loop of `find_element` and per operation on
the promise and the flag.  Elements are powers of two, so that a sum tells
exactly which elements are in it.  In `ForEachBlocks` a task leaves its outcome
in `future[k]` and the caller gets the futures in their order (`Collect`,
`CollectThrows`); in `RawAccumulate` the caller joins in that order, and
`LeaveUnjoined` is an exception that meets threads nobody has joined, and the
results are added up one after another when all are (`AddResult`).  There,
and in `AsyncHalves`, a sum is the sequence of the elements added.

**MatrixBlocks.**  The cells of the result are the range.  A cell holds the terms
that were added up for it, a term being the two indices that the code computes
for its factors: what is checked is the index arithmetic, for every shape of the
result, for operands that fit, and for those that do not: a first factor that
lacks a row, a second one that lacks a row, or has a column too few or too many.

**AsyncHalves.**  `calls` maps the range of each call made so far to where that
call is.  `CutInHalves` gives one half to `std::async` and makes the call for the
other, `OwnReturns` is the return of that one, `GetReturnsHalf` and
`GetThrowsHalf` are `get`, `DestroyFuture` is the destructor of a future that was
not got.  `std::async` without a policy may run a call on a thread or defer it
until `get` (`RunDeferred`): both happen.  The sort calls itself for the lower
half before it hands over the upper one (`CutAtPivot`, `HandOver`); its ranges
are ranges of ranks, in which any element may be the pivot.

**HashTable.**  `key` and `value` are the array; each compare-and-swap, load and
store is a step.  `hash` is any function from keys to slots and is chosen in
`Init`, so that one run covers every pattern of collisions.  In `Dictionary` a
thread first asks for something (`Call`), with a key and perhaps a value, and is
served at a later moment (`Set`, `Lookup`) with just those; a call of the table is
asking, and its arguments `arg` and `new` are what is pending until it returns.

**The small programs.**  `program` says which of them is run, `pc[t]` where a
thread is in it, `mut` who holds which mutex.  In `Semaphore` every statement
under the mutex is an action, and the notification, which comes after it, one
more.  A consumer of the trivial stack calls `empty`, `top` and `pop` one after
the other, and reads through the reference that `top` returned in a step of its
own (`CopyTop`).  `LinkedLists` numbers the nodes; `live` are those that exist.
The next of the only node of the second queue is written by `push` under one mutex
and moved by `pop` under the other: when one thread stands before each of these
accesses (`AtSameNext`), the next of the two steps is a data race, and the program
is `broken`.  A thread of `BankTransfers` has a
job: the accounts it locks in their order (`LockNext`, or `LockBoth` for
`std::lock`), and the changes it makes, each a read and a write.  In `Signals`
the test of the passenger and his falling asleep are two steps, between which
the driver, who holds no mutex, may come.

### Modelling decisions

* `sequential_queue5` waits on `head_condition`, which the class does not
  declare, and notifies `cv`.  They are taken to be one condition variable.
* Steps are sequentially consistent.  The accesses of `HashTableX` are relaxed;
  what a weaker memory model adds is not shown.  Two accesses to a plain variable,
  one of them a write, are a data race where two threads stand before them at the
  same time (`MemorySafe`, `NoDataRace`, `AtSameNext`).  That one which came earlier
  may lack an order with a later one is not looked for.
* `StealPool` starts when the constructor has returned.  Before that, workers
  read a vector that the constructor still extends.
* The spinning barriers are used by as many threads as they count.  With more,
  `spaces` can go below 0.
* `SetItem` of `hashmap/Source.cpp` hands a null pointer to its compare-and-swap
  as the expected value, which is undefined; the `SetItem` of `HashTableX` is
  the one modelled.
* When an addition throws in the middle of a block, the list is left as it was:
  a list of which a part has thrown is never returned.
* In `PartialSumBarrier` no addition throws: it would end the program.
* `broken` of the small programs is what `Undefined` is below: a freed node is
  written, an empty stack popped, the flag of a dead thread set, or an exception
  leaves a thread.
* Unsynchronised reads and writes of a plain variable (`distance_coverd`, the flag
  of an interruptible thread) are taken as one step each, with no tearing and no
  caching.  The counter of the semaphore is read by `available` only, which is
  left out.
* A node of `LinkedLists` that was freed is not given out again.
* That `~promise` may run while `set_value` is still returning (the constructor
  of `jthread_local` captures a local promise by reference) is left to the library.
* Where the code divides by zero, or writes behind a vector, `outcome` becomes
  `Undefined` and nothing more is said: `parallel_for_each_pt` with a single
  thread, the `parallel_accumulate` of raw threads with a short range, a product
  with an operand that does not fit.  `DiesOnlyOf` says that nothing else leads
  there.
* Allocation failures are modelled where the code has something to undo (thread
  creation, `submit` in `parallel_accumulate`), not in every `push`.
* In the fine-grained queue `MemorySafe` says what `printData` may race with:
  `head`, and the last node; see 5.

## 3. What is checked

Nine runs pass.  Each checks every property of its composite at once; the
composites choose in `Init` which member of a family runs (variables `pool`,
`client`, `kind`, `algorithm`), and the others' variables stay as they are.

| Run | Bounds | Properties |
|---|---|---|
| `queue` | 3 threads, 2 items, 4 calls, 1 spurious wakeup | `NoUndefinedPop`, `NoLostWakeup`, `FifoOrder`, `WaitersServed` |
| `forkjoin` | 3 threads, calls up to number 13 | `NothingOutlivesRoot`, `NoCircularWait`, `Terminates` |
| `sort` | main and 2 workers, 5 elements, two of them with equal keys | `SortedAtEnd`, `TasksKept`, `QueueMirrorsStack`, `ForkJoinDiscipline`, `PoolEnds` |
| `pools` | 0 to 3 workers, 3 tasks; ranges of 0 to 8 with 2 per thread | `RunOnce`, `QuietAtEnd`, `NoFutureForgotten`, `SumIsExact`, `CallsReturn` |
| `fine` | 3 threads, 2 items, 4 calls | `MemorySafe`, `FifoOrder`, `CallsReturn` |
| `barriers` | 5 threads, 2 rounds, a threshold of 3, 2 generations of the spinning barriers and 4 of the blocking one, 1 spurious wakeup; 6 elements and threads | `BarrierHolds`, `NoDataRace`, `NobodyHeldBack` |
| `blocks` | ranges of 0 to 6 with 2 per thread, up to 3 threads, 2 exceptions, 3 positions that match or throw; ranges of 0, 3, 5 and 7 on async | `BlocksCover`, `PrefixSums`, `ThrownIsReported`, `FoundIsMatch`, `DiesOnlyOf`, `EveryElementOnce`, `NothingOutlivesCall`, `Ends` |
| `hash` | 2 threads, 2 keys, 2 values, 4 slots, every hash function | `TableInv`, `Linearizable`, `WaitFree`, `CountInRange` |
| `small_programs` | 3 threads, 5 calls, 2 accounts, up to 2 permissions, 1 spurious wakeup, a stop at distance 3, loops of 3 rounds | `PermitsKept`, `ListKept`, `MoneyKept`, `StackOrder`, `EveryoneServed` |

Why the bounds are enough:

* `queue` and `fine`: a lost wakeup or a race needs a producer, a consumer and
  one who interferes; four calls let an item be pushed, taken by the wrong
  thread and pushed again.  Empty, one-element and two-element lists all occur.
* `forkjoin` and `sort`: a circle needs two stacks with a buried call each.  With
  5 elements all three threads can wait at once, and the number of calls, 31, is
  more than a chunk that shrinks by its pivot at every level can need, so that no
  split is ever held back by the bound.  In `ForkJoin` the tree is cut at 13
  calls, and a call there may always return without splitting.
* `pools`: 3 tasks are more than workers, or fewer; the lengths are on, below and
  above multiples of the block.
* `barriers`: two rounds let a fast thread overtake a slow one by one batch, and
  no more can happen before the slow one has passed.  The generation of the spinning
  barriers, an `unsigned`, has two values here, so that it comes round to 0 in the
  second round.  That of the blocking barrier does not come round in the run: there,
  a thread may sleep through any number of batches (see 4).
* `barriers` with partial sums: 6 threads take three rounds, and leave the barrier
  in each; any of the first five may be missing.
* `blocks`: 3 blocks make a first, a middle and a last one.  On async a range of
  7 is cut twice on one side and once on the other; 5 elements to sort make
  every shape of recursion.  Lengths 0 to 6
  have square, wide and tall matrices.  The elements of a partial sum are powers
  of two, so that a sum tells what is in it.
* `small_programs`: three threads are two who meet and a third who gets between
  them; five calls fill a stack or a list, empty it and use it again.  Two
  accounts make a circle, and with three jobs every way to meet at it.
* `hash`: keys collide, probing wraps around, and both threads race for the same
  slot with the same and with different keys.  Two values tell the value that was
  stored last from the one before.

`CHECK_DEADLOCK FALSE` stands where a system really may stop: callers that have
made their calls, a function that has returned.

### Fairness

Every fair specification assumes the same thing, and only this: a thread inside
a call that can take a step is eventually scheduled (`WF_vars` of its step).
The operating system's scheduler gives that.  A mutex or a notification need
not be fair, so a thread may lose every race for one and still be treated
fairly; the properties hold nevertheless because calls are finitely many.
Nobody has to make a call, no wakeup has to be spurious, no thread has to fail or
to be impossible to create.
A thread that spins, on a future or a generation, runs and is not assumed to be
lucky.  Of the calls on async it is enough that some thread that can run does.
`Barriers` assumes more of its threads: whoever has not quit comes back.
`HashTable` assumes less: one thread runs, the other may stop for ever at any
statement, which is what wait freedom is about.

### Disagreements found

Three runs check a claim of the repository and are violated by what the code
does; `PROJECT.json` quotes the claims under "findings".

* `fine_wakeup`: `push` of `sequential_queue5` notifies without the head mutex,
  so that the item and its notification both fall between a consumer's test and
  its wait.  `wait_pop` then sleeps beside the item.
* `sums_barrier_values`: `parallel_partial_sum_barrier` returns wrong sums from
  three elements on, because a thread that has finished no longer copies its
  value into the buffer that the others read in odd rounds.
* `hash_full`: `GetItem`, called wait-free by a comment, never returns when the
  table is full and the key is not in it.

## 4. What is proved

All theorems hold for every value of the constants that the named assumptions
allow: any number of threads, items, calls, slots, keys and any hash function.
The assumptions say that sets of threads are finite (where they are counted),
that markers such as `Free`, `NoValue` and `Zero` differ from real values, and
that bounds are natural numbers.

**ThreadsafeQueueProofs.**  `NoUndefinedPop` is not inductive: that the queue is
still nonempty at `front` follows only because nobody else is inside.  The
inductive invariant `QueueInv` adds to the types that the holder of the mutex
is the one thread between lock and unlock (`LockHeld`), which function a thread
is in where it is (`OpAtPc`), and that what was read is still in front
(`ReadIsFront`).  From it follow `UndefinedPopNever`, and `FifoRefinement`: the
only steps that change the container are `Push` and `Pop`, and `Pop` removes
what was read.  `WakeupNeverLost` is inductive over `QueueInv`: a step lowers
the number of consumers and notifications on their way only by taking an item,
by finding the queue empty, or by waking a thread that is then counted; the
cases are inequalities between cardinalities.

**SortingPoolsProofs.**  First `ForkJoin`.  `TreeInv` describes stacks and tree
(types and one frame per call, live calls are on a stack, the order of frames,
what the phase of a call says about its halves).  It gives `TypeCorrect` and
`RootReturnsLast`.  For `WaitsNeverCircular` one more fact is needed,
`StartOrder`: there is a numbering of the calls, the order in which they started,
that grows up every stack and from a waiting call to its lower half.  Were every
thread stuck, take the stuck innermost call that started last: the call it waits
for started later and is on some stack, so that stack's innermost call started
later still.

Then the pools, both at once: `Queue(t)` is the queue that t submits to, and
`StepMoves` reduces every step of either pool to one of four moves (a call
splits and a queue gets its lower half, a queue loses a task to the thread that
runs it, a call returns, a thread only looks elsewhere).  `PoolInv` is `TreeInv`
with what the queues hold (`QueuesOK`: a queued call is in one queue, once, and
nothing else is) and what a thread's place says of its stack (`PlaceOK`,
`RootOK`).  It makes every move one of `ForkJoin`, which is `DisciplineKept`; so
`NoCircularWait` holds in the pools of the code (`PoolsNeverCircular`).  It also
gives `TasksAlwaysKept`.

* `QueuesAlwaysMirror` is not inductive as it stands, since it only asks for some
  increasing way from the queue into the stack: `MirrorOK` says which depth a
  queued task stands for, and that thieves, who take from the back, take the
  task of the deepest call.
* `AlwaysSorted` rests on `ListsOK`: every call was given a set of elements, holds
  it until it splits, has given its halves what is below and what is not below
  its pivot, and has a sorted list of it when it is done.  `SortsJoined` joins two
  sorted lists around a pivot.  A bound on calls that is too small would only
  stop a call from splitting; `Elements` is any finite nonempty set, and keys are
  integers.

**HashTableProofs.**  `TypeCorrect`, which no run repeats, is inductive with the arithmetic of
`NextSlot`.  `TableInv` says that a key has one slot, that no free slot lies
between where its probing starts and where it is, and that a search under way
has passed only slots of other keys.  The lemma `FreeSlotMeansAbsent` turns that
into what both claiming and missing rest on.  It gives `TableCorrect` and
`DictionaryRefinement`: `Store` is the moment of `Set`, the load of the value, or
of the empty slot, the moment of `Lookup`; each serves the call of its own thread,
with the key and the value it was called with (`PendingIs`, `CallRefines`), and no
other step ends one (`OtherStepsStutter`).  `CountAlwaysInRange`: a count has counted
no more than the items that are now behind it, and with those still ahead it makes no
less than there were (`CountOK`); nothing that is set goes away under it, since `Clear`
waits until nobody is inside (`ItemsStay`).

**BlockAlgorithmsProofs.**  `PartitionAlways` is the arithmetic of the blocks, from
bounds on truncating division and monotonicity of products;
`BlocksAlwaysCover` carries it to every call, whose steps never change
length or hardware.  The other properties of the block algorithms follow from
`CallInv`: while the call is alive the invariant of its algorithm holds
(`LiveOK`), when it is over what that says of its outcome (`EndsOK`).

* Threads on blocks have `FrameOK` in common: they have numbers, and the caller
  takes its block when all others have been started.
* `SumOK`: promises are kept from the left, so that a block with its sum has them
  all behind it; and an exception, once thrown, is under way in some block, in a
  promise or in its thread, until it leaves the last one.
* `SumsInv`, for `SumsArePrefixes`: what a block holds in its place lacks just what
  comes before the block (`ValueOK`), a promise holds the sum of all up to the
  end of its block, and that is what the next block is handed (`ValuesOK`).  The sums
  themselves come from `SumsAreUnique` and `SumsExist`: two functions that satisfy the
  same recursion agree, since there is no least position where they do not, and there is
  one, since there is no least length without.  So `partial_sum` is its recursion,
  for elements that are any integers (`ElementAssumption`).
* `FindOK`: what was thrown is in the promise, or in the hands of a thread that is
  about to put it there (`ThrownKept`); every position behind a searching thread is
  no match, and a result
  set stands against a thread that has found it, or met an exception, and goes
  on to raise the flag.  So no thread gives up its search for a flag that nothing
  backs, and a second result means a second match.
* `EachOK`: an element was visited once if its thread is past it, and a thread
  with an exception keeps it in its future, which the caller has not got yet.
* `RawOK` and `MatrixOK`: what has been added is a beginning of the range that
  ends where a block ends, and the cells of a block are computed when its thread
  has ended, with indices inside operands that fit.
* `AsyncOK` is about a tree of ranges.  `TreeOK`: two calls lie apart or one in
  the other, and a call that is settled has nothing under way in it; `PlaceOK`:
  the halves that a call in its place has made; `DoneOK`: a call that has
  returned has done all of its range, and if a search did not find the value
  nothing was thrown in it.  Two lemmas carry the tree through all steps: one
  call goes on (`CallMoves`), or calls are made for its parts (`CallSplits`).

**PoolsProofs.**  `TasksOK` says where a task is: a pending one is once in the
queue or with one worker, and what its future holds tells whether it has run.
`WorkersOK` ties a worker's place to whether it was started and whether it has a
task, `OwnerOK` the owner's place to what it has submitted and joined.  From
their conjunction `PoolsInv` follow `TasksRunOnce`, `WorkersGoneAtEnd` and
`FuturesSettledAtEnd`.  `SumAlwaysExact` adds where the loops of
`parallel_accumulate` are: the tasks are the blocks in their order, and what has
been collected is the sum up to the end of a block, which is where the next one
starts (`BlocksMeet`).  The assumption `TasksAssumption` is that the bound on tasks lets
`parallel_accumulate` submit its blocks.

**FineGrainedQueueProofs.**  Nodes are numbered as they are made, so the list is
an interval of them: `ListOK` says what its nodes hold, `MutexOK` which statements
run under which mutex, `EndsOK` what a push and a pop know of their ends, `OwnedOK`
that a node taken off belongs to one thread until it is deleted, and `WalkOK`
where a `printData` can be.  `MemoryAlwaysSafe` then needs only the nodes that
each statement reads and writes, and that the two ends meet at the dummy node
alone.  `FifoRefinement`: an item enters when tail moves past it (`AdvanceEnters`)
and leaves when head is taken (`TakeLeaves`); every other step leaves the items.

**SmallProgramsProofs.**  A step of one program leaves the others' variables alone
(`NextIsMove`), so each invariant is that of its own program.
`PermitsAlwaysKept` counts permissions given back and taken under the mutex.
`StacksAreLifo` needs who holds the lock where (`StackLocked`), that the container
never outgrows the calls (`ItemsCounted`), and that what a consumer has read is
still there unless there is another consumer (`ConsumersOK`).  `UpdatesKept`: a
thread between the load and the store of a balance holds its mutex (`LocksOK`), so
that what it has read is what there is (`ReadOK`), and a store adds one pair of a
thread and a change to those made (`WriteIsCounted`).  `MoneyAlwaysKept` adds the
balances up: while there are only transfers, what the accounts lack together is
one for each thread between its two changes (`MissingOK`).  The sum over a finite set
is a recursion that takes whichever element it chooses; `FiniteSetInduction` is
induction over the subsets of a set, with a set in place of a predicate, and gives
that the recursion has a solution (`SumExists`), that the order does not matter
(`AnyOrder`) and how one changed value changes the sum (`SumUpdate`).
`ListAlwaysKept`: nodes are
linked and taken in the order of their numbers (`InNumbers`), tail is the last
node or, while a push advances it, the one before (`TailOK`), and until the list
is emptied the nodes from head on form it (`ListOK`).  Once it has been emptied
head stays null.  When a push and a pop are at the same `next`, the first node is
the last one (`RacesAtOneNode`).

**BarriersProofs.**  `SumsDoNotRace` rests on `SumsInv`: all who work are in the same
round, a released thread counting as one round ahead.  `BarriersHold` is the
refinement of `Barrier`.  For the spinning barriers and the latch, `SpinInv` says
that `count` counts the threads that have not quit and `spaces` those of them
that have yet to arrive (`SpinCounts`), and that the last to arrive is alone with
the barrier until it has advanced the generation (`LastAlone`), so that `count`
is still what it has read when it writes it to `spaces` (`SpinPlace`).  A thread
whose generation is not the present one is released and counted as yet to come,
so two generations are as good as 2^32.  For the
blocking barrier, `CondInv` counts arrivals as pairs of a thread and a round: there
are as many as make the generation and the missing ones (`CondCounts`).
`GenerationsAssumption` says that the generation, a `size_t`, does not come round
within a run; a thread that slept through 2^64 generations would indeed wait for
one more.

Only model-checked is all liveness, and what systems are when they stop: it needs
fairness, and proof rules the prover does not have.

## 5. What is not modelled

* Printing, timing, and programs in which the order of two threads' steps does
  not matter: how threads are started, joined, moved and given parameters
  (section 1, with the `thread_guard` of `common_objs.h`), coroutines,
  `thread_local`, primes, parallel STL, and the programs that make one call of a
  future, a packaged task or a mutex.  The nap of the condition variable program
  is a sleep.
* The constructor of the work-stealing pool: it adds queues to a vector that the
  workers it has started already read.  With two workers or more that race is in
  every run, and nothing is defined after it.
* Versions 3 and 4 of the linked queue, which do not compile: their push makes a
  node without data, and nodes have no default constructor.  (In version 4 the
  `lock_guard` of line 182 has no name either.)
* The pop of the section 3 queue at line 91, which assigns a pointer to an item,
  and its copy constructor, which locks a mutex of a const object: neither
  compiles when it is used.
* `get_lock` of `s2_unique_locks`: it returns a lock of a mutex that has been
  destroyed, whatever the threads do.
* Exceptions in `parallel_find_async` that do not derive from `std::exception`:
  they pass its handler and leave the flag as it is.
* `SetItem` of `hashmap/Source.cpp` (see 2), and `simple_hash_table`, which is
  declared only.
* Setting and printing the elements of a matrix, and its one-threaded `multiply`
  and `transpose`, which compute the same cells.

Known from the models, and stated by a property as the one exception it makes:

* On a machine where `hardware_concurrency()` returns 0, `parallel_accumulate`
  of `s8_simple_threadpool_waiting` plans for two threads (line 102) while its
  pool starts none (lines 40-44), and blocks in `get` for ever (`CallsReturn`).
* `parallel_for_each_pt` writes behind an empty vector whenever there is a single
  thread, that is for every range of up to 25 elements (line 37), and the first
  `parallel_accumulate` divides by zero for every range of fewer than 999
  elements (line 33): `IndexEmpty` and `DivideByZero` are then the only steps
  (`DiesOnlyOf`).
* `parallel_multiply` takes the column of the second factor modulo the rows of the
  result (line 70): the product is right only if the result is square, and
  with more rows than columns the factor is read past its end.  It also goes on
  when it has reported that the sizes do not fit (line 80), past the end of a first
  factor with too few rows, or of a second one with too few rows or columns
  (`OperandTooSmall`).  `MatrixIsRight`, `DiesOnlyOf`.
* `parallel_find_async` never reads its flag: nothing stops a half that is no
  longer needed, and its result is the first match (`FirstIsFound`), which
  `parallel_find_pt` does not promise.
* `printData` of `sequential_queue5` holds the head mutex only.  Between lines
  306 and 307 of a `push` the last node has data and no successor, and the loop
  of lines 352-356 goes through the null pointer (`OffTheEnd`).
* A thread of `parallel_partial_sum_barrier` that cannot be created leaves the
  others at the barrier, and the caller in `join` (`WaitForMissing`).
* Two consumers of `trivial_thread_safe_stack` pop an empty stack or read an item
  that is gone (`BrokenByTwo`).  One consumer alone is not safe from loss: an item
  that another thread pushes between its `top` and its `pop` is what `pop` takes, and
  nobody has read it.  `StackOrder` is about each call by itself, and allows it.
* The first two linked queues never set `tail` in a constructor, and leave it
  dangling when the last node is taken; the next push writes through it
  (`ListKept`).
* In a list of one node, `push` of `sequential_queue2` writes the `next` of that node
  (line 85) under the tail mutex, while `pop` moves the same `next` (line 104) and
  destroys the node under the head mutex: a data race (`ListKept`).
* Transfers of `s2_dead_locks` in opposite orders stop in a circle; with
  `std::lock` only a transfer from an account to itself does not return
  (`BankEnds`).  `withdraw` of `s2_unique_locks` adds the amount (line 24).
* The passenger of `s3_details_about_condition_variables` may miss the one
  notification, and the one value of the distance that he waits for
  (`WokenInTime`).
* A thread of `interruptible_thread` that has made all its rounds is interrupted
  through a pointer to a flag that is gone; of two threads that `get` one
  `std::future` the second may end the program (`SignalsEnd`).

## 6. Plan

Everything that the repository's core consists of is modelled, checked and, where
it is a safety property, proved.  What could still be added: that what `Ended` says
at the end of `SortingPools` and of the pools holds without the assumption that a
bound on calls or tasks is large enough.
