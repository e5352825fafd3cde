--------------------------- MODULE ThreadsafeQueue ---------------------------
(***************************************************************************)
(* threadsafe_queue of common/common_thread_safe_queue.h: a std::queue     *)
(* behind one mutex and one condition variable, the work queue of every    *)
(* thread pool of the repository.                                          *)
(*                                                                         *)
(* A thread runs one member function at a time.  pc[t] is the statement it *)
(* is about to execute; statements under the lock are separate steps, so   *)
(* that the mutex, and not the model, is what keeps them apart.            *)
(* condition_variable::wait is two steps: releasing the mutex and joining  *)
(* the waiters is one atomic step, taking the mutex again is another.      *)
(*                                                                         *)
(* thread_safe_queue of s3_thread_safe_queue_implementation is the same    *)
(* monitor under other names: its pop is try_pop, its wait_pop is          *)
(* wait_and_pop, and its size is empty but for what it returns.            *)
(***************************************************************************)
EXTENDS Integers, Sequences, FiniteSets

CONSTANTS Threads,     \* the threads that share the queue
          Values,      \* the items they push
          NoValue,     \* what a thread has read when it has read nothing
          Free,        \* the owner of a mutex that nobody holds
          MaxCalls,    \* bound: how many calls the threads make together
          MaxSpurious  \* bound: how many spurious wakeups happen

ASSUME ThreadsAssumption == IsFiniteSet(Threads) /\ Free \notin Threads
ASSUME ValuesAssumption == NoValue \notin Values /\ NoValue \notin BOOLEAN
ASSUME BoundsAssumption == MaxCalls \in Nat /\ MaxSpurious \in Nat

VARIABLES mut,         \* the thread that holds the mutex, or Free
          data_queue,  \* the items, the oldest first
          pc,          \* thread -> the statement it is about to run
          op,          \* thread -> the member function it is in
          arg,         \* thread -> the item it pushes
          res,         \* thread -> what its call has read or returned
          popped,      \* history: what left the queue, as its callers got it
          calls,       \* calls made so far
          spurious     \* spurious wakeups so far

locals == <<op, arg, res>>
bounds == <<calls, spurious>>
vars == <<mut, data_queue, pc, op, arg, res, popped, calls, spurious>>

Ops == {"push", "try_pop", "wait_and_pop", "empty"}
Locations == {"idle", "lock", "push", "notify", "test", "front", "pop",
              "waiting", "woken", "unlock"}

\* The threads blocked inside data_cond.wait.
Waiting == {t \in Threads : pc[t] = "waiting"}

\* The threads inside wait_and_pop that will test the queue again or have
\* found it nonempty, and have not popped yet.
Active == {t \in Threads : op[t] = "wait_and_pop"
                           /\ pc[t] \in {"lock", "woken", "test", "front",
                                         "pop"}}

\* The threads that have appended an item and not yet notified.
Notifying == {t \in Threads : pc[t] = "notify"}

Init ==
  /\ mut = Free
  /\ data_queue = <<>>
  /\ pc = [t \in Threads |-> "idle"]
  /\ op = [t \in Threads |-> "empty"]
  /\ arg = [t \in Threads |-> NoValue]
  /\ res = [t \in Threads |-> NoValue]
  /\ popped = <<>>
  /\ calls = 0
  /\ spurious = 0

Goto(t, l) == pc' = [pc EXCEPT ![t] = l]
-----------------------------------------------------------------------------
(* The steps of a call.                                                    *)

\* A caller enters a member function; push makes its shared_ptr before it
\* locks, so the item is fixed from here on.
Call(t) ==
  /\ pc[t] = "idle"
  /\ calls < MaxCalls
  /\ calls' = calls + 1
  /\ \E o \in Ops : op' = [op EXCEPT ![t] = o]
  /\ \E v \in Values : arg' = [arg EXCEPT ![t] = v]
  /\ res' = [res EXCEPT ![t] = NoValue]
  /\ Goto(t, "lock")
  /\ UNCHANGED <<mut, data_queue, popped, spurious>>

\* The lock_guard or unique_lock at the head of every member function.
Lock(t) ==
  /\ pc[t] = "lock"
  /\ mut = Free
  /\ mut' = t
  /\ Goto(t, IF op[t] = "push" THEN "push" ELSE "test")
  /\ UNCHANGED <<data_queue, locals, popped, bounds>>

\* data_queue.push(data)
Push(t) ==
  /\ pc[t] = "push"
  /\ data_queue' = Append(data_queue, arg[t])
  /\ Goto(t, "notify")
  /\ UNCHANGED <<mut, locals, popped, bounds>>

\* Mutant: push does not notify.
NotifyNobody(t) ==
  /\ pc[t] = "notify"
  /\ Goto(t, "unlock")
  /\ UNCHANGED <<mut, data_queue, locals, popped, bounds>>

\* data_cond.notify_one(): one of the waiters, if there is one, is released
\* and has to take the mutex again.
Notify(t) ==
  /\ pc[t] = "notify"
  /\ IF Waiting = {}
     THEN Goto(t, "unlock")
     ELSE \E w \in Waiting :
            pc' = [pc EXCEPT ![t] = "unlock", ![w] = "woken"]
  /\ UNCHANGED <<mut, data_queue, locals, popped, bounds>>

\* try_pop and wait_and_pop find an item.
TestFull(t) ==
  /\ pc[t] = "test"
  /\ op[t] \in {"try_pop", "wait_and_pop"}
  /\ data_queue # <<>>
  /\ Goto(t, "front")
  /\ UNCHANGED <<mut, data_queue, locals, popped, bounds>>

\* try_pop finds none and returns false or a null pointer.
TestMiss(t) ==
  /\ pc[t] = "test"
  /\ op[t] = "try_pop"
  /\ data_queue = <<>>
  /\ Goto(t, "unlock")
  /\ UNCHANGED <<mut, data_queue, locals, popped, bounds>>

\* The predicate of wait is false: release the mutex and block, atomically.
Wait(t) ==
  /\ pc[t] = "test"
  /\ op[t] = "wait_and_pop"
  /\ data_queue = <<>>
  /\ mut' = Free
  /\ Goto(t, "waiting")
  /\ UNCHANGED <<data_queue, locals, popped, bounds>>

\* empty() reads the container.
ReadEmpty(t) ==
  /\ pc[t] = "test"
  /\ op[t] = "empty"
  /\ res' = [res EXCEPT ![t] = (data_queue = <<>>)]
  /\ Goto(t, "unlock")
  /\ UNCHANGED <<mut, data_queue, op, arg, popped, bounds>>

\* A waiter returns from the system's wait although nobody notified it.
SpuriousWakeup(t) ==
  /\ pc[t] = "waiting"
  /\ spurious < MaxSpurious
  /\ spurious' = spurious + 1
  /\ Goto(t, "woken")
  /\ UNCHANGED <<mut, data_queue, locals, popped, calls>>

\* Mutant: an if where wait has a loop around the predicate.
ReacquireOnce(t) ==
  /\ pc[t] = "woken"
  /\ mut = Free
  /\ mut' = t
  /\ Goto(t, "front")
  /\ UNCHANGED <<data_queue, locals, popped, bounds>>

\* wait takes the mutex again and evaluates its predicate again.
Reacquire(t) ==
  /\ pc[t] = "woken"
  /\ mut = Free
  /\ mut' = t
  /\ Goto(t, "test")
  /\ UNCHANGED <<data_queue, locals, popped, bounds>>

\* Mutant: back() for front().
ReadBack(t) ==
  /\ pc[t] = "front"
  /\ res' = [res EXCEPT ![t] = data_queue[Len(data_queue)]]
  /\ Goto(t, "pop")
  /\ UNCHANGED <<mut, data_queue, op, arg, popped, bounds>>

\* data_queue.front(), moved from or copied into the caller's result.
Front(t) ==
  /\ pc[t] = "front"
  /\ res' = [res EXCEPT ![t] = Head(data_queue)]
  /\ Goto(t, "pop")
  /\ UNCHANGED <<mut, data_queue, op, arg, popped, bounds>>

\* data_queue.pop(); the caller keeps what it read a statement earlier.
Pop(t) ==
  /\ pc[t] = "pop"
  /\ data_queue' = Tail(data_queue)
  /\ popped' = Append(popped, res[t])
  /\ Goto(t, "unlock")
  /\ UNCHANGED <<mut, locals, bounds>>

\* The guard is destroyed and the function returns.
Unlock(t) ==
  /\ pc[t] = "unlock"
  /\ mut' = Free
  /\ Goto(t, "idle")
  /\ UNCHANGED <<data_queue, locals, popped, bounds>>

\* What a thread does once it is inside a call.
Step(t) ==
  \/ Lock(t) \/ Push(t) \/ Notify(t) \/ TestFull(t) \/ TestMiss(t) \/ Wait(t)
  \/ Reacquire(t) \/ ReadEmpty(t) \/ Front(t) \/ Pop(t) \/ Unlock(t)

Next == \E t \in Threads : Call(t) \/ Step(t) \/ SpuriousWakeup(t)

Spec == Init /\ [][Next]_vars

\* A thread that can run is eventually scheduled; nobody has to call anything
\* and no wakeup has to be spurious.
FairSpec == Spec /\ \A t \in Threads : WF_vars(Step(t))
-----------------------------------------------------------------------------
(* Properties.                                                             *)

\* Every variable holds a value of its kind.
TypeOK ==
  /\ mut \in Threads \cup {Free}
  /\ data_queue \in Seq(Values)
  /\ pc \in [Threads -> Locations]
  /\ op \in [Threads -> Ops]
  /\ arg \in [Threads -> Values \cup {NoValue}]
  /\ res \in [Threads -> Values \cup {NoValue} \cup BOOLEAN]
  /\ popped \in Seq(Values)
  /\ calls \in 0..MaxCalls
  /\ spurious \in 0..MaxSpurious

\* front() and pop() are never applied to an empty std::queue, which would be
\* undefined: nobody takes the item away between the test and the pop.
NoUndefinedPop ==
  \A t \in Threads : pc[t] \in {"front", "pop"} => data_queue # <<>>

\* Between these statements and the end of the call the mutex is held.
Critical == {"push", "notify", "test", "front", "pop", "unlock"}

\* The holder of the mutex is the one thread in a critical section.
LockHeld == \A t \in Threads : pc[t] \in Critical <=> mut = t

\* Where a thread is tells which member function it runs.
OpAtPc ==
  \A t \in Threads :
    /\ pc[t] \in {"push", "notify"} => op[t] = "push"
    /\ pc[t] \in {"front", "pop"} => op[t] \in {"try_pop", "wait_and_pop"}
    /\ pc[t] \in {"waiting", "woken"} => op[t] = "wait_and_pop"
    /\ pc[t] # "idle" => arg[t] \in Values

\* What was read with front() is still the front when pop() runs.
ReadIsFront ==
  \A t \in Threads : pc[t] = "pop" => res[t] = Head(data_queue)

\* The invariant of the lock, which every step keeps: whoever is inside a
\* critical section holds the mutex, so what it tested and what it read stay
\* true until it leaves.
QueueInv ==
  TypeOK /\ LockHeld /\ OpAtPc /\ NoUndefinedPop /\ ReadIsFront

\* While a consumer is blocked in wait_and_pop, every item in the queue is
\* already spoken for: by a consumer of wait_and_pop that will look at the
\* queue again, or by a push whose notify_one is still to come.  An item that
\* nobody is coming for, with a consumer asleep, is a lost wakeup.
NoLostWakeup ==
  Waiting # {} =>
    Len(data_queue) <= Cardinality(Active) + Cardinality(Notifying)

\* The queue implements Fifo: what a caller read with front() is what pop()
\* then removed, in the order of the pushes, whatever ran in between.
Abstract == INSTANCE Fifo WITH items <- data_queue, delivered <- popped
FifoOrder == Abstract!Spec

\* A consumer does not stay blocked beside items: once the callers have
\* finished, either nobody waits or there is nothing to wait for.
WaitersServed == <>[](Waiting = {} \/ data_queue = <<>>)
=============================================================================
