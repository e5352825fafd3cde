----------------------------- MODULE ThreadPool -----------------------------
(***************************************************************************)
(* The life of the simple thread pools: workers that take tasks from one   *)
(* queue until a flag is set, and an owner that creates the pool, submits  *)
(* and destroys it.  This module has what the workers do and the pool's    *)
(* member functions; the modules that extend it add owners that call them. *)
(*                                                                         *)
(* A pool of packaged tasks (thread_pool_waiting) keeps the outcome of     *)
(* each task in a future; a pool of plain functions (thread_pool) has no   *)
(* futures, and an exception that leaves a task ends the program.          *)
(***************************************************************************)
EXTENDS Integers, Sequences, FiniteSets

CONSTANT MaxTasks        \* bound: how many tasks the pool's owner submits

ASSUME MaxTasksAssumption == MaxTasks \in Nat

VARIABLES packaged,      \* whether the pool's tasks are packaged tasks
          owner,         \* where the pool's owner is
          done,          \* the flag that stops the workers
          work_queue,    \* the submitted tasks, the oldest first
          threads,       \* the workers created so far are 1..threads
          worker,        \* worker -> where it is
          running,       \* worker -> the task it runs, or NoTask
          future,        \* task -> the state of its future
          runs,          \* history: task -> how often it has been run
          terminated     \* std::terminate has been called

poolVars == <<done, work_queue, threads, worker, running, future, runs,
              terminated>>

Tasks == 1..MaxTasks
NoTask == 0
Settled == {"value", "error", "broken"}

\* A pool that wants W workers, none of them created yet.
PoolInit(W) ==
  /\ done = FALSE
  /\ work_queue = <<>>
  /\ threads = 0
  /\ worker = [w \in 1..W |-> "unborn"]
  /\ running = [w \in 1..W |-> NoTask]
  /\ future = [k \in Tasks |-> "none"]
  /\ runs = [k \in Tasks |-> 0]
  /\ terminated = FALSE
  /\ owner = "construct"

PoolWorkers == DOMAIN worker
hardware_threads == Cardinality(PoolWorkers)
Goto(place) == owner' = place
-----------------------------------------------------------------------------
(* What the owner calls.                                                   *)

\* threads.push_back(std::thread(&worker_thread, this))
StartWorker ==
  /\ threads < hardware_threads
  /\ threads' = threads + 1
  /\ worker' = [worker EXCEPT ![threads + 1] = "loop"]
  /\ UNCHANGED <<done, work_queue, running, future, runs, terminated>>

\* The constructor starts the workers; they run while it starts the others.
Construct ==
  /\ owner = "construct"
  /\ StartWorker
  /\ UNCHANGED owner

\* Mutant: the destructor, or the constructor's handler, forgets the flag.
LeaveRunning == UNCHANGED poolVars

\* done = true: in the destructor, and in the constructor when a thread cannot
\* be created.
SetDone ==
  /\ done' = TRUE
  /\ UNCHANGED <<work_queue, threads, worker, running, future, runs,
                 terminated>>

\* submit: the task k and its future are made, the task goes to the queue.
Submit(k) ==
  /\ future' = [future EXCEPT ![k] = "pending"]
  /\ work_queue' = Append(work_queue, k)
  /\ UNCHANGED <<done, threads, worker, running, runs, terminated>>

\* Mutant: the threads are destroyed before the joiner, which finds none.
JoinNobody == TRUE

\* The joiner has joined every thread that was created.
AllJoined == \A w \in 1..threads : worker[w] = "exit"

\* Mutant: the tasks left in the queue keep their futures as they are.
Forget(k) == future[k]

\* A packaged_task that is destroyed before it ran stores broken_promise.
Abandon(k) == IF packaged THEN "broken" ELSE "dropped"

\* The joiner is done; the queue is destroyed after it, and with it every task
\* that nobody ran.
Destroyed ==
  /\ owner = "join" /\ AllJoined
  /\ Goto("end")
  /\ work_queue' = <<>>
  /\ future' = [k \in Tasks |->
       IF \E i \in DOMAIN work_queue : work_queue[i] = k
       THEN Abandon(k) ELSE future[k]]
  /\ UNCHANGED <<done, threads, worker, running, runs, terminated>>
-----------------------------------------------------------------------------
(* worker_thread.                                                          *)

\* while (!done)
LoopTest(w) ==
  /\ worker[w] = "loop"
  /\ worker' = [worker EXCEPT ![w] = IF done THEN "exit" ELSE "pop"]
  /\ UNCHANGED <<done, work_queue, threads, running, future, runs, terminated>>

\* Mutant: the task is copied out of the queue.
Copied == work_queue

\* What try_pop leaves in the queue.
Rest == Tail(work_queue)

\* try_pop finds a task.
TakeTask(w) ==
  /\ worker[w] = "pop" /\ work_queue # <<>>
  /\ worker' = [worker EXCEPT ![w] = "run"]
  /\ running' = [running EXCEPT ![w] = Head(work_queue)]
  /\ runs' = [runs EXCEPT ![Head(work_queue)] = @ + 1]
  /\ work_queue' = Rest
  /\ UNCHANGED <<done, threads, future, terminated>>

\* try_pop finds none; yield.
NoTaskFound(w) ==
  /\ worker[w] = "pop" /\ work_queue = <<>>
  /\ worker' = [worker EXCEPT ![w] = "loop"]
  /\ UNCHANGED <<done, work_queue, threads, running, future, runs, terminated>>

\* task() returns, or throws and the packaged_task keeps the exception.  A
\* plain function's result is dropped.
FinishTask(w, outcome) ==
  /\ worker[w] = "run"
  /\ future' = [future EXCEPT ![running[w]] =
                  IF packaged THEN outcome ELSE "dropped"]
  /\ worker' = [worker EXCEPT ![w] = "loop"]
  /\ running' = [running EXCEPT ![w] = NoTask]
  /\ UNCHANGED <<done, work_queue, threads, runs, terminated>>

\* A plain function throws: nothing catches it, the program ends.
EscapingException(w) ==
  /\ worker[w] = "run" /\ ~packaged
  /\ terminated' = TRUE
  /\ UNCHANGED <<done, work_queue, threads, worker, running, future, runs>>

WorkerLoop(w) == LoopTest(w) \/ TakeTask(w) \/ NoTaskFound(w)
-----------------------------------------------------------------------------
\* No task runs twice, and a task whose future has a value has run.
RunOnce ==
  \A k \in Tasks : /\ runs[k] <= 1
                   /\ future[k] \in {"value", "error"} => runs[k] = 1
                   /\ future[k] = "broken" => runs[k] = 0

\* Once the pool's destructor, or its failed constructor, has returned no
\* worker is left that could touch the dead pool, and none runs a task on what
\* its owner may have destroyed.
QuietAtEnd ==
  owner = "end" => \A w \in PoolWorkers : worker[w] \in {"unborn", "exit"}

\* Nobody who still has a future of a dead pool waits for it forever: the
\* task has run, or its promise is broken.
NoFutureForgotten ==
  owner = "end" => \A k \in Tasks : future[k] # "pending"

\* Destroying the pool ends, whatever the workers were doing, and so does
\* waiting for futures.  The pool has as many workers as hardware_concurrency
\* returns, which may be none: get then waits for ever.
CallsReturn ==
  /\ owner = "join" ~> (owner = "end" \/ terminated)
  /\ (owner = "get" /\ PoolWorkers # {}) ~> owner # "get"
=============================================================================
