------------------------------ MODULE SortPool ------------------------------
(***************************************************************************)
(* parallel_quick_sort on a thread pool with one shared work queue: the    *)
(* pool whose waiting threads run other threads' tasks.                    *)
(*                                                                         *)
(* push and try_pop of the work queue are single steps: that they can be   *)
(* is what ThreadsafeQueue shows.  Splitting a chunk and submitting its    *)
(* lower half is one step as well; what comes before the push is not seen  *)
(* by another thread.                                                      *)
(***************************************************************************)
EXTENDS DoSort

VARIABLE work_queue    \* the calls whose tasks are pending, the oldest first

SharedInit == SortInit /\ work_queue = <<>>

\* pool.submit(std::bind(&sorter::do_sort, this, std::move(new_lower_chunk)))
SubmitShared(t) ==
  /\ Split(t)
  /\ work_queue' = Append(work_queue, Lower(Top(t)))

\* Mutant: the task is copied out of the queue.
Copied == work_queue

\* What try_pop leaves in the queue.
Rest == Tail(work_queue)

\* run_pending_task finds a task.
RunPending(t) ==
  /\ at[t] = "pending" /\ work_queue # <<>>
  /\ RunTask(t, Head(work_queue))
  /\ work_queue' = Rest

\* run_pending_task finds none.
NoPending(t) ==
  /\ at[t] = "pending" /\ work_queue = <<>>
  /\ Yield(t)
  /\ UNCHANGED work_queue

SharedStep(t) ==
  \/ SubmitShared(t) \/ RunPending(t) \/ NoPending(t)
  \/ UNCHANGED work_queue
     /\ (ReturnShort(t) \/ ReturnJoined(t) \/ NotReady(t) \/ LoopTest(t))

\* parallel_quick_sort returns and its pool is destroyed.
SharedEnd == (Destroy \/ Joined) /\ UNCHANGED work_queue
-----------------------------------------------------------------------------
\* The queue holds a submitted task from submit to the thread that runs it,
\* once; when the pool is destroyed none is left and no thread has a call, so
\* that no promise is broken.
SharedTasksKept ==
  /\ {work_queue[i] : i \in DOMAIN work_queue} =
       {c \in Calls : phase[c] = "queued"}
  /\ Len(work_queue) = Cardinality({c \in Calls : phase[c] = "queued"})
  /\ done => work_queue = <<>> /\ \A t \in Threads : ~Busy(t)
=============================================================================
