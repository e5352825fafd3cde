------------------------------ MODULE StealPool ------------------------------
(***************************************************************************)
(* parallel_quick_sort on the work-stealing pool.  Each worker has a queue *)
(* of its own; a task goes to the front of the submitting worker's queue,  *)
(* or to the pool's queue when main submits it.  A thread that looks for a *)
(* task tries the front of its own queue, the pool's queue, then the back  *)
(* of every worker's queue in turn, each under that queue's own lock: the  *)
(* search is not atomic.  The workers are numbered as the pool numbers     *)
(* them; all queues exist before the sort starts (the constructor, which   *)
(* starts workers while it still adds queues, is not part of this module). *)
(***************************************************************************)
EXTENDS DoSort

ASSUME NumberedWorkers ==
  IsFiniteSet(Workers) /\ Workers = 0..(Cardinality(Workers) - 1)

VARIABLES global_work_queue,   \* the calls that main submitted, oldest first
          queues,              \* worker -> the calls it submitted, newest first
          probe                \* thread -> the place it looks for a task next

queueVars == <<global_work_queue, queues>>

\* Places to look: 0 is the thread's own queue, 1 the pool's, 2 + i the queue
\* of the i-th victim.
OwnQueue == 0
PoolQueue == 1
Victims == 2..(Cardinality(Workers) + 1)
Exhausted == Cardinality(Workers) + 2

\* The thread_local my_index, which is 0 in main as well.
MyIndex(t) == IF t = Main THEN 0 ELSE t

\* (my_index + i + 1) % queues.size(): the thread's own queue comes last.
Victim(t, i) == (MyIndex(t) + (i - 2) + 1) % Cardinality(Workers)

StealInit ==
  /\ SortInit
  /\ global_work_queue = <<>>
  /\ queues = [w \in Workers |-> <<>>]
  /\ probe = [t \in Threads |-> OwnQueue]

\* Mutant: new tasks go to the back, where the thieves are.
PushBack(w, c) == queues' = [queues EXCEPT ![w] = Append(@, c)]

\* work_stealing_queue::push
PushFront(w, c) == queues' = [queues EXCEPT ![w] = <<c>> \o @]

\* submit: the thread_local local_work_queue is null in main only.
SubmitTask(t) ==
  /\ Split(t)
  /\ IF t = Main
     THEN /\ global_work_queue' = Append(global_work_queue, Lower(Top(t)))
          /\ UNCHANGED queues
     ELSE /\ PushFront(t, Lower(Top(t)))
          /\ UNCHANGED global_work_queue
  /\ UNCHANGED probe

\* The search goes on at the next place.
LookNext(t) ==
  /\ probe' = [probe EXCEPT ![t] = @ + 1]
  /\ UNCHANGED <<sortVars, queueVars>>

\* The search is over: the thread runs c, or yields.
StopLooking(t) == probe' = [probe EXCEPT ![t] = OwnQueue]

\* pop_task_from_local_queue
TryLocal(t) ==
  /\ at[t] = "pending" /\ probe[t] = OwnQueue
  /\ IF t \in Workers /\ queues[t] # <<>>
     THEN /\ RunTask(t, Head(queues[t]))
          /\ queues' = [queues EXCEPT ![t] = Tail(@)]
          /\ StopLooking(t)
          /\ UNCHANGED global_work_queue
     ELSE LookNext(t)

\* pop_task_from_pool_queue
TryPool(t) ==
  /\ at[t] = "pending" /\ probe[t] = PoolQueue
  /\ IF global_work_queue # <<>>
     THEN /\ RunTask(t, Head(global_work_queue))
          /\ global_work_queue' = Tail(global_work_queue)
          /\ StopLooking(t)
          /\ UNCHANGED queues
     ELSE LookNext(t)

\* What try_steal leaves of a queue.
DropBack(s) == SubSeq(s, 1, Len(s) - 1)

\* pop_task_from_other_thread_queue, one victim
TrySteal(t) ==
  /\ at[t] = "pending" /\ probe[t] \in Victims
  /\ LET v == Victim(t, probe[t]) IN
     IF queues[v] # <<>>
     THEN /\ RunTask(t, queues[v][Len(queues[v])])
          /\ queues' = [queues EXCEPT ![v] = DropBack(@)]
          /\ StopLooking(t)
          /\ UNCHANGED global_work_queue
     ELSE LookNext(t)

\* No queue had a task.
GiveUp(t) ==
  /\ at[t] = "pending" /\ probe[t] = Exhausted
  /\ Yield(t)
  /\ StopLooking(t)
  /\ UNCHANGED queueVars

StealStep(t) ==
  \/ SubmitTask(t) \/ TryLocal(t) \/ TryPool(t) \/ TrySteal(t) \/ GiveUp(t)
  \/ UNCHANGED <<queueVars, probe>>
     /\ (ReturnShort(t) \/ ReturnJoined(t) \/ NotReady(t) \/ LoopTest(t))

\* parallel_quick_sort returns and its pool is destroyed.
StealEnd == (Destroy \/ Joined) /\ UNCHANGED <<queueVars, probe>>
-----------------------------------------------------------------------------
Items(s) == {s[i] : i \in DOMAIN s}

\* A submitted task is in exactly one queue until one thread runs it, and when
\* the pool is destroyed none is left and no thread has a call.
StolenTasksKept ==
  /\ Items(global_work_queue) \cup UNION {Items(queues[w]) : w \in Workers} =
       {c \in Calls : phase[c] = "queued"}
  /\ \A v, w \in Workers : \A i \in DOMAIN queues[v], j \in DOMAIN queues[w] :
       queues[v][i] = queues[w][j] => v = w /\ i = j
  /\ done => \A t \in Threads : ~Busy(t)

\* A worker's queue mirrors its stack: it holds lower halves of calls that are
\* on that worker's stack, those of inner calls in front.  So what a worker
\* takes back is the half it needs first, and what a thief takes is the half
\* that its owner needs last.
QueueMirrorsStack ==
  \A w \in Workers :
    \E depth \in [DOMAIN queues[w] -> DOMAIN stack[w]] :
      /\ \A i \in DOMAIN queues[w] : queues[w][i] = Lower(stack[w][depth[i]])
      /\ \A i, j \in DOMAIN queues[w] : i < j => depth[i] > depth[j]
=============================================================================
