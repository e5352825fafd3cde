---------------------------- MODULE SortingPools ----------------------------
(***************************************************************************)
(* parallel_quick_sort on either of the two pools whose waiting threads    *)
(* run other threads' tasks: SortPool's, with one shared queue, and        *)
(* StealPool's, with a queue for every worker.                             *)
(***************************************************************************)
EXTENDS SortPool, StealPool

VARIABLE pool       \* the pool that parallel_quick_sort creates

vars == <<sortVars, work_queue, queueVars, probe, pool>>

Init ==
  /\ pool \in {"shared", "stealing"}
  /\ SharedInit /\ StealInit

OnShared(A) == pool = "shared" /\ A /\ UNCHANGED <<queueVars, probe, pool>>
OnStealing(A) == pool = "stealing" /\ A /\ UNCHANGED <<work_queue, pool>>

Step(t) == OnShared(SharedStep(t)) \/ OnStealing(StealStep(t))

EndOfPool == OnShared(SharedEnd) \/ OnStealing(StealEnd)

\* The program has ended: the only state in which nothing happens.
Ended == at[Main] = "end" /\ UNCHANGED vars

Next == (\E t \in Threads : Step(t)) \/ EndOfPool \/ Ended

Spec == Init /\ [][Next]_vars

\* Every thread that can run is scheduled.  A thread that spins on its future
\* runs too, and is not assumed to be lucky.
FairSpec == Spec /\ (\A t \in Threads : WF_vars(Step(t))) /\ WF_vars(EndOfPool)
-----------------------------------------------------------------------------
\* A submitted task is in exactly one queue until one thread runs it, and when
\* the pool is destroyed none is left, no thread has a call and no promise is
\* broken.
TasksKept == IF pool = "shared" THEN SharedTasksKept ELSE StolenTasksKept
=============================================================================
