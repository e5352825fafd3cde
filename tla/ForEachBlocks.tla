---------------------------- MODULE ForEachBlocks ----------------------------
(***************************************************************************)
(* parallel_for_each_pt of for_each/parallel_for_each.h.  Each thread runs *)
(* a packaged_task that applies f to the elements of its block; the task   *)
(* keeps an exception in its future.  The caller applies f to the last     *)
(* block and then gets the futures one after the other.                    *)
(*                                                                         *)
(* The loop that starts the threads ends at num_threads - 2, an unsigned   *)
(* number: with a single thread it is the largest one, and the first round *)
(* of the loop writes to futures[0] of an empty vector.                    *)
(***************************************************************************)
EXTENDS BlockThreads

VARIABLES visits,      \* position -> how often f was applied to it
          future,      \* block -> what the future of its task holds
          collected    \* how many futures the caller has got

eachVars == <<visits, future, collected>>

\* What a future holds; Kept is an exception.
Pending == "pending"
Done == "done"
Kept == "kept"

EachInit ==
  /\ visits = [p \in Positions |-> 0]
  /\ future = [k \in Ids |-> Pending]
  /\ collected = 0

\* f is applied to the elements a..b.
Visit(a, b) == visits' = [p \in Positions |-> visits[p] + IF p \in a..b THEN 1 ELSE 0]
-----------------------------------------------------------------------------
(* The threads, and the caller on the final block                          *)

\* std::for_each over the block comes to its end.
ApplyBlock(k) ==
  /\ Alive /\ pc[k] = "apply"
  /\ Visit(begin(k), end(k) - 1)
  /\ future' = IF k = Final THEN future ELSE [future EXCEPT ![k] = Done]
  /\ Proceed(k, IF k = Final THEN "collect" ELSE "ready")
  /\ UNCHANGED <<collected, throws>>

\* f throws at one of the elements: a task keeps the exception.
ApplyThrows(k) ==
  /\ Alive /\ pc[k] = "apply" /\ throws < MaxThrows
  /\ throws' = throws + 1
  /\ \E p \in Block(k) : Visit(begin(k), p)
  /\ future' = IF k = Final THEN future ELSE [future EXCEPT ![k] = Kept]
  /\ Proceed(k, IF k = Final THEN "thrown" ELSE "ready")
  /\ UNCHANGED collected

\* The future is ready before the thread has ended.
ThreadEnds(k) ==
  /\ Alive /\ pc[k] = "ready"
  /\ Proceed(k, "end")
  /\ UNCHANGED <<eachVars, throws>>
-----------------------------------------------------------------------------
(* The caller                                                              *)

LaunchApply ==
  /\ threads > 1
  /\ StartThread("apply") \/ StartFinal("apply")
  /\ UNCHANGED <<eachVars, throws>>

\* A single thread: futures[0] of an empty vector.
IndexEmpty ==
  /\ Starting /\ threads = 1
  /\ outcome' = Undefined
  /\ UNCHANGED <<setting, pc, started, eachVars, throws>>

LaunchApplyFails ==
  /\ throws < MaxThrows /\ StartFails
  /\ throws' = throws + 1
  /\ UNCHANGED eachVars

\* futures[i].get() returns,
Collect(k) ==
  /\ Alive /\ pc[k] = "collect" /\ k = Final /\ collected < threads - 1
  /\ future[collected + 1] = Done
  /\ collected' = collected + 1
  /\ UNCHANGED <<frame, visits, future, throws>>

\* or throws what the task has kept, and the futures behind it are not got.
CollectThrows(k) ==
  /\ Alive /\ pc[k] = "collect" /\ k = Final /\ collected < threads - 1
  /\ future[collected + 1] = Kept
  /\ Proceed(k, "thrown")
  /\ UNCHANGED <<eachVars, throws>>

CollectedAll(k) ==
  /\ Alive /\ pc[k] = "collect" /\ k = Final /\ collected = threads - 1
  /\ Proceed(k, "end")
  /\ UNCHANGED <<eachVars, throws>>

ReturnEach ==
  /\ \/ ReturnAtOnce(Returned)
     \/ length > 0 /\ pc[Final] = "end" /\ Leave(Returned)
     \/ LeaveByException
  /\ UNCHANGED <<eachVars, throws>>
-----------------------------------------------------------------------------
EachStep(k) ==
  \/ ApplyBlock(k) \/ ThreadEnds(k)
  \/ Collect(k) \/ CollectThrows(k) \/ CollectedAll(k)

EachTrouble(k) == LaunchApplyFails \/ ApplyThrows(k)
=============================================================================
