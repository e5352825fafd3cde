---------------------------- MODULE RawAccumulate ----------------------------
(***************************************************************************)
(* parallel_accumulate of s1_parallel_accumulate: each thread sums up its  *)
(* block, the caller the last one; it joins the threads, one after the     *)
(* other, and adds up their sums.  No object joins them when an exception  *)
(* leaves the function: the destructor of a thread that was not joined     *)
(* ends the program.  The number of threads may be zero, and is a divisor. *)
(*                                                                         *)
(* A sum is the sequence of the elements that were added, in their order.  *)
(***************************************************************************)
EXTENDS BlockThreads, Sequences

VARIABLES results,     \* block -> its sum
          joined,      \* how many threads the caller has joined
          added,       \* how many sums it has added up
          total        \* ref, the caller's sum

rawVars == <<results, joined, added, total>>

ElementsOf(first, behind) == [i \in 1..(behind - first) |-> first + i - 1]

RawInit ==
  /\ results = [k \in Ids |-> <<>>]
  /\ joined = 0 /\ added = 0
  /\ total = <<>>

\* (distance + 1) / allowed_threads
DivideByZero ==
  /\ Alive /\ threads = 0
  /\ outcome' = Undefined
  /\ UNCHANGED <<setting, pc, started, rawVars, throws>>

LaunchRaw ==
  /\ StartThread("add") \/ StartFinal("add")
  /\ UNCHANGED <<rawVars, throws>>

\* std::accumulate over the block
SumUp(k) ==
  /\ Alive /\ pc[k] = "add"
  /\ results' = [results EXCEPT ![k] = @ \o ElementsOf(begin(k), end(k))]
  /\ Proceed(k, IF k = Final THEN "join" ELSE "end")
  /\ UNCHANGED <<joined, added, total, throws>>

\* An exception leaves the function, and the vector of the threads is destroyed.
LeaveUnjoined ==
  /\ outcome' = IF started > 0 THEN Terminated ELSE Threw
  /\ Goto(Final, "thrown")
  /\ UNCHANGED <<setting, started>>

\* An addition throws, in a thread or in the caller.
SumUpThrows(k) ==
  /\ Alive /\ pc[k] = "add" /\ throws < MaxThrows
  /\ throws' = throws + 1
  /\ IF k = Final THEN LeaveUnjoined ELSE Escape(k)
  /\ UNCHANGED rawVars

\* A thread cannot be created.
LaunchRawFails ==
  /\ Starting /\ started < threads - 1 /\ throws < MaxThrows
  /\ throws' = throws + 1
  /\ LeaveUnjoined
  /\ UNCHANGED rawVars

\* threads[i].join()
JoinThread(k) ==
  /\ Alive /\ pc[k] = "join" /\ k = Final /\ joined < started
  /\ pc[joined + 1] = "end"
  /\ joined' = joined + 1
  /\ UNCHANGED <<frame, results, added, total, throws>>

\* The sums are added up in the order of the blocks.
AddResult(k) ==
  /\ Alive /\ pc[k] = "join" /\ k = Final /\ joined = started
  /\ added' = added + 1
  /\ total' = total \o results[added']
  /\ IF added' = threads THEN Proceed(k, "end") ELSE UNCHANGED frame
  /\ UNCHANGED <<results, joined, throws>>

ReturnRaw ==
  /\ threads > 0 /\ Alive /\ pc[Final] = "end"
  /\ outcome' = Returned
  /\ UNCHANGED <<setting, pc, started, rawVars, throws>>
-----------------------------------------------------------------------------
RawStep(k) == SumUp(k) \/ JoinThread(k) \/ AddResult(k)
RawTrouble(k) == LaunchRawFails \/ SumUpThrows(k)
-----------------------------------------------------------------------------
(* Properties.                                                             *)

\* The sum is one of all elements in their order.
TotalInOrder == total = ElementsOf(0, length)
=============================================================================
