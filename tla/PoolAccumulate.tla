--------------------------- MODULE PoolAccumulate ---------------------------
(***************************************************************************)
(* parallel_accumulate on the pool of packaged tasks: the range is cut     *)
(* into blocks, all but the last are submitted, the caller sums the last   *)
(* one itself and then gets the futures in turn.  The element at position  *)
(* i is 2 ^ i, so that the sum tells which elements were counted, and how  *)
(* often.                                                                  *)
(***************************************************************************)
EXTENDS ThreadPool, Partition

CONSTANT Lengths           \* the lengths of the range

ASSUME LengthsAssumption == Lengths \subseteq Nat

VARIABLES length,             \* this range's length
          i,                  \* the loop variable
          result,             \* the sum it builds
          threw               \* whether it is leaving by an exception

accumulateVars == <<length, i, result, threw>>

InitialValue == 0

\* How many threads share the range.
blocks == num_threads(length, hardware_threads)

\* The sum of the elements in front of position n.
SumUpTo(n) == 2 ^ n - 1

\* What accumulate_block returns for block k.
BlockSum(k) == SumUpTo(block_end(length, hardware_threads, k))
                 - SumUpTo(block_start(length, hardware_threads, k))

AccumulateInit ==
  /\ length \in Lengths
  /\ i = 1
  /\ result = InitialValue
  /\ threw = FALSE

\* The pool exists; an empty range needs nothing of it.
Begin ==
  /\ owner = "construct" /\ threads = hardware_threads
  /\ Goto(IF length = 0 THEN "return" ELSE "submit")
  /\ UNCHANGED <<poolVars, accumulateVars>>

SubmitBlock ==
  /\ owner = "submit" /\ i <= blocks - 1
  /\ Submit(i)
  /\ i' = i + 1
  /\ UNCHANGED <<owner, length, result, threw>>

\* submit allocates: it may throw while earlier blocks are being summed.  The
\* futures are destroyed, then the pool.
SubmitThrows ==
  /\ owner = "submit" /\ i <= blocks - 1
  /\ threw' = TRUE
  /\ Goto("return")
  /\ UNCHANGED <<poolVars, length, i, result>>

\* The caller sums its own block, and then waits for the others.
SumLast ==
  /\ owner = "submit" /\ i > blocks - 1
  /\ Goto("get")
  /\ i' = 1
  /\ UNCHANGED <<poolVars, length, result, threw>>

\* futures[i].get(): blocks until the task has run, then adds its value.
GetBlock ==
  /\ owner = "get" /\ i <= blocks - 1
  /\ future[i] = "value"
  /\ i' = i + 1
  /\ result' = result + BlockSum(i)
  /\ UNCHANGED <<poolVars, owner, length, threw>>

\* All futures are in: its own block comes last.
GotAll ==
  /\ owner = "get" /\ i > blocks - 1
  /\ Goto("return")
  /\ result' = result + BlockSum(blocks)
  /\ UNCHANGED <<poolVars, length, i, threw>>

\* The pool is a local variable: it is destroyed as the function returns.
Return ==
  /\ owner = "return"
  /\ SetDone
  /\ Goto("join")
  /\ UNCHANGED accumulateVars

AccumulateStep ==
  \/ Begin \/ SubmitBlock \/ SubmitThrows \/ SumLast
  \/ GetBlock \/ GotAll \/ Return
  \/ (Construct \/ Destroyed) /\ UNCHANGED accumulateVars
-----------------------------------------------------------------------------
\* A result that is returned counts every element of the range once.
SumIsExact ==
  owner \in {"return", "join", "end"} /\ ~threw =>
    result = InitialValue + SumUpTo(length)
=============================================================================
