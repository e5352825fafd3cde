--------------------------- MODULE BlockAlgorithms ---------------------------
(***************************************************************************)
(* A call of one of the parallel algorithms on ranges: of those that cut   *)
(* the range into blocks and start a thread for each block but the last,   *)
(* or of those that hand a part of it to std::async.                       *)
(***************************************************************************)
EXTENDS PartialSumChain, RawAccumulate, MatrixBlocks, AsyncHalves

vars == <<frame, throws, sumVars, findVars, eachVars, rawVars, matrixVars, calls>>

Init ==
  /\ InitFrame /\ SumInit /\ FindInit /\ EachInit /\ RawInit /\ MatrixInit
  /\ AsyncInit

InSum(A) ==
  /\ algorithm = "partial_sum" /\ A
  /\ UNCHANGED <<findVars, eachVars, rawVars, matrixVars, calls>>
InFind(A) ==
  /\ algorithm = "find" /\ A
  /\ UNCHANGED <<sumVars, eachVars, rawVars, matrixVars, calls>>
InEach(A) ==
  /\ algorithm = "for_each" /\ A
  /\ UNCHANGED <<sumVars, findVars, rawVars, matrixVars, calls>>
InRaw(A) ==
  IsRaw /\ A /\ UNCHANGED <<sumVars, findVars, eachVars, matrixVars, calls>>
InMatrix(A) ==
  /\ algorithm \in MatrixNames /\ A
  /\ UNCHANGED <<sumVars, findVars, eachVars, rawVars, calls>>
InAsync(A) ==
  algorithm \in AsyncNames /\ A /\ UNCHANGED <<sumVars, rawVars, matrixVars>>

\* The caller starts the threads, and returns.
CallerStep ==
  InSum(LaunchSum \/ ReturnSum) \/ InFind(LaunchSearch \/ ReturnFound)
    \/ InEach(LaunchApply \/ IndexEmpty \/ ReturnEach)
    \/ InRaw(LaunchRaw \/ DivideByZero \/ ReturnRaw)
    \/ InMatrix(LaunchMatrix \/ RefuseSizes \/ ReturnMatrix)

\* The code that works on block k.
Step(k) == InSum(SumStep(k)) \/ InFind(SearchStep(k)) \/ InEach(EachStep(k))
             \/ InRaw(RawStep(k)) \/ InMatrix(ComputeBlock(k))

\* What the system, or an element, may do to the call.
Trouble ==
  \/ InFind(LaunchSearchFails) \/ InMatrix(LaunchMatrixFails) \/ InAsync(AsyncTrouble)
  \/ \E k \in Ids : InSum(SumTrouble(k)) \/ InEach(EachTrouble(k)) \/ InRaw(RawTrouble(k))

Next ==
  \/ CallerStep \/ InAsync(AsyncStep) \/ Trouble
  \/ \E k \in Ids : Step(k)

Spec == Init /\ [][Next]_vars

\* Running threads are scheduled; of the asynchronous calls it is enough that
\* one of them is.
FairSpec ==
  /\ Spec /\ WF_vars(CallerStep) /\ \A k \in Ids : WF_vars(Step(k))
  /\ WF_vars(InAsync(AsyncStep))
-----------------------------------------------------------------------------
(* Properties.                                                             *)

\* What is returned is a position of the value, and the end of the range only
\* if the value is nowhere and every comparison was made, although the threads
\* of parallel_find_pt stop one another; parallel_find_async finds the first.
FoundIsMatch ==
  /\ algorithm = "find" => PositionMatches
  /\ algorithm = "find_async" => FirstIsFound

\* When a call returns, f was applied to every element once, also where half
\* of the range was deferred, and never twice; sums, lists and matrices are
\* complete.
EveryElementOnce ==
  /\ \A p \in Positions : visits[p] <= 1
  /\ outcome = Returned =>
       /\ algorithm \in {"for_each", "for_each_async"} =>
            \A p \in Positions : visits[p] = 1
       /\ algorithm \in {"accumulate", "sort"} => InOrder
       /\ IsRaw => TotalInOrder
       /\ MatrixIsRight

\* The program ends, or is undefined, for no other reason than these: a promise
\* is set twice because the range holds two matches; a single thread is left to
\* for_each, whose loop then runs past its vector; the range is too short for
\* a raw thread, and its length is divided by none; an operand of a
\* product lacks a row, or a column for each row of the result; or something is thrown in a
\* raw thread or beside one, or in partial sums whose promise is set already.
DiesOnlyOf ==
  /\ outcome = Undefined =>
       \/ algorithm = "for_each" /\ (length <= MinPerThread \/ hardware = 1)
       \/ IsRaw /\ length < MinBlockSize - 1
       \/ algorithm = "multiply" /\ OperandTooSmall
  /\ outcome = Terminated =>
       IF algorithm = "find" THEN TwoMatch
       ELSE throws > 0 /\ algorithm \in {"raw_accumulate", "partial_sum"}

\* No exception gets lost: a call during which one was thrown, by an element or
\* because a thread could not be created, does not return as if nothing had
\* happened, nor a match that another thread has found.  Only
\* parallel_find_async may drop one, that of a half it does not need, but never
\* reports the value as missing then.
ThrownIsReported ==
  throws > 0 =>
    IF algorithm = "find_async" THEN outcome # length
    ELSE outcome \in {Running, Threw, Terminated, Undefined}

\* No thread uses the caller's range or variables when the call is over.
NothingOutlivesCall ==
  outcome \notin {Running, Terminated, Undefined} =>
    NoBlockOutlivesCall /\ NoCallOutlivesRoot
=============================================================================
