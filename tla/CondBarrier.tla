----------------------------- MODULE CondBarrier -----------------------------
(***************************************************************************)
(* barrier_cond of barrier/barrier.h, with any number of threads: as in    *)
(* barrier/main.cpp, more threads may wait than the barrier counts.        *)
(*                                                                         *)
(* What Wait does between taking mMutex and releasing it is one step: the  *)
(* members are used under the mutex only.  Sleeping in mCond.wait and      *)
(* taking the mutex again to test the predicate are steps apart.           *)
(***************************************************************************)
EXTENDS BarrierThreads

CONSTANTS Threshold,         \* mThreshold: how many the barrier counts
          CondGenerations,   \* how many values mGeneration has, a size_t
          MaxSpurious        \* bound: how many spurious wakeups happen

ASSUME ThresholdAssumption == Threshold \in 1..Cardinality(Threads)
ASSUME SpuriousAssumption == MaxSpurious \in Nat

\* mGeneration does not come round: all batches together are fewer than its
\* values.
ASSUME GenerationsAssumption ==
  /\ CondGenerations \in Nat \ {0}
  /\ Cardinality(Threads) * Rounds < CondGenerations * Threshold

VARIABLES mCount,        \* how many have yet to arrive
          mGeneration,
          lGen,          \* thread -> the generation it read
          spurious       \* spurious wakeups so far

condVars == <<mCount, mGeneration, lGen, spurious>>

CondInit ==
  /\ mCount = Threshold /\ mGeneration = 0
  /\ lGen = [t \in Threads |-> 0]
  /\ spurious = 0

Asleep == {t \in Threads : pc[t] = "asleep"}

\* Mutant: notify_one.
WakeOne(S) == IF S = {} THEN {} ELSE {CHOOSE t \in S : TRUE}

\* mCond.notify_all()
WakeAll(S) == S

\* Wait, for the last of a batch: a new generation, and everyone is woken.
ArriveLast(t) ==
  /\ Comes(t) /\ mCount = 1
  /\ mGeneration' = (mGeneration + 1) % CondGenerations
  /\ mCount' = Threshold
  /\ pc' = [u \in Threads |-> IF u = t THEN "leaving"
                              ELSE IF u \in WakeAll(Asleep) THEN "woken"
                              ELSE pc[u]]
  /\ UNCHANGED <<lGen, round, spurious>>

\* The last one returns from Wait.
Leave(t) ==
  /\ pc[t] = "leaving"
  /\ pc' = [pc EXCEPT ![t] = "out"]
  /\ round' = [round EXCEPT ![t] = @ + 1]
  /\ UNCHANGED <<mCount, mGeneration, lGen, spurious>>

\* Wait, for the others: wait sleeps and releases the mutex in one step.
ArriveAndSleep(t) ==
  /\ Comes(t) /\ mCount > 1
  /\ lGen' = [lGen EXCEPT ![t] = mGeneration]
  /\ mCount' = mCount - 1
  /\ pc' = [pc EXCEPT ![t] = "asleep"]
  /\ UNCHANGED <<mGeneration, round, spurious>>

SpuriousWakeup(t) ==
  /\ pc[t] = "asleep" /\ spurious < MaxSpurious
  /\ spurious' = spurious + 1
  /\ pc' = [pc EXCEPT ![t] = "woken"]
  /\ UNCHANGED <<mCount, mGeneration, lGen, round>>

\* The predicate of wait.
Changed(t) == lGen[t] # mGeneration

\* A woken thread takes the mutex and evaluates the predicate.
Recheck(t) ==
  /\ pc[t] = "woken"
  /\ IF Changed(t)
     THEN /\ pc' = [pc EXCEPT ![t] = "out"]
          /\ round' = [round EXCEPT ![t] = @ + 1]
     ELSE /\ pc' = [pc EXCEPT ![t] = "asleep"]
          /\ UNCHANGED round
  /\ UNCHANGED <<mCount, mGeneration, lGen, spurious>>

CondStep(t) == ArriveLast(t) \/ Leave(t) \/ ArriveAndSleep(t) \/ Recheck(t)
-----------------------------------------------------------------------------
(* What the state of this barrier means.                                   *)

Inside == {t \in Threads : pc[t] # "out"}
Held == {t \in Inside : pc[t] # "leaving" /\ lGen[t] = mGeneration}
=============================================================================
