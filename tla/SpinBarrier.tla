----------------------------- MODULE SpinBarrier -----------------------------
(***************************************************************************)
(* The three barriers of the repository that spin on a generation number:  *)
(* barrier_spin of barrier/barrier.h, the barrier of scan/partial_sum.h,   *)
(* which a thread can leave for good by done_waiting, and the Latch, which *)
(* is used once.  Every access to the three atomics is a step of its own.  *)
(*                                                                         *)
(* They are used by as many threads as they count.  With more, a thread    *)
(* can decrement spaces after it has reached 0 and before it is set again. *)
(***************************************************************************)
EXTENDS BarrierThreads

\* generation is an unsigned: it counts modulo this, 2^32 in C++.
CONSTANT Generations

ASSUME UnsignedAssumption == Generations \in Nat \ {0, 1}

VARIABLES count,           \* the threads that the barrier counts
          spaces,          \* how many have yet to arrive
          generation,
          my_generation,   \* thread -> the generation it read
          loaded,          \* thread -> the count it read
          quitting         \* thread -> whether it is in done_waiting

shared == <<count, spaces, generation>>
spinVars == <<shared, my_generation, loaded, quitting>>

SpinInit ==
  /\ count = Cardinality(Threads) /\ spaces = Cardinality(Threads)
  /\ generation = 0
  /\ my_generation = [t \in Threads |-> 0]
  /\ loaded = [t \in Threads |-> 0]
  /\ quitting = [t \in Threads |-> FALSE]

\* wait: unsigned const my_generation = generation
ReadGeneration(t) ==
  /\ Comes(t)
  /\ my_generation' = [my_generation EXCEPT ![t] = generation]
  /\ Goto(t, "decrement")
  /\ UNCHANGED <<shared, loaded, quitting, round>>

\* done_waiting: --count
DecrementCount(t) ==
  /\ pc[t] = "out" /\ kind = "barrier"
  /\ count' = count - 1
  /\ quitting' = [quitting EXCEPT ![t] = TRUE]
  /\ Goto(t, "decrement")
  /\ UNCHANGED <<spaces, generation, my_generation, loaded, round>>

\* Where the thread goes that arrives last.  The latch is not set again.
AfterLast == IF kind = "latch" THEN "advance" ELSE "load"

\* if (!--spaces): the last one sets the barrier up again, the others spin.
Decrement(t) ==
  /\ pc[t] = "decrement"
  /\ spaces' = spaces - 1
  /\ Goto(t, IF spaces = 1 THEN AfterLast
             ELSE IF quitting[t] THEN "gone" ELSE "spin")
  /\ UNCHANGED <<count, generation, my_generation, loaded, quitting, round>>

\* spaces = count: it reads count,
LoadCount(t) ==
  /\ pc[t] = "load"
  /\ loaded' = [loaded EXCEPT ![t] = count]
  /\ Goto(t, "refill")
  /\ UNCHANGED <<shared, my_generation, quitting, round>>

\* and writes spaces.
Refill(t) ==
  /\ pc[t] = "refill"
  /\ spaces' = loaded[t]
  /\ Goto(t, "advance")
  /\ UNCHANGED <<count, generation, my_generation, loaded, quitting, round>>

\* The thread returns from wait or done_waiting.
Return(t) ==
  /\ Goto(t, IF quitting[t] THEN "gone" ELSE "out")
  /\ round' = [round EXCEPT ![t] = IF quitting[t] THEN @ ELSE @ + 1]
  /\ UNCHANGED <<my_generation, loaded, quitting>>

\* ++generation
Advance(t) ==
  /\ pc[t] = "advance"
  /\ generation' = (generation + 1) % Generations
  /\ Return(t)
  /\ UNCHANGED <<count, spaces>>

\* Mutant: an if where the loop is.
LookOnce(t) == TRUE

\* The loop of wait ends.
GenerationChanged(t) == generation # my_generation[t]

SpinEnds(t) ==
  /\ pc[t] = "spin" /\ GenerationChanged(t)
  /\ Return(t)
  /\ UNCHANGED shared

\* What a thread does once it is inside a call.
SpinStep(t) ==
  \/ Decrement(t) \/ LoadCount(t) \/ Refill(t) \/ Advance(t) \/ SpinEnds(t)
-----------------------------------------------------------------------------
(* What the state of these barriers means.                                 *)

Finishing == {t \in Threads : pc[t] \in {"load", "refill", "advance"}}
Spinning == {t \in Threads : pc[t] = "spin"}
QuitsHalfWay == {t \in Threads : quitting[t] /\ pc[t] = "decrement"}

\* The threads whose batch is complete: those that have not yet seen the new
\* generation, and, between the last decrement and the next generation, all.
Freed ==
  IF Finishing # {} THEN Spinning \cup {t \in Finishing : ~quitting[t]}
  ELSE {t \in Spinning : my_generation[t] # generation}

\* How many threads a batch has; who quits still counts until it has
\* decremented spaces as well.
BatchSize == count + Cardinality(QuitsHalfWay)
=============================================================================
