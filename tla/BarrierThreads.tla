--------------------------- MODULE BarrierThreads ---------------------------
(***************************************************************************)
(* The threads that wait at one of the barriers of the repository: each    *)
(* waits, returns and comes back for the next round.                       *)
(***************************************************************************)
EXTENDS Integers, FiniteSets

CONSTANTS Threads,      \* the threads that wait
          Rounds        \* bound: how often a thread waits

ASSUME ThreadsAssumption == IsFiniteSet(Threads) /\ Threads # {}
ASSUME RoundsAssumption == Rounds \in Nat \ {0}

VARIABLES kind,         \* what they wait at: "barrier", "latch" or "cond", and
                        \* "sums" for the threads of partial sums
          pc,           \* thread -> what it does next
          round         \* thread -> how often it has waited

Goto(t, l) == pc' = [pc EXCEPT ![t] = l]

\* The latch is used once.
Comes(t) == pc[t] = "out" /\ round[t] < IF kind = "latch" THEN 1 ELSE Rounds

InitThreads ==
  /\ kind \in {"barrier", "latch", "cond", "sums"}
  /\ pc = [t \in Threads |-> "out"]
  /\ round = [t \in Threads |-> 0]
=============================================================================
