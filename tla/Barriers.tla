------------------------------ MODULE Barriers ------------------------------
(***************************************************************************)
(* The barriers of the repository, each with threads that wait at it: the  *)
(* spinning ones and the latch of SpinBarrier, the blocking one of         *)
(* CondBarrier, and the partial sums that are computed round by round at a *)
(* spinning one.                                                           *)
(***************************************************************************)
EXTENDS SpinBarrier, CondBarrier

CONSTANT Length              \* of the list whose partial sums are computed

ASSUME LengthAssumption == Length \in Nat \ {0, 1}

VARIABLES
  first, buffer, step, place,          \* the partial sums: its lists, and its
  counted, batch, released             \*   threads at the barrier

sumVars == <<first, buffer, step, place, counted, batch, released>>
vars == <<kind, pc, round, spinVars, condVars, sumVars>>

Sums == INSTANCE PartialSumBarrier WITH pc <- place, count <- counted

Init == InitThreads /\ SpinInit /\ CondInit /\ Sums!Init

AtSpin(A) ==
  kind \in {"barrier", "latch"} /\ A /\ UNCHANGED <<kind, condVars, sumVars>>
AtCond(A) == kind = "cond" /\ A /\ UNCHANGED <<kind, spinVars, sumVars>>
AtSums(A) == kind = "sums" /\ A /\ UNCHANGED <<kind, pc, round, spinVars, condVars>>

\* What a thread does that is inside a call, or is back for the next round.
Step(t) == AtSpin(ReadGeneration(t) \/ SpinStep(t)) \/ AtCond(CondStep(t))

\* Every thread waits as often as the others, or quits.
Next ==
  \/ \E t \in Threads :
       Step(t) \/ AtSpin(DecrementCount(t)) \/ AtCond(SpuriousWakeup(t))
  \/ \E i \in Sums!Indices : AtSums(Sums!Step(i) \/ Sums!LaunchFails(i))

Spec == Init /\ [][Next]_vars

\* A thread that has not quit comes back; threads that can run are scheduled.
FairSpec ==
  /\ Spec
  /\ \A t \in Threads : WF_vars(Step(t))
  /\ \A i \in Sums!Indices : WF_vars(AtSums(Sums!Step(i)))
-----------------------------------------------------------------------------
(* Properties.                                                             *)

\* Every barrier implements Barrier: nobody leaves before the last of its batch
\* has arrived.  A spinning one is set again and opened in two steps, and a
\* fast thread of the next round may already be back; at the blocking one, any
\* number of threads may arrive while a batch is still waking up.
Abstract ==
  INSTANCE Barrier
    WITH Counts <- {Cardinality(Threads), Threshold},
         count <- IF kind = "cond" THEN Threshold ELSE BatchSize,
         batch <- IF kind = "cond" THEN Held ELSE Spinning \ Freed,
         released <- IF kind = "cond" THEN Inside \ Held ELSE Freed
BarrierHolds == Abstract!Spec

\* The barrier separates the reading of a cell of the partial sums from its
\* writing, also for the threads that have left it.
NoDataRace == Sums!NoDataRace

\* No thread is held back for ever.  At a spinning barrier, which counts all
\* threads, each has waited as often as it wants to, or has quit; those of the
\* partial sums can be joined, unless one of them could not be created.  At the
\* blocking barrier nobody is left behind but those for whom no batch is
\* complete: fewer than a batch stay inside, whoever comes and goes.
AllPass == \A t \in Threads : pc[t] = "gone" \/ (pc[t] = "out" /\ ~Comes(t))

StragglersOnly ==
  /\ \A t \in Threads : pc[t] = "out" => round[t] = Rounds
  /\ Cardinality(Inside) < Threshold

NobodyHeldBack ==
  <>[](CASE kind = "cond" -> StragglersOnly
         [] kind = "sums" -> Sums!AllJoined \/ Sums!WaitForMissing
         [] OTHER -> AllPass)
=============================================================================
