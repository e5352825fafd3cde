--------------------------- MODULE BarriersProofs ---------------------------
(***************************************************************************)
(* Every barrier of the repository holds its threads back, and the threads *)
(* of the partial sums do not race: proofs for every number of threads and *)
(* rounds and every length of the list.                                    *)
(***************************************************************************)
EXTENDS Barriers, FiniteSetTheorems, TLAPS

\* Barrier counts as this module does.
LEMMA SameCardinality ==
  \A S : Sums!b!Cardinality(S) = Cardinality(S) /\ Abstract!Cardinality(S) = Cardinality(S)
BY DEF Sums!b!Cardinality, Abstract!Cardinality, Cardinality

-----------------------------------------------------------------------------
(* The threads of the partial sums.                                        *)

Cells == Sums!Indices
Working == {i \in Cells : place[i] # "end"}
Waiting == {i \in Cells : place[i] = "leave"}

\* The round a thread is in, or is free to enter.
RoundOf(i) == IF i \in released THEN step[i] + 1 ELSE step[i]

\* The barrier counts the threads that have not left it, and all that have not
\* are in the same round: nobody is released before the others have arrived.
SumsInv ==
  /\ place \in [Cells -> {"loop", "arrive", "leave", "quit", "end", "off"}]
  /\ step \in [Cells -> Nat]
  /\ batch \cup released = Waiting /\ batch \cap released = {}
  /\ counted = Cardinality(Working)
  /\ \A i, j \in Working : RoundOf(i) = RoundOf(j)

\* Each step of the partial sums keeps this.
LEMMA SumsStepKeeps ==
  ASSUME SumsInv, NEW i \in Cells, Sums!Step(i) \/ Sums!LaunchFails(i)
  PROVE  SumsInv'
<1>1. IsFiniteSet(Cells) /\ IsFiniteSet(Working) /\ Cardinality(Working) \in Nat
  <2>1. IsFiniteSet(Cells)
    BY LengthAssumption, FS_Interval DEF Cells, Sums!Indices
  <2>2. QED
    BY <2>1, FS_Subset, FS_CardinalityType DEF Working
<1>2. CASE Sums!Add(i)
  <2>1. /\ place[i] = "loop" /\ place' = [place EXCEPT ![i] = "arrive"]
        /\ UNCHANGED <<step, counted, batch, released>>
    BY <1>2 DEF Sums!Add, Sums!Goto, Sums!barrier
  <2>2. Working' = Working /\ Waiting' = Waiting
    BY <2>1 DEF SumsInv, Working, Waiting
  <2>3. QED
    BY <2>1, <2>2 DEF SumsInv, RoundOf
<1>3. CASE Sums!Finish(i)
  <2>1. /\ place[i] = "loop" /\ place' = [place EXCEPT ![i] = "quit"]
        /\ UNCHANGED <<step, counted, batch, released>>
    BY <1>3 DEF Sums!Finish, Sums!Goto, Sums!barrier
  <2>2. Working' = Working /\ Waiting' = Waiting
    BY <2>1 DEF SumsInv, Working, Waiting
  <2>3. QED
    BY <2>1, <2>2 DEF SumsInv, RoundOf
<1>4. CASE Sums!LaunchFails(i)
  <2>1. /\ \A j \in Cells : place'[j] = place[j] \/ (place[j] = "loop" /\ place'[j] = "off")
        /\ place' \in [Cells -> {"loop", "arrive", "leave", "quit", "end", "off"}]
        /\ UNCHANGED <<step, counted, batch, released>>
    BY <1>4 DEF Sums!LaunchFails, Sums!barrier, Cells, Sums!Indices, SumsInv
  <2>2. Working' = Working /\ Waiting' = Waiting
    BY <2>1 DEF Working, Waiting
  <2>3. QED
    BY <2>1, <2>2 DEF SumsInv, RoundOf
<1>5. CASE Sums!Leave(i)
  <2>1. /\ place[i] = "leave" /\ place' = [place EXCEPT ![i] = "loop"] /\ i \in released
        /\ step' = [step EXCEPT ![i] = step[i] + 1] /\ released' = released \ {i}
        /\ UNCHANGED <<counted, batch>>
    BY <1>5 DEF Sums!Leave, Sums!Goto, Sums!b!Leave
  <2>2. Working' = Working /\ Waiting' = Waiting \ {i}
    BY <2>1 DEF SumsInv, Working, Waiting
  <2>3. \A j \in Cells : RoundOf(j)' = RoundOf(j)
    BY <2>1 DEF SumsInv, RoundOf
  <2>4. \A j, k \in Working' : RoundOf(j)' = RoundOf(k)'
    BY <2>2, <2>3 DEF SumsInv, Working
  <2>5. QED
    BY <2>1, <2>2, <2>4 DEF SumsInv
<1>6. CASE Sums!Arrive(i)
  <2>1. /\ place[i] = "arrive" /\ place' = [place EXCEPT ![i] = "leave"]
        /\ i \notin batch \cup released /\ UNCHANGED <<counted, step>>
        /\ IF batch \cup {i} # {} /\ Cardinality(batch \cup {i}) = counted
           THEN batch' = {} /\ released' = released \cup (batch \cup {i})
           ELSE batch' = batch \cup {i} /\ UNCHANGED released
    BY <1>6, SameCardinality DEF Sums!Arrive, Sums!Goto, Sums!b!Arrive, Sums!b!Gather
  <2>2. /\ Working' = Working /\ i \in Working /\ Waiting' = Waiting \cup {i}
        /\ Waiting \subseteq Working
    BY <2>1 DEF SumsInv, Working, Waiting
  <2>3. CASE Cardinality(batch \cup {i}) = counted
    <3>1. batch \cup {i} = Working
      BY <1>1, <2>2, <2>3, FS_Subset DEF SumsInv
    <3>2. released = {}
      BY <2>1, <2>2, <3>1 DEF SumsInv
    <3>3. batch' = {} /\ released' = Working
      BY <2>1, <2>3, <3>1, <3>2
    <3>4. \A j \in Working : RoundOf(j) = step[j] /\ RoundOf(j)' = step[j] + 1
      BY <2>1, <3>2, <3>3 DEF RoundOf
    <3>5. Waiting' = Working
      BY <2>2, <3>1 DEF SumsInv
    <3>6. QED
      BY <2>1, <2>2, <3>3, <3>4, <3>5 DEF SumsInv
  <2>4. CASE Cardinality(batch \cup {i}) # counted
    <3>1. batch' = batch \cup {i} /\ released' = released
      BY <2>1, <2>4
    <3>2. \A j \in Working : RoundOf(j)' = RoundOf(j)
      BY <2>1, <3>1 DEF RoundOf
    <3>3. QED
      BY <2>1, <2>2, <3>1, <3>2 DEF SumsInv
  <2>5. QED
    BY <2>3, <2>4
<1>7. CASE Sums!DoneWaiting(i)
  <2>1. /\ place[i] = "quit" /\ place' = [place EXCEPT ![i] = "end"]
        /\ counted' = counted - 1 /\ UNCHANGED step
        /\ IF batch # {} /\ Cardinality(batch) = counted - 1
           THEN batch' = {} /\ released' = released \cup batch
           ELSE batch' = batch /\ UNCHANGED released
    BY <1>7, SameCardinality DEF Sums!DoneWaiting, Sums!Goto, Sums!b!Quit, Sums!b!Gather
  <2>2. /\ Working' = Working \ {i} /\ i \in Working /\ Waiting' = Waiting
        /\ Waiting \subseteq Working \ {i}
    BY <2>1 DEF SumsInv, Working, Waiting
  <2>3. IsFiniteSet(Working') /\ Cardinality(Working') = counted'
    BY <1>1, <2>1, <2>2, FS_RemoveElement DEF SumsInv
  <2>4. CASE batch # {} /\ Cardinality(batch) = counted - 1
    <3>1. batch = Working'
      BY <2>1, <2>2, <2>3, <2>4, FS_Subset DEF SumsInv
    <3>2. released = {}
      BY <2>2, <3>1 DEF SumsInv
    <3>3. batch' = {} /\ released' = Working'
      BY <2>1, <2>4, <3>1, <3>2
    <3>4. \A j \in Working' : j \in Working /\ RoundOf(j) = step[j] /\ RoundOf(j)' = step[j] + 1
      BY <2>1, <2>2, <3>2, <3>3 DEF RoundOf
    <3>5. Waiting' = Working'
      BY <2>2, <3>1, <3>2 DEF SumsInv
    <3>6. QED
      BY <2>1, <2>2, <2>3, <3>3, <3>4, <3>5 DEF SumsInv
  <2>5. CASE ~(batch # {} /\ Cardinality(batch) = counted - 1)
    <3>1. batch' = batch /\ released' = released
      BY <2>1, <2>5
    <3>2. \A j \in Working' : j \in Working /\ RoundOf(j)' = RoundOf(j)
      BY <2>1, <2>2, <3>1 DEF RoundOf
    <3>3. QED
      BY <2>1, <2>2, <2>3, <3>1, <3>2 DEF SumsInv
  <2>6. QED
    BY <2>4, <2>5
<1>8. QED
  BY <1>2, <1>3, <1>4, <1>5, <1>6, <1>7 DEF Sums!Step

\* The threads of the partial sums stay together.
LEMMA SumsInvariant == Spec => []SumsInv
<1>1. Init => SumsInv
  <2> SUFFICES ASSUME Init PROVE SumsInv
    OBVIOUS
  <2>1. /\ place = [i \in Cells |-> "loop"] /\ step = [i \in Cells |-> 0]
        /\ batch = {} /\ released = {} /\ counted = Length
    BY DEF Init, Sums!Init, Sums!b!Init, Cells
  <2>2. Working = Cells /\ Waiting = {}
    BY <2>1 DEF Working, Waiting
  <2>3. Cardinality(Cells) = Length
    BY LengthAssumption, FS_Interval DEF Cells, Sums!Indices
  <2>4. QED
    BY <2>1, <2>2, <2>3 DEF SumsInv, RoundOf
<1>2. SumsInv /\ [Next]_vars => SumsInv'
  <2> SUFFICES ASSUME SumsInv, [Next]_vars PROVE SumsInv'
    OBVIOUS
  <2>1. CASE UNCHANGED sumVars
    BY <2>1 DEF sumVars, SumsInv, Working, Waiting, RoundOf
  <2>2. ASSUME NEW i \in Cells, Sums!Step(i) \/ Sums!LaunchFails(i) PROVE SumsInv'
    BY <2>2, SumsStepKeeps
  <2>3. QED
    BY <2>1, <2>2 DEF Next, Step, AtSpin, AtCond, AtSums, vars, sumVars, Cells
<1>3. QED
  BY <1>1, <1>2, PTL DEF Spec

\* What a thread of the partial sums reads no other one writes, and nothing is
\* written by two, in whatever rounds they are.
THEOREM SumsDoNotRace == Spec => []NoDataRace
<1>1. SumsInv => NoDataRace
  <2> SUFFICES ASSUME SumsInv, NEW i \in Cells, NEW j \in Cells, i # j
               PROVE  Sums!Writes(i) \cap (Sums!Writes(j) \cup Sums!Reads(j)) = {}
    BY DEF NoDataRace, Sums!NoDataRace, Cells
  <2>1. CASE place[i] # "loop" \/ place[j] # "loop"
    BY <2>1 DEF Sums!Writes, Sums!Reads
  <2>2. CASE place[i] = "loop" /\ place[j] = "loop"
    <3>1. step[i] = step[j]
      BY <2>2 DEF SumsInv, Working, Waiting, RoundOf
    <3>2. Sums!IsOdd(step[i]) <=> Sums!IsOdd(step[j])
      BY <3>1
    <3>3. QED
      BY <2>2, <3>2 DEF Sums!Writes, Sums!Reads, Sums!UpdateSource
  <2>3. QED
    BY <2>1, <2>2
<1>2. QED
  BY <1>1, SumsInvariant, PTL

-----------------------------------------------------------------------------
(* The spinning barriers.                                                  *)

Spins == kind \in {"barrier", "latch"}

SpinTypes ==
  /\ pc \in [Threads -> {"out", "decrement", "load", "refill", "advance", "spin", "gone"}]
  /\ round \in [Threads -> Nat]
  /\ generation \in 0..(Generations - 1)
  /\ my_generation \in [Threads -> 0..(Generations - 1)]
  /\ loaded \in [Threads -> Nat]
  /\ quitting \in [Threads -> BOOLEAN]

\* Those whom the barrier counts, and those of them that have yet to arrive: a
\* thread that is free to leave has to come again.
Counted == {t \in Threads : ~quitting[t]}
Awaited ==
  {t \in Threads :
     \/ pc[t] = "out" /\ (kind = "latch" => round[t] = 0)
     \/ pc[t] = "decrement"
     \/ kind = "barrier" /\ pc[t] = "spin" /\ my_generation[t] # generation}

SpinCounts ==
  /\ count = Cardinality(Counted)
  /\ spaces = IF kind = "barrier" /\ \E t \in Threads : pc[t] = "advance"
              THEN count ELSE Cardinality(Awaited)

\* What a thread knows at each place.
SpinPlace(t) ==
  /\ quitting[t] =>
       kind = "barrier" /\ pc[t] \in {"decrement", "load", "refill", "advance", "gone"}
  /\ pc[t] = "gone" => quitting[t]
  /\ pc[t] = "decrement" /\ ~quitting[t] => my_generation[t] = generation
  /\ pc[t] \in {"load", "refill"} => kind = "barrier"
  /\ pc[t] = "refill" => loaded[t] = count

\* The last one to arrive is alone with the barrier.
LastAlone ==
  \A t \in Finishing : Awaited = {} /\ \A u \in Threads : u # t => u \notin Finishing

\* Nobody has passed a latch that is closed.
LatchClosed ==
  kind = "latch" /\ Awaited \cup Finishing # {} =>
    generation = 0 /\ \A t \in Threads : round[t] = 0 /\ my_generation[t] = 0

SpinThreads ==
  /\ SpinTypes /\ SpinCounts
  /\ \A t \in Threads : SpinPlace(t)
  /\ LastAlone /\ LatchClosed
SpinInv == Spins => SpinThreads

\* The sets that are counted.
LEMMA SpinSets ==
  ASSUME SpinTypes
  PROVE  /\ \A S \in SUBSET Threads : IsFiniteSet(S) /\ Cardinality(S) \in Nat
         /\ Awaited \subseteq Threads /\ Counted \subseteq Threads
         /\ QuitsHalfWay \subseteq Threads
<1>1. \A S \in SUBSET Threads : IsFiniteSet(S)
  BY ThreadsAssumption, FS_Subset
<1>2. QED
  BY <1>1, FS_CardinalityType DEF Awaited, Counted, QuitsHalfWay

\* A thread enters wait, or done_waiting.
LEMMA EnterKeeps ==
  ASSUME SpinThreads, Spins, NEW t \in Threads, UNCHANGED kind,
         ReadGeneration(t) \/ DecrementCount(t)
  PROVE  SpinThreads'
<1>1. /\ SpinTypes /\ SpinCounts /\ LastAlone /\ LatchClosed
      /\ \A u \in Threads : SpinPlace(u)
  BY DEF SpinThreads
<1>2. /\ pc[t] = "out" /\ pc' = [pc EXCEPT ![t] = "decrement"]
      /\ UNCHANGED <<kind, spaces, generation, loaded, round>> /\ t \in Awaited
  BY <1>1 DEF ReadGeneration, DecrementCount, Comes, Goto, shared, Awaited, Spins, SpinTypes
<1>3. Finishing = {}
  BY <1>1, <1>2 DEF LastAlone
<1>4. Finishing' = {} /\ Awaited' = Awaited
  <2>1. \A u \in Threads : u # t => pc'[u] = pc[u] /\ my_generation'[u] = my_generation[u]
    BY <1>1, <1>2 DEF ReadGeneration, DecrementCount, SpinTypes
  <2>2. pc'[t] = "decrement"
    BY <1>1, <1>2 DEF SpinTypes
  <2>3. QED
    BY <1>2, <1>3, <2>1, <2>2 DEF Finishing, Awaited
<1>5. \A u \in Threads : {pc[u], pc'[u]} \cap {"refill", "advance"} = {}
  BY <1>3, <1>4 DEF Finishing
<1>6. CASE ReadGeneration(t)
  <2>1. /\ my_generation' = [my_generation EXCEPT ![t] = generation]
        /\ UNCHANGED <<count, quitting>>
    BY <1>6 DEF ReadGeneration, shared
  <2>2. SpinTypes'
    BY <1>1, <1>2, <2>1 DEF SpinTypes
  <2>3. SpinCounts'
    BY <1>1, <1>2, <1>4, <1>5, <2>1 DEF SpinCounts, Counted
  <2>4. \A u \in Threads : SpinPlace(u)'
    BY <1>1, <1>2, <2>1 DEF SpinPlace, SpinTypes
  <2>5. LastAlone' /\ LatchClosed'
    BY <1>1, <1>2, <1>4, <2>1 DEF LastAlone, LatchClosed, SpinTypes
  <2>6. QED
    BY <2>2, <2>3, <2>4, <2>5 DEF SpinThreads
<1>7. CASE DecrementCount(t)
  <2>1. /\ quitting' = [quitting EXCEPT ![t] = TRUE] /\ count' = count - 1
        /\ kind = "barrier" /\ UNCHANGED my_generation
    BY <1>7 DEF DecrementCount
  <2>2. ~quitting[t]
    BY <1>1, <1>2 DEF SpinPlace
  <2>3. SpinTypes'
    BY <1>1, <1>2, <2>1 DEF SpinTypes
  <2>4. SpinCounts'
    <3>1. Counted' = Counted \ {t} /\ t \in Counted
      BY <1>1, <2>1, <2>2 DEF Counted, SpinTypes
    <3>2. Cardinality(Counted') = Cardinality(Counted) - 1
      BY <1>1, <3>1, SpinSets, FS_RemoveElement
    <3>3. QED
      BY <1>1, <1>2, <1>4, <1>5, <2>1, <3>2 DEF SpinCounts
  <2>5. \A u \in Threads : SpinPlace(u)'
    BY <1>1, <1>2, <1>5, <2>1 DEF SpinPlace, SpinTypes
  <2>6. LastAlone' /\ LatchClosed'
    BY <1>1, <1>2, <1>4, <2>1 DEF LastAlone, LatchClosed
  <2>7. QED
    BY <2>3, <2>4, <2>5, <2>6 DEF SpinThreads
<1>8. QED
  BY <1>6, <1>7

\* What the thread finds that decrements spaces.
LEMMA AtDecrement ==
  ASSUME SpinThreads, Spins, NEW t \in Threads, pc[t] = "decrement"
  PROVE  /\ Finishing = {} /\ t \in Awaited
         /\ spaces = Cardinality(Awaited) /\ spaces \in Nat \ {0}
         /\ Cardinality(Awaited \ {t}) = spaces - 1
         /\ spaces = 1 <=> Awaited = {t}
<1>1. SpinTypes /\ SpinCounts /\ LastAlone
  BY DEF SpinThreads
<1>2. t \in Awaited
  BY DEF Awaited
<1>3. Finishing = {}
  BY <1>1, <1>2 DEF LastAlone
<1>4. spaces = Cardinality(Awaited)
  BY <1>1, <1>3 DEF SpinCounts, Finishing
<1>5. IsFiniteSet(Awaited) /\ Cardinality(Awaited) \in Nat
  BY <1>1, SpinSets
<1>6. Cardinality(Awaited) # 0
  BY <1>2, <1>5, FS_EmptySet
<1>7. Cardinality(Awaited \ {t}) = Cardinality(Awaited) - 1
  BY <1>2, <1>5, FS_RemoveElement
<1>8. Cardinality(Awaited) = 1 <=> Awaited = {t}
  BY <1>2, <1>5, FS_Singleton
<1>9. QED
  BY <1>2, <1>3, <1>4, <1>5, <1>6, <1>7, <1>8

\* A thread arrives.
LEMMA DecrementKeeps ==
  ASSUME SpinThreads, Spins, NEW t \in Threads, UNCHANGED kind, Decrement(t)
  PROVE  SpinThreads' /\ Awaited' = Awaited \ {t}
<1>1. /\ SpinTypes /\ SpinCounts /\ LastAlone /\ LatchClosed
      /\ \A u \in Threads : SpinPlace(u)
  BY DEF SpinThreads
<1>2. PICK l \in {"advance", "load", "gone", "spin"} :
        /\ pc[t] = "decrement" /\ pc' = [pc EXCEPT ![t] = l] /\ spaces' = spaces - 1
        /\ UNCHANGED <<kind, count, generation, my_generation, loaded, quitting, round>>
        /\ l \in {"advance", "load"} <=> spaces = 1
        /\ l = "load" => kind = "barrier"
        /\ l = "advance" => kind = "latch"
        /\ l = "gone" => quitting[t]
        /\ l = "spin" => ~quitting[t]
  BY <1>1 DEF Decrement, Goto, AfterLast, Spins, SpinTypes
<1>3. /\ Finishing = {} /\ t \in Awaited /\ spaces = Cardinality(Awaited)
      /\ spaces \in Nat \ {0} /\ Cardinality(Awaited \ {t}) = spaces - 1
      /\ spaces = 1 <=> Awaited = {t}
  BY <1>2, AtDecrement
<1>4. /\ \A u \in Threads : u # t => pc'[u] = pc[u]
      /\ pc'[t] = l
  BY <1>1, <1>2 DEF SpinTypes
<1>5. Awaited' = Awaited \ {t}
  <2>1. l = "spin" => my_generation[t] = generation
    BY <1>1, <1>2 DEF SpinPlace
  <2>2. QED
    BY <1>2, <1>4, <2>1 DEF Awaited
<1>6. Finishing' = IF l \in {"advance", "load"} THEN {t} ELSE {}
  BY <1>3, <1>4 DEF Finishing
<1>7. SpinTypes'
  BY <1>1, <1>2 DEF SpinTypes
<1>8. SpinCounts'
  <2>1. ~(kind' = "barrier" /\ \E u \in Threads : pc'[u] = "advance")
    BY <1>2, <1>3, <1>4 DEF Finishing
  <2>2. Counted' = Counted
    BY <1>2 DEF Counted
  <2>3. QED
    BY <1>1, <1>2, <1>3, <1>5, <2>1, <2>2 DEF SpinCounts
<1>9. \A u \in Threads : SpinPlace(u)'
  BY <1>1, <1>2, <1>4 DEF SpinPlace, SpinTypes
<1>10. LastAlone'
  BY <1>2, <1>3, <1>5, <1>6 DEF LastAlone
<1>11. LatchClosed'
  BY <1>1, <1>2, <1>3 DEF LatchClosed
<1>12. QED
  BY <1>5, <1>7, <1>8, <1>9, <1>10, <1>11 DEF SpinThreads

\* The last one reads count, which stays as it is.
LEMMA LoadKeeps ==
  ASSUME SpinThreads, Spins, NEW t \in Threads, UNCHANGED kind, LoadCount(t)
  PROVE  SpinThreads'
<1>1. /\ SpinTypes /\ SpinCounts /\ LastAlone /\ LatchClosed
      /\ \A u \in Threads : SpinPlace(u)
  BY DEF SpinThreads
<1>2. /\ pc[t] = "load" /\ pc' = [pc EXCEPT ![t] = "refill"]
      /\ loaded' = [loaded EXCEPT ![t] = count]
      /\ UNCHANGED <<kind, count, spaces, generation, my_generation, quitting, round>>
  BY DEF LoadCount, Goto, shared
<1>3. kind = "barrier" /\ t \in Finishing
  BY <1>1, <1>2 DEF SpinPlace, Finishing
<1>4. /\ \A u \in Threads : u # t => pc'[u] = pc[u] /\ loaded'[u] = loaded[u]
      /\ pc'[t] = "refill" /\ loaded'[t] = count
  BY <1>1, <1>2 DEF SpinTypes
<1>5. Awaited' = Awaited /\ Finishing' = Finishing /\ Counted' = Counted
  BY <1>2, <1>3, <1>4 DEF Awaited, Finishing, Counted
<1>6. count \in Nat
  BY <1>1, SpinSets DEF SpinCounts
<1>7. SpinTypes'
  BY <1>1, <1>2, <1>6 DEF SpinTypes
<1>8. SpinCounts'
  <2>1. ~ \E u \in Threads : pc[u] = "advance" \/ pc'[u] = "advance"
    BY <1>1, <1>2, <1>3, <1>4 DEF LastAlone, Finishing
  <2>2. QED
    BY <1>1, <1>2, <1>5, <2>1 DEF SpinCounts
<1>9. \A u \in Threads : SpinPlace(u)'
  BY <1>1, <1>2, <1>3, <1>4 DEF SpinPlace
<1>10. LastAlone' /\ LatchClosed'
  BY <1>1, <1>2, <1>3, <1>5 DEF LastAlone, LatchClosed
<1>11. QED
  BY <1>7, <1>8, <1>9, <1>10 DEF SpinThreads

\* The last one sets the barrier up again.
LEMMA RefillKeeps ==
  ASSUME SpinThreads, Spins, NEW t \in Threads, UNCHANGED kind, Refill(t)
  PROVE  SpinThreads'
<1>1. /\ SpinTypes /\ SpinCounts /\ LastAlone /\ LatchClosed
      /\ \A u \in Threads : SpinPlace(u)
  BY DEF SpinThreads
<1>2. /\ pc[t] = "refill" /\ pc' = [pc EXCEPT ![t] = "advance"] /\ spaces' = count
      /\ UNCHANGED <<kind, count, generation, my_generation, loaded, quitting, round>>
  BY <1>1 DEF Refill, Goto, SpinPlace
<1>3. kind = "barrier" /\ t \in Finishing /\ Awaited = {}
  BY <1>1, <1>2 DEF SpinPlace, Finishing, LastAlone
<1>4. /\ \A u \in Threads : u # t => pc'[u] = pc[u]
      /\ pc'[t] = "advance"
  BY <1>1, <1>2 DEF SpinTypes
<1>5. Awaited' = {} /\ Finishing' = Finishing /\ Counted' = Counted
  BY <1>2, <1>3, <1>4 DEF Awaited, Finishing, Counted
<1>6. SpinTypes'
  BY <1>1, <1>2 DEF SpinTypes
<1>7. SpinCounts'
  BY <1>1, <1>2, <1>3, <1>4, <1>5 DEF SpinCounts
<1>8. \A u \in Threads : SpinPlace(u)'
  BY <1>1, <1>2, <1>3, <1>4 DEF SpinPlace
<1>9. LastAlone' /\ LatchClosed'
  BY <1>1, <1>2, <1>3, <1>5 DEF LastAlone, LatchClosed
<1>10. QED
  BY <1>6, <1>7, <1>8, <1>9 DEF SpinThreads

\* A new generation is another one.
LEMMA NextGeneration ==
  ASSUME NEW g \in 0..(Generations - 1)
  PROVE  /\ (g + 1) % Generations \in 0..(Generations - 1)
         /\ (g + 1) % Generations # g
<1>1. Generations \in Nat /\ Generations > 1
  BY UnsignedAssumption
<1>2. CASE g + 1 = Generations
  <2>1. (g + 1) % Generations = 0
    BY <1>1, <1>2
  <2>2. QED
    BY <1>1, <1>2, <2>1
<1>3. CASE g + 1 < Generations
  <2>1. (g + 1) % Generations = g + 1
    BY <1>1, <1>3
  <2>2. QED
    BY <1>1, <1>3, <2>1
<1>4. QED
  BY <1>1, <1>2, <1>3

\* What the last one finds before it opens the barrier: all others spin, and
\* none of them has been let go, or have left for good.
LEMMA AtAdvance ==
  ASSUME SpinThreads, Spins, NEW t \in Threads, t \in Finishing
  PROVE  /\ Awaited = {} /\ \A u \in Finishing : u = t
         /\ \A u \in Threads \ {t} :
              \/ pc[u] = "spin" /\ my_generation[u] = generation /\ ~quitting[u]
              \/ pc[u] = "gone" /\ quitting[u]
<1>1. /\ SpinTypes /\ LastAlone /\ LatchClosed
      /\ \A u \in Threads : SpinPlace(u)
  BY DEF SpinThreads
<1>2. Awaited = {} /\ \A u \in Finishing : u = t
  BY <1>1 DEF LastAlone, Finishing
<1>3. ASSUME NEW u \in Threads \ {t}
      PROVE  \/ pc[u] = "spin" /\ my_generation[u] = generation /\ ~quitting[u]
             \/ pc[u] = "gone" /\ quitting[u]
  <2>1. pc[u] \notin {"load", "refill", "advance"}
    BY <1>2 DEF Finishing
  <2>2. kind = "latch" => round[u] = 0 /\ my_generation[u] = generation
    BY <1>1 DEF LatchClosed
  <2>3. pc[u] \in {"spin", "gone"}
    BY <1>1, <1>2, <2>1, <2>2 DEF Awaited, SpinTypes
  <2>4. pc[u] = "spin" => my_generation[u] = generation
    BY <1>2, <2>2 DEF Awaited, Spins
  <2>5. QED
    BY <1>1, <2>3, <2>4 DEF SpinPlace, SpinTypes
<1>4. QED
  BY <1>2, <1>3

\* The last one opens the barrier.
LEMMA AdvanceKeeps ==
  ASSUME SpinThreads, Spins, NEW t \in Threads, UNCHANGED kind, Advance(t)
  PROVE  SpinThreads'
<1>1. /\ SpinTypes /\ SpinCounts /\ LatchClosed /\ \A u \in Threads : SpinPlace(u)
  BY DEF SpinThreads
<1>2. /\ pc[t] = "advance" /\ generation' = (generation + 1) % Generations
      /\ pc' = [pc EXCEPT ![t] = IF quitting[t] THEN "gone" ELSE "out"]
      /\ round' = [round EXCEPT ![t] = IF quitting[t] THEN round[t] ELSE round[t] + 1]
      /\ UNCHANGED <<kind, count, spaces, my_generation, loaded, quitting>>
  BY DEF Advance, Return, Goto
<1>3. generation' \in 0..(Generations - 1) /\ generation' # generation
  BY <1>1, <1>2, NextGeneration DEF SpinTypes
<1>4. /\ t \in Finishing /\ Awaited = {}
      /\ \A u \in Threads \ {t} :
           \/ pc[u] = "spin" /\ my_generation[u] = generation /\ ~quitting[u]
           \/ pc[u] = "gone" /\ quitting[u]
  <2>1. t \in Finishing
    BY <1>2 DEF Finishing
  <2>2. QED
    BY <2>1, AtAdvance
<1>5. /\ \A u \in Threads \ {t} : pc'[u] = pc[u] /\ round'[u] = round[u]
      /\ pc'[t] = IF quitting[t] THEN "gone" ELSE "out"
      /\ round[t] \in Nat
      /\ round'[t] = IF quitting[t] THEN round[t] ELSE round[t] + 1
  BY <1>1, <1>2 DEF SpinTypes
<1>6. Finishing' = {} /\ ~ \E u \in Threads : pc'[u] = "advance"
  BY <1>4, <1>5 DEF Finishing
<1>7. Counted' = Counted
  BY <1>2 DEF Counted
<1>8. Awaited' = IF kind = "barrier" THEN Counted ELSE {}
  <2>1. CASE kind = "barrier"
    BY <1>2, <1>3, <1>4, <1>5, <2>1 DEF Awaited, Counted
  <2>2. CASE kind = "latch"
    <3>1. ~quitting[t]
      BY <1>1, <2>2 DEF SpinPlace
    <3>2. QED
      BY <1>2, <1>4, <1>5, <2>2, <3>1 DEF Awaited
  <2>3. QED
    BY <2>1, <2>2 DEF Spins
<1>9. SpinTypes'
  BY <1>1, <1>2, <1>3 DEF SpinTypes
<1>10. SpinCounts'
  <2>1. CASE kind = "barrier"
    BY <1>1, <1>2, <1>6, <1>7, <1>8, <2>1 DEF SpinCounts
  <2>2. CASE kind = "latch"
    BY <1>1, <1>2, <1>4, <1>7, <1>8, <2>2 DEF SpinCounts
  <2>3. QED
    BY <2>1, <2>2 DEF Spins
<1>11. \A u \in Threads : SpinPlace(u)'
  BY <1>1, <1>2, <1>4, <1>5 DEF SpinPlace
<1>12. LastAlone' /\ LatchClosed'
  BY <1>2, <1>6, <1>8 DEF LastAlone, LatchClosed, Spins
<1>13. QED
  BY <1>9, <1>10, <1>11, <1>12 DEF SpinThreads

\* A thread that was let go leaves.
LEMMA SpinEndsKeeps ==
  ASSUME SpinThreads, Spins, NEW t \in Threads, UNCHANGED kind, SpinEnds(t)
  PROVE  SpinThreads' /\ Finishing = {} /\ Finishing' = {} /\ pc'[t] = "out"
<1>1. /\ SpinTypes /\ SpinCounts /\ LastAlone /\ LatchClosed
      /\ \A u \in Threads : SpinPlace(u)
  BY DEF SpinThreads
<1>2. pc[t] = "spin" /\ ~quitting[t] /\ my_generation[t] # generation
  BY <1>1 DEF SpinEnds, GenerationChanged, SpinPlace
<1>3. /\ pc' = [pc EXCEPT ![t] = "out"] /\ round' = [round EXCEPT ![t] = round[t] + 1]
      /\ UNCHANGED <<kind, count, spaces, generation, my_generation, loaded, quitting>>
  BY <1>2 DEF SpinEnds, Return, Goto, shared
<1>4. Finishing = {}
  <2>1. SUFFICES ASSUME NEW u \in Finishing PROVE FALSE
    OBVIOUS
  <2>2. u \in Threads /\ u # t
    BY <1>2 DEF Finishing
  <2>3. QED
    BY <1>2, <2>2, AtAdvance
<1>5. /\ \A u \in Threads \ {t} : pc'[u] = pc[u] /\ round'[u] = round[u]
      /\ pc'[t] = "out" /\ round'[t] # 0
  BY <1>1, <1>3 DEF SpinTypes
<1>6. Finishing' = {} /\ Counted' = Counted
  BY <1>3, <1>4, <1>5 DEF Finishing, Counted
<1>7. Awaited' = Awaited
  BY <1>2, <1>3, <1>5 DEF Awaited, Spins
<1>8. SpinTypes'
  BY <1>1, <1>3 DEF SpinTypes
<1>9. SpinCounts'
  BY <1>1, <1>3, <1>4, <1>6, <1>7 DEF SpinCounts, Finishing
<1>10. \A u \in Threads : SpinPlace(u)'
  BY <1>1, <1>2, <1>3, <1>5 DEF SpinPlace
<1>11. LastAlone' /\ LatchClosed'
  BY <1>1, <1>2, <1>3, <1>4, <1>6, <1>7, UnsignedAssumption DEF LastAlone, LatchClosed, SpinTypes
<1>12. QED
  BY <1>4, <1>5, <1>6, <1>8, <1>9, <1>10, <1>11 DEF SpinThreads

\* The spinning barriers are as they should be whenever one of them is used.
LEMMA SpinInvariant == Spec => []SpinInv
<1>1. Init => SpinInv
  <2> SUFFICES ASSUME Init, Spins PROVE SpinThreads
    BY DEF SpinInv
  <2>1. /\ pc = [t \in Threads |-> "out"] /\ round = [t \in Threads |-> 0]
        /\ count = Cardinality(Threads) /\ spaces = Cardinality(Threads) /\ generation = 0
        /\ my_generation = [t \in Threads |-> 0] /\ loaded = [t \in Threads |-> 0]
        /\ quitting = [t \in Threads |-> FALSE]
    BY DEF Init, InitThreads, SpinInit
  <2>2. Counted = Threads /\ Awaited = Threads /\ Finishing = {}
    BY <2>1 DEF Counted, Awaited, Finishing
  <2>3. SpinTypes
    BY <2>1, UnsignedAssumption DEF SpinTypes
  <2>4. SpinCounts
    BY <2>1, <2>2 DEF SpinCounts
  <2>5. \A t \in Threads : SpinPlace(t)
    BY <2>1 DEF SpinPlace
  <2>6. LastAlone /\ LatchClosed
    BY <2>1, <2>2 DEF LastAlone, LatchClosed
  <2>7. QED
    BY <2>3, <2>4, <2>5, <2>6 DEF SpinThreads
<1>2. SpinInv /\ [Next]_vars => SpinInv'
  <2> SUFFICES ASSUME SpinInv, [Next]_vars, Spins' PROVE SpinThreads'
    BY DEF SpinInv
  <2>1. Spins /\ SpinThreads /\ UNCHANGED kind
    BY DEF SpinInv, Spins, Next, Step, AtSpin, AtCond, AtSums, vars
  <2>2. CASE UNCHANGED <<kind, pc, round, spinVars>>
    BY <2>1, <2>2
    DEF spinVars, shared, SpinThreads, SpinTypes, SpinCounts, SpinPlace, LastAlone,
        LatchClosed, Counted, Awaited, Finishing
  <2>3. ASSUME NEW t \in Threads,
               ReadGeneration(t) \/ DecrementCount(t) \/ Decrement(t) \/ LoadCount(t)
                 \/ Refill(t) \/ Advance(t) \/ SpinEnds(t)
        PROVE  SpinThreads'
    BY <2>1, <2>3, EnterKeeps, DecrementKeeps, LoadKeeps, RefillKeeps, AdvanceKeeps,
       SpinEndsKeeps
  <2>4. QED
    BY <2>1, <2>2, <2>3 DEF Spins, Next, Step, AtSpin, AtCond, AtSums, SpinStep, vars
<1>3. QED
  BY <1>1, <1>2, PTL DEF Spec

\* The threads a batch consists of, and those of them that are held back.
Members == Counted \cup QuitsHalfWay
HeldBack == {t \in Spinning : my_generation[t] = generation}

LEMMA BatchIsMembers ==
  ASSUME SpinThreads
  PROVE  /\ BatchSize = Cardinality(Members) /\ IsFiniteSet(Members)
         /\ BatchSize \in Nat
<1>1. SpinTypes /\ SpinCounts
  BY DEF SpinThreads
<1>2. IsFiniteSet(Counted) /\ IsFiniteSet(QuitsHalfWay)
  BY <1>1, SpinSets
<1>3. Counted \cap QuitsHalfWay = {}
  BY DEF Counted, QuitsHalfWay
<1>4. /\ IsFiniteSet(Members)
      /\ Cardinality(Members) = Cardinality(Counted) + Cardinality(QuitsHalfWay) - 0
  BY <1>2, <1>3, FS_Union, FS_EmptySet DEF Members
<1>5. Cardinality(Counted) \in Nat /\ Cardinality(QuitsHalfWay) \in Nat
  BY <1>2, FS_CardinalityType
<1>6. QED
  BY <1>1, <1>4, <1>5 DEF BatchSize, SpinCounts

\* And so it is after a step.
BatchCounted == BatchSize = Cardinality(Members) /\ BatchSize \in Nat

LEMMA BatchSizeLater == SpinThreads' => BatchCounted'
<1>1. SpinThreads => BatchCounted
  BY BatchIsMembers DEF BatchCounted
<1>2. QED
  BY <1>1, PTL

\* The variables of Barrier, as the spinning barriers have them.
LEMMA SpinMaps ==
  ASSUME SpinThreads, Spins, Finishing = {}
  PROVE  Spinning \ Freed = HeldBack /\ Freed = Spinning \ HeldBack
BY DEF Freed, HeldBack, Spinning

\* The steps of the spinning barriers as steps of Barrier.
SpinImplements ==
  \/ \E t \in Threads :
       \/ /\ t \notin Spinning \cup Freed
          /\ UNCHANGED BatchSize
          /\ IF Cardinality((Spinning \ Freed) \cup {t}) = BatchSize
             THEN /\ (Spinning \ Freed)' = {}
                  /\ Freed' = Freed \cup ((Spinning \ Freed) \cup {t})
             ELSE (Spinning \ Freed)' = (Spinning \ Freed) \cup {t} /\ UNCHANGED Freed
       \/ /\ t \in Freed
          /\ Freed' = Freed \ {t} /\ UNCHANGED <<BatchSize, Spinning \ Freed>>
       \/ /\ t \notin Spinning \cup Freed
          /\ BatchSize' = BatchSize - 1
          /\ IF Spinning \ Freed # {} /\ Cardinality(Spinning \ Freed) = BatchSize - 1
             THEN (Spinning \ Freed)' = {} /\ Freed' = Freed \cup (Spinning \ Freed)
             ELSE UNCHANGED <<Spinning \ Freed, Freed>>
  \/ UNCHANGED <<BatchSize, Spinning \ Freed, Freed>>

\* Entering a call is not yet arriving.
LEMMA EnterImplements ==
  ASSUME SpinThreads, Spins, NEW t \in Threads, UNCHANGED kind,
         ReadGeneration(t) \/ DecrementCount(t)
  PROVE  SpinImplements
<1>1. SpinTypes /\ LastAlone /\ \A u \in Threads : SpinPlace(u)
  BY DEF SpinThreads
<1>2. /\ pc[t] = "out" /\ pc' = [pc EXCEPT ![t] = "decrement"] /\ ~quitting[t]
      /\ UNCHANGED generation /\ t \in Awaited
  BY <1>1
  DEF ReadGeneration, DecrementCount, Comes, Goto, shared, Awaited, Spins, SpinTypes, SpinPlace
<1>3. Finishing = {}
  BY <1>1, <1>2 DEF LastAlone
<1>4. /\ \A u \in Threads \ {t} :
           pc'[u] = pc[u] /\ my_generation'[u] = my_generation[u] /\ quitting'[u] = quitting[u]
      /\ pc'[t] = "decrement"
  BY <1>1, <1>2 DEF ReadGeneration, DecrementCount, SpinTypes, shared
<1>5. Finishing' = {} /\ Spinning' = Spinning /\ HeldBack' = HeldBack
  BY <1>2, <1>3, <1>4 DEF Finishing, Spinning, HeldBack
<1>6. Members' = Members
  BY <1>2, <1>4 DEF Members, Counted, QuitsHalfWay, ReadGeneration, DecrementCount
<1>7. SpinThreads' /\ Spins'
  BY EnterKeeps DEF Spins
<1>8. BatchSize' = BatchSize
  <2>1. BatchSize = Cardinality(Members)
    BY BatchIsMembers
  <2>2. BatchSize' = Cardinality(Members')
    BY <1>7, BatchSizeLater DEF BatchCounted
  <2>3. QED
    BY <1>6, <2>1, <2>2
<1>9. /\ (Spinning \ Freed)' = Spinning \ Freed
      /\ Freed' = Freed
  BY <1>3, <1>5 DEF Freed, HeldBack, Spinning
<1>10. QED
  BY <1>8, <1>9 DEF SpinImplements

\* Who is missing when a thread decrements spaces.
LEMMA WhoIsMissing ==
  ASSUME SpinThreads, Spins, NEW t \in Threads, pc[t] = "decrement"
  PROVE  /\ HeldBack \subseteq Members /\ t \in Members /\ t \notin HeldBack
         /\ spaces = 1 => Members = HeldBack \cup {t} /\ Spinning = HeldBack
         /\ spaces # 1 => \E u \in Members : u # t /\ u \notin HeldBack
<1>1. /\ SpinTypes /\ LatchClosed /\ \A u \in Threads : SpinPlace(u)
  BY DEF SpinThreads
<1>2. /\ Finishing = {} /\ t \in Awaited
      /\ spaces = 1 <=> Awaited = {t}
  BY AtDecrement
<1>3. \A u \in Threads :
        u \in Members <=> ~quitting[u] \/ (quitting[u] /\ pc[u] = "decrement")
  BY DEF Members, Counted, QuitsHalfWay
<1>4. HeldBack \subseteq Members /\ t \in Members /\ t \notin HeldBack
  BY <1>1, <1>3 DEF HeldBack, Spinning, SpinPlace, SpinTypes
<1>5. ASSUME Awaited = {t} PROVE Members = HeldBack \cup {t} /\ Spinning = HeldBack
  <2>1. kind = "latch" => \A u \in Threads : round[u] = 0 /\ my_generation[u] = generation
    BY <1>1, <1>2 DEF LatchClosed
  <2>2. \A u \in Threads \ {t} :
          /\ pc[u] \in {"spin", "gone"}
          /\ pc[u] = "spin" => my_generation[u] = generation
    BY <1>1, <1>2, <1>5, <2>1 DEF Awaited, Finishing, Spins, SpinTypes
  <2>3. Spinning = HeldBack
    BY <2>2 DEF Spinning, HeldBack
  <2>4. \A u \in Members : u \in HeldBack \cup {t}
    <3>1. SUFFICES ASSUME NEW u \in Threads, u \in Members, u # t PROVE u \in HeldBack
      BY DEF Members, Counted, QuitsHalfWay
    <3>2. pc[u] = "spin"
      BY <1>1, <1>3, <2>2, <3>1 DEF SpinPlace
    <3>3. QED
      BY <2>2, <3>1, <3>2 DEF HeldBack, Spinning
  <2>5. QED
    BY <1>4, <2>3, <2>4
<1>6. ASSUME Awaited # {t} PROVE \E u \in Members : u # t /\ u \notin HeldBack
  <2>1. PICK u \in Awaited : u # t
    BY <1>2, <1>6
  <2>2. u \in Threads /\ u \notin HeldBack
    BY <2>1 DEF Awaited, HeldBack, Spinning
  <2>3. u \in Members
    BY <1>1, <1>3, <2>1, <2>2 DEF Awaited, SpinPlace, SpinTypes
  <2>4. QED
    BY <2>1, <2>2, <2>3
<1>7. QED
  BY <1>2, <1>4, <1>5, <1>6

\* The last arrival lets the batch go, another one waits or leaves the count.
LEMMA DecrementImplements ==
  ASSUME SpinThreads, Spins, NEW t \in Threads, UNCHANGED kind, Decrement(t)
  PROVE  SpinImplements
<1>1. SpinTypes /\ \A u \in Threads : SpinPlace(u)
  BY DEF SpinThreads
<1>2. /\ pc[t] = "decrement"
      /\ pc' = [pc EXCEPT ![t] = IF spaces = 1 THEN AfterLast
                                 ELSE IF quitting[t] THEN "gone" ELSE "spin"]
      /\ UNCHANGED <<kind, generation, my_generation, quitting>>
  BY DEF Decrement, Goto
<1>3. /\ HeldBack \subseteq Members /\ t \in Members /\ t \notin HeldBack
      /\ spaces = 1 => Members = HeldBack \cup {t} /\ Spinning = HeldBack
      /\ spaces # 1 => \E u \in Members : u # t /\ u \notin HeldBack
      /\ Finishing = {}
  BY <1>2, WhoIsMissing, AtDecrement
<1>4. /\ \A u \in Threads \ {t} : pc'[u] = pc[u]
      /\ pc'[t] = IF spaces = 1 THEN AfterLast ELSE IF quitting[t] THEN "gone" ELSE "spin"
  BY <1>1, <1>2 DEF SpinTypes
<1>5. AfterLast \in {"load", "advance"}
  BY DEF AfterLast
<1>6. Spinning \ Freed = HeldBack /\ Freed = Spinning \ HeldBack
  BY <1>3, SpinMaps
<1>7. t \notin Spinning \cup Freed
  BY <1>2, <1>6 DEF Spinning
<1>8. /\ BatchSize = Cardinality(Members) /\ IsFiniteSet(Members)
      /\ BatchSize' = Cardinality(Members') /\ BatchSize \in Nat
  <2>1. SpinThreads' /\ BatchCounted'
    BY DecrementKeeps, BatchSizeLater
  <2>2. QED
    BY <2>1, BatchIsMembers DEF BatchCounted
<1>9. Members' = IF quitting[t] THEN Members \ {t} ELSE Members
  BY <1>2, <1>4, <1>5 DEF Members, Counted, QuitsHalfWay
<1>10. BatchSize' = IF quitting[t] THEN BatchSize - 1 ELSE BatchSize
  BY <1>3, <1>8, <1>9, FS_RemoveElement
<1>11. CASE spaces = 1
  <2>1. Finishing' = {t} /\ Spinning' = Spinning
    BY <1>2, <1>3, <1>4, <1>5, <1>11 DEF Finishing, Spinning
  <2>2. Freed' = IF quitting[t] THEN Spinning ELSE Spinning \cup {t}
    BY <1>2, <2>1 DEF Freed
  <2>3. HeldBack = Spinning /\ Freed = {} /\ (Spinning \ Freed)' = {}
    BY <1>3, <1>6, <1>11, <2>1, <2>2
  <2>4. CASE quitting[t]
    <3>1. Cardinality(HeldBack) = BatchSize - 1
      BY <1>3, <1>8, <1>10, <1>9, <1>11, <2>4
    <3>2. QED
      BY <1>6, <1>7, <1>10, <2>2, <2>3, <2>4, <3>1 DEF SpinImplements
  <2>5. CASE ~quitting[t]
    <3>1. Cardinality(HeldBack \cup {t}) = BatchSize
      BY <1>3, <1>8, <1>11
    <3>2. QED
      BY <1>6, <1>7, <1>10, <2>2, <2>3, <2>5, <3>1 DEF SpinImplements
  <2>6. QED
    BY <2>4, <2>5
<1>12. CASE spaces # 1
  <2>1. PICK u \in Members : u # t /\ u \notin HeldBack
    BY <1>3, <1>12
  <2>2. Finishing' = {}
    BY <1>3, <1>4, <1>12 DEF Finishing
  <2>3. /\ Spinning' = IF quitting[t] THEN Spinning ELSE Spinning \cup {t}
        /\ HeldBack' = IF quitting[t] THEN HeldBack ELSE HeldBack \cup {t}
    <3>1. ~quitting[t] => my_generation[t] = generation
      BY <1>1, <1>2 DEF SpinPlace
    <3>2. Spinning' = IF quitting[t] THEN Spinning ELSE Spinning \cup {t}
      BY <1>2, <1>4, <1>12 DEF Spinning
    <3>3. QED
      BY <1>2, <3>1, <3>2 DEF Spinning, HeldBack
  <2>4. (Spinning \ Freed)' = HeldBack' /\ Freed' = Spinning' \ HeldBack'
    BY <2>2 DEF Freed, HeldBack, Spinning
  <2>5. Freed' = Freed
    BY <1>6, <1>7, <2>3, <2>4
  <2>6. CASE quitting[t]
    <3>1. IsFiniteSet(Members \ {t}) /\ Cardinality(Members \ {t}) = BatchSize - 1
      BY <1>3, <1>8, FS_RemoveElement
    <3>2. HeldBack \subseteq Members \ {t} /\ HeldBack # Members \ {t}
      BY <1>3, <2>1
    <3>3. Cardinality(HeldBack) # BatchSize - 1
      BY <3>1, <3>2, FS_Subset
    <3>4. QED
      BY <1>6, <1>7, <1>10, <2>3, <2>4, <2>5, <2>6, <3>3 DEF SpinImplements
  <2>7. CASE ~quitting[t]
    <3>1. HeldBack \cup {t} \subseteq Members /\ HeldBack \cup {t} # Members
      BY <1>3, <2>1
    <3>2. Cardinality(HeldBack \cup {t}) # BatchSize
      BY <1>8, <3>1, FS_Subset
    <3>3. QED
      BY <1>6, <1>7, <1>10, <2>3, <2>4, <2>5, <2>7, <3>2 DEF SpinImplements
  <2>8. QED
    BY <2>6, <2>7
<1>13. QED
  BY <1>11, <1>12

\* Setting the barrier up and opening it are no steps of Barrier, but for the
\* last one's own return; a thread that was let go leaves.
LEMMA ReturnImplements ==
  ASSUME SpinThreads, Spins, NEW t \in Threads, UNCHANGED kind,
         LoadCount(t) \/ Refill(t) \/ Advance(t) \/ SpinEnds(t)
  PROVE  SpinImplements
<1>1. SpinTypes /\ \A u \in Threads : SpinPlace(u)
  BY DEF SpinThreads
<1>2. UNCHANGED <<my_generation, quitting>> /\ BatchSize' = BatchSize
  <2>1. UNCHANGED <<count, my_generation, quitting>>
    BY DEF LoadCount, Refill, Advance, SpinEnds, Return, shared
  <2>2. pc[t] # "decrement" /\ pc'[t] # "decrement"
        /\ \A u \in Threads \ {t} : pc'[u] = pc[u]
    BY <1>1 DEF LoadCount, Refill, Advance, SpinEnds, Return, Goto, SpinTypes
  <2>3. QuitsHalfWay' = QuitsHalfWay
    BY <2>1, <2>2 DEF QuitsHalfWay
  <2>4. QED
    BY <2>1, <2>3 DEF BatchSize
<1>3. CASE LoadCount(t) \/ Refill(t)
  <2>1. PICK l \in {"refill", "advance"} :
          /\ pc[t] \in {"load", "refill"} /\ pc' = [pc EXCEPT ![t] = l]
          /\ UNCHANGED generation
    BY <1>3 DEF LoadCount, Refill, Goto, shared
  <2>2. /\ Finishing' = Finishing /\ Finishing # {} /\ Spinning' = Spinning
    BY <1>1, <2>1 DEF Finishing, Spinning, SpinTypes
  <2>3. Freed' = Freed
    BY <1>2, <2>2 DEF Freed
  <2>4. QED
    BY <1>2, <2>2, <2>3 DEF SpinImplements
<1>4. CASE Advance(t)
  <2>1. /\ pc[t] = "advance" /\ generation' = (generation + 1) % Generations
        /\ pc' = [pc EXCEPT ![t] = IF quitting[t] THEN "gone" ELSE "out"]
    BY <1>4 DEF Advance, Return, Goto
  <2>2. generation' # generation
    BY <1>1, <2>1, NextGeneration DEF SpinTypes
  <2>3. /\ t \in Finishing /\ \A u \in Finishing : u = t
        /\ \A u \in Threads \ {t} : pc[u] = "spin" => my_generation[u] = generation
    <3>1. t \in Finishing
      BY <2>1 DEF Finishing
    <3>2. QED
      BY <3>1, AtAdvance
  <2>4. Finishing = {t}
    BY <2>3
  <2>5. Finishing' = {} /\ Spinning' = Spinning /\ t \notin Spinning
    BY <1>1, <2>1, <2>4 DEF Finishing, Spinning, SpinTypes
  <2>6. Freed = IF quitting[t] THEN Spinning ELSE Spinning \cup {t}
    BY <2>4 DEF Freed
  <2>7. Freed' = Spinning
    BY <1>2, <2>1, <2>2, <2>3, <2>5 DEF Freed, Spinning
  <2>8. QED
    BY <1>2, <2>5, <2>6, <2>7 DEF SpinImplements
<1>5. CASE SpinEnds(t)
  <2>1. /\ pc[t] = "spin" /\ my_generation[t] # generation /\ UNCHANGED generation
        /\ ~quitting[t]
    BY <1>1, <1>5 DEF SpinEnds, GenerationChanged, shared, SpinPlace
  <2>2. Finishing = {} /\ Finishing' = {} /\ pc'[t] = "out"
    BY <1>5, SpinEndsKeeps
  <2>3. \A u \in Threads \ {t} : pc'[u] = pc[u]
    BY <1>1, <1>5 DEF SpinEnds, Return, Goto, SpinTypes
  <2>4. /\ Spinning' = Spinning \ {t} /\ t \in Freed /\ Freed' = Freed \ {t}
    BY <1>2, <2>1, <2>2, <2>3 DEF Freed, Spinning
  <2>5. (Spinning \ Freed)' = Spinning \ Freed
    BY <2>4
  <2>6. QED
    BY <1>2, <2>4, <2>5 DEF SpinImplements
<1>6. QED
  BY <1>3, <1>4, <1>5

-----------------------------------------------------------------------------
(* The blocking barrier.                                                   *)

CondTypes ==
  /\ pc \in [Threads -> {"out", "asleep", "woken", "leaving"}]
  /\ round \in [Threads -> Nat]
  /\ mCount \in 1..Threshold /\ mGeneration \in 0..(CondGenerations - 1)
  /\ lGen \in [Threads -> Nat]

\* All that have come to the barrier, as pairs of a thread and a round.
Came(t) == round[t] + IF pc[t] = "out" THEN 0 ELSE 1
Arrivals == {p \in Threads \X (1..Rounds) : p[2] <= Came(p[1])}

\* The generation is the number of complete batches, and mCount tells how many
\* of the next are held.
CondCounts ==
  /\ Cardinality(Arrivals) = mGeneration * Threshold + (Threshold - mCount)
  /\ Cardinality(Held) = Threshold - mCount

\* No thread has read a generation that is yet to come.
CondRounds ==
  \A t \in Threads :
    /\ lGen[t] <= mGeneration
    /\ round[t] <= Rounds /\ (pc[t] # "out" => round[t] < Rounds)

CondThreads == CondTypes /\ CondCounts /\ CondRounds
CondInv == kind = "cond" => CondThreads

\* Sets of threads, and of arrivals, are finite; no thread comes too often.
LEMMA CondSets ==
  ASSUME CondTypes
  PROVE  /\ IsFiniteSet(Held) /\ Held \subseteq Inside /\ Inside \subseteq Threads
         /\ Cardinality(Held) \in Nat
         /\ IsFiniteSet(Arrivals) /\ Cardinality(Arrivals) \in Nat
         /\ Cardinality(Arrivals) <= Cardinality(Threads) * Rounds
         /\ Cardinality(Threads) \in Nat /\ Rounds \in Nat /\ Threshold \in Nat \ {0}
<1>1. Held \subseteq Inside /\ Inside \subseteq Threads
  BY DEF Held, Inside
<1>2. IsFiniteSet(Held) /\ Cardinality(Held) \in Nat
  BY <1>1, ThreadsAssumption, FS_Subset, FS_CardinalityType
<1>3. /\ IsFiniteSet(1..Rounds) /\ Cardinality(1..Rounds) = Rounds
      /\ Cardinality(Threads) \in Nat /\ Rounds \in Nat /\ Threshold \in Nat \ {0}
  <2>1. Cardinality(Threads) \in Nat /\ Rounds \in Nat /\ Threshold \in Nat \ {0}
    BY RoundsAssumption, ThreadsAssumption, ThresholdAssumption, FS_CardinalityType
  <2>2. IsFiniteSet(1..Rounds) /\ Cardinality(1..Rounds) = Rounds
    <3>1. Rounds \in Int /\ 1 \in Int /\ Rounds > 0
      BY RoundsAssumption
    <3>2. IsFiniteSet(1..Rounds) /\ Cardinality(1..Rounds) = Rounds - 1 + 1
      BY <3>1, FS_Interval
    <3>3. QED
      BY <3>1, <3>2
  <2>3. QED
    BY <2>1, <2>2
<1>4. /\ IsFiniteSet(Threads \X (1..Rounds))
      /\ Cardinality(Threads \X (1..Rounds)) = Cardinality(Threads) * Rounds
  BY <1>3, ThreadsAssumption, FS_Product
<1>5. /\ IsFiniteSet(Arrivals)
      /\ Cardinality(Arrivals) <= Cardinality(Threads \X (1..Rounds))
  <2>1. Arrivals \in SUBSET (Threads \X (1..Rounds))
    BY DEF Arrivals
  <2>2. QED
    BY <1>4, <2>1, FS_Subset
<1>6. Cardinality(Arrivals) \in Nat
  BY <1>5, FS_CardinalityType
<1>7. QED
  BY <1>1, <1>2, <1>3, <1>4, <1>5, <1>6

\* And so it is after a step.
CondFinite == Cardinality(Arrivals) <= Cardinality(Threads) * Rounds

LEMMA CondSetsLater == CondTypes' => CondFinite'
<1>1. CondTypes => CondFinite
  BY CondSets DEF CondFinite
<1>2. QED
  BY <1>1, PTL

\* An arrival is counted once.
LEMMA ArrivalIsCounted ==
  ASSUME CondTypes, CondTypes', NEW t \in Threads, Came(t) \in 0..(Rounds - 1),
         Came(t)' = Came(t) + 1, \A u \in Threads \ {t} : Came(u)' = Came(u)
  PROVE  Cardinality(Arrivals') = Cardinality(Arrivals) + 1
<1> DEFINE n == Came(t) + 1
<1>1. n \in 1..Rounds /\ Came(t)' = n /\ Came(t) = n - 1
  BY RoundsAssumption
<1> HIDE DEF n
<1>2. \A u \in Threads : Came(u) \in Int
  BY DEF CondTypes, Came
<1>3. \A p \in Threads \X (1..Rounds) : p \in Arrivals' <=> p \in Arrivals \/ p = <<t, n>>
  <2> SUFFICES ASSUME NEW p \in Threads \X (1..Rounds)
               PROVE  p \in Arrivals' <=> p \in Arrivals \/ p = <<t, n>>
    OBVIOUS
  <2>1. p[1] \in Threads /\ p[2] \in 1..Rounds /\ (p = <<t, n>> <=> p[1] = t /\ p[2] = n)
    OBVIOUS
  <2>2. /\ p \in Arrivals' <=> p[2] <= Came(p[1])'
        /\ p \in Arrivals <=> p[2] <= Came(p[1])
    BY DEF Arrivals
  <2>3. CASE p[1] = t
    BY <1>1, <1>2, <2>1, <2>2, <2>3
  <2>4. CASE p[1] # t
    BY <2>1, <2>2, <2>4
  <2>5. QED
    BY <2>3, <2>4
<1>4. Arrivals' = Arrivals \cup {<<t, n>>} /\ <<t, n>> \notin Arrivals
  <2>1. /\ Arrivals \subseteq Threads \X (1..Rounds) /\ Arrivals' \subseteq Threads \X (1..Rounds)
        /\ <<t, n>> \in Threads \X (1..Rounds)
    BY <1>1 DEF Arrivals
  <2>2. <<t, n>> \notin Arrivals
    BY <1>1, <1>2 DEF Arrivals
  <2>3. QED
    BY <1>3, <2>1, <2>2
<1>5. QED
  BY <1>4, CondSets, FS_AddElement

\* What is counted of the batches that were let go.
LEMMA Product ==
  ASSUME NEW a \in Nat, NEW k \in Nat \ {0}
  PROVE  /\ a * k \in Nat /\ (a + 1) * k = a * k + k
         /\ \A c \in Nat : (a + 1) * k < c * k => a + 1 < c
<1>1. a * k \in Nat /\ (a + 1) * k = a * k + k
  BY Z3
<1>2. ASSUME NEW c \in Nat, c <= a + 1 PROVE c * k <= (a + 1) * k
  <2>1. PICK d \in Nat : a + 1 = c + d
    <3>1. a + 1 - c \in Nat /\ a + 1 = c + (a + 1 - c)
      BY <1>2
    <3>2. QED
      BY <3>1
  <2>2. (c + d) * k = c * k + d * k /\ c * k \in Nat /\ d * k \in Nat
    BY Z3
  <2>3. QED
    BY <2>1, <2>2
<1>3. ASSUME NEW c \in Nat, (a + 1) * k < c * k PROVE a + 1 < c
  <2>1. c * k \in Nat /\ (a + 1) * k \in Nat
    BY Z3
  <2>2. QED
    BY <1>2, <1>3, <2>1
<1>4. QED
  BY <1>1, <1>3

\* The last of a batch: the generation has not come round.
LEMMA ArriveLastKeeps ==
  ASSUME CondThreads, kind = "cond", NEW t \in Threads, UNCHANGED kind, ArriveLast(t)
  PROVE  /\ CondThreads' /\ mGeneration' = mGeneration + 1
         /\ Held' = {} /\ Inside' = Inside \cup {t} /\ t \notin Inside
         /\ Cardinality(Held \cup {t}) = Threshold
<1>1. CondTypes /\ CondCounts /\ CondRounds
  BY DEF CondThreads
<1>2. /\ pc[t] = "out" /\ round[t] < Rounds /\ mCount = 1
      /\ mGeneration' = (mGeneration + 1) % CondGenerations /\ mCount' = Threshold
      /\ UNCHANGED <<lGen, round>>
  BY DEF ArriveLast, Comes
<1>3. /\ \A u \in Threads \ {t} : pc'[u] = pc[u] \/ (pc[u] = "asleep" /\ pc'[u] = "woken")
      /\ pc'[t] = "leaving" /\ pc' \in [Threads -> {"out", "asleep", "woken", "leaving"}]
  BY <1>1 DEF ArriveLast, CondTypes, Asleep, WakeAll
<1>4. Threshold \in Nat \ {0} /\ mGeneration \in Nat /\ CondGenerations \in Nat \ {0}
  BY <1>1, CondSets, GenerationsAssumption DEF CondTypes
<1>5. CondTypes'
  BY <1>1, <1>2, <1>3, <1>4 DEF CondTypes
<1>6. Cardinality(Arrivals') = Cardinality(Arrivals) + 1
  <2>1. Came(t) = round[t] /\ Came(t)' = round[t] + 1 /\ round[t] \in Nat
    BY <1>1, <1>2, <1>3 DEF Came, CondTypes
  <2>2. \A u \in Threads \ {t} : Came(u)' = Came(u)
    BY <1>2, <1>3 DEF Came
  <2>3. Came(t) \in 0..(Rounds - 1) /\ Came(t)' = Came(t) + 1
    BY <1>2, <2>1, RoundsAssumption
  <2>4. QED
    BY <1>1, <1>5, <2>2, <2>3, ArrivalIsCounted
<1>7. Cardinality(Arrivals') = (mGeneration + 1) * Threshold
  <2>1. /\ (mGeneration + 1) * Threshold = mGeneration * Threshold + Threshold
        /\ mGeneration * Threshold \in Nat
    BY <1>4, Product
  <2>2. Cardinality(Arrivals) = mGeneration * Threshold + (Threshold - 1)
    BY <1>1, <1>2 DEF CondCounts
  <2> DEFINE m == mGeneration * Threshold
             n == (mGeneration + 1) * Threshold
  <2> HIDE DEF m, n
  <2>3. n = m + Threshold /\ m \in Nat /\ Cardinality(Arrivals) = m + (Threshold - 1)
    BY <2>1, <2>2 DEF m, n
  <2>4. Cardinality(Arrivals') = n
    BY <1>4, <1>6, <2>3
  <2>5. QED
    BY <2>4 DEF n
<1>8. mGeneration' = mGeneration + 1 /\ mGeneration + 1 < CondGenerations
  <2>1. Cardinality(Arrivals') <= Cardinality(Threads) * Rounds
    BY <1>5, CondSetsLater DEF CondFinite
  <2>2. (mGeneration + 1) * Threshold < CondGenerations * Threshold
    <3> DEFINE a == Cardinality(Threads) * Rounds
               c == CondGenerations * Threshold
               n == (mGeneration + 1) * Threshold
    <3>1. a \in Nat /\ c \in Nat /\ n \in Nat
      <4>1. Cardinality(Threads) \in Nat /\ Rounds \in Nat
        BY <1>1, CondSets
      <4>2. QED
        BY <1>4, <4>1, Z3
    <3> HIDE DEF a, c, n
    <3>2. n <= a /\ a < c
      BY <1>7, <2>1, GenerationsAssumption DEF a, c, n
    <3>3. n < c
      BY <3>1, <3>2
    <3>4. QED
      BY <3>3 DEF n, c
  <2>3. mGeneration + 1 < CondGenerations
    BY <1>4, <2>2, Product
  <2>4. QED
    BY <1>2, <1>4, <2>3
<1>9. Held' = {}
  <2>1. \A u \in Threads : lGen[u] <= mGeneration /\ lGen[u] \in Nat
    BY <1>1, <1>3 DEF CondRounds, CondTypes
  <2>2. QED
    BY <1>2, <1>3, <1>4, <1>8, <2>1 DEF Held, Inside
<1>10. CondCounts'
  <2>1. Threshold - Threshold = 0 /\ Cardinality({}) = 0
    BY <1>4, FS_EmptySet
  <2>2. (mGeneration + 1) * Threshold + 0 = (mGeneration + 1) * Threshold
    BY <1>4, Product
  <2>3. QED
    BY <1>2, <1>7, <1>8, <1>9, <2>1, <2>2 DEF CondCounts
<1>11. CondRounds'
  BY <1>1, <1>2, <1>3, <1>4, <1>8 DEF CondRounds, CondTypes
<1>12. Inside' = Inside \cup {t} /\ t \notin Inside
  BY <1>2, <1>3 DEF Inside
<1>13. Cardinality(Held \cup {t}) = Threshold
  <2>1. Cardinality(Held) = Threshold - 1 /\ t \notin Held /\ IsFiniteSet(Held)
    BY <1>1, <1>2, <1>12, CondSets DEF CondCounts
  <2>2. QED
    BY <1>4, <2>1, FS_AddElement
<1>14. QED
  BY <1>5, <1>8, <1>9, <1>10, <1>11, <1>12, <1>13 DEF CondThreads

\* Another one arrives and sleeps.
LEMMA ArriveAndSleepKeeps ==
  ASSUME CondThreads, kind = "cond", NEW t \in Threads, UNCHANGED kind, ArriveAndSleep(t)
  PROVE  /\ CondThreads' /\ Held' = Held \cup {t}
         /\ Inside' = Inside \cup {t} /\ t \notin Inside
         /\ Cardinality(Held \cup {t}) # Threshold
<1>1. CondTypes /\ CondCounts /\ CondRounds
  BY DEF CondThreads
<1>2. /\ pc[t] = "out" /\ round[t] < Rounds /\ mCount > 1
      /\ lGen' = [lGen EXCEPT ![t] = mGeneration] /\ mCount' = mCount - 1
      /\ pc' = [pc EXCEPT ![t] = "asleep"] /\ UNCHANGED <<mGeneration, round>>
  BY DEF ArriveAndSleep, Comes
<1>3. /\ \A u \in Threads \ {t} : pc'[u] = pc[u] /\ lGen'[u] = lGen[u]
      /\ pc'[t] = "asleep" /\ lGen'[t] = mGeneration
  BY <1>1, <1>2 DEF CondTypes
<1>4. Threshold \in Nat \ {0} /\ mGeneration \in Nat /\ mCount \in 2..Threshold
  BY <1>1, <1>2, CondSets DEF CondTypes
<1>5. CondTypes'
  BY <1>1, <1>2, <1>4 DEF CondTypes
<1>6. Inside' = Inside \cup {t} /\ t \notin Inside
  BY <1>2, <1>3 DEF Inside
<1>7. Held' = Held \cup {t} /\ t \notin Held
  BY <1>2, <1>3, <1>6 DEF Held
<1>8. Cardinality(Held \cup {t}) = Cardinality(Held) + 1
  BY <1>1, <1>7, CondSets, FS_AddElement
<1>9. Cardinality(Arrivals') = Cardinality(Arrivals) + 1
  <2>1. Came(t) = round[t] /\ Came(t)' = round[t] + 1 /\ round[t] \in Nat
    BY <1>1, <1>2, <1>3 DEF Came, CondTypes
  <2>2. \A u \in Threads \ {t} : Came(u)' = Came(u)
    BY <1>2, <1>3 DEF Came
  <2>3. Came(t) \in 0..(Rounds - 1) /\ Came(t)' = Came(t) + 1
    BY <1>2, <2>1, RoundsAssumption
  <2>4. QED
    BY <1>1, <1>5, <2>2, <2>3, ArrivalIsCounted
<1>10. CondCounts' /\ Cardinality(Held \cup {t}) # Threshold
  <2> DEFINE m == mGeneration * Threshold
  <2>1. m \in Nat
    BY <1>4, Product
  <2> HIDE DEF m
  <2>2. Cardinality(Arrivals) = m + (Threshold - mCount) /\ Cardinality(Held) = Threshold - mCount
    BY <1>1 DEF CondCounts, m
  <2>3. /\ Cardinality(Arrivals') = m + (Threshold - (mCount - 1))
        /\ Cardinality(Held') = Threshold - (mCount - 1)
        /\ Cardinality(Held \cup {t}) # Threshold
    BY <1>4, <1>7, <1>8, <1>9, <2>1, <2>2
  <2>4. QED
    BY <1>2, <2>3 DEF CondCounts, m
<1>11. CondRounds'
  BY <1>1, <1>2, <1>3, <1>4 DEF CondRounds, CondTypes
<1>12. QED
  BY <1>5, <1>6, <1>7, <1>10, <1>11 DEF CondThreads

\* A thread that has gone to sleep or woken up is still there.
LEMMA StayKeeps ==
  ASSUME CondThreads, kind = "cond", NEW t \in Threads, UNCHANGED kind,
         SpuriousWakeup(t) \/ (Recheck(t) /\ ~Changed(t))
  PROVE  CondThreads' /\ Held' = Held /\ Inside' = Inside
<1>1. CondTypes /\ CondCounts /\ CondRounds
  BY DEF CondThreads
<1>2. PICK l \in {"asleep", "woken"} :
        /\ pc[t] \in {"asleep", "woken"} /\ pc' = [pc EXCEPT ![t] = l]
        /\ UNCHANGED <<mCount, mGeneration, lGen, round>>
  BY DEF SpuriousWakeup, Recheck
<1>3. \A u \in Threads :
        pc'[u] = pc[u] \/ (pc[u] \in {"asleep", "woken"} /\ pc'[u] \in {"asleep", "woken"})
  BY <1>1, <1>2 DEF CondTypes
<1>4. Inside' = Inside /\ Held' = Held
  BY <1>2, <1>3 DEF Inside, Held
<1>5. Arrivals' = Arrivals
  BY <1>2, <1>3 DEF Arrivals, Came
<1>6. QED
  BY <1>1, <1>2, <1>3, <1>4, <1>5 DEF CondThreads, CondTypes, CondCounts, CondRounds

\* A thread returns: the last one of a batch, or one that has seen a new
\* generation.
LEMMA GoKeeps ==
  ASSUME CondThreads, kind = "cond", NEW t \in Threads, UNCHANGED kind,
         Leave(t) \/ (Recheck(t) /\ Changed(t))
  PROVE  /\ CondThreads' /\ Held' = Held /\ Inside' = Inside \ {t}
         /\ t \in Inside /\ t \notin Held
<1>1. CondTypes /\ CondCounts /\ CondRounds
  BY DEF CondThreads
<1>2. /\ pc[t] \in {"leaving", "woken"} /\ pc' = [pc EXCEPT ![t] = "out"]
      /\ round' = [round EXCEPT ![t] = round[t] + 1]
      /\ UNCHANGED <<mCount, mGeneration, lGen>>
  BY DEF Leave, Recheck
<1>3. /\ \A u \in Threads \ {t} : pc'[u] = pc[u] /\ round'[u] = round[u]
      /\ pc'[t] = "out" /\ round'[t] = round[t] + 1 /\ round[t] \in Nat /\ round[t] < Rounds
  BY <1>1, <1>2 DEF CondTypes, CondRounds
<1>4. t \in Inside /\ t \notin Held
  BY <1>2 DEF Inside, Held, Leave, Recheck, Changed
<1>5. Inside' = Inside \ {t} /\ Held' = Held
  BY <1>2, <1>3, <1>4 DEF Inside, Held
<1>6. Arrivals' = Arrivals
  BY <1>2, <1>3 DEF Arrivals, Came
<1>7. CondTypes' /\ CondRounds'
  BY <1>1, <1>2, <1>3, RoundsAssumption DEF CondTypes, CondRounds
<1>8. QED
  BY <1>1, <1>2, <1>4, <1>5, <1>6, <1>7 DEF CondThreads, CondCounts

\* The blocking barrier is as it should be whenever it is used.
LEMMA CondInvariant == Spec => []CondInv
<1>1. Init => CondInv
  <2> SUFFICES ASSUME Init, kind = "cond" PROVE CondThreads
    BY DEF CondInv
  <2>1. /\ pc = [t \in Threads |-> "out"] /\ round = [t \in Threads |-> 0]
        /\ mCount = Threshold /\ mGeneration = 0 /\ lGen = [t \in Threads |-> 0]
    BY DEF Init, InitThreads, CondInit
  <2>2. Threshold \in Nat \ {0} /\ Rounds \in Nat \ {0} /\ CondGenerations \in Nat \ {0}
    BY ThresholdAssumption, ThreadsAssumption, RoundsAssumption, GenerationsAssumption,
       FS_CardinalityType
  <2>3. CondTypes /\ CondRounds
    BY <2>1, <2>2 DEF CondTypes, CondRounds
  <2>4. Arrivals = {} /\ Held = {}
    BY <2>1 DEF Arrivals, Came, Held, Inside
  <2>5. CondCounts
    BY <2>1, <2>2, <2>4, FS_EmptySet DEF CondCounts
  <2>6. QED
    BY <2>3, <2>5 DEF CondThreads
<1>2. CondInv /\ [Next]_vars => CondInv'
  <2> SUFFICES ASSUME CondInv, [Next]_vars, kind' = "cond" PROVE CondThreads'
    BY DEF CondInv
  <2>1. kind = "cond" /\ CondThreads /\ UNCHANGED kind
    BY DEF CondInv, Next, Step, AtSpin, AtCond, AtSums, vars
  <2>2. CASE UNCHANGED <<pc, round, condVars>>
    BY <2>1, <2>2
    DEF condVars, CondThreads, CondTypes, CondCounts, CondRounds, Arrivals, Came, Held, Inside
  <2>3. ASSUME NEW t \in Threads,
               \/ ArriveLast(t) \/ ArriveAndSleep(t) \/ Leave(t) \/ Recheck(t)
               \/ SpuriousWakeup(t)
        PROVE  CondThreads'
    BY <2>1, <2>3, ArriveLastKeeps, ArriveAndSleepKeeps, StayKeeps, GoKeeps
  <2>4. QED
    BY <2>1, <2>2, <2>3 DEF Next, Step, AtSpin, AtCond, AtSums, CondStep, vars
<1>3. QED
  BY <1>1, <1>2, PTL DEF Spec

-----------------------------------------------------------------------------
(* All barriers implement Barrier.                                         *)

\* A step of a spinning barrier, in the variables of Barrier.
LEMMA SpinStepImplements ==
  ASSUME Spins, UNCHANGED kind, SpinImplements
  PROVE  [Abstract!Next]_Abstract!vars
<1>1. kind # "cond" /\ kind' # "cond"
  BY DEF Spins
<1>2. CASE UNCHANGED <<BatchSize, Spinning \ Freed, Freed>>
  BY <1>1, <1>2 DEF Abstract!vars
<1>3. ASSUME NEW t \in Threads, t \notin Spinning \cup Freed, UNCHANGED BatchSize,
             IF Cardinality((Spinning \ Freed) \cup {t}) = BatchSize
             THEN /\ (Spinning \ Freed)' = {}
                  /\ Freed' = Freed \cup ((Spinning \ Freed) \cup {t})
             ELSE (Spinning \ Freed)' = (Spinning \ Freed) \cup {t} /\ UNCHANGED Freed
      PROVE  Abstract!Next
  <2>1. Abstract!Arrive(t)
    BY <1>1, <1>3, SameCardinality DEF Abstract!Arrive, Abstract!Gather
  <2>2. QED
    BY <2>1 DEF Abstract!Next
<1>4. ASSUME NEW t \in Threads, t \in Freed, Freed' = Freed \ {t},
             UNCHANGED <<BatchSize, Spinning \ Freed>>
      PROVE  Abstract!Next
  BY <1>1, <1>4 DEF Abstract!Leave, Abstract!Next
<1>5. ASSUME NEW t \in Threads, t \notin Spinning \cup Freed, BatchSize' = BatchSize - 1,
             IF Spinning \ Freed # {} /\ Cardinality(Spinning \ Freed) = BatchSize - 1
             THEN (Spinning \ Freed)' = {} /\ Freed' = Freed \cup (Spinning \ Freed)
             ELSE UNCHANGED <<Spinning \ Freed, Freed>>
      PROVE  Abstract!Next
  <2>1. Abstract!Quit(t)
    BY <1>1, <1>5, SameCardinality DEF Abstract!Quit, Abstract!Gather
  <2>2. QED
    BY <2>1 DEF Abstract!Next
<1>6. QED
  BY <1>2, <1>3, <1>4, <1>5 DEF SpinImplements

\* A step of the blocking barrier.
LEMMA CondStepImplements ==
  ASSUME CondThreads, kind = "cond", UNCHANGED kind, NEW t \in Threads,
         CondStep(t) \/ SpuriousWakeup(t)
  PROVE  [Abstract!Next]_Abstract!vars
<1>1. Held \subseteq Inside
  BY DEF Held
<1>2. CASE ArriveLast(t)
  <2>1. /\ Held' = {} /\ Inside' = Inside \cup {t} /\ t \notin Inside
        /\ Cardinality(Held \cup {t}) = Threshold
    BY <1>2, ArriveLastKeeps
  <2>2. (Inside \ Held)' = (Inside \ Held) \cup (Held \cup {t})
    BY <1>1, <2>1
  <2>3. Abstract!Arrive(t)
    BY <1>1, <2>1, <2>2, SameCardinality DEF Abstract!Arrive, Abstract!Gather
  <2>4. QED
    BY <2>3 DEF Abstract!Next
<1>3. CASE ArriveAndSleep(t)
  <2>1. /\ Held' = Held \cup {t} /\ Inside' = Inside \cup {t} /\ t \notin Inside
        /\ Cardinality(Held \cup {t}) # Threshold
    BY <1>3, ArriveAndSleepKeeps
  <2>2. (Inside \ Held)' = Inside \ Held
    BY <1>1, <2>1
  <2>3. Abstract!Arrive(t)
    BY <1>1, <2>1, <2>2, SameCardinality DEF Abstract!Arrive, Abstract!Gather
  <2>4. QED
    BY <2>3 DEF Abstract!Next
<1>4. CASE Leave(t) \/ (Recheck(t) /\ Changed(t))
  <2>1. Held' = Held /\ Inside' = Inside \ {t} /\ t \in Inside /\ t \notin Held
    BY <1>4, GoKeeps
  <2>2. (Inside \ Held)' = (Inside \ Held) \ {t} /\ t \in Inside \ Held
    BY <1>1, <2>1
  <2>3. Abstract!Leave(t)
    BY <2>1, <2>2 DEF Abstract!Leave
  <2>4. QED
    BY <2>3 DEF Abstract!Next
<1>5. CASE SpuriousWakeup(t) \/ (Recheck(t) /\ ~Changed(t))
  <2>1. Held' = Held /\ Inside' = Inside
    BY <1>5, StayKeeps
  <2>2. QED
    BY <2>1 DEF Abstract!vars
<1>6. QED
  BY <1>2, <1>3, <1>4, <1>5 DEF CondStep

\* Every barrier of the repository implements Barrier: nobody leaves before the
\* last of its batch has arrived, and all of the batch may leave then, however
\* the threads overtake one another, come back early or quit.
THEOREM BarriersHold == Spec => BarrierHolds
<1>1. Init => Abstract!Init
  <2> SUFFICES ASSUME Init PROVE Abstract!Init
    OBVIOUS
  <2>1. /\ pc = [t \in Threads |-> "out"] /\ count = Cardinality(Threads)
        /\ quitting = [t \in Threads |-> FALSE]
    BY DEF Init, InitThreads, SpinInit
  <2>2. Inside = {} /\ Held = {} /\ Spinning = {} /\ Finishing = {} /\ QuitsHalfWay = {}
    BY <2>1 DEF Inside, Held, Spinning, Finishing, QuitsHalfWay
  <2>3. Freed = {} /\ BatchSize = Cardinality(Threads)
    <3>1. Cardinality(Threads) \in Nat /\ Cardinality({}) = 0
      BY ThreadsAssumption, FS_CardinalityType, FS_EmptySet
    <3>2. QED
      BY <2>1, <2>2, <3>1 DEF Freed, BatchSize
  <2>4. QED
    BY <2>2, <2>3, SameCardinality DEF Abstract!Init
<1>2. SpinInv /\ CondInv /\ [Next]_vars => [Abstract!Next]_Abstract!vars
  <2> SUFFICES ASSUME SpinInv, CondInv, [Next]_vars PROVE [Abstract!Next]_Abstract!vars
    OBVIOUS
  <2>1. CASE UNCHANGED <<kind, pc, round, spinVars, condVars>>
    BY <2>1
    DEF Abstract!vars, spinVars, shared, condVars, BatchSize, QuitsHalfWay, Spinning, Freed,
        Finishing, Held, Inside
  <2>2. ASSUME NEW t \in Threads, Spins, UNCHANGED kind,
               ReadGeneration(t) \/ SpinStep(t) \/ DecrementCount(t)
        PROVE  [Abstract!Next]_Abstract!vars
    <3>1. SpinImplements
      BY <2>2, EnterImplements, DecrementImplements, ReturnImplements DEF SpinInv, SpinStep
    <3>2. QED
      BY <2>2, <3>1, SpinStepImplements
  <2>3. ASSUME NEW t \in Threads, kind = "cond", UNCHANGED kind,
               CondStep(t) \/ SpuriousWakeup(t)
        PROVE  [Abstract!Next]_Abstract!vars
    BY <2>3, CondStepImplements DEF CondInv
  <2>4. QED
    BY <2>1, <2>2, <2>3 DEF Next, Step, AtSpin, AtCond, AtSums, vars, Spins
<1>3. QED
  BY <1>1, <1>2, SpinInvariant, CondInvariant, PTL DEF Spec, BarrierHolds, Abstract!Spec
=============================================================================
