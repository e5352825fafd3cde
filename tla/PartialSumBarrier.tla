-------------------------- MODULE PartialSumBarrier --------------------------
(***************************************************************************)
(* parallel_partial_sum_barrier of scan/partial_sum.h: one thread for each *)
(* element adds, in rounds that a barrier separates, the element that lies *)
(* 1, 2, 4, ... places before its own, reading the list and writing the    *)
(* buffer in even rounds and the other way round in odd ones.  A thread    *)
(* that has nothing left to add leaves the barrier.                        *)
(*                                                                         *)
(* The barrier is Barrier, which SpinBarrier shows that the code's barrier *)
(* implements.  Element i is 2 ^ i, so that a sum tells what was added.    *)
(***************************************************************************)
EXTENDS Integers, FiniteSets

CONSTANT Length      \* of the list

VARIABLES first,     \* the list
          buffer,
          step,      \* thread -> the number of its round
          pc,        \* thread -> what it does next
          count, batch, released    \* the barrier

lists == <<first, buffer>>
barrier == <<count, batch, released>>
vars == <<lists, step, pc, barrier>>

Indices == 0..(Length - 1)
b == INSTANCE Barrier WITH Threads <- Indices, Counts <- {Length}

Element(i) == 2 ^ i
stride(i) == 2 ^ step[i]
IsOdd(s) == s % 2 = 1

Init ==
  /\ first = [i \in Indices |-> Element(i)]
  /\ buffer = [i \in Indices |-> 0]
  /\ step = [i \in Indices |-> 0]
  /\ pc = [i \in Indices |-> "loop"]
  /\ b!Init

Goto(i, l) == pc' = [pc EXCEPT ![i] = l]

\* The condition of the for loop.
Continues(i) == stride(i) <= i

\* dest = source + addend
Add(i) ==
  /\ pc[i] = "loop" /\ Continues(i)
  /\ IF IsOdd(step[i])
     THEN /\ first' = [first EXCEPT ![i] = buffer[i] + buffer[i - stride(i)]]
          /\ UNCHANGED buffer
     ELSE /\ buffer' = [buffer EXCEPT ![i] = first[i] + first[i - stride(i)]]
          /\ UNCHANGED first
  /\ Goto(i, "arrive")
  /\ UNCHANGED <<step, barrier>>

\* b.wait(): the thread arrives at the barrier,
Arrive(i) ==
  /\ pc[i] = "arrive" /\ b!Arrive(i)
  /\ Goto(i, "leave")
  /\ UNCHANGED <<lists, step>>

\* Mutant: the thread leaves with whoever is there.
LeaveEarly(i) ==
  /\ pc[i] = "leave"
  /\ step' = [step EXCEPT ![i] = @ + 1]
  /\ batch' = batch \ {i} /\ released' = released \ {i}
  /\ Goto(i, "loop")
  /\ UNCHANGED <<lists, count>>

\* and is released: the next round.
Leave(i) ==
  /\ pc[i] = "leave" /\ b!Leave(i)
  /\ step' = [step EXCEPT ![i] = @ + 1]
  /\ Goto(i, "loop")
  /\ UNCHANGED lists

\* update_source: what was written last is in the buffer.
UpdateSource(i) == IsOdd(step[i])

Finish(i) ==
  /\ pc[i] = "loop" /\ ~Continues(i)
  /\ IF UpdateSource(i) THEN first' = [first EXCEPT ![i] = buffer[i]]
     ELSE UNCHANGED first
  /\ Goto(i, "quit")
  /\ UNCHANGED <<buffer, step, barrier>>

\* b.done_waiting()
DoneWaiting(i) ==
  /\ pc[i] = "quit" /\ b!Quit(i)
  /\ Goto(i, "end")
  /\ UNCHANGED <<lists, step>>

Step(i) == Add(i) \/ Arrive(i) \/ Leave(i) \/ Finish(i) \/ DoneWaiting(i)

\* Thread i cannot be created, and with it none of those that come after it:
\* the caller leaves the loop, and joins those that were.
LaunchFails(i) ==
  /\ i < Length - 1
  /\ \A j \in i..Length - 1 : pc[j] = "loop" /\ step[j] = 0
  /\ pc' = [j \in Indices |-> IF j < i THEN pc[j] ELSE "off"]
  /\ UNCHANGED <<lists, step, barrier>>

Next == \E i \in Indices : Step(i) \/ LaunchFails(i)

Spec == Init /\ [][Next]_vars
-----------------------------------------------------------------------------
(* Properties.                                                             *)

\* The cells that the next statement of a thread writes, and reads.
Writes(i) ==
  IF pc[i] # "loop" THEN {}
  ELSE IF Continues(i)
       THEN {<<IF IsOdd(step[i]) THEN "first" ELSE "buffer", i>>}
       ELSE IF UpdateSource(i) THEN {<<"first", i>>} ELSE {}

Reads(i) ==
  IF pc[i] # "loop" THEN {}
  ELSE IF Continues(i)
       THEN {IF IsOdd(step[i]) THEN "buffer" ELSE "first"} \X {i, i - stride(i)}
       ELSE IF UpdateSource(i) THEN {<<"buffer", i>>} ELSE {}

\* The barrier separates the reading of a cell from its writing, also for the
\* threads that have left it.
NoDataRace ==
  \A i, j \in Indices :
    i # j => Writes(i) \cap (Writes(j) \cup Reads(j)) = {}

\* All threads can be joined: none waits at the barrier for one that has left.
AllJoined == \A i \in Indices : pc[i] = "end"

\* The threads that were created wait for one that was not.  (Thread 0 needs no
\* other: it only leaves the barrier.)
WaitForMissing ==
  /\ pc[Length - 1] = "off"
  /\ \A i \in Indices : pc[i] \in {"off", IF i = 0 THEN "end" ELSE "leave"}

\* The list holds its prefix sums, as sequentail_partial_sum computes them.
PrefixSums ==
  AllJoined =>
    \A i \in Indices : first[i] = 2 ^ (i + 1) - 1
=============================================================================
