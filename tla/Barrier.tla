------------------------------- MODULE Barrier -------------------------------
(***************************************************************************)
(* What a barrier promises: threads arrive and are held back until as many *)
(* have arrived as the barrier counts; then exactly these are released, in *)
(* any order and at any time, while the next ones may already arrive.  A   *)
(* thread that quits takes its place out of the count.                     *)
(***************************************************************************)
EXTENDS Integers, FiniteSets

CONSTANTS Threads,
          Counts     \* how many threads a batch may have at first

VARIABLES count,      \* how many threads a batch has now
          batch,      \* the threads that have arrived and are held back
          released    \* the threads that may leave and have not left yet

vars == <<count, batch, released>>

Init == count \in Counts /\ batch = {} /\ released = {}

\* The batch S is let go when it is complete.
Gather(S, n) ==
  IF S # {} /\ Cardinality(S) = n
  THEN batch' = {} /\ released' = released \cup S
  ELSE batch' = S /\ UNCHANGED released

Arrive(t) ==
  /\ t \notin batch \cup released
  /\ Gather(batch \cup {t}, count)
  /\ UNCHANGED count

Leave(t) ==
  /\ t \in released
  /\ released' = released \ {t}
  /\ UNCHANGED <<count, batch>>

Quit(t) ==
  /\ t \notin batch \cup released
  /\ count' = count - 1
  /\ Gather(batch, count - 1)

Next == \E t \in Threads : Arrive(t) \/ Leave(t) \/ Quit(t)

Spec == Init /\ [][Next]_vars
=============================================================================
