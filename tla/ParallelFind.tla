----------------------------- MODULE ParallelFind -----------------------------
(***************************************************************************)
(* parallel_find_pt of find/parallel_find.h.  Threads and the caller       *)
(* search blocks of the range at the same time.  Whoever finds the value,  *)
(* or meets an exception, puts it into the one promise result and then     *)
(* raises done_flag, at which the others stop.  A promise is set once: who *)
(* comes second gets an exception from set_value, and another one from     *)
(* set_exception in the handler of the first.                              *)
(***************************************************************************)
EXTENDS BlockThreads

CONSTANT MaxEvents     \* bound: at how many positions a comparison ends a search

ASSUME EventsAssumption == MaxEvents \in Nat

VARIABLES matches,      \* the positions of the value
          throwing,     \* the positions at which the comparison throws
          result,       \* what the promise holds
          done_flag,
          pos           \* block -> the position it has come to

range == <<matches, throwing>>
findVars == <<range, result, done_flag, pos>>

\* What the promise can hold besides a position.
Empty == Running
Exception == Threw

FindInit ==
  /\ matches \in IF algorithm \in {"find", "find_async"} THEN SUBSET Positions ELSE {{}}
  /\ throwing \in IF algorithm = "find" THEN SUBSET (Positions \ matches) ELSE {{}}
  /\ Cardinality(matches \cup throwing) <= MaxEvents
  /\ result = Empty /\ done_flag = FALSE
  /\ pos = [k \in Ids |-> 0]
-----------------------------------------------------------------------------
(* find_element on one block                                               *)

\* Mutant: searches the first element of the next block too.
OnePast(k) == pos[k] = end(k) + 1 \/ pos[k] = length

\* begin == end
AtEnd(k) == pos[k] = end(k)

\* The condition of the loop ends it.
StopLooking(k) ==
  /\ Alive /\ pc[k] = "look" /\ (AtEnd(k) \/ done_flag)
  /\ Proceed(k, "end")
  /\ UNCHANGED <<range, result, done_flag, pos, throws>>

\* One round of the loop: a comparison, which may throw.
Look(k) ==
  /\ Alive /\ pc[k] = "look" /\ ~AtEnd(k) /\ ~done_flag
  /\ CASE pos[k] \in matches -> Proceed(k, "set") /\ UNCHANGED <<pos, throws>>
       [] pos[k] \in throwing ->
            Proceed(k, "catch") /\ throws' = throws + 1 /\ UNCHANGED pos
       [] OTHER -> pos' = [pos EXCEPT ![k] = @ + 1] /\ UNCHANGED <<frame, throws>>
  /\ UNCHANGED <<range, result, done_flag>>

\* Mutant: begin has been advanced before.
NextPosition(k) == pos[k] + 1

\* The iterator that set_value is given.
Found(k) == pos[k]

\* result->set_value(begin), which throws if result has been set
SetValue(k) ==
  /\ Alive /\ pc[k] = "set"
  /\ IF result = Empty
     THEN result' = Found(k) /\ Proceed(k, "flag")
     ELSE Proceed(k, "catch") /\ UNCHANGED result
  /\ UNCHANGED <<range, done_flag, pos, throws>>

\* done_flag.store(true), also the store of the handler
RaiseFlag(k) ==
  /\ Alive /\ pc[k] = "flag"
  /\ done_flag' = TRUE
  /\ Proceed(k, "end")
  /\ UNCHANGED <<range, result, pos, throws>>

\* result->set_exception in the handler,
Catch(k) ==
  /\ Alive /\ pc[k] = "catch" /\ result = Empty
  /\ result' = Exception
  /\ Proceed(k, "flag")
  /\ UNCHANGED <<range, done_flag, pos, throws>>

\* which throws if result has been set.
CatchThrows(k) ==
  /\ Alive /\ pc[k] = "catch" /\ result # Empty
  /\ Escape(k)
  /\ UNCHANGED <<range, result, done_flag, pos, throws>>
-----------------------------------------------------------------------------
(* The caller                                                              *)

LaunchSearch ==
  /\ \/ StartThread("look") /\ pos' = [pos EXCEPT ![started'] = begin(started')]
     \/ StartFinal("look") /\ pos' = [pos EXCEPT ![Final] = begin(Final)]
  /\ UNCHANGED <<range, result, done_flag, throws>>

LaunchSearchFails ==
  /\ throws < MaxThrows /\ StartFails
  /\ throws' = throws + 1
  /\ UNCHANGED <<range, result, done_flag, pos>>

\* return last, or what get returns or throws
ReturnFound ==
  /\ \/ ReturnAtOnce(length)
     \/ length > 0 /\ pc[Final] = "end" /\ ~done_flag /\ Leave(length)
     \/ length > 0 /\ pc[Final] = "end" /\ done_flag /\ result # Empty /\ Leave(result)
     \/ LeaveByException
  /\ UNCHANGED <<range, result, done_flag, pos, throws>>
-----------------------------------------------------------------------------
SearchStep(k) ==
  \/ StopLooking(k) \/ Look(k) \/ SetValue(k) \/ RaiseFlag(k)
  \/ Catch(k) \/ CatchThrows(k)
-----------------------------------------------------------------------------
(* Properties.                                                             *)

\* What is returned is a position of the value, and the end of the range only
\* if the value is nowhere and every comparison was made.
PositionMatches ==
  /\ outcome \in Positions => outcome \in matches
  /\ outcome = length => matches = {} /\ throwing = {}

\* The promise is set twice only if two positions match or throw: a range with
\* unique elements, as the one in find/main.cpp, never ends the program.
TwoMatch == Cardinality(matches \cup throwing) >= 2
=============================================================================
