--------------------------- MODULE ProgramThreads ---------------------------
(***************************************************************************)
(* The frame of the small classes and programs of sections 1 to 4: a few   *)
(* threads, the mutexes they share, and what each is about to do.  The     *)
(* modules that extend this one say what the programs are; one of them is  *)
(* run.  Places common to all are "idle", "done" and "asleep".             *)
(***************************************************************************)
EXTENDS Integers, FiniteSetsExt, SequencesExt

CONSTANTS Threads,     \* the threads of a program
          Accounts,    \* the bank accounts, each of which has a mutex
          Free,        \* the owner of a mutex that nobody holds
          MaxCalls,    \* bound: how many calls the threads make together
          MaxSpurious  \* bound: how many spurious wakeups happen

ASSUME ThreadsAssumption == IsFiniteSet(Threads) /\ Free \notin Threads
ASSUME AccountsAssumption == IsFiniteSet(Accounts) /\ Accounts # {}
ASSUME BoundsAssumption == MaxCalls \in Nat /\ MaxSpurious \in Nat

VARIABLES program,     \* which program is run
          pc,          \* thread -> what it does next
          mut,         \* mutex -> the thread that holds it, or Free
          calls,       \* calls made so far
          wakeups,     \* spurious wakeups so far
          broken       \* whether something undefined has happened

frame == <<program, pc, mut, calls, wakeups, broken>>

\* The mutex of an object that has one, and the two of a list.
Mutexes == Accounts \cup {"m", "head_mutex", "tail_mutex"}

InitThreads ==
  /\ pc = [t \in Threads |-> "idle"]
  /\ mut = [m \in Mutexes |-> Free]
  /\ calls = 0 /\ wakeups = 0
  /\ broken = FALSE

Goto(t, l) == pc' = [pc EXCEPT ![t] = l]

\* Thread t goes from one place to another and leaves the mutexes alone.
Move(t, from, to) ==
  /\ pc[t] = from /\ Goto(t, to)
  /\ UNCHANGED <<program, mut, calls, wakeups, broken>>

\* It takes a mutex that is free,
Lock(t, m, from, to) ==
  /\ pc[t] = from /\ mut[m] = Free
  /\ Goto(t, to)
  /\ mut' = [mut EXCEPT ![m] = t]
  /\ UNCHANGED <<program, calls, wakeups, broken>>

\* or releases those that it holds among ms.
Unlock(t, ms, from, to) ==
  /\ pc[t] = from /\ Goto(t, to)
  /\ mut' = [m \in Mutexes |-> IF m \in ms /\ mut[m] = t THEN Free ELSE mut[m]]
  /\ UNCHANGED <<program, calls, wakeups, broken>>

\* A thread calls a member function.
Call(t, to) ==
  /\ pc[t] = "idle" /\ calls < MaxCalls
  /\ calls' = calls + 1
  /\ Goto(t, to)
  /\ UNCHANGED <<program, mut, wakeups, broken>>

\* What the thread does has no defined meaning: the program is over.
Break(t) ==
  /\ broken' = TRUE
  /\ pc' = [u \in Threads |-> "done"]
  /\ UNCHANGED <<program, mut, calls, wakeups>>

\* condition_variable::wait: the mutex is released and the thread blocks.
Sleep(t, m, from) == Unlock(t, {m}, from, "asleep")
Asleep == {t \in Threads : pc[t] = "asleep"}

\* notify_one: one of the waiters, if there is one, goes on at the place where
\* it takes the mutex again.
NotifyOne(t, from, to, again) ==
  /\ pc[t] = from
  /\ IF Asleep = {} THEN Goto(t, to)
     ELSE \E w \in Asleep : pc' = [pc EXCEPT ![t] = to, ![w] = again]
  /\ UNCHANGED <<program, mut, calls, wakeups, broken>>

\* A waiter returns from the system's wait although nobody notified it.
WakesUp(t, again) ==
  /\ pc[t] = "asleep" /\ wakeups < MaxSpurious
  /\ wakeups' = wakeups + 1
  /\ Goto(t, again)
  /\ UNCHANGED <<program, mut, calls, broken>>
=============================================================================
