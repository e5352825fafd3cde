------------------------------ MODULE ForkJoin ------------------------------
(***************************************************************************)
(* The discipline by which parallel_quick_sort's threads wait for one      *)
(* another, with the sorting left out.                                     *)
(*                                                                         *)
(* A call of do_sort either returns at once or submits its lower half to   *)
(* the pool as a task, sorts the higher half by calling itself, and then   *)
(* waits for the task.  While it waits its thread runs other tasks of the  *)
(* pool ON TOP of the waiting call, which cannot continue before they have *)
(* returned.  Each thread has a stack of calls; which pending task a       *)
(* thread takes is left open, so every queueing policy implements this.    *)
(*                                                                         *)
(* The calls of one sort form a binary tree and are numbered like a heap:  *)
(* the root is 1, the halves of c are 2 * c and 2 * c + 1.                 *)
(***************************************************************************)
EXTENDS Integers, Sequences, FiniteSets

CONSTANTS Threads,   \* every thread that runs do_sort
          Main,      \* the one that called parallel_quick_sort
          MaxCall    \* bound: the highest number of a call

ASSUME ThreadsAssumption == Main \in Threads
ASSUME MaxCallAssumption == MaxCall \in Nat \ {0}

VARIABLES phase,     \* call -> how far it has got
          stack      \* thread -> its calls, the innermost last

forkVars == <<phase, stack>>

Calls == 1..MaxCall
Root == 1
Lower(c) == 2 * c
Higher(c) == 2 * c + 1

\* A call starts, runs its higher half, waits for its lower half; between
\* submission and start it is queued, after its return it is done.
Live == {"start", "higher", "wait"}
Phases == {"none", "queued", "done"} \cup Live

Top(t) == stack[t][Len(stack[t])]
Busy(t) == stack[t] # <<>>
Depths(t) == 1..Len(stack[t])
WithoutTop(s) == SubSeq(s, 1, Len(s) - 1)

ForkInit ==
  /\ phase = [c \in Calls |-> IF c = Root THEN "start" ELSE "none"]
  /\ stack = [t \in Threads |-> IF t = Main THEN <<Root>> ELSE <<>>]

\* do_sort splits its chunk: the lower half becomes a task, the higher half a
\* call on the same stack.
Fork(t) ==
  /\ Busy(t)
  /\ phase[Top(t)] = "start"
  /\ Higher(Top(t)) \in Calls
  /\ phase' = [phase EXCEPT ![Top(t)] = "higher",
                            ![Lower(Top(t))] = "queued",
                            ![Higher(Top(t))] = "start"]
  /\ stack' = [stack EXCEPT ![t] = Append(@, Higher(Top(t)))]

\* Mutant: a call returns without waiting for its lower half.
ReturnsEarly(t) == Busy(t) /\ phase[Top(t)] \in {"start", "wait"}

\* The innermost call may return: its chunk was short, or both halves are done.
CanReturn(t) ==
  /\ Busy(t)
  /\ \/ phase[Top(t)] = "start"
     \/ phase[Top(t)] = "wait" /\ phase[Lower(Top(t))] = "done"

\* The call returns to its caller, which goes on to wait for its lower half,
\* or, when it was a task, to whatever its thread was doing.
Return(t) ==
  /\ CanReturn(t)
  /\ phase' = [c \in Calls |-> IF c = Top(t) THEN "done"
                               ELSE IF Higher(c) = Top(t) THEN "wait"
                               ELSE phase[c]]
  /\ stack' = [stack EXCEPT ![t] = WithoutTop(@)]

\* Mutant: a waiting call blocks its thread in future::get.
CanTakeIdle(t) == ~Busy(t) /\ t # Main

\* A thread looks for a task when it has no call or its innermost call waits.
\* The main thread leaves when its first call has returned.
CanTake(t) == IF Busy(t) THEN phase[Top(t)] = "wait" ELSE t # Main

\* The worker loop or run_pending_task runs a pending task.  The waiting call
\* looked at its future before it went to the queue: the task may be ready by
\* the time another one is taken.
Take(t) ==
  /\ CanTake(t)
  /\ \E c \in Calls :
       /\ phase[c] = "queued"
       /\ phase' = [phase EXCEPT ![c] = "start"]
       /\ stack' = [stack EXCEPT ![t] = Append(@, c)]

ForkStep(t) == Fork(t) \/ Return(t) \/ Take(t)

ForkNext == \E t \in Threads : ForkStep(t)

ForkSpec == ForkInit /\ [][ForkNext]_forkVars
FairForkSpec == ForkSpec /\ \A t \in Threads : WF_forkVars(ForkStep(t))
-----------------------------------------------------------------------------
\* Every variable holds a value of its kind, and a call has at most one frame:
\* no task runs twice.
TypeOK ==
  /\ phase \in [Calls -> Phases]
  /\ stack \in [Threads -> Seq(Calls)]
  /\ \A t, u \in Threads : \A i \in Depths(t), j \in Depths(u) :
       stack[t][i] = stack[u][j] => t = u /\ i = j

\* The calls that have started and not returned are the ones on the stacks.
LiveOnStack ==
  /\ \A t \in Threads : \A i \in Depths(t) : phase[stack[t][i]] \in Live
  /\ \A c \in Calls : phase[c] \in Live =>
       \E t \in Threads : \E i \in Depths(t) : stack[t][i] = c

\* A call that has not split is innermost, and the call on top of one that
\* runs its higher half is that half.
FrameOrder ==
  \A t \in Threads : \A i \in Depths(t) :
    /\ phase[stack[t][i]] = "start" => i = Len(stack[t])
    /\ phase[stack[t][i]] = "higher" =>
         i < Len(stack[t]) /\ stack[t][i + 1] = Higher(stack[t][i])

\* What the phase of a call says about its halves.
Family ==
  /\ phase[Root] \in Live \cup {"done"}
  /\ \A c \in Calls :
       /\ phase[c] \in {"none", "queued", "start"} =>
            /\ Lower(c) \in Calls => phase[Lower(c)] = "none"
            /\ Higher(c) \in Calls => phase[Higher(c)] = "none"
       /\ phase[c] \in {"higher", "wait"} =>
            Higher(c) \in Calls /\ phase[Lower(c)] # "none"
       /\ Lower(c) \in Calls /\ phase[Lower(c)] \in {"queued"} \cup Live =>
            phase[c] \in {"higher", "wait"}
       /\ Higher(c) \in Calls /\ phase[Higher(c)] \in {"queued"} \cup Live =>
            phase[c] = "higher" /\ phase[Higher(c)] # "queued"

\* The shape of the stacks and of the tree of calls, which every step keeps: a
\* half is under way only while the call that split it waits below it or on
\* another stack.
TreeInv == TypeOK /\ LiveOnStack /\ FrameOrder /\ Family

\* When the sort returns no task is queued and none runs: the pool that is
\* destroyed next has nothing left, and no future is abandoned.
NothingOutlivesRoot ==
  phase[Root] = "done" =>
    /\ \A c \in Calls : phase[c] \in {"none", "done"}
    /\ \A t \in Threads : stack[t] = <<>>

\* The threads never wait for one another in a circle: until the sort returns,
\* some thread can return from a call or can take a task that is pending.
\* The danger is a call buried under a task that another buried call needs.
NoCircularWait ==
  phase[Root] # "done" =>
    \E t \in Threads :
      \/ CanReturn(t)
      \/ CanTake(t) /\ \E c \in Calls : phase[c] = "queued"

\* The sort returns.
Terminates == <>(phase[Root] = "done")
=============================================================================
