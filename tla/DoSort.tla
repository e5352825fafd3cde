------------------------------- MODULE DoSort -------------------------------
(***************************************************************************)
(* sorter::do_sort, which every version of the pool runs: the calls, their *)
(* lists and the threads that run them.  How a task travels from submit to *)
(* the thread that runs it is left to the pool modules that extend this    *)
(* one; each conjoins its queues to the actions below.                     *)
(*                                                                         *)
(* A list is the set of the elements it holds as long as its order does    *)
(* not matter: do_sort takes the first element as the pivot and partitions *)
(* the rest in an unspecified order, so any element may come first.  The   *)
(* calls, their phases and the stacks of the threads are ForkJoin's.       *)
(***************************************************************************)
EXTENDS ForkJoin

CONSTANTS Elements,    \* the elements of the list of parallel_quick_sort
          Key          \* element -> what operator< compares

ASSUME ElementsAssumption ==
  IsFiniteSet(Elements) /\ Elements # {} /\ Key \in [Elements -> Int]

VARIABLES chunk,       \* call -> the list it was given, while it holds it
          result,      \* call -> the list it builds, then returns
          at,          \* thread -> where its innermost loop is
          done         \* the pool's flag that stops the workers

sortVars == <<phase, stack, chunk, result, at, done>>

\* The threads of the pool.  A chunk is smaller by the pivot at every level, so
\* that for N elements the bound 2 ^ N - 1 on calls never stops one from
\* splitting.
Workers == Threads \ {Main}

\* A thread runs do_sort, is in run_pending_task, or, with no call on its
\* stack, is in the worker's loop; the caller destroys the pool and joins.
Places == {"sort", "pending", "loop", "exit", "destroy", "join", "end"}

SortInit ==
  /\ ForkInit
  /\ chunk = [c \in Calls |-> IF c = Root THEN Elements ELSE {}]
  /\ result = [c \in Calls |-> <<>>]
  /\ at = [t \in Threads |-> IF t = Main THEN "sort" ELSE "loop"]
  /\ done = FALSE
-----------------------------------------------------------------------------
(* do_sort.                                                                *)

\* What std::partition moves to the front, and what stays behind the pivot.
Below(S, p) == {e \in S : Key[e] < Key[p]}

Above(S, p) == (S \ {p}) \ Below(S, p)

\* Chunks of two and more are split: the pivot is spliced out, the smaller
\* elements become a task, the others are sorted by a call on this stack.
\* The pool that owns t puts the task Lower(Top(t)) into one of its queues.
Split(t) ==
  LET c == Top(t) IN
  /\ at[t] = "sort" /\ phase[c] = "start" /\ Cardinality(chunk[c]) >= 2
  /\ Higher(c) \in Calls
  /\ \E p \in chunk[c] :
       /\ result' = [result EXCEPT ![c] = <<p>>]
       /\ chunk' = [chunk EXCEPT ![c] = {},
                                 ![Lower(c)] = Below(chunk[c], p),
                                 ![Higher(c)] = Above(chunk[c], p)]
  /\ phase' = [phase EXCEPT ![c] = "higher", ![Lower(c)] = "queued",
                            ![Higher(c)] = "start"]
  /\ stack' = [stack EXCEPT ![t] = Append(@, Higher(c))]
  /\ UNCHANGED <<at, done>>

\* Where a thread goes on once its innermost call has returned.
Resumes(t) ==
  IF Len(stack[t]) > 1 THEN "sort"
  ELSE IF t = Main THEN "destroy" ELSE "loop"

\* The innermost call of t returns the list r.  If it sorted a higher half its
\* caller appends r to its own result; otherwise r is the value of a future,
\* or what parallel_quick_sort returns.
ReturnList(t, r) ==
  LET c == Top(t)
      called(d) == Higher(d) = c IN
  /\ phase' = [d \in Calls |-> IF d = c THEN "done"
                               ELSE IF called(d) THEN "wait" ELSE phase[d]]
  /\ stack' = [stack EXCEPT ![t] = WithoutTop(@)]
  /\ at' = [at EXCEPT ![t] = Resumes(t)]
  /\ chunk' = [chunk EXCEPT ![c] = {}]
  /\ result' = [d \in Calls |->
       IF called(d) THEN result[d] \o r
       ELSE IF d = c THEN IF \E p \in Calls : called(p) THEN <<>> ELSE r
       ELSE IF d = Lower(c) THEN <<>> ELSE result[d]]
  /\ UNCHANGED done

\* A list of at most one element.
AsList(S) == IF S = {} THEN <<>> ELSE <<CHOOSE e \in S : TRUE>>

\* A chunk with fewer than two elements is returned as it came.
ReturnShort(t) ==
  /\ at[t] = "sort" /\ phase[Top(t)] = "start"
  /\ Cardinality(chunk[Top(t)]) < 2
  /\ ReturnList(t, AsList(chunk[Top(t)]))

\* Mutant: the task has been taken, but not finished.
Taken(c) == phase[c] \notin {"none", "queued"}

\* future::_Is_ready, for the future of the task c.
Ready(c) == phase[c] = "done"

\* Mutant: the lower half is spliced in behind.
JoinedBehind(c) == result[c] \o result[Lower(c)]

\* result.splice(result.begin(), new_lower.get())
JoinedInFront(c) == result[Lower(c)] \o result[c]

\* The future is ready: the lower half goes in front and the call returns.
ReturnJoined(t) ==
  /\ at[t] = "sort" /\ phase[Top(t)] = "wait" /\ Ready(Lower(Top(t)))
  /\ ReturnList(t, JoinedInFront(Top(t)))

\* Mutant: the call spins on its future instead of running other tasks.
SpinsInGet(t) ==
  /\ at[t] = "sort" /\ phase[Top(t)] = "wait" /\ ~Ready(Lower(Top(t)))
  /\ UNCHANGED sortVars

\* The future is not ready: run_pending_task.
NotReady(t) ==
  /\ at[t] = "sort" /\ phase[Top(t)] = "wait" /\ ~Ready(Lower(Top(t)))
  /\ at' = [at EXCEPT ![t] = "pending"]
  /\ UNCHANGED <<phase, stack, chunk, result, done>>
-----------------------------------------------------------------------------
(* The pool's threads.                                                     *)

\* The worker's loop tests done before every task.
LoopTest(t) ==
  /\ at[t] = "loop"
  /\ at' = [at EXCEPT ![t] = IF done THEN "exit" ELSE "pending"]
  /\ UNCHANGED <<phase, stack, chunk, result, done>>

\* A thread that got the task of call c runs it on top of what it was doing.
RunTask(t, c) ==
  /\ phase' = [phase EXCEPT ![c] = "start"]
  /\ stack' = [stack EXCEPT ![t] = Append(@, c)]
  /\ at' = [at EXCEPT ![t] = "sort"]
  /\ UNCHANGED <<chunk, result, done>>

\* A thread that found no task yields and goes back to its loop.
Yield(t) ==
  /\ at' = [at EXCEPT ![t] = IF Busy(t) THEN "sort" ELSE "loop"]
  /\ UNCHANGED <<phase, stack, chunk, result, done>>

\* parallel_quick_sort returns: the pool's destructor sets done, and the
\* joiner, declared last and so destroyed first, joins every worker.
Destroy ==
  /\ at[Main] = "destroy"
  /\ done' = TRUE
  /\ at' = [at EXCEPT ![Main] = "join"]
  /\ UNCHANGED <<phase, stack, chunk, result>>

Joined ==
  /\ at[Main] = "join"
  /\ \A w \in Workers : at[w] = "exit"
  /\ at' = [at EXCEPT ![Main] = "end"]
  /\ UNCHANGED <<phase, stack, chunk, result, done>>
-----------------------------------------------------------------------------
(* Properties of every pool that sorts.                                    *)

\* What parallel_quick_sort returns is its list, sorted: every element once,
\* in the order of the keys.
SortedAtEnd ==
  at[Main] \in {"destroy", "join", "end"} =>
    /\ Len(result[Root]) = Cardinality(Elements)
    /\ Elements = {result[Root][i] : i \in DOMAIN result[Root]}
    /\ \A i, j \in DOMAIN result[Root] :
         i < j => Key[result[Root][i]] <= Key[result[Root][j]]

\* The waiting of the threads is ForkJoin's: a task is taken by one thread,
\* a call returns only when its lower half has.
ForkJoinDiscipline == ForkSpec

\* When the sort has returned the pool is destroyed and every worker exits.
PoolEnds == <>(at[Main] = "end")
=============================================================================
