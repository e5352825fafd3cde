----------------------------- MODULE PoolsProofs -----------------------------
(***************************************************************************)
(* The simple thread pools keep what they promise: a proof for every       *)
(* number of hardware threads, every number of tasks and every range.      *)
(***************************************************************************)
EXTENDS Pools, FiniteSetTheorems, SequenceTheorems, TLAPS

Owners == {"construct", "ready", "submit", "get", "return", "join", "end"}
Places == {"unborn", "loop", "pop", "run", "exit"}
FutureStates == {"none", "pending", "value", "error", "broken", "dropped"}

-----------------------------------------------------------------------------
(* The inductive invariant.                                                *)

\* The types of the pool's variables.  The workers are numbered from one.
PoolTypes ==
  /\ packaged \in BOOLEAN /\ done \in BOOLEAN /\ terminated \in BOOLEAN
  /\ \E W \in Hardware : PoolWorkers = 1..W
  /\ threads \in 0..hardware_threads
  /\ work_queue \in Seq(Tasks)
  /\ worker \in [PoolWorkers -> Places]
  /\ running \in [PoolWorkers -> Tasks \cup {NoTask}]
  /\ future \in [Tasks -> FutureStates]
  /\ runs \in [Tasks -> Nat]

\* The types of the owner's variables.
TypeOK ==
  /\ PoolTypes
  /\ client \in {"anybody", "parallel_accumulate"}
  /\ owner \in Owners
  /\ length \in Lengths /\ i \in Nat \ {0} /\ result \in Int /\ threw \in BOOLEAN

\* A worker that exists has been started, and has a task when it runs one.
WorkersOK ==
  \A w \in PoolWorkers : /\ worker[w] = "unborn" <=> threads < w
                         /\ worker[w] = "run" <=> running[w] # NoTask

Queued(k) == \E a \in 1..Len(work_queue) : work_queue[a] = k
Run(k) == \E w \in PoolWorkers : running[w] = k

\* No task is in the queue twice, or with two workers.
OnePlace ==
  /\ \A a, b \in 1..Len(work_queue) : work_queue[a] = work_queue[b] => a = b
  /\ \A v, w \in PoolWorkers :
       running[v] # NoTask /\ running[v] = running[w] => v = w

\* A pending task is in the queue or with a worker; the others are not there.
\* What a task's future holds tells whether it has run.
TaskOK(k) ==
  /\ future[k] = "pending" <=> Queued(k) \/ Run(k)
  /\ Queued(k) => runs[k] = 0
  /\ Run(k) => runs[k] = 1
  /\ future[k] \in {"none", "broken"} => runs[k] = 0
  /\ future[k] \in {"value", "error"} => runs[k] = 1
  /\ future[k] = "dropped" => runs[k] <= 1

TasksOK == OnePlace /\ \A k \in Tasks : TaskOK(k)

\* The tasks are submitted in the order of their numbers.
InOrder == \E n \in 0..MaxTasks : Submitted = 1..n

\* What the owner knows where it is.
OwnerOK ==
  /\ owner = "construct" => Submitted = {} /\ i = 1 /\ result = InitialValue
  /\ owner = "end" =>
       work_queue = <<>> /\ \A w \in PoolWorkers : worker[w] \in {"unborn", "exit"}
  /\ client = "anybody" => InOrder /\ length = 0 /\ result = InitialValue
  /\ client = "parallel_accumulate" =>
       /\ owner = "submit" => /\ length # 0 /\ i <= blocks
                              /\ Submitted = 1..(i - 1) /\ result = InitialValue
       /\ owner = "get" => /\ length # 0 /\ i <= blocks
                           /\ result = SumUpTo(block_start(length, hardware_threads, i))

PoolsInv == TypeOK /\ WorkersOK /\ TasksOK /\ OwnerOK /\ SumIsExact

-----------------------------------------------------------------------------
(* The pool's steps.                                                       *)

\* The workers are as many as hardware_concurrency returned.
LEMMA WorkersAreNumbered ==
  ASSUME NEW W \in Nat, PoolWorkers = 1..W PROVE hardware_threads = W
BY FS_Interval, W >= 0 DEF hardware_threads

\* What a step does to the pool, whoever takes it.
PoolStep ==
  \/ StartWorker
  \/ SetDone
  \/ \E k \in Tasks : future[k] = "none" /\ Submit(k)
  \/ Destroyed
  \/ \E w \in PoolWorkers :
       LoopTest(w) \/ TakeTask(w) \/ NoTaskFound(w) \/ EscapingException(w)
  \/ \E w \in PoolWorkers, o \in {"value", "error"} : FinishTask(w, o)
  \/ UNCHANGED poolVars

\* The task an owner submits has not been submitted before.
LEMMA AnybodySubmits ==
  ASSUME PoolsInv, ByAnybody(SubmitTask)
  PROVE  \E n \in 0..MaxTasks : /\ Submitted = 1..n /\ n + 1 \in Tasks
                               /\ future[n + 1] = "none" /\ Submit(n + 1)
<1>1. MaxTasks \in Nat
  BY MaxTasksAssumption
<1>2. PICK n \in 0..MaxTasks : Submitted = 1..n
  BY DEF PoolsInv, OwnerOK, InOrder, ByAnybody
<1>3. n \in Nat /\ Cardinality(Submitted) = n
  BY <1>1, <1>2, FS_Interval
<1>4. n + 1 \in Tasks /\ n + 1 \notin Submitted
  BY <1>1, <1>2, <1>3 DEF ByAnybody, SubmitTask, Tasks
<1>5. QED
  BY <1>2, <1>3, <1>4 DEF ByAnybody, SubmitTask, Submitted

\* Nor has the block that parallel_accumulate submits.
LEMMA AccumulateSubmits ==
  ASSUME PoolsInv, ByAccumulate(SubmitBlock)
  PROVE  i \in Tasks /\ future[i] = "none" /\ Submit(i)
<1>1. MaxTasks \in Nat
  BY MaxTasksAssumption
<1>2. /\ client = "parallel_accumulate" /\ owner = "submit"
      /\ i <= blocks - 1 /\ Submit(i)
  BY DEF ByAccumulate, SubmitBlock
<1>3. i \in Nat \ {0} /\ Submitted = 1..(i - 1)
  BY <1>2 DEF PoolsInv, TypeOK, OwnerOK
<1>4. PICK W \in Hardware : PoolWorkers = 1..W
  BY DEF PoolsInv, TypeOK, PoolTypes
<1>5. hardware_threads = W
  BY <1>4, WorkersAreNumbered, HardwareAssumption
<1>6. blocks - 1 <= MaxTasks
  BY <1>4, <1>5, TasksAssumption DEF PoolsInv, TypeOK, blocks
<1>7. blocks \in Int
  BY <1>4, <1>5, HardwareAssumption, LengthsAssumption, MinPerThreadAssumption
  DEF PoolsInv, TypeOK, blocks, num_threads, max_threads, Planned
<1>8. i \in Tasks /\ i \notin Submitted
  BY <1>1, <1>2, <1>3, <1>6, <1>7 DEF Tasks
<1>9. QED
  BY <1>2, <1>8 DEF Submitted

\* Every step is one of the pool's steps.
LEMMA NextIsPoolStep ==
  PoolsInv /\ [Next]_vars =>
    PoolStep /\ UNCHANGED <<packaged, client, length>>
<1> SUFFICES ASSUME PoolsInv, [Next]_vars
             PROVE  PoolStep /\ UNCHANGED <<packaged, client, length>>
  OBVIOUS
<1> USE DEF ByAnybody, ByAccumulate, PoolStep, accumulateVars
<1>1. CASE ByAnybody(SubmitTask) \/ ByAccumulate(SubmitBlock)
  <2>1. \E k \in Tasks : future[k] = "none" /\ Submit(k)
    BY <1>1, AnybodySubmits, AccumulateSubmits
  <2>2. QED
    BY <1>1, <2>1 DEF SubmitTask, SubmitBlock
<1>2. CASE ByAnybody(OwnerStep)
  BY <1>2 DEF OwnerStep, Constructed, GetReturns, Construct
<1>3. CASE ByAccumulate(AccumulateStep)
  BY <1>1, <1>3 DEF AccumulateStep, Begin, SubmitThrows, SumLast, GetBlock, GotAll,
     Return, Construct
<1>4. CASE ByAnybody(OwnerChoice)
  BY <1>1, <1>4 DEF OwnerChoice, ConstructFails, Destroy, Get
<1>5. ASSUME NEW w \in PoolWorkers, WorkerStep(w)
      PROVE  PoolStep /\ UNCHANGED <<packaged, client, length>>
  BY <1>5 DEF WorkerStep, WorkerLoop, TaskEnds
<1>6. CASE UNCHANGED vars
  BY <1>6 DEF vars
<1>7. QED
  BY <1>2, <1>3, <1>4, <1>5, <1>6 DEF Next, ClientStep

\* No step changes how many workers the pool wants.
LEMMA StepKeepsWorkers ==
  ASSUME PoolTypes, PoolStep PROVE PoolWorkers' = PoolWorkers
BY DEF PoolTypes, PoolStep, PoolWorkers, StartWorker, SetDone, Submit, Destroyed,
   LoopTest, TakeTask, NoTaskFound, EscapingException, FinishTask, poolVars

\* The pool's variables keep their types.
LEMMA StepTypes ==
  ASSUME PoolTypes, PoolStep, packaged' = packaged PROVE PoolTypes'
<1>1. PoolWorkers' = PoolWorkers /\ hardware_threads' = hardware_threads
  BY StepKeepsWorkers DEF hardware_threads
<1>2. hardware_threads \in Nat /\ PoolWorkers = 1..hardware_threads
  BY WorkersAreNumbered, HardwareAssumption DEF PoolTypes
<1> USE <1>1, <1>2 DEF PoolTypes, poolVars
<1>3. CASE StartWorker
  <2>1. threads' \in 0..hardware_threads
    BY <1>3 DEF StartWorker
  <2>2. worker' = [worker EXCEPT ![threads + 1] = "loop"] /\ "loop" \in Places
    BY <1>3 DEF StartWorker, Places
  <2>3. worker' \in [PoolWorkers -> Places]
    BY <2>2
  <2>4. QED
    BY <1>3, <2>1, <2>3 DEF StartWorker
<1>4. CASE SetDone
  BY <1>4 DEF SetDone
<1>5. ASSUME NEW k \in Tasks, Submit(k) PROVE PoolTypes'
  <2>1. work_queue' \in Seq(Tasks)
    BY <1>5, AppendProperties DEF Submit
  <2>2. QED
    BY <1>5, <2>1 DEF Submit, FutureStates
<1>6. CASE Destroyed
  <2>1. \A k \in Tasks : Abandon(k) \in FutureStates
    BY DEF Abandon, FutureStates
  <2>2. work_queue' \in Seq(Tasks)
    BY <1>6, EmptySeq DEF Destroyed
  <2>3. QED
    BY <1>6, <2>1, <2>2 DEF Destroyed
<1>7. ASSUME NEW w \in PoolWorkers, LoopTest(w) \/ NoTaskFound(w) \/ EscapingException(w)
      PROVE  PoolTypes'
  BY <1>7 DEF LoopTest, NoTaskFound, EscapingException, Places
<1>8. ASSUME NEW w \in PoolWorkers, TakeTask(w) PROVE PoolTypes'
  <2>1. Head(work_queue) \in Tasks /\ Rest \in Seq(Tasks)
    BY <1>8, HeadTailProperties DEF TakeTask, Rest
  <2>2. runs[Head(work_queue)] + 1 \in Nat
    BY <2>1
  <2>3. QED
    BY <1>8, <2>1, <2>2 DEF TakeTask, Places
<1>9. ASSUME NEW w \in PoolWorkers, NEW o \in {"value", "error"}, FinishTask(w, o)
      PROVE  PoolTypes'
  BY <1>9 DEF FinishTask, Places, FutureStates
<1>10. QED
  BY <1>3, <1>4, <1>5, <1>6, <1>7, <1>8, <1>9 DEF PoolStep

\* A worker has a task exactly while it runs one.
LEMMA StepWorkers ==
  ASSUME PoolTypes, WorkersOK, PoolStep PROVE WorkersOK'
<1>1. PoolWorkers' = PoolWorkers
  BY StepKeepsWorkers
<1>2. hardware_threads \in Nat /\ PoolWorkers = 1..hardware_threads
  BY WorkersAreNumbered, HardwareAssumption DEF PoolTypes
<1> USE <1>1, <1>2 DEF PoolTypes, poolVars, WorkersOK
<1>3. CASE StartWorker
  BY <1>3 DEF StartWorker
<1>4. CASE SetDone \/ Destroyed \/ \E k \in Tasks : Submit(k)
  BY <1>4 DEF SetDone, Destroyed, Submit
<1>5. ASSUME NEW w \in PoolWorkers, LoopTest(w) \/ NoTaskFound(w) \/ EscapingException(w)
      PROVE  WorkersOK'
  BY <1>5 DEF LoopTest, NoTaskFound, EscapingException
<1>6. ASSUME NEW w \in PoolWorkers, TakeTask(w) PROVE WorkersOK'
  <2>1. Head(work_queue) # NoTask
    BY <1>6, HeadTailProperties, MaxTasksAssumption DEF TakeTask, Tasks, NoTask
  <2>2. QED
    BY <1>6, <2>1 DEF TakeTask
<1>7. ASSUME NEW w \in PoolWorkers, NEW o \in {"value", "error"}, FinishTask(w, o)
      PROVE  WorkersOK'
  BY <1>7 DEF FinishTask
<1>8. QED
  BY <1>3, <1>4, <1>5, <1>6, <1>7 DEF PoolStep

\* No task gets into the queue, or to a worker, twice.
LEMMA StepOnePlace ==
  ASSUME PoolTypes, WorkersOK, TasksOK, PoolStep PROVE OnePlace'
<1>1. PoolWorkers' = PoolWorkers
  BY StepKeepsWorkers
<1> DEFINE q == work_queue
           n == Len(work_queue)
<1>2. n \in Nat /\ \A a \in 1..n : q[a] \in Tasks
  BY LenProperties, ElementOfSeq DEF PoolTypes
<1>3. \A k \in Tasks : k # NoTask
  BY MaxTasksAssumption DEF Tasks, NoTask
<1>4. CASE UNCHANGED <<work_queue, running>>
  BY <1>1, <1>4 DEF TasksOK, OnePlace
<1>5. ASSUME NEW k \in Tasks, future[k] = "none", Submit(k) PROVE OnePlace'
  <2>1. ~ Queued(k)
    BY <1>5 DEF TasksOK, TaskOK
  <2>2. /\ Len(work_queue') = n + 1 /\ work_queue'[n + 1] = k
        /\ \A a \in 1..n : work_queue'[a] = q[a]
    BY <1>5, AppendProperties DEF PoolTypes, Submit
  <2>3. running' = running
    BY <1>5 DEF Submit
  <2> HIDE DEF n
  <2>4. QED
    BY <1>1, <1>2, <2>1, <2>2, <2>3 DEF TasksOK, OnePlace, Queued, n
<1>6. CASE Destroyed
  <2>1. Len(work_queue') = 0 /\ running' = running
    BY <1>6, EmptySeq DEF Destroyed
  <2>2. QED
    BY <1>1, <2>1 DEF TasksOK, OnePlace
<1>7. ASSUME NEW w \in PoolWorkers, TakeTask(w) PROVE OnePlace'
  <2> DEFINE k == Head(work_queue)
  <2>1. k \in Tasks /\ q # <<>> /\ n \in Nat \ {0} /\ k = q[1]
    BY <1>7, HeadTailProperties, EmptySeq DEF PoolTypes, TakeTask
  <2>2. Len(work_queue') = n - 1 /\ \A a \in 1..(n - 1) : work_queue'[a] = q[a + 1]
    BY <1>7, HeadTailProperties DEF PoolTypes, TakeTask, Rest
  <2>3. ~ Run(k)
    <3>1. Queued(k)
      BY <2>1 DEF Queued
    <3>2. runs[k] = 0
      BY <2>1, <3>1 DEF TasksOK, TaskOK
    <3>3. QED
      BY <2>1, <3>2 DEF TasksOK, TaskOK
  <2>4. running' = [running EXCEPT ![w] = k]
    BY <1>7 DEF TakeTask
  <2> HIDE DEF n, q, k
  <2>5. \A a, b \in 1..Len(work_queue') : work_queue'[a] = work_queue'[b] => a = b
    BY <2>1, <2>2 DEF TasksOK, OnePlace, q, n
  <2>6. \A u, v \in PoolWorkers :
          running'[u] # NoTask /\ running'[u] = running'[v] => u = v
    BY <2>3, <2>4 DEF TasksOK, OnePlace, PoolTypes, Run
  <2>7. QED
    BY <1>1, <2>5, <2>6 DEF OnePlace
<1>8. ASSUME NEW w \in PoolWorkers, NEW o \in {"value", "error"}, FinishTask(w, o)
      PROVE  OnePlace'
  BY <1>1, <1>8 DEF TasksOK, OnePlace, PoolTypes, FinishTask
<1>9. QED
  BY <1>4, <1>5, <1>6, <1>7, <1>8 DEF PoolStep, StartWorker, SetDone, LoopTest,
     NoTaskFound, EscapingException, poolVars

\* Every task stays what it is or takes the next step of its life.
LEMMA StepTasks ==
  ASSUME PoolTypes, WorkersOK, TasksOK, PoolStep, packaged' = packaged PROVE TasksOK'
<1>1. PoolWorkers' = PoolWorkers
  BY StepKeepsWorkers
<1> DEFINE q == work_queue
           n == Len(work_queue)
<1>2. n \in Nat /\ \A a \in 1..n : q[a] \in Tasks
  BY LenProperties, ElementOfSeq DEF PoolTypes
<1>3. \A k \in Tasks : k # NoTask
  BY MaxTasksAssumption DEF Tasks, NoTask
<1> SUFFICES ASSUME NEW k \in Tasks PROVE TaskOK(k)'
  BY StepOnePlace DEF TasksOK
<1>4. TaskOK(k)
  BY DEF TasksOK
<1>5. CASE UNCHANGED <<work_queue, running, future, runs>>
  BY <1>1, <1>4, <1>5 DEF TaskOK, Queued, Run
<1>6. ASSUME NEW j \in Tasks, future[j] = "none", Submit(j) PROVE TaskOK(k)'
  <2>1. /\ Len(work_queue') = n + 1 /\ work_queue'[n + 1] = j
        /\ \A a \in 1..n : work_queue'[a] = q[a]
    BY <1>6, AppendProperties DEF PoolTypes, Submit
  <2>2. Queued(k)' <=> Queued(k) \/ k = j
    <3> HIDE DEF n
    <3>1. QED
      BY <1>2, <2>1 DEF Queued, n
  <2>3. Run(k)' <=> Run(k)
    BY <1>1, <1>6 DEF Submit, Run
  <2>4. future' = [future EXCEPT ![j] = "pending"] /\ runs' = runs
    BY <1>6 DEF Submit
  <2>5. ~ Queued(j) /\ ~ Run(j) /\ runs[j] = 0
    BY <1>6 DEF TasksOK, TaskOK
  <2>6. CASE k = j
    BY <2>2, <2>3, <2>4, <2>5, <2>6 DEF TaskOK, PoolTypes
  <2>7. CASE k # j
    BY <1>4, <2>2, <2>3, <2>4, <2>7 DEF TaskOK, PoolTypes
  <2>8. QED
    BY <2>6, <2>7
<1>7. CASE Destroyed
  <2>1. ~ Queued(k)' /\ (Run(k)' <=> Run(k)) /\ runs' = runs
    BY <1>1, <1>7, EmptySeq DEF Destroyed, Queued, Run
  <2>2. future'[k] = IF Queued(k) THEN Abandon(k) ELSE future[k]
    BY <1>2, <1>7, LenProperties DEF Destroyed, Queued, PoolTypes
  <2>3. QED
    BY <1>4, <2>1, <2>2 DEF TaskOK, Abandon, PoolTypes
<1>8. ASSUME NEW w \in PoolWorkers, TakeTask(w) PROVE TaskOK(k)'
  <2> DEFINE j == Head(work_queue)
  <2>1. j \in Tasks /\ q # <<>> /\ n \in Nat \ {0} /\ j = q[1]
    BY <1>8, HeadTailProperties, EmptySeq DEF PoolTypes, TakeTask
  <2>2. Len(work_queue') = n - 1 /\ \A a \in 1..(n - 1) : work_queue'[a] = q[a + 1]
    BY <1>8, HeadTailProperties DEF PoolTypes, TakeTask, Rest
  <2>3. Queued(j) /\ runs[j] = 0 /\ future[j] = "pending"
    BY <2>1 DEF TasksOK, TaskOK, Queued
  <2>4. running' = [running EXCEPT ![w] = j] /\ runs' = [runs EXCEPT ![j] = @ + 1]
        /\ future' = future
    BY <1>8 DEF TakeTask
  <2>5. running[w] = NoTask
    BY <1>8 DEF TakeTask, WorkersOK
  <2> HIDE DEF n, q, j
  <2>6. CASE k = j
    <3>1. ~ Queued(k)'
      BY <2>1, <2>2, <2>6 DEF Queued, TasksOK, OnePlace, q, n
    <3>2. Run(k)'
      BY <1>1, <2>4, <2>6 DEF Run, PoolTypes
    <3>3. runs'[k] = 1 /\ future'[k] = "pending"
      BY <2>1, <2>3, <2>4, <2>6 DEF PoolTypes
    <3>4. QED
      BY <3>1, <3>2, <3>3 DEF TaskOK
  <2>7. CASE k # j
    <3>1. Queued(k)' <=> Queued(k)
      <4>1. Queued(k)' => Queued(k)
        BY <2>1, <2>2 DEF Queued, q, n
      <4>2. ASSUME NEW a \in 1..n, q[a] = k PROVE Queued(k)'
        <5>1. a - 1 \in 1..(n - 1)
          BY <2>1, <2>7, <4>2
        <5>2. work_queue'[a - 1] = k
          BY <2>1, <2>2, <4>2, <5>1
        <5>3. QED
          BY <2>2, <5>1, <5>2 DEF Queued
      <4>3. QED
        BY <4>1, <4>2 DEF Queued, q, n
    <3>2. Run(k)' <=> Run(k)
      BY <1>1, <1>3, <2>4, <2>5, <2>7 DEF Run, PoolTypes
    <3>3. runs'[k] = runs[k] /\ future'[k] = future[k]
      BY <2>4, <2>7 DEF PoolTypes
    <3>4. QED
      BY <1>4, <3>1, <3>2, <3>3 DEF TaskOK
  <2>8. QED
    BY <2>6, <2>7
<1>9. ASSUME NEW w \in PoolWorkers, NEW o \in {"value", "error"}, FinishTask(w, o)
      PROVE  TaskOK(k)'
  <2> DEFINE j == running[w]
  <2>1. j # NoTask /\ j \in Tasks /\ Run(j)
    BY <1>9 DEF FinishTask, WorkersOK, PoolTypes, Run
  <2>2. ~ Queued(j) /\ runs[j] = 1
    BY <2>1 DEF TasksOK, TaskOK
  <2>3. /\ work_queue' = work_queue /\ runs' = runs
        /\ running' = [running EXCEPT ![w] = NoTask]
        /\ future' = [future EXCEPT ![j] = IF packaged THEN o ELSE "dropped"]
    BY <1>9 DEF FinishTask
  <2>4. Queued(k)' <=> Queued(k)
    BY <2>3 DEF Queued
  <2>5. CASE k = j
    <3>1. ~ Run(k)'
      BY <1>1, <1>3, <2>1, <2>3, <2>5 DEF Run, TasksOK, OnePlace, PoolTypes
    <3>2. future'[k] \in {"value", "error", "dropped"}
      BY <2>1, <2>3, <2>5 DEF PoolTypes
    <3>3. QED
      BY <2>2, <2>3, <2>4, <2>5, <3>1, <3>2 DEF TaskOK
  <2>6. CASE k # j
    <3>1. Run(k)' <=> Run(k)
      BY <1>1, <1>3, <2>3, <2>6 DEF Run, PoolTypes
    <3>2. future'[k] = future[k]
      BY <2>3, <2>6 DEF PoolTypes
    <3>3. QED
      BY <1>4, <2>3, <2>4, <3>1, <3>2 DEF TaskOK
  <2>7. QED
    BY <2>5, <2>6
<1>10. QED
  BY <1>5, <1>6, <1>7, <1>8, <1>9 DEF PoolStep, StartWorker, SetDone, LoopTest,
     NoTaskFound, EscapingException, poolVars

\* Only a call of submit submits a task.
LEMMA SubmittedStays ==
  ASSUME TypeOK, WorkersOK, TasksOK,
         \/ UNCHANGED future \/ Destroyed
         \/ \E w \in PoolWorkers, o \in {"value", "error"} : FinishTask(w, o)
  PROVE  Submitted' = Submitted
<1> SUFFICES ASSUME NEW k \in Tasks PROVE future'[k] = "none" <=> future[k] = "none"
  BY DEF Submitted
<1> USE DEF TypeOK, PoolTypes
<1>1. CASE UNCHANGED future
  BY <1>1
<1>2. CASE Destroyed
  <2>1. future'[k] = IF \E a \in DOMAIN work_queue : work_queue[a] = k
                     THEN Abandon(k) ELSE future[k]
    BY <1>2 DEF Destroyed
  <2>2. ASSUME NEW a \in DOMAIN work_queue, work_queue[a] = k
        PROVE  future[k] = "pending"
    BY <2>2, LenProperties DEF TasksOK, TaskOK, Queued
  <2>3. QED
    BY <2>1, <2>2 DEF Abandon
<1>3. ASSUME NEW w \in PoolWorkers, NEW o \in {"value", "error"}, FinishTask(w, o)
      PROVE  future'[k] = "none" <=> future[k] = "none"
  <2>1. running[w] \in Tasks /\ future[running[w]] = "pending"
    BY <1>3 DEF FinishTask, WorkersOK, TasksOK, TaskOK, Run
  <2>2. QED
    BY <1>3, <2>1 DEF FinishTask
<1>4. QED
  BY <1>1, <1>2, <1>3

\* A task that is submitted is known from then on.
LEMMA SubmitAdds ==
  ASSUME TypeOK, NEW k \in Tasks, Submit(k) PROVE Submitted' = Submitted \cup {k}
BY DEF TypeOK, PoolTypes, Submit, Submitted

-----------------------------------------------------------------------------
(* The sum.                                                                *)

\* The blocks follow one another, from the start of the range to its end.
LEMMA BlocksMeet ==
  ASSUME NEW len \in Nat \ {0}, NEW hw \in Nat
  PROVE  LET n == num_threads(len, hw)
         IN  /\ n \in Nat \ {0}
             /\ block_start(len, hw, 1) = 0 /\ block_end(len, hw, n) = len
             /\ \A k \in 1..n : /\ block_start(len, hw, k) \in Nat
                               /\ block_end(len, hw, k) \in Nat
             /\ \A k \in 1..(n - 1) : block_start(len, hw, k + 1) = block_end(len, hw, k)
<1> DEFINE n == num_threads(len, hw)
           b == block_size(len, hw)
<1>1. max_threads(len) \in Nat \ {0}
  <2>1. len + MinPerThread - 1 >= MinPerThread
    BY MinPerThreadAssumption
  <2>2. QED
    BY <2>1, MinPerThreadAssumption DEF max_threads
<1>2. n \in Nat \ {0}
  BY <1>1 DEF num_threads, Planned
<1>3. b \in Nat
  BY <1>2 DEF block_size
<1>4. ASSUME NEW k \in Nat PROVE k * b \in Nat
  BY <1>3
<1>5. block_start(len, hw, 1) = 0 /\ block_end(len, hw, n) = len
  BY <1>3 DEF block_start, block_end
<1>6. ASSUME NEW k \in 1..n
      PROVE  block_start(len, hw, k) \in Nat /\ block_end(len, hw, k) \in Nat
  <2>1. k \in Nat /\ k - 1 \in Nat
    BY <1>2
  <2>2. QED
    BY <1>4, <2>1 DEF block_start, block_end
<1>7. ASSUME NEW k \in 1..(n - 1)
      PROVE  block_start(len, hw, k + 1) = block_end(len, hw, k)
  <2>1. k # n /\ (k + 1) - 1 = k
    BY <1>2
  <2>2. QED
    BY <2>1 DEF block_start, block_end
<1>8. QED
  BY <1>2, <1>5, <1>6, <1>7

\* Every partial sum is an integer.
LEMMA SumsAreIntegers == \A n \in Nat : SumUpTo(n) \in Int
BY DEF SumUpTo

\* What a step of parallel_accumulate may count on.
LEMMA AccumulateSetting ==
  ASSUME TypeOK
  PROVE  /\ hardware_threads \in Nat /\ length \in Nat
         /\ length # 0 =>
              /\ blocks \in Nat \ {0}
              /\ block_start(length, hardware_threads, 1) = 0
              /\ SumUpTo(0) = 0
              /\ \A k \in 1..blocks :
                   /\ SumUpTo(block_start(length, hardware_threads, k)) \in Int
                   /\ SumUpTo(block_end(length, hardware_threads, k)) \in Int
              /\ \A k \in 1..(blocks - 1) :
                   SumUpTo(block_start(length, hardware_threads, k + 1)) =
                     SumUpTo(block_end(length, hardware_threads, k))
              /\ SumUpTo(block_end(length, hardware_threads, blocks)) = SumUpTo(length)
<1>1. hardware_threads \in Nat /\ length \in Nat
  BY WorkersAreNumbered, HardwareAssumption, LengthsAssumption DEF TypeOK, PoolTypes
<1>2. SumUpTo(0) = 0
  BY DEF SumUpTo
<1>3. QED
  BY <1>1, <1>2, BlocksMeet, SumsAreIntegers DEF blocks

-----------------------------------------------------------------------------
(* The owners.                                                             *)

\* The part of the invariant that a step of an owner may disturb.
OwnerInv == TypeOK /\ OwnerOK /\ SumIsExact

\* Steps of the owner that submits, waits and destroys as it likes.
LEMMA AnybodyKeeps ==
  ASSUME PoolsInv, PoolTypes', PoolWorkers' = PoolWorkers,
         ByAnybody(OwnerStep \/ OwnerChoice)
  PROVE  OwnerInv'
<1> USE DEF OwnerInv, PoolsInv, TypeOK, ByAnybody, Goto, Owners, accumulateVars
<1>1. /\ client = "anybody" /\ client' = client /\ UNCHANGED accumulateVars
      /\ length = 0 /\ result = InitialValue /\ InOrder
  BY DEF OwnerOK
<1>2. SumIsExact'
  BY <1>1 DEF SumIsExact, SumUpTo, InitialValue
<1>3. CASE SubmitTask
  <2>1. PICK n \in 0..MaxTasks : /\ Submitted = 1..n /\ n + 1 \in Tasks
                                 /\ Submit(n + 1)
    BY <1>1, <1>3, AnybodySubmits
  <2>2. Submitted' = Submitted \cup {n + 1}
    BY <2>1, SubmitAdds
  <2>3. n \in Nat /\ n + 1 \in 0..MaxTasks
    BY <2>1, MaxTasksAssumption DEF Tasks
  <2>4. Submitted' = 1..(n + 1)
    BY <2>1, <2>2, <2>3
  <2>5. InOrder'
    BY <2>3, <2>4 DEF InOrder
  <2>6. QED
    BY <1>1, <1>2, <1>3, <2>5 DEF SubmitTask, OwnerOK
<1>4. CASE Destroyed
  <2>1. Submitted' = Submitted
    BY <1>4, SubmittedStays
  <2>2. owner' = "end" /\ work_queue' = <<>> /\ worker' = worker
    BY <1>4 DEF Destroyed
  <2>3. \A w \in PoolWorkers : worker[w] \in {"unborn", "exit"}
    <3>1. hardware_threads \in Nat /\ PoolWorkers = 1..hardware_threads
          /\ threads \in Nat
      BY WorkersAreNumbered, HardwareAssumption DEF PoolTypes
    <3>2. QED
      BY <1>4, <3>1 DEF Destroyed, AllJoined, WorkersOK
  <2>4. QED
    BY <1>1, <1>2, <2>1, <2>2, <2>3 DEF OwnerOK, InOrder
<1>5. CASE Constructed \/ GetReturns \/ Construct \/ ConstructFails \/ Destroy
           \/ \E k \in Tasks : Get(k)
  <2>1. UNCHANGED future
    BY <1>5 DEF Constructed, GetReturns, Construct, StartWorker, ConstructFails,
       Destroy, SetDone, Get, poolVars
  <2>2. Submitted' = Submitted
    BY <2>1, SubmittedStays
  <2>3. owner' \in Owners \ {"end"} /\ (owner' = "construct" => owner = "construct")
    BY <1>5 DEF Constructed, GetReturns, Construct, ConstructFails, Destroy, Get
  <2>4. QED
    BY <1>1, <1>2, <2>2, <2>3 DEF OwnerOK, InOrder
<1>6. QED
  BY <1>3, <1>4, <1>5 DEF OwnerStep, OwnerChoice

\* Steps of parallel_accumulate.
LEMMA AccumulateKeeps ==
  ASSUME PoolsInv, PoolTypes', PoolWorkers' = PoolWorkers,
         ByAccumulate(AccumulateStep)
  PROVE  OwnerInv'
<1> USE DEF OwnerInv, PoolsInv, TypeOK, ByAccumulate, Goto, Owners
<1> DEFINE start(k) == SumUpTo(block_start(length, hardware_threads, k))
           end(k) == SumUpTo(block_end(length, hardware_threads, k))
<1>1. /\ client = "parallel_accumulate" /\ client' = client
      /\ hardware_threads' = hardware_threads
  BY DEF hardware_threads
<1>2. /\ length \in Nat
      /\ length # 0 =>
           /\ blocks \in Nat \ {0} /\ start(1) = 0 /\ end(blocks) = SumUpTo(length)
           /\ \A k \in 1..blocks : start(k) \in Int /\ end(k) \in Int
           /\ \A k \in 1..(blocks - 1) : start(k + 1) = end(k)
           /\ \A k \in 1..blocks : BlockSum(k) = end(k) - start(k)
  BY AccumulateSetting DEF BlockSum
<1>3. length' = length => blocks' = blocks
  BY <1>1 DEF blocks
<1> HIDE DEF start, end
<1>4. CASE Begin
  <2>1. UNCHANGED <<future, length, i, result, threw>> /\ owner = "construct"
        /\ owner' = IF length = 0 THEN "return" ELSE "submit"
    BY <1>4 DEF Begin, poolVars, accumulateVars
  <2>2. Submitted' = {} /\ i = 1 /\ result = InitialValue
    BY <2>1, SubmittedStays DEF OwnerOK
  <2>3. OwnerOK'
    BY <1>1, <1>2, <1>3, <2>1, <2>2 DEF OwnerOK
  <2>4. SumIsExact'
    <3>1. SumUpTo(0) = 0
      BY DEF SumUpTo
    <3>2. QED
      BY <2>1, <2>2, <3>1 DEF SumIsExact, InitialValue
  <2>5. QED
    BY <1>1, <2>1, <2>3, <2>4
<1>5. CASE SubmitBlock
  <2>1. /\ owner = "submit" /\ owner' = owner /\ i <= blocks - 1 /\ i' = i + 1
        /\ UNCHANGED <<length, result, threw>>
    BY <1>5 DEF SubmitBlock
  <2>2. length # 0 /\ Submitted = 1..(i - 1) /\ result = InitialValue /\ i \in Nat \ {0}
    BY <1>1, <2>1 DEF OwnerOK
  <2>3. Submitted' = 1..i
    <3>1. Submitted' = Submitted \cup {i}
      BY <1>1, <1>5, AccumulateSubmits, SubmitAdds
    <3>2. QED
      BY <2>2, <3>1
  <2>4. OwnerOK'
    BY <1>1, <1>2, <1>3, <2>1, <2>2, <2>3 DEF OwnerOK
  <2>5. QED
    BY <1>1, <2>1, <2>2, <2>4 DEF SumIsExact
<1>6. CASE SubmitThrows \/ Return
  <2>1. /\ owner \in {"submit", "return"} /\ owner' \in {"return", "join"}
        /\ UNCHANGED <<future, length, i, result>>
        /\ owner = "submit" => threw'
        /\ owner = "return" => threw' = threw
        /\ threw' \in BOOLEAN
    BY <1>6 DEF SubmitThrows, Return, SetDone, poolVars, accumulateVars
  <2>2. QED
    BY <1>1, <2>1 DEF OwnerOK, SumIsExact
<1>7. CASE SumLast
  <2>1. /\ owner = "submit" /\ owner' = "get" /\ i' = 1
        /\ UNCHANGED <<future, length, result, threw>>
    BY <1>7 DEF SumLast, poolVars
  <2>2. length # 0 /\ result = 0
    BY <1>1, <2>1 DEF OwnerOK, InitialValue
  <2>3. OwnerOK'
    BY <1>1, <1>2, <1>3, <2>1, <2>2 DEF OwnerOK, start
  <2>4. QED
    BY <1>1, <2>1, <2>3 DEF SumIsExact
<1>8. CASE GetBlock
  <2>1. /\ owner = "get" /\ owner' = owner /\ i <= blocks - 1 /\ i' = i + 1
        /\ result' = result + BlockSum(i) /\ UNCHANGED <<length, threw>>
    BY <1>8 DEF GetBlock
  <2>2. length # 0 /\ result = start(i) /\ i \in Nat \ {0}
    BY <1>1, <2>1 DEF OwnerOK, start
  <2>3. i \in 1..blocks /\ i \in 1..(blocks - 1)
    BY <1>2, <2>1, <2>2
  <2>4. result' = start(i + 1) /\ result' \in Int
    BY <1>2, <2>1, <2>2, <2>3
  <2>5. OwnerOK'
    BY <1>1, <1>2, <1>3, <2>1, <2>2, <2>3, <2>4 DEF OwnerOK, start
  <2>6. QED
    BY <1>1, <2>1, <2>2, <2>4, <2>5 DEF SumIsExact
<1>9. CASE GotAll
  <2>1. /\ owner = "get" /\ owner' = "return" /\ i > blocks - 1
        /\ result' = result + BlockSum(blocks) /\ UNCHANGED <<length, i, threw>>
    BY <1>9 DEF GotAll
  <2>2. length # 0 /\ i <= blocks /\ result = start(i) /\ i \in Nat \ {0}
    BY <1>1, <2>1 DEF OwnerOK, start
  <2>3. i = blocks /\ blocks \in 1..blocks
    BY <1>2, <2>1, <2>2
  <2>4. result' = SumUpTo(length) /\ result' \in Int
    BY <1>2, <2>1, <2>2, <2>3
  <2>5. SumIsExact'
    BY <2>1, <2>4 DEF SumIsExact, InitialValue
  <2>6. QED
    BY <1>1, <2>1, <2>4, <2>5 DEF OwnerOK
<1>10. CASE Construct /\ UNCHANGED accumulateVars
  <2>1. UNCHANGED <<future, owner, length, i, result, threw>> /\ owner = "construct"
    BY <1>10 DEF Construct, StartWorker, accumulateVars
  <2>2. Submitted' = Submitted
    BY <2>1, SubmittedStays
  <2>3. QED
    BY <1>1, <2>1, <2>2 DEF OwnerOK, SumIsExact
<1>11. CASE Destroyed /\ UNCHANGED accumulateVars
  <2>1. /\ owner = "join" /\ owner' = "end" /\ work_queue' = <<>> /\ worker' = worker
        /\ UNCHANGED <<length, i, result, threw>>
    BY <1>11 DEF Destroyed, accumulateVars
  <2>2. \A w \in PoolWorkers : worker[w] \in {"unborn", "exit"}
    <3>1. hardware_threads \in Nat /\ PoolWorkers = 1..hardware_threads
          /\ threads \in Nat
      BY WorkersAreNumbered, HardwareAssumption DEF PoolTypes
    <3>2. QED
      BY <1>11, <3>1 DEF Destroyed, AllJoined, WorkersOK
  <2>3. QED
    BY <1>1, <2>1, <2>2 DEF OwnerOK, SumIsExact
<1>12. QED
  BY <1>4, <1>5, <1>6, <1>7, <1>8, <1>9, <1>10, <1>11 DEF AccumulateStep

\* Steps of the workers.
LEMMA WorkersKeep ==
  ASSUME PoolsInv, PoolTypes', PoolWorkers' = PoolWorkers,
         NEW w \in PoolWorkers, WorkerStep(w)
  PROVE  OwnerInv'
<1> USE DEF OwnerInv, PoolsInv, TypeOK
<1>1. UNCHANGED <<owner, client, length, i, result, threw>>
  BY DEF WorkerStep, ByAnybody, ByAccumulate, accumulateVars
<1>2. hardware_threads' = hardware_threads /\ blocks' = blocks
  BY <1>1 DEF hardware_threads, blocks
<1>3. \/ UNCHANGED future
      \/ \E o \in {"value", "error"} : FinishTask(w, o)
  BY DEF WorkerStep, ByAnybody, ByAccumulate, WorkerLoop, TaskEnds, LoopTest, TakeTask,
     NoTaskFound, EscapingException
<1>4. Submitted' = Submitted
  BY <1>3, SubmittedStays
\* When the owner is done no worker can take a step.
<1>5. worker[w] \in {"loop", "pop", "run"}
  BY DEF WorkerStep, ByAnybody, ByAccumulate, WorkerLoop, TaskEnds, LoopTest, TakeTask,
     NoTaskFound, EscapingException, FinishTask
<1>6. owner # "end"
  BY <1>5 DEF OwnerOK
<1>7. OwnerOK'
  BY <1>1, <1>2, <1>4, <1>6 DEF OwnerOK, InOrder
<1>8. QED
  BY <1>1, <1>7 DEF SumIsExact

-----------------------------------------------------------------------------
(* The theorems.                                                           *)

\* A new pool is in order.
LEMMA InitPoolsInv == Init => PoolsInv
<1> SUFFICES ASSUME Init PROVE PoolsInv
  OBVIOUS
<1>1. PICK W \in Hardware : PoolInit(W)
  BY DEF Init
<1>2. W \in Nat /\ PoolWorkers = 1..W
  BY <1>1, HardwareAssumption DEF PoolInit, PoolWorkers
<1>3. hardware_threads = W
  BY <1>2, WorkersAreNumbered
<1>4. Len(work_queue) = 0 /\ work_queue \in Seq(Tasks)
  BY <1>1, EmptySeq DEF PoolInit
<1>5. TypeOK
  <2>1. /\ worker \in [PoolWorkers -> Places]
        /\ running \in [PoolWorkers -> Tasks \cup {NoTask}]
        /\ future \in [Tasks -> FutureStates] /\ runs \in [Tasks -> Nat]
    BY <1>1, <1>2 DEF PoolInit, Places, FutureStates
  <2>2. packaged \in BOOLEAN /\ done \in BOOLEAN /\ terminated \in BOOLEAN
        /\ threw \in BOOLEAN
    BY <1>1, Zenon DEF Init, PoolInit, AccumulateInit
  <2>3. threads \in 0..hardware_threads
    BY <1>1, <1>2, <1>3 DEF PoolInit
  <2>4. PoolTypes
    BY <1>2, <1>4, <2>1, <2>2, <2>3 DEF PoolTypes
  <2>5. /\ client \in {"anybody", "parallel_accumulate"} /\ owner \in Owners
        /\ length \in Lengths /\ i = 1 /\ result = 0
    BY <1>1, Zenon DEF Init, PoolInit, AccumulateInit, Owners, InitialValue
  <2>6. QED
    BY <2>2, <2>4, <2>5 DEF TypeOK
<1>6. WorkersOK
  BY <1>1, <1>2 DEF PoolInit, WorkersOK
<1>7. TasksOK
  BY <1>1, <1>2, <1>4, MaxTasksAssumption
  DEF PoolInit, TasksOK, OnePlace, TaskOK, Queued, Run, Tasks, NoTask
<1>8. Submitted = {} /\ InOrder
  BY <1>1, MaxTasksAssumption DEF PoolInit, Submitted, InOrder
<1>9. OwnerOK /\ SumIsExact
  BY <1>1, <1>8 DEF Init, PoolInit, AccumulateInit, OwnerOK, SumIsExact
<1>10. QED
  BY <1>5, <1>6, <1>7, <1>9 DEF PoolsInv

\* The invariant is inductive.
LEMMA NextPoolsInv == PoolsInv /\ [Next]_vars => PoolsInv'
<1> SUFFICES ASSUME PoolsInv, [Next]_vars PROVE PoolsInv'
  OBVIOUS
<1>1. PoolStep /\ packaged' = packaged
  BY NextIsPoolStep
<1>2. PoolTypes /\ WorkersOK /\ TasksOK
  BY DEF PoolsInv, TypeOK
<1>3. PoolTypes' /\ WorkersOK' /\ TasksOK' /\ PoolWorkers' = PoolWorkers
  BY <1>1, <1>2, StepTypes, StepWorkers, StepTasks, StepKeepsWorkers
<1>4. OwnerInv'
  <2>1. CASE ByAnybody(OwnerStep) \/ ByAnybody(OwnerChoice)
    BY <1>3, <2>1, AnybodyKeeps DEF ByAnybody
  <2>2. CASE ByAccumulate(AccumulateStep)
    BY <1>3, <2>2, AccumulateKeeps
  <2>3. ASSUME NEW w \in PoolWorkers, WorkerStep(w) PROVE OwnerInv'
    BY <1>3, <2>3, WorkersKeep
  <2>4. CASE UNCHANGED vars
    <3>1. /\ UNCHANGED <<owner, client, length, i, result, threw, work_queue, worker, future>>
          /\ hardware_threads' = hardware_threads /\ blocks' = blocks
          /\ Submitted' = Submitted
      BY <1>3, <2>4 DEF vars, poolVars, accumulateVars, hardware_threads, blocks, Submitted
    <3>2. QED
      BY <1>3, <3>1 DEF OwnerInv, PoolsInv, TypeOK, OwnerOK, InOrder, SumIsExact
  <2>5. QED
    BY <2>1, <2>2, <2>3, <2>4 DEF Next, ClientStep
<1>5. QED
  BY <1>3, <1>4 DEF OwnerInv, PoolsInv

\* It holds in every state of every behaviour.
LEMMA PoolsInvariant == Spec => []PoolsInv
BY InitPoolsInv, NextPoolsInv, PTL DEF Spec

\* No task runs twice, whatever the workers and the owner do; a future has a
\* value only from a task that has run, and a broken promise only from one that
\* has not.
THEOREM TasksRunOnce == Spec => []RunOnce
<1>1. PoolsInv => RunOnce
  BY DEF PoolsInv, TypeOK, PoolTypes, FutureStates, TasksOK, TaskOK, RunOnce
<1>2. QED
  BY <1>1, PoolsInvariant, PTL

\* When the destructor, or the failed constructor, has returned no worker is
\* left.
THEOREM WorkersGoneAtEnd == Spec => []QuietAtEnd
<1>1. PoolsInv => QuietAtEnd
  BY DEF PoolsInv, OwnerOK, QuietAtEnd
<1>2. QED
  BY <1>1, PoolsInvariant, PTL

\* No future of a pool that is gone is left pending.
THEOREM FuturesSettledAtEnd == Spec => []NoFutureForgotten
<1>1. PoolsInv => NoFutureForgotten
  <2> SUFFICES ASSUME PoolsInv, owner = "end", NEW k \in Tasks, future[k] = "pending"
               PROVE  FALSE
    BY DEF NoFutureForgotten
  <2>1. ~ Queued(k)
    BY EmptySeq DEF PoolsInv, OwnerOK, Queued
  <2>2. ~ Run(k)
    BY MaxTasksAssumption DEF PoolsInv, OwnerOK, WorkersOK, Run, Tasks, NoTask
  <2>3. QED
    BY <2>1, <2>2 DEF PoolsInv, TasksOK, TaskOK
<1>2. QED
  BY <1>1, PoolsInvariant, PTL

\* What parallel_accumulate returns is the sum of every element, each counted
\* once, for every range, every min_per_thread and every number of threads.
THEOREM SumAlwaysExact == Spec => []SumIsExact
<1>1. PoolsInv => SumIsExact
  BY DEF PoolsInv
<1>2. QED
  BY <1>1, PoolsInvariant, PTL
=============================================================================
