-------------------------------- MODULE Pools --------------------------------
(***************************************************************************)
(* The simple thread pools and those who own one: anybody, or the function *)
(* parallel_accumulate, which creates a pool of packaged tasks, uses it    *)
(* and destroys it.                                                        *)
(***************************************************************************)
EXTENDS PoolOwner, PoolAccumulate

CONSTANT Hardware      \* hardware_concurrency returns one of these

ASSUME HardwareAssumption == Hardware \subseteq Nat

\* The bound leaves room for every call of parallel_accumulate.
ASSUME TasksAssumption ==
  \A len \in Lengths, hardware \in Hardware :
    num_threads(len, hardware) - 1 <= MaxTasks

VARIABLE client        \* who owns the pool

vars == <<poolVars, packaged, owner, awaited, accumulateVars, client>>

Init ==
  /\ \E hardware \in Hardware : PoolInit(hardware)
  /\ awaited = NoTask
  /\ AccumulateInit
  /\ packaged \in BOOLEAN
  /\ client \in {"anybody", "parallel_accumulate"}
  /\ client = "anybody" => length = 0
  /\ client = "parallel_accumulate" => packaged

ByAnybody(A) ==
  client = "anybody" /\ A /\ UNCHANGED <<packaged, accumulateVars, client>>

ByAccumulate(A) ==
  client = "parallel_accumulate" /\ A /\ UNCHANGED <<packaged, awaited, client>>

ClientStep == ByAnybody(OwnerStep) \/ ByAccumulate(AccumulateStep)

\* The blocks of parallel_accumulate are sums of integers: their tasks do not
\* throw.
WorkerStep(w) ==
  \/ ByAnybody(WorkerLoop(w) \/ TaskEnds(w)) /\ UNCHANGED <<owner, awaited>>
  \/ ByAccumulate(WorkerLoop(w) \/ FinishTask(w, "value"))
     /\ UNCHANGED <<owner, accumulateVars>>

Next ==
  /\ ~terminated
  /\ \/ ClientStep \/ ByAnybody(OwnerChoice)
     \/ \E w \in PoolWorkers : WorkerStep(w)

Spec == Init /\ [][Next]_vars

FairWorker(w) == ~terminated /\ w \in PoolWorkers /\ WorkerStep(w)

\* Threads that can run are scheduled, and tasks end.
FairSpec ==
  /\ Spec
  /\ WF_vars(~terminated /\ ClientStep)
  /\ \A w \in UNION {1..hardware : hardware \in Hardware} : WF_vars(FairWorker(w))
=============================================================================
