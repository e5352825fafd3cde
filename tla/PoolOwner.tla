----------------------------- MODULE PoolOwner ------------------------------
(***************************************************************************)
(* Any owner of a pool: it may submit, wait for a future and destroy the   *)
(* pool whenever it likes, and a thread may fail to start while the pool   *)
(* is constructed.                                                         *)
(***************************************************************************)
EXTENDS ThreadPool

VARIABLE awaited     \* the task whose future the owner waits for

Submitted == {k \in Tasks : future[k] # "none"}

\* std::thread throws: the handler sets done and throws again, the members
\* are destroyed, the joiner first.
ConstructFails ==
  /\ owner = "construct" /\ threads < hardware_threads
  /\ SetDone
  /\ Goto("join")
  /\ UNCHANGED awaited

Constructed ==
  /\ owner = "construct" /\ threads = hardware_threads
  /\ Goto("ready")
  /\ UNCHANGED <<poolVars, awaited>>

SubmitTask ==
  /\ owner = "ready" /\ Submitted # Tasks
  /\ Submit(Cardinality(Submitted) + 1)
  /\ UNCHANGED <<owner, awaited>>

\* The owner calls get() on a future it was given.
Get(k) ==
  /\ owner = "ready" /\ packaged /\ k \in Submitted
  /\ Goto("get")
  /\ awaited' = k
  /\ UNCHANGED poolVars

\* get() returns the value or throws what the future holds.
GetReturns ==
  /\ owner = "get" /\ future[awaited] \in Settled
  /\ Goto("ready")
  /\ awaited' = NoTask
  /\ UNCHANGED poolVars

Destroy ==
  /\ owner = "ready"
  /\ SetDone
  /\ Goto("join")
  /\ UNCHANGED awaited

\* What the owner does although nothing obliges it to.
OwnerChoice == ConstructFails \/ SubmitTask \/ Destroy
               \/ \E k \in Tasks : Get(k)

\* What it does once it is in a call.
OwnerStep == \/ Constructed \/ GetReturns
             \/ (Construct \/ Destroyed) /\ UNCHANGED awaited

TaskEnds(w) == \/ \E o \in {"value", "error"} : FinishTask(w, o)
               \/ EscapingException(w)
=============================================================================
