---------------------------- MODULE SmallPrograms ----------------------------
(***************************************************************************)
(* The small classes and programs of the repository: the semaphore, the    *)
(* stacks, the linked lists, the bank accounts, and the programs in which  *)
(* one thread signals another.  One of them is run.                        *)
(***************************************************************************)
EXTENDS Semaphore, SafeStacks, LinkedLists, BankTransfers, Signals

vars == <<frame, semVars, stackVars, listVars, bankVars, signalVars>>

Programs ==
  {"semaphore", "stack", "trivial_stack", "queue1", "queue2", "dead_locks",
   "unique_locks", "journey", "interruptible", "future", "shared_future"}

Init ==
  /\ program \in Programs
  /\ InitThreads /\ SemInit /\ StackInit /\ ListInit /\ BankInit /\ SignalInit

InSemaphore(A) ==
  program = "semaphore" /\ A /\ UNCHANGED <<stackVars, listVars, bankVars, signalVars>>
InStack(A) ==
  /\ program \in {"stack", "trivial_stack"} /\ A
  /\ UNCHANGED <<semVars, listVars, bankVars, signalVars>>
InList(A) ==
  /\ program \in {"queue1", "queue2"} /\ A
  /\ UNCHANGED <<semVars, stackVars, bankVars, signalVars>>
InAccounts(A) == InBank /\ A /\ UNCHANGED <<semVars, stackVars, listVars, signalVars>>
InSignal(programs, A) ==
  program \in programs /\ A /\ UNCHANGED <<semVars, stackVars, listVars, bankVars>>

\* What a thread does that is inside a call or a function.
Step(t) ==
  \/ InSemaphore(SemStep(t)) \/ InStack(StackStep(t)) \/ InList(ListStep(t))
  \/ InAccounts(BankStep(t)) \/ InSignal({"journey"}, JourneyStep(t))
  \/ InSignal({"interruptible"}, JThreadStep(t))
  \/ InSignal({"future", "shared_future"}, FutureStep(t))

Next ==
  \E t \in Threads :
    \/ Step(t)
    \/ InSemaphore(CallSemaphore(t) \/ SemSpurious(t))
    \/ InStack(CallStack(t)) \/ InList(CallList(t))
    \/ InSignal({"journey"}, PassengerSpurious(t))

Spec == Init /\ [][Next]_vars

\* Threads that can run are scheduled; nobody has to call anything.
FairSpec == Spec /\ \A t \in Threads : WF_vars(Step(t))
-----------------------------------------------------------------------------
(* Properties.                                                             *)

\* Whatever the threads do, everybody gets on: no acquirer sleeps beside a
\* permission, the calls of stacks and lists return, transfers stop only in a
\* circle that the order of their locks allows, no signal is in vain, and an
\* interrupted thread that asks does not go on.
EveryoneServed ==
  /\ <>[](/\ program = "semaphore" => AcquirersServed
          /\ program \in {"stack", "trivial_stack", "queue1", "queue2"} =>
               \A t \in Threads : pc[t] \in {"idle", "done"}
          /\ InBank => BankEnds
          /\ SignalsEnd)
  /\ WokenInTime
  /\ []Interrupted
=============================================================================
