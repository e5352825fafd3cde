------------------------ MODULE SmallProgramsProofs ------------------------
(***************************************************************************)
(* What the semaphore, stacks, lists and bank accounts keep: proofs for    *)
(* every number of threads, calls, permissions and accounts.               *)
(***************************************************************************)
EXTENDS SmallPrograms, FiniteSetTheorems, SequenceTheorems, TLAPS

-----------------------------------------------------------------------------
(* The programs.                                                           *)

\* The steps of each kind of program.
SemMove(t) == SemStep(t) \/ CallSemaphore(t) \/ SemSpurious(t)
StackMove(t) == StackStep(t) \/ CallStack(t)
ListMove(t) == ListStep(t) \/ CallList(t)
SignalMove(t) ==
  \/ JourneyStep(t) \/ PassengerSpurious(t) \/ JThreadStep(t) \/ FutureStep(t)

\* A step belongs to the program that is run, and leaves alone what belongs to
\* the others.
LEMMA NextIsMove ==
  ASSUME [Next]_vars
  PROVE  \/ UNCHANGED vars
         \/ \E t \in Threads :
              \/ program = "semaphore" /\ SemMove(t) /\ UNCHANGED <<stackVars, bankVars>>
              \/ /\ program \in {"stack", "trivial_stack"} /\ StackMove(t)
                 /\ UNCHANGED <<semVars, bankVars>>
              \/ /\ program \in {"queue1", "queue2"} /\ ListMove(t)
                 /\ UNCHANGED <<semVars, stackVars, bankVars>>
              \/ InBank /\ BankStep(t) /\ UNCHANGED <<semVars, stackVars>>
              \/ /\ program \in {"journey", "interruptible", "future", "shared_future"}
                 /\ SignalMove(t) /\ UNCHANGED <<semVars, stackVars, bankVars>>
BY DEF Next, Step, InSemaphore, InStack, InList, InAccounts, InSignal, SemMove,
   StackMove, ListMove, SignalMove

\* No program turns into another.
LEMMA ProgramStays == [Next]_vars => program' = program
<1> USE DEF Move, Lock, Unlock, Call, Break, Sleep, NotifyOne, WakesUp, frame
<1>1. ASSUME NEW t \in Threads, SemMove(t) PROVE program' = program
  BY <1>1
  DEF SemMove, SemStep, CallSemaphore, SemSpurious, LockAcquire, CanTake, WaitForOne, Take,
      LeaveAcquire, LockRelease, Give, UnlockRelease, NotifyAcquirer
<1>2. ASSUME NEW t \in Threads, StackMove(t) PROVE program' = program
  BY <1>2
  DEF StackMove, StackStep, CallStack, LockPush, AppendItem, LeaveStack, LockPop, ThrowEmpty,
      ReadTop, DropTop, TestEmpty, LockTop, ReturnTop, CopyTop, LockDrop, PopTop
<1>3. ASSUME NEW t \in Threads, ListMove(t) PROVE program' = program
  BY <1>3
  DEF ListMove, ListStep, CallList, Enter, MakeNode, LinkBehind, EnterFirst, LinkFirst,
      AdvanceTail, EnterPop, FindNothing, TakeNode, DeleteNode
<1>4. ASSUME NEW t \in Threads, BankStep(t) PROVE program' = program
  BY <1>4 DEF BankStep, LockNext, LockBoth, ReadBalance, WriteBalance, LeaveBank
<1>5. ASSUME NEW t \in Threads, SignalMove(t) PROVE program' = program
  <2>1. JourneyStep(t) \/ PassengerSpurious(t) => program' = program
    BY DEF JourneyStep, DriveOn, Tell, LockJourney, Look, FallAsleep, PassengerSpurious,
       StopPolling
  <2>2. JThreadStep(t) => program' = program
    BY DEF JThreadStep, StartJThread, GetFlag, Interrupt, JoinJThread, SetAddress,
       InterruptPoint, LoopOver, EnterLoop, GoRound
  <2>3. FutureStep(t) => program' = program
    BY DEF FutureStep, SetValue, AskValid, CallGet, TakeValue
  <2>4. QED
    BY <1>5, <2>1, <2>2, <2>3 DEF SignalMove
<1>6. QED
  BY <1>1, <1>2, <1>3, <1>4, <1>5, NextIsMove DEF vars

-----------------------------------------------------------------------------
(* The semaphore.                                                          *)

SemPlaces == {"idle", "done", "asleep", "acquire", "test", "take", "leave",
              "release", "give", "unlock", "notify"}

\* No permission comes from anywhere but the constructor and release.
PermitsCounted ==
  /\ avail \in Nat /\ initial \in Nat /\ acquired \in Nat /\ released \in Nat
  /\ avail + acquired = initial + released

\* Between its test and avail-- an acquirer has the mutex, and the permission
\* it has seen is still there.
SemThreads ==
  /\ pc \in [Threads -> SemPlaces]
  /\ mut \in [Mutexes -> Threads \cup {Free}]
  /\ \A t \in Threads :
       /\ pc[t] \in {"test", "take", "leave", "give", "unlock"} <=> mut["m"] = t
       /\ pc[t] = "take" => avail > 0

SemInv == PermitsCounted /\ (program = "semaphore" => SemThreads)

LEMMA SemMoveKeeps ==
  ASSUME SemInv, program = "semaphore", NEW t \in Threads, SemMove(t)
  PROVE  PermitsCounted' /\ SemThreads'
<1> USE ThreadsAssumption
    DEF SemInv, PermitsCounted, SemThreads, SemPlaces, semVars, Move, Lock, Unlock, Call, Goto,
        Mutexes
<1>1. CASE CallSemaphore(t)
  BY <1>1 DEF CallSemaphore
<1>2. CASE LockAcquire(t)
  BY <1>2 DEF LockAcquire
<1>3. CASE CanTake(t)
  BY <1>3 DEF CanTake
<1>4. CASE WaitForOne(t)
  BY <1>4 DEF WaitForOne, Sleep
<1>5. CASE Take(t)
  BY <1>5 DEF Take
<1>6. CASE LeaveAcquire(t)
  BY <1>6 DEF LeaveAcquire
<1>7. CASE LockRelease(t)
  BY <1>7 DEF LockRelease
<1>8. CASE Give(t)
  BY <1>8 DEF Give
<1>9. CASE UnlockRelease(t)
  BY <1>9 DEF UnlockRelease
<1>10. CASE NotifyAcquirer(t)
  BY <1>10 DEF NotifyAcquirer, NotifyOne, Asleep
<1>11. CASE SemSpurious(t)
  BY <1>11 DEF SemSpurious, WakesUp
<1>12. QED
  BY <1>1, <1>2, <1>3, <1>4, <1>5, <1>6, <1>7, <1>8, <1>9, <1>10, <1>11
  DEF SemMove, SemStep

\* Never are more permissions acquired than there were and were released,
\* whoever overtakes the thread that release has woken.
THEOREM PermitsAlwaysKept == Spec => []PermitsKept
<1>1. Init => SemInv
  BY PermissionsAssumption, ThreadsAssumption
  DEF Init, InitThreads, SemInit, SemInv, PermitsCounted, SemThreads, SemPlaces, Mutexes
<1>2. SemInv /\ [Next]_vars => SemInv'
  <2> SUFFICES ASSUME SemInv, [Next]_vars PROVE SemInv'
    OBVIOUS
  <2>1. CASE UNCHANGED semVars /\ program # "semaphore"
    BY <2>1, ProgramStays DEF SemInv, PermitsCounted, semVars
  <2>2. CASE UNCHANGED vars
    BY <2>2 DEF SemInv, PermitsCounted, SemThreads, vars, frame, semVars
  <2>3. ASSUME NEW t \in Threads, program = "semaphore", SemMove(t) PROVE SemInv'
    BY <2>3, SemMoveKeeps DEF SemInv
  <2>4. QED
    BY <2>1, <2>2, <2>3, NextIsMove DEF InBank
<1>3. SemInv => PermitsKept
  BY DEF SemInv, PermitsCounted, PermitsKept
<1>4. QED
  BY <1>1, <1>2, <1>3, PTL DEF Spec
-----------------------------------------------------------------------------
(* The stacks.                                                             *)

StackPlaces == {"idle", "done", "push", "append", "leave", "pop", "top", "drop", "empty",
                "call_top", "copy", "call_pop", "pop_top"}

StackTypes ==
  /\ pc \in [Threads -> StackPlaces]
  /\ mut \in [Mutexes -> Threads \cup {Free}]
  /\ calls \in 0..MaxCalls
  /\ stk \in Seq(Nat) /\ left \in Seq(Nat)
  /\ item \in [Threads -> Nat]
  /\ consumers \subseteq Threads

\* What reads or writes the stack has the mutex; what pop is about to remove is
\* what it has read.
StackLocked ==
  \A t \in Threads :
    /\ pc[t] \in {"append", "leave", "top", "drop", "pop_top"} => mut["m"] = t
    /\ pc[t] = "drop" => stk # <<>> /\ item[t] = Last(stk)

\* Items are numbered by the calls that push them.
Pushing == {t \in Threads : pc[t] \in {"push", "append"}}
ItemsCounted == Len(stk) + Len(left) + Cardinality(Pushing) <= calls

\* A single consumer of the trivial stack finds what it has seen.
ConsumersOK ==
  program = "trivial_stack" =>
    /\ \A t \in Threads :
         /\ pc[t] \notin {"pop", "drop"}
         /\ pc[t] \in {"empty", "call_top", "top", "copy", "call_pop", "pop_top"} =>
              t \in consumers
         /\ consumers \subseteq {t} =>
              /\ pc[t] \in {"call_top", "top", "copy", "call_pop", "pop_top"} => stk # <<>>
              /\ pc[t] = "copy" => \E k \in 1..Len(stk) : item[t] = stk[k]
    /\ broken => \E t, u \in consumers : t # u

StackThreads == StackTypes /\ StackLocked /\ ItemsCounted /\ ConsumersOK

InStackProgram == program \in {"stack", "trivial_stack"}

StackInv == InStackProgram => StackThreads

\* How the number of pushes under way changes when a thread goes somewhere.
LEMMA PushesUnderWay ==
  ASSUME StackTypes, NEW t \in Threads, NEW l, Goto(t, l)
  PROVE  /\ Cardinality(Pushing) \in Nat
         /\ (pc[t] \in {"push", "append"} <=> l \in {"push", "append"}) =>
              Pushing' = Pushing
         /\ pc[t] \notin {"push", "append"} /\ l \in {"push", "append"} =>
              Cardinality(Pushing') = Cardinality(Pushing) + 1
         /\ pc[t] \in {"push", "append"} /\ l \notin {"push", "append"} =>
              Cardinality(Pushing') = Cardinality(Pushing) - 1
<1>1. IsFiniteSet(Pushing) /\ Cardinality(Pushing) \in Nat
  BY ThreadsAssumption, FS_Subset, FS_CardinalityType DEF Pushing
<1>2. \A u \in Threads : pc'[u] = IF u = t THEN l ELSE pc[u]
  BY DEF Goto, StackTypes
<1>3. Pushing' = IF l \in {"push", "append"} THEN Pushing \cup {t} ELSE Pushing \ {t}
  BY <1>2 DEF Pushing
<1>4. t \in Pushing <=> pc[t] \in {"push", "append"}
  BY DEF Pushing
<1>5. t \notin Pushing => Cardinality(Pushing \cup {t}) = Cardinality(Pushing) + 1
  BY <1>1, FS_AddElement
<1>6. t \in Pushing => Cardinality(Pushing \ {t}) = Cardinality(Pushing) - 1
  BY <1>1, FS_RemoveElement
<1>7. QED
  BY <1>1, <1>3, <1>4, <1>5, <1>6

\* A stack whose top is removed.
LEMMA FrontOfStack ==
  ASSUME NEW s \in Seq(Nat), s # <<>>
  PROVE  /\ Len(s) \in Nat \ {0} /\ Last(s) = s[Len(s)] /\ Last(s) \in Nat
         /\ Front(s) \in Seq(Nat) /\ Len(Front(s)) = Len(s) - 1
<1>1. Len(s) \in Nat \ {0}
  BY EmptySeq
<1>2. Last(s) = s[Len(s)] /\ Last(s) \in Nat
  BY <1>1, ElementOfSeq DEF Last
<1>3. Front(s) \in Seq(Nat) /\ Len(Front(s)) = Len(s) - 1
  <2> DEFINE m == Len(s) - 1
  <2>1. m \in Nat /\ \A i \in 1..m : s[i] \in Nat
    BY <1>1, ElementOfSeq
  <2>2. SubSeq(s, 1, m) \in Seq(Nat) /\ Len(SubSeq(s, 1, m)) = IF 1 <= m THEN m - 1 + 1 ELSE 0
    BY <2>1, SubSeqProperties
  <2> HIDE DEF m
  <2>3. Len(SubSeq(s, 1, m)) = m
    BY <2>1, <2>2, Z3
  <2>4. QED
    BY <2>2, <2>3 DEF Front, m
<1>4. QED
  BY <1>1, <1>2, <1>3

\* What is undefined ends the program.
LEMMA BreakKeepsStack ==
  ASSUME StackThreads, InStackProgram, NEW t \in Threads, Break(t),
         UNCHANGED <<stk, left, consumers>>, item' \in [Threads -> Nat],
         program = "trivial_stack" => \E u, w \in consumers : u # w
  PROVE  StackThreads'
<1>1. Pushing' = {} /\ Cardinality(Pushing') = 0
  BY FS_EmptySet DEF Break, Pushing
<1>2. Cardinality(Pushing) \in Nat
  BY ThreadsAssumption, FS_Subset, FS_CardinalityType DEF Pushing
<1>3. Len(stk) \in Nat /\ Len(left) \in Nat
  BY LenProperties DEF StackThreads, StackTypes
<1>4. StackTypes' /\ StackLocked'
  BY DEF StackThreads, StackTypes, StackLocked, StackPlaces, Break
<1>5. ItemsCounted'
  BY <1>1, <1>2, <1>3, BoundsAssumption DEF StackThreads, StackTypes, ItemsCounted, Break
<1>6. ConsumersOK'
  BY DEF StackThreads, StackTypes, ConsumersOK, Break
<1>7. QED
  BY <1>4, <1>5, <1>6 DEF StackThreads

\* Steps that leave the items alone.
LEMMA StackStepsAside ==
  ASSUME StackThreads, InStackProgram, NEW t \in Threads, UNCHANGED stackVars,
         \/ LockPush(t) \/ LeaveStack(t) \/ LockPop(t) \/ ThrowEmpty(t)
         \/ TestEmpty(t) \/ LockTop(t) \/ LockDrop(t)
  PROVE  StackThreads'
<1> USE DEF StackThreads, StackTypes, StackPlaces, Mutexes, Move, Lock, Unlock, Goto
<1>1. StackTypes' /\ UNCHANGED <<program, calls, broken>>
  <2>1. CASE LockPush(t) \/ LockPop(t) \/ LockTop(t) \/ LockDrop(t)
    <3>1. PICK l \in {"append", "top", "pop_top"} :
            /\ pc' = [pc EXCEPT ![t] = l] /\ mut' = [mut EXCEPT !["m"] = t]
            /\ UNCHANGED <<program, calls, broken>>
      BY <2>1 DEF LockPush, LockPop, LockTop, LockDrop
    <3>2. pc' \in [Threads -> StackPlaces]
      BY <3>1
    <3>3. mut' \in [Mutexes -> Threads \cup {Free}]
      BY <3>1
    <3>4. QED
      BY <3>1, <3>2, <3>3 DEF stackVars
  <2>2. CASE LeaveStack(t) \/ ThrowEmpty(t)
    BY <2>2 DEF LeaveStack, ThrowEmpty, stackVars
  <2>3. CASE TestEmpty(t)
    BY <2>3 DEF TestEmpty, stackVars
  <2>4. QED
    BY <2>1, <2>2, <2>3
<1>2. StackLocked'
  BY ThreadsAssumption
  DEF StackLocked, LockPush, LeaveStack, LockPop, ThrowEmpty, TestEmpty, LockTop, LockDrop,
      stackVars
<1>3. ItemsCounted'
  <2>1. Pushing' = Pushing
    BY DEF LockPush, LeaveStack, LockPop, ThrowEmpty, TestEmpty, LockTop, LockDrop, Pushing
  <2>2. QED
    BY <1>1, <2>1 DEF ItemsCounted, stackVars
<1>4. ConsumersOK'
  BY <1>1
  DEF ConsumersOK, LockPush, LeaveStack, LockPop, ThrowEmpty, TestEmpty, LockTop, LockDrop,
      stackVars
<1>5. QED
  BY <1>1, <1>2, <1>3, <1>4

\* The steps that read or change the items.
LEMMA StackStepsItems ==
  ASSUME StackThreads, InStackProgram, NEW t \in Threads,
         CallStack(t) \/ AppendItem(t) \/ ReadTop(t) \/ DropTop(t) \/ ReturnTop(t)
           \/ CopyTop(t) \/ PopTop(t)
  PROVE  StackThreads'
<1>0. StackTypes /\ StackLocked /\ ItemsCounted /\ ConsumersOK
  BY DEF StackThreads
<1>1. /\ Len(stk) \in Nat /\ Len(left) \in Nat /\ Cardinality(Pushing) \in Nat
      /\ calls \in Nat
  <2>1. Cardinality(Pushing) \in Nat
    BY ThreadsAssumption, FS_Subset, FS_CardinalityType DEF Pushing
  <2>2. QED
    BY <1>0, <2>1, LenProperties, BoundsAssumption DEF StackTypes
<1>2. CASE CallStack(t)
  <2>1. PICK l \in {"push", "pop", "empty"} :
          /\ pc[t] = "idle" /\ Goto(t, l) /\ calls < MaxCalls /\ calls' = calls + 1
          /\ UNCHANGED <<program, mut, broken, stk, item, left>>
          /\ consumers' = IF l = "empty" THEN consumers \cup {t} ELSE consumers
          /\ l = "pop" => program = "stack"
          /\ l = "empty" => program = "trivial_stack"
    BY <1>2 DEF CallStack, Call
  <2>2. StackTypes' /\ StackLocked'
    BY <1>0, <1>1, <2>1, BoundsAssumption DEF StackTypes, StackPlaces, StackLocked, Goto
  <2>3. ItemsCounted'
    BY <1>0, <1>1, <2>1, PushesUnderWay DEF ItemsCounted
  <2>4. ConsumersOK'
    <3>1. \A u \in Threads : pc'[u] = IF u = t THEN l ELSE pc[u]
      BY <1>0, <2>1 DEF Goto, StackTypes
    <3>2. consumers \subseteq consumers'
      BY <2>1
    <3>3. \A u \in Threads : consumers' \subseteq {u} => consumers \subseteq {u}
      BY <3>2
    <3>4. QED
      BY <1>0, <2>1, <3>1, <3>2, <3>3 DEF StackTypes, ConsumersOK, InStackProgram
  <2>5. QED
    BY <2>2, <2>3, <2>4 DEF StackThreads
<1>3. CASE AppendItem(t)
  <2>1. /\ pc[t] = "append" /\ Goto(t, "leave") /\ mut["m"] = t
        /\ stk' = Append(stk, Len(stk) + Len(left) + 1)
        /\ UNCHANGED <<program, mut, calls, broken, item, left, consumers>>
    BY <1>0, <1>3 DEF AppendItem, Move, StackLocked, StackTypes
  <2>2. /\ stk' \in Seq(Nat) /\ Len(stk') = Len(stk) + 1
        /\ \A k \in 1..Len(stk) : stk'[k] = stk[k]
    BY <1>0, <1>1, <2>1, AppendProperties DEF StackTypes
  <2>3. StackTypes'
    BY <1>0, <2>1, <2>2 DEF StackTypes, StackPlaces, Goto
  <2>4. StackLocked'
    BY <1>0, <2>1 DEF StackTypes, StackLocked, Goto
  <2>5. ItemsCounted'
    BY <1>0, <1>1, <2>1, <2>2, PushesUnderWay DEF ItemsCounted
  <2>6. ConsumersOK'
    <3>1. stk' # <<>>
      BY <1>1, <2>2, EmptySeq
    <3>2. \A u \in Threads : (\E k \in 1..Len(stk) : item[u] = stk[k]) =>
            \E k \in 1..Len(stk') : item[u] = stk'[k]
      BY <1>1, <2>2
    <3>3. QED
      BY <1>0, <2>1, <3>1, <3>2 DEF StackTypes, ConsumersOK, Goto
  <2>7. QED
    BY <2>3, <2>4, <2>5, <2>6 DEF StackThreads
<1>4. CASE ReadTop(t)
  <2>1. /\ pc[t] = "top" /\ Goto(t, "drop") /\ mut["m"] = t /\ program = "stack"
        /\ stk # <<>> /\ item' = [item EXCEPT ![t] = Last(stk)]
        /\ UNCHANGED <<program, mut, calls, broken, stk, left, consumers>>
    BY <1>0, <1>4 DEF ReadTop, Move, StackLocked, StackTypes
  <2>2. StackTypes'
    BY <1>0, <2>1, FrontOfStack DEF StackTypes, StackPlaces, Goto
  <2>3. StackLocked'
    BY <1>0, <2>1 DEF StackTypes, StackLocked, Goto
  <2>4. ItemsCounted'
    BY <1>0, <1>1, <2>1, PushesUnderWay DEF ItemsCounted
  <2>5. ConsumersOK'
    BY <1>0, <2>1 DEF ConsumersOK
  <2>6. QED
    BY <2>2, <2>3, <2>4, <2>5 DEF StackThreads
<1>5. CASE DropTop(t) \/ (PopTop(t) /\ stk # <<>>)
  <2>1. /\ pc[t] \in {"drop", "pop_top"} /\ Goto(t, "leave") /\ mut["m"] = t
        /\ stk # <<>> /\ stk' = Front(stk) /\ left' = Append(left, Last(stk))
        /\ item' \in [Threads -> Nat]
        /\ \A u \in Threads \ {t} : item'[u] = item[u]
        /\ UNCHANGED <<program, mut, calls, broken, consumers>>
    <3>1. CASE DropTop(t)
      BY <1>0, <3>1 DEF DropTop, Move, StackLocked, StackTypes
    <3>2. CASE PopTop(t) /\ stk # <<>>
      BY <1>0, <3>2 DEF PopTop, Move, StackLocked, StackTypes
    <3>3. QED
      BY <1>5, <3>1, <3>2
  <2>2. /\ stk' \in Seq(Nat) /\ Len(stk') = Len(stk) - 1
        /\ left' \in Seq(Nat) /\ Len(left') = Len(left) + 1
    BY <1>0, <2>1, FrontOfStack, AppendProperties DEF StackTypes
  <2>3. StackTypes'
    BY <1>0, <2>1, <2>2 DEF StackTypes, StackPlaces, Goto
  <2>4. StackLocked'
    BY <1>0, <2>1 DEF StackTypes, StackLocked, Goto
  <2>5. ItemsCounted'
    BY <1>0, <1>1, <2>1, <2>2, PushesUnderWay DEF ItemsCounted
  <2>6. ConsumersOK'
    <3>1. program = "trivial_stack" => t \in consumers
      BY <1>0, <2>1 DEF ConsumersOK
    <3>2. QED
      BY <1>0, <2>1, <3>1 DEF StackTypes, ConsumersOK, Goto
  <2>7. QED
    BY <2>3, <2>4, <2>5, <2>6 DEF StackThreads
<1>6. CASE ReturnTop(t) /\ stk # <<>>
  <2>1. /\ pc[t] = "top" /\ Goto(t, "copy") /\ program = "trivial_stack"
        /\ mut' \in [Mutexes -> Threads \cup {Free}]
        /\ \A u \in Threads \ {t} : mut["m"] = u => mut'["m"] = u
        /\ item' = [item EXCEPT ![t] = Last(stk)]
        /\ UNCHANGED <<program, calls, broken, stk, left, consumers>>
    BY <1>0, <1>6 DEF ReturnTop, Unlock, Mutexes, StackTypes
  <2>2. StackTypes'
    BY <1>0, <1>6, <2>1, FrontOfStack DEF StackTypes, StackPlaces, Goto
  <2>3. StackLocked'
    BY <1>0, <2>1 DEF StackTypes, StackLocked, Goto
  <2>4. ItemsCounted'
    BY <1>0, <1>1, <2>1, PushesUnderWay DEF ItemsCounted
  <2>5. ConsumersOK'
    <3>1. t \in consumers
      BY <1>0, <2>1 DEF ConsumersOK
    <3>2. \E k \in 1..Len(stk) : Last(stk) = stk[k]
      BY <1>0, <1>6, FrontOfStack DEF StackTypes
    <3>3. QED
      BY <1>0, <1>6, <2>1, <3>1, <3>2 DEF StackTypes, ConsumersOK, Goto
  <2>6. QED
    BY <2>2, <2>3, <2>4, <2>5 DEF StackThreads
<1>7. CASE CopyTop(t) /\ item[t] \in Range(stk)
  <2>1. /\ pc[t] = "copy" /\ Goto(t, "call_pop") /\ item' = [item EXCEPT ![t] = 0]
        /\ UNCHANGED <<program, mut, calls, broken, stk, left, consumers>>
    BY <1>7 DEF CopyTop, Move
  <2>2. StackTypes'
    BY <1>0, <2>1 DEF StackTypes, StackPlaces, Goto
  <2>3. StackLocked'
    BY <1>0, <2>1 DEF StackTypes, StackLocked, Goto
  <2>4. ItemsCounted'
    BY <1>0, <1>1, <2>1, PushesUnderWay DEF ItemsCounted
  <2>5. ConsumersOK'
    BY <1>0, <2>1 DEF StackTypes, ConsumersOK, Goto
  <2>6. QED
    BY <2>2, <2>3, <2>4, <2>5 DEF StackThreads
<1>8. CASE \/ (ReturnTop(t) \/ PopTop(t)) /\ stk = <<>>
           \/ CopyTop(t) /\ item[t] \notin Range(stk)
  <2>1. /\ Break(t) /\ UNCHANGED <<stk, left, consumers>> /\ item' \in [Threads -> Nat]
        /\ pc[t] \in {"top", "copy", "pop_top"}
    BY <1>0, <1>8 DEF ReturnTop, PopTop, CopyTop, StackTypes
  <2>2. program = "trivial_stack" => t \in consumers /\ ~(consumers \subseteq {t})
    BY <1>0, <1>8, <2>1 DEF StackTypes, ConsumersOK, ReturnTop, PopTop, CopyTop, Range
  <2>3. program = "trivial_stack" => \E u, w \in consumers : u # w
    BY <2>2
  <2>4. QED
    BY <2>1, <2>3, BreakKeepsStack
<1>9. QED
  BY <1>2, <1>3, <1>4, <1>5, <1>6, <1>7, <1>8

\* The stacks are as they should be whenever a stack is run.
LEMMA StackInvariant == Spec => []StackInv
<1>1. Init => StackInv
  <2> SUFFICES ASSUME Init PROVE StackThreads
    BY DEF StackInv
  <2>1. Pushing = {} /\ Cardinality(Pushing) = 0
    BY FS_EmptySet DEF Init, InitThreads, Pushing
  <2>2. Len(stk) = 0 /\ Len(left) = 0 /\ stk \in Seq(Nat) /\ left \in Seq(Nat)
    BY EmptySeq DEF Init, StackInit
  <2>3. QED
    BY <2>1, <2>2, BoundsAssumption
    DEF Init, InitThreads, StackInit, StackThreads, StackTypes, StackPlaces, StackLocked,
        ItemsCounted, ConsumersOK
<1>2. StackInv /\ [Next]_vars => StackInv'
  <2> SUFFICES ASSUME StackInv, [Next]_vars, InStackProgram' PROVE StackThreads'
    BY DEF StackInv
  <2>1. InStackProgram /\ StackThreads
    BY ProgramStays DEF StackInv, InStackProgram
  <2>2. CASE UNCHANGED vars
    BY <2>1, <2>2
    DEF vars, frame, stackVars, StackThreads, StackTypes, StackLocked, ItemsCounted, Pushing,
        ConsumersOK
  <2>3. ASSUME NEW t \in Threads, StackMove(t) PROVE StackThreads'
    <3>1. CASE \/ LockPush(t) \/ LeaveStack(t) \/ LockPop(t) \/ ThrowEmpty(t)
               \/ TestEmpty(t) \/ LockTop(t) \/ LockDrop(t)
      <4>1. UNCHANGED stackVars
        BY <3>1 DEF LockPush, LeaveStack, LockPop, ThrowEmpty, TestEmpty, LockTop, LockDrop
      <4>2. QED
        BY <2>1, <3>1, <4>1, StackStepsAside
    <3>2. CASE CallStack(t) \/ AppendItem(t) \/ ReadTop(t) \/ DropTop(t) \/ ReturnTop(t)
                 \/ CopyTop(t) \/ PopTop(t)
      BY <2>1, <3>2, StackStepsItems
    <3>3. QED
      BY <2>3, <3>1, <3>2 DEF StackMove, StackStep
  <2>4. QED
    BY <2>1, <2>2, <2>3, NextIsMove DEF InStackProgram, InBank
<1>3. QED
  BY <1>1, <1>2, PTL DEF Spec

\* What pushes and pops do to the items is what a Lifo does.
LEMMA StackStepIsLifo ==
  ASSUME StackThreads, NEW t \in Threads, StackMove(t)
  PROVE  Abstract!Next \/ UNCHANGED <<stk, left>>
<1>1. CASE AppendItem(t)
  <2>1. pc[t] = "append" /\ stk' = Append(stk, Len(stk) + Len(left) + 1) /\ UNCHANGED left
    BY <1>1 DEF AppendItem, Move
  <2>2. IsFiniteSet(Pushing) /\ t \in Pushing
    BY <2>1, ThreadsAssumption, FS_Subset DEF Pushing
  <2>3. Cardinality(Pushing) \in Nat /\ Cardinality(Pushing) # 0
    BY <2>2, FS_CardinalityType, FS_EmptySet
  <2>4. Len(stk) + Len(left) + 1 \in 1..MaxCalls
    BY <2>3, LenProperties, BoundsAssumption DEF StackThreads, StackTypes, ItemsCounted
  <2>5. QED
    BY <2>1, <2>4 DEF Abstract!Next, Abstract!Push
<1>2. CASE DropTop(t)
  BY <1>2
  DEF DropTop, Move, StackThreads, StackLocked, Abstract!Next, Abstract!Pop, Front, Last,
      Abstract!Front, Abstract!Last
<1>3. CASE PopTop(t)
  BY <1>3
  DEF PopTop, Break, Abstract!Next, Abstract!Pop, Front, Last, Abstract!Front, Abstract!Last
<1>4. CASE \/ LockPush(t) \/ LeaveStack(t) \/ LockPop(t) \/ ThrowEmpty(t) \/ ReadTop(t)
           \/ TestEmpty(t) \/ LockTop(t) \/ ReturnTop(t) \/ CopyTop(t) \/ LockDrop(t)
           \/ CallStack(t)
  BY <1>4
  DEF LockPush, LeaveStack, LockPop, ThrowEmpty, ReadTop, TestEmpty, LockTop, ReturnTop,
      CopyTop, LockDrop, CallStack, stackVars
<1>5. QED
  BY <1>1, <1>2, <1>3, <1>4 DEF StackMove, StackStep

\* Call by call both stacks are a Lifo, however the calls interleave, and only
\* where two threads consume does the trivial stack do anything undefined.
THEOREM StacksAreLifo == Spec => StackOrder
<1>1. Init => Abstract!Init
  BY DEF Init, StackInit, Abstract!Init
<1>2. StackInv /\ [Next]_vars => [Abstract!Next]_Abstract!vars
  <2> SUFFICES ASSUME StackInv, [Next]_vars
               PROVE  Abstract!Next \/ UNCHANGED <<stk, left>>
    BY DEF Abstract!vars
  <2>1. CASE UNCHANGED vars \/ UNCHANGED stackVars
    BY <2>1 DEF vars, stackVars
  <2>2. ASSUME NEW t \in Threads, InStackProgram, StackMove(t)
        PROVE  Abstract!Next \/ UNCHANGED <<stk, left>>
    BY <2>2, StackStepIsLifo DEF StackInv
  <2>3. QED
    BY <2>1, <2>2, NextIsMove DEF InStackProgram
<1>3. StackInv => (program = "trivial_stack" => BrokenByTwo)
  <2> SUFFICES ASSUME StackInv, program = "trivial_stack", broken
               PROVE  Cardinality(consumers) > 1
    BY DEF BrokenByTwo
  <2>1. PICK t, u \in consumers : t # u
    BY DEF StackInv, InStackProgram, StackThreads, ConsumersOK
  <2>2. IsFiniteSet(consumers)
    BY ThreadsAssumption, FS_Subset DEF StackInv, InStackProgram, StackThreads, StackTypes
  <2>3. Cardinality({t} \cup {u}) = 2
    <3>1. IsFiniteSet({t}) /\ Cardinality({t}) = 1
      BY FS_Singleton
    <3>2. QED
      BY <2>1, <3>1, FS_AddElement
  <2>4. Cardinality({t} \cup {u}) <= Cardinality(consumers) /\ Cardinality(consumers) \in Nat
    BY <2>1, <2>2, FS_Subset, FS_CardinalityType
  <2>5. QED
    BY <2>3, <2>4
<1>4. QED
  BY <1>1, <1>2, <1>3, StackInvariant, PTL DEF Spec, StackOrder, Abstract!Spec
-----------------------------------------------------------------------------
(* Sums over a finite set, which the library computes by a recursion that  *)
(* takes one element after the other, whichever it chooses.                *)

\* Induction, with a set in place of a predicate.
LEMMA NatSetInduction ==
  ASSUME NEW G, 0 \in G, \A n \in Nat : n \in G => n + 1 \in G
  PROVE  Nat \subseteq G
<1> DEFINE R == {mn \in Nat \X Nat : mn[1] < mn[2]}
<1>1. OpToRel(<, Nat) = R
  BY Zenon DEF OpToRel
<1>2. IsWellFoundedOn(R, Nat)
  BY <1>1, NatLessThanWellFounded, Zenon
<1>3. \A m, n \in Nat : <<m, n>> \in R <=> m < n
  OBVIOUS
<1> HIDE DEF R
<1>4. SUFFICES ASSUME Nat \ G # {} PROVE FALSE
  OBVIOUS
<1>5. PICK n \in Nat \ G : \A m \in Nat \ G : ~ (<<m, n>> \in R)
  BY <1>2, <1>4, WFMin
<1>6. n # 0 /\ n - 1 \in Nat /\ n - 1 < n /\ (n - 1) + 1 = n
  BY <1>5
<1>7. n - 1 \in G
  BY <1>3, <1>5, <1>6
<1>8. QED
  BY <1>5, <1>6, <1>7

\* Induction over the subsets of a finite set, one element at a time.
LEMMA FiniteSetInduction ==
  ASSUME NEW S, IsFiniteSet(S), NEW G, {} \in G,
         \A s \in SUBSET S : s # {} /\ (\A x \in s : s \ {x} \in G) => s \in G
  PROVE  SUBSET S \subseteq G
<1> DEFINE N == {n \in Nat : \A s \in SUBSET S : Cardinality(s) = n => s \in G}
<1>1. \A s \in SUBSET S : IsFiniteSet(s) /\ Cardinality(s) \in Nat
  BY FS_Subset, FS_CardinalityType
<1>2. 0 \in N
  BY <1>1, FS_EmptySet
<1>3. ASSUME NEW n \in Nat, n \in N PROVE n + 1 \in N
  <2> SUFFICES ASSUME NEW s \in SUBSET S, Cardinality(s) = n + 1 PROVE s \in G
    OBVIOUS
  <2>1. s # {}
    BY FS_EmptySet
  <2>2. ASSUME NEW x \in s PROVE s \ {x} \in G
    <3>1. Cardinality(s \ {x}) = n
      BY <1>1, FS_RemoveElement
    <3>2. s \ {x} \in SUBSET S
      OBVIOUS
    <3>3. QED
      BY <1>3, <3>1, <3>2
  <2>3. QED
    BY <2>1, <2>2
<1> HIDE DEF N
<1>4. Nat \subseteq N
  BY <1>2, <1>3, NatSetInduction
<1>5. QED
  BY <1>1, <1>4 DEF N

\* The element that the library takes first.
Some(s) == CHOOSE x \in s : TRUE

SumOn(f, S) == MapThenSumSet(LAMBDA a : f[a], S)

\* The function that the library defines, from subsets of S to sums of f, and
\* what it is for.
Recurs(sum, f, S) ==
  sum = [s \in SUBSET S |-> IF s = {} THEN 0 ELSE f[Some(s)] + sum[s \ {Some(s)}]]

AddsUp(sum, f, S) ==
  \A s \in SUBSET S : sum[s] = IF s = {} THEN 0 ELSE f[Some(s)] + sum[s \ {Some(s)}]

LEMMA SomeIsIn == \A s : s # {} => Some(s) \in s
BY DEF Some

\* There is such a function: up to any number of elements the recursion ends.
LEMMA SumExists ==
  ASSUME NEW f, NEW S, IsFiniteSet(S)
  PROVE  \E sum : Recurs(sum, f, S)
<1> DEFINE OneMore(sum) == [s \in SUBSET S |->
                           IF s = {} THEN 0 ELSE f[Some(s)] + sum[s \ {Some(s)}]]
           UpTo(n, sum) == /\ sum = [s \in SUBSET S |-> sum[s]]
                           /\ \A s \in SUBSET S : Cardinality(s) <= n => sum[s] = OneMore(sum)[s]
           N == {n \in Nat : \E sum : UpTo(n, sum)}
<1>1. \A s \in SUBSET S : IsFiniteSet(s) /\ Cardinality(s) \in Nat
  BY FS_Subset, FS_CardinalityType
<1>2. 0 \in N
  <2> DEFINE zero == [s \in SUBSET S |-> 0]
  <2>1. \A s \in SUBSET S : Cardinality(s) <= 0 => s = {}
    BY <1>1, FS_EmptySet
  <2>2. UpTo(0, zero)
    BY <2>1
  <2>3. QED
    BY <2>2
<1>3. ASSUME NEW n \in Nat, n \in N PROVE n + 1 \in N
  <2>1. PICK sum : UpTo(n, sum)
    BY <1>3
  <2>2. PICK more : more = OneMore(sum)
    OBVIOUS
  <2>3. ASSUME NEW s \in SUBSET S, Cardinality(s) <= n + 1 PROVE more[s] = OneMore(more)[s]
    <3>1. CASE s = {}
      BY <2>2, <3>1
    <3>2. CASE s # {}
      <4> DEFINE r == s \ {Some(s)}
      <4>1. Some(s) \in s /\ r \in SUBSET S
        BY <3>2, SomeIsIn
      <4>2. Cardinality(r) = Cardinality(s) - 1
        BY <1>1, <4>1, FS_RemoveElement
      <4>3. Cardinality(r) <= n
        BY <1>1, <2>3, <4>2
      <4>4. sum[r] = more[r]
        BY <2>1, <2>2, <4>1, <4>3
      <4> HIDE DEF r
      <4>5. /\ more[s] = f[Some(s)] + sum[s \ {Some(s)}]
            /\ OneMore(more)[s] = f[Some(s)] + more[s \ {Some(s)}]
        BY <2>2, <3>2
      <4>6. QED
        BY <4>4, <4>5 DEF r
    <3>3. QED
      BY <3>1, <3>2
  <2>4. UpTo(n + 1, more)
    BY <2>2, <2>3
  <2> HIDE DEF UpTo
  <2>5. n + 1 \in Nat
    OBVIOUS
  <2>6. QED
    BY <2>4, <2>5
<1>4. Nat \subseteq N
  <2> HIDE DEF N
  <2>1. QED
    BY <1>2, <1>3, NatSetInduction
<1>5. Cardinality(S) \in N
  BY <1>4, FS_CardinalityType
<1>6. PICK sum : UpTo(Cardinality(S), sum)
  BY <1>5
<1>7. \A s \in SUBSET S : Cardinality(s) <= Cardinality(S)
  BY FS_Subset
<1>8. sum = OneMore(sum)
  BY <1>6, <1>7
<1>9. Recurs(sum, f, S)
  BY <1>8 DEF Recurs
<1>10. QED
  BY <1>9

\* What the library computes is the sum that adds up.
LEMMA SumOnIs ==
  ASSUME NEW f, NEW S, IsFiniteSet(S)
  PROVE  \E sum : AddsUp(sum, f, S) /\ SumOn(f, S) = sum[S]
<1> DEFINE sum == CHOOSE x : Recurs(x, f, S)
<1>1. SumOn(f, S) = sum[S]
  BY DEF SumOn, MapThenSumSet, MapThenFoldSet, Some, Recurs
<1>2. Recurs(sum, f, S)
  BY SumExists
<1> HIDE DEF sum
<1>3. AddsUp(sum, f, S)
  BY <1>2 DEF AddsUp, Recurs
<1>4. QED
  BY <1>1, <1>3

\* Sums of integers are integers.
LEMMA SumsInInt ==
  ASSUME NEW S, IsFiniteSet(S), NEW f \in [S -> Int], NEW sum, AddsUp(sum, f, S)
  PROVE  \A s \in SUBSET S : sum[s] \in Int
<1> DEFINE G == {s \in SUBSET S : sum[s] \in Int}
<1>1. {} \in G
  <2>1. sum[{}] = 0
    BY DEF AddsUp
  <2>2. QED
    BY <2>1
<1>2. ASSUME NEW s \in SUBSET S, s # {}, \A x \in s : s \ {x} \in G PROVE s \in G
  <2>1. Some(s) \in s /\ sum[s] = f[Some(s)] + sum[s \ {Some(s)}]
    BY <1>2, SomeIsIn DEF AddsUp
  <2>2. f[Some(s)] \in Int /\ sum[s \ {Some(s)}] \in Int
    BY <1>2, <2>1
  <2>3. QED
    BY <2>1, <2>2
<1> HIDE DEF G
<1>3. SUBSET S \subseteq G
  BY <1>1, <1>2, FiniteSetInduction
<1>4. QED
  BY <1>3 DEF G

\* It takes the elements in any order.
LEMMA AnyOrder ==
  ASSUME NEW S, IsFiniteSet(S), NEW f \in [S -> Int], NEW sum, AddsUp(sum, f, S)
  PROVE  \A s \in SUBSET S : \A x \in s : sum[s] = f[x] + sum[s \ {x}]
<1> DEFINE G == {s \in SUBSET S : \A x \in s : sum[s] = f[x] + sum[s \ {x}]}
<1>1. {} \in G
  OBVIOUS
<1>2. ASSUME NEW s \in SUBSET S, s # {}, \A x \in s : s \ {x} \in G PROVE s \in G
  <2>1. PICK y \in s : sum[s] = f[y] + sum[s \ {y}]
    BY <1>2, SomeIsIn DEF AddsUp
  <2>2. ASSUME NEW x \in s, x # y PROVE sum[s] = f[x] + sum[s \ {x}]
    <3> DEFINE r == (s \ {x}) \ {y}
    <3>1. y \in s \ {x} /\ x \in s \ {y} /\ (s \ {y}) \ {x} = r
      BY <2>2
    <3>2. sum[s \ {x}] = f[y] + sum[r] /\ sum[s \ {y}] = f[x] + sum[r]
      BY <1>2, <3>1
    <3>3. sum[r] \in Int /\ f[x] \in Int /\ f[y] \in Int
      BY SumsInInt
    <3> HIDE DEF r
    <3>4. QED
      BY <2>1, <3>2, <3>3
  <2>3. QED
    BY <2>1, <2>2
<1> HIDE DEF G
<1>3. SUBSET S \subseteq G
  BY <1>1, <1>2, FiniteSetInduction
<1>4. QED
  BY <1>3 DEF G

\* One sum of what two functions agree on.
LEMMA SumsAgree ==
  ASSUME NEW S, IsFiniteSet(S), NEW f, NEW g, NEW s1, NEW s2,
         AddsUp(s1, f, S), AddsUp(s2, g, S), NEW T \in SUBSET S, \A x \in T : f[x] = g[x]
  PROVE  s1[T] = s2[T]
<1> DEFINE G == {s \in SUBSET T : s1[s] = s2[s]}
<1>1. {} \in G
  BY DEF AddsUp
<1>2. ASSUME NEW s \in SUBSET T, s # {}, \A x \in s : s \ {x} \in G PROVE s \in G
  BY <1>2, SomeIsIn DEF AddsUp
<1>3. IsFiniteSet(T)
  BY FS_Subset
<1> HIDE DEF G
<1>4. SUBSET T \subseteq G
  BY <1>1, <1>2, <1>3, FiniteSetInduction
<1>5. QED
  BY <1>4 DEF G

\* One of the values apart.
LEMMA SumSplits ==
  ASSUME NEW S, IsFiniteSet(S), NEW f \in [S -> Int], NEW a \in S
  PROVE  \E sum : /\ AddsUp(sum, f, S) /\ sum[S \ {a}] \in Int
                  /\ SumOn(f, S) = f[a] + sum[S \ {a}]
<1>1. PICK sum : AddsUp(sum, f, S) /\ SumOn(f, S) = sum[S]
  BY SumOnIs
<1>2. sum[S] = f[a] + sum[S \ {a}]
  BY <1>1, AnyOrder
<1>3. sum[S \ {a}] \in Int
  BY <1>1, SumsInInt
<1>4. QED
  BY <1>1, <1>2, <1>3

\* How a sum changes with one of its values.
LEMMA SumUpdate ==
  ASSUME NEW S, IsFiniteSet(S), NEW f \in [S -> Int], NEW a \in S,
         NEW g \in [S -> Int], \A x \in S \ {a} : f[x] = g[x]
  PROVE  SumOn(f, S) \in Int /\ SumOn(g, S) = SumOn(f, S) - f[a] + g[a]
<1>1. PICK s1 : /\ AddsUp(s1, f, S) /\ s1[S \ {a}] \in Int
                /\ SumOn(f, S) = f[a] + s1[S \ {a}]
  BY SumSplits
<1>2. PICK s2 : /\ AddsUp(s2, g, S) /\ s2[S \ {a}] \in Int
                /\ SumOn(g, S) = g[a] + s2[S \ {a}]
  BY SumSplits
<1>3. s1[S \ {a}] = s2[S \ {a}]
  BY <1>1, <1>2, SumsAgree
<1>4. f[a] \in Int /\ g[a] \in Int
  OBVIOUS
<1>5. QED
  BY <1>1, <1>2, <1>3, <1>4

\* A sum of nothing.
LEMMA SumZero ==
  ASSUME NEW S, IsFiniteSet(S)
  PROVE  SumOn([a \in S |-> 0], S) = 0
<1> DEFINE f == [a \in S |-> 0]
           zero == [s \in SUBSET S |-> 0]
<1>1. PICK sum : AddsUp(sum, f, S) /\ SumOn(f, S) = sum[S]
  BY SumOnIs
<1>2. AddsUp(zero, f, S)
  <2> SUFFICES ASSUME NEW s \in SUBSET S, s # {}
               PROVE  0 = f[Some(s)] + zero[s \ {Some(s)}]
    BY DEF AddsUp
  <2>1. f[Some(s)] = 0 /\ zero[s \ {Some(s)}] = 0
    BY SomeIsIn
  <2> QED
    BY <2>1
<1>3. zero[S] = 0
  OBVIOUS
<1> HIDE DEF f, zero
<1>4. sum[S] = zero[S]
  BY <1>1, <1>2, SumsAgree
<1>5. QED
  BY <1>1, <1>3, <1>4 DEF f
-----------------------------------------------------------------------------
(* The bank accounts.                                                      *)

BankPlaces == {"idle", "second", "read", "write", "done"}

\* The accounts a thread changes are those it locks.
JobOK(t) ==
  /\ job[t] \in Jobs
  /\ change[t] \in 0..Len(Changes(t))
  /\ pc[t] = "write" => change[t] < Len(Changes(t))

\* Which mutexes a thread holds where it is.
LocksOK(t) ==
  /\ pc[t] = "second" => Len(Locks(t)) = 2 /\ mut[Locks(t)[1]] = t
  /\ pc[t] \in {"read", "write"} =>
       \A k \in 1..Len(Locks(t)) : mut[Locks(t)[k]] = t
  /\ pc[t] \in {"idle", "second"} => change[t] = 0

\* A balance that was read has not changed since.
ReadOK(t) == pc[t] = "write" => read[t] = balance[NextChange(t).account]

\* Where the threads are and what they hold.
BankTypes ==
  /\ pc \in [Threads -> BankPlaces]
  /\ mut \in [Mutexes -> Threads \cup {Free}]
  /\ balance \in [Accounts -> Int]
  /\ DOMAIN job = Threads /\ change \in [Threads -> Nat] /\ read \in [Threads -> Int]

BankThreads ==
  /\ BankTypes
  /\ \A t \in Threads : JobOK(t) /\ LocksOK(t) /\ ReadOK(t)
  /\ NoUpdateLost

BankInv == InBank => BankThreads

\* What a thread may be called to do.
LEMMA JobShape ==
  ASSUME NEW j \in Jobs
  PROVE  /\ Len(j.locks) \in 1..2 /\ \A k \in 1..Len(j.locks) : j.locks[k] \in Accounts
         /\ Len(j.changes) \in 1..2
         /\ \A k \in 1..Len(j.changes) :
              /\ j.changes[k].by \in {1, -1}
              /\ \E i \in 1..Len(j.locks) : j.changes[k].account = j.locks[i]
              /\ j.changes[k] = Change(j.changes[k].account, j.changes[k].by)
<1>1. CASE \E a, b \in Accounts : j = transfer(a, b)
  BY <1>1 DEF transfer, Change
<1>2. CASE \E a \in Accounts : j = deposite(a) \/ j = withdraw(a)
  BY <1>2 DEF deposite, withdraw, Change, Withdrawn
<1>3. QED
  BY <1>1, <1>2 DEF Jobs

\* The changes c that were made, as pairs of a thread and an index.
Marks(c) == {p \in Threads \X {1, 2} : p[2] <= change[p[1]] /\ Changes(p[1])[p[2]] = c}

\* A write is counted once, as the change that it makes.
LEMMA WriteIsCounted ==
  ASSUME BankThreads, NEW t \in Threads, WriteBalance(t), NEW c
  PROVE  /\ Made(c) \in Nat
         /\ Made(c)' = Made(c) + IF c = NextChange(t) THEN 1 ELSE 0
<1> DEFINE k == change[t] + 1
<1>1. k \in {1, 2}
  <2> DEFINE n == Len(Changes(t))
  <2>1. job[t] \in Jobs /\ change[t] \in Nat /\ change[t] < n
    BY DEF BankThreads, BankTypes, JobOK, WriteBalance, Move
  <2>2. n \in 1..2
    BY <2>1, JobShape DEF Changes
  <2> HIDE DEF n
  <2>3. QED
    BY <2>1, <2>2
<1>2. change' = [change EXCEPT ![t] = k] /\ UNCHANGED job /\ NextChange(t) = Changes(t)[k]
  BY DEF WriteBalance, NextChange
<1>3. change[t] \in Nat /\ change \in [Threads -> Nat]
  BY DEF BankThreads, BankTypes
<1> HIDE DEF k
<1>4. \A p \in Threads \X {1, 2} :
        p \in Marks(c)' <=> p \in Marks(c) \/ (p = <<t, k>> /\ c = NextChange(t))
  <2> SUFFICES ASSUME NEW p \in Threads \X {1, 2}
               PROVE  p \in Marks(c)' <=>
                        p \in Marks(c) \/ (p = <<t, k>> /\ c = NextChange(t))
    OBVIOUS
  <2>1. p[1] \in Threads /\ p[2] \in {1, 2} /\ (p = <<t, k>> <=> p[1] = t /\ p[2] = k)
    OBVIOUS
  <2>2. p \in Marks(c)' <=> p[2] <= change'[p[1]] /\ Changes(p[1])[p[2]] = c
    BY <1>2 DEF Marks, Changes
  <2>3. p \in Marks(c) <=> p[2] <= change[p[1]] /\ Changes(p[1])[p[2]] = c
    BY DEF Marks
  <2>4. change'[p[1]] = IF p[1] = t THEN k ELSE change[p[1]]
    BY <1>2, <1>3, <2>1
  <2>5. k = change[t] + 1 /\ change[p[1]] \in Nat
    BY <1>3, <2>1 DEF k
  <2>6. CASE p[1] = t
    BY <1>1, <1>2, <1>3, <2>1, <2>2, <2>3, <2>4, <2>5, <2>6
  <2>7. CASE p[1] # t
    BY <2>1, <2>2, <2>3, <2>4, <2>7
  <2>8. QED
    BY <2>6, <2>7
<1>5. Marks(c)' = IF c = NextChange(t) THEN Marks(c) \cup {<<t, k>>} ELSE Marks(c)
  <2>1. Marks(c) \subseteq Threads \X {1, 2} /\ Marks(c)' \subseteq Threads \X {1, 2}
    BY DEF Marks
  <2>2. <<t, k>> \in Threads \X {1, 2}
    BY <1>1
  <2>3. QED
    BY <1>4, <2>1, <2>2
<1>6. <<t, k>> \notin Marks(c)
  BY <1>3 DEF Marks, k
<1>7. IsFiniteSet(Marks(c))
  <2>1. IsFiniteSet({1, 2})
    <3>1. IsFiniteSet({1}) /\ {1, 2} = {1} \cup {2}
      BY FS_Singleton
    <3>2. QED
      BY <3>1, FS_AddElement
  <2>2. IsFiniteSet(Threads \X {1, 2})
    BY <2>1, ThreadsAssumption, FS_Product
  <2>3. QED
    BY <2>2, FS_Subset DEF Marks
<1>8. Made(c) = Cardinality(Marks(c)) /\ Made(c)' = Cardinality(Marks(c)')
  BY DEF Made, Marks
<1>9. Cardinality(Marks(c)) \in Nat
  BY <1>7, FS_CardinalityType
<1>10. Cardinality(Marks(c) \cup {<<t, k>>}) = Cardinality(Marks(c)) + 1
  BY <1>6, <1>7, FS_AddElement
<1>11. QED
  BY <1>5, <1>8, <1>9, <1>10

\* A thread has what it locks, and is at its next change, an index of its changes.
LEMMA NextChangeIs ==
  ASSUME BankTypes, NEW t \in Threads, JobOK(t), LocksOK(t), pc[t] \in {"read", "write"},
         change[t] < Len(Changes(t))
  PROVE  /\ NextChange(t).account \in Accounts /\ NextChange(t).by \in {1, -1}
         /\ NextChange(t) = Change(NextChange(t).account, NextChange(t).by)
         /\ mut[NextChange(t).account] = t
<1> DEFINE n == Len(Changes(t))
           k == change[t] + 1
<1>1. job[t] \in Jobs /\ change[t] \in Nat /\ change[t] < n
  BY DEF BankTypes, JobOK
<1>2. n \in 1..2
  BY <1>1, JobShape DEF Changes
<1>3. k \in 1..n
  <2> HIDE DEF n
  <2>1. QED
    BY <1>1, <1>2
<1> HIDE DEF k
<1>4. NextChange(t) = job[t].changes[k] /\ k \in 1..Len(job[t].changes)
  BY <1>3 DEF NextChange, Changes, k
<1>5. PICK i \in 1..Len(job[t].locks) : job[t].changes[k].account = job[t].locks[i]
  BY <1>1, <1>4, JobShape
<1>6. mut[job[t].locks[i]] = t
  BY DEF LocksOK, Locks
<1>7. QED
  BY <1>1, <1>4, <1>5, <1>6, JobShape

\* No change moves the mutexes of others, nor what they are to do.
LEMMA OthersStay ==
  ASSUME BankThreads, NEW t \in Threads, NEW u \in Threads \ {t},
         pc'[u] = pc[u], change'[u] = change[u], read'[u] = read[u], job' = job,
         program' = program,
         \A a \in Accounts : mut[a] = u => mut'[a] = u /\ balance'[a] = balance[a]
  PROVE  JobOK(u)' /\ LocksOK(u)' /\ ReadOK(u)'
<1>1. JobOK(u) /\ LocksOK(u) /\ ReadOK(u) /\ BankTypes
  BY DEF BankThreads
<1>2. /\ Changes(u)' = Changes(u) /\ Locks(u)' = Locks(u) /\ NextChange(u)' = NextChange(u)
      /\ Jobs' = Jobs
  BY DEF Changes, Locks, NextChange, Jobs, withdraw, Withdrawn
<1>3. JobOK(u)'
  BY <1>1, <1>2 DEF JobOK
<1>4. \A k \in 1..Len(Locks(u)) : Locks(u)[k] \in Accounts
  BY <1>1, JobShape DEF JobOK, Locks
<1>5. LocksOK(u)'
  BY <1>1, <1>2, <1>4 DEF LocksOK
<1>6. ReadOK(u)'
  BY <1>1, <1>2, NextChangeIs DEF ReadOK, JobOK
<1>7. QED
  BY <1>3, <1>5, <1>6

\* A thread that takes a mutex keeps those it has.
LEMMA LockNextKeeps ==
  ASSUME BankThreads, NEW t \in Threads, LockNext(t)
  PROVE  BankThreads'
<1>1. BankTypes /\ JobOK(t) /\ LocksOK(t) /\ job[t] \in Jobs
  BY DEF BankThreads, JobOK
<1>2. /\ pc[t] \in {"idle", "second"} /\ mut[NextLock(t)] = Free
      /\ pc' = [pc EXCEPT ![t] = AfterLock(t)] /\ mut' = [mut EXCEPT ![NextLock(t)] = t]
      /\ UNCHANGED <<program, bankVars>>
  BY DEF LockNext, Lock, Goto
<1>3. /\ Jobs' = Jobs /\ \A u \in Threads : Changes(u)' = Changes(u) /\ Locks(u)' = Locks(u)
  BY <1>2 DEF Changes, Locks, Jobs, withdraw, Withdrawn, bankVars
<1>4. NextLock(t) \in Accounts /\ (Len(Locks(t)) = 1 \/ Len(Locks(t)) = 2)
  <2>1. /\ Len(job[t].locks) = 1 \/ Len(job[t].locks) = 2
        /\ \A k \in 1..Len(job[t].locks) : job[t].locks[k] \in Accounts
    BY <1>1, JobShape
  <2>2. QED
    BY <1>1, <1>2, <2>1 DEF NextLock, Locks, LocksOK
<1>5. BankTypes'
  BY <1>1, <1>2, <1>4 DEF BankTypes, BankPlaces, Mutexes, AfterLock, bankVars
<1>6. NoUpdateLost'
  BY <1>2 DEF BankThreads, NoUpdateLost, Made, Changes, bankVars
<1>7. ASSUME NEW u \in Threads \ {t} PROVE JobOK(u)' /\ LocksOK(u)' /\ ReadOK(u)'
  <2>1. pc'[u] = pc[u] /\ UNCHANGED <<change, read, job, program, balance>>
    BY <1>1, <1>2 DEF BankTypes, bankVars
  <2>2. \A a \in Accounts : mut[a] = u => mut'[a] = u
    BY <1>1, <1>2, ThreadsAssumption DEF BankTypes, Mutexes
  <2>3. QED
    BY <2>1, <2>2, OthersStay
<1>8. pc'[t] = AfterLock(t) /\ AfterLock(t) \in {"second", "read"}
  BY <1>1, <1>2 DEF BankTypes, AfterLock
<1>9. JobOK(t)' /\ ReadOK(t)'
  BY <1>1, <1>2, <1>3, <1>8 DEF JobOK, ReadOK, bankVars
<1>10. LocksOK(t)'
  <2>1. \A a \in Accounts : mut'[a] = IF a = NextLock(t) THEN t ELSE mut[a]
    BY <1>1, <1>2 DEF BankTypes, Mutexes
  <2>2. change'[t] = 0
    BY <1>1, <1>2 DEF LocksOK, bankVars
  <2>3. \A k \in 1..Len(Locks(t)) : Locks(t)[k] \in Accounts
    BY <1>1, JobShape DEF Locks
  <2>4. CASE pc[t] = "idle"
    BY <1>3, <1>4, <1>8, <2>1, <2>2, <2>3, <2>4 DEF LocksOK, AfterLock, NextLock
  <2>5. CASE pc[t] = "second"
    BY <1>1, <1>2, <1>3, <1>4, <1>8, <2>1, <2>2, <2>3, <2>5 DEF LocksOK, AfterLock, NextLock
  <2>6. QED
    BY <1>2, <2>4, <2>5
<1>11. QED
  BY <1>5, <1>6, <1>7, <1>9, <1>10 DEF BankThreads

\* std::lock
LEMMA LockBothKeeps ==
  ASSUME BankThreads, NEW t \in Threads, LockBoth(t)
  PROVE  BankThreads'
<1>1. BankTypes /\ JobOK(t) /\ LocksOK(t) /\ job[t] \in Jobs
  BY DEF BankThreads, JobOK
<1>2. /\ pc[t] = "idle" /\ pc' = [pc EXCEPT ![t] = "read"]
      /\ \A a \in Range(Locks(t)) : mut[a] = Free
      /\ mut' = [m \in Mutexes |-> IF m \in Range(Locks(t)) THEN t ELSE mut[m]]
      /\ UNCHANGED <<program, bankVars>>
  BY DEF LockBoth, Goto
<1>3. /\ Jobs' = Jobs /\ \A u \in Threads : Changes(u)' = Changes(u) /\ Locks(u)' = Locks(u)
  BY <1>2 DEF Changes, Locks, Jobs, withdraw, Withdrawn, bankVars
<1>4. BankTypes'
  BY <1>1, <1>2 DEF BankTypes, BankPlaces, bankVars
<1>5. NoUpdateLost'
  BY <1>2 DEF BankThreads, NoUpdateLost, Made, Changes, bankVars
<1>6. ASSUME NEW u \in Threads \ {t} PROVE JobOK(u)' /\ LocksOK(u)' /\ ReadOK(u)'
  <2>1. pc'[u] = pc[u] /\ UNCHANGED <<change, read, job, program, balance>>
    BY <1>1, <1>2 DEF BankTypes, bankVars
  <2>2. \A a \in Accounts : mut[a] = u => mut'[a] = u
    BY <1>1, <1>2, ThreadsAssumption DEF BankTypes, Mutexes
  <2>3. QED
    BY <2>1, <2>2, OthersStay
<1>7. pc'[t] = "read"
  BY <1>1, <1>2 DEF BankTypes
<1>8. JobOK(t)' /\ ReadOK(t)'
  BY <1>1, <1>2, <1>3, <1>7 DEF JobOK, ReadOK, bankVars
<1>9. LocksOK(t)'
  <2>1. \A k \in 1..Len(Locks(t)) : Locks(t)[k] \in Accounts /\ Locks(t)[k] \in Range(Locks(t))
    <3>1. DOMAIN Locks(t) = 1..Len(Locks(t))
      BY <1>1 DEF Locks, Jobs, transfer, deposite, withdraw
    <3>2. QED
      BY <1>1, <3>1, JobShape DEF Locks, Range
  <2>2. \A k \in 1..Len(Locks(t)) : mut'[Locks(t)[k]] = t
    BY <1>2, <2>1 DEF Mutexes
  <2>3. QED
    BY <1>3, <1>7, <2>2 DEF LocksOK
<1>10. QED
  BY <1>4, <1>5, <1>6, <1>8, <1>9 DEF BankThreads

\* A thread that reads or writes a balance has the mutex of the account: nobody
\* else reads or writes it between the two.
LEMMA ChangeKeeps ==
  ASSUME BankThreads, NEW t \in Threads, ReadBalance(t) \/ WriteBalance(t)
  PROVE  BankThreads'
<1> DEFINE a == NextChange(t).account
<1>1. BankTypes /\ JobOK(t) /\ LocksOK(t) /\ ReadOK(t) /\ job[t] \in Jobs
  BY DEF BankThreads, JobOK
<1>2. pc[t] \in {"read", "write"} /\ change[t] < Len(Changes(t)) /\ job' = job
      /\ UNCHANGED <<program, mut>>
  BY <1>1 DEF ReadBalance, WriteBalance, Move, JobOK
<1>3. /\ a \in Accounts /\ NextChange(t).by \in {1, -1} /\ mut[a] = t
      /\ NextChange(t) = Change(a, NextChange(t).by)
  BY <1>1, <1>2, NextChangeIs
<1>4. /\ Jobs' = Jobs /\ \A u \in Threads : Changes(u)' = Changes(u) /\ Locks(u)' = Locks(u)
  BY <1>2 DEF Changes, Locks, Jobs, withdraw, Withdrawn
<1>5. ASSUME NEW u \in Threads \ {t} PROVE JobOK(u)' /\ LocksOK(u)' /\ ReadOK(u)'
  <2>1. pc'[u] = pc[u] /\ change'[u] = change[u] /\ read'[u] = read[u]
    BY <1>1 DEF ReadBalance, WriteBalance, Move, Goto, BankTypes
  <2>2. \A b \in Accounts : mut[b] = u => mut'[b] = u /\ balance'[b] = balance[b]
    BY <1>1, <1>2, <1>3 DEF ReadBalance, WriteBalance, BankTypes
  <2>3. QED
    BY <1>2, <2>1, <2>2, OthersStay
<1>6. CASE ReadBalance(t)
  <2>1. /\ pc' = [pc EXCEPT ![t] = "write"] /\ read' = [read EXCEPT ![t] = balance[a]]
        /\ UNCHANGED <<balance, change>> /\ pc[t] = "read"
    BY <1>6 DEF ReadBalance, Move, Goto
  <2>2. BankTypes'
    BY <1>1, <1>2, <1>3, <2>1 DEF BankTypes, BankPlaces
  <2>3. NoUpdateLost'
    BY <1>2, <2>1 DEF BankThreads, NoUpdateLost, Made, Changes
  <2>4. NextChange(t)' = NextChange(t)
    BY <1>2, <2>1 DEF NextChange, Changes
  <2>5. JobOK(t)' /\ LocksOK(t)' /\ ReadOK(t)'
    BY <1>1, <1>2, <1>4, <2>1, <2>4 DEF JobOK, LocksOK, ReadOK, BankTypes
  <2>6. QED
    BY <1>5, <2>2, <2>3, <2>5 DEF BankThreads
<1>7. CASE WriteBalance(t)
  <2>1. /\ pc' = [pc EXCEPT ![t] = "read"] /\ read' = [read EXCEPT ![t] = 0]
        /\ change' = [change EXCEPT ![t] = change[t] + 1] /\ pc[t] = "write"
        /\ balance' = [balance EXCEPT ![a] = read[t] + NextChange(t).by]
    BY <1>7 DEF WriteBalance, Move, Goto
  <2>2. read[t] = balance[a] /\ balance[a] \in Int
    BY <1>1, <1>3, <2>1 DEF ReadOK, BankTypes
  <2>3. BankTypes'
    BY <1>1, <1>2, <1>3, <2>1, <2>2 DEF BankTypes, BankPlaces
  <2>4. NoUpdateLost'
    <3> SUFFICES ASSUME NEW b \in Accounts
                 PROVE  balance'[b] = Made(Change(b, 1))' - Made(Change(b, -1))'
      BY DEF NoUpdateLost, Change
    <3>1. balance[b] = Made(Change(b, 1)) - Made(Change(b, -1))
      BY DEF BankThreads, NoUpdateLost
    <3>2. /\ Made(Change(b, 1)) \in Nat
          /\ Made(Change(b, 1))' =
               Made(Change(b, 1)) + IF Change(b, 1) = NextChange(t) THEN 1 ELSE 0
      BY <1>7, WriteIsCounted DEF Change
    <3>3. /\ Made(Change(b, -1)) \in Nat
          /\ Made(Change(b, -1))' =
               Made(Change(b, -1)) + IF Change(b, -1) = NextChange(t) THEN 1 ELSE 0
      BY <1>7, WriteIsCounted DEF Change
    <3>4. \A x \in {1, -1} :
            Change(b, x) = NextChange(t) <=> a = b /\ NextChange(t).by = x
      BY <1>3 DEF Change
    <3>5. balance'[b] = IF b = a THEN balance[a] + NextChange(t).by ELSE balance[b]
      BY <1>1, <2>1, <2>2 DEF BankTypes
    <3> HIDE DEF a
    <3>6. QED
      BY <1>3, <2>2, <3>1, <3>2, <3>3, <3>4, <3>5
  <2>5. change[t] \in Nat /\ change'[t] = change[t] + 1 /\ pc'[t] = "read"
    BY <1>1, <2>1 DEF BankTypes
  <2>6. JobOK(t)'
    <3> DEFINE n == Len(Changes(t))
    <3>1. n \in 1..2 /\ change[t] < n
      BY <1>1, <1>2, JobShape DEF Changes
    <3>2. Changes(t)' = Changes(t) /\ job'[t] \in Jobs'
      BY <1>1, <1>2, <1>4
    <3>3. Len(Changes(t)') = n
      BY <3>2
    <3> HIDE DEF n
    <3>4. change'[t] \in 0..n
      BY <2>5, <3>1
    <3>5. QED
      BY <2>5, <3>2, <3>3, <3>4 DEF JobOK
  <2>7. LocksOK(t)' /\ ReadOK(t)'
    BY <1>1, <1>2, <1>4, <2>1, <2>5 DEF LocksOK, ReadOK
  <2>8. QED
    BY <1>5, <2>3, <2>4, <2>6, <2>7 DEF BankThreads
<1>8. QED
  BY <1>6, <1>7

\* The guards are destroyed.
LEMMA LeaveBankKeeps ==
  ASSUME BankThreads, NEW t \in Threads, LeaveBank(t)
  PROVE  BankThreads'
<1>1. BankTypes /\ JobOK(t)
  BY DEF BankThreads
<1>2. /\ pc' = [pc EXCEPT ![t] = "done"]
      /\ mut' = [m \in Mutexes |-> IF m \in Accounts /\ mut[m] = t THEN Free ELSE mut[m]]
      /\ UNCHANGED <<program, bankVars>>
  BY DEF LeaveBank, Unlock, Goto
<1>3. Jobs' = Jobs /\ Changes(t)' = Changes(t)
  BY <1>2 DEF Changes, Jobs, withdraw, Withdrawn, bankVars
<1>4. BankTypes'
  BY <1>1, <1>2 DEF BankTypes, BankPlaces, bankVars
<1>5. NoUpdateLost'
  BY <1>2 DEF BankThreads, NoUpdateLost, Made, Changes, bankVars
<1>6. ASSUME NEW u \in Threads \ {t} PROVE JobOK(u)' /\ LocksOK(u)' /\ ReadOK(u)'
  <2>1. pc'[u] = pc[u] /\ UNCHANGED <<change, read, job, program, balance>>
    BY <1>1, <1>2 DEF BankTypes, bankVars
  <2>2. \A a \in Accounts : mut[a] = u => mut'[a] = u
    BY <1>1, <1>2 DEF BankTypes, Mutexes
  <2>3. QED
    BY <2>1, <2>2, OthersStay
<1>7. pc'[t] = "done"
  BY <1>1, <1>2 DEF BankTypes
<1>8. JobOK(t)' /\ LocksOK(t)' /\ ReadOK(t)'
  BY <1>1, <1>2, <1>3, <1>7 DEF JobOK, LocksOK, ReadOK, bankVars
<1>9. QED
  BY <1>4, <1>5, <1>6, <1>8 DEF BankThreads

\* Threads change what they have locked, and lose no update.
LEMMA BankInvariant == Spec => []BankInv
<1>1. Init => BankInv
  <2> SUFFICES ASSUME Init, InBank PROVE BankThreads
    BY DEF BankInv
  <2>1. /\ pc = [t \in Threads |-> "idle"] /\ mut = [m \in Mutexes |-> Free]
        /\ balance = [a \in Accounts |-> 0] /\ job \in [Threads -> Jobs]
        /\ change = [t \in Threads |-> 0] /\ read = [t \in Threads |-> 0]
    BY DEF Init, InitThreads, BankInit
  <2>2. BankTypes
    BY <2>1 DEF BankTypes, BankPlaces
  <2>3. ASSUME NEW c PROVE Made(c) = 0
    <3>1. Marks(c) = {}
      BY <2>1 DEF Marks
    <3>2. QED
      BY <3>1, FS_EmptySet DEF Made, Marks
  <2>4. NoUpdateLost
    BY <2>1, <2>3 DEF NoUpdateLost
  <2>5. ASSUME NEW t \in Threads PROVE JobOK(t) /\ LocksOK(t) /\ ReadOK(t)
    <3>1. job[t] \in Jobs /\ Len(Changes(t)) \in 1..2
      BY <2>1, JobShape DEF Changes
    <3>2. QED
      BY <2>1, <3>1 DEF JobOK, LocksOK, ReadOK
  <2>6. QED
    BY <2>2, <2>4, <2>5 DEF BankThreads
<1>2. BankInv /\ [Next]_vars => BankInv'
  <2> SUFFICES ASSUME BankInv, [Next]_vars, InBank' PROVE BankThreads'
    BY DEF BankInv
  <2>1. InBank /\ BankThreads
    BY ProgramStays DEF BankInv, InBank
  <2>2. CASE UNCHANGED vars
    BY <2>1, <2>2
    DEF vars, frame, bankVars, BankThreads, BankTypes, JobOK, LocksOK, ReadOK, Locks, Changes,
        NextChange, NoUpdateLost, Made, Jobs, withdraw, Withdrawn
  <2>3. ASSUME NEW t \in Threads, BankStep(t) PROVE BankThreads'
    BY <2>1, <2>3, LockNextKeeps, LockBothKeeps, ChangeKeeps, LeaveBankKeeps DEF BankStep
  <2>4. QED
    BY <2>1, <2>2, <2>3, NextIsMove DEF InBank
<1>3. QED
  BY <1>1, <1>2, PTL DEF Spec

\* Every deposit, withdrawal and transfer that was made is in the balances, to
\* the last one, in whatever order the threads take the mutexes.
THEOREM UpdatesKept == Spec => [](InBank => NoUpdateLost)
<1>1. BankInv => (InBank => NoUpdateLost)
  BY DEF BankInv, BankThreads
<1>2. QED
  BY <1>1, BankInvariant, PTL

\* The threads that have taken money from an account and not given it yet.
UnderWay == {t \in Threads : change[t] = 1}

\* While there are only transfers, just that money is missing.
MissingOK ==
  (\A t \in Threads : job[t].name = "transfer") =>
    SumOn(balance, Accounts) = 0 - Cardinality(UnderWay)

MissingInv == InBank => MissingOK

\* A transfer takes 1 first, and then gives it.
LEMMA TransferMoves ==
  ASSUME BankThreads, NEW t \in Threads, WriteBalance(t), job[t].name = "transfer"
  PROVE  /\ change[t] \in {0, 1} /\ change' = [change EXCEPT ![t] = change[t] + 1]
         /\ SumOn(balance, Accounts) \in Int
         /\ SumOn(balance', Accounts) =
              SumOn(balance, Accounts) + IF change[t] = 0 THEN -1 ELSE 1
<1> DEFINE a == NextChange(t).account
           by == NextChange(t).by
<1>1. BankTypes /\ JobOK(t) /\ LocksOK(t) /\ ReadOK(t) /\ job[t] \in Jobs
  BY DEF BankThreads, JobOK
<1>2. /\ pc[t] = "write" /\ change' = [change EXCEPT ![t] = change[t] + 1]
      /\ balance' = [balance EXCEPT ![a] = read[t] + by]
  BY DEF WriteBalance, Move
<1>3. PICK x, y \in Accounts : job[t] = transfer(x, y)
  BY <1>1 DEF Jobs, deposite, withdraw
<1>4. Changes(t) = <<Change(x, -1), Change(y, 1)>>
  BY <1>3 DEF Changes, transfer
<1>5. change[t] \in {0, 1}
  <2>1. change[t] \in Nat /\ change[t] < Len(Changes(t)) /\ Len(Changes(t)) = 2
    BY <1>1, <1>2, <1>4 DEF BankTypes, JobOK
  <2>2. QED
    BY <2>1
<1>6. NextChange(t) = IF change[t] = 0 THEN Change(x, -1) ELSE Change(y, 1)
  BY <1>4, <1>5 DEF NextChange
<1>7. a \in Accounts /\ by = IF change[t] = 0 THEN -1 ELSE 1
  BY <1>6 DEF Change
<1>8. read[t] = balance[a] /\ balance \in [Accounts -> Int] /\ balance[a] \in Int
  BY <1>1, <1>2, <1>7 DEF ReadOK, BankTypes
<1> HIDE DEF a, by
<1>9. /\ SumOn(balance, Accounts) \in Int
      /\ SumOn(balance', Accounts) = SumOn(balance, Accounts) - balance[a] + (balance[a] + by)
  <2>1. balance[a] + by \in Int
    BY <1>7, <1>8
  <2>2. balance' = [balance EXCEPT ![a] = balance[a] + by]
    BY <1>2, <1>8
  <2>3. /\ balance' \in [Accounts -> Int] /\ balance'[a] = balance[a] + by
        /\ \A b \in Accounts \ {a} : balance[b] = balance'[b]
    BY <1>7, <1>8, <2>1, <2>2
  <2>4. QED
    BY <1>7, <1>8, <2>3, SumUpdate, AccountsAssumption
<1>10. QED
  BY <1>2, <1>5, <1>7, <1>8, <1>9

\* Transfers make no money: once each has done both of its changes, or neither,
\* what is in the accounts together is what was in them.
THEOREM MoneyAlwaysKept == Spec => []MoneyKept
<1>1. Init => MissingInv
  <2> SUFFICES ASSUME Init, InBank PROVE SumOn(balance, Accounts) = 0 - Cardinality(UnderWay)
    BY DEF MissingInv, MissingOK
  <2>1. UnderWay = {}
    BY DEF Init, BankInit, UnderWay
  <2>2. Cardinality(UnderWay) = 0
    BY <2>1, FS_EmptySet
  <2>3. balance = [a \in Accounts |-> 0]
    BY DEF Init, BankInit
  <2>4. SumOn(balance, Accounts) = 0
    BY <2>3, SumZero, AccountsAssumption
  <2>5. QED
    BY <2>2, <2>4
<1>2. BankInv /\ MissingInv /\ [Next]_vars => MissingInv'
  <2> SUFFICES ASSUME BankInv, MissingInv, [Next]_vars, InBank',
                      \A t \in Threads : job'[t].name = "transfer"
               PROVE  SumOn(balance', Accounts) = 0 - Cardinality(UnderWay')
    BY DEF MissingInv, MissingOK
  <2>1. InBank /\ BankThreads /\ MissingOK
    BY ProgramStays DEF BankInv, MissingInv, InBank
  <2>2. CASE UNCHANGED <<balance, job, change>>
    BY <2>1, <2>2 DEF MissingOK, UnderWay
  <2>3. ASSUME NEW t \in Threads, WriteBalance(t)
        PROVE  SumOn(balance', Accounts) = 0 - Cardinality(UnderWay')
    <3>1. \A u \in Threads : job[u].name = "transfer"
      BY <2>3 DEF WriteBalance
    <3>2. SumOn(balance, Accounts) = 0 - Cardinality(UnderWay)
      BY <2>1, <3>1 DEF MissingOK
    <3>3. /\ change[t] \in {0, 1} /\ change' = [change EXCEPT ![t] = change[t] + 1]
          /\ SumOn(balance', Accounts) =
               SumOn(balance, Accounts) + IF change[t] = 0 THEN -1 ELSE 1
      BY <2>1, <2>3, <3>1, TransferMoves
    <3>4. IsFiniteSet(UnderWay) /\ Cardinality(UnderWay) \in Nat
      BY ThreadsAssumption, FS_Subset, FS_CardinalityType DEF UnderWay
    <3>5. \A u \in Threads : change'[u] = IF u = t THEN change[t] + 1 ELSE change[u]
      BY <2>1, <3>3 DEF BankThreads, BankTypes
    <3>6. CASE change[t] = 0
      <4>1. UnderWay' = UnderWay \cup {t} /\ t \notin UnderWay
        BY <3>5, <3>6 DEF UnderWay
      <4>2. Cardinality(UnderWay') = Cardinality(UnderWay) + 1
        BY <3>4, <4>1, FS_AddElement
      <4>3. QED
        BY <3>2, <3>3, <3>4, <3>6, <4>2
    <3>7. CASE change[t] = 1
      <4>1. UnderWay' = UnderWay \ {t} /\ t \in UnderWay
        BY <3>5, <3>7 DEF UnderWay
      <4>2. Cardinality(UnderWay') = Cardinality(UnderWay) - 1
        BY <3>4, <4>1, FS_RemoveElement
      <4>3. QED
        BY <3>2, <3>3, <3>4, <3>7, <4>2
    <3>8. QED
      BY <3>3, <3>6, <3>7
  <2>4. ASSUME NEW t \in Threads, BankStep(t), ~WriteBalance(t)
        PROVE  UNCHANGED <<balance, job, change>>
    BY <2>4 DEF BankStep, LockNext, LockBoth, ReadBalance, LeaveBank, bankVars
  <2>5. QED
    BY <2>1, <2>2, <2>3, <2>4, NextIsMove DEF vars, bankVars, InBank
<1>3. BankInv /\ MissingInv => MoneyKept
  <2> SUFFICES ASSUME InBank, BankThreads, MissingOK,
                      \A t \in Threads : job[t].name = "transfer" /\ change[t] # 1
               PROVE  SumOn(balance, Accounts) = 0
    BY DEF BankInv, MissingInv, MoneyKept, BankThreads, SumOn
  <2>1. UnderWay = {}
    BY DEF UnderWay
  <2>2. QED
    BY <2>1, FS_EmptySet DEF MissingOK
<1>4. QED
  BY <1>1, <1>2, <1>3, BankInvariant, PTL DEF Spec
-----------------------------------------------------------------------------
(* The linked lists.                                                       *)

InListProgram == program \in {"queue1", "queue2"}
ListPlaces == {"idle", "done", "push", "link", "first", "advance", "pop", "take", "delete"}

ListTypes ==
  /\ pc \in [Threads -> ListPlaces] /\ mut \in [Mutexes -> Threads \cup {Free}]
  /\ head \in Nodes \cup {Null} /\ tail \in Nodes \cup {Null, Wild}
  /\ next \in [Nodes -> Nodes \cup {Null}] /\ live \subseteq Nodes
  /\ node \in [Threads -> Nodes \cup {Null}]
  /\ linked \in Seq(Nodes) /\ got \in Seq(Nodes)
  /\ emptied \in BOOLEAN /\ broken \in BOOLEAN /\ calls \in 0..MaxCalls

\* The statements under the mutex of the tail, and of the head.
AtTail(t) == pc[t] \in {"link", "first", "advance"}
AtHead(t) == pc[t] \in {"first", "take", "delete"}

EndsLocked ==
  \A t \in Threads :
    IF program = "queue2" THEN /\ AtTail(t) <=> mut["tail_mutex"] = t
                               /\ AtHead(t) <=> mut["head_mutex"] = t
    ELSE \A u \in Threads :
           pc[t] \notin {"idle", "push", "pop"} /\ pc[u] \notin {"idle", "push", "pop"} => t = u

\* Nodes are linked in the order of their numbers, and taken in that order.
InNumbers ==
  /\ \A i \in 1..Len(linked) : linked[i] = i
  /\ \A i \in 1..Len(got) : got[i] = i
  /\ Len(got) <= Len(linked)

\* There is a number left for every push that has yet to link its node.
Making == {t \in Threads : pc[t] \in {"push", "link", "first"}}
NodesLeft == Len(linked) + Cardinality(Making) <= calls

\* tail is behind while a push advances it; it may be wild until then.
TailOK ==
  IF tail = Wild THEN Len(linked) = 0 /\ \A t \in Threads : pc[t] \notin {"first", "advance"}
  ELSE tail = Len(linked) - (IF \E t \in Threads : pc[t] = "advance" THEN 1 ELSE 0)

\* The node that a thread has in its hands.
HandsOK ==
  \A t \in Threads :
    /\ pc[t] \in {"link", "first"} => node[t] = Len(linked) + 1
    /\ pc[t] = "first" => Len(linked) = 0
    /\ pc[t] = "advance" => node[t] = Len(linked) /\ node[t] # Null
    /\ pc[t] = "delete" => node[t] = Len(got) /\ node[t] # Null
    /\ pc[t] \in {"link", "first"} /\ ~emptied => node[t] \in live

\* Only nodes that have been made exist.
LiveOK ==
  \A n \in live : \/ n <= Len(linked)
                  \/ n = Len(linked) + 1 /\ \E t \in Threads : pc[t] \in {"link", "first"}

\* Until the last node is taken, the nodes from head on form the list; the one
\* taken last owns none, so that none is deleted with it.
ListOK ==
  IF emptied THEN head = Null /\ Len(linked) # 0
  ELSE /\ head = IF Len(got) = Len(linked) THEN Null ELSE Len(got) + 1
       /\ Len(got) = Len(linked) => Len(linked) = 0
       /\ \A n \in Nodes : next[n] = IF Len(got) < n /\ n < Len(linked) THEN n + 1
                                     ELSE IF n < Len(got) THEN next[n] ELSE Null
       /\ \A n \in Nodes : Len(got) < n /\ n <= Len(linked) => n \in live

ListThreads ==
  /\ EndsLocked /\ NodesLeft /\ TailOK /\ HandsOK /\ LiveOK /\ ListOK

\* What is undefined: the last node is gone, tail was never set, or a push and a
\* pop of the second queue are at the only node.
Excuse == emptied \/ tail = Wild \/ (program = "queue2" /\ head # Null /\ head = tail)

\* A broken program is over.
ListBroken == Excuse /\ \A t \in Threads : pc[t] = "done"

LinkedInv == ListTypes /\ InNumbers /\ IF broken THEN ListBroken ELSE ListThreads
ListInv == InListProgram => LinkedInv

\* Only one thread is at each end of the list.
LEMMA ListAlone ==
  ASSUME EndsLocked
  PROVE  \A t, u \in Threads : (AtTail(t) /\ AtTail(u)) \/ (AtHead(t) /\ AtHead(u)) => t = u
BY DEF EndsLocked, AtTail, AtHead

\* How the number of pushes under way changes when a thread goes somewhere.
LEMMA MakingChanges ==
  ASSUME ListTypes, NEW t \in Threads, NEW l, Goto(t, l)
  PROVE  /\ Cardinality(Making) \in Nat
         /\ t \in Making => Cardinality(Making) >= 1
         /\ (pc[t] \in {"push", "link", "first"} <=> l \in {"push", "link", "first"}) =>
              Cardinality(Making') = Cardinality(Making)
         /\ pc[t] \notin {"push", "link", "first"} =>
              Cardinality(Making') <= Cardinality(Making) + 1
         /\ pc[t] \in {"push", "link", "first"} /\ l \notin {"push", "link", "first"} =>
              Cardinality(Making') = Cardinality(Making) - 1
<1>1. IsFiniteSet(Making) /\ Cardinality(Making) \in Nat
  BY ThreadsAssumption, FS_Subset, FS_CardinalityType DEF Making
<1>2. \A u \in Threads : pc'[u] = IF u = t THEN l ELSE pc[u]
  BY DEF Goto, ListTypes
<1>3. Making' = IF l \in {"push", "link", "first"} THEN Making \cup {t} ELSE Making \ {t}
  BY <1>2 DEF Making
<1>4. t \in Making <=> pc[t] \in {"push", "link", "first"}
  BY DEF Making
<1>5. t \notin Making => Cardinality(Making \cup {t}) = Cardinality(Making) + 1
  BY <1>1, FS_AddElement
<1>6. t \in Making => Cardinality(Making \ {t}) = Cardinality(Making) - 1
  BY <1>1, FS_RemoveElement
<1>7. Cardinality(Making \ {t}) \in Nat
  BY <1>1, FS_RemoveElement, FS_CardinalityType
<1>8. t \notin Making => Making \ {t} = Making
  OBVIOUS
<1>9. t \in Making => Making \cup {t} = Making
  OBVIOUS
<1>10. t \in Making => Cardinality(Making) >= 1
  BY <1>1, <1>6, <1>7
<1>11. CASE t \in Making /\ l \in {"push", "link", "first"}
  <2>1. Making' = Making
    BY <1>3, <1>9, <1>11
  <2>2. QED
    BY <1>1, <1>4, <1>10, <1>11, <2>1
<1>12. CASE t \in Making /\ l \notin {"push", "link", "first"}
  <2>1. Cardinality(Making') = Cardinality(Making) - 1
    BY <1>3, <1>6, <1>12
  <2>2. QED
    BY <1>1, <1>4, <1>10, <1>12, <2>1
<1>13. CASE t \notin Making /\ l \in {"push", "link", "first"}
  <2>1. Cardinality(Making') = Cardinality(Making) + 1
    BY <1>3, <1>5, <1>13
  <2>2. QED
    BY <1>1, <1>4, <1>10, <1>13, <2>1
<1>14. CASE t \notin Making /\ l \notin {"push", "link", "first"}
  <2>1. Making' = Making
    BY <1>3, <1>8, <1>14
  <2>2. QED
    BY <1>1, <1>4, <1>10, <1>14, <2>1
<1>15. QED
  BY <1>11, <1>12, <1>13, <1>14

\* The mutexes stay with those who are at the ends.
LEMMA EndsStayLocked ==
  ASSUME InListProgram, ListTypes, EndsLocked, NEW t \in Threads, ListMove(t), ~broken'
  PROVE  EndsLocked'
<1> USE ThreadsAssumption
    DEF InListProgram, ListTypes, EndsLocked, AtTail, AtHead, Move, Lock, Unlock, Call, Goto,
        Mutexes, Enter, Break
<1>1. CASE CallList(t)
  BY <1>1 DEF CallList
<1>2. CASE MakeNode(t)
  BY <1>2 DEF MakeNode
<1>3. CASE LinkBehind(t)
  BY <1>3 DEF LinkBehind
<1>4. CASE EnterFirst(t)
  BY <1>4 DEF EnterFirst
<1>5. CASE LinkFirst(t)
  BY <1>5 DEF LinkFirst
<1>6. CASE AdvanceTail(t)
  BY <1>6 DEF AdvanceTail
<1>7. CASE EnterPop(t)
  BY <1>7 DEF EnterPop
<1>8. CASE FindNothing(t)
  BY <1>8 DEF FindNothing
<1>9. CASE TakeNode(t)
  BY <1>9 DEF TakeNode
<1>10. CASE DeleteNode(t)
  BY <1>10 DEF DeleteNode
<1>11. QED
  BY <1>1, <1>2, <1>3, <1>4, <1>5, <1>6, <1>7, <1>8, <1>9, <1>10 DEF ListMove, ListStep

\* What is undefined ends the program.
LEMMA BreakKeepsList ==
  ASSUME LinkedInv, ~broken, NEW t \in Threads, Break(t), Excuse, UNCHANGED listVars
  PROVE  LinkedInv'
BY DEF LinkedInv, ListTypes, ListPlaces, InNumbers, ListBroken, Excuse, Break, listVars

\* A push and a pop are at the next of one node only if it is the only node.
LEMMA RacesAtOneNode ==
  ASSUME InListProgram, ListTypes, InNumbers, ListThreads, AtSameNext
  PROVE  Excuse
<1>1. PICK t \in Threads, u \in Threads :
        /\ pc[t] = "link" /\ tail # Null
        /\ \/ pc[u] = "take" /\ head = tail
           \/ pc[u] = "delete" /\ node[u] = tail
  BY DEF AtSameNext
<1>2. program = "queue2"
  BY <1>1 DEF InListProgram, ListThreads, EndsLocked
<1>3. CASE pc[u] = "take" /\ head = tail
  BY <1>1, <1>2, <1>3 DEF Excuse
<1>4. CASE pc[u] = "delete" /\ node[u] = tail
  <2>1. tail = Len(got) /\ tail # Null /\ tail # Wild
    BY <1>1, <1>4 DEF ListThreads, HandsOK, ListTypes, Nodes, Null, Wild
  <2>2. \A v \in Threads : pc[v] # "advance"
    BY <1>1, ListAlone DEF ListThreads, AtTail
  <2>3. tail = Len(linked)
    BY <2>1, <2>2 DEF ListThreads, TailOK, ListTypes
  <2>4. emptied
    BY <2>1, <2>3 DEF ListThreads, ListOK, ListTypes, Null
  <2>5. QED
    BY <2>4 DEF Excuse
<1>5. QED
  BY <1>1, <1>3, <1>4

\* The steps that leave the list and what the threads have in their hands alone.
LEMMA ListStepsAside ==
  ASSUME InListProgram, LinkedInv, ~broken, NEW t \in Threads,
         CallList(t) \/ EnterFirst(t) \/ EnterPop(t) \/ FindNothing(t)
  PROVE  LinkedInv'
<1>1. ListTypes /\ InNumbers /\ ListThreads
  BY DEF LinkedInv
<1>2. broken' = broken /\ UNCHANGED listVars
  BY DEF CallList, EnterFirst, EnterPop, FindNothing, Enter, Move, Lock, Unlock, Call, Goto
<1>3. ListTypes' /\ InNumbers'
  <2>1. pc' \in [Threads -> ListPlaces] /\ calls' \in 0..MaxCalls
    BY <1>1, BoundsAssumption
    DEF ListTypes, ListPlaces, CallList, EnterFirst, EnterPop, FindNothing, Enter, Move, Lock,
        Unlock, Call, Goto
  <2>2. mut' \in [Mutexes -> Threads \cup {Free}]
    BY <1>1
    DEF ListTypes, CallList, EnterFirst, EnterPop, FindNothing, Enter, Move, Lock, Unlock, Call
  <2>3. QED
    BY <1>1, <1>2, <2>1, <2>2 DEF ListTypes, InNumbers, listVars
<1>4. EndsLocked'
  BY <1>1, <1>2, EndsStayLocked DEF ListMove, ListStep, ListThreads
<1>5. PICK l \in ListPlaces : /\ Goto(t, l) /\ calls' \in Int
                              /\ \/ pc[t] = "idle" /\ l \in {"push", "pop"} /\ calls' = calls + 1
                                 \/ pc[t] = "link" /\ l = "first" /\ calls' = calls /\ tail = Null
                                 \/ pc[t] = "pop" /\ l = "take" /\ calls' = calls
                                 \/ pc[t] = "take" /\ l = "idle" /\ calls' = calls
  BY <1>1
  DEF ListTypes, ListPlaces, CallList, EnterFirst, EnterPop, FindNothing, Enter, Move,
      Lock, Unlock, Call
<1>6. \A u \in Threads : pc'[u] = IF u = t THEN l ELSE pc[u]
  BY <1>1, <1>5 DEF Goto, ListTypes
<1>7. NodesLeft'
  <2>1. Cardinality(Making') <= Cardinality(Making) + (calls' - calls)
    BY <1>1, <1>5, MakingChanges DEF ListTypes
  <2>2. Cardinality(Making) \in Nat /\ Cardinality(Making') \in Nat
    BY <1>1, <1>3, <1>5, MakingChanges, ThreadsAssumption, FS_Subset, FS_CardinalityType
    DEF Making
  <2>3. QED
    BY <1>1, <1>2, <1>5, <2>1, <2>2 DEF ListThreads, NodesLeft, ListTypes, listVars
<1>8. \A u \in Threads : pc[u] = "advance" <=> pc'[u] = "advance"
  BY <1>5, <1>6
<1>9. pc[t] = "link" => Len(linked) = 0
  BY <1>1, <1>5, ListAlone DEF ListThreads, TailOK, AtTail, Null, Wild, ListTypes
<1>10. TailOK' /\ HandsOK' /\ LiveOK' /\ ListOK'
  BY <1>1, <1>2, <1>5, <1>6, <1>8, <1>9
  DEF ListThreads, TailOK, HandsOK, LiveOK, ListOK, listVars, Null, Wild
<1>11. QED
  BY <1>2, <1>3, <1>4, <1>7, <1>10 DEF LinkedInv, ListThreads

\* A push makes the node with the next number.
LEMMA MakeNodeKeeps ==
  ASSUME InListProgram, LinkedInv, ~broken, NEW t \in Threads, MakeNode(t)
  PROVE  LinkedInv'
<1> DEFINE n == Len(linked)
<1>1. ListTypes /\ InNumbers /\ ListThreads
  BY DEF LinkedInv
<1>2. /\ Goto(t, "link") /\ pc[t] = "push" /\ ~broken'
      /\ UNCHANGED <<calls, broken, head, tail, next, linked, got, emptied>>
  BY DEF MakeNode, Enter, Move, Lock
<1>3. \A u \in Threads : pc'[u] = IF u = t THEN "link" ELSE pc[u]
  BY <1>1, <1>2 DEF Goto, ListTypes
<1>4. EndsLocked'
  BY <1>1, <1>2, EndsStayLocked DEF ListMove, ListStep, ListThreads
<1>5. \A u \in Threads : pc[u] \notin {"link", "first", "advance"}
  BY <1>1, InListProgram, ThreadsAssumption
  DEF ListThreads, EndsLocked, AtTail, InListProgram, MakeNode, Enter, Lock, Move
<1>6. n \in Nat /\ n + 1 \in Nodes
  <2>1. Cardinality(Making) \in Nat /\ Cardinality(Making) >= 1
    BY <1>1, <1>2, MakingChanges DEF Making
  <2>2. QED
    BY <1>1, <2>1, BoundsAssumption DEF ListThreads, NodesLeft, ListTypes, Nodes
<1>7. node'[t] = n + 1 /\ live' = live \cup {n + 1}
  <2>1. Range(linked) = 1..n
    <3>1. DOMAIN linked = 1..n
      BY <1>1 DEF ListTypes
    <3>2. QED
      BY <1>1, <3>1 DEF Range, InNumbers
  <2>2. \A k \in live : k <= n
    BY <1>1, <1>5 DEF ListThreads, LiveOK
  <2> DEFINE S == {k \in Nodes : k \notin live /\ k \notin Range(linked)}
  <2>3. n + 1 \in S /\ \A k \in S : n + 1 <= k
    BY <1>6, <2>1, <2>2 DEF Nodes
  <2>4. \A m \in S : (\A k \in S : m <= k) => m = n + 1
    BY <2>3, <1>6 DEF Nodes
  <2>5. Min(S) = n + 1
    <3> HIDE DEF S
    <3>1. Min(S) = CHOOSE m \in S : \A k \in S : m <= k
      BY DEF Min
    <3>2. QED
      BY <2>3, <2>4, <3>1
  <2>6. node' = [node EXCEPT ![t] = n + 1] /\ live' = live \cup {n + 1}
    BY <2>5 DEF MakeNode
  <2>7. QED
    BY <1>1, <2>6 DEF ListTypes
<1>8. \A u \in Threads : u # t => node'[u] = node[u]
  BY <1>1 DEF MakeNode, ListTypes
<1>9. ListTypes' /\ InNumbers'
  <2>1. pc' \in [Threads -> ListPlaces] /\ mut' \in [Mutexes -> Threads \cup {Free}]
    BY <1>1 DEF ListTypes, ListPlaces, MakeNode, Enter, Lock, Move, Goto
  <2>2. node' \in [Threads -> Nodes \cup {Null}] /\ live' \subseteq Nodes
    <3>1. node' = [node EXCEPT ![t] = node'[t]]
      BY <1>1 DEF MakeNode, ListTypes
    <3>2. QED
      BY <1>1, <1>6, <1>7, <3>1 DEF ListTypes
  <2>3. QED
    BY <1>1, <1>2, <2>1, <2>2 DEF ListTypes, InNumbers
<1>10. NodesLeft'
  BY <1>1, <1>2, MakingChanges DEF ListThreads, NodesLeft
<1>11. TailOK'
  BY <1>1, <1>2, <1>3 DEF ListThreads, TailOK
<1>12. HandsOK'
  BY <1>1, <1>2, <1>3, <1>5, <1>7, <1>8 DEF ListThreads, HandsOK
<1>13. LiveOK'
  BY <1>1, <1>2, <1>3, <1>7 DEF ListThreads, LiveOK
<1>14. ListOK'
  BY <1>1, <1>2, <1>7 DEF ListThreads, ListOK
<1>15. QED
  BY <1>2, <1>4, <1>9, <1>10, <1>11, <1>12, <1>13, <1>14 DEF LinkedInv, ListThreads

\* What linking a node, behind the last one or as the first, does to the order.
LEMMA AppendsNumber ==
  ASSUME ListTypes, InNumbers, NEW m, m = Len(linked) + 1, m \in Nodes,
         linked' = Append(linked, m), got' = got
  PROVE  linked' \in Seq(Nodes) /\ Len(linked') = Len(linked) + 1 /\ InNumbers'
BY DEF ListTypes, InNumbers

\* A node is linked behind the last one, which exists unless it was taken.
LEMMA LinkBehindKeeps ==
  ASSUME InListProgram, LinkedInv, ~broken, NEW t \in Threads, LinkBehind(t)
  PROVE  LinkedInv'
<1> DEFINE n == Len(linked)
<1>1. ListTypes /\ InNumbers /\ ListThreads
  BY DEF LinkedInv
<1>2. pc[t] = "link" /\ tail # Null /\ UNCHANGED <<head, tail, live, node, got, emptied>>
  BY DEF LinkBehind
<1>3. \A u \in Threads : u # t => pc[u] \notin {"link", "first", "advance"}
  BY <1>1, <1>2, ListAlone DEF ListThreads, AtTail
<1>4. n \in Nat /\ node[t] = n + 1 /\ n + 1 \in Nodes
  BY <1>1, <1>2 DEF ListThreads, HandsOK, ListTypes, Nodes, Null
<1>5. tail # Wild => tail = n /\ n \in Nodes
  BY <1>1, <1>2, <1>3, <1>4 DEF ListThreads, TailOK, ListTypes, Nodes, Null, Wild
<1>6. CASE tail \notin live \/ AtSameNext
  <2>1. Break(t) /\ UNCHANGED listVars
    BY <1>2, <1>6 DEF LinkBehind, listVars
  <2>2. Excuse
    <3> SUFFICES ASSUME ~emptied, tail # Wild, tail \notin live PROVE FALSE
      BY <1>1, <1>6, RacesAtOneNode DEF ListTypes, Excuse
    <3>1. tail = n /\ n \in Nodes /\ n > 0
      BY <1>5 DEF Nodes
    <3>2. Len(got) < n
      BY <1>1, <3>1 DEF ListThreads, ListOK, InNumbers, ListTypes
    <3>3. QED
      BY <1>1, <1>6, <3>1, <3>2 DEF ListThreads, ListOK
  <2>3. QED
    BY <2>1, <2>2, BreakKeepsList
<1>7. CASE tail \in live /\ ~AtSameNext
  <2>1. /\ Goto(t, "advance") /\ UNCHANGED <<mut, calls, broken>>
        /\ next' = [next EXCEPT ![tail] = n + 1] /\ linked' = Append(linked, n + 1)
    BY <1>4, <1>7 DEF LinkBehind, Move
  <2>2. tail = n /\ n \in Nodes /\ n # 0
    BY <1>1, <1>5, <1>7 DEF ListTypes, Nodes, Wild
  <2>3. \A u \in Threads : pc'[u] = IF u = t THEN "advance" ELSE pc[u]
    BY <1>1, <2>1 DEF Goto, ListTypes
  <2>4. linked' \in Seq(Nodes) /\ Len(linked') = n + 1 /\ InNumbers'
    BY <1>1, <1>2, <1>4, <2>1, AppendsNumber
  <2>5. \A k \in Nodes : next'[k] = IF k = n THEN n + 1 ELSE next[k]
    BY <1>1, <2>1, <2>2 DEF ListTypes
  <2>6. ListTypes'
    BY <1>1, <1>2, <1>4, <2>1, <2>2, <2>4 DEF ListTypes, ListPlaces, Goto
  <2>7. EndsLocked'
    BY <1>1, <2>1, EndsStayLocked DEF ListMove, ListStep, ListThreads
  <2>8. NodesLeft'
    <3>1. Cardinality(Making) \in Nat /\ Cardinality(Making') = Cardinality(Making) - 1
      BY <1>1, <1>2, <2>1, MakingChanges
    <3>2. QED
      BY <1>1, <1>4, <2>1, <2>4, <3>1 DEF ListThreads, NodesLeft, ListTypes
  <2>9. TailOK'
    BY <1>2, <1>4, <2>2, <2>3, <2>4 DEF TailOK, Wild
  <2>10. HandsOK'
    <3> HIDE DEF n
    <3>1. \A u \in Threads : pc'[u] \notin {"link", "first"}
      BY <1>3, <2>3
    <3>2. \A u \in Threads : pc'[u] = "advance" => u = t
      BY <1>3, <2>3
    <3>3. QED
      BY <1>1, <1>2, <1>4, <2>2, <2>3, <2>4, <3>1, <3>2
      DEF ListThreads, HandsOK, Null
  <2>11. LiveOK'
    BY <1>1, <1>2, <1>4, <2>4 DEF ListThreads, LiveOK, ListTypes, Nodes
  <2>12. ListOK'
    <3>1. CASE emptied
      BY <1>1, <1>2, <1>4, <2>4, <3>1 DEF ListThreads, ListOK
    <3>2. CASE ~emptied
      <4>1. Len(got) < n /\ Len(got) \in Nat
        BY <1>1, <2>2, <3>2 DEF ListThreads, ListOK, InNumbers, ListTypes
      <4>2. n + 1 \in live
        BY <1>1, <1>2, <1>4, <3>2 DEF ListThreads, HandsOK
      <4>3. \A k \in Nodes : next'[k] = IF Len(got) < k /\ k < n + 1 THEN k + 1
                                        ELSE IF k < Len(got) THEN next'[k] ELSE Null
        <5> HIDE DEF n
        <5>1. \A k \in Nodes : next[k] = IF Len(got) < k /\ k < n THEN k + 1
                                         ELSE IF k < Len(got) THEN next[k] ELSE Null
          BY <1>1, <3>2 DEF ListThreads, ListOK, n
        <5>2. QED
          BY <1>4, <2>5, <4>1, <5>1 DEF Nodes
      <4>4. \A k \in Nodes : Len(got) < k /\ k <= n + 1 => k \in live
        BY <1>1, <1>4, <3>2, <4>2 DEF ListThreads, ListOK, Nodes
      <4>5. head = Len(got) + 1
        BY <1>1, <3>2, <4>1 DEF ListThreads, ListOK
      <4>6. QED
        <5> HIDE DEF n
        <5>1. QED
          BY <1>2, <1>4, <2>4, <3>2, <4>1, <4>3, <4>4, <4>5 DEF ListOK
    <3>3. QED
      BY <1>1, <3>1, <3>2 DEF ListTypes
  <2>13. QED
    BY <2>1, <2>4, <2>6, <2>7, <2>8, <2>9, <2>10, <2>11, <2>12 DEF LinkedInv, ListThreads
<1>8. QED
  BY <1>6, <1>7

\* The first node becomes the head.
LEMMA LinkFirstKeeps ==
  ASSUME InListProgram, LinkedInv, ~broken, NEW t \in Threads, LinkFirst(t)
  PROVE  LinkedInv'
<1>1. ListTypes /\ InNumbers /\ ListThreads
  BY DEF LinkedInv
<1>2. /\ pc[t] = "first" /\ Goto(t, "advance") /\ head' = node[t]
      /\ linked' = Append(linked, node[t])
      /\ UNCHANGED <<calls, broken, tail, next, live, node, got, emptied>>
  BY DEF LinkFirst, Unlock
<1>3. \A u \in Threads : u # t => pc[u] \notin {"link", "first", "advance", "delete"}
  BY <1>1, <1>2, ListAlone DEF ListThreads, AtTail, AtHead
<1>4. Len(linked) = 0 /\ Len(got) = 0 /\ node[t] = 1 /\ 1 \in Nodes /\ tail = Null
  <2>1. Len(linked) = 0 /\ node[t] = 1 /\ Len(got) = 0
    BY <1>1, <1>2 DEF ListThreads, HandsOK, InNumbers, ListTypes
  <2>2. 1 \in Nodes
    BY <1>1, <2>1 DEF ListTypes, Null
  <2>3. QED
    BY <1>1, <1>2, <1>3, <2>1, <2>2 DEF ListThreads, TailOK, Null
<1>5. ~emptied /\ 1 \in live
  BY <1>1, <1>2, <1>4 DEF ListThreads, ListOK, HandsOK
<1>6. \A u \in Threads : pc'[u] = IF u = t THEN "advance" ELSE pc[u]
  BY <1>1, <1>2 DEF Goto, ListTypes
<1>7. linked' \in Seq(Nodes) /\ Len(linked') = 1 /\ InNumbers'
  BY <1>1, <1>2, <1>4, AppendsNumber
<1>8. mut' \in [Mutexes -> Threads \cup {Free}]
  BY <1>1 DEF LinkFirst, Unlock, ListTypes
<1>9. ListTypes'
  BY <1>1, <1>2, <1>4, <1>7, <1>8 DEF ListTypes, ListPlaces, Goto
<1>10. EndsLocked'
  BY <1>1, <1>2, EndsStayLocked DEF ListMove, ListStep, ListThreads
<1>11. NodesLeft'
  <2>1. Cardinality(Making) \in Nat /\ Cardinality(Making') = Cardinality(Making) - 1
    BY <1>1, <1>2, MakingChanges
  <2>2. QED
    BY <1>1, <1>2, <1>4, <1>7, <2>1 DEF ListThreads, NodesLeft, ListTypes
<1>12. TailOK'
  BY <1>2, <1>4, <1>6, <1>7 DEF TailOK, Wild, Null
<1>13. HandsOK'
  BY <1>2, <1>3, <1>4, <1>6, <1>7 DEF HandsOK, Null
<1>14. LiveOK'
  <2>1. \A k \in live : k <= 1
    BY <1>1, <1>4 DEF ListThreads, LiveOK, ListTypes, Nodes
  <2>2. QED
    BY <1>2, <1>7, <2>1 DEF LiveOK
<1>15. ListOK'
  <2>1. \A k \in Nodes : next[k] = Null
    BY <1>1, <1>4, <1>5 DEF ListThreads, ListOK, Nodes
  <2>2. QED
    BY <1>2, <1>4, <1>5, <1>7, <2>1 DEF ListOK, Nodes
<1>16. QED
  BY <1>1, <1>2, <1>7, <1>9, <1>10, <1>11, <1>12, <1>13, <1>14, <1>15
  DEF LinkedInv, ListThreads

\* tail catches up.
LEMMA AdvanceTailKeeps ==
  ASSUME InListProgram, LinkedInv, ~broken, NEW t \in Threads, AdvanceTail(t)
  PROVE  LinkedInv'
<1>1. ListTypes /\ InNumbers /\ ListThreads
  BY DEF LinkedInv
<1>2. /\ pc[t] = "advance" /\ Goto(t, "idle") /\ tail' = node[t]
      /\ node' = [node EXCEPT ![t] = Null]
      /\ UNCHANGED <<calls, broken, head, next, live, linked, got, emptied>>
  BY DEF AdvanceTail, Unlock
<1>3. \A u \in Threads : u # t => pc[u] \notin {"link", "first", "advance"}
  BY <1>1, <1>2, ListAlone DEF ListThreads, AtTail
<1>4. node[t] = Len(linked) /\ node[t] # Null
  BY <1>1, <1>2 DEF ListThreads, HandsOK
<1>5. /\ \A u \in Threads : pc'[u] = IF u = t THEN "idle" ELSE pc[u]
      /\ \A u \in Threads : u # t => node'[u] = node[u]
  BY <1>1, <1>2 DEF Goto, ListTypes
<1>6. mut' \in [Mutexes -> Threads \cup {Free}]
  BY <1>1 DEF AdvanceTail, Unlock, ListTypes
<1>7. ListTypes' /\ InNumbers'
  BY <1>1, <1>2, <1>4, <1>6 DEF ListTypes, ListPlaces, Goto, InNumbers
<1>8. EndsLocked'
  BY <1>1, <1>2, EndsStayLocked DEF ListMove, ListStep, ListThreads
<1>9. NodesLeft'
  BY <1>1, <1>2, MakingChanges DEF ListThreads, NodesLeft
<1>10. TailOK'
  <2>1. tail' # Wild /\ Len(linked) \in Nat
    BY <1>1, <1>2, <1>4 DEF ListTypes, Nodes, Null, Wild
  <2>2. QED
    BY <1>2, <1>3, <1>4, <1>5, <2>1 DEF TailOK
<1>11. HandsOK'
  BY <1>1, <1>2, <1>3, <1>5 DEF ListThreads, HandsOK
<1>12. LiveOK'
  BY <1>1, <1>2, <1>5 DEF ListThreads, LiveOK
<1>13. ListOK'
  BY <1>1, <1>2 DEF ListThreads, ListOK
<1>14. QED
  BY <1>1, <1>2, <1>7, <1>8, <1>9, <1>10, <1>11, <1>12, <1>13 DEF LinkedInv, ListThreads

\* A pop takes the first node, which exists.
LEMMA TakeAloneKeeps ==
  ASSUME InListProgram, LinkedInv, ~broken, NEW t \in Threads, TakeNode(t), ~AtSameNext
  PROVE  LinkedInv'
<1> DEFINE n == Len(linked)
           m == Len(got)
<1>1. ListTypes /\ InNumbers /\ ListThreads
  BY DEF LinkedInv
<1>2. n \in Nat /\ m \in Nat /\ m <= n
  BY <1>1 DEF ListTypes, InNumbers
<1>3. ~emptied /\ head = m + 1 /\ m < n /\ head \in Nodes
  <2>1. ~emptied /\ head # Null
    BY <1>1 DEF ListThreads, ListOK, TakeNode
  <2>2. QED
    BY <1>1, <1>2, <2>1 DEF ListThreads, ListOK, ListTypes
<1>4. head \in live
  BY <1>1, <1>2, <1>3 DEF ListThreads, ListOK
<1>5. /\ Goto(t, "delete") /\ pc[t] = "take" /\ got' = Append(got, m + 1)
      /\ node' = [node EXCEPT ![t] = m + 1] /\ head' = next[m + 1]
      /\ next' = [next EXCEPT ![m + 1] = Null] /\ emptied' = (emptied \/ head' = Null)
      /\ UNCHANGED <<mut, calls, broken, tail, live, linked>>
  BY <1>3, <1>4 DEF TakeNode, Move
<1>6. /\ \A u \in Threads : pc'[u] = IF u = t THEN "delete" ELSE pc[u]
      /\ \A u \in Threads : node'[u] = IF u = t THEN m + 1 ELSE node[u]
  BY <1>1, <1>5 DEF Goto, ListTypes
<1>7. \A u \in Threads : u # t => pc[u] \notin {"first", "delete", "take"}
  BY <1>1, <1>5, ListAlone DEF ListThreads, AtHead
<1>8. got' \in Seq(Nodes) /\ Len(got') = m + 1 /\ \A i \in 1..(m + 1) : got'[i] = i
  BY <1>1, <1>2, <1>3, <1>5 DEF ListTypes, InNumbers
<1>9. head' = IF m + 1 < n THEN m + 2 ELSE Null
  BY <1>1, <1>2, <1>3, <1>5 DEF ListThreads, ListOK
<1>10. InNumbers'
  <2>1. linked' = linked /\ m + 1 <= n
    BY <1>2, <1>3, <1>5
  <2>2. QED
    BY <1>1, <1>8, <2>1 DEF InNumbers
<1>11. ListTypes'
  BY <1>1, <1>3, <1>5, <1>8 DEF ListTypes, ListPlaces, Goto
<1>12. EndsLocked'
  BY <1>1, <1>5, EndsStayLocked DEF ListMove, ListStep, ListThreads
<1>13. NodesLeft'
  BY <1>1, <1>5, MakingChanges DEF ListThreads, NodesLeft
<1>14. TailOK'
  BY <1>1, <1>5, <1>6 DEF ListThreads, TailOK
<1>15. HandsOK'
  <2>1. m + 1 # Null
    BY <1>2 DEF Null
  <2>2. QED
    BY <1>1, <1>3, <1>5, <1>6, <1>7, <1>8, <2>1 DEF ListThreads, HandsOK
<1>16. LiveOK'
  BY <1>1, <1>5, <1>6 DEF ListThreads, LiveOK
<1>17. ListOK'
  <2>1. emptied' <=> ~(m + 1 < n)
    <3>1. head' = Null <=> ~(m + 1 < n)
      BY <1>2, <1>9 DEF Null
    <3>2. QED
      BY <1>3, <1>5, <3>1
  <2>2. CASE m + 1 < n
    <3>1. \A k \in Nodes : next'[k] = IF k = m + 1 THEN Null ELSE next[k]
      BY <1>1, <1>5 DEF ListTypes
    <3>2. \A k \in Nodes : next[k] = IF m < k /\ k < n THEN k + 1
                                     ELSE IF k < m THEN next[k] ELSE Null
      BY <1>1, <1>3 DEF ListThreads, ListOK
    <3>3. \A k \in Nodes : next'[k] = IF m + 1 < k /\ k < n THEN k + 1
                                      ELSE IF k < m + 1 THEN next'[k] ELSE Null
      <4> HIDE DEF m, n
      <4>1. QED
        BY <1>2, <2>2, <3>1, <3>2 DEF Nodes
    <3>4. \A k \in Nodes : m + 1 < k /\ k <= n => k \in live'
      <4>1. \A k \in Nodes : m < k /\ k <= n => k \in live'
        BY <1>1, <1>3, <1>5 DEF ListThreads, ListOK
      <4> HIDE DEF m, n
      <4>2. QED
        BY <1>2, <4>1 DEF Nodes
    <3>5. ~emptied' /\ Len(linked') = n /\ m + 1 # n /\ head' = (m + 1) + 1
      BY <1>2, <1>5, <1>9, <2>1, <2>2
    <3> HIDE DEF m, n
    <3>6. QED
      BY <1>8, <3>3, <3>4, <3>5 DEF ListOK
  <2>3. CASE ~(m + 1 < n)
    <3>1. emptied' /\ head' = Null /\ Len(linked') # 0
      BY <1>2, <1>3, <1>5, <1>9, <2>1, <2>3
    <3>2. QED
      BY <3>1 DEF ListOK
  <2>4. QED
    BY <2>2, <2>3
<1>18. QED
  BY <1>5, <1>10, <1>11, <1>12, <1>13, <1>14, <1>15, <1>16, <1>17 DEF LinkedInv, ListThreads

LEMMA TakeNodeKeeps ==
  ASSUME InListProgram, LinkedInv, ~broken, NEW t \in Threads, TakeNode(t)
  PROVE  LinkedInv'
<1>1. CASE AtSameNext
  <2>1. Break(t) /\ UNCHANGED listVars
    BY <1>1 DEF TakeNode
  <2>2. Excuse
    BY <1>1, RacesAtOneNode DEF LinkedInv
  <2>3. QED
    BY <2>1, <2>2, BreakKeepsList
<1>2. QED
  BY <1>1, TakeAloneKeeps

\* Only the node that was taken is deleted.
LEMMA DeleteAloneKeeps ==
  ASSUME InListProgram, LinkedInv, ~broken, NEW t \in Threads, DeleteNode(t), ~AtSameNext
  PROVE  LinkedInv'
<1>1. ListTypes /\ InNumbers /\ ListThreads
  BY DEF LinkedInv
<1>2. /\ pc[t] = "delete" /\ Goto(t, "idle") /\ node' = [node EXCEPT ![t] = Null]
      /\ live' = live \ {node[t]}
      /\ UNCHANGED <<calls, broken, head, tail, next, linked, got, emptied>>
  BY DEF DeleteNode, Unlock
<1>3. node[t] = Len(got) /\ node[t] \in Nodes
  BY <1>1, <1>2 DEF ListThreads, HandsOK, ListTypes
<1>4. \A k \in live : k # Len(got) => k \in live'
  BY <1>2, <1>3
<1>5. /\ \A u \in Threads : pc'[u] = IF u = t THEN "idle" ELSE pc[u]
      /\ \A u \in Threads : u # t => node'[u] = node[u]
  BY <1>1, <1>2 DEF Goto, ListTypes
<1>6. mut' \in [Mutexes -> Threads \cup {Free}]
  BY <1>1 DEF DeleteNode, Unlock, ListTypes
<1>7. ListTypes' /\ InNumbers'
  BY <1>1, <1>2, <1>6 DEF ListTypes, ListPlaces, Goto, InNumbers
<1>8. EndsLocked'
  BY <1>1, <1>2, EndsStayLocked DEF ListMove, ListStep, ListThreads
<1>9. NodesLeft'
  BY <1>1, <1>2, MakingChanges DEF ListThreads, NodesLeft
<1>10. TailOK'
  BY <1>1, <1>2, <1>5 DEF ListThreads, TailOK
<1>11. HandsOK'
  <2>1. ~emptied => \A k \in live : k > Len(got) => k \in live'
    BY <1>1, <1>2, <1>4 DEF ListTypes, Nodes
  <2>2. Len(linked) + 1 > Len(got)
    BY <1>1 DEF InNumbers, ListTypes
  <2>3. QED
    BY <1>1, <1>2, <1>5, <2>1, <2>2 DEF ListThreads, HandsOK
<1>12. LiveOK'
  <2>1. live' \subseteq live
    BY <1>2
  <2>2. QED
    BY <1>1, <1>2, <1>5, <2>1 DEF ListThreads, LiveOK
<1>13. ListOK'
  <2>1. ~emptied => \A k \in Nodes : Len(got) < k /\ k <= Len(linked) => k \in live'
    BY <1>1, <1>2, <1>4 DEF ListThreads, ListOK, ListTypes, Nodes
  <2>2. QED
    BY <1>1, <1>2, <2>1 DEF ListThreads, ListOK
<1>14. QED
  BY <1>1, <1>2, <1>7, <1>8, <1>9, <1>10, <1>11, <1>12, <1>13 DEF LinkedInv, ListThreads

LEMMA DeleteNodeKeeps ==
  ASSUME InListProgram, LinkedInv, ~broken, NEW t \in Threads, DeleteNode(t)
  PROVE  LinkedInv'
<1>1. CASE AtSameNext
  <2>1. Break(t) /\ UNCHANGED listVars
    BY <1>1 DEF DeleteNode
  <2>2. Excuse
    BY <1>1, RacesAtOneNode DEF LinkedInv
  <2>3. QED
    BY <2>1, <2>2, BreakKeepsList
<1>2. QED
  BY <1>1, DeleteAloneKeeps

LEMMA ListInvariant == Spec => []ListInv
<1>1. Init => ListInv
  <2> SUFFICES ASSUME Init, InListProgram PROVE LinkedInv
    BY DEF ListInv
  <2>1. Making = {} /\ Cardinality(Making) = 0
    BY FS_EmptySet DEF Init, InitThreads, Making
  <2>2. Len(linked) = 0 /\ Len(got) = 0 /\ linked \in Seq(Nodes) /\ got \in Seq(Nodes)
    BY EmptySeq DEF Init, ListInit
  <2>3. ListTypes
    <3>1. pc \in [Threads -> ListPlaces] /\ mut \in [Mutexes -> Threads \cup {Free}]
      BY DEF Init, InitThreads, ListPlaces
    <3>2. calls = 0 /\ broken = FALSE
      BY DEF Init, InitThreads
    <3>3. /\ head \in Nodes \cup {Null} /\ tail \in Nodes \cup {Null, Wild}
          /\ next \in [Nodes -> Nodes \cup {Null}] /\ live \subseteq Nodes
          /\ node \in [Threads -> Nodes \cup {Null}] /\ emptied \in BOOLEAN
      BY DEF Init, ListInit
    <3>4. calls \in 0..MaxCalls
      BY <3>2, BoundsAssumption
    <3>5. broken \in BOOLEAN
      BY <3>2
    <3>6. QED
      BY <2>2, <3>1, <3>3, <3>4, <3>5 DEF ListTypes
  <2>4. EndsLocked
    BY ThreadsAssumption DEF Init, InitThreads, EndsLocked, AtTail, AtHead, Mutexes
  <2>5. NodesLeft /\ InNumbers
    BY <2>1, <2>2 DEF Init, InitThreads, NodesLeft, InNumbers
  <2>6. TailOK /\ HandsOK /\ LiveOK
    BY <2>2 DEF Init, InitThreads, ListInit, TailOK, HandsOK, LiveOK, Null, InListProgram
  <2>7. ListOK
    BY <2>2 DEF Init, ListInit, ListOK, Nodes
  <2>8. QED
    BY <2>3, <2>4, <2>5, <2>6, <2>7 DEF Init, InitThreads, LinkedInv, ListThreads
<1>2. ListInv /\ [Next]_vars => ListInv'
  <2> SUFFICES ASSUME ListInv, [Next]_vars, InListProgram' PROVE LinkedInv'
    BY DEF ListInv
  <2>1. InListProgram /\ LinkedInv
    BY ProgramStays DEF ListInv, InListProgram
  <2>2. CASE UNCHANGED vars
    BY <2>1, <2>2
    DEF vars, frame, listVars, LinkedInv, ListTypes, InNumbers, ListBroken, Excuse, ListThreads,
        EndsLocked, AtTail, AtHead, NodesLeft, Making, TailOK, HandsOK, LiveOK, ListOK
  <2>3. ASSUME NEW t \in Threads, ListMove(t) PROVE LinkedInv'
    <3>1. ~broken
      <4>1. pc[t] # "done"
        BY <2>3
        DEF ListMove, ListStep, CallList, MakeNode, LinkBehind, EnterFirst, LinkFirst,
            AdvanceTail, EnterPop, FindNothing, TakeNode, DeleteNode, Enter, Move, Lock,
            Unlock, Call
      <4>2. QED
        BY <2>1, <4>1 DEF LinkedInv, ListBroken
    <3>2. QED
      BY <2>1, <2>3, <3>1, ListStepsAside, MakeNodeKeeps, LinkBehindKeeps, LinkFirstKeeps,
         AdvanceTailKeeps, TakeNodeKeeps, DeleteNodeKeeps
      DEF ListMove, ListStep
  <2>4. QED
    BY <2>1, <2>2, <2>3, NextIsMove DEF InListProgram, InBank
<1>3. QED
  BY <1>1, <1>2, PTL DEF Spec

\* With a mutex for each end the linked list still returns what was pushed in
\* its order, and holds the rest; nothing undefined happens while it has two
\* nodes, and none but the three things that ListKept names ever does.
THEOREM ListAlwaysKept == Spec => []ListKept
<1>1. ListInv => ListKept
  <2> SUFFICES ASSUME InListProgram, LinkedInv PROVE ListKept
    BY DEF ListInv, ListKept, InListProgram
  <2> DEFINE n == Len(linked)
             m == Len(got)
             waiting == SubSeq(linked, m + 1, n)
  <2>1. ListTypes /\ InNumbers /\ n \in Nat /\ m \in Nat /\ m <= n
    BY DEF LinkedInv, InNumbers, ListTypes
  <2>2. IsPrefix(got, linked)
    <3>1. SubSeq(got, 1, m) = [i \in 1..m |-> i] /\ SubSeq(linked, 1, m) = [i \in 1..m |-> i]
      BY <2>1 DEF ListTypes, InNumbers
    <3>2. QED
      BY <2>1, <3>1 DEF IsPrefix
  <2>3. broken => \/ emptied \/ tail = Wild
                  \/ program = "queue2" /\ head # Null /\ head = tail
    BY DEF LinkedInv, ListBroken, Excuse
  <2>4. CASE ~emptied /\ ~broken
    <3>1. Len(waiting) = n - m /\ \A i \in 1..(n - m) : waiting[i] = m + i
      BY <2>1 DEF ListTypes, InNumbers
    <3>2. ListOK /\ n \in Nat /\ (n # 0 => n \in Nodes)
      BY <2>1, <2>4 DEF LinkedInv, ListThreads, ListTypes, InNumbers
    <3> HIDE DEF waiting
    <3>3. waiting = <<>> <=> m = n
      BY <2>1, <3>1
    <3>4. head = IF waiting = <<>> THEN Null ELSE waiting[1]
      BY <2>1, <2>4, <3>1, <3>2, <3>3 DEF ListOK
    <3>5. \A k \in Nodes : /\ m < k /\ k < n => next[k] = k + 1
                           /\ m < k /\ k <= n => k \in live
      BY <2>4, <3>2 DEF ListOK
    <3>6. n \in Int /\ m \in Int /\ \A k \in 1..n : k \in Nodes
      BY <2>1, <3>2, BoundsAssumption DEF Nodes
    <3>7. DOMAIN waiting = 1..(n - m)
      BY <2>1, <3>1 DEF waiting, ListTypes
    <3> HIDE DEF m, n
    <3>8. \A i \in 1..Len(waiting) - 1 : next[waiting[i]] = waiting[i + 1]
      <4> SUFFICES ASSUME NEW i \in 1..(n - m) - 1
                   PROVE  next[waiting[i]] = waiting[i + 1]
        BY <3>1
      <4>1. waiting[i] = m + i /\ waiting[i + 1] = m + i + 1 /\ m + i \in 1..n
            /\ m < m + i /\ m + i < n
        BY <2>1, <3>1, <3>6
      <4>2. QED
        BY <3>5, <3>6, <4>1
    <3>9. Range(waiting) \subseteq live
      <4> SUFFICES ASSUME NEW i \in 1..(n - m) PROVE waiting[i] \in live
        BY <3>7 DEF Range
      <4>1. waiting[i] = m + i /\ m + i \in 1..n /\ m < m + i /\ m + i <= n
        BY <2>1, <3>1, <3>6
      <4>2. QED
        BY <3>5, <3>6, <4>1
    <3>10. QED
      BY <2>2, <2>3, <3>4, <3>8, <3>9 DEF ListKept, waiting, m, n
  <2>5. QED
    BY <2>2, <2>3, <2>4 DEF ListKept
<1>2. QED
  BY <1>1, ListInvariant, PTL
=============================================================================
