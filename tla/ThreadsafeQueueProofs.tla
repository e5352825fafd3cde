------------------------ MODULE ThreadsafeQueueProofs ------------------------
(***************************************************************************)
(* Proofs about ThreadsafeQueue, for any finite set of threads, any items  *)
(* and any bounds.                                                         *)
(***************************************************************************)
EXTENDS ThreadsafeQueue, FiniteSetTheorems, SequenceTheorems, TLAPS

-----------------------------------------------------------------------------
LEMMA InitQueueInv == Init => QueueInv
BY SMTT(60), ThreadsAssumption, ValuesAssumption, BoundsAssumption
   DEF Init, QueueInv, TypeOK, LockHeld, OpAtPc, NoUndefinedPop, ReadIsFront,
       Critical, Locations, Ops

\* One step of one thread keeps the invariant: the mutex makes every other
\* thread stay out of the statements that the step could disturb.
LEMMA NextQueueInv == QueueInv /\ [Next]_vars => QueueInv'
<1> USE ThreadsAssumption, ValuesAssumption, BoundsAssumption
    DEF QueueInv, LockHeld, OpAtPc, ReadIsFront, NoUndefinedPop, TypeOK,
        Critical, Locations, Ops, Goto, locals, bounds
<1> SUFFICES ASSUME QueueInv, [Next]_vars PROVE QueueInv'
  OBVIOUS
<1>1. ASSUME NEW t \in Threads, Call(t) PROVE QueueInv'
  BY <1>1 DEF Call
<1>2. ASSUME NEW t \in Threads, Lock(t) PROVE QueueInv'
  BY <1>2 DEF Lock
<1>3. ASSUME NEW t \in Threads, Push(t) PROVE QueueInv'
  BY <1>3 DEF Push
<1>4. ASSUME NEW t \in Threads, Notify(t) PROVE QueueInv'
  <2>1. CASE Waiting = {}
    BY SMTT(60), <1>4, <2>1 DEF Notify
  <2>2. CASE Waiting # {}
    <3>1. PICK w \in Threads :
            /\ pc[w] = "waiting"
            /\ pc' = [pc EXCEPT ![t] = "unlock", ![w] = "woken"]
      BY <1>4, <2>2 DEF Notify, Waiting
    <3>2. pc[t] = "notify"
          /\ UNCHANGED <<mut, data_queue, op, arg, res, popped, calls, spurious>>
      BY <1>4 DEF Notify
    <3>3. t # w
      BY <3>1, <3>2
    <3>4. pc'[t] = "unlock" /\ pc'[w] = "woken"
          /\ \A u \in Threads \ {t, w} : pc'[u] = pc[u]
      BY <3>1, <3>3
    <3>5. TypeOK'
      BY <3>1, <3>2
    <3>6. (LockHeld /\ OpAtPc /\ NoUndefinedPop /\ ReadIsFront)'
      BY <3>1, <3>2, <3>3, <3>4
    <3>7. QED
      BY <3>5, <3>6
  <2>3. QED
    BY <2>1, <2>2
<1>5. ASSUME NEW t \in Threads, TestFull(t) PROVE QueueInv'
  BY <1>5 DEF TestFull
<1>6. ASSUME NEW t \in Threads, TestMiss(t) PROVE QueueInv'
  BY <1>6 DEF TestMiss
<1>7. ASSUME NEW t \in Threads, Wait(t) PROVE QueueInv'
  BY <1>7 DEF Wait
<1>8. ASSUME NEW t \in Threads, ReadEmpty(t) PROVE QueueInv'
  BY <1>8 DEF ReadEmpty
<1>9. ASSUME NEW t \in Threads, SpuriousWakeup(t) PROVE QueueInv'
  BY <1>9 DEF SpuriousWakeup
<1>10. ASSUME NEW t \in Threads, Reacquire(t) PROVE QueueInv'
  BY <1>10 DEF Reacquire
<1>11. ASSUME NEW t \in Threads, Front(t) PROVE QueueInv'
  BY <1>11 DEF Front
<1>12. ASSUME NEW t \in Threads, Pop(t) PROVE QueueInv'
  BY SMTT(60), <1>12 DEF Pop
<1>13. ASSUME NEW t \in Threads, Unlock(t) PROVE QueueInv'
  BY SMTT(60), <1>13 DEF Unlock
<1>14. CASE UNCHANGED vars
  BY <1>14 DEF vars
<1>15. QED
  BY <1>1, <1>2, <1>3, <1>4, <1>5, <1>6, <1>7, <1>8, <1>9, <1>10, <1>11,
     <1>12, <1>13, <1>14 DEF Next, Step

LEMMA QueueInvariant == Spec => []QueueInv
BY InitQueueInv, NextQueueInv, PTL DEF Spec

\* Every variable keeps its type whatever the number of threads and calls.
THEOREM TypeCorrect == Spec => []TypeOK
<1>1. QueueInv => TypeOK
  BY DEF QueueInv
<1>2. QED
  BY <1>1, QueueInvariant, PTL

\* No thread ever applies front() or pop() to an empty std::queue.
THEOREM UndefinedPopNever == Spec => []NoUndefinedPop
<1>1. QueueInv => NoUndefinedPop
  BY DEF QueueInv
<1>2. QED
  BY <1>1, QueueInvariant, PTL

\* Every step of the threads is a push, a pop or nothing to an observer of the
\* abstract queue: the locked statements are atomic.
THEOREM FifoRefinement == Spec => FifoOrder
<1>1. Init => Abstract!Init
  BY DEF Init, Abstract!Init
<1>2. QueueInv /\ [Next]_vars => [Abstract!Next]_Abstract!vars
  <2> USE DEF QueueInv, Goto, locals, bounds, Abstract!vars
  <2> SUFFICES ASSUME QueueInv, [Next]_vars
               PROVE  [Abstract!Next]_Abstract!vars
    OBVIOUS
  <2>1. ASSUME NEW t \in Threads, Push(t) PROVE Abstract!Next
    <3>1. arg[t] \in Values
      BY <2>1 DEF Push, OpAtPc
    <3>2. Abstract!Push(arg[t])
      BY <2>1 DEF Push, Abstract!Push
    <3>3. QED
      BY <3>1, <3>2 DEF Abstract!Next
  <2>2. ASSUME NEW t \in Threads, Pop(t) PROVE Abstract!Next
    <3>1. res[t] = Head(data_queue) /\ data_queue # <<>>
      BY <2>2 DEF Pop, ReadIsFront, NoUndefinedPop
    <3>2. QED
      BY <2>2, <3>1 DEF Pop, Abstract!Pop, Abstract!Next
  <2>3. ASSUME NEW t \in Threads,
               \/ Call(t) \/ Lock(t) \/ Notify(t) \/ TestFull(t) \/ TestMiss(t)
               \/ Wait(t) \/ ReadEmpty(t) \/ SpuriousWakeup(t)
               \/ Reacquire(t) \/ Front(t) \/ Unlock(t)
        PROVE  UNCHANGED <<data_queue, popped>>
    BY <2>3 DEF Call, Lock, Notify, TestFull, TestMiss, Wait, ReadEmpty,
                SpuriousWakeup, Reacquire, Front, Unlock
  <2>4. CASE UNCHANGED vars
    BY <2>4 DEF vars
  <2>5. QED
    BY <2>1, <2>2, <2>3, <2>4 DEF Next, Step
<1>3. QED
  BY <1>1, <1>2, QueueInvariant, PTL DEF Spec, FifoOrder, Abstract!Spec
-----------------------------------------------------------------------------
(* No wakeup is lost: counting who is coming for the items.                *)

LEMMA CountedSetsFinite ==
  /\ IsFiniteSet(Active) /\ IsFiniteSet(Notifying)
  /\ Cardinality(Active) \in Nat /\ Cardinality(Notifying) \in Nat
<1>1. Active \subseteq Threads /\ Notifying \subseteq Threads
  BY DEF Active, Notifying
<1>2. QED
  BY <1>1, ThreadsAssumption, FS_Subset, FS_CardinalityType

LEMMA CountedSetsFiniteNext ==
  /\ IsFiniteSet(Active') /\ IsFiniteSet(Notifying')
  /\ Cardinality(Active') \in Nat /\ Cardinality(Notifying') \in Nat
<1>1. Active' \subseteq Threads /\ Notifying' \subseteq Threads
  BY DEF Active, Notifying
<1>2. QED
  BY <1>1, ThreadsAssumption, FS_Subset, FS_CardinalityType

\* A step that leaves the queue alone, loses nobody that is counted and lets
\* nobody start to wait cannot lose a wakeup.
LEMMA NothingLost ==
  ASSUME NoLostWakeup, TypeOK,
         Waiting' # {} => Waiting # {},
         UNCHANGED data_queue,
         Active \subseteq Active', Notifying \subseteq Notifying'
  PROVE  NoLostWakeup'
<1>1. Cardinality(Active) <= Cardinality(Active')
      /\ Cardinality(Notifying) <= Cardinality(Notifying')
  BY CountedSetsFiniteNext, FS_Subset
<1>2. Len(data_queue) \in Nat
  BY DEF TypeOK
<1>3. QED
  BY <1>1, <1>2, CountedSetsFinite, CountedSetsFiniteNext DEF NoLostWakeup

\* One step of one thread keeps the count.
LEMMA NextNoLostWakeup ==
  QueueInv /\ NoLostWakeup /\ [Next]_vars => NoLostWakeup'
<1> USE ThreadsAssumption, CountedSetsFinite, CountedSetsFiniteNext
    DEF Goto, locals, bounds
<1> SUFFICES ASSUME QueueInv, NoLostWakeup, [Next]_vars
             PROVE  NoLostWakeup'
  OBVIOUS
<1>t. TypeOK /\ OpAtPc /\ NoUndefinedPop /\ Len(data_queue) \in Nat
      /\ (data_queue # <<>> => Len(data_queue) > 0)
  BY DEF QueueInv, TypeOK
<1>1. ASSUME NEW t \in Threads,
             \/ Call(t) \/ Lock(t) \/ TestFull(t) \/ TestMiss(t)
             \/ ReadEmpty(t) \/ SpuriousWakeup(t) \/ Reacquire(t)
             \/ Front(t) \/ Unlock(t)
      PROVE  NoLostWakeup'
  <2>1. UNCHANGED data_queue
    BY <1>1 DEF Call, Lock, TestFull, TestMiss, ReadEmpty, SpuriousWakeup,
                Reacquire, Front, Unlock
  <2>2. pc[t] \notin {"notify", "pop", "push"}
        /\ pc'[t] \notin {"waiting", "notify"}
        /\ \A u \in Threads \ {t} : pc'[u] = pc[u] /\ op'[u] = op[u]
    BY <1>1, <1>t
       DEF Call, Lock, TestFull, TestMiss, ReadEmpty, SpuriousWakeup,
           Reacquire, Front, Unlock, TypeOK
  <2>3. t \in Active => t \in Active'
    BY <1>1, <1>t
       DEF Call, Lock, TestFull, TestMiss, ReadEmpty, SpuriousWakeup,
           Reacquire, Front, Unlock, TypeOK, Active
  <2>4. Waiting' # {} => Waiting # {}
    BY <2>2 DEF Waiting
  <2>5. Active \subseteq Active' /\ Notifying \subseteq Notifying'
    BY <2>2, <2>3 DEF Active, Notifying
  <2>6. QED
    BY <1>t, <2>1, <2>4, <2>5, NothingLost
<1>2. ASSUME NEW t \in Threads, Push(t) PROVE NoLostWakeup'
  <2>1. /\ pc[t] = "push" /\ pc'[t] = "notify" /\ op' = op
        /\ \A u \in Threads \ {t} : pc'[u] = pc[u]
        /\ Len(data_queue') = Len(data_queue) + 1
    BY <1>2, <1>t DEF Push, TypeOK, OpAtPc
  <2>2. Notifying' = Notifying \cup {t} /\ t \notin Notifying
    BY <2>1 DEF Notifying
  <2>3. Active' = Active /\ Waiting' = Waiting
    BY <2>1 DEF Active, Waiting
  <2>4. Cardinality(Notifying') = Cardinality(Notifying) + 1
    BY <2>2, FS_AddElement
  <2>5. QED
    BY <1>t, <2>1, <2>3, <2>4 DEF NoLostWakeup
<1>3. ASSUME NEW t \in Threads, Notify(t) PROVE NoLostWakeup'
  <2>1. CASE Waiting = {}
    <3>1. \A u \in Threads : pc'[u] # "waiting"
      BY <1>3, <1>t, <2>1 DEF Notify, Waiting, TypeOK
    <3>2. QED
      BY <3>1 DEF Waiting, NoLostWakeup
  <2>2. CASE Waiting # {}
    <3>1. PICK w \in Threads :
            /\ pc[w] = "waiting"
            /\ pc' = [pc EXCEPT ![t] = "unlock", ![w] = "woken"]
      BY <1>3, <2>2 DEF Notify, Waiting
    <3>2. pc[t] = "notify" /\ t # w /\ UNCHANGED <<data_queue, op>>
          /\ op[w] = "wait_and_pop" /\ op[t] = "push"
      BY <1>3, <1>t, <3>1 DEF Notify, OpAtPc
    <3>3. pc'[t] = "unlock" /\ pc'[w] = "woken"
          /\ \A u \in Threads \ {t, w} : pc'[u] = pc[u]
      BY <3>1, <3>2, <1>t DEF TypeOK
    <3>4. Active' = Active \cup {w} /\ w \notin Active
      BY <3>1, <3>2, <3>3 DEF Active
    <3>5. Notifying' = Notifying \ {t} /\ t \in Notifying
      BY <3>1, <3>2, <3>3 DEF Notifying
    <3>6. Cardinality(Active') = Cardinality(Active) + 1
      BY <3>4, FS_AddElement
    <3>7. Cardinality(Notifying') = Cardinality(Notifying) - 1
      BY <3>5, FS_RemoveElement
    <3>8. QED
      BY <1>t, <2>2, <3>2, <3>6, <3>7 DEF NoLostWakeup
  <2>3. QED
    BY <2>1, <2>2
<1>4. ASSUME NEW t \in Threads, Wait(t) PROVE NoLostWakeup'
  <2>1. Len(data_queue') = 0
    BY <1>4 DEF Wait
  <2>2. QED
    BY <2>1 DEF NoLostWakeup
<1>5. ASSUME NEW t \in Threads, Pop(t) PROVE NoLostWakeup'
  <2>1. /\ pc[t] = "pop" /\ pc'[t] = "unlock" /\ op' = op
        /\ \A u \in Threads \ {t} : pc'[u] = pc[u]
        /\ Len(data_queue') = Len(data_queue) - 1
    BY <1>5, <1>t DEF Pop, TypeOK, NoUndefinedPop
  <2>2. Notifying' = Notifying /\ Waiting' = Waiting
    BY <2>1 DEF Notifying, Waiting
  <2>3. Active' = Active \ {t}
    BY <2>1 DEF Active
  <2>4. Cardinality(Active') >= Cardinality(Active) - 1
    <3>1. CASE t \in Active
      BY <2>3, <3>1, FS_RemoveElement
    <3>2. CASE t \notin Active
      <4>1. Active' = Active
        BY <2>3, <3>2
      <4>2. QED
        BY <4>1
    <3>3. QED
      BY <3>1, <3>2
  <2>5. QED
    BY <1>t, <2>1, <2>2, <2>4 DEF NoLostWakeup
<1>6. CASE UNCHANGED vars
  BY <1>6 DEF vars, NoLostWakeup, Waiting, Active, Notifying
<1>7. QED
  BY <1>1, <1>2, <1>3, <1>4, <1>5, <1>6 DEF Next, Step

\* A consumer never sleeps through an item: push notifies under the lock and
\* wait tests its predicate under the same lock.
THEOREM WakeupNeverLost == Spec => []NoLostWakeup
<1>1. Init => NoLostWakeup
  BY DEF Init, NoLostWakeup, Waiting
<1>2. QED
  BY <1>1, QueueInvariant, NextNoLostWakeup, PTL DEF Spec
=============================================================================
