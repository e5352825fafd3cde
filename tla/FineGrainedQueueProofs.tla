----------------------- MODULE FineGrainedQueueProofs -----------------------
(***************************************************************************)
(* The queue with a mutex at each end is memory safe and a first-in first- *)
(* out queue: a proof for every number of threads, items and calls.        *)
(***************************************************************************)
EXTENDS FineGrainedQueue, FiniteSetTheorems, SequenceTheorems, TLAPS

-----------------------------------------------------------------------------
(* The inductive invariant.                                                *)

Locations == {"idle", "lock_tail", "data", "link", "advance", "unlock_tail", "notify",
              "lock_head", "test", "block", "waiting", "woken", "read", "take", "put",
              "unlock_head", "data_of_old", "delete",
              "peek", "lock_print", "walk", "step"}

TypeOK ==
  /\ head \in Nodes \cup {NoNode} /\ tail \in Nodes /\ made \in Nodes
  /\ data \in [Nodes -> Values \cup {NoValue}]
  /\ next \in [Nodes -> Nodes \cup {NoNode}]
  /\ freed \subseteq Nodes
  /\ pc \in [Threads -> Locations]
  /\ op \in [Threads -> {"push", "pop", "wait_pop", "printData"}]
  /\ arg \in [Threads -> Values \cup {NoValue}]
  /\ node \in [Threads -> Nodes \cup {NoNode}]
  /\ res \in [Threads -> Values \cup {NoValue}]
  /\ popped \in Seq(Values)
  /\ calls \in 0..MaxCalls

\* The statements that run under the mutex of the tail, and of the head.
AtTail(t) == pc[t] \in {"data", "link", "advance", "unlock_tail"}
AtHead(t) ==
  \/ pc[t] \in {"test", "block", "read", "take", "put", "unlock_head", "walk", "step"}
  \/ pc[t] = "delete" /\ op[t] = "pop"

MutexOK ==
  \A t \in Threads : /\ AtTail(t) <=> tail_mutex = t
                     /\ AtHead(t) <=> head_mutex = t

\* Which member function a statement belongs to.
OpAtPc ==
  \A t \in Threads :
    /\ pc[t] \in {"lock_tail", "data", "link", "advance", "unlock_tail", "notify"} =>
         op[t] = "push" /\ arg[t] \in Values
    /\ pc[t] \in {"lock_head", "test", "take", "put", "delete"} =>
         op[t] \in {"pop", "wait_pop"}
    /\ pc[t] = "read" => op[t] = "pop"
    /\ pc[t] \in {"block", "waiting", "woken", "data_of_old"} => op[t] = "wait_pop"
    /\ pc[t] = "unlock_head" => op[t] # "push"
    /\ pc[t] \in {"peek", "lock_print", "walk", "step"} => op[t] = "printData"

\* There is a node left for every push that has yet to link one.
Linking == {t \in Threads : pc[t] \in {"lock_tail", "data", "link"}}
NodesSuffice == made - 1 + Cardinality(Linking) <= calls

Front == Len(popped) + 1
Putting == \E t \in Threads : pc[t] = "put"
Advancing == \E t \in Threads : pc[t] = "advance"

\* The nodes from Front to tail form the list.  The last is the dummy node, and
\* nothing has been written behind it; head is null while a pop moves it on.
ListOK ==
  /\ Front <= tail
  /\ head = IF Putting THEN NoNode ELSE Front
  /\ made = IF Advancing THEN tail + 1 ELSE tail
  /\ next[tail] = IF Advancing THEN made ELSE NoNode
  /\ \A n \in Front..(tail - 1) : data[n] \in Values /\ next[n] = n + 1
  /\ \A n \in Nodes : tail < n => data[n] = NoValue /\ next[n] = NoNode

\* What a push and a pop know where they are.
EndsOK ==
  \A t \in Threads :
    /\ pc[t] \in {"link", "advance"} => data[tail] = arg[t]
    /\ pc[t] \in {"read", "take"} => Front < tail
    /\ pc[t] = "take" /\ op[t] = "pop" => res[t] = data[Front]
    /\ pc[t] = "put" => node[t] = Len(popped) /\ next[node[t]] = Front

\* Where a pop owns a node that is no longer in the list.
Owns(t) == \/ pc[t] \in {"put", "delete", "data_of_old"}
           \/ pc[t] = "unlock_head" /\ op[t] = "wait_pop"

\* A node that has been popped belongs to one thread until it is deleted.
OwnedOK ==
  /\ freed \subseteq 1..Len(popped)
  /\ \A t \in Threads : Owns(t) => node[t] \in 1..Len(popped) /\ node[t] \notin freed
  /\ \A t, u \in Threads : Owns(t) /\ Owns(u) /\ node[t] = node[u] => t = u

\* printData is at a node of the list, or has walked off its end.
WalkOK ==
  \A t \in Threads :
    pc[t] \in {"walk", "step"} =>
      \/ node[t] \in Front..made
      \/ pc[t] = "walk" /\ node[t] = NoNode

QueueInv == /\ TypeOK /\ MutexOK /\ OpAtPc /\ NodesSuffice
            /\ ListOK /\ EndsOK /\ OwnedOK /\ WalkOK

-----------------------------------------------------------------------------
(* Every step keeps every part of the invariant.                           *)

\* The pushes that have yet to link a node are finitely many.
LEMMA LinkingFinite == IsFiniteSet(Linking)
BY ThreadsAssumption, FS_Subset DEF Linking

\* A thread that holds the mutex of the head, and is not moving it, sees Front.
LEMMA FrontNode ==
  ASSUME QueueInv, NEW t \in Threads, pc[t] \in {"read", "take"}
  PROVE  head = Front /\ Front \in Nodes /\ data[Front] \in Values
<1>1. ~ Putting
  BY DEF QueueInv, MutexOK, AtHead, Putting
<1>2. Len(popped) \in Nat /\ tail \in Nodes /\ Front < tail
  BY LenProperties DEF QueueInv, TypeOK, EndsOK
<1>3. Front \in Nodes /\ Front \in Front..(tail - 1)
  BY <1>2, NodesAssumption DEF Front, Nodes
<1>4. QED
  BY <1>1, <1>3 DEF QueueInv, ListOK

\* Every variable keeps its type: in particular no push runs out of nodes.
LEMMA StepTypes ==
  ASSUME QueueInv, NEW t \in Threads, Call(t) \/ Step(t) PROVE TypeOK'
<1> USE NodesAssumption, ValuesAssumption, ThreadsAssumption
    DEF QueueInv, TypeOK, Locations, Goto, Nodes, locks, list, locals
<1>1. CASE Call(t)
  <2>1. PICK o \in Ops : op' = [op EXCEPT ![t] = o] /\ pc' \in [Threads -> Locations]
    BY <1>1 DEF Call
  <2>2. arg' \in [Threads -> Values \cup {NoValue}]
    BY <1>1 DEF Call
  <2>3. o \in {"push", "pop", "wait_pop", "printData"}
    BY OpsAssumption
  <2>4. op' \in [Threads -> {"push", "pop", "wait_pop", "printData"}]
    BY <2>1, <2>3
  <2>5. QED
    BY <1>1, <2>1, <2>2, <2>4 DEF Call
<1>2. CASE LockTail(t)
  BY <1>2 DEF LockTail
<1>3. CASE WriteData(t)
  BY <1>3 DEF WriteData
<1>4. CASE Link(t)
  <2>1. made + 1 \in Nodes
    <3>1. IsFiniteSet(Linking) /\ t \in Linking
      BY <1>4, LinkingFinite DEF Link, Linking
    <3>2. Cardinality(Linking) \in Nat /\ Cardinality(Linking) # 0
      BY <3>1, FS_CardinalityType, FS_EmptySet
    <3>3. QED
      BY <3>2 DEF NodesSuffice
  <2>2. QED
    BY <1>4, <2>1 DEF Link
<1>5. CASE Advance(t)
  BY <1>5 DEF Advance
<1>6. CASE UnlockTail(t)
  BY <1>6 DEF UnlockTail
<1>7. CASE Notify(t)
  BY <1>7 DEF Notify
<1>8. CASE LockHead(t)
  BY <1>8 DEF LockHead
<1>9. CASE TestEmpty(t)
  BY <1>9 DEF TestEmpty
<1>10. CASE TestFull(t)
  BY <1>10 DEF TestFull
<1>11. CASE Block(t)
  BY <1>11 DEF Block
<1>12. CASE ReadFront(t)
  <2>1. head = Front /\ Front \in Nodes
    BY <1>12, FrontNode DEF ReadFront
  <2>2. QED
    BY <1>12, <2>1 DEF ReadFront
<1>13. CASE TakeHead(t)
  <2>1. head = Front /\ Front \in Nodes /\ data[Front] \in Values
    BY <1>13, FrontNode DEF TakeHead
  <2>2. (IF op[t] = "pop" THEN res[t] ELSE data[head]) \in Values
    BY <1>13, <2>1 DEF TakeHead, EndsOK
  <2>3. popped' \in Seq(Values)
    BY <1>13, <2>2, AppendProperties DEF TakeHead
  <2>4. QED
    BY <1>13, <2>1, <2>3 DEF TakeHead
<1>14. CASE PutHead(t)
  <2>1. node[t] \in Nodes
    BY <1>14 DEF PutHead, OwnedOK, Owns
  <2>2. QED
    BY <1>14, <2>1 DEF PutHead
<1>15. CASE UnlockHead(t)
  BY <1>15 DEF UnlockHead
<1>16. CASE ReadOld(t)
  <2>1. node[t] \in Nodes
    BY <1>16 DEF ReadOld, OwnedOK, Owns
  <2>2. QED
    BY <1>16, <2>1 DEF ReadOld
<1>17. CASE Delete(t)
  <2>1. node[t] \in Nodes
    BY <1>17 DEF Delete, OwnedOK, Owns
  <2>2. QED
    BY <1>17, <2>1 DEF Delete
<1>18. CASE Peek(t)
  BY <1>18 DEF Peek
<1>19. CASE LockPrint(t)
  BY <1>19 DEF LockPrint
<1>20. CASE Walk(t)
  BY <1>20 DEF Walk
<1>21. CASE WalkOn(t)
  <2>1. node[t] \in Nodes
    BY <1>21, LenProperties DEF WalkOn, WalkOK, Front
  <2>2. QED
    BY <1>21, <2>1 DEF WalkOn
<1>22. QED
  BY <1>1, <1>2, <1>3, <1>4, <1>5, <1>6, <1>7, <1>8, <1>9, <1>10, <1>11, <1>12, <1>13, <1>14,
     <1>15, <1>16, <1>17, <1>18, <1>19, <1>20, <1>21
  DEF Step

\* Each mutex belongs to the thread that runs under it, and to no other.
LEMMA StepMutex ==
  ASSUME QueueInv, NEW t \in Threads, Call(t) \/ Step(t) PROVE MutexOK'
<1> USE NodesAssumption, ValuesAssumption, ThreadsAssumption
    DEF QueueInv, TypeOK, MutexOK, OpAtPc, AtTail, AtHead, Goto, Waiting, locks, locals
<1>1. CASE Call(t)
  BY <1>1 DEF Call
<1>2. CASE LockTail(t)
  BY <1>2 DEF LockTail
<1>3. CASE WriteData(t)
  BY <1>3 DEF WriteData
<1>4. CASE Link(t)
  BY <1>4 DEF Link
<1>5. CASE Advance(t)
  BY <1>5 DEF Advance
<1>6. CASE UnlockTail(t)
  BY <1>6 DEF UnlockTail
<1>7. CASE Notify(t)
  BY <1>7 DEF Notify
<1>8. CASE LockHead(t)
  BY <1>8 DEF LockHead
<1>9. CASE TestEmpty(t)
  BY <1>9 DEF TestEmpty
<1>10. CASE TestFull(t)
  BY <1>10 DEF TestFull
<1>11. CASE Block(t)
  BY <1>11 DEF Block
<1>12. CASE ReadFront(t)
  BY <1>12 DEF ReadFront
<1>13. CASE TakeHead(t)
  BY <1>13 DEF TakeHead
<1>14. CASE PutHead(t)
  BY <1>14 DEF PutHead
<1>15. CASE UnlockHead(t)
  BY <1>15 DEF UnlockHead
<1>16. CASE ReadOld(t)
  BY <1>16 DEF ReadOld
<1>17. CASE Delete(t)
  BY <1>17 DEF Delete
<1>18. CASE Peek(t)
  BY <1>18 DEF Peek
<1>19. CASE LockPrint(t)
  BY <1>19 DEF LockPrint
<1>20. CASE Walk(t)
  BY <1>20 DEF Walk
<1>21. CASE WalkOn(t)
  BY <1>21 DEF WalkOn
<1>22. QED
  BY <1>1, <1>2, <1>3, <1>4, <1>5, <1>6, <1>7, <1>8, <1>9, <1>10, <1>11, <1>12, <1>13, <1>14,
     <1>15, <1>16, <1>17, <1>18, <1>19, <1>20, <1>21
  DEF Step

\* A thread runs the statements of the function it has called.
LEMMA StepOpAtPc ==
  ASSUME QueueInv, NEW t \in Threads, Call(t) \/ Step(t) PROVE OpAtPc'
<1> USE OpsAssumption DEF QueueInv, TypeOK, OpAtPc, Goto, Waiting, locals
<1>1. CASE Call(t)
  BY <1>1 DEF Call
<1>2. CASE LockTail(t)
  BY <1>2 DEF LockTail
<1>3. CASE WriteData(t)
  BY <1>3 DEF WriteData
<1>4. CASE Link(t)
  BY <1>4 DEF Link
<1>5. CASE Advance(t)
  BY <1>5 DEF Advance
<1>6. CASE UnlockTail(t)
  BY <1>6 DEF UnlockTail
<1>7. CASE Notify(t)
  BY <1>7 DEF Notify
<1>8. CASE LockHead(t)
  BY <1>8 DEF LockHead
<1>9. CASE TestEmpty(t)
  BY <1>9 DEF TestEmpty
<1>10. CASE TestFull(t)
  BY <1>10 DEF TestFull
<1>11. CASE Block(t)
  BY <1>11 DEF Block
<1>12. CASE ReadFront(t)
  BY <1>12 DEF ReadFront
<1>13. CASE TakeHead(t)
  BY <1>13 DEF TakeHead
<1>14. CASE PutHead(t)
  BY <1>14 DEF PutHead
<1>15. CASE UnlockHead(t)
  BY <1>15 DEF UnlockHead
<1>16. CASE ReadOld(t)
  BY <1>16 DEF ReadOld
<1>17. CASE Delete(t)
  BY <1>17 DEF Delete
<1>18. CASE Peek(t)
  BY <1>18 DEF Peek
<1>19. CASE LockPrint(t)
  BY <1>19 DEF LockPrint
<1>20. CASE Walk(t)
  BY <1>20 DEF Walk
<1>21. CASE WalkOn(t)
  BY <1>21 DEF WalkOn
<1>22. QED
  BY <1>1, <1>2, <1>3, <1>4, <1>5, <1>6, <1>7, <1>8, <1>9, <1>10, <1>11, <1>12, <1>13, <1>14,
     <1>15, <1>16, <1>17, <1>18, <1>19, <1>20, <1>21
  DEF Step

\* What a push or a pop has found out stays true while the other end moves.
LEMMA StepEnds ==
  ASSUME QueueInv, NEW t \in Threads, Call(t) \/ Step(t) PROVE EndsOK'
<1> USE NodesAssumption, ValuesAssumption, ThreadsAssumption
    DEF QueueInv, TypeOK, MutexOK, OpAtPc, AtTail, AtHead, ListOK, EndsOK, Front, Putting,
    Advancing, Goto, Waiting, Nodes, locks, list, locals
<1>1. CASE Call(t)
  BY <1>1 DEF Call
<1>2. CASE LockTail(t)
  BY <1>2 DEF LockTail
<1>3. CASE WriteData(t)
  BY <1>3 DEF WriteData
<1>4. CASE Link(t)
  BY <1>4 DEF Link
<1>5. CASE Advance(t)
  BY <1>5 DEF Advance
<1>6. CASE UnlockTail(t)
  BY <1>6 DEF UnlockTail
<1>7. CASE Notify(t)
  BY <1>7 DEF Notify
<1>8. CASE LockHead(t)
  BY <1>8 DEF LockHead
<1>9. CASE TestEmpty(t)
  BY <1>9 DEF TestEmpty
<1>10. CASE TestFull(t)
  BY <1>10 DEF TestFull
<1>11. CASE Block(t)
  BY <1>11 DEF Block
<1>12. CASE ReadFront(t)
  BY <1>12 DEF ReadFront
<1>13. CASE TakeHead(t)
  BY <1>13 DEF TakeHead
<1>14. CASE PutHead(t)
  BY <1>14 DEF PutHead
<1>15. CASE UnlockHead(t)
  BY <1>15 DEF UnlockHead
<1>16. CASE ReadOld(t)
  BY <1>16 DEF ReadOld
<1>17. CASE Delete(t)
  BY <1>17 DEF Delete
<1>18. CASE Peek(t)
  BY <1>18 DEF Peek
<1>19. CASE LockPrint(t)
  BY <1>19 DEF LockPrint
<1>20. CASE Walk(t)
  BY <1>20 DEF Walk
<1>21. CASE WalkOn(t)
  BY <1>21 DEF WalkOn
<1>22. QED
  BY <1>1, <1>2, <1>3, <1>4, <1>5, <1>6, <1>7, <1>8, <1>9, <1>10, <1>11, <1>12, <1>13, <1>14,
     <1>15, <1>16, <1>17, <1>18, <1>19, <1>20, <1>21
  DEF Step

\* The list stays a list whichever end is worked on.
LEMMA StepList ==
  ASSUME QueueInv, NEW t \in Threads, Call(t) \/ Step(t) PROVE ListOK'
<1> USE NodesAssumption, ValuesAssumption, ThreadsAssumption
    DEF QueueInv, TypeOK, MutexOK, OpAtPc, AtTail, AtHead, ListOK, EndsOK, Front, Putting,
    Advancing, Goto, Waiting, Nodes, locks, list, locals
<1>1. CASE Call(t)
  BY <1>1 DEF Call
<1>2. CASE LockTail(t)
  BY <1>2 DEF LockTail
<1>3. CASE WriteData(t)
  BY <1>3 DEF WriteData
<1>4. CASE Link(t)
  BY <1>4 DEF Link
<1>5. CASE Advance(t)
  <2>1. ~ Advancing' /\ (Putting' <=> Putting) /\ made = tail + 1
    BY <1>5 DEF Advance
  <2>2. data[tail] \in Values /\ next[tail] = tail + 1
    BY <1>5, <2>1 DEF Advance
  <2>3. tail' = tail + 1
    BY <1>5, <2>1 DEF Advance
  <2>4. QED
    BY <1>5, <2>1, <2>2, <2>3, LenProperties DEF Advance
<1>6. CASE UnlockTail(t)
  BY <1>6 DEF UnlockTail
<1>7. CASE Notify(t)
  <2>1. \A u \in Threads : /\ pc'[u] = "put" <=> pc[u] = "put"
                           /\ pc'[u] = "advance" <=> pc[u] = "advance"
    <3>1. CASE Waiting = {}
      BY <1>7, <3>1 DEF Notify
    <3>2. ASSUME NEW w \in Waiting, pc' = [pc EXCEPT ![t] = "idle", ![w] = "woken"]
          PROVE  \A u \in Threads : /\ pc'[u] = "put" <=> pc[u] = "put"
                                    /\ pc'[u] = "advance" <=> pc[u] = "advance"
      BY <1>7, <3>2 DEF Notify
    <3>3. QED
      BY <1>7, <3>1, <3>2 DEF Notify
  <2>2. (Putting' <=> Putting) /\ (Advancing' <=> Advancing)
    BY <2>1
  <2> HIDE DEF Putting, Advancing
  <2>3. QED
    BY <1>7, <2>2 DEF Notify
<1>8. CASE LockHead(t)
  BY <1>8 DEF LockHead
<1>9. CASE TestEmpty(t)
  BY <1>9 DEF TestEmpty
<1>10. CASE TestFull(t)
  BY <1>10 DEF TestFull
<1>11. CASE Block(t)
  BY <1>11 DEF Block
<1>12. CASE ReadFront(t)
  BY <1>12 DEF ReadFront
<1>13. CASE TakeHead(t)
  BY <1>13 DEF TakeHead
<1>14. CASE PutHead(t)
  BY <1>14 DEF PutHead
<1>15. CASE UnlockHead(t)
  BY <1>15 DEF UnlockHead
<1>16. CASE ReadOld(t)
  BY <1>16 DEF ReadOld
<1>17. CASE Delete(t)
  BY <1>17 DEF Delete
<1>18. CASE Peek(t)
  BY <1>18 DEF Peek
<1>19. CASE LockPrint(t)
  BY <1>19 DEF LockPrint
<1>20. CASE Walk(t)
  BY <1>20 DEF Walk
<1>21. CASE WalkOn(t)
  BY <1>21 DEF WalkOn
<1>22. QED
  BY <1>1, <1>2, <1>3, <1>4, <1>5, <1>6, <1>7, <1>8, <1>9, <1>10, <1>11, <1>12, <1>13, <1>14,
     <1>15, <1>16, <1>17, <1>18, <1>19, <1>20, <1>21
  DEF Step

\* No node that has been popped is deleted twice or used after.
LEMMA StepOwned ==
  ASSUME QueueInv, NEW t \in Threads, Call(t) \/ Step(t) PROVE OwnedOK'
<1> USE NodesAssumption, ValuesAssumption, ThreadsAssumption
    DEF QueueInv, TypeOK, MutexOK, OpAtPc, AtTail, AtHead, ListOK, EndsOK, OwnedOK, Owns, Front,
    Putting, Goto, Waiting, Nodes, locks, list, locals
<1>1. CASE Call(t)
  BY <1>1 DEF Call
<1>2. CASE LockTail(t)
  BY <1>2 DEF LockTail
<1>3. CASE WriteData(t)
  BY <1>3 DEF WriteData
<1>4. CASE Link(t)
  BY <1>4 DEF Link
<1>5. CASE Advance(t)
  BY <1>5 DEF Advance
<1>6. CASE UnlockTail(t)
  BY <1>6 DEF UnlockTail
<1>7. CASE Notify(t)
  <2>1. \A u \in Threads : Owns(u)' <=> Owns(u)
    BY <1>7 DEF Notify
  <2> HIDE DEF Owns
  <2>2. QED
    BY <1>7, <2>1 DEF Notify
<1>8. CASE LockHead(t)
  BY <1>8 DEF LockHead
<1>9. CASE TestEmpty(t)
  BY <1>9 DEF TestEmpty
<1>10. CASE TestFull(t)
  BY <1>10 DEF TestFull
<1>11. CASE Block(t)
  BY <1>11 DEF Block
<1>12. CASE ReadFront(t)
  BY <1>12 DEF ReadFront
<1>13. CASE TakeHead(t)
  BY <1>13 DEF TakeHead
<1>14. CASE PutHead(t)
  BY <1>14 DEF PutHead
<1>15. CASE UnlockHead(t)
  BY <1>15 DEF UnlockHead
<1>16. CASE ReadOld(t)
  BY <1>16 DEF ReadOld
<1>17. CASE Delete(t)
  <2>1. /\ freed' = freed \cup {node[t]} /\ UNCHANGED <<node, op, popped>>
        /\ pc' = [pc EXCEPT ![t] = IF op[t] = "pop" THEN "unlock_head" ELSE "idle"]
    BY <1>17 DEF Delete
  <2>2. \A u \in Threads : Owns(u)' => Owns(u) /\ u # t
    BY <2>1
  <2>3. Owns(t)
    BY <1>17 DEF Delete
  <2> HIDE DEF Owns
  <2>4. QED
    BY <2>1, <2>2, <2>3
<1>18. CASE Peek(t)
  BY <1>18 DEF Peek
<1>19. CASE LockPrint(t)
  BY <1>19 DEF LockPrint
<1>20. CASE Walk(t)
  BY <1>20 DEF Walk
<1>21. CASE WalkOn(t)
  BY <1>21 DEF WalkOn
<1>22. QED
  BY <1>1, <1>2, <1>3, <1>4, <1>5, <1>6, <1>7, <1>8, <1>9, <1>10, <1>11, <1>12, <1>13, <1>14,
     <1>15, <1>16, <1>17, <1>18, <1>19, <1>20, <1>21
  DEF Step

\* printData stays in the list, or walks off its end.
LEMMA StepWalk ==
  ASSUME QueueInv, NEW t \in Threads, Call(t) \/ Step(t) PROVE WalkOK'
<1> USE NodesAssumption, ValuesAssumption, ThreadsAssumption
    DEF QueueInv, TypeOK, MutexOK, OpAtPc, AtTail, AtHead, ListOK, WalkOK, Front, Putting,
    Advancing, Goto, Waiting, Nodes, locks, list, locals
<1>1. CASE Call(t)
  BY <1>1 DEF Call
<1>2. CASE LockTail(t)
  BY <1>2 DEF LockTail
<1>3. CASE WriteData(t)
  BY <1>3 DEF WriteData
<1>4. CASE Link(t)
  <2>1. made' = made + 1 /\ UNCHANGED <<node, popped>>
    BY <1>4 DEF Link
  <2>2. \A u \in Threads : pc'[u] \in {"walk", "step"} => pc'[u] = pc[u]
    BY <1>4 DEF Link
  <2>3. Front \in Int /\ made \in Int /\ Front' = Front
    BY <2>1, LenProperties
  <2> HIDE DEF Front
  <2>4. QED
    BY <2>1, <2>2, <2>3
<1>5. CASE Advance(t)
  BY <1>5 DEF Advance
<1>6. CASE UnlockTail(t)
  BY <1>6 DEF UnlockTail
<1>7. CASE Notify(t)
  BY <1>7 DEF Notify
<1>8. CASE LockHead(t)
  BY <1>8 DEF LockHead
<1>9. CASE TestEmpty(t)
  BY <1>9 DEF TestEmpty
<1>10. CASE TestFull(t)
  BY <1>10 DEF TestFull
<1>11. CASE Block(t)
  BY <1>11 DEF Block
<1>12. CASE ReadFront(t)
  BY <1>12 DEF ReadFront
<1>13. CASE TakeHead(t)
  BY <1>13 DEF TakeHead
<1>14. CASE PutHead(t)
  BY <1>14 DEF PutHead
<1>15. CASE UnlockHead(t)
  BY <1>15 DEF UnlockHead
<1>16. CASE ReadOld(t)
  BY <1>16 DEF ReadOld
<1>17. CASE Delete(t)
  BY <1>17 DEF Delete
<1>18. CASE Peek(t)
  BY <1>18 DEF Peek
<1>19. CASE LockPrint(t)
  BY <1>19 DEF LockPrint
<1>20. CASE Walk(t)
  BY <1>20 DEF Walk
<1>21. CASE WalkOn(t)
  BY <1>21 DEF WalkOn
<1>22. QED
  BY <1>1, <1>2, <1>3, <1>4, <1>5, <1>6, <1>7, <1>8, <1>9, <1>10, <1>11, <1>12, <1>13, <1>14,
     <1>15, <1>16, <1>17, <1>18, <1>19, <1>20, <1>21
  DEF Step

\* Every push that may link a node has been counted as a call.
LEMMA StepNodes ==
  ASSUME QueueInv, NEW t \in Threads, Call(t) \/ Step(t) PROVE NodesSuffice'
<1> USE DEF QueueInv, TypeOK, Goto
<1>1. /\ IsFiniteSet(Linking) /\ Cardinality(Linking) \in Nat
      /\ made \in Nat /\ calls \in Nat /\ made - 1 + Cardinality(Linking) <= calls
  BY LinkingFinite, FS_CardinalityType, NodesAssumption DEF NodesSuffice, Nodes
<1>2. CASE Call(t)
  <2>1. Linking' \subseteq Linking \cup {t}
    BY <1>2 DEF Call, Linking
  <2>2. Cardinality(Linking') <= Cardinality(Linking) + 1 /\ Cardinality(Linking') \in Nat
    <3>1. IsFiniteSet(Linking \cup {t})
          /\ Cardinality(Linking \cup {t}) <= Cardinality(Linking) + 1
      <4>1. IsFiniteSet(Linking)
        BY <1>1
      <4>2. /\ IsFiniteSet(Linking \cup {t})
            /\ Cardinality(Linking \cup {t}) =
                 IF t \in Linking THEN Cardinality(Linking) ELSE Cardinality(Linking) + 1
        BY <4>1, FS_AddElement, Zenon
      <4>3. QED
        BY <1>1, <4>2
    <3>2. Cardinality(Linking') <= Cardinality(Linking \cup {t}) /\ IsFiniteSet(Linking')
      BY <2>1, <3>1, FS_Subset
    <3>3. Cardinality(Linking') \in Nat /\ Cardinality(Linking \cup {t}) \in Nat
      BY <3>1, <3>2, FS_CardinalityType
    <3>4. QED
      BY <1>1, <3>1, <3>2, <3>3
  <2>3. made' = made /\ calls' = calls + 1
    BY <1>2 DEF Call, list
  <2>4. QED
    BY <1>1, <2>2, <2>3 DEF NodesSuffice
<1>3. CASE Link(t)
  <2>1. Linking' = Linking \ {t} /\ t \in Linking
    BY <1>3 DEF Link, Linking
  <2>2. Cardinality(Linking') = Cardinality(Linking) - 1
    BY <1>1, <2>1, FS_RemoveElement
  <2>3. made' = made + 1 /\ calls' = calls
    BY <1>3 DEF Link
  <2>4. QED
    BY <1>1, <2>2, <2>3 DEF NodesSuffice
<1>4. CASE Notify(t)
  <2>1. Linking' = Linking
    <3>1. CASE Waiting = {}
      BY <1>4, <3>1 DEF Notify, Linking
    <3>2. ASSUME NEW w \in Waiting, pc' = [pc EXCEPT ![t] = "idle", ![w] = "woken"]
          PROVE  Linking' = Linking
      BY <1>4, <3>2 DEF Notify, Linking, Waiting
    <3>3. QED
      BY <1>4, <3>1, <3>2 DEF Notify
  <2>2. QED
    BY <1>1, <1>4, <2>1 DEF Notify, NodesSuffice, list
<1>5. CASE LockTail(t) \/ WriteData(t)
  <2>1. Linking' = Linking
    BY <1>5 DEF LockTail, WriteData, Linking
  <2>2. QED
    BY <1>1, <1>5, <2>1 DEF LockTail, WriteData, NodesSuffice, list
<1>6. CASE \/ Advance(t) \/ UnlockTail(t) \/ LockHead(t) \/ TestEmpty(t) \/ TestFull(t)
           \/ Block(t) \/ ReadFront(t) \/ TakeHead(t) \/ PutHead(t) \/ UnlockHead(t)
           \/ ReadOld(t) \/ Delete(t) \/ Peek(t) \/ LockPrint(t) \/ Walk(t) \/ WalkOn(t)
  <2>1. /\ pc[t] \notin {"lock_tail", "data", "link"}
        /\ \E l \in Locations \ {"lock_tail", "data", "link"} : pc' = [pc EXCEPT ![t] = l]
    BY <1>6
    DEF Advance, UnlockTail, LockHead, TestEmpty, TestFull, Block, ReadFront, TakeHead,
        PutHead, UnlockHead, ReadOld, Delete, Peek, LockPrint, Walk, WalkOn, Locations
  <2>2. Linking' = Linking
    BY <2>1 DEF Linking
  <2>3. made' = made /\ calls' = calls
    BY <1>6
    DEF Advance, UnlockTail, LockHead, TestEmpty, TestFull, Block, ReadFront, TakeHead,
        PutHead, UnlockHead, ReadOld, Delete, Peek, LockPrint, Walk, WalkOn, list
  <2>4. QED
    BY <1>1, <2>2, <2>3 DEF NodesSuffice
<1>7. QED
  BY <1>2, <1>3, <1>4, <1>5, <1>6 DEF Step

-----------------------------------------------------------------------------
(* The theorems.                                                           *)

\* The queue starts with its dummy node and no more.
LEMMA InitQueueInv == Init => QueueInv
<1> SUFFICES ASSUME Init PROVE QueueInv
  OBVIOUS
<1>1. 1 \in Nodes /\ MaxCalls \in Nat
  BY NodesAssumption DEF Nodes
<1>2. Len(popped) = 0 /\ popped \in Seq(Values)
  BY EmptySeq DEF Init
<1>3. TypeOK
  BY <1>1, <1>2 DEF Init, TypeOK, Locations
<1>4. MutexOK /\ OpAtPc
  BY ThreadsAssumption DEF Init, MutexOK, OpAtPc, AtTail, AtHead
<1>5. NodesSuffice
  <2>1. Linking = {}
    BY DEF Init, Linking
  <2>2. QED
    BY <2>1, FS_EmptySet DEF Init, NodesSuffice
<1>6. ListOK
  <2>1. ~ Putting /\ ~ Advancing /\ Front = 1
    BY <1>2 DEF Init, Putting, Advancing, Front
  <2>2. QED
    BY <1>1, <2>1 DEF Init, ListOK
<1>7. EndsOK /\ OwnedOK /\ WalkOK
  BY DEF Init, EndsOK, OwnedOK, Owns, WalkOK
<1>8. QED
  BY <1>3, <1>4, <1>5, <1>6, <1>7 DEF QueueInv

\* The invariant is inductive.
LEMMA NextQueueInv == QueueInv /\ [Next]_vars => QueueInv'
<1> SUFFICES ASSUME QueueInv, [Next]_vars PROVE QueueInv'
  OBVIOUS
<1>1. ASSUME NEW t \in Threads, Call(t) \/ Step(t) PROVE QueueInv'
  BY <1>1, StepTypes, StepMutex, StepOpAtPc, StepNodes, StepList, StepEnds, StepOwned,
     StepWalk DEF QueueInv
<1>2. CASE UNCHANGED vars
  BY <1>2
  DEF QueueInv, TypeOK, MutexOK, AtTail, AtHead, OpAtPc, NodesSuffice, Linking, ListOK,
      EndsOK, OwnedOK, Owns, WalkOK, Front, Putting, Advancing, vars, locks, list, locals
<1>3. QED
  BY <1>1, <1>2 DEF Next

\* It holds in every state of every behaviour.
LEMMA QueueInvariant == Spec => []QueueInv
BY InitQueueInv, NextQueueInv, PTL DEF Spec

-----------------------------------------------------------------------------
(* Memory.                                                                 *)

\* What a statement writes, field by field.
LEMMA WritesAre ==
  ASSUME NEW t \in Threads, NEW a \in Writes(t)
  PROVE  \/ pc[t] = "data" /\ a = <<tail, "data">>
         \/ pc[t] = "link" /\ a = <<tail, "next">>
         \/ pc[t] = "advance" /\ a = <<0, "tail">>
         \/ pc[t] \in {"take", "put"} /\ a = <<0, "head">>
         \/ pc[t] \in {"put", "delete"} /\ a = <<node[t], "next">>
         \/ pc[t] = "delete" /\ a = <<node[t], "data">>
BY DEF Writes

\* What a statement reads.
LEMMA ReadsAre ==
  ASSUME NEW t \in Threads, NEW a \in Reads(t)
  PROVE  \/ pc[t] \in {"data", "link"} /\ a = <<0, "tail">>
         \/ pc[t] \in {"test", "peek"} /\ TailFree /\ a \in {<<0, "head">>, <<0, "tail">>}
         \/ pc[t] = "read" /\ a \in {<<0, "head">>, <<head, "data">>}
         \/ pc[t] \in {"data_of_old", "walk"} /\ a = <<node[t], "data">>
         \/ pc[t] = "step" /\ a = <<node[t], "next">>
BY DEF Reads

\* Where the threads are in the list.
LEMMA Places ==
  ASSUME QueueInv, NEW t \in Threads
  PROVE  /\ Len(popped) \in Nat /\ tail \in Nat /\ made \in Nat
         /\ Len(popped) < tail /\ tail <= made
         /\ pc[t] = "advance" => tail < made
         /\ pc[t] = "read" => head \in Nat /\ Len(popped) < head /\ head < tail
         /\ Owns(t) => node[t] \in 1..Len(popped) /\ node[t] \notin freed
         /\ pc[t] = "put" \/ pc[t] = "delete" \/ pc[t] = "data_of_old" => Owns(t)
         /\ pc[t] \in {"walk", "step"} => \/ node[t] \in Front..made
                                         \/ OffTheEnd(t)
         /\ freed \subseteq 1..Len(popped)
<1> USE DEF QueueInv
<1>1. Len(popped) \in Nat /\ tail \in Nat /\ made \in Nat
  BY LenProperties, NodesAssumption DEF TypeOK, Nodes
<1>2. Len(popped) < tail /\ tail <= made /\ (pc[t] = "advance" => tail < made)
  BY <1>1 DEF ListOK, Front, Advancing
<1>3. pc[t] = "read" => head \in Nat /\ Len(popped) < head /\ head < tail
  BY <1>1, FrontNode DEF EndsOK, Front
<1>4. Owns(t) => node[t] \in 1..Len(popped) /\ node[t] \notin freed
  BY DEF OwnedOK
<1>5. pc[t] = "put" \/ pc[t] = "delete" \/ pc[t] = "data_of_old" => Owns(t)
  BY DEF Owns
<1>6. pc[t] \in {"walk", "step"} => node[t] \in Front..made \/ OffTheEnd(t)
  BY DEF WalkOK, OffTheEnd
<1>7. freed \subseteq 1..Len(popped)
  BY DEF OwnedOK
<1>8. QED
  BY <1>1, <1>2, <1>3, <1>4, <1>5, <1>6, <1>7

\* Two of push, pop and wait_pop never meet at a field that one writes.
LEMMA InvNoDataRace == QueueInv => NoDataRace
<1> SUFFICES ASSUME QueueInv, NEW t \in Callers, NEW u \in Callers, t # u,
                    NEW a \in Writes(t), a \in Writes(u) \cup Reads(u)
             PROVE  FALSE
  BY DEF NoDataRace
<1>1. t \in Threads /\ u \in Threads /\ op[u] # "printData"
  BY DEF Callers, Printers
<1>2. ~ (AtTail(t) /\ AtTail(u)) /\ ~ (AtHead(t) /\ AtHead(u))
  BY <1>1 DEF QueueInv, MutexOK
<1>3. AtTail(t) => ~ TailFree
  BY <1>1, ThreadsAssumption DEF QueueInv, MutexOK, TailFree
<1>4. ~ (Owns(t) /\ Owns(u) /\ node[t] = node[u])
  BY <1>1 DEF QueueInv, OwnedOK
<1>5. pc[u] \notin {"peek", "walk", "step"}
  BY <1>1 DEF QueueInv, OpAtPc
<1>6. CASE pc[t] = "data" /\ a = <<tail, "data">>
  <2>1. ASSUME a \in Writes(u) PROVE FALSE
    BY <1>1, <1>2, <1>6, <2>1, Places, WritesAre DEF AtTail
  <2>2. ASSUME a \in Reads(u) PROVE FALSE
    BY <1>1, <1>5, <1>6, <2>2, Places, ReadsAre
  <2>3. QED
    BY <2>1, <2>2
<1>7. CASE pc[t] = "link" /\ a = <<tail, "next">>
  BY <1>1, <1>2, <1>5, <1>7, Places, WritesAre, ReadsAre DEF AtTail
<1>8. CASE pc[t] = "advance" /\ a = <<0, "tail">>
  BY <1>1, <1>2, <1>3, <1>8, Places, WritesAre, ReadsAre DEF AtTail
<1>9. CASE pc[t] \in {"take", "put"} /\ a = <<0, "head">>
  BY <1>1, <1>2, <1>5, <1>9, Places, WritesAre, ReadsAre DEF AtHead
<1>10. CASE pc[t] \in {"put", "delete"} /\ a = <<node[t], "next">>
  BY <1>1, <1>4, <1>5, <1>10, Places, WritesAre, ReadsAre
<1>11. CASE pc[t] = "delete" /\ a = <<node[t], "data">>
  BY <1>1, <1>4, <1>5, <1>11, Places, WritesAre, ReadsAre
<1>12. QED
  BY <1>1, <1>6, <1>7, <1>8, <1>9, <1>10, <1>11, WritesAre

\* printData meets a writer at the head or at the dummy node.
LEMMA InvRacesOfPrint == QueueInv => RacesOfPrint
<1> SUFFICES ASSUME QueueInv, NEW p \in Printers, NEW u \in Callers,
                    NEW a \in Reads(p), a \in Writes(u), a # <<0, "head">>, a[1] # tail
             PROVE  FALSE
  BY DEF RacesOfPrint
<1>1. p \in Threads /\ u \in Threads /\ op[p] = "printData"
  BY DEF Callers, Printers
<1>2. AtTail(u) => ~ TailFree
  BY <1>1, ThreadsAssumption DEF QueueInv, MutexOK, TailFree
<1>3. pc[p] \notin {"test", "read", "data_of_old", "data", "link"}
  BY <1>1 DEF QueueInv, OpAtPc
<1>4. CASE pc[p] = "peek" /\ TailFree /\ a = <<0, "tail">>
  BY <1>1, <1>2, <1>4, Places, WritesAre DEF AtTail
<1>5. CASE pc[p] = "walk" /\ a = <<node[p], "data">>
  BY <1>1, <1>5, Places, WritesAre, NodesAssumption DEF OffTheEnd, Front
<1>6. CASE pc[p] = "step" /\ a = <<node[p], "next">>
  BY <1>1, <1>6, Places, WritesAre DEF OffTheEnd, Front
<1>7. QED
  BY <1>1, <1>3, <1>4, <1>5, <1>6, ReadsAre

\* Every node a statement touches is linked and not yet deleted.
LEMMA InvNoDangling == QueueInv => NoDangling
<1> SUFFICES ASSUME QueueInv, NEW t \in Threads, NEW a \in Reads(t) \cup Writes(t),
                    ~ OffTheEnd(t)
             PROVE  a[1] \in {0} \cup ((1..made) \ freed)
  BY DEF NoDangling
<1>1. a \in Writes(t) \/ a \in Reads(t)
  OBVIOUS
<1>2. ASSUME a \in Writes(t) PROVE a[1] \in {0} \cup ((1..made) \ freed)
  BY <1>2, Places, WritesAre
<1>3. ASSUME a \in Reads(t) PROVE a[1] \in {0} \cup ((1..made) \ freed)
  BY <1>3, Places, ReadsAre DEF Front
<1>4. QED
  BY <1>1, <1>2, <1>3

\* push under one mutex and pop under the other never touch the same memory at
\* once, printData meets them at the head and at the dummy node only, and no
\* statement goes through a null pointer or into a deleted node but that of a
\* printData that has walked off the list.
THEOREM MemoryAlwaysSafe == Spec => []MemorySafe
<1>1. QueueInv => MemorySafe
  BY InvNoDataRace, InvRacesOfPrint, InvNoDangling DEF MemorySafe
<1>2. QED
  BY <1>1, QueueInvariant, PTL

-----------------------------------------------------------------------------
(* The refinement.                                                         *)

\* A function on 1..n is a sequence.
LEMMA FunctionIsSeq ==
  ASSUME NEW S, NEW n \in Nat, NEW f \in [1..n -> S]
  PROVE  f \in Seq(S) /\ Len(f) = n
OBVIOUS

\* The items: the nodes from Front up to the dummy node.
Items == [k \in 1..(tail - 1 - Len(popped)) |-> data[Len(popped) + k]]

\* The items are a sequence of values.
LEMMA ItemsAre ==
  ASSUME QueueInv
  PROVE  /\ Len(popped) \in Nat /\ tail \in Nat /\ tail - 1 - Len(popped) \in Nat
         /\ Items \in Seq(Values) /\ Len(Items) = tail - 1 - Len(popped)
         /\ \A k \in 1..Len(Items) : Items[k] = data[Len(popped) + k]
<1>1. Len(popped) \in Nat /\ tail \in Nat /\ Len(popped) < tail
  BY LenProperties, NodesAssumption DEF QueueInv, TypeOK, Nodes, ListOK, Front
<1> DEFINE n == tail - 1 - Len(popped)
<1>2. n \in Nat
  BY <1>1
<1>3. ASSUME NEW k \in 1..n PROVE data[Len(popped) + k] \in Values
  BY <1>1, <1>3 DEF QueueInv, ListOK, Front
<1>4. Items \in [1..n -> Values]
  BY <1>3 DEF Items
<1>5. Items \in Seq(Values) /\ Len(Items) = n
  <2> HIDE DEF n
  <2>1. QED
    BY <1>2, <1>4, FunctionIsSeq
<1>6. QED
  BY <1>1, <1>2, <1>5 DEF Items

\* The conclusion of the lemma above.
ItemsOK == /\ Items \in Seq(Values) /\ Len(Items) = tail - 1 - Len(popped)
           /\ \A k \in 1..Len(Items) : Items[k] = data[Len(popped) + k]

\* The same of the next state.
LEMMA ItemsAreNext == QueueInv' => ItemsOK'
<1>1. QueueInv => ItemsOK
  BY ItemsAre DEF ItemsOK
<1>2. QED
  BY <1>1, PTL

\* When tail moves on, the item that push has written enters the queue.
LEMMA AdvanceEnters ==
  ASSUME QueueInv, QueueInv', NEW t \in Threads, Advance(t)
  PROVE  \E v \in Values : Items' = Append(Items, v) /\ popped' = popped
<1>1. made = tail + 1 /\ data[tail] \in Values
  BY DEF Advance, QueueInv, ListOK, EndsOK, OpAtPc, Advancing
<1>2. tail' = tail + 1 /\ data' = data /\ popped' = popped
  BY <1>1 DEF Advance
<1> DEFINE v == data[tail]
<1>3. /\ Append(Items, v) \in Seq(Values)
      /\ Len(Append(Items, v)) = Len(Items) + 1
      /\ \A k \in 1..Len(Items) : Append(Items, v)[k] = Items[k]
      /\ Append(Items, v)[Len(Items) + 1] = v
  BY <1>1, ItemsAre, AppendProperties
<1>4. /\ Items' \in Seq(Values) /\ Len(Items') = tail - Len(popped)
      /\ \A k \in 1..Len(Items') : Items'[k] = data[Len(popped) + k]
  <2>1. /\ Items' \in Seq(Values) /\ Len(Items') = tail' - 1 - Len(popped')
        /\ \A k \in 1..Len(Items') : Items'[k] = data'[Len(popped') + k]
    BY ItemsAreNext DEF ItemsOK
  <2>2. QED
    BY <1>2, <2>1, ItemsAre
<1> HIDE DEF Items, v
<1>5. ASSUME NEW k \in 1..Len(Items') PROVE Items'[k] = Append(Items, v)[k]
  <2>1. CASE k \in 1..Len(Items)
    BY <1>3, <1>4, <2>1, ItemsAre
  <2>2. CASE k = Len(Items) + 1
    <3>1. Len(popped) + k = tail
      BY <2>2, ItemsAre
    <3>2. QED
      BY <1>3, <1>4, <2>2, <3>1 DEF v
  <2>3. QED
    BY <1>4, <2>1, <2>2, ItemsAre
<1>6. Len(Items') = Len(Append(Items, v))
  BY <1>3, <1>4, ItemsAre
<1>7. Items' = Append(Items, v)
  BY <1>3, <1>4, <1>5, <1>6, SeqEqual
<1>8. QED
  BY <1>1, <1>2, <1>7 DEF v

\* When head is taken, the oldest item leaves the queue.
LEMMA TakeLeaves ==
  ASSUME QueueInv, QueueInv', NEW t \in Threads, TakeHead(t)
  PROVE  Items # <<>> /\ popped' = Append(popped, Head(Items)) /\ Items' = Tail(Items)
<1>1. head = Front /\ data[Front] \in Values /\ Front < tail
  BY FrontNode DEF TakeHead, QueueInv, EndsOK
<1>2. popped' = Append(popped, data[Front]) /\ tail' = tail /\ data' = data
  BY <1>1 DEF TakeHead, QueueInv, EndsOK
<1>3. Len(popped') = Len(popped) + 1
  BY <1>1, <1>2, AppendProperties DEF QueueInv, TypeOK
<1>4. Len(Items) \in Nat \ {0} /\ Items[1] = data[Front]
  BY <1>1, ItemsAre DEF Front
<1>5. Items # <<>>
  BY <1>4, EmptySeq
<1>6. /\ Head(Items) = Items[1] /\ Tail(Items) \in Seq(Values)
      /\ Len(Tail(Items)) = Len(Items) - 1
      /\ \A k \in 1..Len(Tail(Items)) : Tail(Items)[k] = Items[k + 1]
  BY <1>5, ItemsAre, HeadTailProperties
<1>7. /\ Items' \in Seq(Values) /\ Len(Items') = Len(Items) - 1
      /\ \A k \in 1..Len(Items') : Items'[k] = data[Len(popped) + 1 + k]
  <2>1. /\ Items' \in Seq(Values) /\ Len(Items') = tail' - 1 - Len(popped')
        /\ \A k \in 1..Len(Items') : Items'[k] = data'[Len(popped') + k]
    BY ItemsAreNext DEF ItemsOK
  <2>2. QED
    BY <1>2, <1>3, <2>1, ItemsAre
<1> HIDE DEF Items
<1>8. ASSUME NEW k \in 1..Len(Items') PROVE Items'[k] = Tail(Items)[k]
  <2>1. Tail(Items)[k] = Items[k + 1] /\ k + 1 \in 1..Len(Items)
    BY <1>4, <1>6, <1>7
  <2>2. Items[k + 1] = data[Len(popped) + (k + 1)]
    BY <2>1, ItemsAre
  <2>3. QED
    BY <1>4, <1>7, <2>1, <2>2, ItemsAre
<1>9. Items' = Tail(Items)
  BY <1>6, <1>7, <1>8, SeqEqual
<1>10. QED
  BY <1>2, <1>4, <1>5, <1>6, <1>9

\* Every other step leaves the items as they are: a push writes to the dummy
\* node only.
LEMMA ItemsStay ==
  ASSUME QueueInv, NEW t \in Threads, Call(t) \/ Step(t), ~ Advance(t), ~ TakeHead(t)
  PROVE  UNCHANGED <<Items, popped>>
<1>1. tail' = tail /\ popped' = popped
  BY DEF Step, list, locals, Call, LockTail, WriteData, Link, UnlockTail, Notify,
     LockHead, TestEmpty, TestFull, Block, ReadFront, PutHead, UnlockHead, ReadOld,
     Delete, Peek, LockPrint, Walk, WalkOn
<1>2. data' = data \/ \E v : data' = [data EXCEPT ![tail] = v]
  BY DEF Step, list, locals, Call, LockTail, WriteData, Link, UnlockTail, Notify,
     LockHead, TestEmpty, TestFull, Block, ReadFront, PutHead, UnlockHead, ReadOld,
     Delete, Peek, LockPrint, Walk, WalkOn
<1>3. Len(popped) \in Nat /\ tail \in Nat
  BY ItemsAre
<1>4. ASSUME NEW k \in 1..(tail - 1 - Len(popped))
      PROVE  data'[Len(popped) + k] = data[Len(popped) + k]
  <2>1. Len(popped) + k # tail /\ Len(popped) + k \in Nodes
    BY <1>3, NodesAssumption DEF QueueInv, TypeOK, Nodes
  <2>2. QED
    BY <1>2, <2>1 DEF QueueInv, TypeOK
<1>5. QED
  BY <1>1, <1>4 DEF Items

\* The queue implements the abstract first-in first-out queue.
THEOREM FifoRefinement == Spec => FifoOrder
<1>1. Items = [k \in 1..(tail - 1 - Len(popped)) |-> data[Len(popped) + k]]
  BY DEF Items
<1>2. Init => Abstract!Init
  <2> SUFFICES ASSUME Init PROVE Items = <<>> /\ popped = <<>>
    BY <1>1 DEF Abstract!Init
  <2>1. Len(popped) = 0 /\ tail = 1 /\ popped = <<>>
    BY EmptySeq DEF Init
  <2>2. Items \in Seq(Values) /\ Len(Items) = 0
    BY <2>1, InitQueueInv, ItemsAre
  <2>3. QED
    BY <2>1, <2>2, EmptySeq
<1>3. QueueInv /\ QueueInv' /\ [Next]_vars => [Abstract!Next]_Abstract!vars
  <2> SUFFICES ASSUME QueueInv, QueueInv', [Next]_vars
               PROVE  [Abstract!Next]_Abstract!vars
    OBVIOUS
  <2>1. ASSUME NEW t \in Threads, Advance(t) PROVE [Abstract!Next]_Abstract!vars
    BY <1>1, <2>1, AdvanceEnters DEF Abstract!Next, Abstract!Push, Items
  <2>2. ASSUME NEW t \in Threads, TakeHead(t) PROVE [Abstract!Next]_Abstract!vars
    BY <1>1, <2>2, TakeLeaves DEF Abstract!Next, Abstract!Pop, Items
  <2>3. ASSUME UNCHANGED <<Items, popped>> PROVE [Abstract!Next]_Abstract!vars
    BY <2>3 DEF Items, Abstract!vars
  <2>4. CASE UNCHANGED vars
    BY <2>3, <2>4 DEF vars, list, Items
  <2>5. QED
    BY <2>1, <2>2, <2>3, <2>4, ItemsStay DEF Next
<1>4. QED
  BY <1>2, <1>3, QueueInvariant, PTL DEF Spec, FifoOrder, Abstract!Spec
=============================================================================
