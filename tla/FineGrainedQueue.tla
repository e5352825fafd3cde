-------------------------- MODULE FineGrainedQueue --------------------------
(***************************************************************************)
(* sequential_queue5 of s4_thread_safe_queue: a linked list with a dummy   *)
(* node behind its last item, one mutex for each end, and a condition      *)
(* variable for wait_pop.  push works at the tail and pop at the head at   *)
(* the same time; what keeps them apart is that they meet at the dummy     *)
(* node only.                                                              *)
(*                                                                         *)
(* The source waits on head_condition, which it does not declare, and      *)
(* notifies cv; they are taken to be one condition variable.  get_tail     *)
(* locks the tail mutex around one read and is one step that needs it      *)
(* free.  Nodes are numbered as they are linked: before that only the      *)
(* pushing thread sees its node.                                           *)
(***************************************************************************)
EXTENDS Integers, Sequences, FiniteSets

CONSTANTS Threads,    \* the threads that share the queue
          Values,     \* the items they push
          NoValue,    \* a null data pointer
          Free,       \* the owner of a mutex that nobody holds
          NoNode,     \* a null node pointer
          Ops,        \* the member functions the threads call
          MaxCalls    \* bound: how many calls the threads make together

ASSUME ThreadsAssumption == IsFiniteSet(Threads) /\ Free \notin Threads
ASSUME ValuesAssumption == NoValue \notin Values
ASSUME NodesAssumption == NoNode \notin Nat /\ MaxCalls \in Nat
ASSUME OpsAssumption == Ops \subseteq {"push", "pop", "wait_pop", "printData"}

VARIABLES head_mutex, tail_mutex,  \* the thread that holds it, or Free
          head, tail,              \* the first node, the dummy node
          data, next,              \* node -> its fields
          made,                    \* the nodes 1..made have been linked
          freed,                   \* the nodes that have been deleted
          pc,                      \* thread -> the statement it runs next
          op,                      \* thread -> the member function it is in
          arg,                     \* thread -> the item it pushes
          node,                    \* thread -> old_head or current
          res,                     \* thread -> the data pointer it has read
          popped,                  \* history: the items taken, in order
          calls                    \* calls made so far

locks == <<head_mutex, tail_mutex>>
list == <<head, tail, data, next, made, freed>>
locals == <<op, arg, node, res>>
vars == <<locks, list, pc, locals, popped, calls>>

Nodes == 1..(MaxCalls + 1)
Waiting == {t \in Threads : pc[t] = "waiting"}
Goto(t, l) == pc' = [pc EXCEPT ![t] = l]

Init ==
  /\ head_mutex = Free /\ tail_mutex = Free
  /\ head = 1 /\ tail = 1 /\ made = 1 /\ freed = {}
  /\ data = [n \in Nodes |-> NoValue]
  /\ next = [n \in Nodes |-> NoNode]
  /\ pc = [t \in Threads |-> "idle"]
  /\ op = [t \in Threads |-> "pop"]
  /\ arg = [t \in Threads |-> NoValue]
  /\ node = [t \in Threads |-> NoNode]
  /\ res = [t \in Threads |-> NoValue]
  /\ popped = <<>>
  /\ calls = 0

Call(t) ==
  /\ pc[t] = "idle" /\ calls < MaxCalls
  /\ calls' = calls + 1
  /\ \E o \in Ops :
       /\ op' = [op EXCEPT ![t] = o]
       /\ Goto(t, CASE o = "push" -> "lock_tail"
                    [] o = "printData" -> "peek"
                    [] OTHER -> "lock_head")
       /\ \E v \in IF o = "push" THEN Values ELSE {NoValue} :
            arg' = [arg EXCEPT ![t] = v]
  /\ node' = [node EXCEPT ![t] = NoNode]
  /\ res' = [res EXCEPT ![t] = NoValue]
  /\ UNCHANGED <<locks, list, popped>>
-----------------------------------------------------------------------------
(* push                                                                    *)

LockTail(t) ==
  /\ pc[t] = "lock_tail" /\ tail_mutex = Free
  /\ tail_mutex' = t
  /\ Goto(t, "data")
  /\ UNCHANGED <<head_mutex, list, locals, popped, calls>>

\* tail->data = new_data
WriteData(t) ==
  /\ pc[t] = "data"
  /\ data' = [data EXCEPT ![tail] = arg[t]]
  /\ Goto(t, "link")
  /\ UNCHANGED <<locks, head, tail, next, made, freed, locals, popped, calls>>

\* tail->next = std::move(p)
Link(t) ==
  /\ pc[t] = "link"
  /\ made' = made + 1
  /\ next' = [next EXCEPT ![tail] = made + 1]
  /\ Goto(t, "advance")
  /\ UNCHANGED <<locks, head, tail, data, freed, locals, popped, calls>>

\* tail = new_tail: from here on the item is in the queue.
Advance(t) ==
  /\ pc[t] = "advance"
  /\ tail' = made
  /\ Goto(t, "unlock_tail")
  /\ UNCHANGED <<locks, head, data, next, made, freed, locals, popped, calls>>

UnlockTail(t) ==
  /\ pc[t] = "unlock_tail"
  /\ tail_mutex' = Free
  /\ Goto(t, "notify")
  /\ UNCHANGED <<head_mutex, list, locals, popped, calls>>

\* cv.notify_one(), with no mutex held
Notify(t) ==
  /\ pc[t] = "notify"
  /\ IF Waiting = {}
     THEN Goto(t, "idle")
     ELSE \E w \in Waiting : pc' = [pc EXCEPT ![t] = "idle", ![w] = "woken"]
  /\ UNCHANGED <<locks, list, locals, popped, calls>>
-----------------------------------------------------------------------------
(* pop and wait_pop                                                        *)

\* The guard of pop, the lock of wait_pop, and wait when it takes it again.
LockHead(t) ==
  /\ pc[t] \in {"lock_head", "woken"} /\ head_mutex = Free
  /\ head_mutex' = t
  /\ Goto(t, "test")
  /\ UNCHANGED <<tail_mutex, list, locals, popped, calls>>

\* Mutant: get_tail locks nothing, as in the fourth version of the queue.
TailUnlocked == TRUE

\* get_tail can take the tail mutex.
TailFree == tail_mutex = Free

\* head.get() == get_tail(): the queue is empty; pop returns a null pointer,
\* wait_pop is about to block.
TestEmpty(t) ==
  /\ pc[t] = "test" /\ TailFree /\ head = tail
  /\ Goto(t, IF op[t] = "pop" THEN "unlock_head" ELSE "block")
  /\ UNCHANGED <<locks, list, locals, popped, calls>>

TestFull(t) ==
  /\ pc[t] = "test" /\ TailFree /\ head # tail
  /\ Goto(t, IF op[t] = "pop" THEN "read" ELSE "take")
  /\ UNCHANGED <<locks, list, locals, popped, calls>>

\* Mutant: blocks with the mutex still held.
BlockHolding(t) ==
  /\ pc[t] = "block"
  /\ Goto(t, "waiting")
  /\ UNCHANGED <<locks, list, locals, popped, calls>>

\* wait releases the head mutex and blocks, atomically.  The predicate was
\* evaluated a step before: head_mutex was held, tail_mutex no longer was.
Block(t) ==
  /\ pc[t] = "block"
  /\ head_mutex' = Free
  /\ Goto(t, "waiting")
  /\ UNCHANGED <<tail_mutex, list, locals, popped, calls>>

\* Mutant: the dummy node is taken to be in front.
ReadSecond(t) ==
  /\ pc[t] = "read"
  /\ res' = [res EXCEPT ![t] = data[next[head]]]
  /\ Goto(t, "take")
  /\ UNCHANGED <<locks, list, op, arg, node, popped, calls>>

\* pop: res(head->data)
ReadFront(t) ==
  /\ pc[t] = "read"
  /\ res' = [res EXCEPT ![t] = data[head]]
  /\ Goto(t, "take")
  /\ UNCHANGED <<locks, list, op, arg, node, popped, calls>>

\* old_head = std::move(head), which leaves head null
TakeHead(t) ==
  /\ pc[t] = "take"
  /\ node' = [node EXCEPT ![t] = head]
  /\ head' = NoNode
  /\ popped' = Append(popped, IF op[t] = "pop" THEN res[t] ELSE data[head])
  /\ Goto(t, "put")
  /\ UNCHANGED <<locks, tail, data, next, made, freed, op, arg, res, calls>>

\* head = std::move(old_head->next)
PutHead(t) ==
  /\ pc[t] = "put"
  /\ head' = next[node[t]]
  /\ next' = [next EXCEPT ![node[t]] = NoNode]
  /\ Goto(t, IF op[t] = "pop" THEN "delete" ELSE "unlock_head")
  /\ UNCHANGED <<locks, tail, data, made, freed, locals, popped, calls>>

\* The guard goes.  wait_pop still owns the node and reads its data; pop has
\* deleted it, since old_head is declared after the guard.
UnlockHead(t) ==
  /\ pc[t] = "unlock_head"
  /\ head_mutex' = Free
  /\ Goto(t, IF op[t] = "wait_pop" THEN "data_of_old" ELSE "idle")
  /\ UNCHANGED <<tail_mutex, list, locals, popped, calls>>

\* wait_pop: old_head->data
ReadOld(t) ==
  /\ pc[t] = "data_of_old"
  /\ res' = [res EXCEPT ![t] = data[node[t]]]
  /\ Goto(t, "delete")
  /\ UNCHANGED <<locks, list, op, arg, node, popped, calls>>

\* old_head goes out of scope.
Delete(t) ==
  /\ pc[t] = "delete"
  /\ freed' = freed \cup {node[t]}
  /\ Goto(t, IF op[t] = "pop" THEN "unlock_head" ELSE "idle")
  /\ UNCHANGED <<locks, head, tail, data, next, made, locals, popped, calls>>
-----------------------------------------------------------------------------
(* printData                                                               *)

\* The first test reads head without its mutex.
Peek(t) ==
  /\ pc[t] = "peek" /\ TailFree
  /\ Goto(t, IF head = tail THEN "idle" ELSE "lock_print")
  /\ UNCHANGED <<locks, list, locals, popped, calls>>

LockPrint(t) ==
  /\ pc[t] = "lock_print" /\ head_mutex = Free
  /\ head_mutex' = t
  /\ node' = [node EXCEPT ![t] = head]
  /\ Goto(t, "walk")
  /\ UNCHANGED <<tail_mutex, list, op, arg, res, popped, calls>>

\* while (current->data != nullptr) { ...; current = current->next }
Walk(t) ==
  /\ pc[t] = "walk" /\ node[t] # NoNode
  /\ Goto(t, IF data[node[t]] = NoValue THEN "unlock_head" ELSE "step")
  /\ UNCHANGED <<locks, list, locals, popped, calls>>

WalkOn(t) ==
  /\ pc[t] = "step"
  /\ node' = [node EXCEPT ![t] = next[node[t]]]
  /\ Goto(t, "walk")
  /\ UNCHANGED <<locks, list, op, arg, res, popped, calls>>
-----------------------------------------------------------------------------
Step(t) ==
  \/ LockTail(t) \/ WriteData(t) \/ Link(t) \/ Advance(t) \/ UnlockTail(t)
  \/ Notify(t)
  \/ LockHead(t) \/ TestEmpty(t) \/ TestFull(t) \/ Block(t) \/ ReadFront(t)
  \/ TakeHead(t) \/ PutHead(t) \/ UnlockHead(t) \/ ReadOld(t) \/ Delete(t)
  \/ Peek(t) \/ LockPrint(t) \/ Walk(t) \/ WalkOn(t)

Next == \E t \in Threads : Call(t) \/ Step(t)

Spec == Init /\ [][Next]_vars

\* Threads that can run are scheduled; no wakeup is spurious.
FairSpec == Spec /\ \A t \in Threads : WF_vars(Step(t))
-----------------------------------------------------------------------------
(* Properties.                                                             *)

\* The memory that a thread's next statement writes and reads without an
\* atomic: <<n, f>> is field f of node n, and n = 0 the queue object.
Writes(t) ==
  CASE pc[t] = "data" -> {<<tail, "data">>}
    [] pc[t] = "link" -> {<<tail, "next">>}
    [] pc[t] = "advance" -> {<<0, "tail">>}
    [] pc[t] = "take" -> {<<0, "head">>}
    [] pc[t] = "put" -> {<<0, "head">>, <<node[t], "next">>}
    [] pc[t] = "delete" -> {<<node[t], "data">>, <<node[t], "next">>}
    [] OTHER -> {}

Reads(t) ==
  CASE pc[t] \in {"data", "link"} -> {<<0, "tail">>}
    [] pc[t] \in {"test", "peek"} /\ TailFree -> {<<0, "head">>, <<0, "tail">>}
    [] pc[t] = "read" -> {<<0, "head">>, <<head, "data">>}
    [] pc[t] \in {"data_of_old", "walk"} -> {<<node[t], "data">>}
    [] pc[t] = "step" -> {<<node[t], "next">>}
    [] OTHER -> {}

\* printData is at the null pointer behind a node that push is filling.
OffTheEnd(t) == pc[t] = "walk" /\ node[t] = NoNode

\* printData excepted, which reads the list under one mutex only.
Printers == {t \in Threads : op[t] = "printData"}
Callers == Threads \ Printers

\* push, pop and wait_pop never touch the same memory at the same time although
\* they hold different mutexes: while the list is short they share the dummy
\* node, and get_tail under both mutexes is what keeps pop off the node that
\* push is filling.
NoDataRace ==
  \A t, u \in Callers :
    t # u => Writes(t) \cap (Writes(u) \cup Reads(u)) = {}

\* printData reads what another call writes in two places: the head, before it
\* has the mutex, and the dummy node that push is filling.
RacesOfPrint ==
  \A p \in Printers, u \in Callers : \A a \in Reads(p) \cap Writes(u) :
    a = <<0, "head">> \/ a[1] = tail

\* No statement goes through a null pointer or into a deleted node, but for a
\* printData that has walked past the dummy node.
NoDangling ==
  \A t \in Threads : \A a \in Reads(t) \cup Writes(t) :
    a[1] \in {0} \cup ((1..made) \ freed) \/ OffTheEnd(t)

\* What a race or a dangling pointer could break is sound.
MemorySafe == NoDataRace /\ RacesOfPrint /\ NoDangling

\* The queue implements Fifo, with an item in the queue from the moment tail
\* moves past it to the moment head is taken.  Node k is the k-th to be filled.
Abstract ==
  INSTANCE Fifo
    WITH items <- [k \in 1..(tail - 1 - Len(popped)) |-> data[Len(popped) + k]],
         delivered <- popped
FifoOrder == Abstract!Spec

\* Every call returns, except a wait_pop that may wait for an item: the two
\* mutexes do not deadlock.  Nothing is promised once printData has walked off
\* the end of the list.
CallsReturn ==
  \A t \in Threads :
    pc[t] # "idle" ~>
      (pc[t] \in {"idle", "waiting"} \/ \E u \in Threads : OffTheEnd(u))

\* wait_pop waits for an item and for nothing else: once the callers have
\* finished, nobody waits beside one.
WaitersServed == <>[](Waiting = {} \/ head = tail)
=============================================================================
