----------------------------- MODULE LinkedLists -----------------------------
(***************************************************************************)
(* sequential_queue1 and sequential_queue2 of                              *)
(* s4_thread_safe_queue/thread_safe_queue.h: linked lists without a dummy  *)
(* node, the first for one thread at a time, the second with a mutex for   *)
(* each end.                                                               *)
(*                                                                         *)
(* No constructor sets tail, and pop leaves it alone: when the last node   *)
(* is gone, tail points at it still.  And the ends are not apart: the next *)
(* of the only node of a list is written by a push under one mutex, and    *)
(* moved by a pop under the other.                                         *)
(***************************************************************************)
EXTENDS ProgramThreads

VARIABLES head, tail,
          next,        \* node -> the one behind it, which it owns
          live,        \* the nodes that exist
          node,        \* thread -> the node that it has made or taken
          linked,      \* history: the nodes in the order in which they were
                       \*   linked, each standing for its data,
          got,         \*   and in the order in which pop returned their data
          emptied      \* history: whether pop has taken the last node

listVars == <<head, tail, next, live, node, linked, got, emptied>>

Null == 0
Wild == -1             \* what an uninitialised pointer may be
Nodes == 1..MaxCalls

ListInit ==
  /\ head = Null
  /\ tail \in IF program \in {"queue1", "queue2"} THEN {Null, Wild} ELSE {Null}
  /\ next = [n \in Nodes |-> Null]
  /\ live = {} /\ emptied = FALSE
  /\ node = [t \in Threads |-> Null]
  /\ linked = <<>> /\ got = <<>>

\* A mutex that the second queue has is taken; the first is used by one thread.
Enter(t, m, from, to) ==
  IF program = "queue2" THEN Lock(t, m, from, to)
  ELSE Move(t, from, to) /\ \A u \in Threads \ {t} : pc[u] \in {"idle", "push", "pop"}

CallList(t) == (Call(t, "push") \/ Call(t, "pop")) /\ UNCHANGED listVars

\* The new node; the tail mutex.
MakeNode(t) ==
  LET n == Min({k \in Nodes : k \notin live /\ k \notin Range(linked)}) IN
  /\ Enter(t, "tail_mutex", "push", "link")
  /\ node' = [node EXCEPT ![t] = n]
  /\ live' = live \cup {n}
  /\ UNCHANGED <<head, tail, next, linked, got, emptied>>

\* A push is about to write the next of the last node, and a pop to move the
\* next of the first one or to destroy it, and that is the same node: no mutex
\* orders the two, and whichever comes first, they are a data race.
AtSameNext ==
  \E t, u \in Threads :
    /\ pc[t] = "link" /\ tail # Null
    /\ \/ pc[u] = "take" /\ head = tail
       \/ pc[u] = "delete" /\ node[u] = tail

\* Mutant: the tail mutex is released before tail has advanced.
LinkUnlocked(t) ==
  /\ pc[t] = "link" /\ tail # Null /\ tail \in live
  /\ Unlock(t, {"tail_mutex"}, "link", "advance")
  /\ next' = [next EXCEPT ![tail] = node[t]]
  /\ linked' = Append(linked, node[t])
  /\ UNCHANGED <<head, tail, live, node, got, emptied>>

\* if (tail) tail->next = std::move(new_node)
LinkBehind(t) ==
  /\ pc[t] = "link" /\ tail # Null
  /\ IF tail \notin live \/ AtSameNext THEN Break(t) /\ UNCHANGED <<next, linked>>
     ELSE /\ Move(t, "link", "advance")
          /\ next' = [next EXCEPT ![tail] = node[t]]
          /\ linked' = Append(linked, node[t])
  /\ UNCHANGED <<head, tail, live, node, got, emptied>>

\* else, under the head mutex in the second queue, head = std::move(new_node)
EnterFirst(t) ==
  /\ tail = Null
  /\ IF program = "queue2" THEN Lock(t, "head_mutex", "link", "first")
     ELSE Move(t, "link", "first")
  /\ UNCHANGED listVars

LinkFirst(t) ==
  /\ Unlock(t, {"head_mutex"}, "first", "advance")
  /\ head' = node[t]
  /\ linked' = Append(linked, node[t])
  /\ UNCHANGED <<tail, next, live, node, got, emptied>>

\* tail = new_tail
AdvanceTail(t) ==
  /\ Unlock(t, {"tail_mutex"}, "advance", "idle")
  /\ tail' = node[t]
  /\ node' = [node EXCEPT ![t] = Null]
  /\ UNCHANGED <<head, next, live, linked, got, emptied>>

EnterPop(t) == Enter(t, "head_mutex", "pop", "take") /\ UNCHANGED listVars

FindNothing(t) ==
  /\ head = Null
  /\ Unlock(t, {"head_mutex"}, "take", "idle") /\ UNCHANGED listVars

\* The data of the first node; head = std::move(old_head->next).
TakeNode(t) ==
  /\ pc[t] = "take" /\ head # Null
  /\ IF head \notin live \/ AtSameNext THEN Break(t) /\ UNCHANGED listVars
     ELSE /\ Move(t, "take", "delete")
          /\ got' = Append(got, head)
          /\ node' = [node EXCEPT ![t] = head]
          /\ head' = next[head]
          /\ next' = [next EXCEPT ![head] = Null]
          /\ emptied' = (emptied \/ head' = Null)
          /\ UNCHANGED <<tail, live, linked>>

\* old_head is destroyed; it owns no other node now.
DeleteNode(t) ==
  /\ pc[t] = "delete"
  /\ IF AtSameNext THEN Break(t) /\ UNCHANGED listVars
     ELSE /\ Unlock(t, {"head_mutex"}, "delete", "idle")
          /\ live' = live \ {node[t]}
          /\ node' = [node EXCEPT ![t] = Null]
          /\ UNCHANGED <<head, tail, next, linked, got, emptied>>

ListStep(t) ==
  \/ MakeNode(t) \/ LinkBehind(t) \/ EnterFirst(t) \/ LinkFirst(t) \/ AdvanceTail(t)
  \/ EnterPop(t) \/ FindNothing(t) \/ TakeNode(t) \/ DeleteNode(t)
-----------------------------------------------------------------------------
(* Properties.                                                             *)

\* Until pop takes the last node, the list holds what was linked and has not
\* been returned, although the ends have different mutexes, and what is returned
\* is always in order.  Nothing undefined happens as long as there are two nodes:
\* only when the last one was taken, when a push and a pop of the second queue
\* are at the only node, or when tail was no null pointer to begin with.
ListKept ==
  program \in {"queue1", "queue2"} =>
    /\ IsPrefix(got, linked)
    /\ broken => \/ emptied \/ tail = Wild
                 \/ program = "queue2" /\ head # Null /\ head = tail
    /\ ~emptied /\ ~broken =>
         LET waiting == SubSeq(linked, Len(got) + 1, Len(linked)) IN
         /\ head = IF waiting = <<>> THEN Null ELSE waiting[1]
         /\ \A i \in 1..Len(waiting) - 1 : next[waiting[i]] = waiting[i + 1]
         /\ Range(waiting) \subseteq live
=============================================================================
