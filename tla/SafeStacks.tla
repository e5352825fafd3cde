----------------------------- MODULE SafeStacks -----------------------------
(***************************************************************************)
(* The two stacks of section 2, each a std::stack behind one mutex.        *)
(*                                                                         *)
(* thread_safe_stack has a pop that returns the item, both statements      *)
(* under one lock.  trivial_thread_safe_stack has top, which returns a     *)
(* reference that its caller reads after the mutex was released, and pop,  *)
(* which returns nothing: a consumer calls empty, top and pop one after    *)
(* the other.  size is empty but for what it returns.                      *)
(***************************************************************************)
EXTENDS ProgramThreads

VARIABLES stk,         \* the items, numbered as they are pushed; the top is last
          item,        \* thread -> the item that it has read
          left,        \* history: what left the stack, as pop handed it out if
                       \*   it hands anything out
          consumers    \* history: the threads that called empty, top and pop

stackVars == <<stk, item, left, consumers>>

StackInit ==
  /\ stk = <<>> /\ left = <<>>
  /\ item = [t \in Threads |-> 0]
  /\ consumers = {}

\* A consumer of the trivial stack begins with empty.
CallStack(t) ==
  /\ \/ Call(t, "push") /\ UNCHANGED consumers
     \/ program = "stack" /\ Call(t, "pop") /\ UNCHANGED consumers
     \/ /\ program = "trivial_stack" /\ Call(t, "empty")
        /\ consumers' = consumers \cup {t}
  /\ UNCHANGED <<stk, item, left>>

\* Both: push
LockPush(t) == Lock(t, "m", "push", "append") /\ UNCHANGED stackVars

AppendItem(t) ==
  /\ Move(t, "append", "leave")
  /\ stk' = Append(stk, Len(stk) + Len(left) + 1)
  /\ UNCHANGED <<item, left, consumers>>

LeaveStack(t) == Unlock(t, {"m"}, "leave", "idle") /\ UNCHANGED stackVars
-----------------------------------------------------------------------------
(* pop of thread_safe_stack                                                *)

LockPop(t) == Lock(t, "m", "pop", "top") /\ UNCHANGED stackVars

\* throw std::runtime_error("stack is empty"): the guard is destroyed.
ThrowEmpty(t) ==
  /\ program = "stack" /\ stk = <<>>
  /\ Unlock(t, {"m"}, "top", "idle") /\ UNCHANGED stackVars

\* Mutant: the mutex is released between the two statements.
ReadAndRelease(t) ==
  /\ program = "stack" /\ stk # <<>>
  /\ Unlock(t, {"m"}, "top", "drop")
  /\ item' = [item EXCEPT ![t] = Last(stk)]
  /\ UNCHANGED <<stk, left, consumers>>

\* stk.top()
ReadTop(t) ==
  /\ program = "stack" /\ stk # <<>>
  /\ Move(t, "top", "drop")
  /\ item' = [item EXCEPT ![t] = Last(stk)]
  /\ UNCHANGED <<stk, left, consumers>>

\* stk.pop()
DropTop(t) ==
  /\ Move(t, "drop", "leave")
  /\ stk' = Front(stk)
  /\ left' = Append(left, item[t])
  /\ item' = [item EXCEPT ![t] = 0]
  /\ UNCHANGED consumers
-----------------------------------------------------------------------------
(* A consumer of trivial_thread_safe_stack                                 *)

\* if (!empty())
TestEmpty(t) ==
  /\ mut["m"] = Free
  /\ Move(t, "empty", IF stk = <<>> THEN "idle" ELSE "call_top")
  /\ UNCHANGED stackVars

LockTop(t) == Lock(t, "m", "call_top", "top") /\ UNCHANGED stackVars

\* top(): of an empty std::stack this is undefined.
ReturnTop(t) ==
  /\ program = "trivial_stack" /\ pc[t] = "top"
  /\ IF stk = <<>> THEN Break(t) /\ UNCHANGED item
     ELSE Unlock(t, {"m"}, "top", "copy") /\ item' = [item EXCEPT ![t] = Last(stk)]
  /\ UNCHANGED <<stk, left, consumers>>

\* The caller reads through the reference, to an item that may be gone.
CopyTop(t) ==
  /\ pc[t] = "copy"
  /\ IF item[t] \in Range(stk) THEN Move(t, "copy", "call_pop") ELSE Break(t)
  /\ item' = [item EXCEPT ![t] = 0]
  /\ UNCHANGED <<stk, left, consumers>>

LockDrop(t) == Lock(t, "m", "call_pop", "pop_top") /\ UNCHANGED stackVars

\* pop() of whatever is on top now.
PopTop(t) ==
  /\ pc[t] = "pop_top"
  /\ IF stk = <<>> THEN Break(t) /\ UNCHANGED <<stk, left>>
     ELSE /\ Move(t, "pop_top", "leave")
          /\ stk' = Front(stk)
          /\ left' = Append(left, Last(stk))
  /\ UNCHANGED <<item, consumers>>

StackStep(t) ==
  \/ LockPush(t) \/ AppendItem(t) \/ LeaveStack(t)
  \/ LockPop(t) \/ ThrowEmpty(t) \/ ReadTop(t) \/ DropTop(t)
  \/ TestEmpty(t) \/ LockTop(t) \/ ReturnTop(t) \/ CopyTop(t) \/ LockDrop(t) \/ PopTop(t)
-----------------------------------------------------------------------------
(* Properties.                                                             *)

\* Call by call both stacks are a Lifo, and what pop of thread_safe_stack hands
\* out is what it removed.
Abstract == INSTANCE Lifo WITH Values <- 1..MaxCalls, items <- stk, delivered <- left

\* Only where two threads consume can the trivial stack be popped when it is
\* empty, or an item be read that is gone: pushes do no harm.
BrokenByTwo == broken => Cardinality(consumers) > 1

StackOrder == Abstract!Spec /\ [](program = "trivial_stack" => BrokenByTwo)
=============================================================================
