------------------------------ MODULE HashTable ------------------------------
(***************************************************************************)
(* The lock-free hash table of HashTableX and of hashmap: open addressing  *)
(* with linear probing, where a slot is claimed for a key by one           *)
(* compare-and-swap and gets its value by a later store.  Every access to  *)
(* an atomic is a step.  The accesses of HashTableX are relaxed; here the  *)
(* steps are sequentially consistent.                                      *)
(*                                                                         *)
(* The hash function is any function: which keys collide is not known to   *)
(* the table.  It does not change, but it is a variable, so that one run   *)
(* covers all of them.                                                     *)
(***************************************************************************)
EXTENDS Integers, FiniteSets

CONSTANTS Threads,
          Keys, Values,   \* without Zero
          Zero,           \* 0: an unused key, or the value of an unused key
          ArraySize,      \* a power of 2 in the code
          Ops,            \* the member functions the threads call
          Runner          \* a thread that is scheduled, the others may not be

ASSUME ThreadsAssumption == Runner \in Threads
ASSUME ItemsAssumption ==
  IsFiniteSet(Keys) /\ Zero \notin Keys /\ Zero \notin Values
ASSUME ArraySizeAssumption == ArraySize \in Nat \ {0}
ASSUME OpsAssumption == Ops \subseteq {"SetItem", "GetItem", "GetItemCount", "Clear"}

VARIABLES hash,       \* key -> the slot at which probing starts
          key, value, \* slot -> m_entries[idx]
          pc,         \* thread -> the statement it runs next
          arg, new,   \* thread -> its arguments
          idx,        \* thread -> the slot it looks at
          found,      \* history: thread -> what its call of GetItem returned
          itemCount,  \* thread -> the items it has counted
          before      \* history: the items there were when it began to count

entries == <<key, value>>
locals == <<arg, new, idx, found, itemCount, before>>
vars == <<hash, entries, pc, locals>>

Slots == 0..(ArraySize - 1)
Items == {i \in Slots : key[i] # Zero /\ value[i] # Zero}
Goto(t, l) == pc' = [pc EXCEPT ![t] = l]

Init ==
  /\ hash \in [Keys -> Slots]
  /\ key = [i \in Slots |-> Zero] /\ value = [i \in Slots |-> Zero]
  /\ pc = [t \in Threads |-> "out"]
  /\ arg = [t \in Threads |-> Zero] /\ new = [t \in Threads |-> Zero]
  /\ idx = [t \in Threads |-> 0]
  /\ found = [t \in Threads |-> Zero]
  /\ itemCount = [t \in Threads |-> 0] /\ before = [t \in Threads |-> 0]

\* Mutant: the index is not advanced.
StayPut(i) == i

\* idx++, and idx &= m_arraySize - 1
NextSlot(i) == (i + 1) % ArraySize

ProbeOn(t) == idx' = [idx EXCEPT ![t] = NextSlot(@)]

\* The call ends, and its arguments and local variables with it.
Return(t) ==
  /\ Goto(t, "out")
  /\ arg' = [arg EXCEPT ![t] = Zero] /\ new' = [new EXCEPT ![t] = Zero]
  /\ idx' = [idx EXCEPT ![t] = 0]
  /\ itemCount' = [itemCount EXCEPT ![t] = 0]
  /\ before' = [before EXCEPT ![t] = 0]
-----------------------------------------------------------------------------
(* SetItem                                                                 *)

CallSetItem(t) ==
  /\ "SetItem" \in Ops /\ pc[t] = "out"
  /\ \E k \in Keys, v \in Values :
       /\ arg' = [arg EXCEPT ![t] = k]
       /\ new' = [new EXCEPT ![t] = v]
       /\ idx' = [idx EXCEPT ![t] = hash[k]]
  /\ Goto(t, "claim")
  /\ found' = [found EXCEPT ![t] = Zero]
  /\ UNCHANGED <<hash, entries, itemCount, before>>

\* Mutant: a slot that already has the key is passed over.
OnlyFree(k, i) == key[i] = Zero

\* The slot is free or has the key: (prevKey == 0) || (prevKey == key).
Claimed(k, i) == key[i] \in {Zero, k}

\* key.compare_exchange_strong(prevKey, key)
Claim(t) ==
  /\ pc[t] = "claim"
  /\ key' = [key EXCEPT ![idx[t]] = IF @ = Zero THEN arg[t] ELSE @]
  /\ IF Claimed(arg[t], idx[t])
     THEN Goto(t, "store") /\ UNCHANGED idx
     ELSE ProbeOn(t) /\ UNCHANGED pc
  /\ UNCHANGED <<hash, value, arg, new, found, itemCount, before>>

\* value.store(value)
Store(t) ==
  /\ pc[t] = "store"
  /\ value' = [value EXCEPT ![idx[t]] = new[t]]
  /\ Return(t)
  /\ UNCHANGED <<hash, key, found>>
-----------------------------------------------------------------------------
(* GetItem                                                                 *)

CallGetItem(t) ==
  /\ "GetItem" \in Ops /\ pc[t] = "out"
  /\ \E k \in Keys :
       /\ arg' = [arg EXCEPT ![t] = k]
       /\ idx' = [idx EXCEPT ![t] = hash[k]]
  /\ Goto(t, "probe")
  /\ found' = [found EXCEPT ![t] = Zero]
  /\ UNCHANGED <<hash, entries, new, itemCount, before>>

\* Mutant: gives up at the first slot that has another key.
GivesUp(t) == key[idx[t]] # arg[t]

\* probedKey == 0: the key is not in the table.
IsMiss(t) == key[idx[t]] = Zero

ReturnMiss(t) ==
  /\ pc[t] = "probe" /\ IsMiss(t)
  /\ found' = [found EXCEPT ![t] = Zero]
  /\ Return(t)
  /\ UNCHANGED <<hash, entries>>

Probe(t) ==
  /\ pc[t] = "probe" /\ ~IsMiss(t)
  /\ IF key[idx[t]] = arg[t]
     THEN Goto(t, "load") /\ UNCHANGED idx
     ELSE ProbeOn(t) /\ UNCHANGED pc
  /\ UNCHANGED <<hash, entries, arg, new, found, itemCount, before>>

\* return value.load()
LoadValue(t) ==
  /\ pc[t] = "load"
  /\ found' = [found EXCEPT ![t] = value[idx[t]]]
  /\ Return(t)
  /\ UNCHANGED <<hash, entries>>
-----------------------------------------------------------------------------
(* GetItemCount and Clear                                                  *)

CallGetItemCount(t) ==
  /\ "GetItemCount" \in Ops /\ pc[t] = "out"
  /\ idx' = [idx EXCEPT ![t] = 0]
  /\ before' = [before EXCEPT ![t] = Cardinality(Items)]
  /\ Goto(t, "count_key")
  /\ UNCHANGED <<hash, entries, arg, new, found, itemCount>>

\* Mutant: the last slot is left out.
LastSlot == ArraySize - 2

\* idx < m_arraySize holds up to here.
EndOfArray == ArraySize - 1

\* The next slot of the loop with n items counted so far, or its end.
CountOn(t, n) ==
  IF idx[t] < EndOfArray
  THEN /\ itemCount' = [itemCount EXCEPT ![t] = n]
       /\ idx' = [idx EXCEPT ![t] = @ + 1]
       /\ Goto(t, "count_key")
       /\ UNCHANGED <<arg, new, before>>
  ELSE Return(t)

CountKey(t) ==
  /\ pc[t] = "count_key"
  /\ IF key[idx[t]] = Zero THEN CountOn(t, itemCount[t])
     ELSE Goto(t, "count_value") /\ UNCHANGED <<arg, new, idx, itemCount, before>>
  /\ UNCHANGED <<hash, entries, found>>

\* itemCount, and one more if the slot at idx has a value
Counted(t) == itemCount[t] + IF value[idx[t]] # Zero THEN 1 ELSE 0

CountValue(t) ==
  /\ pc[t] = "count_value"
  /\ CountOn(t, Counted(t))
  /\ UNCHANGED <<hash, entries, found>>

\* memset, when there are no other calls: what the comment of the class asks.
Clear ==
  /\ "Clear" \in Ops /\ \A t \in Threads : pc[t] = "out"
  /\ key' = [i \in Slots |-> Zero] /\ value' = [i \in Slots |-> Zero]
  /\ UNCHANGED <<hash, pc, locals>>
-----------------------------------------------------------------------------
\* What a thread does once it is inside a call.
Step(t) ==
  \/ Claim(t) \/ Store(t)
  \/ ReturnMiss(t) \/ Probe(t) \/ LoadValue(t)
  \/ CountKey(t) \/ CountValue(t)

Next ==
  \/ Clear
  \/ \E t \in Threads :
       CallSetItem(t) \/ CallGetItem(t) \/ CallGetItemCount(t) \/ Step(t)

Spec == Init /\ [][Next]_vars

\* One thread is scheduled.  The others may stop anywhere.
FairSpec == Spec /\ WF_vars(Step(Runner))
-----------------------------------------------------------------------------
(* Properties.                                                             *)

Probing == {"claim", "store", "probe", "load"}
Calls == Probing \cup {"count_key", "count_value"}

\* Every variable holds a value of its kind, no index leaves the array, and a
\* call has its arguments.
TypeOK ==
  /\ hash \in [Keys -> Slots]
  /\ key \in [Slots -> Keys \cup {Zero}] /\ value \in [Slots -> Values \cup {Zero}]
  /\ pc \in [Threads -> Calls \cup {"out"}]
  /\ arg \in [Threads -> Keys \cup {Zero}] /\ new \in [Threads -> Values \cup {Zero}]
  /\ idx \in [Threads -> Slots]
  /\ found \in [Threads -> Values \cup {Zero}]
  /\ itemCount \in [Threads -> Nat] /\ before \in [Threads -> Nat]
  /\ \A t \in Threads : pc[t] \in Probing => arg[t] \in Keys
  /\ \A t \in Threads : pc[t] \in {"claim", "store"} => new[t] \in Values

\* How far probing that starts at slot h has come when it looks at slot i, and
\* the slots it has passed by then.
Distance(h, i) == IF i < h THEN i - h + ArraySize ELSE i - h
Passed(h, i) == {j \in Slots : Distance(h, j) < Distance(h, i)}

\* Probing for key k that has come to slot i has passed slots of other keys.
PassedOthers(k, i) ==
  \A j \in Passed(hash[k], i) : key[j] \notin {Zero, k}

OneSlotPerKey == \A i, j \in Slots : key[i] = key[j] /\ key[i] # Zero => i = j
NoHole == \A i \in Slots : key[i] # Zero => PassedOthers(key[i], i)
SearchesPassOthers ==
  \A t \in Threads : pc[t] \in Probing => PassedOthers(arg[t], idx[t])
AtTheirSlot ==
  \A t \in Threads : pc[t] \in {"store", "load"} => key[idx[t]] = arg[t]
NoValueAlone == \A i \in Slots : key[i] = Zero => value[i] = Zero

\* However the threads race for free slots, a key has one slot at most, and
\* all slots from where its probing starts to there hold other keys, so that
\* no search stops too early; a search under way has not passed its key, and
\* whoever stores or loads a value stands at the slot of its key.
TableInv ==
  OneSlotPerKey /\ NoHole /\ SearchesPassOthers /\ AtTheirSlot /\ NoValueAlone

\* The table implements Dictionary: each SetItem sets the key it was called
\* with to the value it was called with, each GetItem returns the value its key
\* has, and both at one moment of the call, however the calls overlap.  What a
\* thread has asked for is in its arguments until the call returns.
MapOf(k) ==
  IF \E i \in Slots : key[i] = k
  THEN value[CHOOSE i \in Slots : key[i] = k] ELSE Zero
CallOf(t) ==
  CASE pc[t] \in {"claim", "store"} ->
         [op |-> "Set", key |-> arg[t], value |-> new[t]]
    [] pc[t] \in {"probe", "load"} -> [op |-> "Lookup", key |-> arg[t]]
    [] OTHER -> [op |-> "none"]
Abstract ==
  INSTANCE Dictionary WITH map <- [k \in Keys |-> MapOf(k)],
                           pending <- [t \in Threads |-> CallOf(t)],
                           NoValue <- Zero
Linearizable == Abstract!Spec

\* GetItemCount, which is no snapshot, returns no less than there were when it
\* began and no more than there are when it ends.
CountInRange ==
  [][\A t \in Threads :
       pc[t] \in {"count_key", "count_value"} /\ pc'[t] = "out" =>
         (IF pc[t] = "count_key" THEN itemCount[t] ELSE Counted(t))
           \in before[t]..Cardinality(Items)]_vars

\* Wait freedom: the calls of a scheduled thread return, whatever the others
\* do and wherever they stop.
WaitFree == pc[Runner] # "out" ~> pc[Runner] = "out"
=============================================================================
