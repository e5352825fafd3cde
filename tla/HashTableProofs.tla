--------------------------- MODULE HashTableProofs ---------------------------
(***************************************************************************)
(* Proofs about HashTable, for any set of threads, keys and values, any    *)
(* size of the array and any hash function.                                *)
(***************************************************************************)
EXTENDS HashTable, FiniteSetTheorems, TLAPS

-----------------------------------------------------------------------------
(* Probing.                                                                *)

\* The index goes round the array.
LEMMA NextSlotIs ==
  ASSUME NEW i \in Slots
  PROVE  NextSlot(i) = IF i = ArraySize - 1 THEN 0 ELSE i + 1
<1>1. i \in Int /\ 0 <= i /\ i <= ArraySize - 1 /\ ArraySize \in Nat /\ ArraySize > 0
  BY ArraySizeAssumption DEF Slots
<1>2. CASE i = ArraySize - 1
  <2>1. i + 1 = ArraySize
    BY <1>1, <1>2
  <2>2. ArraySize % ArraySize = 0
    BY <1>1, SMT
  <2>3. QED
    BY <2>1, <2>2, <1>2 DEF NextSlot
<1>3. CASE i # ArraySize - 1
  <2>1. i + 1 \in 0..(ArraySize - 1)
    BY <1>1, <1>3
  <2>2. (i + 1) % ArraySize = i + 1
    BY <1>1, <2>1, SMT
  <2>3. QED
    BY <2>2, <1>3 DEF NextSlot
<1>4. QED
  BY <1>2, <1>3

\* One step of probing passes one slot more, or starts again.
LEMMA PassedNext ==
  ASSUME NEW h \in Slots, NEW i \in Slots
  PROVE  /\ NextSlot(i) \in Slots
         /\ Passed(h, NextSlot(i)) \subseteq Passed(h, i) \cup {i}
<1>1. NextSlot(i) = IF i = ArraySize - 1 THEN 0 ELSE i + 1
  BY NextSlotIs
<1>2. QED
  BY <1>1, ArraySizeAssumption DEF Passed, Distance, Slots

\* Of two slots probing reaches one first.
LEMMA Ordered ==
  ASSUME NEW h \in Slots, NEW i \in Slots, NEW j \in Slots, i # j
  PROVE  i \in Passed(h, j) \/ j \in Passed(h, i)
BY ArraySizeAssumption DEF Passed, Distance, Slots

-----------------------------------------------------------------------------
(* Types.                                                                  *)

LEMMA SlotsFinite == IsFiniteSet(Slots)
BY FS_Interval, ArraySizeAssumption DEF Slots

LEMMA ItemsCounted == Cardinality(Items) \in Nat
<1>1. IsFiniteSet(Items)
  BY SlotsFinite, FS_Subset DEF Items
<1>2. QED
  BY <1>1, FS_CardinalityType

LEMMA InitTypeOK == Init => TypeOK
BY ArraySizeAssumption, ItemsAssumption DEF Init, TypeOK, Slots, Probing, Calls

LEMMA NextTypeOK == TypeOK /\ [Next]_vars => TypeOK'
<1> SUFFICES ASSUME TypeOK, [Next]_vars PROVE TypeOK'
  OBVIOUS
<1> USE ItemsAssumption DEF TypeOK, Calls, Probing, Goto
<1>0. 0 \in Slots
  BY ArraySizeAssumption DEF Slots
<1>1. ASSUME NEW t \in Threads, CallSetItem(t) PROVE TypeOK'
  BY <1>1 DEF CallSetItem, entries
<1>2. ASSUME NEW t \in Threads, CallGetItem(t) PROVE TypeOK'
  BY <1>2 DEF CallGetItem, entries
<1>3. ASSUME NEW t \in Threads, CallGetItemCount(t) PROVE TypeOK'
  BY <1>3, <1>0, ItemsCounted DEF CallGetItemCount, entries
<1>4. ASSUME NEW t \in Threads, Claim(t) PROVE TypeOK'
  <2>1. NextSlot(idx[t]) \in Slots
    BY PassedNext
  <2>2. QED
    BY <1>4, <2>1 DEF Claim, ProbeOn
<1>5. ASSUME NEW t \in Threads, Store(t) PROVE TypeOK'
  BY <1>5, <1>0 DEF Store, Return
<1>6. ASSUME NEW t \in Threads, ReturnMiss(t) PROVE TypeOK'
  BY <1>6, <1>0 DEF ReturnMiss, Return, entries
<1>7. ASSUME NEW t \in Threads, Probe(t) PROVE TypeOK'
  <2>1. NextSlot(idx[t]) \in Slots
    BY PassedNext
  <2>2. QED
    BY <1>7, <2>1 DEF Probe, ProbeOn, entries
<1>8. ASSUME NEW t \in Threads, LoadValue(t) PROVE TypeOK'
  BY <1>8, <1>0 DEF LoadValue, Return, entries
<1>9. ASSUME NEW t \in Threads, CountKey(t) PROVE TypeOK'
  <2>1. idx[t] < EndOfArray => idx[t] + 1 \in Slots
    BY ArraySizeAssumption DEF EndOfArray, Slots
  <2>2. QED
    BY <1>9, <1>0, <2>1 DEF CountKey, CountOn, Return, entries
<1>10. ASSUME NEW t \in Threads, CountValue(t) PROVE TypeOK'
  <2>1. idx[t] < EndOfArray => idx[t] + 1 \in Slots
    BY ArraySizeAssumption DEF EndOfArray, Slots
  <2>2. Counted(t) \in Nat
    BY DEF Counted
  <2>3. QED
    BY <1>10, <1>0, <2>1, <2>2 DEF CountValue, CountOn, Return, entries
<1>11. CASE Clear
  BY <1>11 DEF Clear, locals
<1>12. CASE UNCHANGED vars
  BY <1>12 DEF vars, entries, locals
<1>13. QED
  BY <1>1, <1>2, <1>3, <1>4, <1>5, <1>6, <1>7, <1>8, <1>9, <1>10, <1>11, <1>12
     DEF Next, Step

\* No index leaves the array, whatever its size: the mask and the end of the
\* loop keep every access inside.
THEOREM TypeCorrect == Spec => []TypeOK
BY InitTypeOK, NextTypeOK, PTL DEF Spec

-----------------------------------------------------------------------------
(* The table.                                                              *)

\* A free slot is in front of the key of a search only if the key is nowhere.
LEMMA FreeSlotMeansAbsent ==
  ASSUME TypeOK, TableInv, NEW k \in Keys, NEW s \in Slots,
         PassedOthers(k, s), key[s] = Zero, NEW i \in Slots
  PROVE  key[i] # k
<1> SUFFICES ASSUME key[i] = k PROVE FALSE
  OBVIOUS
<1>1. i # s /\ hash[k] \in Slots
  BY ItemsAssumption DEF TypeOK
<1>2. i \in Passed(hash[k], s) \/ s \in Passed(hash[k], i)
  BY <1>1, Ordered
<1>3. PassedOthers(k, i)
  BY ItemsAssumption DEF TableInv, NoHole
<1>4. QED
  BY <1>2, <1>3 DEF PassedOthers

\* A step that moves one thread and leaves the slots alone keeps the invariant
\* if that thread stands right.
LEMMA OneThreadMoves ==
  ASSUME TableInv, NEW t \in Threads, UNCHANGED <<hash, key, value>>,
         \A u \in Threads \ {t} : pc'[u] = pc[u] /\ arg'[u] = arg[u] /\ idx'[u] = idx[u],
         pc'[t] \in Probing => PassedOthers(arg'[t], idx'[t]),
         pc'[t] \in {"store", "load"} => key[idx'[t]] = arg'[t]
  PROVE  TableInv'
<1>1. OneSlotPerKey' /\ NoHole' /\ NoValueAlone'
  BY DEF TableInv, OneSlotPerKey, NoHole, NoValueAlone, PassedOthers
<1>2. SearchesPassOthers'
  BY DEF TableInv, SearchesPassOthers, PassedOthers
<1>3. AtTheirSlot'
  BY DEF TableInv, AtTheirSlot
<1>4. QED
  BY <1>1, <1>2, <1>3 DEF TableInv

\* A search that has met another key goes on to the next slot.
LEMMA ProbingGoesOn ==
  ASSUME TypeOK, NEW k \in Keys, NEW i \in Slots, PassedOthers(k, i),
         key[i] \notin {Zero, k}
  PROVE  PassedOthers(k, NextSlot(i))
<1>1. hash[k] \in Slots
  BY DEF TypeOK
<1>2. QED
  BY <1>1, PassedNext DEF PassedOthers

\* Taking a free slot for a key that is nowhere.
LEMMA ClaimKeepsTable ==
  ASSUME TypeOK, TableInv, NEW t \in Threads, Claim(t), key[idx[t]] = Zero
  PROVE  TableInv'
<1> DEFINE k == arg[t]
           s == idx[t]
<1>1. /\ k \in Keys /\ s \in Slots /\ k # Zero /\ pc[t] = "claim"
      /\ PassedOthers(k, s)
  BY ItemsAssumption DEF Claim, TypeOK, TableInv, SearchesPassOthers, Probing
<1>2. \A i \in Slots : key[i] # k
  BY <1>1, FreeSlotMeansAbsent
<1>3. /\ key' = [key EXCEPT ![s] = k] /\ UNCHANGED <<hash, value, arg, idx>>
      /\ pc' = [pc EXCEPT ![t] = "store"]
  BY <1>1 DEF Claim, Claimed, Goto
<1>4. key'[s] = k /\ \A i \in Slots \ {s} : key'[i] = key[i]
  BY <1>1, <1>3 DEF TypeOK
<1>5. ASSUME NEW l \in Keys, NEW i \in Slots, PassedOthers(l, i)
      PROVE  PassedOthers(l, i)'
  <2>1. \A j \in Passed(hash[l], i) : j \in Slots /\ j # s /\ key'[j] = key[j]
    BY <1>4, <1>5 DEF PassedOthers, Passed
  <2>2. Passed(hash'[l], i) = Passed(hash[l], i)
    BY <1>3
  <2>3. QED
    BY <1>5, <2>1, <2>2 DEF PassedOthers
<1>6. OneSlotPerKey'
  BY <1>2, <1>4 DEF OneSlotPerKey, TableInv
<1>7. NoHole'
  <2> SUFFICES ASSUME NEW i \in Slots, key'[i] # Zero PROVE PassedOthers(key[i], i)'
    BY DEF NoHole
  <2>1. CASE i = s
    BY <1>1, <1>4, <1>5, <2>1 DEF PassedOthers
  <2>2. CASE i # s
    <3>1. key'[i] = key[i] /\ key[i] \in Keys /\ PassedOthers(key[i], i)
      BY <1>4, <2>2 DEF TypeOK, TableInv, NoHole
    <3>2. QED
      BY <1>5, <3>1 DEF PassedOthers
  <2>3. QED
    BY <2>1, <2>2
<1>8. SearchesPassOthers'
  <2> SUFFICES ASSUME NEW u \in Threads, pc'[u] \in Probing
               PROVE  PassedOthers(arg[u], idx[u])'
    BY DEF SearchesPassOthers
  <2>1. pc[u] \in Probing
    BY <1>1, <1>3 DEF TypeOK, Probing
  <2>2. arg[u] \in Keys /\ idx[u] \in Slots /\ PassedOthers(arg[u], idx[u])
    BY <2>1 DEF TypeOK, TableInv, SearchesPassOthers
  <2>3. QED
    BY <1>3, <1>5, <2>2 DEF PassedOthers
<1>9. AtTheirSlot'
  <2> SUFFICES ASSUME NEW u \in Threads, pc'[u] \in {"store", "load"}
               PROVE  key'[idx[u]] = arg[u]
    BY <1>3 DEF AtTheirSlot
  <2>1. CASE u = t
    BY <1>4, <2>1
  <2>2. CASE u # t
    <3>1. pc[u] \in {"store", "load"}
      BY <1>3, <2>2 DEF TypeOK
    <3>2. key[idx[u]] = arg[u] /\ arg[u] \in Keys /\ idx[u] \in Slots
      BY <3>1 DEF TableInv, AtTheirSlot, TypeOK, Probing
    <3>3. QED
      BY <1>4, <3>2, ItemsAssumption
  <2>3. QED
    BY <2>1, <2>2
<1>10. NoValueAlone'
  BY <1>1, <1>3, <1>4 DEF TableInv, NoValueAlone
<1>11. QED
  BY <1>6, <1>7, <1>8, <1>9, <1>10 DEF TableInv

LEMMA InitTableInv == Init => TableInv
BY ItemsAssumption DEF Init, TableInv, OneSlotPerKey, NoHole, SearchesPassOthers,
                       AtTheirSlot, NoValueAlone, Probing

LEMMA NextTableInv == TypeOK /\ TableInv /\ [Next]_vars => TableInv'
<1> SUFFICES ASSUME TypeOK, TableInv, [Next]_vars PROVE TableInv'
  OBVIOUS
<1> USE DEF Probing
\* A call begins at the slot of its key and has passed none.
<1>1. ASSUME NEW t \in Threads, NEW k \in Keys, NEW l \in {"claim", "probe"},
             pc' = [pc EXCEPT ![t] = l], arg' = [arg EXCEPT ![t] = k],
             idx' = [idx EXCEPT ![t] = hash[k]], UNCHANGED <<hash, key, value>>
      PROVE  TableInv'
  <2>1. Passed(hash[k], hash[k]) = {}
    BY ArraySizeAssumption DEF Passed, Distance, Slots, TypeOK
  <2>2. pc'[t] = l /\ arg'[t] = k /\ idx'[t] = hash[k]
    BY <1>1 DEF TypeOK
  <2>3. \A u \in Threads \ {t} : pc'[u] = pc[u] /\ arg'[u] = arg[u] /\ idx'[u] = idx[u]
    BY <1>1 DEF TypeOK
  <2>4. QED
    BY <1>1, <2>1, <2>2, <2>3, OneThreadMoves DEF PassedOthers
\* A step that ends a call, or takes it on to something that probes nothing.
<1>2. ASSUME NEW t \in Threads, pc'[t] \notin Probing, UNCHANGED <<hash, key, value>>,
             \A u \in Threads \ {t} :
               pc'[u] = pc[u] /\ arg'[u] = arg[u] /\ idx'[u] = idx[u]
      PROVE  TableInv'
  BY <1>2, OneThreadMoves
<1>3. ASSUME NEW t \in Threads, CallSetItem(t) PROVE TableInv'
  BY <1>1, <1>3 DEF CallSetItem, entries, Goto
<1>4. ASSUME NEW t \in Threads, CallGetItem(t) PROVE TableInv'
  BY <1>1, <1>4 DEF CallGetItem, entries, Goto
<1>5. ASSUME NEW t \in Threads, CallGetItemCount(t) PROVE TableInv'
  BY <1>2, <1>5 DEF CallGetItemCount, entries, Goto, TypeOK
<1>6. ASSUME NEW t \in Threads, Claim(t) PROVE TableInv'
  <2>0. /\ arg[t] \in Keys /\ idx[t] \in Slots /\ PassedOthers(arg[t], idx[t])
        /\ UNCHANGED <<hash, value, arg>>
    BY <1>6 DEF Claim, TypeOK, TableInv, SearchesPassOthers
  <2>1. CASE key[idx[t]] = Zero
    BY <1>6, <2>1, ClaimKeepsTable
  <2>2. CASE key[idx[t]] # Zero
    <3>1. key' = key
      BY <1>6, <2>2 DEF Claim, TypeOK
    <3>2. CASE key[idx[t]] = arg[t]
      <4>1. pc' = [pc EXCEPT ![t] = "store"] /\ UNCHANGED idx
        BY <1>6, <3>2 DEF Claim, Claimed, Goto
      <4>2. QED
        BY <2>0, <3>1, <3>2, <4>1, OneThreadMoves DEF TypeOK
    <3>3. CASE key[idx[t]] # arg[t]
      <4>1. UNCHANGED pc /\ idx' = [idx EXCEPT ![t] = NextSlot(idx[t])]
        BY <1>6, <2>2, <3>3 DEF Claim, Claimed, ProbeOn
      <4>2. PassedOthers(arg[t], NextSlot(idx[t]))
        BY <2>0, <2>2, <3>3, ProbingGoesOn
      <4>3. QED
        BY <1>6, <2>0, <3>1, <4>1, <4>2, OneThreadMoves DEF Claim, TypeOK
    <3>4. QED
      BY <3>2, <3>3
  <2>3. QED
    BY <2>1, <2>2
<1>7. ASSUME NEW t \in Threads, Store(t) PROVE TableInv'
  <2>1. /\ key[idx[t]] # Zero /\ idx[t] \in Slots
        /\ UNCHANGED <<hash, key>> /\ value' = [value EXCEPT ![idx[t]] = new[t]]
    BY <1>7, ItemsAssumption DEF Store, TypeOK, TableInv, AtTheirSlot
  <2>2. \A u \in Threads : pc'[u] \in Probing =>
          pc'[u] = pc[u] /\ arg'[u] = arg[u] /\ idx'[u] = idx[u]
    BY <1>7 DEF Store, Return, Goto, TypeOK
  <2>3. OneSlotPerKey' /\ NoHole'
    BY <2>1 DEF TableInv, OneSlotPerKey, NoHole, PassedOthers
  <2>4. SearchesPassOthers' /\ AtTheirSlot'
    BY <2>1, <2>2 DEF TableInv, SearchesPassOthers, AtTheirSlot, PassedOthers
  <2>5. NoValueAlone'
    BY <2>1 DEF TableInv, NoValueAlone, TypeOK
  <2>6. QED
    BY <2>3, <2>4, <2>5 DEF TableInv
<1>8. ASSUME NEW t \in Threads, ReturnMiss(t) PROVE TableInv'
  BY <1>2, <1>8 DEF ReturnMiss, Return, Goto, entries, TypeOK
<1>9. ASSUME NEW t \in Threads, Probe(t) PROVE TableInv'
  <2>0. /\ arg[t] \in Keys /\ idx[t] \in Slots /\ PassedOthers(arg[t], idx[t])
        /\ UNCHANGED <<hash, key, value, arg>> /\ key[idx[t]] # Zero
    BY <1>9 DEF Probe, IsMiss, entries, TypeOK, TableInv, SearchesPassOthers
  <2>1. CASE key[idx[t]] = arg[t]
    <3>1. pc' = [pc EXCEPT ![t] = "load"] /\ UNCHANGED idx
      BY <1>9, <2>1 DEF Probe, Goto
    <3>2. QED
      BY <2>0, <2>1, <3>1, OneThreadMoves DEF TypeOK
  <2>2. CASE key[idx[t]] # arg[t]
    <3>1. UNCHANGED pc /\ idx' = [idx EXCEPT ![t] = NextSlot(idx[t])]
      BY <1>9, <2>2 DEF Probe, ProbeOn
    <3>2. PassedOthers(arg[t], NextSlot(idx[t]))
      BY <2>0, <2>2, ProbingGoesOn
    <3>3. QED
      BY <1>9, <2>0, <3>1, <3>2, OneThreadMoves DEF Probe, TypeOK
  <2>3. QED
    BY <2>1, <2>2
<1>10. ASSUME NEW t \in Threads, LoadValue(t) PROVE TableInv'
  BY <1>2, <1>10 DEF LoadValue, Return, Goto, entries, TypeOK
<1>11. ASSUME NEW t \in Threads, CountKey(t) PROVE TableInv'
  BY <1>2, <1>11 DEF CountKey, CountOn, Return, Goto, entries, TypeOK
<1>12. ASSUME NEW t \in Threads, CountValue(t) PROVE TableInv'
  BY <1>2, <1>12 DEF CountValue, CountOn, Return, Goto, entries, TypeOK
<1>13. CASE Clear
  BY <1>13, ItemsAssumption
     DEF Clear, TableInv, OneSlotPerKey, NoHole, SearchesPassOthers, AtTheirSlot,
         NoValueAlone
<1>14. CASE UNCHANGED vars
  BY <1>14 DEF vars, entries, locals, TableInv, OneSlotPerKey, NoHole,
               SearchesPassOthers, AtTheirSlot, NoValueAlone, PassedOthers
<1>15. QED
  BY <1>3, <1>4, <1>5, <1>6, <1>7, <1>8, <1>9, <1>10, <1>11, <1>12, <1>13, <1>14
     DEF Next, Step

\* Any number of threads may race for any slots: no key gets two of them, and
\* no search can stop before its key.
THEOREM TableCorrect == Spec => []TableInv
BY InitTypeOK, NextTypeOK, InitTableInv, NextTableInv, PTL DEF Spec

-----------------------------------------------------------------------------
(* HashTable implements Dictionary.                                        *)

\* The abstract map, at a key that has a slot and at one that has none.
LEMMA MapAtSlot ==
  ASSUME OneSlotPerKey, NEW k \in Keys, NEW i \in Slots, key[i] = k
  PROVE  MapOf(k) = value[i]
<1>1. \A j \in Slots : key[j] = k => j = i
  BY ItemsAssumption DEF OneSlotPerKey
<1>2. (CHOOSE j \in Slots : key[j] = k) = i
  BY <1>1
<1>3. QED
  BY <1>2 DEF MapOf

LEMMA MapAtNone ==
  ASSUME NEW k \in Keys, \A i \in Slots : key[i] # k
  PROVE  MapOf(k) = Zero
BY DEF MapOf

\* A step that changes neither slots nor results, and neither begins nor ends a
\* call of the dictionary, is a stutter.
LEMMA SlotsUnchanged ==
  UNCHANGED <<key, value, found>> /\ (\A t \in Threads : CallOf(t)' = CallOf(t))
    => UNCHANGED Abstract!vars
BY DEF Abstract!vars, MapOf

\* The calls of the others go on.
LEMMA OtherCalls ==
  ASSUME TypeOK, NEW t \in Threads,
         CallSetItem(t) \/ CallGetItem(t) \/ CallGetItemCount(t) \/ Step(t)
  PROVE  \A u \in Threads \ {t} : CallOf(u)' = CallOf(u)
<1>1. \A u \in Threads \ {t} : pc'[u] = pc[u] /\ arg'[u] = arg[u] /\ new'[u] = new[u]
  <2>1. CASE CallSetItem(t) \/ CallGetItem(t) \/ CallGetItemCount(t)
    BY <2>1 DEF CallSetItem, CallGetItem, CallGetItemCount, Goto, TypeOK
  <2>2. CASE Claim(t) \/ Probe(t)
    BY <2>2 DEF Claim, Probe, Goto, TypeOK
  <2>3. CASE Store(t) \/ ReturnMiss(t) \/ LoadValue(t)
    BY <2>3 DEF Store, ReturnMiss, LoadValue, Return, Goto, TypeOK
  <2>4. CASE CountKey(t) \/ CountValue(t)
    BY <2>4 DEF CountKey, CountValue, CountOn, Return, Goto, TypeOK
  <2>5. QED
    BY <2>1, <2>2, <2>3, <2>4 DEF Step
<1>2. QED
  BY <1>1 DEF CallOf

\* A step at which the call of one thread becomes c.
LEMMA PendingIs ==
  ASSUME NEW t \in Threads, NEW c, CallOf(t)' = c,
         \A u \in Threads \ {t} : CallOf(u)' = CallOf(u)
  PROVE  [u \in Threads |-> CallOf(u)]' = [[u \in Threads |-> CallOf(u)] EXCEPT ![t] = c]
OBVIOUS

LEMMA InitRefines == Init => Abstract!Init
<1> SUFFICES ASSUME Init PROVE Abstract!Init
  OBVIOUS
<1>1. \A k \in Keys : MapOf(k) = Zero
  BY MapAtNone, ItemsAssumption DEF Init
<1>2. \A t \in Threads : CallOf(t) = Abstract!NoCall
  BY DEF Init, CallOf, Abstract!NoCall
<1>3. QED
  BY <1>1, <1>2 DEF Abstract!Init, Init

\* Claiming a slot changes no value: a slot without a key has none.
LEMMA ClaimRefines ==
  ASSUME TypeOK, TableInv, TableInv', NEW t \in Threads, Claim(t)
  PROVE  UNCHANGED Abstract!vars
<1>0. \A u \in Threads : CallOf(u)' = CallOf(u)
  <2>1. CallOf(t)' = CallOf(t)
    BY DEF Claim, CallOf, Goto, TypeOK
  <2>2. QED
    BY <2>1, OtherCalls DEF Step
<1>1. UNCHANGED <<value, found>> /\ arg[t] \in Keys /\ idx[t] \in Slots
      /\ key' = [key EXCEPT ![idx[t]] = IF key[idx[t]] = Zero THEN arg[t] ELSE key[idx[t]]]
  BY DEF Claim, TypeOK, Probing
<1>2. CASE key[idx[t]] # Zero
  <2>1. key' = key
    BY <1>1, <1>2 DEF TypeOK
  <2>2. QED
    BY <1>0, <1>1, <2>1, SlotsUnchanged
<1>3. CASE key[idx[t]] = Zero
  <2>1. key'[idx[t]] = arg[t] /\ \A i \in Slots \ {idx[t]} : key'[i] = key[i]
    BY <1>1, <1>3 DEF TypeOK
  <2>2. ASSUME NEW k \in Keys PROVE MapOf(k)' = MapOf(k)
    <3>1. CASE k = arg[t]
      <4>1. \A i \in Slots : key[i] # k
        BY <1>3, <3>1, FreeSlotMeansAbsent
           DEF Claim, TableInv, SearchesPassOthers, Probing, TypeOK
      <4>2. MapOf(k) = Zero
        BY <4>1, MapAtNone
      <4>3. \A j \in Slots : key'[j] = k <=> j = idx[t]
        BY <1>1, <2>1, <3>1, <4>1
      <4>4. MapOf(k)' = value'[idx[t]]
        <5>1. (CHOOSE j \in Slots : key'[j] = k) = idx[t]
          BY <1>1, <4>3
        <5>2. QED
          BY <1>1, <4>3, <5>1 DEF MapOf
      <4>5. value'[idx[t]] = Zero
        BY <1>1, <1>3 DEF TableInv, NoValueAlone
      <4>6. QED
        BY <4>2, <4>4, <4>5
    <3>2. CASE k # arg[t]
      <4>1. \A i \in Slots : key'[i] = k <=> key[i] = k
        BY <1>1, <1>3, <2>1, <3>2, ItemsAssumption
      <4>2. (CHOOSE j \in Slots : key'[j] = k) = (CHOOSE j \in Slots : key[j] = k)
        BY <4>1
      <4>3. QED
        BY <1>1, <4>1, <4>2 DEF MapOf
    <3>3. QED
      BY <3>1, <3>2
  <2>3. QED
    BY <1>0, <1>1, <2>2 DEF Abstract!vars
<1>4. QED
  BY <1>2, <1>3

\* A store sets the key of its call to the value of its call, and no other key.
LEMMA StoreRefines ==
  ASSUME TypeOK, TableInv, TableInv', NEW t \in Threads, Store(t)
  PROVE  Abstract!Set(t, arg[t], new[t])
<1>1. /\ UNCHANGED <<key, found>> /\ value' = [value EXCEPT ![idx[t]] = new[t]]
      /\ arg[t] \in Keys /\ idx[t] \in Slots /\ key[idx[t]] = arg[t]
  BY DEF Store, TypeOK, TableInv, AtTheirSlot, Probing
<1>2. ASSUME NEW k \in Keys PROVE MapOf(k)' = IF k = arg[t] THEN new[t] ELSE MapOf(k)
  <2>1. CASE \A i \in Slots : key[i] # k
    BY <1>1, <2>1 DEF MapOf
  <2>2. CASE \E i \in Slots : key[i] = k
    <3>1. PICK i \in Slots : key[i] = k
      BY <2>2
    <3>2. (CHOOSE j \in Slots : key[j] = k) = i
      BY <3>1, ItemsAssumption DEF TableInv, OneSlotPerKey
    <3>3. MapOf(k) = value[i] /\ MapOf(k)' = value'[i]
      BY <1>1, <3>1, <3>2 DEF MapOf
    <3>4. k = arg[t] <=> i = idx[t]
      BY <1>1, <3>1, ItemsAssumption DEF TableInv, OneSlotPerKey
    <3>5. QED
      BY <1>1, <3>3, <3>4 DEF TypeOK
  <2>3. QED
    BY <2>1, <2>2
<1>3. [k \in Keys |-> MapOf(k)]' = [[k \in Keys |-> MapOf(k)] EXCEPT ![arg[t]] = new[t]]
  BY <1>1, <1>2
<1>4. CallOf(t) = Abstract!SetCall(arg[t], new[t]) /\ CallOf(t)' = Abstract!NoCall
  BY DEF Store, Return, Goto, CallOf, TypeOK, Abstract!SetCall, Abstract!NoCall
<1>5. Abstract!Done(t)
  BY <1>4, OtherCalls, PendingIs DEF Step, Abstract!Done
<1>6. [u \in Threads |-> CallOf(u)][t] = CallOf(t)
  OBVIOUS
<1>7. QED
  BY <1>1, <1>3, <1>4, <1>5, <1>6 DEF Abstract!Set

\* A lookup finds what the map holds for the key of its call when it reads the
\* deciding key or value.
LEMMA LookupRefines ==
  ASSUME TypeOK, TableInv, NEW t \in Threads, ReturnMiss(t) \/ LoadValue(t)
  PROVE  Abstract!Lookup(t, arg[t])
<1>1. /\ UNCHANGED <<key, value>> /\ arg[t] \in Keys /\ idx[t] \in Slots
      /\ pc[t] \in {"probe", "load"}
  BY DEF ReturnMiss, LoadValue, entries, TypeOK, Probing
<1>2. found' = [found EXCEPT ![t] = MapOf(arg[t])]
  <2>1. CASE ReturnMiss(t)
    <3>1. PassedOthers(arg[t], idx[t]) /\ key[idx[t]] = Zero
      BY <1>1, <2>1 DEF ReturnMiss, IsMiss, TableInv, SearchesPassOthers, Probing
    <3>2. MapOf(arg[t]) = Zero
      BY <1>1, <3>1, FreeSlotMeansAbsent, MapAtNone
    <3>3. QED
      BY <2>1, <3>2 DEF ReturnMiss
  <2>2. CASE LoadValue(t)
    <3>1. key[idx[t]] = arg[t]
      BY <2>2 DEF LoadValue, TableInv, AtTheirSlot
    <3>2. MapOf(arg[t]) = value[idx[t]]
      BY <1>1, <3>1, MapAtSlot DEF TableInv
    <3>3. QED
      BY <2>2, <3>2 DEF LoadValue
  <2>3. QED
    BY <2>1, <2>2
<1>3. UNCHANGED [k \in Keys |-> MapOf(k)]
  BY <1>1 DEF MapOf
<1>4. [k \in Keys |-> MapOf(k)][arg[t]] = MapOf(arg[t])
  BY <1>1
<1>5. CallOf(t) = Abstract!LookupCall(arg[t]) /\ CallOf(t)' = Abstract!NoCall
  BY DEF ReturnMiss, LoadValue, Return, Goto, CallOf, TypeOK, Abstract!LookupCall, Abstract!NoCall
<1>6. Abstract!Done(t)
  BY <1>5, OtherCalls, PendingIs DEF Step, Abstract!Done
<1>7. [u \in Threads |-> CallOf(u)][t] = CallOf(t)
  OBVIOUS
<1>8. QED
  BY <1>2, <1>3, <1>4, <1>5, <1>6, <1>7 DEF Abstract!Lookup

\* A call begins.
LEMMA CallRefines ==
  ASSUME TypeOK, NEW t \in Threads, CallSetItem(t) \/ CallGetItem(t)
  PROVE  \E k \in Keys : \/ Abstract!Call(t, Abstract!LookupCall(k))
                        \/ \E v \in Values : Abstract!Call(t, Abstract!SetCall(k, v))
<1>1. CallOf(t) = Abstract!NoCall /\ [u \in Threads |-> CallOf(u)][t] = CallOf(t)
  BY DEF CallSetItem, CallGetItem, CallOf, Abstract!NoCall
<1>2. UNCHANGED [k \in Keys |-> MapOf(k)] /\ found' = [found EXCEPT ![t] = Zero]
  <2>1. UNCHANGED <<key, value>> /\ found' = [found EXCEPT ![t] = Zero]
    BY DEF CallSetItem, CallGetItem, entries
  <2>2. QED
    BY <2>1 DEF MapOf
<1>3. ASSUME NEW c, CallOf(t)' = c PROVE Abstract!Call(t, c)
  BY <1>1, <1>2, <1>3, OtherCalls, PendingIs DEF Abstract!Call
<1>4. CASE CallSetItem(t)
  <2>1. PICK k \in Keys, v \in Values :
          arg' = [arg EXCEPT ![t] = k] /\ new' = [new EXCEPT ![t] = v]
    BY <1>4 DEF CallSetItem
  <2>2. CallOf(t)' = Abstract!SetCall(k, v)
    BY <1>4, <2>1 DEF CallSetItem, Goto, CallOf, TypeOK, Abstract!SetCall
  <2>3. QED
    BY <1>3, <2>2
<1>5. CASE CallGetItem(t)
  <2>1. PICK k \in Keys : arg' = [arg EXCEPT ![t] = k]
    BY <1>5 DEF CallGetItem
  <2>2. CallOf(t)' = Abstract!LookupCall(k)
    BY <1>5, <2>1 DEF CallGetItem, Goto, CallOf, TypeOK, Abstract!LookupCall
  <2>3. QED
    BY <1>3, <2>2
<1>6. QED
  BY <1>4, <1>5

\* Looking on, and counting, which is no call of the dictionary.
LEMMA OtherStepsStutter ==
  ASSUME TypeOK, NEW t \in Threads,
         CallGetItemCount(t) \/ Probe(t) \/ CountKey(t) \/ CountValue(t)
  PROVE  UNCHANGED Abstract!vars
<1>1. CallOf(t)' = CallOf(t)
  <2>1. CASE CallGetItemCount(t)
    BY <2>1 DEF CallGetItemCount, Goto, CallOf, TypeOK
  <2>2. CASE Probe(t)
    BY <2>2 DEF Probe, Goto, CallOf, TypeOK
  <2>3. CASE CountKey(t) \/ CountValue(t)
    BY <2>3 DEF CountKey, CountValue, CountOn, Return, Goto, CallOf, TypeOK
  <2>4. QED
    BY <2>1, <2>2, <2>3
<1>2. \A u \in Threads : CallOf(u)' = CallOf(u)
  BY <1>1, OtherCalls DEF Step
<1>3. UNCHANGED <<key, value, found>>
  BY DEF CallGetItemCount, Probe, CountKey, CountValue, entries
<1>4. QED
  BY <1>2, <1>3, SlotsUnchanged

LEMMA NextRefines ==
  TypeOK /\ TableInv /\ TableInv' /\ [Next]_vars => [Abstract!Next]_(Abstract!vars)
<1> SUFFICES ASSUME TypeOK, TableInv, TableInv', [Next]_vars
             PROVE  [Abstract!Next]_(Abstract!vars)
  OBVIOUS
<1>1. ASSUME NEW t \in Threads, CallSetItem(t) \/ CallGetItem(t) PROVE Abstract!Next
  BY <1>1, CallRefines DEF Abstract!Next
<1>2. ASSUME NEW t \in Threads,
             CallGetItemCount(t) \/ Probe(t) \/ CountKey(t) \/ CountValue(t)
      PROVE  UNCHANGED Abstract!vars
  BY <1>2, OtherStepsStutter
<1>3. ASSUME NEW t \in Threads, Claim(t) PROVE UNCHANGED Abstract!vars
  BY <1>3, ClaimRefines
<1>4. ASSUME NEW t \in Threads, Store(t) PROVE Abstract!Next
  BY <1>4, StoreRefines DEF Abstract!Next, Store, TypeOK, Probing
<1>5. ASSUME NEW t \in Threads, ReturnMiss(t) \/ LoadValue(t) PROVE Abstract!Next
  BY <1>5, LookupRefines DEF Abstract!Next, ReturnMiss, LoadValue, TypeOK, Probing
<1>6. CASE Clear
  <2>1. ASSUME NEW k \in Keys PROVE MapOf(k)' = Zero
    BY <1>6, ItemsAssumption DEF Clear, MapOf
  <2>2. \A t \in Threads : CallOf(t) = Abstract!NoCall /\ CallOf(t)' = CallOf(t)
    BY <1>6 DEF Clear, locals, CallOf, Abstract!NoCall
  <2>3. Abstract!Clear
    BY <1>6, <2>1, <2>2 DEF Clear, locals, Abstract!Clear
  <2>4. QED
    BY <2>3 DEF Abstract!Next
<1>7. CASE UNCHANGED vars
  BY <1>7, SlotsUnchanged DEF vars, entries, locals, CallOf
<1>8. QED
  BY <1>1, <1>2, <1>3, <1>4, <1>5, <1>6, <1>7 DEF Next, Step

\* For any number of threads, keys, values and slots and any hash function,
\* every SetItem(k, v) sets k to v and every GetItem(k) returns the value of k,
\* at one moment of the call.
THEOREM DictionaryRefinement == Spec => Linearizable
<1>1. Init => Abstract!Init
  BY InitRefines
<1>2. TypeOK /\ TableInv /\ TableInv' /\ [Next]_vars => [Abstract!Next]_(Abstract!vars)
  BY NextRefines
<1>3. QED
  BY <1>1, <1>2, TypeCorrect, TableCorrect, PTL DEF Spec, Linearizable, Abstract!Spec
-----------------------------------------------------------------------------
(* Counting.                                                               *)

Counting(t) == pc[t] \in {"count_key", "count_value"}

\* The items in the slots that a count has passed, and in those to come.
Below(i) == {j \in Items : j < i}
From(i) == {j \in Items : j >= i}

\* No more were counted than there are where the count has been, and what was
\* there when it began was counted or is to come.
CountOK(t) ==
  IF Counting(t)
  THEN /\ itemCount[t] <= Cardinality(Below(idx[t]))
       /\ before[t] <= itemCount[t] + Cardinality(From(idx[t]))
       /\ pc[t] = "count_value" => key[idx[t]] # Zero
  ELSE itemCount[t] = 0

CountInv == \A t \in Threads : CountOK(t)

\* These numbers are numbers, and a count moves on slot by slot.
LEMMA ItemsSplit ==
  ASSUME NEW i \in Slots
  PROVE  /\ IsFiniteSet(Items) /\ Cardinality(Items) \in Nat
         /\ IsFiniteSet(Below(i)) /\ Cardinality(Below(i)) \in Nat
         /\ IsFiniteSet(From(i)) /\ Cardinality(From(i)) \in Nat
         /\ Cardinality(Below(i + 1)) = Cardinality(Below(i)) + IF i \in Items THEN 1 ELSE 0
         /\ Cardinality(From(i)) = Cardinality(From(i + 1)) + IF i \in Items THEN 1 ELSE 0
<1>1. IsFiniteSet(Items)
  BY SlotsFinite, FS_Subset DEF Items
<1>2. ASSUME NEW S \in SUBSET Items PROVE IsFiniteSet(S) /\ Cardinality(S) \in Nat
  BY <1>1, FS_Subset, FS_CardinalityType
<1>3. i \in Int /\ \A j \in Items : j \in Int
  BY ArraySizeAssumption DEF Slots, Items
<1>4. /\ Below(i) \in SUBSET Items /\ Below(i + 1) \in SUBSET Items
      /\ From(i) \in SUBSET Items /\ From(i + 1) \in SUBSET Items
      /\ Items \in SUBSET Items
  BY DEF Below, From
<1>5. CASE i \in Items
  <2>1. Below(i + 1) = Below(i) \cup {i} /\ i \notin Below(i)
    <3>1. \A j \in Items : j \in Below(i + 1) <=> j \in Below(i) \/ j = i
      BY <1>3, <1>5 DEF Below
    <3>2. i \notin Below(i)
      BY <1>3 DEF Below
    <3>3. QED
      BY <1>4, <1>5, <3>1, <3>2
  <2>2. From(i) = From(i + 1) \cup {i} /\ i \notin From(i + 1)
    <3>1. \A j \in Items : j \in From(i) <=> j \in From(i + 1) \/ j = i
      BY <1>3, <1>5 DEF From
    <3>2. i \notin From(i + 1)
      BY <1>3 DEF From
    <3>3. QED
      BY <1>4, <1>5, <3>1, <3>2
  <2>3. Cardinality(Below(i + 1)) = Cardinality(Below(i)) + 1
    BY <1>2, <1>4, <2>1, FS_AddElement
  <2>4. Cardinality(From(i)) = Cardinality(From(i + 1)) + 1
    BY <1>2, <1>4, <2>2, FS_AddElement
  <2>5. QED
    BY <1>2, <1>4, <1>5, <2>3, <2>4
<1>6. CASE i \notin Items
  <2>1. /\ \A j : j \in Below(i + 1) <=> j \in Below(i)
        /\ \A j : j \in From(i) <=> j \in From(i + 1)
    BY <1>3, <1>6 DEF Below, From
  <2>2. Below(i + 1) = Below(i) /\ From(i) = From(i + 1)
    BY <2>1
  <2>3. QED
    BY <1>2, <1>4, <1>6, <2>2
<1>7. QED
  BY <1>2, <1>4, <1>5, <1>6

\* But for Clear, items stay.
LEMMA ItemsStay ==
  ASSUME TypeOK, [Next]_vars, ~Clear
  PROVE  Items \subseteq Items' /\ \A i \in Slots : key[i] # Zero => key'[i] # Zero
<1>1. CASE UNCHANGED entries
  BY <1>1 DEF Items, entries
<1>2. ASSUME NEW t \in Threads, Claim(t)
      PROVE  Items \subseteq Items' /\ \A i \in Slots : key[i] # Zero => key'[i] # Zero
  <2>1. value' = value /\ \A i \in Slots : key[i] # Zero => key'[i] = key[i]
    BY <1>2 DEF Claim, TypeOK
  <2>2. QED
    BY <2>1 DEF Items
<1>3. ASSUME NEW t \in Threads, Store(t)
      PROVE  Items \subseteq Items' /\ \A i \in Slots : key[i] # Zero => key'[i] # Zero
  <2>1. new[t] \in Values /\ new[t] # Zero
    BY <1>3, ItemsAssumption DEF Store, TypeOK
  <2>2. key' = key /\ \A i \in Slots : value[i] # Zero => value'[i] # Zero
    BY <1>3, <2>1 DEF Store, TypeOK
  <2>3. QED
    BY <2>2 DEF Items
<1>4. UNCHANGED entries \/ (\E t \in Threads : Claim(t) \/ Store(t))
  BY DEF Next, Step, CallSetItem, CallGetItem, CallGetItemCount, ReturnMiss, Probe, LoadValue,
     CountKey, CountValue, vars
<1>5. QED
  BY <1>1, <1>2, <1>3, <1>4

\* A count that has seen whether there is an item at its slot goes on, or ends.
LEMMA CountOnKeeps ==
  ASSUME TypeOK, CountInv, NEW t \in Threads, Counting(t), NEW n \in Nat,
         n = itemCount[t] + IF idx[t] \in Items THEN 1 ELSE 0, CountOn(t, n),
         UNCHANGED <<hash, entries>>
  PROVE  /\ CountOK(t)'
         /\ pc'[t] = "out" => n \in before[t]..Cardinality(Items)
<1>1. idx[t] \in Slots /\ itemCount[t] \in Nat /\ before[t] \in Nat
  BY DEF TypeOK
<1> DEFINE i == idx[t]
           one == IF i \in Items THEN 1 ELSE 0
<1>2. /\ n = itemCount[t] + one
      /\ itemCount[t] <= Cardinality(Below(i))
      /\ before[t] <= itemCount[t] + Cardinality(From(i))
  BY DEF CountInv, CountOK
<1>3. /\ Cardinality(Below(i)) \in Nat /\ Cardinality(From(i)) \in Nat
      /\ Cardinality(Below(i + 1)) = Cardinality(Below(i)) + one
      /\ Cardinality(From(i)) = Cardinality(From(i + 1)) + one
      /\ one \in {0, 1}
  BY <1>1, ItemsSplit
<1>4. i \in Int
  BY <1>1, ArraySizeAssumption DEF Slots
<1>5. Cardinality(From(i + 1)) \in Int
  <2>1. IsFiniteSet(From(i + 1))
    BY SlotsFinite, FS_Subset DEF From, Items
  <2>2. QED
    BY <2>1, FS_CardinalityType
<1> HIDE DEF one
<1>6. n <= Cardinality(Below(i + 1)) /\ before[t] <= n + Cardinality(From(i + 1))
  BY <1>1, <1>2, <1>3, <1>5
<1>7. CASE idx[t] < EndOfArray
  <2>1. /\ pc'[t] = "count_key" /\ itemCount'[t] = n /\ idx'[t] = i + 1
        /\ before'[t] = before[t]
    BY <1>7 DEF CountOn, Goto, TypeOK
  <2>2. Below(idx[t])' = Below(i + 1) /\ From(idx[t])' = From(i + 1)
    BY <2>1 DEF Below, From, Items, entries
  <2>3. QED
    BY <1>6, <2>1, <2>2 DEF CountOK, Counting
<1>8. CASE ~(idx[t] < EndOfArray)
  <2>1. pc'[t] = "out" /\ itemCount'[t] = 0
    BY <1>8 DEF CountOn, Return, Goto, TypeOK
  <2>2. \A j \in Items : j < i + 1 /\ ~(j >= i + 1)
    BY <1>1, <1>8, ArraySizeAssumption DEF EndOfArray, Items, Slots
  <2>3. Below(i + 1) = Items /\ From(i + 1) = {}
    BY <2>2 DEF Below, From
  <2>4. Cardinality(Items) \in Nat /\ Cardinality(From(i + 1)) = 0
    BY <2>3, ItemsCounted, FS_EmptySet
  <2>5. before[t] <= n /\ n <= Cardinality(Items)
    BY <1>1, <1>6, <2>3, <2>4
  <2>6. QED
    BY <1>1, <2>1, <2>4, <2>5 DEF CountOK, Counting
<1>9. QED
  BY <1>7, <1>8

\* What a count finds at its slot.
LEMMA CountStep ==
  ASSUME TypeOK, CountInv, NEW t \in Threads, CountKey(t) \/ CountValue(t)
  PROVE  /\ CountOK(t)'
         /\ pc'[t] = "out" =>
              (IF pc[t] = "count_key" THEN itemCount[t] ELSE Counted(t))
                \in before[t]..Cardinality(Items')
<1>1. UNCHANGED <<hash, entries>> /\ Counting(t) /\ Items' = Items
  BY DEF CountKey, CountValue, Counting, Items, entries
<1>2. idx[t] \in Slots /\ itemCount[t] \in Nat
  BY DEF TypeOK
<1>3. CASE CountKey(t) /\ key[idx[t]] = Zero
  <2>1. CountOn(t, itemCount[t]) /\ idx[t] \notin Items /\ pc[t] = "count_key"
    BY <1>3 DEF CountKey, Items
  <2>2. itemCount[t] = itemCount[t] + IF idx[t] \in Items THEN 1 ELSE 0
    BY <1>2, <2>1
  <2>3. QED
    BY <1>1, <1>2, <2>1, <2>2, CountOnKeeps
<1>4. CASE CountKey(t) /\ key[idx[t]] # Zero
  <2>1. /\ pc'[t] = "count_value" /\ UNCHANGED <<idx, itemCount, before, key, value>>
    BY <1>4 DEF CountKey, Goto, TypeOK, entries
  <2>2. Below(idx[t])' = Below(idx[t]) /\ From(idx[t])' = From(idx[t])
    BY <2>1 DEF Below, From, Items
  <2>3. QED
    BY <1>1, <1>4, <2>1, <2>2 DEF CountInv, CountOK, Counting
<1>5. CASE CountValue(t)
  <2>1. CountOn(t, Counted(t)) /\ pc[t] = "count_value" /\ key[idx[t]] # Zero
    BY <1>1, <1>5 DEF CountValue, CountInv, CountOK
  <2>2. Counted(t) = itemCount[t] + IF idx[t] \in Items THEN 1 ELSE 0
    BY <1>2, <2>1 DEF Counted, Items
  <2>3. Counted(t) \in Nat
    BY <1>2 DEF Counted
  <2>4. QED
    BY <1>1, <2>1, <2>2, <2>3, CountOnKeeps
<1>6. QED
  BY <1>3, <1>4, <1>5

\* What a count is told when it begins.
LEMMA CountBegins ==
  ASSUME TypeOK, NEW t \in Threads, CallGetItemCount(t), CountOK(t)
  PROVE  CountOK(t)'
<1>1. /\ pc'[t] = "count_key" /\ idx'[t] = 0 /\ before'[t] = Cardinality(Items)
      /\ itemCount'[t] = 0 /\ UNCHANGED <<key, value>>
  BY DEF CallGetItemCount, Goto, TypeOK, CountOK, Counting, entries
<1>2. \A j \in Items : j >= 0
  BY DEF Items, Slots
<1>3. From(idx[t])' = Items
  BY <1>1, <1>2 DEF From, Items
<1>4. IsFiniteSet(Below(idx[t])')
  BY SlotsFinite, FS_Subset DEF Below, Items
<1>5. Cardinality(Below(idx[t])') \in Nat /\ Cardinality(Items) \in Nat
  BY <1>4, FS_CardinalityType, ItemsCounted
<1>6. QED
  BY <1>1, <1>3, <1>5 DEF CountOK, Counting

\* A count is not disturbed by the steps of others.
LEMMA OthersCount ==
  ASSUME TypeOK, CountInv, [Next]_vars, ~Clear, NEW t \in Threads,
         UNCHANGED <<pc[t], idx[t], itemCount[t], before[t]>>
  PROVE  CountOK(t)'
<1>1. CASE ~Counting(t)
  BY <1>1 DEF CountInv, CountOK, Counting
<1>2. CASE Counting(t)
  <2> DEFINE i == idx[t]
  <2>1. i \in Slots /\ itemCount[t] \in Nat /\ before[t] \in Nat
    BY DEF TypeOK
  <2>2. /\ itemCount[t] <= Cardinality(Below(i))
        /\ before[t] <= itemCount[t] + Cardinality(From(i))
        /\ pc[t] = "count_value" => key[i] # Zero
    BY <1>2 DEF CountInv, CountOK
  <2>3. Below(idx[t])' = {j \in Items' : j < i} /\ From(idx[t])' = {j \in Items' : j >= i}
    BY DEF Below, From
  <2>4. Items \subseteq Items' /\ (key[i] # Zero => key'[i] # Zero) /\ Items' \subseteq Slots
    BY <2>1, ItemsStay DEF Items
  <2>5. Below(i) \subseteq Below(idx[t])' /\ From(i) \subseteq From(idx[t])'
    BY <2>3, <2>4 DEF Below, From
  <2>6. IsFiniteSet(Below(idx[t])') /\ IsFiniteSet(From(idx[t])')
    BY <2>3, <2>4, SlotsFinite, FS_Subset
  <2>7. /\ Cardinality(Below(i)) <= Cardinality(Below(idx[t])')
        /\ Cardinality(From(i)) <= Cardinality(From(idx[t])')
        /\ Cardinality(Below(idx[t])') \in Nat /\ Cardinality(From(idx[t])') \in Nat
        /\ Cardinality(Below(i)) \in Nat /\ Cardinality(From(i)) \in Nat
    BY <2>5, <2>6, FS_Subset, FS_CardinalityType
  <2> HIDE DEF i
  <2>8. /\ itemCount'[t] <= Cardinality(Below(idx[t])')
        /\ before'[t] <= itemCount'[t] + Cardinality(From(idx[t])')
    BY <2>1, <2>2, <2>7
  <2>9. pc'[t] = "count_value" => key'[idx'[t]] # Zero
    BY <2>2, <2>4 DEF i
  <2>10. QED
    BY <1>2, <2>8, <2>9 DEF CountOK, Counting
<1>3. QED
  BY <1>1, <1>2

\* The steps of the other functions count nothing.
LEMMA NoCount ==
  ASSUME TypeOK, CountInv, NEW t \in Threads,
         \/ CallSetItem(t) \/ CallGetItem(t) \/ Claim(t) \/ Store(t)
         \/ ReturnMiss(t) \/ Probe(t) \/ LoadValue(t)
  PROVE  CountOK(t)' /\ ~Counting(t)
<1>1. ~Counting(t) /\ ~Counting(t)'
  BY DEF CallSetItem, CallGetItem, Claim, Store, ReturnMiss, Probe, LoadValue, Return, Goto,
     Counting, TypeOK
<1>2. itemCount'[t] \in {itemCount[t], 0}
  BY DEF CallSetItem, CallGetItem, Claim, Store, ReturnMiss, Probe, LoadValue, Return, TypeOK
<1>3. QED
  BY <1>1, <1>2 DEF CountInv, CountOK

\* Only thread t moves.
LEMMA OneMoves ==
  ASSUME TypeOK, NEW t \in Threads, NEW u \in Threads \ {t},
         CallSetItem(t) \/ CallGetItem(t) \/ CallGetItemCount(t) \/ Step(t)
  PROVE  UNCHANGED <<pc[u], idx[u], itemCount[u], before[u]>> /\ ~Clear
<1>1. CASE CallSetItem(t) \/ CallGetItem(t) \/ CallGetItemCount(t)
  <2>1. UNCHANGED <<pc[u], idx[u], itemCount[u], before[u]>>
    BY <1>1 DEF CallSetItem, CallGetItem, CallGetItemCount, Goto, TypeOK
  <2>2. pc'[t] # pc[t]
    BY <1>1 DEF CallSetItem, CallGetItem, CallGetItemCount, Goto, TypeOK
  <2>3. QED
    BY <2>1, <2>2 DEF Clear
<1>2. CASE Step(t)
  <2>1. pc[t] # "out"
    BY <1>2 DEF Step, Claim, Store, ReturnMiss, Probe, LoadValue, CountKey, CountValue
  <2>2. CASE Claim(t) \/ Probe(t)
    BY <2>1, <2>2 DEF Claim, Probe, ProbeOn, Goto, TypeOK, Clear
  <2>3. CASE Store(t) \/ ReturnMiss(t) \/ LoadValue(t)
    BY <2>1, <2>3 DEF Store, ReturnMiss, LoadValue, Return, Goto, TypeOK, Clear
  <2>4. CASE CountKey(t) \/ CountValue(t)
    BY <2>1, <2>4 DEF CountKey, CountValue, CountOn, Return, Goto, TypeOK, Clear
  <2>5. QED
    BY <1>2, <2>2, <2>3, <2>4 DEF Step
<1>3. QED
  BY <1>1, <1>2

LEMMA NextCountInv == TypeOK /\ CountInv /\ [Next]_vars => CountInv'
<1> SUFFICES ASSUME TypeOK, CountInv, [Next]_vars, NEW u \in Threads PROVE CountOK(u)'
  BY DEF CountInv
<1>1. CASE Clear
  BY <1>1 DEF Clear, locals, CountInv, CountOK, Counting
<1>2. CASE UNCHANGED vars
  BY <1>2 DEF vars, entries, locals, CountInv, CountOK, Counting, Below, From, Items
<1>3. ASSUME NEW t \in Threads,
             CallSetItem(t) \/ CallGetItem(t) \/ CallGetItemCount(t) \/ Step(t)
      PROVE  CountOK(u)'
  <2>1. CASE u # t
    BY <1>3, <2>1, OneMoves, OthersCount
  <2>2. CASE u = t
    BY <1>3, <2>2, CountBegins, CountStep, NoCount DEF Step, CountInv
  <2>3. QED
    BY <2>1, <2>2
<1>4. QED
  BY <1>1, <1>2, <1>3 DEF Next

\* GetItemCount returns no less than there were when it began and no more than
\* there are when it ends, however many threads set items meanwhile.
THEOREM CountAlwaysInRange == Spec => CountInRange
<1> DEFINE InRange ==
      \A t \in Threads :
        pc[t] \in {"count_key", "count_value"} /\ pc'[t] = "out" =>
          (IF pc[t] = "count_key" THEN itemCount[t] ELSE Counted(t))
            \in before[t]..Cardinality(Items)
<1>1. Init => CountInv
  BY DEF Init, CountInv, CountOK, Counting
<1>2. TypeOK /\ CountInv /\ [Next]_vars => [InRange]_vars
  <2> SUFFICES ASSUME TypeOK, CountInv, Next, NEW u \in Threads, Counting(u), pc'[u] = "out"
               PROVE  (IF pc[u] = "count_key" THEN itemCount[u] ELSE Counted(u))
                        \in before[u]..Cardinality(Items)
    BY DEF Counting
  <2>1. ~Clear
    BY DEF Clear, Counting, locals
  <2>2. PICK t \in Threads :
          CallSetItem(t) \/ CallGetItem(t) \/ CallGetItemCount(t) \/ Step(t)
    BY <2>1 DEF Next
  <2>3. u = t
    BY <2>2, OneMoves DEF Counting
  <2>4. CountKey(t) \/ CountValue(t)
    BY <2>2, <2>3, NoCount DEF Step, CallGetItemCount, Counting
  <2>5. Items' = Items
    BY <2>4 DEF CountKey, CountValue, Items, entries
  <2>6. QED
    BY <2>3, <2>4, <2>5, CountStep
<1>3. QED
  BY <1>1, <1>2, NextCountInv, TypeCorrect, PTL DEF Spec, CountInRange
=============================================================================
