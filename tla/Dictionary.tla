----------------------------- MODULE Dictionary -----------------------------
(***************************************************************************)
(* What a concurrent hash table promises: a map from keys to values, where *)
(* a key has the value NoValue until it is set.  A thread asks for a key   *)
(* to be set or looked up, and at one moment before its call is over that  *)
(* is done, with the key and the value it asked for.  Clearing the map is  *)
(* for a moment without calls.                                             *)
(***************************************************************************)
CONSTANTS Threads, Keys, Values, NoValue

VARIABLES map,      \* key -> its value
          pending,  \* thread -> what it has asked for and has not got yet
          found     \* thread -> the value it has found, if its last call was a lookup

vars == <<map, pending, found>>

NoCall == [op |-> "none"]
SetCall(k, v) == [op |-> "Set", key |-> k, value |-> v]
LookupCall(k) == [op |-> "Lookup", key |-> k]

Init ==
  /\ map = [k \in Keys |-> NoValue]
  /\ pending = [t \in Threads |-> NoCall]
  /\ found = [t \in Threads |-> NoValue]

\* A thread has one call at a time, and forgets what the last one found.
Call(t, call) ==
  /\ pending[t] = NoCall
  /\ pending' = [pending EXCEPT ![t] = call]
  /\ found' = [found EXCEPT ![t] = NoValue]
  /\ UNCHANGED map

\* The call of thread t is over.
Done(t) == pending' = [pending EXCEPT ![t] = NoCall]

\* A call that sets k ends with k at the value it was given.
Set(t, k, v) ==
  /\ pending[t] = SetCall(k, v)
  /\ map' = [map EXCEPT ![k] = v]
  /\ Done(t)
  /\ UNCHANGED found

\* A call that looks k up ends with the value that k has.
Lookup(t, k) ==
  /\ pending[t] = LookupCall(k)
  /\ found' = [found EXCEPT ![t] = map[k]]
  /\ Done(t)
  /\ UNCHANGED map

Clear ==
  /\ pending = [t \in Threads |-> NoCall]
  /\ map' = [k \in Keys |-> NoValue]
  /\ UNCHANGED <<pending, found>>

Next ==
  \/ \E t \in Threads, k \in Keys :
       \/ Call(t, LookupCall(k))
       \/ Lookup(t, k)
       \/ \E v \in Values : Call(t, SetCall(k, v)) \/ Set(t, k, v)
  \/ Clear

Spec == Init /\ [][Next]_vars
=============================================================================
