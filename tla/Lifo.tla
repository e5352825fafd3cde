-------------------------------- MODULE Lifo --------------------------------
(***************************************************************************)
(* What the stacks of the repository promise: the item that entered last   *)
(* leaves first, none is lost and none leaves twice.  There are no threads *)
(* here: a push and a pop each happen in one step.                         *)
(***************************************************************************)
EXTENDS Sequences, SequencesExt

CONSTANT Values

VARIABLES items,      \* what the stack holds, the latest item last
          delivered   \* everything that left it, in the order it left

vars == <<items, delivered>>

Init == items = <<>> /\ delivered = <<>>

Push(v) == items' = Append(items, v) /\ UNCHANGED delivered

Pop ==
  /\ items # <<>>
  /\ delivered' = Append(delivered, Last(items))
  /\ items' = Front(items)

Next == Pop \/ \E v \in Values : Push(v)

Spec == Init /\ [][Next]_vars
=============================================================================
