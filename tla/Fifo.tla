-------------------------------- MODULE Fifo --------------------------------
(***************************************************************************)
(* What every queue of the repository promises its callers: items leave in *)
(* the order in which they entered, none is lost and none leaves twice.    *)
(* There are no threads here: a push and a pop each happen in one step.    *)
(***************************************************************************)
EXTENDS Sequences

CONSTANT Values

VARIABLES items,      \* what the queue holds, the oldest item first
          delivered   \* everything that left it, in the order it left

vars == <<items, delivered>>

Init == items = <<>> /\ delivered = <<>>

Push(v) == items' = Append(items, v) /\ UNCHANGED delivered

Pop ==
  /\ items # <<>>
  /\ delivered' = Append(delivered, Head(items))
  /\ items' = Tail(items)

Next == Pop \/ \E v \in Values : Push(v)

Spec == Init /\ [][Next]_vars
=============================================================================
