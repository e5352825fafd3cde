-------------------------- MODULE PartialSumChain --------------------------
(***************************************************************************)
(* parallel_partial_sum of scan/partial_sum.h.  The list is cut into       *)
(* blocks, one for each thread and the last for the caller.  A block first *)
(* sums up its own elements, then waits for the last value of the block    *)
(* before it, adds it to its own last value, hands that one on through a   *)
(* promise, and only then adds it to its other elements.  An exception is  *)
(* handed on through the same promise.                                     *)
(*                                                                         *)
(* The elements are any integers.  An exception can be thrown by the       *)
(* addition of two values.                                                 *)
(***************************************************************************)
EXTENDS BlockThreads

CONSTANT Element       \* position -> the element there when the call begins

ASSUME ElementAssumption ==
  \A n \in Lengths : \A i \in 0..(n - 1) : Element[i] \in Int

\* Elements for TLC: a sum of these tells which of them are in it.
PowersOfTwo == [i \in 0..30 |-> 2 ^ i]

VARIABLES list,        \* the elements
          promise,     \* block -> what its promise holds
          addend       \* block -> the value it was handed

sumVars == <<list, promise, addend>>

last(k) == end(k) - 1
NoAddend == 0

\* What a promise holds: nothing at first, then a value or an exception.
Unset == [holds |-> "nothing", sum |-> 0]
Failed == [holds |-> "exception", sum |-> 0]
Value(v) == [holds |-> "value", sum |-> v]

\* std::partial_sum: what it makes of the elements a..b of l.
partial_sum(l, a, b) ==
  LET sum[i \in a..b] == IF i = a THEN l[a] ELSE sum[i - 1] + l[i]
  IN  sum

SumInit ==
  /\ list = [i \in Positions |-> Element[i]]
  /\ promise = [k \in Ids |-> Unset]
  /\ addend = [k \in Ids |-> NoAddend]
-----------------------------------------------------------------------------
(* One block                                                               *)

\* std::partial_sum over the block
SumBlock(k) ==
  /\ Alive /\ pc[k] = "sum"
  /\ list' = [i \in DOMAIN list |->
                IF i \in Block(k) THEN partial_sum(list, begin(k), last(k))[i]
                ELSE list[i]]
  /\ Proceed(k, IF k = 1 THEN "set" ELSE "get")
  /\ UNCHANGED <<promise, addend, throws>>

\* The first block hands its last value on, if there is a next block.
SetFirst(k) ==
  /\ Alive /\ pc[k] = "set"
  /\ promise' = IF k = Final THEN promise ELSE [promise EXCEPT ![k] = Value(list[last(k)])]
  /\ Proceed(k, "end")
  /\ UNCHANGED <<list, addend, throws>>

\* previous_end_value->get() returns
Get(k) ==
  /\ Alive /\ pc[k] = "get" /\ promise[k - 1].holds = "value"
  /\ addend' = [addend EXCEPT ![k] = promise[k - 1].sum]
  /\ Proceed(k, "last")
  /\ UNCHANGED <<list, promise, throws>>

\* or throws what the block before has thrown.
GetThrows(k) ==
  /\ Alive /\ pc[k] = "get" /\ promise[k - 1] = Failed
  /\ Proceed(k, "catch")
  /\ UNCHANGED <<list, promise, addend, throws>>

\* Mutant: hands on the last value without what came before.
HandOnOwn(k) ==
  /\ Alive /\ pc[k] = "last"
  /\ list' = [list EXCEPT ![last(k)] = @ + addend[k]]
  /\ promise' = IF k = Final THEN promise ELSE [promise EXCEPT ![k] = Value(list[last(k)])]
  /\ Proceed(k, "rest")
  /\ UNCHANGED <<addend, throws>>

\* *last += addend, and handing it on before the others are done
AddToLast(k) ==
  /\ Alive /\ pc[k] = "last"
  /\ list' = [list EXCEPT ![last(k)] = @ + addend[k]]
  /\ promise' = IF k = Final THEN promise ELSE [promise EXCEPT ![k] = Value(list'[last(k)])]
  /\ Proceed(k, "rest")
  /\ UNCHANGED <<addend, throws>>

\* for_each from begin to the element before the last
AddToRest(k) ==
  /\ Alive /\ pc[k] = "rest"
  /\ list' = [i \in DOMAIN list |->
                IF i \in Block(k) \ {last(k)} THEN list[i] + addend[k] ELSE list[i]]
  /\ Proceed(k, "end")
  /\ UNCHANGED <<promise, addend, throws>>

\* An addition throws.  What the block has changed by then is not modelled: a
\* list of which a part has thrown is never returned.
AdditionThrows(k) ==
  /\ Alive /\ pc[k] \in {"sum", "last", "rest"} /\ throws < MaxThrows
  /\ pc[k] # "last" => Cardinality(Block(k)) > 1
  /\ throws' = throws + 1
  /\ Proceed(k, "catch")
  /\ UNCHANGED <<list, promise, addend>>

\* Mutant: the exception is dropped where it was caught.
SwallowsIt(k) ==
  /\ Alive /\ pc[k] = "catch" /\ k # Final
  /\ Proceed(k, "end")
  /\ UNCHANGED <<list, promise, addend, throws>>

\* The handler of a thread: set_exception, which throws if the value has been
\* set, and then leaves the thread by an exception.
HandleInThread(k) ==
  /\ Alive /\ pc[k] = "catch" /\ k # Final
  /\ IF promise[k] = Unset
     THEN promise' = [promise EXCEPT ![k] = Failed] /\ Proceed(k, "end")
     ELSE Escape(k) /\ UNCHANGED promise
  /\ UNCHANGED <<list, addend, throws>>

\* Mutant: the caller keeps the exception to itself.
Suppress(k) ==
  /\ Alive /\ pc[k] = "catch" /\ k = Final
  /\ Proceed(k, "end")
  /\ UNCHANGED <<list, promise, addend, throws>>

\* The handler of the caller: throw.
HandleInCaller(k) ==
  /\ Alive /\ pc[k] = "catch" /\ k = Final
  /\ Proceed(k, "thrown")
  /\ UNCHANGED <<list, promise, addend, throws>>
-----------------------------------------------------------------------------
(* The caller                                                              *)

LaunchSum ==
  /\ StartThread("sum") \/ StartFinal("sum")
  /\ UNCHANGED <<list, promise, addend, throws>>

LaunchSumFails ==
  /\ throws < MaxThrows /\ StartFails
  /\ throws' = throws + 1
  /\ UNCHANGED <<list, promise, addend>>

ReturnSum ==
  /\ \/ ReturnAtOnce(Returned)
     \/ length > 0 /\ pc[Final] = "end" /\ Leave(Returned)
     \/ LeaveByException
  /\ UNCHANGED <<list, promise, addend, throws>>
-----------------------------------------------------------------------------
SumStep(k) ==
  \/ SumBlock(k) \/ SetFirst(k) \/ Get(k) \/ GetThrows(k)
  \/ AddToLast(k) \/ AddToRest(k)
  \/ HandleInThread(k) \/ HandleInCaller(k)

\* What the system may do to the call.
SumTrouble(k) == LaunchSumFails \/ AdditionThrows(k)
-----------------------------------------------------------------------------
(* Properties.                                                             *)

\* When the call returns, the list holds its prefix sums, although the blocks
\* work at the same time and hand on their last values before they are done.
PrefixSums ==
  algorithm = "partial_sum" /\ outcome = Returned =>
    list = partial_sum(Element, 0, length - 1)
=============================================================================
