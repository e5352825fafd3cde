----------------------------- MODULE AsyncHalves -----------------------------
(***************************************************************************)
(* The algorithms that hand one half of their range to std::async, do the  *)
(* other half themselves, and then get the future: parallel_find_async,    *)
(* parallel_for_each_async, parallal_accumulate and the parallel_quick_sort*)
(* of sort/parallel_quick_sort.h, whose halves lie below and above a pivot.*)
(*                                                                         *)
(* A call is named by its range, <<first, last>>.  In the sort the range   *)
(* is one of ranks: which of them is the pivot depends on the input, that  *)
(* is on nothing that is known.  std::async is called without a policy or  *)
(* with both: a call is run by a thread, whose future waits for it in its  *)
(* destructor, or deferred until get and never run without.                *)
(***************************************************************************)
EXTENDS ParallelFind, ForEachBlocks, Sequences

CONSTANT MinElements   \* MIN_ELEMENT_COUNT, 1000 in the code

ASSUME MinElementsAssumption == MinElements \in Nat \ {0}

VARIABLE calls         \* range -> the state of its call, for those made

Root == <<0, length>>
Size(c) == c[2] - c[1]
Elements(c) == [i \in 1..Size(c) |-> c[1] + i - 1]

\* at: where the call is; cut: where its range is cut; value: what it returns.
NewCall(at) == [at |-> at, cut |-> 0, value |-> <<>>]

AsyncInit ==
  calls = IF algorithm \in AsyncNames THEN [c \in {Root} |-> NewCall("begin")] ELSE <<>>

\* The calls made, and one for another range besides.
WithCall(made, another, at) ==
  [c \in DOMAIN made \cup {another} |-> IF c = another THEN NewCall(at) ELSE made[c]]

\* The range is worked on by the call alone.
Short(c) ==
  CASE algorithm = "sort" -> Size(c) < 2
    [] algorithm = "accumulate" -> Size(c) <= MinElements
    [] OTHER -> Size(c) < 2 * MinPerThread

\* Where the range can be cut: at mid_point, at mid, at the pivot.
Cuts(c) ==
  CASE algorithm = "sort" -> c[1]..(c[2] - 1)
    [] algorithm = "accumulate" -> {c[1] + (Size(c) + 1) \div 2}
    [] OTHER -> {c[1] + Size(c) \div 2}

LowerHalf(c, cut) == <<c[1], cut>>
UpperHalf(c, cut) == <<cut + IF algorithm = "sort" THEN 1 ELSE 0, c[2]>>

\* for_each hands over the first half, the others the second.
OwnHalf(c, cut) ==
  IF algorithm = "for_each_async" THEN UpperHalf(c, cut) ELSE LowerHalf(c, cut)
OtherHalf(c, cut) ==
  IF algorithm = "for_each_async" THEN LowerHalf(c, cut) ELSE UpperHalf(c, cut)

At(c, place) == Alive /\ c \in DOMAIN calls /\ calls[c].at = place
Goes(c, place) == calls' = [calls EXCEPT ![c].at = place]
Returns(c, v) == calls' = [calls EXCEPT ![c].at = "returned", ![c].value = v]
Own(c) == calls[OwnHalf(c, calls[c].cut)]
OtherRange(c) == OtherHalf(c, calls[c].cut)
Other(c) == calls[OtherRange(c)]

\* The handler of find raises the flag and throws again.
Throws(c) ==
  /\ Goes(c, "threw")
  /\ done_flag' = (done_flag \/ algorithm = "find_async")

quiet == <<frame, range, result, pos, future, collected>>
-----------------------------------------------------------------------------
(* A call without parts                                                    *)

Matches(c) == matches \cap c[1]..(c[2] - 1)

\* What a call returns of its own: the position found or the end of the range,
\* the elements in the order in which they were added, the sorted ranks.
Answer(c) ==
  CASE algorithm = "find_async" -> IF Matches(c) = {} THEN c[2] ELSE Min(Matches(c))
    [] algorithm = "for_each_async" -> <<>>
    [] OTHER -> Elements(c)

\* The loop of find tests the pointer done_flag, which is never null, and not
\* the flag: nobody stops it.
Work(c) ==
  /\ At(c, "begin") /\ Short(c)
  /\ Returns(c, Answer(c))
  /\ done_flag' = (done_flag \/ Matches(c) # {})
  /\ IF algorithm = "for_each_async" THEN Visit(c[1], c[2] - 1) ELSE UNCHANGED visits
  /\ UNCHANGED <<quiet, throws>>

\* A comparison, an addition or f throws at an element.  The sort compares in
\* calls that have parts.
WorkThrows(c) ==
  /\ At(c, "begin") /\ (Short(c) <=> algorithm # "sort") /\ throws < MaxThrows
  /\ throws' = throws + 1
  /\ \E p \in c[1]..(c[2] - 1) :
       IF algorithm = "for_each_async" THEN Visit(c[1], p) ELSE UNCHANGED visits
  /\ Throws(c)
  /\ UNCHANGED quiet
-----------------------------------------------------------------------------
(* A call with parts                                                       *)

\* The future of the other half, and the call of the own half.
CutInHalves(c) ==
  /\ At(c, "begin") /\ ~Short(c) /\ algorithm # "sort"
  /\ \E cut \in Cuts(c), other \in {"begin", "deferred"} :
       calls' = WithCall(WithCall([calls EXCEPT ![c].at = "own", ![c].cut = cut],
                                  OwnHalf(c, cut), "begin"), OtherHalf(c, cut), other)
  /\ UNCHANGED <<quiet, done_flag, visits, throws>>

\* The sort calls itself for the elements below the pivot first,
CutAtPivot(c) ==
  /\ At(c, "begin") /\ ~Short(c) /\ algorithm = "sort"
  /\ \E cut \in Cuts(c) :
       calls' = WithCall([calls EXCEPT ![c].at = "own", ![c].cut = cut],
                         OwnHalf(c, cut), "begin")
  /\ UNCHANGED <<quiet, done_flag, visits, throws>>

\* and hands over the others when these are sorted.
HandOver(c) ==
  /\ At(c, "own") /\ algorithm = "sort" /\ Own(c).at = "returned"
  /\ \E other \in {"begin", "deferred"} :
       calls' = WithCall([calls EXCEPT ![c].at = "get"], OtherRange(c), other)
  /\ UNCHANGED <<quiet, done_flag, visits, throws>>

\* direct_result == mid_point: the value is not in the own half.
NotFound(c) == Own(c).value = calls[c].cut

\* Mutant: the future of the other half is never got.
LeavesAtOnce(c) ==
  /\ At(c, "own") /\ algorithm # "sort" /\ Own(c).at = "returned"
  /\ calls' = [calls EXCEPT ![c].at = "leave", ![c].value = Own(c).value]
  /\ UNCHANGED <<quiet, done_flag, visits, throws>>

\* The own half returns; a find that has found does not get the future.
OwnReturns(c) ==
  /\ At(c, "own") /\ algorithm # "sort" /\ Own(c).at = "returned"
  /\ IF algorithm = "find_async" /\ ~NotFound(c)
     THEN calls' = [calls EXCEPT ![c].at = "leave", ![c].value = Own(c).value]
     ELSE Goes(c, "get")
  /\ UNCHANGED <<quiet, done_flag, visits, throws>>

\* The own half throws: the sort has no future to destroy.
OwnThrows(c) ==
  /\ At(c, "own") /\ Own(c).at = "threw"
  /\ IF algorithm = "sort" THEN Throws(c) ELSE Goes(c, "unwind") /\ UNCHANGED done_flag
  /\ UNCHANGED <<quiet, visits, throws>>

\* get runs a deferred call,
RunDeferred(c) ==
  /\ At(c, "get") /\ Other(c).at = "deferred"
  /\ Goes(OtherRange(c), "begin")
  /\ UNCHANGED <<quiet, done_flag, visits, throws>>

\* What is made of the two halves.
Join(c) ==
  CASE algorithm = "sort" -> Own(c).value \o <<calls[c].cut>> \o Other(c).value
    [] algorithm = "accumulate" -> Own(c).value \o Other(c).value
    [] OTHER -> Other(c).value

\* waits, and returns
GetReturnsHalf(c) ==
  /\ At(c, "get") /\ Other(c).at = "returned"
  /\ Returns(c, Join(c))
  /\ UNCHANGED <<quiet, done_flag, visits, throws>>

\* or throws.
GetThrowsHalf(c) ==
  /\ At(c, "get") /\ Other(c).at = "threw"
  /\ Throws(c)
  /\ UNCHANGED <<quiet, visits, throws>>

\* Mutant: the destructor of the future does not wait.
WaitForNobody(c) == TRUE

\* The destructor of the future waits for its thread.
FutureIdle(c) == Other(c).at \in {"returned", "threw", "deferred"}

\* A call leaves without having got the future, also by an exception.
DestroyFuture(c) ==
  /\ \/ At(c, "leave") /\ FutureIdle(c) /\ Goes(c, "returned") /\ UNCHANGED done_flag
     \/ At(c, "unwind") /\ FutureIdle(c) /\ Throws(c)
  /\ UNCHANGED <<quiet, visits, throws>>
-----------------------------------------------------------------------------
\* The outermost call has ended.
ReturnAsync ==
  /\ \/ /\ At(Root, "returned")
        /\ outcome' = IF algorithm = "find_async" THEN calls[Root].value ELSE Returned
     \/ At(Root, "threw") /\ outcome' = Threw
  /\ UNCHANGED <<setting, pc, started, calls, range, result, done_flag, pos,
                 eachVars, throws>>

CallStep(c) ==
  \/ Work(c) \/ CutInHalves(c) \/ CutAtPivot(c) \/ HandOver(c)
  \/ OwnReturns(c) \/ OwnThrows(c) \/ RunDeferred(c)
  \/ GetReturnsHalf(c) \/ GetThrowsHalf(c) \/ DestroyFuture(c)

AsyncStep == ReturnAsync \/ \E c \in DOMAIN calls : CallStep(c)
AsyncTrouble == \E c \in DOMAIN calls : WorkThrows(c)
-----------------------------------------------------------------------------
(* Properties.                                                             *)

\* When the outermost call is over no other one is under way: what a deferred
\* call that nobody got would have done is not done.
NoCallOutlivesRoot ==
  \A c \in DOMAIN calls : calls[c].at \in {"returned", "threw", "deferred"}

\* parallel_find_async returns the first match, whichever half is done first.
FirstIsFound ==
  /\ outcome \in Positions => outcome = Min(matches)
  /\ outcome = length => matches = {}

\* The sum is one of all elements in their order; the list is sorted.
InOrder == calls[Root].value = Elements(Root)
=============================================================================
