---------------------------- MODULE BlockThreads ----------------------------
(***************************************************************************)
(* The frame of the parallel algorithms: a range is cut into blocks, the   *)
(* caller starts a thread for each block but the last, works on that one   *)
(* itself, and, but for parallel_accumulate, is held by a join_threads     *)
(* object until all have ended, however it leaves.  The algorithms say what*)
(* is done with a block: their places are values of pc besides "off",      *)
(* "end" and "thrown".                                                     *)
(***************************************************************************)
EXTENDS Partition, FiniteSetsExt

CONSTANTS Lengths,       \* the range has one of these lengths,
          AsyncLengths,  \* or one of these if it is halved instead
          Hardware,      \* what hardware_concurrency() returns: one of these
          MinBlockSize,  \* MIN_BLOCK_SIZE, 1000 in the code
          MaxThrows      \* bound: how many exceptions are thrown, but for those
                         \*   at the positions that ParallelFind chooses

ASSUME RangesAssumption ==
  Lengths \subseteq Nat /\ AsyncLengths \subseteq Nat /\ Hardware \subseteq Nat
ASSUME MinBlockSizeAssumption == MinBlockSize \in Nat \ {0}
ASSUME ThrowsAssumption == MaxThrows \in Nat

VARIABLES algorithm,   \* what is called
          length, hardware,
          pc,          \* block -> what the code that works on it does next
          started,     \* how many threads the caller has started
          outcome,     \* how the call ended
          throws       \* history: exceptions of elements and of the system so far

setting == <<algorithm, length, hardware>>
frame == <<setting, pc, started, outcome>>

\* parallel_accumulate of raw threads has an arithmetic of its own, with no
\* thread at all for a range shorter than MinBlockSize - 1.
allowed_threads ==
  LET by_elements == (length + 1) \div MinBlockSize
  IN  IF Planned(hardware) < by_elements THEN Planned(hardware) ELSE by_elements

raw_block_size == (length + 1) \div allowed_threads

IsRaw == algorithm = "raw_accumulate"
threads == IF IsRaw THEN allowed_threads ELSE num_threads(length, hardware)
begin(k) ==
  IF IsRaw THEN (k - 1) * raw_block_size ELSE block_start(length, hardware, k)
end(k) ==
  CASE ~IsRaw -> block_end(length, hardware, k)
    [] IsRaw /\ k = threads -> length
    [] OTHER -> k * raw_block_size

Ids == UNION {1..h : h \in Hardware \cup {2}}
Final == threads            \* the block of the caller
Positions == 0..(length - 1)
Block(k) == begin(k)..(end(k) - 1)

\* Outcomes besides what the algorithm returns, which is a natural number.
Returned == 0        \* if it returns nothing
Running == -1
Threw == -2
Terminated == -3     \* by an exception that left a thread
Undefined == -4      \* undefined behaviour: nothing is known any more
Alive == outcome = Running

\* parallel_partial_sum, parallel_find_pt, parallel_for_each_pt, the
\* parallel_accumulate of raw threads, parallel_multiply, parallel_transpose,
BlockwiseNames ==
  {"partial_sum", "find", "for_each", "raw_accumulate", "multiply", "transpose"}

\* and those that halve the range, or cut it at a pivot, with std::async.
AsyncNames == {"find_async", "for_each_async", "accumulate", "sort"}

InitFrame ==
  /\ algorithm \in BlockwiseNames \cup AsyncNames
  /\ length \in IF algorithm \in AsyncNames THEN AsyncLengths ELSE Lengths
  /\ hardware \in Hardware
  /\ algorithm \in AsyncNames => hardware = Min(Hardware)    \* do not ask
  /\ pc = [k \in Ids |-> "off"]
  /\ started = 0 /\ outcome = Running /\ throws = 0

Goto(k, l) == pc' = [pc EXCEPT ![k] = l]

\* The work on block k goes on at l.
Proceed(k, l) == Goto(k, l) /\ UNCHANGED <<setting, started, outcome>>

\* if (!length) return
ReturnAtOnce(value) ==
  /\ Alive /\ length = 0
  /\ outcome' = value
  /\ UNCHANGED <<setting, pc, started>>

Starting == Alive /\ threads > 0 /\ pc[Final] = "off"

\* threads[i] = std::thread(...)
StartThread(first) ==
  /\ Starting /\ started < threads - 1
  /\ started' = started + 1
  /\ Goto(started', first)
  /\ UNCHANGED <<setting, outcome>>

\* The thread cannot be created, and the loop is left by an exception.
StartFails ==
  /\ Starting /\ started < threads - 1
  /\ Proceed(Final, "thrown")

\* The caller works on the final block itself.
StartFinal(first) ==
  /\ Starting /\ started = threads - 1
  /\ Proceed(Final, first)

\* An exception leaves the code that works on block k: a thread ends the
\* program by it, the caller leaves the function.
Escape(k) ==
  IF k = Final THEN Proceed(k, "thrown")
  ELSE outcome' = Terminated /\ UNCHANGED <<setting, pc, started>>

\* The destructor of joiner joins the threads that were started.
AllJoined == \A k \in 1..started : pc[k] = "end"

Leave(value) ==
  /\ Alive /\ length > 0 /\ AllJoined
  /\ outcome' = value
  /\ UNCHANGED <<setting, pc, started>>

LeaveByException == length > 0 /\ pc[Final] = "thrown" /\ Leave(Threw)
-----------------------------------------------------------------------------
(* Properties.                                                             *)

\* Whatever the length and the hardware, the blocks partition the range.
BlocksCover == PartitionOK(length, hardware)

\* The blocks that are worked on when the call is over.
NoBlockOutlivesCall == \A k \in Ids : pc[k] \in {"off", "end", "thrown"}

\* The call ends, or an exception that left a thread ended the program.
Ends == <>(outcome # Running)
=============================================================================
