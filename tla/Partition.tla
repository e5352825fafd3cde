------------------------------ MODULE Partition ------------------------------
(***************************************************************************)
(* How the parallel algorithms cut a range of a given length into blocks,  *)
(* one for each thread: parallel_partial_sum, parallel_find_pt and their   *)
(* relatives compute num_threads and block_size by the same lines, step    *)
(* through the range block by block, and give what is left to the caller,  *)
(* whose block is the last.  len is the length of the range and hw what    *)
(* hardware_concurrency() returns.  Positions count from 0, blocks from 1. *)
(***************************************************************************)
EXTENDS Integers

CONSTANT MinPerThread   \* min_per_thread, 25 in the code

ASSUME MinPerThreadAssumption == MinPerThread \in Nat \ {0}

max_threads(len) == (len + MinPerThread - 1) \div MinPerThread

\* hardware_threads != 0 ? hardware_threads : 2
Planned(hw) == IF hw # 0 THEN hw ELSE 2

num_threads(len, hw) ==
  IF Planned(hw) < max_threads(len)
  THEN Planned(hw) ELSE max_threads(len)

block_size(len, hw) == len \div num_threads(len, hw)

block_start(len, hw, k) == (k - 1) * block_size(len, hw)

\* Mutant: the caller's block is as long as the others.
NoRemainder(len, hw, k) == k * block_size(len, hw)

\* The position behind block k.
block_end(len, hw, k) ==
  IF k = num_threads(len, hw) THEN len
  ELSE k * block_size(len, hw)

BlockOf(len, hw, k) ==
  block_start(len, hw, k)..(block_end(len, hw, k) - 1)
-----------------------------------------------------------------------------
(* Properties.                                                             *)

\* Whatever the length and the hardware, no thread is without work and
\* every position is in one block only.
PartitionOK(len, hw) ==
  LET n == num_threads(len, hw)
      B(k) == BlockOf(len, hw, k)
  IN  len > 0 =>
        /\ n \in 1..len
        /\ \A k \in 1..n : B(k) # {} /\ B(k) \subseteq 0..(len - 1)
        /\ \A p \in 0..(len - 1) : \E k \in 1..n : p \in B(k)
        /\ \A j, k \in 1..n : j # k => B(j) \cap B(k) = {}
=============================================================================
