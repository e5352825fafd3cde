--------------------------- MODULE MCSortingPools ---------------------------
(* A small instance of SortingPools for TLC. *)
EXTENDS SortingPools

\* Keys with one pair of equal ones, the others less and greater.
OnePair == [e \in Elements |-> IF e = 3 THEN 2 ELSE e]
=============================================================================
