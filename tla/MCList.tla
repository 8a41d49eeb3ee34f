------------------------------- MODULE MCList -------------------------------
(* The nodes of the runs of List: heads and entries are interchangeable.   *)
EXTENDS List, TLC

Symmetry == Permutations(ListHead) \cup Permutations(Entry)
=============================================================================
