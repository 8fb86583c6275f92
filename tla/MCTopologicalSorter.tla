------------------------- MODULE MCTopologicalSorter -------------------------
(* Four objects are the fewest with a cycle and something that hangs on it  *)
(* beside an object with two dependencies.                                  *)
EXTENDS TopologicalSorter, TLC

Interchangeable == Permutations(Objects)
=============================================================================
