--------------------------- MODULE MCOrderedKeys ---------------------------
(* OrderedKeys on small instances. *)
EXTENDS OrderedKeys, TLC

AllNormal == [i \in Id |-> "normal"]

TokenSymmetry == Permutations(LeaseToken) \cup Permutations(RunToken)
=============================================================================
