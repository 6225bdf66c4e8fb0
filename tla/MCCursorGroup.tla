--------------------------- MODULE MCCursorGroup ---------------------------
(* CursorGroup on small instances. *)
EXTENDS CursorGroup, TLC

AllNormal == [i \in Id |-> "normal"]
TokenSymmetry == Permutations(LeaseToken) \cup Permutations(RunToken)
=============================================================================
