----------------------------- MODULE MCKeyLease -----------------------------
(* KeyLease on small instances. *)
EXTENDS KeyLease

\* The second message outranks the third.
LateRank == [i \in KeyedId |-> IF i = 2 THEN 2 ELSE 1]

=============================================================================
