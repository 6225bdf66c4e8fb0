---------------------------- MODULE ClaimFrontier ----------------------------
(***************************************************************************)
(* What a consumer group's read frontier promises, without transactions,   *)
(* snapshots or fences.  Every message id has a fate that is decided once: *)
(* a row that stays, or a gap.  The frontier starts where the group is     *)
(* registered and only ever moves over ids whose fate is decided, handing  *)
(* out each row it passes.  So no message above the starting position is   *)
(* skipped, however late its producer commits, and none is handed out      *)
(* twice by the frontier.                                                  *)
(***************************************************************************)
EXTENDS Integers

CONSTANT LastId   \* the highest message id

VARIABLES
    fate,       \* fate[i]: "open", "row" or "gap"
    frontier,   \* -1 while the group is not registered
    handed      \* ids handed out by the frontier

vars == <<fate, frontier, handed>>

Ids == 1 .. LastId

Init ==
    /\ fate = [i \in Ids |-> "open"]
    /\ frontier = -1
    /\ handed = {}

\* Transactions end: some open ids become rows or gaps, nothing else changes.
Decide ==
    /\ fate' \in [Ids -> {"open", "row", "gap"}]
    /\ \A i \in Ids : fate[i] # "open" => fate'[i] = fate[i]
    /\ UNCHANGED <<frontier, handed>>

\* A group registers once, at the beginning or at some head of the log.
Register ==
    /\ frontier = -1
    /\ frontier' \in 0 .. LastId
    /\ UNCHANGED <<fate, handed>>

\* The frontier passes ids whose fate is decided and hands out every row.
Advance ==
    /\ frontier # -1
    /\ frontier' \in frontier + 1 .. LastId
    /\ \A i \in frontier + 1 .. frontier' : fate[i] # "open"
    /\ handed' = handed \cup {i \in frontier + 1 .. frontier' : fate[i] = "row"}
    /\ UNCHANGED fate

Next == Decide \/ Register \/ Advance

Spec == Init /\ [][Next]_vars
=============================================================================
