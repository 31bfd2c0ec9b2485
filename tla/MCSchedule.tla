----------------------------- MODULE MCSchedule -----------------------------
(* Instances of Schedule for TLC. *)
EXTENDS Schedule, TLC

CONSTANTS a, b

\* One schedule that sends and one that creates a draft.
MCKind == [id \in Ids |-> IF id = a THEN "send" ELSE "draft"]

Symmetry == Permutations(Slots) \cup Permutations(Callers)
=============================================================================
