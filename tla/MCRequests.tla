----------------------------- MODULE MCRequests -----------------------------
(***************************************************************************)
(* Requests for TLC: two calls, three chats.                               *)
(***************************************************************************)
EXTENDS Requests
CONSTANTS s1, s2, c1, c2, c3
MCSlots == {s1, s2}
MCChats == {c1, c2, c3}
MCCap == [create |-> 1, add |-> 2]
MCSymmetry == Permutations(MCSlots)
=============================================================================
