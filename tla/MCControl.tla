----------------------------- MODULE MCControl -----------------------------
(***************************************************************************)
(* Control for TLC: two writers of the log, two calls of allow at once and *)
(* two recipients, two drafts and two clients.                             *)
(***************************************************************************)
EXTENDS Control
CONSTANTS h1, h2, a, b
MCHandlers == {h1, h2}
MCJids == {a, b}
MCSymmetry == Permutations(MCHandlers) \cup Permutations(MCJids)
=============================================================================
