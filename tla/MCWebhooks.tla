----------------------------- MODULE MCWebhooks -----------------------------
(* Instances of Webhooks for TLC. *)
EXTENDS Webhooks, TLC

CONSTANTS x, y, msg, other

\* x listens to everything, y to messages only.
MCTopics == [e \in Endpoints |-> IF e = x THEN Types ELSE Types \cap {msg}]

TwoAttempts == <<1, 1>>

Symmetry == Permutations(Ids)
=============================================================================
