--------------------------- MODULE MCEventStream ---------------------------
(* Instances of EventStream for TLC. *)
EXTENDS EventStream

CONSTANTS msg, other

\* Every client subscribes to messages only.
MessagesOnly == [s \in Subs |-> {msg}]
=============================================================================
