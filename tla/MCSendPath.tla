---------------------------- MODULE MCSendPath ----------------------------
(* A small instance of SendPath: a number that moved, the one it moved to,  *)
(* and a JID that is not a phone number.                                    *)
EXTENDS SendPath, TLC

CONSTANTS old, new, group

MCAnswers == [j \in {old, new, group} |->
                  CASE j = old -> {new} [] j = new -> {new, NoJID} [] OTHER -> {}]

MCSymmetry == Permutations(Callers)
=============================================================================
