------------------------------ MODULE MCDaemon ------------------------------
(***************************************************************************)
(* Daemon for TLC: two messages, two repairs at once, and a watchdog with  *)
(* a threshold of three seconds whose cap is the default, below the        *)
(* threshold, in between and above the maximum.                            *)
(***************************************************************************)
EXTENDS Daemon, TLC
CONSTANTS m1, m2, r1, r2
MCMsgs == {m1, m2}
MCRepairers == {r1, r2}
MCCapRequests == {-1, 2, 5, 99}
=============================================================================
