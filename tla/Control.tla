------------------------------ MODULE Control ------------------------------
(***************************************************************************)
(* What an operator steers the daemon with: the audit log, the allowlist   *)
(* and the queue of drafts.  They share no state (Allowlist keeps as much  *)
(* of the log as its callers see), so each behaviour is about one of them, *)
(* the focus, while the other two stay as they were installed.             *)
(***************************************************************************)
EXTENDS AuditLog, Allowlist, Drafts

VARIABLE focus

controlVars == <<focus, logVars, allowVars, draftVars>>

Init ==
    /\ focus \in {"log", "allow", "drafts"}
    /\ LogInit
    /\ AllowInit
    /\ focus # "allow" => path = None
    /\ DraftInit
    /\ focus # "drafts" => ~sweeping

LogStep ==
    /\ focus = "log"
    /\ LogNext
    /\ UNCHANGED <<focus, allowVars, draftVars>>

AllowStep ==
    /\ focus = "allow"
    /\ AllowNext
    /\ UNCHANGED <<focus, logVars, draftVars>>

DraftStep ==
    /\ focus = "drafts"
    /\ DraftNext
    /\ UNCHANGED <<focus, logVars, allowVars>>

Next == LogStep \/ AllowStep \/ DraftStep

Spec == Init /\ [][Next]_controlVars
=============================================================================
