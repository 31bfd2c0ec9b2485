------------------------------- MODULE Daemon -------------------------------
(***************************************************************************)
(* The daemon's own housekeeping: its startup and shutdown, the way of a   *)
(* message into the history, the schema of the database it is stored in,   *)
(* the repair of the app state and the watchdog of the connection.  Each   *)
(* module keeps as much of the adapter's Close as it meets, and they share *)
(* no other state, so each behaviour is about one of them, the focus,      *)
(* while the others stay as they started.                                  *)
(***************************************************************************)
EXTENDS Lifecycle, Inbox, Schema, Recovery, Watchdog

VARIABLE focus

daemonVars == <<focus, lifeVars, inboxVars, schemaVars, repairVars, watchVars>>

Init ==
    /\ focus \in {"life", "inbox", "schema", "repair", "watchdog"}
    /\ LifeInit
    /\ focus # "life" => lively = "socket"
    /\ InboxInit
    /\ SchemaInit
    /\ focus # "schema" => db = Left(Latest)
    /\ RepairInit
    /\ WatchInit
    /\ focus # "watchdog" => capSec = ThresholdSec

LifeStep ==
    /\ focus = "life"
    /\ LifeNext
    /\ UNCHANGED <<focus, inboxVars, schemaVars, repairVars, watchVars>>

InboxStep ==
    /\ focus = "inbox"
    /\ InboxNext
    /\ UNCHANGED <<focus, lifeVars, schemaVars, repairVars, watchVars>>

SchemaStep ==
    /\ focus = "schema"
    /\ SchemaNext
    /\ UNCHANGED <<focus, lifeVars, inboxVars, repairVars, watchVars>>

RepairStep ==
    /\ focus = "repair"
    /\ RepairNext
    /\ UNCHANGED <<focus, lifeVars, inboxVars, schemaVars, watchVars>>

WatchStep ==
    /\ focus = "watchdog"
    /\ WatchNext
    /\ UNCHANGED <<focus, lifeVars, inboxVars, schemaVars, repairVars>>

Next == LifeStep \/ InboxStep \/ SchemaStep \/ RepairStep \/ WatchStep

\* Main, and whoever it told to stop, go on while they can.
LifeProgress ==
    /\ focus = "life"
    /\ MainStep \/ Retire
    /\ UNCHANGED <<focus, inboxVars, schemaVars, repairVars, watchVars>>

Spec == Init /\ [][Next]_daemonVars /\ WF_daemonVars(LifeProgress)
=============================================================================
