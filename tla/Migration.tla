------------------------------ MODULE Migration ------------------------------
(***************************************************************************)
(* The one-off move of a single-profile tree (the "007" layout, files      *)
(* directly under wa/) into the per-profile tree (the "008" layout,        *)
(* wa/default/): cmd/wad/migrate.go, run by every boot of the daemon       *)
(* before a store is opened and by the `wad migrate` command.              *)
(*                                                                         *)
(* The state is the disk: which files stand where, the write-ahead marker, *)
(* the schema version and the active-profile pointer.  A file's contents   *)
(* is the set of the user's pieces it holds; the piece a file starts with  *)
(* carries the file's own name, so a checkpointed database holds its own   *)
(* piece and its log's, and a freshly created one holds none.  A plan is   *)
(* the set of the files it moves, visited in the order Plan lists them.    *)
(* Every system call that changes the disk is one step, any step may fail, *)
(* and the process may be killed between any two.  One process works on    *)
(* the tree at a time.                                                     *)
(***************************************************************************)
EXTENDS Integers, Sequences, FiniteSets, Functions

CONSTANTS
    Order,          \* the files in the order Plan lists them
    Main,           \* [sidecar -> the database whose write-ahead log it is]
    Session,        \* session.db: the one required source
    Databases,      \* what openStores opens, and creates when it is missing
    Rollbacks,      \* whether `wad migrate --rollback` is ever run
    RollbackFaults, \* whether it may fail or be killed half-way
    NoMarker,       \* the marker file is absent
    MaxCrashes,     \* bound: kills
    MaxErrors       \* bound: failing system calls

Files == Range(Order)
Sidecars == DOMAIN Main

ASSUME MigrationAssumption ==
    /\ Order \in Seq(Files) /\ IsInjective(Order)
    /\ Session \in Files
    /\ Databases \subseteq Files \ Sidecars
    /\ Session \in Databases
    /\ Main \in [Sidecars -> Databases]
    /\ Sidecars \subseteq Files
    /\ Rollbacks \in BOOLEAN /\ RollbackFaults \in BOOLEAN
    /\ MaxCrashes \in Nat /\ MaxErrors \in Nat
    /\ \A S \in SUBSET Files : NoMarker # S

VARIABLES
    legacy,   \* the files of the 007 tree, each with its contents
    dest,     \* the files of default/, each with its contents
    dir,      \* default/ exists
    litter,   \* the daemon has put stores of its own in default/
    schema,   \* readSchemaVersion: 1 when the file is absent
    pointer,  \* the active-profile file names "default"
    marker,   \* the plan in the .migrating file, or NoMarker
    pc,       \* what the running process does next; "off": none runs
    cmd,      \* the process: "daemon", "migrate" or "rollback"
    plan,     \* the files of the plan's "copy" steps, in memory
    todo,     \* the files the present loop has still to visit
    whole,    \* rollbackRenames' complete
    recovering, \* the migration is being finished by Recover, not by Apply
    crashes, errors,
    user      \* observation: the pieces the user had at the start

disk == <<legacy, dest, dir, litter, schema, pointer, marker>>
memory == <<cmd, plan, todo, whole, recovering>>
vars == <<disk, pc, memory, crashes, errors, user>>

Steps == {"off", "probe", "fresh", "checkpoint", "mark", "dirs", "rename",
          "unwind", "schema", "pointer", "clean", "unmark",
          "recover", "finish", "stores", "up",
          "copy", "remove", "rmschema", "rmpointer"}

Tree == UNION {[S -> SUBSET Files] : S \in SUBSET Files}

\* One type invariant for the whole disk and process state.
TypeOK ==
    /\ legacy \in Tree /\ dest \in Tree
    /\ dir \in BOOLEAN /\ litter \in BOOLEAN /\ pointer \in BOOLEAN
    /\ schema \in {1, 2}
    /\ marker \in {NoMarker} \cup SUBSET Files
    /\ pc \in Steps /\ cmd \in {"daemon", "migrate", "rollback"}
    /\ plan \subseteq Files /\ todo \subseteq Files
    /\ whole \in BOOLEAN /\ recovering \in BOOLEAN
    /\ crashes \in 0..MaxCrashes /\ errors \in 0..MaxErrors
    /\ user \subseteq Files

Put(tree, f, c) == [g \in DOMAIN tree \cup {f} |-> IF g = f THEN c ELSE tree[g]]
Drop(tree, f) == [g \in DOMAIN tree \ {f} |-> tree[g]]
Has(tree, f) == f \in DOMAIN tree

\* The loops take the files in the plan's order.
First(S) == Order[CHOOSE i \in DOMAIN Order :
    Order[i] \in S /\ \A j \in DOMAIN Order : Order[j] \in S => i <= j]
Rest(S) == S \ {First(S)}

\* A system call fails: errors counts them, and the disk keeps its state
\* unless the action says otherwise.
Fault ==
    /\ errors < MaxErrors
    /\ cmd = "rollback" => RollbackFaults
    /\ errors' = errors + 1

NoFault == UNCHANGED errors

\* autoMigrate returned nil: the daemon goes on to openStores, the command
\* exits.  It returned an error: main returns it and the process ends.
ReturnNil == pc' = IF cmd = "daemon" THEN "stores" ELSE "off"
ReturnErr == pc' = "off"

\* A fresh install, or a 007 tree: its daemon created session.db first and a
\* write-ahead log stands beside its database.
Init ==
    /\ \E S \in SUBSET Files :
         /\ S # {} => Session \in S
         /\ \A s \in S \cap Sidecars : Main[s] \in S
         /\ legacy = [f \in S |-> {f}]
         /\ user = S
    /\ dest = <<>> /\ dir = FALSE /\ litter = FALSE
    /\ schema = 1 /\ pointer = FALSE /\ marker = NoMarker
    /\ pc = "off" /\ cmd = "daemon" /\ plan = {} /\ todo = {} /\ whole = TRUE
    /\ recovering = FALSE
    /\ crashes = 0 /\ errors = 0

-----------------------------------------------------------------------------
(* autoMigrate *)

\* A boot of the daemon, or `wad migrate` run by hand.
Launch ==
    /\ pc = "off"
    /\ \E c \in {"daemon", "migrate"} : cmd' = c
    /\ pc' = "probe"
    /\ UNCHANGED <<disk, plan, todo, whole, recovering, crashes, errors, user>>

\* Mutant: the plan forgets the databases' logs.
NoSidecarSteps == DOMAIN legacy \ Sidecars

\* Plan's "copy" steps: the sources that exist.
CopySteps == DOMAIN legacy

\* The branch of autoMigrate and, where it ends in Apply, Plan's pre-flight
\* checks.  Only probes: the disk does not change.
AutoMigrate ==
    /\ pc = "probe"
    /\ NoFault
    /\ CASE marker # NoMarker -> pc' = "recover" /\ UNCHANGED plan
         [] marker = NoMarker /\ schema = 2 -> ReturnNil /\ UNCHANGED plan
         [] marker = NoMarker /\ schema = 1 /\ ~Has(legacy, Session) ->
                pc' = "fresh" /\ UNCHANGED plan
         [] marker = NoMarker /\ schema = 1 /\ Has(legacy, Session) /\ dir ->
                ReturnNil /\ UNCHANGED plan
         [] OTHER ->
                IF DOMAIN dest # {} THEN ReturnErr /\ UNCHANGED plan
                ELSE pc' = "checkpoint" /\ plan' = CopySteps
    /\ recovering' = (marker # NoMarker)
    /\ UNCHANGED <<disk, cmd, todo, whole, crashes, user>>

\* A probe, the ownership check or the same-filesystem check fails.
ProbeFails ==
    /\ pc = "probe"
    /\ Fault
    /\ ReturnErr
    /\ UNCHANGED <<disk, memory, crashes, user>>

\* No 007 tree: a fresh install is stamped as version 2.
StampFresh ==
    /\ pc = "fresh"
    /\ \/ NoFault /\ schema' = 2 /\ ReturnNil
       \/ Fault /\ UNCHANGED schema /\ ReturnErr
    /\ UNCHANGED <<legacy, dest, dir, litter, pointer, marker, memory, crashes, user>>

-----------------------------------------------------------------------------
(* Apply *)

\* wal_checkpoint(TRUNCATE) on every source database, by a connection that
\* is then closed.  Where it works, the log's pages are in the database and
\* closing the last connection has removed the log; where it fails, nothing
\* has changed, which is not fatal.
Flushed(d) == legacy[d] \cup UNION {legacy[s] : s \in {t \in Sidecars : Has(legacy, t) /\ Main[t] = d}}

CheckpointSources ==
    /\ pc = "checkpoint"
    /\ \E S \in SUBSET (Databases \cap DOMAIN legacy) :
         legacy' = [f \in DOMAIN legacy \ {t \in Sidecars : Main[t] \in S} |->
                       IF f \in S THEN Flushed(f) ELSE legacy[f]]
    /\ pc' = "mark"
    /\ UNCHANGED <<dest, dir, litter, schema, pointer, marker, memory, crashes, errors, user>>

\* writeMarker, atomically: a temporary file renamed over the marker.
WriteMarker ==
    /\ pc = "mark"
    /\ \/ NoFault /\ marker' = plan /\ pc' = "dirs"
       \/ Fault /\ UNCHANGED marker /\ ReturnErr
    /\ UNCHANGED <<legacy, dest, dir, litter, schema, pointer, memory, crashes, user>>

\* ensureDirs; when it fails, the data directory may have been made already,
\* and the marker is removed.
MakeDirs ==
    /\ pc = "dirs"
    /\ \/ NoFault /\ dir' = TRUE /\ pc' = "rename" /\ todo' = plan /\ UNCHANGED marker
       \/ Fault /\ dir' \in {dir, TRUE} /\ marker' = NoMarker /\ ReturnErr /\ UNCHANGED todo
    /\ UNCHANGED <<legacy, dest, litter, schema, pointer, cmd, plan, whole, recovering, crashes, user>>

\* abortRenames: rollbackRenames visits the steps before the failing one.
Abort ==
    /\ pc' = "unwind"
    /\ todo' = plan \ todo
    /\ whole' = TRUE

\* One turn of renamePlan's loop.  A source the checkpoint removed is still
\* a step of the plan: renaming it fails.
RenamePlan ==
    /\ pc = "rename"
    /\ IF todo = {}
       THEN /\ pc' = "schema"
            /\ NoFault
            /\ UNCHANGED <<legacy, dest, todo, whole>>
       ELSE LET f == First(todo) IN
            \/ /\ Has(legacy, f)
               /\ NoFault
               /\ dest' = Put(dest, f, legacy[f])
               /\ legacy' = Drop(legacy, f)
               /\ todo' = Rest(todo)
               /\ UNCHANGED <<pc, whole>>
            \/ /\ IF Has(legacy, f) THEN Fault ELSE NoFault
               /\ Abort
               /\ UNCHANGED <<legacy, dest>>
    /\ UNCHANGED <<dir, litter, schema, pointer, marker, cmd, plan, recovering, crashes, user>>

\* One turn of rollbackRenames: a completed move is renamed back, and a
\* failure to do so is remembered.
RollbackRenames ==
    /\ pc = "unwind" /\ todo # {}
    /\ todo' = Rest(todo)
    /\ LET f == First(todo) IN
       IF ~Has(dest, f) \/ Has(legacy, f)
       THEN NoFault /\ UNCHANGED <<legacy, dest, whole>>
       ELSE \/ /\ NoFault
               /\ legacy' = Put(legacy, f, dest[f])
               /\ dest' = Drop(dest, f)
               /\ UNCHANGED whole
            \/ Fault /\ whole' = FALSE /\ UNCHANGED <<legacy, dest>>
    /\ UNCHANGED <<dir, litter, schema, pointer, marker, pc, cmd, plan, recovering, crashes, user>>

\* Mutant: the marker is removed although a move could not be undone.
AbortForgetsMarker ==
    /\ pc = "unwind" /\ todo = {}
    /\ NoFault /\ marker' = NoMarker
    /\ ReturnErr
    /\ UNCHANGED <<legacy, dest, dir, litter, schema, pointer, memory, crashes, user>>

\* The end of abortRenames: the marker goes only when every move was undone;
\* failing to remove it is not fatal.  Apply returns the rename's error.
AbortRenames ==
    /\ pc = "unwind" /\ todo = {}
    /\ \/ whole /\ NoFault /\ marker' = NoMarker
       \/ ~whole /\ NoFault /\ UNCHANGED marker
       \/ whole /\ Fault /\ UNCHANGED marker
    /\ ReturnErr
    /\ UNCHANGED <<legacy, dest, dir, litter, schema, pointer, memory, crashes, user>>

\* The two atomic writes that end a migration, in Apply and in Recover.
WriteSchema ==
    /\ pc = "schema"
    /\ \/ NoFault /\ schema' = 2 /\ pc' = "pointer"
       \/ Fault /\ UNCHANGED schema /\ ReturnErr
    /\ UNCHANGED <<legacy, dest, dir, litter, pointer, marker, memory, crashes, user>>

WriteActiveProfile ==
    /\ pc = "pointer"
    /\ \/ NoFault /\ pointer' = TRUE /\ pc' = "clean" /\ todo' = plan
       \/ Fault /\ ReturnErr /\ UNCHANGED <<pointer, todo>>
    /\ UNCHANGED <<legacy, dest, dir, litter, schema, marker, cmd, plan, whole, recovering, crashes, user>>

\* One turn of cleanupResidualSources: a source still there is removed; a
\* failure is not fatal.
CleanupResidualSources ==
    /\ pc = "clean"
    /\ IF todo = {} THEN pc' = "unmark" /\ NoFault /\ UNCHANGED <<legacy, todo>>
       ELSE /\ todo' = Rest(todo)
            /\ \/ NoFault /\ legacy' = Drop(legacy, First(todo))
               \/ Has(legacy, First(todo)) /\ Fault /\ UNCHANGED legacy
            /\ UNCHANGED pc
    /\ UNCHANGED <<dest, dir, litter, schema, pointer, marker, cmd, plan, whole, recovering, crashes, user>>

\* The marker is removed last.  In Apply a failure is a warning, in Recover
\* an error; recovery then runs again on the next boot.
RemoveMarker ==
    /\ pc = "unmark"
    /\ \/ NoFault /\ marker' = NoMarker /\ ReturnNil
       \/ Fault /\ UNCHANGED marker /\ IF recovering THEN ReturnErr ELSE ReturnNil
    /\ UNCHANGED <<legacy, dest, dir, litter, schema, pointer, memory, crashes, user>>

-----------------------------------------------------------------------------
(* Recover *)

\* Mutant: anything short of a complete set of destinations is rolled back.
RecoverOnlyComplete ==
    /\ pc = "recover"
    /\ plan' = marker
    /\ IF \A f \in marker : Has(dest, f)
       THEN NoFault /\ pc' = "finish" /\ todo' = marker /\ UNCHANGED marker
       ELSE NoFault /\ marker' = NoMarker /\ ReturnNil /\ UNCHANGED todo
    /\ UNCHANGED <<legacy, dest, dir, litter, schema, pointer, cmd, whole, recovering, crashes, user>>

\* The plan is read back from the marker.  With none of its destinations in
\* place the marker is removed; otherwise the migration is driven forward.
Recover ==
    /\ pc = "recover"
    /\ plan' = marker
    /\ IF \E f \in marker : Has(dest, f)
       THEN NoFault /\ pc' = "finish" /\ todo' = marker /\ UNCHANGED marker
       ELSE /\ UNCHANGED todo
            /\ \/ NoFault /\ marker' = NoMarker /\ ReturnNil
               \/ Fault /\ UNCHANGED marker /\ ReturnErr
    /\ UNCHANGED <<legacy, dest, dir, litter, schema, pointer, cmd, whole, recovering, crashes, user>>

\* Mutant: a rename that fails is passed over.
FinishWhatMoves ==
    /\ pc = "finish"
    /\ IF todo = {} THEN pc' = "schema" /\ NoFault /\ UNCHANGED <<legacy, dest, dir, todo>>
       ELSE LET f == First(todo) IN
            /\ todo' = Rest(todo) /\ UNCHANGED pc
            /\ IF Has(dest, f) \/ ~Has(legacy, f)
               THEN NoFault /\ UNCHANGED <<legacy, dest, dir>>
               ELSE \/ /\ NoFault
                       /\ dir' = TRUE
                       /\ dest' = Put(dest, f, legacy[f])
                       /\ legacy' = Drop(legacy, f)
                    \/ Fault /\ UNCHANGED <<legacy, dest, dir>>
    /\ UNCHANGED <<litter, schema, pointer, marker, cmd, plan, whole, recovering, crashes, user>>

\* One turn of finishPartialRenames.
FinishPartialRenames ==
    /\ pc = "finish"
    /\ IF todo = {} THEN pc' = "schema" /\ NoFault /\ UNCHANGED <<legacy, dest, dir, todo>>
       ELSE LET f == First(todo) IN
            IF Has(dest, f) \/ ~Has(legacy, f)
            THEN todo' = Rest(todo) /\ NoFault /\ UNCHANGED <<legacy, dest, dir, pc>>
            ELSE \/ /\ NoFault
                    /\ dir' = TRUE
                    /\ dest' = Put(dest, f, legacy[f])
                    /\ legacy' = Drop(legacy, f)
                    /\ todo' = Rest(todo)
                    /\ UNCHANGED pc
                 \/ Fault /\ ReturnErr /\ UNCHANGED <<legacy, dest, dir, todo>>
    /\ UNCHANGED <<litter, schema, pointer, marker, cmd, plan, whole, recovering, crashes, user>>

-----------------------------------------------------------------------------
(* The daemon on its profile, and the processes' ends *)

\* openStores: ensureDirs again, then the databases are opened and created
\* where they are missing.  A log found beside an empty database is removed
\* by SQLite; one beside its own database is read as part of it.
Opened(f) ==
    CASE f \in Databases /\ Has(dest, f) ->
            dest[f] \cup UNION {dest[s] : s \in {t \in Sidecars : Has(dest, t) /\ Main[t] = f}}
      [] f \in Databases /\ ~Has(dest, f) -> {}
      [] OTHER -> dest[f]

OpenStores ==
    /\ pc = "stores"
    /\ \/ /\ NoFault
          /\ dest' = [f \in Databases \cup {g \in DOMAIN dest : g \in Sidecars => Has(dest, Main[g])} |-> Opened(f)]
          /\ dir' = TRUE /\ litter' = TRUE
          /\ pc' = "up"
       \/ /\ Fault
          /\ dir' \in {dir, TRUE} /\ UNCHANGED <<dest, litter>>
          /\ ReturnErr
    /\ UNCHANGED <<legacy, schema, pointer, marker, memory, crashes, user>>

Stop ==
    /\ pc = "up"
    /\ pc' = "off"
    /\ UNCHANGED <<disk, memory, crashes, errors, user>>

\* A kill, in front of any step.
Crash ==
    /\ pc \notin {"off", "up"}
    /\ cmd = "rollback" => RollbackFaults
    /\ crashes < MaxCrashes /\ crashes' = crashes + 1
    /\ pc' = "off"
    /\ UNCHANGED <<disk, memory, errors, user>>

-----------------------------------------------------------------------------
(* ApplyRollback *)

\* Its pre-conditions: version 2, one profile, its session there, no marker.
LaunchRollback ==
    /\ Rollbacks
    /\ pc = "off"
    /\ schema = 2 /\ dir /\ Has(dest, Session) /\ marker = NoMarker
    /\ cmd' = "rollback" /\ todo' = Files /\ pc' = "copy"
    /\ UNCHANGED <<disk, plan, whole, recovering, crashes, errors, user>>

\* One turn of the loop: copyFileWithFsync refuses a file already there and
\* takes back a copy it could not finish.
CopyBack ==
    /\ pc = "copy" /\ todo # {}
    /\ LET f == First(todo) IN
       IF ~Has(dest, f) THEN todo' = Rest(todo) /\ NoFault /\ UNCHANGED <<legacy, pc>>
       ELSE \/ /\ ~Has(legacy, f)
               /\ NoFault
               /\ legacy' = Put(legacy, f, dest[f])
               /\ pc' = "remove"
               /\ UNCHANGED todo
            \/ /\ IF Has(legacy, f) THEN NoFault ELSE Fault
               /\ ReturnErr
               /\ UNCHANGED <<legacy, todo>>
    /\ UNCHANGED <<dest, dir, litter, schema, pointer, marker, cmd, plan, whole, recovering, crashes, user>>

\* The copied file is removed; a failure is ignored.
RemoveCopied ==
    /\ pc = "remove"
    /\ \/ NoFault /\ dest' = Drop(dest, First(todo))
       \/ Fault /\ UNCHANGED dest
    /\ todo' = Rest(todo) /\ pc' = "copy"
    /\ UNCHANGED <<legacy, dir, litter, schema, pointer, marker, cmd, plan, whole, recovering, crashes, user>>

\* The directories go if they are empty, then the version and the pointer:
\* three removals whose failures are ignored.
RemoveDirs ==
    /\ pc = "copy" /\ todo = {}
    /\ dir' = (litter \/ DOMAIN dest # {})
    /\ pc' = "rmschema"
    /\ UNCHANGED <<legacy, dest, litter, schema, pointer, marker, memory, crashes, errors, user>>

RemoveSchema ==
    /\ pc = "rmschema"
    /\ \/ NoFault /\ schema' = 1
       \/ Fault /\ UNCHANGED schema
    /\ pc' = "rmpointer"
    /\ UNCHANGED <<legacy, dest, dir, litter, pointer, marker, memory, crashes, user>>

RemovePointer ==
    /\ pc = "rmpointer"
    /\ \/ NoFault /\ pointer' = FALSE
       \/ Fault /\ UNCHANGED pointer
    /\ pc' = "off"
    /\ UNCHANGED <<legacy, dest, dir, litter, schema, marker, memory, crashes, user>>

-----------------------------------------------------------------------------
(* The steps of a process that has been started; all of them terminate. *)
Work ==
    \/ AutoMigrate \/ StampFresh
    \/ CheckpointSources \/ WriteMarker \/ MakeDirs \/ RenamePlan
    \/ RollbackRenames \/ AbortRenames
    \/ WriteSchema \/ WriteActiveProfile \/ CleanupResidualSources \/ RemoveMarker
    \/ Recover \/ FinishPartialRenames \/ OpenStores
    \/ CopyBack \/ RemoveCopied \/ RemoveDirs \/ RemoveSchema \/ RemovePointer

Next == Work \/ ProbeFails \/ Launch \/ LaunchRollback \/ Stop \/ Crash

Spec == Init /\ [][Next]_vars

\* A process that is started runs on, a daemon that is up is stopped some
\* day, and the service manager starts it again.
FairSpec == Spec /\ WF_vars(Work) /\ WF_vars(Stop) /\ WF_vars(Launch)

-----------------------------------------------------------------------------
(* Properties *)

Held(tree) == UNION {tree[f] : f \in DOMAIN tree}

\* No file of the user's is lost, whichever call fails and wherever the
\* process is killed: every piece the user had is in a file of the one tree
\* or of the other (migrate_crash_test.go, SC-013).
NoDataLost == user \subseteq Held(legacy) \cup Held(dest)

\* A half-migrated tree is never hidden: once the version says 2, either the
\* marker still calls for recovery or nothing of the user's is left behind
\* in the old tree (abortRenames, SF-04).
HalfMigratedIsMarked ==
    schema = 2 /\ marker = NoMarker /\ cmd # "rollback"
        => user \cap Held(legacy) = {}

\* A database and its write-ahead log never part: whenever the daemon is up
\* on the user's database, the log's pages are with it.
LogFollowsDatabase ==
    pc = "up" =>
        \A s \in Sidecars \cap user : Main[s] \in Held(dest) => s \in Held(dest)

\* An interrupted migration is finished: a marker with a file already moved
\* leads to version 2 with the marker gone and nothing left behind, however
\* often recovery is itself interrupted (Recover's idempotent steps).
RecoveryFinishes ==
    (marker # NoMarker /\ user \cap Held(dest) # {} /\ pc = "off")
        ~> (schema = 2 /\ marker = NoMarker /\ user \subseteq Held(dest))

\* After a migration that was undone the next boot retries it: the daemon is
\* never up on a profile without the user's session (abortRenames' comment).
NextBootRetries == pc = "up" /\ Session \in user => Session \in Held(dest)
=============================================================================
