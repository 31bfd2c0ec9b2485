------------------------------- MODULE Schema -------------------------------
(***************************************************************************)
(* The schema of messages.db: every Open applies schema.sql, reads         *)
(* user_version and runs the migrations above it, each a list of           *)
(* statements that SQLite commits one by one, so that a kill or an error   *)
(* leaves any prefix behind.  From version 4 on a step is preceded by a    *)
(* backup and followed by a row of migration_history.                      *)
(***************************************************************************)
EXTENDS Naturals, Sequences, SequencesExt

CONSTANTS
    KeptBackups,    \* maxBackups, 5
    MaxOpens        \* bound of the calls of OpenWithBackups

ASSUME SchemaBounds == KeptBackups \in Nat \ {0} /\ MaxOpens \in Nat

Latest == 8

VARIABLES
    db,             \* user_version, the objects there are, whether captions are folded
    script,         \* statements Open has still to run
    held,           \* shut, opening or open
    backups,        \* oldest first: the database that was copied, and all of it
    ran,            \* rows of migration_history, by version
    opens

schemaVars == <<db, script, held, backups, ran, opens>>

Statement(do, of) == [do |-> do, of |-> of]
Make(x) == Statement("make", x)
DropTrigger(x) == Statement("remove", x)
Version(n) == Statement("version", n)
backfillCaptionFolded == Statement("fold", 0)
maybeBackup == Statement("backup", 0)
RecordMigration(n) == Statement("record", n)
RotateBackups == Statement("rotate", 0)
ReadVersion == Statement("read", 0)

MakeAll(names) == [i \in DOMAIN names |-> Make(names[i])]

\* Every Open runs it, and it ends by setting user_version.
schemaSQL ==
    MakeAll(<<"messages", "idx_messages_chat_ts", "messages_fts", "messages_ai",
              "messages_ad", "messages_au">>) \o <<Version(1)>>

migrateV2 == MakeAll(<<"media_type", "caption", "is_from_me", "push_name">>) \o <<Version(2)>>

migrateV3 ==
    MakeAll(<<"message_receipts", "message_idempotency", "interactive_json">>) \o <<Version(3)>>

migrateV4 ==
    MakeAll(<<"revoked_at", "edited_at", "previous_body", "edit_of", "idx_messages_chat_revoked",
              "idempotency_keys", "idx_idempotency_expires", "migration_history">>)
    \o <<Version(4)>>

migrateV5 == MakeAll(<<"sender_alt_jid", "addressing_mode">>) \o <<Version(5)>>

migrateV6 == <<Make("media_transcripts"), Version(6)>>

\* Mutant: the trigger is only created if there is none.
CreateTriggerIfMissing == <<Make("messages_au"), Version(7)>>

migrateV7 == <<DropTrigger("messages_au"), Make("messages_au"), Version(7)>>

migrateV8 == <<Make("caption_folded"), backfillCaptionFolded, Version(8)>>

Upgrades ==
    <<schemaSQL, migrateV2, migrateV3, migrateV4, migrateV5, migrateV6, migrateV7, migrateV8>>

\* backedUpSteps.
BackedUp(n) == <<maybeBackup>> \o Upgrades[n] \o <<RecordMigration(n), RotateBackups>>

\* A step of the chain, unless user_version has it.
upgradeTo(n, version) ==
    IF version >= n THEN <<>> ELSE IF n < 4 THEN Upgrades[n] ELSE BackedUp(n)

migrateIfNeeded(version) ==
    upgradeTo(2, version) \o upgradeTo(3, version) \o upgradeTo(4, version)
    \o upgradeTo(5, version) \o upgradeTo(6, version) \o upgradeTo(7, version)
    \o upgradeTo(8, version)

Made(n) == {s.of : s \in {t \in Range(Upgrades[n]) : t.do = "make"}}

\* The database as a release with that schema left it; up to version 6 with the
\* trigger that migrateV7 replaces.
Left(n) ==
    LET all == UNION {Made(m) : m \in 1..n}
    IN [version |-> n,
        has |-> IF n \in 1..6 THEN (all \ {"messages_au"}) \cup {"broken_au"} ELSE all,
        folded |-> n \in {0, Latest}]

SchemaTypeOK ==
    /\ db.version \in 0..Latest
    /\ db.has \subseteq UNION {Made(n) : n \in 1..Latest} \cup {"broken_au"}
    /\ db.folded \in BOOLEAN
    /\ held \in {"shut", "opening", "open"}
    /\ Len(backups) <= KeptBackups + 2
    /\ ran \in [4..Latest -> 0..MaxOpens]
    /\ opens \in 0..MaxOpens

SchemaInit ==
    /\ \E n \in 0..Latest : db = Left(n)
    /\ script = <<>> /\ held = "shut"
    /\ backups = <<>>
    /\ ran = [n \in 4..Latest |-> 0]
    /\ opens = 0

\* The lock file keeps a second process out until the first has closed.
OpenWithBackups ==
    /\ held = "shut" /\ opens < MaxOpens
    /\ held' = "opening"
    /\ opens' = opens + 1
    /\ script' = schemaSQL \o <<ReadVersion>>
    /\ UNCHANGED <<db, backups, ran>>

Reads(do) == held = "opening" /\ script # <<>> /\ Head(script).do = do
Done == script' = Tail(script)

\* CREATE ... IF NOT EXISTS, or ALTER TABLE unless hasColumn.
MakeObject ==
    /\ Reads("make")
    /\ LET x == Head(script).of
       IN db' = [db EXCEPT !.has =
            IF x = "messages_au" /\ "broken_au" \in @ THEN @ ELSE @ \cup {x}]
    /\ Done
    /\ UNCHANGED <<held, backups, ran, opens>>

RemoveTrigger ==
    /\ Reads("remove")
    /\ db' = [db EXCEPT !.has = @ \ {"messages_au", "broken_au"}]
    /\ Done
    /\ UNCHANGED <<held, backups, ran, opens>>

SetVersion ==
    /\ Reads("version")
    /\ db' = [db EXCEPT !.version = Head(script).of]
    /\ Done
    /\ UNCHANGED <<held, backups, ran, opens>>

FoldCaptions ==
    /\ Reads("fold")
    /\ db' = [db EXCEPT !.folded = TRUE]
    /\ Done
    /\ UNCHANGED <<held, backups, ran, opens>>

ReadUserVersion ==
    /\ Reads("read")
    /\ script' = migrateIfNeeded(db.version)
    /\ UNCHANGED <<db, held, backups, ran, opens>>

BackupBeforeMigrate ==
    /\ Reads("backup")
    /\ backups' = Append(backups, [of |-> db, whole |-> TRUE])
    /\ Done
    /\ UNCHANGED <<db, held, ran, opens>>

WriteHistoryRow ==
    /\ Reads("record")
    /\ ran' = [ran EXCEPT ![Head(script).of] = @ + 1]
    /\ Done
    /\ UNCHANGED <<db, held, backups, opens>>

Newest(s) == SubSeq(s, IF Len(s) > KeptBackups THEN Len(s) - KeptBackups + 1 ELSE 1, Len(s))

pruneBackups ==
    /\ Reads("rotate")
    /\ backups' = Newest(backups)
    /\ Done
    /\ UNCHANGED <<db, held, ran, opens>>

\* The pruning at the end of every Open is only advice.
Opened ==
    /\ held = "opening" /\ script = <<>>
    /\ held' = "open"
    /\ backups' \in {backups, Newest(backups)}
    /\ UNCHANGED <<db, script, ran, opens>>

\* The VACUUM INTO or the copy that is under way has written half of its file.
HalfCopied == IF Reads("backup") THEN {Append(backups, [of |-> db, whole |-> FALSE])} ELSE {}

\* A kill, or an error, on which Open closes the database and its lock.
Interrupted ==
    /\ held = "opening"
    /\ held' = "shut" /\ script' = <<>>
    /\ backups' \in {backups} \cup HalfCopied
    /\ UNCHANGED <<db, ran, opens>>

CloseDatabase ==
    /\ held = "open"
    /\ held' = "shut"
    /\ UNCHANGED <<db, script, backups, ran, opens>>

SchemaNext ==
    \/ OpenWithBackups \/ MakeObject \/ RemoveTrigger \/ SetVersion \/ FoldCaptions
    \/ ReadUserVersion \/ BackupBeforeMigrate \/ WriteHistoryRow \/ pruneBackups
    \/ Opened \/ Interrupted \/ CloseDatabase

-----------------------------------------------------------------------------
(* Properties *)

InStep(n) == held = "opening" /\ \E i \in DOMAIN script : script[i] = RecordMigration(n)
                /\ \A j \in 1..i : script[j].do # "backup"

\* Wherever an upgrade was interrupted and begun again: user_version claims no
\* step whose columns, tables, trigger or folded captions are not all there, a
\* store that Open returned is at the latest version, and while a step from 4 on
\* is at work a whole copy of the database from before it lies in the backups.
UpgradeIsSafe ==
    /\ \A n \in 1..db.version : Made(n) \ {"messages_au"} \subseteq db.has
    /\ db.version >= 7 => "messages_au" \in db.has /\ "broken_au" \notin db.has
    /\ db.version >= 8 => db.folded
    /\ held = "open" => db.version = Latest
    /\ \A n \in 4..Latest : InStep(n) =>
        \E i \in DOMAIN backups : backups[i].whole /\ backups[i].of.version = n - 1

\* A migration is applied to a database once: migrateIfNeeded "applies pending
\* migrations" (migrate.go:43) after a schema.sql that is "executed once on first
\* Open()" (schema.sql:1).
AppliedOnce == \A n \in 4..Latest : ran[n] <= 1
=============================================================================
