---------------------------- MODULE MCMigration ----------------------------
(* Small instances of Migration: two databases, one with a write-ahead log, *)
(* and a plain file.                                                        *)
EXTENDS Migration, TLC

MCOrder == <<"session.db", "session.db-wal", "messages.db", "allowlist.toml">>
MCMain == "session.db-wal" :> "session.db"
MCDatabases == {"session.db", "messages.db"}
=============================================================================
