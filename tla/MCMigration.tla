---------------------------- MODULE MCMigration -----------------------------
(* Migration with the statement counts of storage.py. *)
EXTENDS Migration, TLC

\* _SCHEMA_V1, the migrations up to schema 6, _SCHEMA_7_RUNTIME_EVIDENCE.
StatementCounts == <<2, 7, 19, 12, 8, 12, 2>>
=============================================================================
