---------------------------- MODULE MCMigration -----------------------------
(* Two processes that start on one file, new or of v0.3.0, and crash. *)
EXTENDS Migration
=============================================================================
