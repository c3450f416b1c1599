---------------------------- MODULE MCMigration ----------------------------
(***************************************************************************)
(* A server and a command that find the same file.                         *)
(***************************************************************************)
EXTENDS TrilithMigration
=============================================================================
