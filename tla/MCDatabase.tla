----------------------------- MODULE MCDatabase -----------------------------
(***************************************************************************)
(* One server and the commands of one operator.                            *)
(***************************************************************************)
EXTENDS TrilithDatabase

CONSTANTS server, command1, command2

(* trilith key create, trilith key revoke, trilith purge-expired.          *)
MCJobs == {<<statement("key"), statement("bound")>>, <<statement("revoked")>>, Purge}
=============================================================================
