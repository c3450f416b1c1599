----------------------------- MODULE MCConsole -----------------------------
(***************************************************************************)
(* Two tenants' events, one console that may switch between them.          *)
(***************************************************************************)
EXTENDS TrilithConsole

CONSTANTS t1, t2, r1, r2

MCTenants == {t1, t2}
=============================================================================
