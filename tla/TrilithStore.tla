---------------------------- MODULE TrilithStore ----------------------------
(***************************************************************************)
(* The SQLite tables behind Trilith and the two AFTER DELETE triggers that *)
(* tie them together (core/sqlite_backend.py, core/audit.py):              *)
(*                                                                         *)
(*   rows             context_items, primary key <<tenant_id, id>>          *)
(*   derived_sources  one edge per source of a folded summary              *)
(*   audit            audit_decisions                                      *)
(*                                                                         *)
(* ThreadSafeBackend holds one lock around every call and around every     *)
(* transaction, so each operator here is the effect of one atomic call.    *)
(* recursive_triggers is ON: INSERT OR REPLACE deletes the row it replaces *)
(* and that delete fires the triggers too.                                 *)
(***************************************************************************)
EXTENDS TrilithPolicy

CONSTANTS
  Ids,          \* item ids
  NoItem,       \* an audit row that names no item
  Subtasks,     \* non-empty subtask ids
  NoSubtask     \* a NULL subtask_id

VARIABLES rows, derived_sources, audit

storeVars == <<rows, derived_sources, audit>>

Keys == Tenants \X Ids

(* Content is a set of pieces.  A piece is minted by the write that first  *)
(* submits it, and remembers the row it was written to: <<key, number>>.   *)
Pieces == Keys \X Nat

Row ==
  [tier : Tiers, scope : Scopes, owner : OwnerIds, session : SessionIds,
   subtask : Subtasks \cup {NoSubtask}, provenance : {"caller", "fold"},
   expires : Int, content : SUBSET Pieces]

Edge == [source : Keys, summary : Keys]

AuditRow ==
  [tenant : Tenants, owner : OwnerIds, session : SessionIds,
   operation : {"write", "policy", "assemble", "forget"},
   item : Ids \cup {NoItem}]

StoreTypeOK ==
  /\ rows \in [Keys -> Row \cup {Absent}]
  /\ derived_sources \in SUBSET Edge
  /\ audit \in SUBSET AuditRow

StoreInit ==
  /\ rows = [k \in Keys |-> Absent]
  /\ derived_sources = {}
  /\ audit = {}

Live == {k \in Keys : rows[k] # Absent}

HoldsSources(C) == \A e \in derived_sources : e.summary \in C => e.source \in C

(* lineage: the row and, transitively, the sources of its summaries.       *)
lineage(k) ==
  {j \in Keys : \A C \in SUBSET Keys :
                  k \in C /\ HoldsSources(C) => j \in C}

-----------------------------------------------------------------------------
(* Trigger erase_derived: deleting a row deletes every summary folded from *)
(* it, recursively.  The rows that go are the least set that contains the  *)
(* directly deleted ones and is closed under "has a live summary".         *)
ClosedUnderFold(C) ==
  \A e \in derived_sources : e.source \in C /\ e.summary \in Live => e.summary \in C

(* Faulty variant: the trigger is not there.                               *)
cascade_not_fired(D) == D \cap Live

erase_derived(D) ==
  {k \in Live : \A C \in SUBSET Live :
                  D \cap Live \subseteq C /\ ClosedUnderFold(C) => k \in C}

RowsWithout(gone) == [k \in Keys |-> IF k \in gone THEN Absent ELSE rows[k]]

(* Faulty variant: only the deleted row's edges as a source are dropped.   *)
edges_keep_summary_side(gone) == {e \in derived_sources : e.source \notin gone}

EdgesWithout(gone) ==
  {e \in derived_sources : e.source \notin gone /\ e.summary \notin gone}

(* Trigger erase_item_audit: the tenant's audit rows naming a deleted item *)
(* go with it.                                                             *)
(* Its faulty variant: the audit trigger is not there.                     *)
item_audit_kept(gone) == audit

erase_item_audit(gone) == {a \in audit : <<a.tenant, a.item>> \notin gone}

(* The audit row a request of p leaves.                                    *)
record(p, operation, item) ==
  [tenant |-> p.tenant, owner |-> p.owner, session |-> p.session,
   operation |-> operation, item |-> item]

-----------------------------------------------------------------------------
(* Faulty variant: recursive_triggers is left off.                         *)
trigger_not_recursive(k) == {}

(* What INSERT OR REPLACE under key k deletes before it inserts.           *)
Replaced(k) == erase_derived({k})

save(k, row) ==
  /\ rows' = [RowsWithout(Replaced(k)) EXCEPT ![k] = row]
  /\ derived_sources' = EdgesWithout(Replaced(k))

delete_rows(D) ==
  /\ rows' = RowsWithout(erase_derived(D))
  /\ derived_sources' = EdgesWithout(erase_derived(D))

(* delete_by_scope once per tier: an empty identity adds no predicate.     *)
(* Its faulty variants: one tier only; without the tenant predicate.       *)
scope_rows_episodic_only(p, scope) ==
  {k \in Live : /\ k[1] = p.tenant
                /\ rows[k].tier = "EPISODIC"
                /\ rows[k].scope = scope
                /\ scope = "USER" /\ p.owner # Blank => rows[k].owner = p.owner
                /\ scope = "SESSION" /\ p.session # Blank => rows[k].session = p.session}

scope_rows_any_tenant(p, scope) ==
  {k \in Live : /\ rows[k].scope = scope
                /\ scope = "USER" /\ p.owner # Blank => rows[k].owner = p.owner
                /\ scope = "SESSION" /\ p.session # Blank => rows[k].session = p.session}

scope_rows(p, scope) ==
  {k \in Live : /\ k[1] = p.tenant
                /\ rows[k].scope = scope
                /\ scope = "USER" /\ p.owner # Blank => rows[k].owner = p.owner
                /\ scope = "SESSION" /\ p.session # Blank => rows[k].session = p.session}

(* purge_expired compares whole seconds, rounding the clock down and       *)
(* ignoring the sub-second part of expires_at.                             *)
expired_rows(tenants, now) ==
  {k \in Live : /\ k[1] \in tenants
                /\ rows[k].expires # Never
                /\ Second(rows[k].expires) <= Second(now)}

(* audit.erase: the tenant's rows, narrowed to the caller's owner or       *)
(* session for USER and SESSION.                                           *)
erased_audit(p, scope) ==
  {a \in audit : /\ a.tenant = p.tenant
                 /\ scope = "USER" => a.owner = p.owner
                 /\ scope = "SESSION" => a.session = p.session}
=============================================================================
