----------------------------- MODULE TrilithOps -----------------------------
(***************************************************************************)
(* The shared operations behind both gateways (core/ops.py) and the tier   *)
(* stores they call (core/procedural.py, core/episodic.py).  Every action  *)
(* of this module is one atomic_operation: it runs inside one transaction, *)
(* under the backend's lock, and an exception rolls all of it back, which  *)
(* is why a raising path is simply not enabled.                            *)
(***************************************************************************)
EXTENDS TrilithStore, FiniteSets

CONSTANTS
  Principals,   \* the callers of an instance
  Drafts,       \* what callers submit to write_item
  SummaryIds,   \* [FoldArgs -> SUBSET Ids], see below
  MaxWrites,    \* bound: pieces of content minted
  Horizon       \* bound: last tick of the clock

VARIABLES
  now,          \* the wall clock, in half seconds
  minted        \* pieces of content submitted so far

opsVars == <<storeVars, now, minted>>

Draft ==
  [tier : Tiers, scope : Scopes, owner : OwnerIds, session : SessionIds,
   subtask : Subtasks \cup {NoSubtask}, expires : Int]

(* What the id of a folded summary is computed from.  The digest takes the *)
(* source ids in order of creation; SummaryIds gives, for a set of sources, *)
(* the ids its orders may produce.  The one fact used about SHA-256 is     *)
(* that a digest is never one of the ids it was computed from.             *)
FoldArgs ==
  [tenant : Tenants, owner : OwnerIds, session : SessionIds,
   subtask : Subtasks, sources : SUBSET Ids]

ASSUME BlankAssumption == Blank \notin Owners \cup Sessions \cup Scopes
ASSUME AbsentAssumption == Absent \notin Row
ASSUME NoItemAssumption == NoItem \notin Ids /\ NoSubtask \notin Subtasks
ASSUME PrincipalsAssumption == Principals \subseteq Principal
ASSUME DraftsAssumption == Drafts \subseteq Draft
ASSUME BoundsAssumption ==
  MaxWrites \in Nat /\ Horizon \in Nat /\ Never \in Nat /\ Horizon + 1 < Never
ASSUME SummaryIdsAssumption ==
  /\ SummaryIds \in [FoldArgs -> SUBSET Ids]
  /\ \A args \in FoldArgs : SummaryIds[args] \cap args.sources = {}

-----------------------------------------------------------------------------
(* Rows as the stores build them from a request.                           *)
RowOf(item, content) ==
  [tier |-> item.tier, scope |-> item.scope, owner |-> item.owner,
   session |-> item.session, subtask |-> item.subtask, provenance |-> "caller",
   expires |-> item.expires, content |-> content]

denied(p) == record(p, "write", NoItem)

(* The request's item is saved and audited, or its denial is audited.      *)
(* update_item shares this with write_item; the tenant of k is always the  *)
(* caller's.                                                               *)
store_item(p, k, row) ==
  IF write_denial(rows[k], row, p)
  THEN /\ audit' = audit \cup {denied(p)}
       /\ UNCHANGED <<rows, derived_sources>>
  ELSE /\ save(k, row)
       /\ audit' = erase_item_audit(Replaced(k)) \cup {record(p, "write", k[2])}

write_item(p, id, draft) ==
  LET k == <<p.tenant, id>>
  IN  /\ minted < MaxWrites
      /\ minted' = minted + 1
      /\ store_item(p, k, RowOf(stamp(p, draft), {<<k, minted + 1>>}))
      /\ UNCHANGED now

(* An existing row the caller may not write is left alone.  Deletion       *)
(* writes no audit row; the triggers drop those that name the item.        *)
delete_item(p, id) ==
  LET k == <<p.tenant, id>>
  IN  /\ k \in Live
      /\ ~write_denial(rows[k], rows[k], p)
      /\ delete_rows({k})
      /\ audit' = erase_item_audit(erase_derived({k}))
      /\ UNCHANGED <<now, minted>>

-----------------------------------------------------------------------------
(* Faulty variant: GLOBAL is not asked about.                              *)
may_forget_global(p, scope) ==
  \/ can(p, "tenant_admin")
  \/ scope = "USER" /\ p.owner # Blank
  \/ scope = "SESSION" /\ p.session # Blank

MayForget(p, scope) ==
  /\ \/ can(p, "tenant_admin")
     \/ scope = "USER" /\ p.owner # Blank
     \/ scope = "SESSION" /\ p.session # Blank
  /\ scope = "GLOBAL" => can(p, "publish_global")

(* scope ranges over the scope names and one name that is none of them:    *)
(* it deletes no row and still erases audit rows.                          *)
ScopeNames == Scopes \cup {"UNRECOGNISED"}

forget_scope(p, scope) ==
  LET gone == erase_derived(scope_rows(p, scope))
  IN  /\ MayForget(p, scope)
      /\ delete_rows(scope_rows(p, scope))
      /\ audit' = (erase_item_audit(gone) \ erased_audit(p, scope))
                    \cup {[tenant |-> p.tenant, owner |-> Blank, session |-> Blank,
                           operation |-> "forget", item |-> NoItem]}
      /\ UNCHANGED <<now, minted>>

(* Offboarding, called by the operator and not through a gateway.          *)
forget_tenant(tenant) ==
  LET all == {k \in Live : k[1] = tenant}
  IN  /\ all # {}
      /\ delete_rows(all)
      /\ audit' = erase_item_audit(erase_derived(all))
      /\ UNCHANGED <<now, minted>>

purge_expired(tenants) ==
  /\ expired_rows(tenants, now) # {}
  /\ delete_rows(expired_rows(tenants, now))
  /\ audit' = erase_item_audit(erase_derived(expired_rows(tenants, now)))
  /\ UNCHANGED <<now, minted>>

-----------------------------------------------------------------------------
(* The procedural steps of a sub-task this caller may fold.                *)
steps(p, subtask) ==
  {k \in Live : /\ k[1] = p.tenant
                /\ rows[k].tier = "PROCEDURAL"
                /\ rows[k].subtask = subtask
                /\ rows[k].owner = p.owner
                /\ rows[k].session = p.session
                /\ explain(rows[k], k[1], p, now)}

(* Faulty variant: the summary expires with the last of its sources.       *)
latest_expiry(items) ==
  {t \in {rows[k].expires : k \in items} : \A k \in items : t >= rows[k].expires}

(* The summary expires with the first of its sources to expire.            *)
earliest_expiry(items) ==
  {t \in {rows[k].expires : k \in items} : \A k \in items : t <= rows[k].expires}

summary_of(p, scope, expires, items) ==
  [tier |-> "PROCEDURAL", scope |-> scope, owner |-> p.owner, session |-> p.session,
   subtask |-> NoSubtask, provenance |-> "fold",
   expires |-> expires, content |-> UNION {rows[k].content : k \in items}]

(* fold: the steps are kept; the summary replaces whatever row has its id, *)
(* and gets one edge per source.  Steps of mixed scope raise, and so do    *)
(* GLOBAL steps without publish_global.                                    *)
fold_into(p, k, scope, items) ==
  /\ \A i \in items : rows[i].scope = scope
  /\ scope = "GLOBAL" => can(p, "publish_global")
  /\ \E expires \in earliest_expiry(items) :
       rows' = [RowsWithout(Replaced(k)) EXCEPT ![k] = summary_of(p, scope, expires, items)]
  /\ derived_sources' = EdgesWithout(Replaced(k))
                          \cup {[source |-> i, summary |-> k] : i \in items}
  /\ audit' = erase_item_audit(Replaced(k))

fold_args(p, subtask) ==
  [tenant |-> p.tenant, owner |-> p.owner, session |-> p.session,
   subtask |-> subtask, sources |-> {k[2] : k \in steps(p, subtask)}]

fold_subtask(p, subtask) ==
  /\ steps(p, subtask) # {}
  /\ \E scope \in Scopes, id \in SummaryIds[fold_args(p, subtask)] :
       fold_into(p, <<p.tenant, id>>, scope, steps(p, subtask))
  /\ UNCHANGED <<now, minted>>

Tick ==
  /\ now < Horizon
  /\ now' = now + 1
  /\ UNCHANGED <<storeVars, minted>>
=============================================================================
