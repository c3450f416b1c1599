-------------------------- MODULE TrilithReachProofs --------------------------
(***************************************************************************)
(* Theorems about how far a caller's requests reach, whatever the tenants, *)
(* ids, callers, drafts, edits and threads:                                *)
(*                                                                         *)
(*   TenantsAreApart      TenantBoundary                                   *)
(*   UnprivilegedReach    ReachOfUnprivileged                              *)
(*   PublishersOnly       GlobalOnlyByPublishers                           *)
(*                                                                         *)
(* A request names its rows by their identity; what the triggers delete    *)
(* with them is of the same identity, because LineageIntegrity always      *)
(* holds.  That is why the cascade respects every boundary.                *)
(***************************************************************************)
EXTENDS TrilithGatewayProofs

SameReach(j, k) ==
  /\ j[1] = k[1]
  /\ rows[j].scope = rows[k].scope
  /\ rows[j].owner = rows[k].owner
  /\ rows[j].session = rows[k].session

-----------------------------------------------------------------------------
(* The cascade of a deletion takes only rows of the tenant, scope, owner   *)
(* and session of a row the deletion names.                                *)
LEMMA CascadeStaysInReach ==
  ASSUME IInv, NEW D, NEW j \in erase_derived(D)
  PROVE  j \in Live /\ \E i \in D \cap Live : SameReach(j, i)
<1> DEFINE C == {k \in Live : \E i \in D \cap Live : SameReach(k, i)}
<1>1. D \cap Live \subseteq C
  BY DEF SameReach
<1>2. ASSUME NEW e \in derived_sources, e.source \in C, e.summary \in Live
      PROVE  e.summary \in C
  BY <1>2 DEF IInv, StoreInv, LineageIntegrity, SameReach
<1>3. ClosedUnderFold(C)
  BY <1>2 DEF ClosedUnderFold
<1>4. erase_derived(D) \subseteq C
  BY <1>1, <1>3, CascadeIsLeast
<1>5. QED
  BY <1>4

(* A row that a deletion changes is one that its cascade takes.            *)
LEMMA DeletionTouches ==
  ASSUME IInv, NEW D, delete_rows(D), NEW j \in Keys, rows'[j] # rows[j]
  PROVE  rows'[j] = Absent /\ j \in Live /\ \E i \in D \cap Live : SameReach(j, i)
<1>1. rows'[j] = IF j \in erase_derived(D) THEN Absent ELSE rows[j]
  BY DEF delete_rows, RowsWithout
<1>2. j \in erase_derived(D)
  BY <1>1
<1>3. QED
  BY <1>1, <1>2, CascadeStaysInReach

(* A row that INSERT OR REPLACE changes is the row it writes, or of the    *)
(* identity of the row it replaces, and then it is gone.                   *)
LEMMA ReplacingTouches ==
  ASSUME IInv, NEW k \in Keys, NEW row,
         rows' = [RowsWithout(Replaced(k)) EXCEPT ![k] = row],
         NEW j \in Keys, rows'[j] # rows[j]
  PROVE  \/ j = k /\ rows'[j] = row
         \/ rows'[j] = Absent /\ j \in Live /\ k \in Live /\ SameReach(j, k)
<1>1. rows'[j] = IF j = k THEN row ELSE IF j \in Replaced(k) THEN Absent ELSE rows[j]
  BY DEF RowsWithout
<1>2. CASE j = k
  BY <1>1, <1>2
<1>3. CASE j # k
  <2>1. j \in erase_derived({k}) /\ rows'[j] = Absent
    BY <1>1, <1>3 DEF Replaced
  <2>2. QED
    BY <2>1, CascadeStaysInReach
<1>4. QED
  BY <1>2, <1>3

(* An audit row that the trigger erases names a row that is deleted: one   *)
(* of a tenant of the rows the statement names.                            *)
LEMMA ErasedAuditIsOfTenant ==
  ASSUME IInv, NEW D, NEW tenant, \A i \in D \cap Live : i[1] = tenant,
         NEW a \in audit, a \notin erase_item_audit(erase_derived(D))
  PROVE  a.tenant = tenant
<1>1. <<a.tenant, a.item>> \in erase_derived(D)
  BY DEF erase_item_audit
<1>2. QED
  BY <1>1, CascadeStaysInReach DEF SameReach

-----------------------------------------------------------------------------
(* A deletion of rows of one tenant stays in that tenant.                  *)
LEMMA DeletingStaysInTenant ==
  ASSUME IInv, NEW p \in Principals, NEW D, \A i \in D \cap Live : i[1] = p.tenant,
         delete_rows(D),
         \A a \in audit : a \in erase_item_audit(erase_derived(D)) => a \in audit' \/ a.tenant = p.tenant
  PROVE  ~TouchesOtherTenant(p)
<1>1. ASSUME NEW j \in Keys, rows'[j] # rows[j]
      PROVE  j[1] = p.tenant
  BY <1>1, DeletionTouches DEF SameReach
<1>2. ASSUME NEW a \in audit, a \notin audit'
      PROVE  a.tenant = p.tenant
  BY <1>2, ErasedAuditIsOfTenant
<1>3. QED
  BY <1>1, <1>2 DEF TouchesOtherTenant

(* So does replacing a row of the tenant.                                  *)
LEMMA ReplacingStaysInTenant ==
  ASSUME IInv, NEW p \in Principals, NEW k \in Keys, k[1] = p.tenant, NEW row,
         rows' = [RowsWithout(Replaced(k)) EXCEPT ![k] = row],
         erase_item_audit(Replaced(k)) \subseteq audit'
  PROVE  ~TouchesOtherTenant(p)
<1>1. ASSUME NEW j \in Keys, rows'[j] # rows[j]
      PROVE  j[1] = p.tenant
  BY <1>1, ReplacingTouches DEF SameReach
<1>2. ASSUME NEW a \in audit, a \notin audit'
      PROVE  a.tenant = p.tenant
  <2>1. a \notin erase_item_audit(erase_derived({k}))
    BY <1>2 DEF Replaced
  <2>2. QED
    BY <2>1, ErasedAuditIsOfTenant
<1>3. QED
  BY <1>1, <1>2 DEF TouchesOtherTenant

(* A request of a caller leaves the rows and the audit of every other      *)
(* tenant alone: write, delete, forget, fold and purge, cascades included. *)
LEMMA RequestStaysInTenant ==
  ASSUME IInv, NEW p \in Principals, Request(p)
  PROVE  ~TouchesOtherTenant(p)
<1>1. p \in Principal /\ \A id \in Ids : <<p.tenant, id>> \in Keys
  BY PrincipalsAssumption DEF Keys, Principal
<1>2. ASSUME NEW id \in Ids, NEW draft \in Drafts, write_item(p, id, draft)
      PROVE  ~TouchesOtherTenant(p)
  <2> DEFINE k == <<p.tenant, id>>
             row == RowOf(stamp(p, draft), {<<k, minted + 1>>})
  <2>1. store_item(p, k, row)
    BY <1>2 DEF write_item
  <2>2. CASE write_denial(rows[k], row, p)
    <3>1. UNCHANGED rows /\ audit \subseteq audit'
      BY <2>1, <2>2 DEF store_item
    <3>2. QED
      BY <3>1 DEF TouchesOtherTenant
  <2>3. CASE ~write_denial(rows[k], row, p)
    <3>1. /\ rows' = [RowsWithout(Replaced(k)) EXCEPT ![k] = row]
          /\ erase_item_audit(Replaced(k)) \subseteq audit'
      BY <2>1, <2>3 DEF store_item, save
    <3>2. k \in Keys /\ k[1] = p.tenant
      BY <1>1
    <3>3. QED
      BY <3>1, <3>2, ReplacingStaysInTenant
  <2>4. QED
    BY <2>2, <2>3
<1>3. ASSUME NEW scope \in ScopeNames, forget_scope(p, scope)
      PROVE  ~TouchesOtherTenant(p)
  <2> DEFINE D == scope_rows(p, scope)
  <2>1. \A i \in D \cap Live : i[1] = p.tenant
    BY DEF scope_rows
  <2>2. /\ delete_rows(D)
        /\ erase_item_audit(erase_derived(D)) \ erased_audit(p, scope) \subseteq audit'
    BY <1>3 DEF forget_scope
  <2>3. \A a \in erased_audit(p, scope) : a.tenant = p.tenant
    BY DEF erased_audit
  <2>4. QED
    BY <2>1, <2>2, <2>3, DeletingStaysInTenant
<1>4. ASSUME NEW subtask \in Subtasks, fold_subtask(p, subtask)
      PROVE  ~TouchesOtherTenant(p)
  <2>1. PICK scope \in Scopes, id \in SummaryIds[fold_args(p, subtask)] :
          fold_into(p, <<p.tenant, id>>, scope, steps(p, subtask))
    BY <1>4 DEF fold_subtask
  <2> DEFINE k == <<p.tenant, id>>
  <2>2. k \in Keys /\ k[1] = p.tenant
    BY <1>1, <2>1, FoldSparesItsSteps DEF IInv
  <2>3. PICK row : rows' = [RowsWithout(Replaced(k)) EXCEPT ![k] = row]
    BY <2>1 DEF fold_into
  <2>4. erase_item_audit(Replaced(k)) \subseteq audit'
    BY <2>1 DEF fold_into
  <2>5. QED
    BY <2>2, <2>3, <2>4, ReplacingStaysInTenant
<1>5. ASSUME purge_expired({p.tenant})
      PROVE  ~TouchesOtherTenant(p)
  <2>1. \A i \in expired_rows({p.tenant}, now) : i[1] = p.tenant
    BY DEF expired_rows
  <2>2. QED
    BY <1>5, <2>1, DeletingStaysInTenant DEF purge_expired
<1>6. ASSUME NEW id \in Ids, delete_item(p, id)
      PROVE  ~TouchesOtherTenant(p)
  BY <1>6, DeletingStaysInTenant DEF delete_item
<1>7. QED
  BY <1>2, <1>3, <1>4, <1>5, <1>6 DEF Request, Pipeline

(* No write, forget, fold, purge or delete of a caller changes a row or    *)
(* erases an audit row of another tenant.                                  *)
THEOREM TenantsAreApart == Spec => TenantBoundary
<1>1. ASSUME IInv
      PROVE  [\A p \in Principals : TouchesOtherTenant(p) => ~Request(p)]_vars
  BY <1>1, RequestStaysInTenant
<1>2. QED
  BY <1>1, Invariance, PTL DEF TenantBoundary

-----------------------------------------------------------------------------
(* What store_item changes, and for whom: a caller that is not denied may  *)
(* both see the row it replaces and publish it, if it needs to.            *)
LEMMA StoringTouches ==
  ASSUME IInv, NEW p, NEW k \in Keys, NEW row, store_item(p, k, row),
         NEW j \in Keys, rows'[j] # rows[j]
  PROVE  /\ ~write_denial(rows[k], row, p)
         /\ \/ j = k /\ rows'[j] = row
            \/ rows'[j] = Absent /\ j \in Live /\ k \in Live /\ SameReach(j, k)
<1>1. ~write_denial(rows[k], row, p)
  BY DEF store_item
<1>2. rows' = [RowsWithout(Replaced(k)) EXCEPT ![k] = row]
  BY <1>1 DEF store_item, save
<1>3. QED
  BY <1>1, <1>2, ReplacingTouches

(* A write of a caller without tenant_admin replaces, cascade included,    *)
(* only rows that it may see.                                              *)
LEMMA WriteStaysInReach ==
  ASSUME IInv, NEW p \in Principals, ~can(p, "tenant_admin"),
         NEW id \in Ids, NEW draft \in Drafts, write_item(p, id, draft),
         NEW j \in Live, rows'[j] # rows[j]
  PROVE  WithinReach(p, j)
<1> DEFINE k == <<p.tenant, id>>
           row == RowOf(stamp(p, draft), {<<k, minted + 1>>})
<1>1. store_item(p, k, row)
  BY DEF write_item
<1>2. j \in Keys /\ k \in Keys /\ k[1] = p.tenant
  BY PrincipalsAssumption DEF Live, Keys, Principal
<1> HIDE DEF k, row
<1>3. ~write_denial(rows[k], row, p) /\ k \in Live /\ (j = k \/ SameReach(j, k))
  BY <1>1, <1>2, StoringTouches
<1>4. check_visibility(rows[k], p.tenant, p)
  BY <1>3 DEF write_denial, Live
<1>5. check_visibility(rows[j], j[1], p) /\ j[1] = p.tenant
  BY <1>2, <1>3, <1>4 DEF SameReach, check_visibility, UserVisible, SessionVisible
<1>6. QED
  BY <1>5 DEF WithinReach

(* So does its forget: of rows that are the caller's own, or its session's.*)
LEMMA ForgetStaysInReach ==
  ASSUME IInv, NEW p \in Principals, ~can(p, "tenant_admin"),
         NEW scope \in ScopeNames, forget_scope(p, scope),
         NEW j \in Live, rows'[j] # rows[j]
  PROVE  WithinReach(p, j)
<1>1. \/ scope = "USER" /\ p.owner # Blank
      \/ scope = "SESSION" /\ p.session # Blank
  BY DEF forget_scope, MayForget
<1>2. delete_rows(scope_rows(p, scope)) /\ j \in Keys
  BY DEF forget_scope, Live
<1>3. PICK i \in scope_rows(p, scope) \cap Live : SameReach(j, i)
  BY <1>2, DeletionTouches
<1>4. WithinReach(p, i)
  BY <1>1, <1>3 DEF scope_rows, WithinReach, check_visibility, UserVisible
<1>5. QED
  BY <1>3, <1>4 DEF SameReach, WithinReach, check_visibility, UserVisible, SessionVisible

(* Without tenant_admin, a caller's writes and forgets replace or delete   *)
(* only rows that it may see, or rows of its own session.                  *)
THEOREM UnprivilegedReach == Spec => ReachOfUnprivileged
<1>1. ASSUME IInv, NEW p \in Principals, ~can(p, "tenant_admin"),
             NEW j \in Live, rows'[j] # rows[j], ~WithinReach(p, j)
      PROVE  /\ ~\E id \in Ids, draft \in Drafts : write_item(p, id, draft)
             /\ ~\E scope \in ScopeNames : forget_scope(p, scope)
  BY <1>1, WriteStaysInReach, ForgetStaysInReach
<1>2. ASSUME IInv
      PROVE  [\A p \in Principals :
                /\ ~can(p, "tenant_admin")
                /\ \E k \in Live : rows'[k] # rows[k] /\ ~WithinReach(p, k)
                => /\ ~\E id \in Ids, draft \in Drafts : write_item(p, id, draft)
                   /\ ~\E scope \in ScopeNames : forget_scope(p, scope)]_vars
  BY <1>1, <1>2
<1>3. QED
  BY <1>2, Invariance, PTL DEF ReachOfUnprivileged

-----------------------------------------------------------------------------
(* A store_item of a caller that may not publish neither writes nor        *)
(* removes a GLOBAL row.                                                   *)
LEMMA StoringPublishesNothing ==
  ASSUME IInv, NEW p, ~can(p, "publish_global"), NEW k \in Keys, NEW row, store_item(p, k, row)
  PROVE  ~Publishes /\ ~Unpublishes
<1>1. ASSUME NEW j \in Keys, rows'[j] # rows[j]
      PROVE  ~IsGlobal(rows'[j]) /\ ~IsGlobal(rows[j])
  <2>1. /\ ~write_denial(rows[k], row, p)
        /\ \/ j = k /\ rows'[j] = row
           \/ rows'[j] = Absent /\ j \in Live /\ k \in Live /\ SameReach(j, k)
    BY <1>1, StoringTouches
  <2>2. row.scope # "GLOBAL" /\ (rows[k] # Absent => rows[k].scope # "GLOBAL")
    BY <2>1 DEF write_denial
  <2>3. QED
    BY <2>1, <2>2 DEF IsGlobal, SameReach, Live
<1>2. QED
  BY <1>1 DEF Publishes, Unpublishes

(* A deletion that names no GLOBAL row removes none.                       *)
LEMMA DeletingPublishesNothing ==
  ASSUME IInv, NEW D, \A i \in D \cap Live : rows[i].scope # "GLOBAL", delete_rows(D)
  PROVE  ~Publishes /\ ~Unpublishes
<1>1. ASSUME NEW j \in Keys, rows'[j] # rows[j]
      PROVE  ~IsGlobal(rows'[j]) /\ ~IsGlobal(rows[j])
  BY <1>1, DeletionTouches DEF IsGlobal, SameReach
<1>2. QED
  BY <1>1 DEF Publishes, Unpublishes

(* None of a caller's write, forget, delete and PATCH, without             *)
(* publish_global, does anything to a GLOBAL row.                          *)
LEMMA AlteringPublishesNothing ==
  ASSUME IInv, NEW p \in Principals, ~can(p, "publish_global"), Alters(p)
  PROVE  ~Publishes /\ ~Unpublishes
<1>1. p \in Principal
  BY PrincipalsAssumption
<1>2. ASSUME NEW id \in Ids, NEW draft \in Drafts, write_item(p, id, draft)
      PROVE  ~Publishes /\ ~Unpublishes
  <2>1. <<p.tenant, id>> \in Keys
    BY <1>1 DEF Keys, Principal
  <2>2. QED
    BY <1>2, <2>1, StoringPublishesNothing DEF write_item
<1>3. ASSUME NEW scope \in ScopeNames, forget_scope(p, scope)
      PROVE  ~Publishes /\ ~Unpublishes
  <2>1. scope # "GLOBAL" /\ delete_rows(scope_rows(p, scope))
    BY <1>3 DEF forget_scope, MayForget
  <2>2. \A i \in scope_rows(p, scope) \cap Live : rows[i].scope # "GLOBAL"
    BY <2>1 DEF scope_rows
  <2>3. QED
    BY <2>1, <2>2, DeletingPublishesNothing
<1>4. ASSUME NEW id \in Ids, delete_item(p, id)
      PROVE  ~Publishes /\ ~Unpublishes
  <2> DEFINE k == <<p.tenant, id>>
  <2>1. k \in Live /\ ~write_denial(rows[k], rows[k], p) /\ delete_rows({k})
    BY <1>4 DEF delete_item
  <2>2. \A i \in {k} \cap Live : rows[i].scope # "GLOBAL"
    BY <2>1 DEF write_denial
  <2>3. QED
    BY <2>1, <2>2, DeletingPublishesNothing
<1>5. ASSUME NEW w \in Editors, editing[w] # Idle, editing[w].by = p, patch_item_write(w)
      PROVE  ~Publishes /\ ~Unpublishes
  <2>1. editing[w].key \in Keys
    BY <1>5 DEF IInv, TypeOK, Editing
  <2>2. store_item(p, editing[w].key, editing[w].row)
    BY <1>5 DEF patch_item_write
  <2>3. QED
    BY <2>1, <2>2, StoringPublishesNothing
<1>6. QED
  BY <1>2, <1>3, <1>4, <1>5 DEF Alters

(* Nor does its fold write a GLOBAL summary.                               *)
LEMMA FoldingPublishesNothing ==
  ASSUME IInv, NEW p \in Principals, ~can(p, "publish_global"),
         NEW subtask \in Subtasks, fold_subtask(p, subtask)
  PROVE  ~Publishes
<1>1. p \in Principal
  BY PrincipalsAssumption
<1>2. PICK scope \in Scopes, id \in SummaryIds[fold_args(p, subtask)] :
        fold_into(p, <<p.tenant, id>>, scope, steps(p, subtask))
  BY DEF fold_subtask
<1> DEFINE k == <<p.tenant, id>>
<1>3. k \in Keys
  BY <1>1, <1>2, FoldSparesItsSteps DEF IInv
<1>4. scope # "GLOBAL"
  BY <1>2 DEF fold_into
<1>5. PICK expires \in earliest_expiry(steps(p, subtask)) :
        rows' = [RowsWithout(Replaced(k)) EXCEPT
                   ![k] = summary_of(p, scope, expires, steps(p, subtask))]
  BY <1>2 DEF fold_into
<1>6. ASSUME NEW j \in Keys, rows'[j] # rows[j]
      PROVE  ~IsGlobal(rows'[j])
  <2>1. \/ rows'[j] = summary_of(p, scope, expires, steps(p, subtask))
        \/ rows'[j] = Absent
    BY <1>3, <1>5, <1>6, ReplacingTouches
  <2>2. QED
    BY <1>4, <2>1 DEF IsGlobal, summary_of
<1>7. QED
  BY <1>6 DEF Publishes

(* Without publish_global no request of a caller publishes, changes or     *)
(* deletes a GLOBAL row, but for the row that a fold's summary replaces.   *)
THEOREM PublishersOnly == Spec => GlobalOnlyByPublishers
<1>1. ASSUME IInv
      PROVE  [\A p \in Principals : ~can(p, "publish_global") =>
                /\ Publishes \/ Unpublishes => ~Alters(p)
                /\ Publishes => ~\E subtask \in Subtasks : fold_subtask(p, subtask)]_vars
  BY <1>1, AlteringPublishesNothing, FoldingPublishesNothing
<1>2. QED
  BY <1>1, Invariance, PTL DEF GlobalOnlyByPublishers
=============================================================================
