--------------------------- MODULE TrilithGateway ---------------------------
(***************************************************************************)
(* One Trilith process: the gateways' worker threads over the shared       *)
(* operations (core/rest_app.py, core/grpc_servicer.py, core/governor.py,  *)
(* core/runtime.py).                                                       *)
(*                                                                         *)
(* Two request handlers release the backend's lock between their steps and *)
(* so run as threads here: PATCH reads a row, merges the request into its  *)
(* copy and writes the copy back (Editors); assemble reads the three tiers *)
(* one after the other and then audits the items one by one (Readers).     *)
(* Editors = {} is an instance that serves only the pipeline endpoints,    *)
(* which is all that the gRPC gateway offers.                              *)
(***************************************************************************)
EXTENDS TrilithOps

CONSTANTS
  Editors,      \* threads that serve PATCH /v1/items/{id}
  Readers,      \* threads that serve assemble
  Edits,        \* what PATCH bodies ask for
  Idle,         \* a thread that serves no request
  Keep          \* a field a PATCH body leaves out

VARIABLES
  editing,      \* an editor's request between its read and its write
  reading       \* a reader's progress

vars == <<opsVars, editing, reading>>

(* What a body may ask for.  The provenance, which it may name as well, is *)
(* left out: nothing decides by what a caller gives as provenance.         *)
Edit ==
  [tier : Tiers \cup {Keep}, scope : Scopes \cup {Keep},
   owner : OwnerIds \cup {Keep}, session : SessionIds \cup {Keep},
   subtask : Subtasks \cup {NoSubtask, Keep},
   ttl : Int \cup {Keep}, content : {"new", Keep}]

Editing ==
  {e \in [by : Principals, key : Keys, row : Row, edit : Edits] : e.key[1] = e.by.tenant}

Reading ==
  [by : Principals, tier : 1..5,
   seen : SUBSET [item : Ids, expires : Int],
   log : SUBSET {a \in AuditRow : a.operation \in {"policy", "assemble"}}]

ASSUME EditsAssumption == Edits \subseteq Edit
ASSUME IdleAssumption == Idle \notin Editing /\ Idle \notin Reading

Init ==
  /\ StoreInit
  /\ now = 0
  /\ minted = 0
  /\ editing = [w \in Editors |-> Idle]
  /\ reading = [r \in Readers |-> Idle]

-----------------------------------------------------------------------------
(* PATCH: fields the body leaves out keep the copied value; ttl counts     *)
(* from the current second, and 0 removes the expiry.                      *)
Given(asked, current) == IF asked = Keep THEN current ELSE asked

apply_ttl(ttl, expires) ==
  CASE ttl = Keep -> expires
    [] ttl = 0 -> Never
    [] OTHER -> 2 * (Second(now) + ttl)

(* Faulty variant: a scope the body leaves out is not kept.                *)
merge_unchecked(row, edit, content) ==
  [tier |-> Given(edit.tier, row.tier), scope |-> edit.scope,
   owner |-> Given(edit.owner, row.owner), session |-> Given(edit.session, row.session),
   subtask |-> Given(edit.subtask, row.subtask), provenance |-> row.provenance,
   expires |-> apply_ttl(edit.ttl, row.expires), content |-> content]

merge(row, edit, content) ==
  [tier |-> Given(edit.tier, row.tier), scope |-> Given(edit.scope, row.scope),
   owner |-> Given(edit.owner, row.owner), session |-> Given(edit.session, row.session),
   subtask |-> Given(edit.subtask, row.subtask), provenance |-> row.provenance,
   expires |-> apply_ttl(edit.ttl, row.expires), content |-> content]

(* A request that changes nothing ends here; a given ttl always counts as  *)
(* a change.                                                               *)
patch_item_read(w, p, id, edit) ==
  LET k == <<p.tenant, id>>
      new == edit.content # Keep
      content == IF new THEN {<<k, minted + 1>>} ELSE rows[k].content
      row == merge(rows[k], edit, content)
  IN  /\ editing[w] = Idle
      /\ can(p, "tenant_admin")
      /\ k \in Live
      /\ (row # rows[k] \/ edit.ttl # Keep)
      /\ new => minted < MaxWrites
      /\ minted' = IF new THEN minted + 1 ELSE minted
      /\ editing' = [editing EXCEPT ![w] = [by |-> p, key |-> k, row |-> row, edit |-> edit]]
      /\ UNCHANGED <<storeVars, now, reading>>

(* update_item writes the whole copy back, whatever became of the row.     *)
patch_item_write(w) ==
  /\ editing[w] # Idle
  /\ store_item(editing[w].by, editing[w].key, editing[w].row)
  /\ editing' = [editing EXCEPT ![w] = Idle]
  /\ UNCHANGED <<now, minted, reading>>

-----------------------------------------------------------------------------
(* assemble: the tiers are read in this order, each under the lock by      *)
(* itself; GLOBAL rows of other tenants come along except from EPISODIC.   *)
TierOrder == <<"SEMANTIC", "PROCEDURAL", "EPISODIC">>

query_for(p, tier) ==
  {k \in Live : /\ rows[k].tier = tier
                /\ \/ k[1] = p.tenant
                   \/ tier # "EPISODIC" /\ rows[k].scope = "GLOBAL"}

assemble_start(r, p) ==
  /\ reading[r] = Idle
  /\ reading' = [reading EXCEPT ![r] = [by |-> p, tier |-> 1, seen |-> {}, log |-> {}]]
  /\ UNCHANGED <<opsVars, editing>>

(* The policy hides what the caller may not see, and a denial is audited   *)
(* without naming the item.                                                *)
collect(r) ==
  LET p == reading[r].by
      candidates == query_for(p, TierOrder[reading[r].tier])
      allowed == {k \in candidates : explain(rows[k], k[1], p, now)}
  IN  /\ reading[r] # Idle
      /\ reading[r].tier <= 3
      /\ reading[r].log = {}
      /\ reading' = [reading EXCEPT ![r] =
           [by |-> p, tier |-> @.tier + 1,
            seen |-> @.seen \cup {[item |-> k[2], expires |-> rows[k].expires] : k \in allowed},
            log |-> IF allowed = candidates THEN {} ELSE {record(p, "policy", NoItem)}]]
      /\ UNCHANGED <<opsVars, editing>>

(* The policy runs again over the copies: what expired meanwhile is        *)
(* excluded without its id; every other item will be audited by id,        *)
(* whether ranking and the budget include or exclude it.                   *)
rank_and_fill(r) ==
  LET p == reading[r].by
      items == {i \in reading[r].seen : ~Expired(i, now)}
  IN  /\ reading[r] # Idle
      /\ reading[r].tier = 4
      /\ reading[r].log = {}
      /\ reading' = [reading EXCEPT ![r] =
           [by |-> p, tier |-> 5, seen |-> {},
            log |-> {record(p, "assemble", i.item) : i \in items}
                      \cup (IF items = @.seen THEN {} ELSE {record(p, "assemble", NoItem)})]]
      /\ UNCHANGED <<opsVars, editing>>

(* One audit.record call, a transaction of its own.                        *)
audit_one(r) ==
  /\ reading[r] # Idle
  /\ \E entry \in reading[r].log :
       /\ audit' = audit \cup {entry}
       /\ reading' = [reading EXCEPT ![r].log = @ \ {entry}]
  /\ UNCHANGED <<rows, derived_sources, now, minted, editing>>

assemble_done(r) ==
  /\ reading[r] # Idle
  /\ reading[r].tier = 5
  /\ reading[r].log = {}
  /\ reading' = [reading EXCEPT ![r] = Idle]
  /\ UNCHANGED <<opsVars, editing>>

-----------------------------------------------------------------------------
(* assemble_witnesses (core/lineage.py): a candidate is an item whose every *)
(* ancestor, itself included, is stored in the tenant and shown to p.  (It *)
(* reads in one transaction, and changes nothing but the audit.)           *)
approved(p, k) ==
  /\ k[1] = p.tenant
  /\ \A j \in lineage(k) : j \in Live /\ explain(rows[j], j[1], p, now)

-----------------------------------------------------------------------------
(* The process dies and starts again: requests in progress are lost, the   *)
(* database is what was committed, and build_runtime reaps every tenant's  *)
(* expired rows.                                                           *)
Restart ==
  LET dead == expired_rows(Tenants, now)
  IN  /\ delete_rows(dead)
      /\ audit' = erase_item_audit(erase_derived(dead))
      /\ editing' = [w \in Editors |-> Idle]
      /\ reading' = [r \in Readers |-> Idle]
      /\ UNCHANGED <<now, minted>>

Pipeline(p) ==
  \/ \E id \in Ids, draft \in Drafts : write_item(p, id, draft)
  \/ \E scope \in ScopeNames : forget_scope(p, scope)
  \/ \E subtask \in Subtasks : fold_subtask(p, subtask)

Request(p) ==
  \/ Pipeline(p)
  \/ purge_expired({p.tenant})
  \/ \E id \in Ids : can(p, "tenant_admin") /\ delete_item(p, id)

EditorStep(w) ==
  \/ \E p \in Principals, id \in Ids, edit \in Edits : patch_item_read(w, p, id, edit)
  \/ patch_item_write(w)

ReaderStep(r) ==
  \/ \E p \in Principals : assemble_start(r, p)
  \/ collect(r)
  \/ rank_and_fill(r)
  \/ audit_one(r)
  \/ assemble_done(r)

Next ==
  \/ \E p \in Principals : Request(p) /\ UNCHANGED <<editing, reading>>
  \/ \E w \in Editors : EditorStep(w)
  \/ \E r \in Readers : ReaderStep(r)
  \/ \E tenant \in Tenants : forget_tenant(tenant) /\ UNCHANGED <<editing, reading>>
  \/ purge_expired(Tenants) /\ UNCHANGED <<editing, reading>>
  \/ Tick /\ UNCHANGED <<editing, reading>>
  \/ Restart

Spec == Init /\ [][Next]_vars

-----------------------------------------------------------------------------
(* Types of every variable.                                                *)
TypeOK ==
  /\ StoreTypeOK
  /\ now \in 0..Horizon
  /\ minted \in 0..MaxWrites
  /\ editing \in [Editors -> Editing \cup {Idle}]
  /\ reading \in [Readers -> Reading \cup {Idle}]

(* An edge of derived_sources joins two stored procedural rows of one      *)
(* tenant, owner, session and scope, and the summary expires no later than *)
(* its source: so whoever may see, forget or outlive the one may see,      *)
(* forget or outlive the other.  The source is a step of a sub-task, the   *)
(* summary is of none.  Edges are written by fold and only cut by the      *)
(* erase_derived trigger.                                                  *)
LineageIntegrity ==
  \A e \in derived_sources :
    /\ e.source \in Live /\ e.summary \in Live
    /\ e.source[1] = e.summary[1]
    /\ rows[e.source].tier = "PROCEDURAL" /\ rows[e.summary].tier = "PROCEDURAL"
    /\ rows[e.source].scope = rows[e.summary].scope
    /\ rows[e.source].owner = rows[e.summary].owner
    /\ rows[e.source].session = rows[e.summary].session
    /\ rows[e.summary].expires <= rows[e.source].expires
    /\ rows[e.source].subtask # NoSubtask /\ rows[e.summary].subtask = NoSubtask

(* A summary that still has its sources holds nothing that none of those   *)
(* sources holds now: replacing or deleting a source (save, delete,        *)
(* forget, purge) takes the summary with it.                               *)
SummaryHoldsSourceContent ==
  \A e \in derived_sources :
    rows[e.summary].content \subseteq
      UNION {rows[f.source].content :
               f \in {g \in derived_sources : g.summary = e.summary}}

(* Whoever is shown an item of its tenant could be shown all that it is    *)
(* derived from, which is still stored: so no lineage reaches past what a  *)
(* caller may see, whoever the caller is, and the ancestors that are       *)
(* checked once more before a witness is assembled never exclude it.       *)
ShownWithItsSources ==
  \A k \in Live : lineage(k) # {k} =>
    \A p \in Principal :
      k[1] = p.tenant /\ explain(rows[k], k[1], p, now) => approved(p, k)

(* No row holds a piece of content that the row it was written to no       *)
(* longer holds: erasing a source reaches everything derived from it.      *)
ContentLivesAtHome ==
  \A k \in Live : \A piece \in rows[k].content :
    piece[1] \in Live /\ piece \in rows[piece[1]].content

(* An audit row about a write names an item its tenant still stores: the   *)
(* erase_item_audit trigger and the write's own transaction see to that.   *)
WriteAuditNamesStoredItem ==
  \A a \in audit :
    a.operation = "write" /\ a.item # NoItem => <<a.tenant, a.item>> \in Live

(* A purge, a tenant's, the operator's or the one at start-up, agrees with *)
(* the policy to the second, although it compares other units and although *)
(* the trigger deletes more than it names: it leaves nothing in its        *)
(* tenants that the policy hides, and nothing goes with it, summaries      *)
(* folded at a mixed expiry included, that the policy would still show     *)
(* when the current second is over.                                        *)
Purges(tenants) ==
  \/ purge_expired(tenants)
  \/ tenants = Tenants /\ Restart

PurgeAgreesWithPolicy ==
  [][\A tenants \in {Tenants} \cup {{p.tenant} : p \in Principals} : Purges(tenants) =>
       \A k \in Live :
         /\ k[1] \in tenants /\ Expired(rows[k], now) => rows'[k] = Absent
         /\ rows'[k] = Absent => k[1] \in tenants /\ Expired(rows[k], 2 * (Second(now) + 1))]_vars

(* A step that changes a row or erases an audit row of a tenant is no      *)
(* write, forget, fold, purge or delete of a caller from another tenant.   *)
(* (PATCH and assemble, which run as threads, are not in Request.)         *)
TouchesOtherTenant(p) ==
  \/ \E k \in Keys : k[1] # p.tenant /\ rows'[k] # rows[k]
  \/ \E a \in audit : a.tenant # p.tenant /\ a \notin audit'

TenantBoundary ==
  [][\A p \in Principals : TouchesOtherTenant(p) => ~Request(p)]_vars

(* Without tenant_admin a caller's writes and forgets replace or delete,   *)
(* cascades included, only rows it may see, or rows of its own session.    *)
(* Fold is left out: it does not ask write_denial whether the row that has *)
(* the summary's id already is the caller's to replace.                    *)
WithinReach(p, k) ==
  /\ k[1] = p.tenant
  /\ \/ check_visibility(rows[k], k[1], p)
     \/ rows[k].scope = "SESSION" /\ rows[k].session = p.session

ReachOfUnprivileged ==
  [][\A p \in Principals :
       /\ ~can(p, "tenant_admin")
       /\ \E k \in Live : rows'[k] # rows[k] /\ ~WithinReach(p, k)
       => /\ ~\E id \in Ids, draft \in Drafts : write_item(p, id, draft)
          /\ ~\E scope \in ScopeNames : forget_scope(p, scope)]_vars

(* Without publish_global a caller neither publishes, nor changes, nor     *)
(* deletes a GLOBAL row, by a write, forget, delete or PATCH and by no     *)
(* cascade of one, and folds nothing into a GLOBAL row.  (Its fold may     *)
(* still replace one that has the summary's id: see ReachOfUnprivileged.)  *)
IsGlobal(row) == row # Absent /\ row.scope = "GLOBAL"

Publishes == \E k \in Keys : rows'[k] # rows[k] /\ IsGlobal(rows'[k])
Unpublishes == \E k \in Keys : rows'[k] # rows[k] /\ IsGlobal(rows[k])

Alters(p) ==
  \/ \E id \in Ids, draft \in Drafts : write_item(p, id, draft)
  \/ \E scope \in ScopeNames : forget_scope(p, scope)
  \/ \E id \in Ids : delete_item(p, id)
  \/ \E w \in Editors : editing[w] # Idle /\ editing[w].by = p /\ patch_item_write(w)

GlobalOnlyByPublishers ==
  [][\A p \in Principals : ~can(p, "publish_global") =>
       /\ Publishes \/ Unpublishes => ~Alters(p)
       /\ Publishes => ~\E subtask \in Subtasks : fold_subtask(p, subtask)]_vars

(* When a caller forgets its USER or SESSION scope, nothing its rows held  *)
(* is held by any row afterwards, in any tier, summaries included.         *)
OwnRows(p, scope) ==
  {k \in Live : /\ k[1] = p.tenant
                /\ rows[k].scope = scope
                /\ \/ scope = "USER" /\ rows[k].owner = p.owner
                   \/ scope = "SESSION" /\ rows[k].session = p.session}

ForgetErasesContent ==
  [][\A p \in Principals, scope \in {"USER", "SESSION"} : forget_scope(p, scope) =>
       \A j \in OwnRows(p, scope), k \in Keys :
         rows'[k] # Absent => rows'[k].content \cap rows[j].content = {}]_vars

(* A PATCH edits the row as it exists when it is written: the columns that *)
(* its body leaves out stay as they are, and no row comes of none.         *)
PatchEditsStoredRow ==
  [][\A w \in Editors : patch_item_write(w) =>
       LET old == rows[editing[w].key]
           new == rows'[editing[w].key]
           edit == editing[w].edit
       IN  IF old = Absent
           THEN new = Absent
           ELSE /\ edit.scope = Keep => new.scope = old.scope
                /\ edit.owner = Keep => new.owner = old.owner
                /\ edit.session = Keep => new.session = old.session
                /\ edit.content = Keep => new.content = old.content]_vars

(* When the row a piece of content was written to is deleted or replaced,  *)
(* no row derived from it holds the piece any more.                        *)
DerivedInvalidatedWithSource ==
  [][\A k \in Live : \A piece \in rows[k].content :
       piece[1] = k /\ (rows'[k] = Absent \/ piece \notin rows'[k].content) =>
         \A j \in Keys : rows'[j] # Absent => piece \notin rows'[j].content]_vars

(* The pipeline implements the abstract promise about erasure: what a row  *)
(* of context_items holds is what its place holds.                         *)
Held == [k \in Keys |-> IF rows[k] = Absent THEN {} ELSE rows[k].content]

Promise == INSTANCE Erasure WITH held <- Held

ErasurePromise == Promise!Spec
=============================================================================
