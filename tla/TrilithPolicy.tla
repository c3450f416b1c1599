--------------------------- MODULE TrilithPolicy ---------------------------
(***************************************************************************)
(* Identity and admission rules of Trilith: who a caller is                *)
(* (core/identity.py), which stored items it may see (core/privacy.py) and *)
(* which writes it may make (core/ops.py, write_denial).                   *)
(*                                                                         *)
(* A stored item is a record; its tenant is the first component of its     *)
(* primary key and is passed beside it.  An absent identity (the empty     *)
(* string in the code) is Blank, an absent row is Absent.                  *)
(***************************************************************************)
EXTENDS Integers

CONSTANTS
  Tenants,      \* tenant ids, already normalised (identity.normalize_tenant)
  Owners,       \* non-empty owner ids
  Sessions,     \* non-empty session ids
  Blank,        \* the empty string
  Absent,       \* no row under a primary key
  Never         \* the expiry of an item whose expires_at is not set

Tiers == {"SEMANTIC", "PROCEDURAL", "EPISODIC"}
Scopes == {"SCOPE_UNSPECIFIED", "TENANT", "USER", "SESSION", "GLOBAL"}
Capabilities == {"tenant_admin", "publish_global"}

OwnerIds == Owners \cup {Blank}
SessionIds == Sessions \cup {Blank}

Principal ==
  [tenant : Tenants, owner : OwnerIds, session : SessionIds,
   legacy_scope : Scopes \cup {Blank},
   capabilities : SUBSET Capabilities, authenticated : BOOLEAN]

can(p, capability) == capability \in p.capabilities

(* The fields a write leaves blank are filled from the caller.             *)
stamp(p, item) ==
  [item EXCEPT !.owner = IF @ = Blank THEN p.owner ELSE @,
               !.session = IF @ = Blank THEN p.session ELSE @]

-----------------------------------------------------------------------------
(* An item with a narrowing scope that names no one to narrow to: hidden   *)
(* from authenticated callers, shown to identified open-mode callers, and  *)
(* matched by scope name for anonymous ones.                               *)
unowned(scope, p) ==
  /\ ~p.authenticated
  /\ \/ p.owner # Blank
     \/ p.session # Blank
     \/ p.legacy_scope = scope

UserVisible(item, p) ==
  IF item.owner = Blank THEN unowned("USER", p) ELSE item.owner = p.owner

SessionVisible(item, p) ==
  IF item.session = Blank
  THEN unowned("SESSION", p)
  ELSE item.session = p.session /\ item.owner \in {Blank, p.owner}

check_visibility(item, tenant, p) ==
  \/ item.scope = "GLOBAL"
  \/ /\ tenant = p.tenant
     /\ \/ item.scope = "TENANT"
        \/ item.scope = "USER" /\ UserVisible(item, p)
        \/ item.scope = "SESSION" /\ SessionVisible(item, p)

(* Time is counted in half seconds: a second boundary is an even tick, so  *)
(* the sub-second part of expires_at is what tells ticks 2s and 2s+1 apart. *)
Second(tick) == tick \div 2

Expired(item, now) == item.expires # Never /\ now >= item.expires

explain(item, tenant, p, now) ==
  ~Expired(item, now) /\ check_visibility(item, tenant, p)

-----------------------------------------------------------------------------
(* Faulty variant: the row being replaced is not looked at.                *)
write_denial_checks_item_only(existing, item, p) ==
  \/ item.scope = "GLOBAL" /\ ~can(p, "publish_global")
  \/ /\ ~can(p, "tenant_admin")
     /\ \/ ~check_visibility(item, p.tenant, p)
        \/ item.scope = "USER" /\ item.owner = Blank
        \/ item.scope = "SESSION" /\ item.session = Blank

(* Both the row being replaced and the row being written must lie inside   *)
(* the caller's scope; GLOBAL needs its own capability either way.         *)
write_denial(existing, item, p) ==
  \/ /\ \/ item.scope = "GLOBAL"
        \/ existing # Absent /\ existing.scope = "GLOBAL"
     /\ ~can(p, "publish_global")
  \/ /\ ~can(p, "tenant_admin")
     /\ \/ existing # Absent /\ ~check_visibility(existing, p.tenant, p)
        \/ ~check_visibility(item, p.tenant, p)
        \/ item.scope = "USER" /\ item.owner = Blank
        \/ item.scope = "SESSION" /\ item.session = Blank
=============================================================================
