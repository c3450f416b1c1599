----------------------------- MODULE MCTenancy -----------------------------
(***************************************************************************)
(* Two tenants, callers with and without capabilities, one row id shared   *)
(* by everyone and one summary id: who may touch what.                     *)
(***************************************************************************)
EXTENDS TrilithGateway

CONSTANTS t1, t2, alice, bob, office, item, folded, s

MCTenants == {t1, t2}
MCOwners == {alice, bob}
MCSessions == {office}
MCSubtasks == {s}
MCIds == {item, folded}
MCNever == 20

Key(tenant, owner, session, capabilities) ==
  [tenant |-> tenant, owner |-> owner, session |-> session, legacy_scope |-> Blank,
   capabilities |-> capabilities, authenticated |-> TRUE]

(* Two members of t1 in one session, an operator and a publisher of t1     *)
(* whose keys name no owner, and the administrator of t2.                  *)
Alice == Key(t1, alice, office, {})
Bob == Key(t1, bob, office, {})
Operator == Key(t1, Blank, Blank, {"tenant_admin"})
Publisher == Key(t1, Blank, Blank, {"publish_global", "tenant_admin"})
Stranger == Key(t2, Blank, Blank, {"tenant_admin"})

MCPrincipals == {Alice, Bob, Operator, Publisher, Stranger}

Note(scope) ==
  [tier |-> "PROCEDURAL", scope |-> scope, owner |-> Blank, session |-> Blank,
   subtask |-> s, expires |-> MCNever]

MCDrafts ==
  {Note(scope) : scope \in {"TENANT", "SESSION", "GLOBAL"}}
    \cup {[Note("USER") EXCEPT !.expires = 1], [Note("USER") EXCEPT !.owner = bob, !.tier = "EPISODIC"]}

(* Only alice's fold of the shared item has its digest among the ids.      *)
MCSummaryIds ==
  [args \in FoldArgs |->
     IF args.owner = alice /\ args.sources = {item} THEN {folded} \cap Ids ELSE {}]

(* For the runs with threads: one id, and the two administrators of t1.    *)
OneId == {item}
Administrators == {Operator, Publisher}
ThreadDrafts ==
  {Note("GLOBAL"), [Note("USER") EXCEPT !.owner = bob, !.tier = "SEMANTIC", !.expires = 1]}

NoEdit ==
  [tier |-> Keep, scope |-> Keep, owner |-> Keep, session |-> Keep,
   subtask |-> Keep, ttl |-> Keep, content |-> Keep]

(* Publish an item to every tenant; make it bob's own; retire it.          *)
MCEdits ==
  {[NoEdit EXCEPT !.scope = "GLOBAL", !.tier = "SEMANTIC"],
   [NoEdit EXCEPT !.scope = "USER", !.owner = bob], [NoEdit EXCEPT !.ttl = -1]}
=============================================================================
