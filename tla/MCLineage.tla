----------------------------- MODULE MCLineage -----------------------------
(***************************************************************************)
(* One tenant and one caller with every capability: folding, editing,      *)
(* expiry and erasure of procedural steps and of their summaries.          *)
(***************************************************************************)
EXTENDS TrilithGateway

CONSTANTS t, alice, a, f, g, s

MCTenants == {t}
MCOwners == {alice}
MCSessions == {}
MCSubtasks == {s}

(* A step, its summary f, and the summary g folded from a set that holds f. *)
Refolding == {a, f, g}

Admin ==
  [tenant |-> t, owner |-> alice, session |-> Blank, legacy_scope |-> Blank,
   capabilities |-> Capabilities, authenticated |-> FALSE]

MCPrincipals == {Admin}

Step(expires) ==
  [tier |-> "PROCEDURAL", scope |-> "USER", owner |-> alice, session |-> Blank,
   subtask |-> s, expires |-> expires]

MCNever == 20

MCDrafts == {Step(3), Step(MCNever)}

(* Only these sets of steps have a digest among the ids; folding another   *)
(* set is not explored.                                                    *)
MCSummaryIds ==
  [args \in FoldArgs |->
     CASE args.sources = Ids \ {f, g} -> {f}
       [] f \in args.sources /\ g \notin args.sources -> {g} \cap Ids
       [] OTHER -> {}]

NoEdit ==
  [tier |-> Keep, scope |-> Keep, owner |-> Keep, session |-> Keep,
   subtask |-> Keep, ttl |-> Keep, content |-> Keep]

(* Keep an item for ever, group it under the sub-task, rewrite it.         *)
MCEdits ==
  {[NoEdit EXCEPT !.ttl = 0], [NoEdit EXCEPT !.subtask = s],
   [NoEdit EXCEPT !.content = "new"]}
=============================================================================
