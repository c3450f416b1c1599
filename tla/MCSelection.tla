----------------------------- MODULE MCSelection -----------------------------
(***************************************************************************)
(* The two selectors on small inputs: a behaviour packs one ranking or     *)
(* solves one witness problem, and the other selector has nothing to do.   *)
(***************************************************************************)
EXTENDS TrilithPacking, TrilithWitness

CONSTANTS x, y, i1, i2, i3, src

MCQuery == {x, y}

MCShapes ==
  [score : {1, 3}, tokens : {1, 3, 7}, evidence : SUBSET MCQuery]
    \cup {[score |-> 1, tokens |-> 0, evidence |-> {}]}
    \cup {[score |-> -1, tokens |-> 1, evidence |-> e] : e \in {{}, {x}}}

MCKeyLists == {<<1, 2, 3>>, <<1, 1, 2>>}
MCFloors == {-2, 0}

MCItems == {i1, i2, i3}

(* One requirement with one witness, or with two alternatives; a scenario  *)
(* in which the source holds and one in which it, or an item, is revoked.  *)
(* What is derived is as cheap as anything.                                *)
MCEvidence ==
  [cost : {1, 2}, facts : {{x}, {y}, {x, y}}, dependencies : {{}}]
    \cup [cost : {1}, facts : {{x}, {y}, {x, y}}, dependencies : {{src}}]

MCRequirements ==
  {{[witnesses |-> {{x, y}}, weight |-> 2]},
   {[witnesses |-> {{x}}, weight |-> 1], [witnesses |-> {{x, y}}, weight |-> 2]},
   {[witnesses |-> {{x}, {y}}, weight |-> 1]}}

MCScenarios ==
  {{[probability |-> 2, revoked |-> {}]},
   {[probability |-> 1, revoked |-> {}], [probability |-> 1, revoked |-> {src}]},
   {[probability |-> 1, revoked |-> {src}], [probability |-> 3, revoked |-> {i1}]}}

MCInstances ==
  [evidence : [MCItems -> MCEvidence], requirements : MCRequirements,
   scenarios : MCScenarios, limit : {2, 3}]

Nothing ==
  [evidence |-> [i \in MCItems |-> [cost |-> 1, facts |-> {}, dependencies |-> {}]],
   requirements |-> {}, scenarios |-> {}, limit |-> 0]

NoShape == [score |-> 0, tokens |-> 0, evidence |-> {}]

Init ==
  \/ /\ PackInit
     /\ problem = Nothing /\ taken = {} /\ best_bundle = {} /\ solved = TRUE
  \/ /\ SolveInit
     /\ ranked = [i \in Positions |-> NoShape] /\ key = <<1, 2, 3>> /\ budget = 0 /\ floor = 0
     /\ selection = "rank"
     /\ phase = "done" /\ chosen = {} /\ covered = {} /\ spent = 0 /\ replaced = FALSE
     /\ at = Size + 1 /\ assembled = {} /\ tokens_used = 0

Next ==
  \/ PackNext /\ UNCHANGED solveVars
  \/ SolveNext /\ UNCHANGED packingVars

Spec == Init /\ [][Next]_<<packingVars, solveVars>>
=============================================================================
