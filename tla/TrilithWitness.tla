--------------------------- MODULE TrilithWitness ---------------------------
(***************************************************************************)
(* Lineage-conditioned witness packing (core/lineage.py, WitnessProblem):  *)
(* items are chosen so that requirements stay met when sources fail.  A    *)
(* requirement is met by a whole witness, a set of facts; an item gives    *)
(* its facts in a scenario only if neither it nor anything it was derived  *)
(* from is revoked there.                                                  *)
(*                                                                         *)
(* Probabilities and weights are natural numbers (parts of a whole).  Ties *)
(* between additions, which the code breaks by the order of the items, may *)
(* go either way.                                                          *)
(***************************************************************************)
EXTENDS Integers, FiniteSets, FiniteSetsExt

CONSTANTS
  Items,          \* the candidates
  Sources,        \* what they may be derived from
  Facts,
  Instances,      \* what solve is asked: see Problem
  MaxBundle       \* max_bundle

EvidenceItem == [cost : Nat \ {0}, facts : SUBSET Facts, dependencies : SUBSET Sources]
Requirement == [witnesses : (SUBSET ((SUBSET Facts) \ {{}})) \ {{}}, weight : Nat]
Scenario == [probability : Nat, revoked : SUBSET (Items \cup Sources)]

Problem ==
  [evidence : [Items -> EvidenceItem], requirements : SUBSET Requirement,
   scenarios : SUBSET Scenario, limit : Nat]

ASSUME InstancesAssumption ==
  /\ IsFiniteSet(Items) /\ IsFiniteSet(Facts)
  /\ Instances \subseteq Problem
  /\ \A p \in Instances : IsFiniteSet(p.requirements) /\ IsFiniteSet(p.scenarios)
ASSUME MaxBundleAssumption == MaxBundle \in 1..3

VARIABLES
  problem,
  taken,     \* the items chosen so far
  best_bundle,    \* the best addition examined, by itself
  solved

solveVars == <<problem, taken, best_bundle, solved>>

SolveInit ==
  /\ problem \in Instances
  /\ taken = {} /\ best_bundle = {} /\ solved = FALSE

-----------------------------------------------------------------------------
bundle_cost(S) == MapThenSumSet(LAMBDA i : problem.evidence[i].cost, S)

active(i, scenario) ==
  i \notin scenario.revoked /\ problem.evidence[i].dependencies \cap scenario.revoked = {}

FactsOf(S) == UNION {problem.evidence[i].facts : i \in S}

surviving(S, scenario) == FactsOf({i \in S : active(i, scenario)})

met(S, scenario) ==
  {r \in problem.requirements : \E w \in r.witnesses : w \subseteq surviving(S, scenario)}

weight_met(S, scenario) == MapThenSumSet(LAMBDA r : r.weight, met(S, scenario))

value(S) ==
  MapThenSumSet(LAMBDA s : s.probability * weight_met(S, s), problem.scenarios)

(* The greedy cover of the missing facts by the candidates, from an        *)
(* addition on: most newly covered facts per cost first, then least cost.  *)
cover(missing, candidates) ==
  LET new(i, had) == Cardinality(problem.evidence[i].facts \cap (missing \ FactsOf(had)))
      better(i, j, had) ==
        LET mine == new(i, had) * problem.evidence[j].cost
            other == new(j, had) * problem.evidence[i].cost
        IN  \/ mine > other
            \/ /\ mine = other
               /\ problem.evidence[i].cost <= problem.evidence[j].cost
      grow[had \in SUBSET Items] ==
        LET usable == {i \in candidates \ had : new(i, had) > 0}
        IN  IF usable = {} THEN had
            ELSE grow[had \cup {CHOOSE i \in usable : \A j \in usable : better(i, j, had)}]
  IN  grow

(* Faulty variant: no chains are proposed (complete_witnesses=False).      *)
no_completions(S) == {}

(* The items that hold some of what is missing.                            *)
suppliers(S, missing, scenario) ==
  {i \in Items \ S : active(i, scenario) /\ problem.evidence[i].facts \cap missing # {}}

(* The additions that finish a witness, from every first item.             *)
chains(S, w, scenario) ==
  LET missing == w \ surviving(S, scenario)
      candidates == suppliers(S, missing, scenario)
      covers == {cover(missing, candidates)[seed] : seed \in {{}} \cup {{i} : i \in candidates}}
  IN  {a \in covers : a # {} /\ missing \subseteq FactsOf(a)}

(* For every scenario and unfinished witness.                              *)
completions(S) ==
  UNION {chains(S, w, s) :
           w \in UNION {r.witnesses : r \in problem.requirements}, s \in problem.scenarios}

bundles(S) == {a \in SUBSET (Items \ S) : Cardinality(a) \in 1..MaxBundle}

(* Faulty variant: an addition is held against the whole budget.           *)
affordable_by_itself(S) ==
  {a \in completions(S) \cup bundles(S) : bundle_cost(a) <= problem.limit}

affordable(S) ==
  {a \in completions(S) \cup bundles(S) : bundle_cost(S \cup a) <= problem.limit}

(* More value, or as much for less.                                        *)
beats(a, b) ==
  \/ value(a) > value(b)
  \/ value(a) = value(b) /\ bundle_cost(a) < bundle_cost(b)

best_of(examined) ==
  {a \in examined \cup {best_bundle} : \A b \in examined \cup {best_bundle} : ~beats(b, a)}

added(a) == value(taken \cup a) - value(taken)

preferred_addition(a, b) ==
  LET mine == added(a) * bundle_cost(b)
      other == added(b) * bundle_cost(a)
  IN  \/ mine > other
      \/ mine = other /\ added(a) >= added(b)

(* One round of solve: the addition of most gain per cost, then of most    *)
(* gain; and the best of all that was examined is remembered.              *)
add_bundle ==
  LET examined == affordable(taken)
      proposals == {a \in examined : added(a) > 0}
  IN  /\ ~solved
      /\ \E a \in proposals :
           /\ \A b \in proposals : preferred_addition(a, b)
           /\ taken' = taken \cup a
      /\ best_bundle' \in best_of(examined)
      /\ UNCHANGED <<problem, solved>>

(* Faulty variant: without the safeguard.                                  *)
ascent_only(bundle) == taken

best_or_ascent(bundle) == IF beats(bundle, taken) THEN bundle ELSE taken

(* No addition gains anything: the remembered one may beat the ascent.     *)
solve_done ==
  LET examined == affordable(taken)
  IN  /\ ~solved
      /\ \A a \in examined : added(a) <= 0
      /\ \E bundle \in best_of(examined) :
           best_bundle' = bundle /\ taken' = best_or_ascent(bundle)
      /\ solved' = TRUE
      /\ UNCHANGED problem

SolveNext == add_bundle \/ solve_done

SolveSpec == SolveInit /\ [][SolveNext]_solveVars

(* oracle: the exhaustive reference.                                       *)
Affordable == {S \in SUBSET Items : bundle_cost(S) <= problem.limit}
oracle == CHOOSE S \in Affordable : \A T \in Affordable : ~beats(T, S)

-----------------------------------------------------------------------------
(* Types of what changes, and no selection ever costs more than allowed.   *)
SolveTypeOK ==
  /\ taken \in Affordable /\ best_bundle \in Affordable
  /\ solved \in BOOLEAN

(* No set of up to max_bundle items that the budget allows is better than  *)
(* the answer, neither in value nor, at the same value, in cost.  If all   *)
(* of the items are no more than that, the answer is the oracle's.         *)
NoBundleBeatsAnswer ==
  solved =>
    /\ \A b \in Affordable : Cardinality(b) <= MaxBundle => ~beats(b, taken)
    /\ Cardinality(Items) <= MaxBundle => value(taken) = value(oracle)

(* A chain enters whole, however long it is: if some witness has, among    *)
(* the items active in a scenario, one carrier for each of its facts, and  *)
(* these fit the budget, the answer is worth at least that requirement in  *)
(* that scenario, although no part of the chain is worth anything.         *)
Carriers(w, s) == {i \in Items : active(i, s) /\ problem.evidence[i].facts \cap w # {}}

AffordableChain(w, s) ==
  /\ w \subseteq FactsOf(Carriers(w, s))
  /\ \A i, j \in Carriers(w, s) :
       i # j => problem.evidence[i].facts \cap problem.evidence[j].facts \cap w = {}
  /\ bundle_cost(Carriers(w, s)) <= problem.limit

ChainsEnterWhole ==
  solved =>
    \A r \in problem.requirements, s \in problem.scenarios :
      (\E w \in r.witnesses : AffordableChain(w, s)) => value(taken) >= s.probability * r.weight
=============================================================================
