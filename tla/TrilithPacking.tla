--------------------------- MODULE TrilithPacking ---------------------------
(***************************************************************************)
(* How an assembly spends its budget (core/governor.py, rank and assemble; *)
(* core/retrieval.py, pack): the ranked candidates above the relevance     *)
(* floor are packed by marginal gain per cost, a best single item stands   *)
(* in for a poor pack, and the ranking is then filled with what was        *)
(* packed.                                                                 *)
(*                                                                         *)
(* Scores are integers, in units of which Unit make 1.0: what the scorers  *)
(* compute is not modelled.  pack weighs relevance and evidence equally;   *)
(* gains are multiplied by twice the size of the query and by Unit, so     *)
(* that they are integers too, and densities are compared by cross-        *)
(* multiplication.  What a rounding of floating-point numbers would decide *)
(* is left out.                                                            *)
(***************************************************************************)
EXTENDS Integers, Sequences, FiniteSets, FiniteSetsExt

CONSTANTS
  Size,           \* number of candidates
  Shapes,         \* [score, tokens, evidence]: what matters of a candidate
  KeyLists,       \* the (tenant_id, id) of each candidate, as numbers
  Query,          \* features of the task
  Unit,           \* the score 1.0
  Budgets,
  Floors,         \* min_score
  Selections      \* "coverage", "rank"

Shape == [score : Int, tokens : Nat, evidence : SUBSET Query]

Positions == 1..Size

ASSUME PackingAssumption ==
  /\ Size \in Nat /\ Unit \in Nat \ {0} /\ IsFiniteSet(Query)
  /\ Shapes \subseteq Shape
  /\ \A s \in Shapes : s.tokens = 0 => s.evidence = {}
  /\ KeyLists \subseteq [Positions -> Nat]
  /\ Budgets \subseteq Nat /\ Floors \subseteq Int
  /\ Selections \subseteq {"coverage", "rank"}

VARIABLES
  ranked,         \* the candidates, best score first
  key,            \* their keys
  budget, floor, selection,
  phase,          \* pack, fill, done
  chosen,         \* positions that pack has chosen
  covered,        \* the evidence they hold
  spent,          \* what they cost
  replaced,       \* a single item stood in for the others
  at,             \* the position that is filled next
  assembled,      \* positions of the answer
  tokens_used

inputs == <<ranked, key, budget, floor, selection>>
packVars == <<chosen, covered, spent, replaced>>
fillVars == <<at, assembled, tokens_used>>
packingVars == <<inputs, phase, packVars, fillVars>>

(* assemble reads the tiers one by one: an item that changed its tier      *)
(* meanwhile is a candidate twice, and its key is in the list twice.       *)
PackInit ==
  /\ ranked \in {r \in [Positions -> Shapes] :
                   \A i \in 2..Size : r[i - 1].score >= r[i].score}
  /\ key \in KeyLists
  /\ budget \in Budgets /\ floor \in Floors /\ selection \in Selections
  /\ phase = IF selection = "coverage" THEN "pack" ELSE "fill"
  /\ chosen = {} /\ covered = {} /\ spent = 0 /\ replaced = FALSE
  /\ at = 1 /\ assembled = {} /\ tokens_used = 0

-----------------------------------------------------------------------------
Eligible == {i \in Positions : ranked[i].score > floor}

(* estimate_tokens of an empty item is 0; pack charges 1 for it.           *)
cost(i) == IF ranked[i].tokens = 0 THEN 1 ELSE ranked[i].tokens

QuerySize == IF Query = {} THEN 1 ELSE Cardinality(Query)
Positive(score) == IF score > 0 THEN score ELSE 0

gain(i, seen) ==
  QuerySize * Positive(ranked[i].score) + Unit * Cardinality(ranked[i].evidence \ seen)

Evidence(S) == UNION {ranked[i].evidence : i \in S}

Utility(S) ==
  QuerySize * MapThenSumSet(LAMBDA i : Positive(ranked[i].score), S)
    + Unit * Cardinality(Evidence(S))

Tokens(S) == MapThenSumSet(LAMBDA i : ranked[i].tokens, S)
Cost(S) == MapThenSumSet(cost, S)

(* Faulty variant: an item must cost less than what is left.               *)
feasible_below == {i \in Eligible \ chosen : cost(i) + spent < budget}

feasible == {i \in Eligible \ chosen : cost(i) + spent <= budget}

(* i goes before j, or they tie: density, then gain, then key.             *)
preferred(i, j) ==
  LET mine == gain(i, covered) * cost(j)
      other == gain(j, covered) * cost(i)
  IN  \/ mine > other
      \/ /\ mine = other
         /\ \/ gain(i, covered) > gain(j, covered)
            \/ gain(i, covered) = gain(j, covered) /\ key[i] >= key[j]

Best == {i \in feasible : \A j \in feasible : preferred(i, j)}

pack_one ==
  /\ phase = "pack"
  /\ \E i \in Best :
       /\ gain(i, covered) > 0
       /\ chosen' = chosen \cup {i}
       /\ covered' = covered \cup ranked[i].evidence
       /\ spent' = spent + cost(i)
  /\ UNCHANGED <<inputs, phase, replaced, fillVars>>

(* The eligible items that fit by themselves, and those of most gain.      *)
singletons == {i \in Eligible : cost(i) <= budget}
BestSingle == {i \in singletons : \A j \in singletons : gain(i, {}) >= gain(j, {})}

(* Faulty variant: what was packed stays.                                  *)
keep_pack(i) == UNCHANGED packVars

(* The safeguard: a single item of more gain than the whole pack.          *)
best_single(i) ==
  IF gain(i, {}) > Utility(chosen)
  THEN chosen' = {i} /\ covered' = ranked[i].evidence /\ spent' = cost(i) /\ replaced' = TRUE
  ELSE UNCHANGED packVars

pack_done ==
  /\ phase = "pack"
  /\ \A i \in Best : gain(i, covered) <= 0
  /\ IF singletons = {} THEN UNCHANGED packVars ELSE \E i \in BestSingle : best_single(i)
  /\ phase' = "fill"
  /\ UNCHANGED <<inputs, fillVars>>

-----------------------------------------------------------------------------
(* Faulty variant: what pack charges is accounted for.                     *)
used_as_charged(i) == tokens_used + cost(i)

used_with(i) == tokens_used + ranked[i].tokens

fits(i) == used_with(i) <= budget

(* Faulty variant: what was packed is not looked at.                       *)
selected_by_rank(i) == TRUE

(* The keys of what was packed; everything, when items go by rank alone.   *)
selected(i) == selection = "rank" \/ key[i] \in {key[j] : j \in chosen}

(* Every other candidate is excluded: below the floor, or over budget.     *)
fill ==
  /\ phase = "fill"
  /\ at <= Size
  /\ at' = at + 1
  /\ IF at \in Eligible /\ fits(at) /\ selected(at)
     THEN assembled' = assembled \cup {at} /\ tokens_used' = used_with(at)
     ELSE UNCHANGED <<assembled, tokens_used>>
  /\ UNCHANGED <<inputs, phase, packVars>>

assemble_done ==
  /\ phase = "fill"
  /\ at > Size
  /\ phase' = "done"
  /\ UNCHANGED <<inputs, packVars, fillVars>>

PackNext == pack_one \/ pack_done \/ fill \/ assemble_done

PackSpec == PackInit /\ [][PackNext]_packingVars

-----------------------------------------------------------------------------
(* Types of what the steps change, with the books kept: spent and covered  *)
(* are those of the chosen items, tokens_used of the assembled ones.       *)
PackTypeOK ==
  /\ phase \in {"pack", "fill", "done"}
  /\ chosen \subseteq Eligible
  /\ covered = Evidence(chosen) /\ spent = Cost(chosen)
  /\ at \in 1..Size + 1
  /\ assembled \subseteq Eligible /\ tokens_used = Tokens(assembled)

OneReading == \A i, j \in Positions : key[i] = key[j] => i = j

(* The budget is never exceeded, not even by an item that was read twice;  *)
(* and if no item was, the answer is exactly what was packed: filling in   *)
(* rank order, with its own accounts, drops nothing that packing chose.    *)
AnswerIsThePack ==
  /\ Tokens(assembled) <= budget
  /\ phase = "done" /\ selection = "coverage" /\ OneReading => assembled = chosen

(* The pack is worth at least a third of the best one that the budget      *)
(* allows (and so no less than a third of any single item; the safeguard   *)
(* is what this depends on).                                               *)
ThirdOfOptimum ==
  phase # "pack" /\ selection = "coverage" =>
    \A S \in SUBSET Eligible : Cost(S) <= budget => 3 * Utility(chosen) >= Utility(S)

(* An item that is left out "over budget" really had no room left, at what *)
(* pack charges, if its score is positive, unless a single item replaced   *)
(* the pack: then there may have been room beside that one.                *)
LeftOut == {i \in Eligible \ assembled : ranked[i].score > 0}

NoRoomForLeftOut ==
  phase = "done" /\ OneReading /\ ~replaced =>
    \A i \in LeftOut : Cost(assembled) + cost(i) > budget
=============================================================================
