----------------------- MODULE TrilithSelectionProofs -----------------------
(***************************************************************************)
(* Proofs about the two selectors, for every ranking, budget and witness   *)
(* problem.                                                                *)
(*                                                                         *)
(* Costs, tokens, utilities and values are sums over sets, and a cover is  *)
(* a recursion over sets: what these compute is proved by induction on     *)
(* numbers and on subsets, stated as inclusions of sets.                   *)
(*                                                                         *)
(* Packing: PackInv keeps, of every selection S that the budget allows,    *)
(* that the pack is still on its way to it (all of S fits, and none of it  *)
(* is denser than the pack) or already bounds it (S is worth no more than  *)
(* twice the pack and a single item).  With the single item as a safeguard *)
(* the pack is then worth a third of S.                                    *)
(*                                                                         *)
(* Witnesses: SolveInv keeps that what is remembered as the best is beaten *)
(* by no addition of the first round, whatever the ascent does later; the  *)
(* first round examines every small set and every chain of carriers.       *)
(***************************************************************************)
EXTENDS TrilithPacking, TrilithWitness, FiniteSetTheorems, TLAPS

(* A sum over a set, of what a function has for its elements.              *)
Total(weight, S) == MapThenSumSet(LAMBDA x : weight[x], S)

(* Induction on numbers, as a statement about a set.                       *)
LEMMA InductionOnNumbers ==
  ASSUME NEW G, 0 \in G, \A n \in Nat : n \in G => n + 1 \in G
  PROVE  Nat \subseteq G
<1>1. SUFFICES ASSUME NEW m \in Nat, m \notin G PROVE FALSE
  OBVIOUS
<1> DEFINE below == {ss \in Nat \X Nat : ss[1] < ss[2]}
<1>2. IsWellFoundedOn(below, Nat)
  BY NatLessThanWellFounded DEF OpToRel
<1>3. PICK n \in Nat \ G : \A k \in Nat \ G : ~ (<<k, n>> \in below)
  <2>1. Nat \ G \subseteq Nat /\ Nat \ G # {}
    BY <1>1
  <2>2. QED
    BY <1>2, <2>1, WFMin
<1>4. \A k \in Nat \ G : ~ (k < n)
  BY <1>3
<1>5. n # 0 /\ n - 1 \in Nat /\ n - 1 < n /\ (n - 1) + 1 = n
  BY <1>3
<1>6. QED
  BY <1>3, <1>4, <1>5

(* Induction on the subsets of a finite set: a set that has a subset       *)
(* whenever it has all smaller ones has all of them.                       *)
LEMMA InductionOnSubsets ==
  ASSUME NEW S, IsFiniteSet(S), NEW G,
         \A T \in SUBSET S : (\A U \in SUBSET T : U # T => U \in G) => T \in G
  PROVE  SUBSET S \subseteq G
<1>1. SUFFICES ASSUME NEW M \in SUBSET S, M \notin G PROVE FALSE
  OBVIOUS
<1>2. IsWellFoundedOn(StrictSubsetOrdering(S), SUBSET S)
  BY FS_StrictSubsetOrderingWellFounded, FS_FiniteSubsetsOfFinite
<1> DEFINE Bad == (SUBSET S) \ G
<1>3. Bad \subseteq SUBSET S /\ Bad # {}
  BY <1>1
<1>4. PICK T \in Bad : \A U \in Bad : ~ (<<U, T>> \in StrictSubsetOrdering(S))
  <2> HIDE DEF Bad
  <2>1. QED
    BY <1>2, <1>3, WFMin
<1>5. ASSUME NEW U \in SUBSET T, U # T PROVE U \in G
  <2>1. U \in SUBSET S /\ T \in SUBSET S
    OBVIOUS
  <2>2. <<U, T>> \in StrictSubsetOrdering(S)
    BY <1>5, <2>1 DEF StrictSubsetOrdering
  <2>3. QED
    BY <1>4, <2>1, <2>2
<1>6. QED
  BY <1>5

(* The element that a sum takes first.                                     *)
any(s) == CHOOSE x \in s : TRUE

(* g satisfies the recursion of the sum on the sets of D.                  *)
Sums(g, weight, D) ==
  g = [s \in D |-> IF s = {} THEN 0 ELSE weight[any(s)] + g[s \ {any(s)}]]

(* A sum is what a function that satisfies the recursion has for the set.  *)
LEMMA TotalIsChosen ==
  ASSUME NEW weight, NEW S
  PROVE  Total(weight, S) = (CHOOSE g : Sums(g, weight, SUBSET S))[S]
BY DEF Total, MapThenSumSet, MapThenFoldSet, Sums, any

(* Without one of its elements a finite set is smaller by one.             *)
LEMMA AnySmaller ==
  ASSUME NEW s, IsFiniteSet(s), s # {}
  PROVE  /\ any(s) \in s /\ IsFiniteSet(s \ {any(s)})
         /\ Cardinality(s \ {any(s)}) = Cardinality(s) - 1 /\ Cardinality(s) \in Nat \ {0}
<1>1. any(s) \in s
  BY DEF any
<1>2. QED
  BY <1>1, FS_RemoveElement, FS_CardinalityType, FS_EmptySet

(* There is a function that satisfies the recursion.                       *)
LEMMA SumsExist ==
  ASSUME NEW S, IsFiniteSet(S), NEW weight
  PROVE  \E g : Sums(g, weight, SUBSET S)
<1> DEFINE Small(n) == {s \in SUBSET S : Cardinality(s) <= n}
           Good == {n \in Nat : \E g : Sums(g, weight, Small(n))}
<1>1. \A s \in SUBSET S : IsFiniteSet(s) /\ Cardinality(s) \in Nat /\ Cardinality(s) <= Cardinality(S)
  BY FS_Subset, FS_CardinalityType
<1>2. 0 \in Good
  <2>1. Small(0) = {{}}
    BY <1>1, FS_EmptySet
  <2>2. Sums([s \in {{}} |-> 0], weight, {{}})
    BY DEF Sums
  <2>3. QED
    BY <2>1, <2>2
<1>3. ASSUME NEW n \in Nat, n \in Good PROVE n + 1 \in Good
  <2>1. PICK f : Sums(f, weight, Small(n))
    BY <1>3
  <2> DEFINE g == [s \in Small(n + 1) |->
                     IF s = {} THEN 0 ELSE weight[any(s)] + f[s \ {any(s)}]]
  <2>2. ASSUME NEW s \in Small(n + 1), s # {}
        PROVE  s \ {any(s)} \in Small(n)
    BY <1>1, <2>2, AnySmaller
  <2>3. ASSUME NEW s \in Small(n)
        PROVE  s \in Small(n + 1) /\ f[s] = g[s]
    <3>1. s \in Small(n + 1)
      BY <1>1
    <3>2. f[s] = IF s = {} THEN 0 ELSE weight[any(s)] + f[s \ {any(s)}]
      BY <2>1 DEF Sums
    <3>3. QED
      BY <3>1, <3>2
  <2>4. g = [s \in Small(n + 1) |-> IF s = {} THEN 0 ELSE weight[any(s)] + g[s \ {any(s)}]]
    BY <2>2, <2>3
  <2>5. Sums(g, weight, Small(n + 1))
    BY <2>4 DEF Sums
  <2>6. \E f1 : Sums(f1, weight, Small(n + 1))
    <3> HIDE DEF g, Small
    <3>1. QED
      BY <2>5
  <2>7. QED
    <3> HIDE DEF Small
    <3>1. QED
      BY <2>6
<1>4. Nat \subseteq Good
  <2> HIDE DEF Good
  <2>1. QED
    BY <1>2, <1>3, InductionOnNumbers
<1>5. Small(Cardinality(S)) = SUBSET S
  BY <1>1
<1>6. QED
  BY <1>4, <1>5, FS_CardinalityType

(* Any function that satisfies it, on the subsets of a larger set too, has *)
(* the sum for its value.                                                  *)
LEMMA SumIsTotal ==
  ASSUME NEW S, NEW T, NEW weight, NEW g,
         T \subseteq S, IsFiniteSet(T), Sums(g, weight, SUBSET S)
  PROVE  g[T] = Total(weight, T)
<1>0. PICK h : h = CHOOSE f : Sums(f, weight, SUBSET T)
  OBVIOUS
<1>1. Sums(h, weight, SUBSET T)
  <2>1. \E f : Sums(f, weight, SUBSET T)
    BY SumsExist
  <2>2. QED
    BY <1>0, <2>1
<1> DEFINE Good == {U \in SUBSET T : g[U] = h[U]}
<1>2. ASSUME NEW U \in SUBSET T, \A V \in SUBSET U : V # U => V \in Good
      PROVE  U \in Good
  <2>1. CASE U = {}
    BY <1>1, <2>1 DEF Sums
  <2>2. CASE U # {}
    <3>1. any(U) \in U
      BY <2>2 DEF any
    <3>2. g[U \ {any(U)}] = h[U \ {any(U)}]
      BY <1>2, <3>1
    <3>3. U \in SUBSET S
      OBVIOUS
    <3>4. g[U] = weight[any(U)] + g[U \ {any(U)}]
      BY <2>2, <3>3 DEF Sums
    <3>5. h[U] = weight[any(U)] + h[U \ {any(U)}]
      BY <1>1, <2>2 DEF Sums
    <3>6. QED
      BY <3>2, <3>4, <3>5
  <2>3. QED
    BY <2>1, <2>2
<1>3. SUBSET T \subseteq Good
  <2> HIDE DEF Good
  <2>1. QED
    BY <1>2, InductionOnSubsets
<1>4. h[T] = Total(weight, T)
  BY <1>0, TotalIsChosen
<1>5. QED
  BY <1>3, <1>4

(* The recursion holds for the sum.                                        *)
LEMMA TotalStep ==
  ASSUME NEW S, IsFiniteSet(S), S # {}, NEW weight
  PROVE  Total(weight, S) = weight[any(S)] + Total(weight, S \ {any(S)})
<1>1. PICK g : Sums(g, weight, SUBSET S)
  BY SumsExist
<1>2. g[S] = Total(weight, S)
  BY <1>1, SumIsTotal
<1>3. PICK T : T = S \ {any(S)}
  OBVIOUS
<1>4. T \subseteq S /\ IsFiniteSet(T)
  BY <1>3, FS_Subset
<1>5. g[T] = Total(weight, T)
  BY <1>1, <1>4, SumIsTotal
<1>6. g[S] = weight[any(S)] + g[T]
  BY <1>1, <1>3 DEF Sums
<1>7. QED
  BY <1>2, <1>3, <1>5, <1>6

(* Nothing adds up to 0.                                                   *)
LEMMA TotalEmpty ==
  ASSUME NEW weight
  PROVE  Total(weight, {}) = 0
<1> DEFINE g == CHOOSE f : Sums(f, weight, SUBSET {})
<1>1. Sums(g, weight, SUBSET {})
  BY SumsExist, FS_EmptySet
<1>2. g[{}] = 0
  <2> HIDE DEF g
  <2>1. QED
    BY <1>1 DEF Sums
<1>3. QED
  BY <1>2, TotalIsChosen

(* The total of integers is one, and whichever element is taken first.     *)
LEMMA TotalRemove ==
  ASSUME NEW S, IsFiniteSet(S), NEW weight, \A x \in S : weight[x] \in Int
  PROVE  /\ Total(weight, S) \in Int
         /\ \A x \in S : Total(weight, S) = weight[x] + Total(weight, S \ {x})
<1> DEFINE Holds(U) == /\ Total(weight, U) \in Int
                       /\ \A x \in U : Total(weight, U) = weight[x] + Total(weight, U \ {x})
           Good == {U \in SUBSET S : Holds(U)}
<1>1. ASSUME NEW U \in SUBSET S, \A V \in SUBSET U : V # U => V \in Good
      PROVE  U \in Good
  <2>1. CASE U = {}
    BY <2>1, TotalEmpty
  <2>2. CASE U # {}
    <3>1. PICK a \in U : a = any(U)
      BY <2>2 DEF any
    <3>2. IsFiniteSet(U)
      BY FS_Subset
    <3>3. Total(weight, U) = weight[a] + Total(weight, U \ {a})
      BY <2>2, <3>1, <3>2, TotalStep
    <3>4. ASSUME NEW x \in U
          PROVE  Holds(U \ {x})
      BY <1>1
    <3>5. weight[a] \in Int /\ Total(weight, U \ {a}) \in Int
      BY <3>4
    <3>6. ASSUME NEW x \in U, x # a
          PROVE  Total(weight, U) = weight[x] + Total(weight, U \ {x})
      <4>1. PICK V : V = (U \ {a}) \ {x}
        OBVIOUS
      <4>2. V = (U \ {x}) \ {a}
        BY <4>1
      <4>3. Total(weight, U \ {a}) = weight[x] + Total(weight, V)
        BY <3>4, <3>6, <4>1
      <4>4. Total(weight, U \ {x}) = weight[a] + Total(weight, V)
        BY <3>4, <3>6, <4>2
      <4>5. Total(weight, V) \in Int
        <5>1. V \in SUBSET U /\ V # U
          BY <4>1
        <5>2. V \in Good
          BY <1>1, <5>1
        <5>3. QED
          BY <5>2
      <4>6. weight[x] \in Int
        OBVIOUS
      <4>7. QED
        BY <3>3, <3>5, <4>3, <4>4, <4>5, <4>6
    <3>7. Holds(U)
      BY <3>3, <3>5, <3>6
    <3>8. QED
      BY <3>7
  <2>3. QED
    BY <2>1, <2>2
<1>2. SUBSET S \subseteq Good
  <2> HIDE DEF Good
  <2>1. QED
    BY <1>1, InductionOnSubsets
<1>3. QED
  BY <1>2

(* One element more.                                                       *)
LEMMA TotalAdd ==
  ASSUME NEW S, IsFiniteSet(S), NEW x, x \notin S, NEW weight,
         \A y \in S \cup {x} : weight[y] \in Int
  PROVE  Total(weight, S \cup {x}) = weight[x] + Total(weight, S)
<1>1. PICK T : T = S \cup {x}
  OBVIOUS
<1>2. IsFiniteSet(T)
  BY <1>1, FS_AddElement
<1>3. Total(weight, T) = weight[x] + Total(weight, T \ {x})
  BY <1>1, <1>2, TotalRemove
<1>4. T \ {x} = S
  BY <1>1
<1>5. QED
  BY <1>1, <1>3, <1>4

(* Totals of natural numbers grow with the set.                            *)
LEMMA TotalMonotone ==
  ASSUME NEW S, IsFiniteSet(S), NEW weight, \A x \in S : weight[x] \in Nat, NEW T \in SUBSET S
  PROVE  Total(weight, T) \in Nat /\ Total(weight, T) <= Total(weight, S)
<1> DEFINE Good == {U \in SUBSET S : \A V \in SUBSET U : Total(weight, V) \in Nat /\ Total(weight, V) <= Total(weight, U)}
<1>1. ASSUME NEW U \in SUBSET S, \A V \in SUBSET U : V # U => V \in Good
      PROVE  U \in Good
  <2>1. SUFFICES ASSUME NEW V \in SUBSET U
                 PROVE  Total(weight, V) \in Nat /\ Total(weight, V) <= Total(weight, U)
    OBVIOUS
  <2>2. IsFiniteSet(U)
    BY FS_Subset
  <2>3. CASE U = {}
    BY <2>3, TotalEmpty
  <2>4. CASE U # {}
    <3>1. PICK x \in U : V = U \/ x \notin V
      BY <2>4
    <3>2. weight[x] \in Nat /\ Total(weight, U) = weight[x] + Total(weight, U \ {x})
      BY <2>2, TotalRemove
    <3>3. U \ {x} \in Good
      BY <1>1
    <3>4. Total(weight, U \ {x}) \in Nat
      BY <3>3
    <3>5. CASE V = U
      BY <3>2, <3>4, <3>5
    <3>6. CASE x \notin V
      <4>1. V \in SUBSET (U \ {x})
        BY <3>6
      <4>2. Total(weight, V) \in Nat /\ Total(weight, V) <= Total(weight, U \ {x})
        BY <3>3, <4>1
      <4>3. QED
        BY <3>2, <3>4, <4>2
    <3>7. QED
      BY <3>1, <3>5, <3>6
  <2>5. QED
    BY <2>3, <2>4
<1>2. SUBSET S \subseteq Good
  <2> HIDE DEF Good
  <2>1. QED
    BY <1>1, InductionOnSubsets
<1>3. QED
  BY <1>2

(* An element weighs no more than all of them.                             *)
LEMMA TotalBounds ==
  ASSUME NEW S, IsFiniteSet(S), NEW weight, \A x \in S : weight[x] \in Nat, NEW x \in S
  PROVE  weight[x] <= Total(weight, S)
<1>1. Total(weight, S) = weight[x] + Total(weight, S \ {x})
  BY TotalRemove
<1>2. Total(weight, S \ {x}) \in Nat
  BY TotalMonotone
<1>3. QED
  BY <1>1, <1>2

(* Weights in proportion have totals in proportion.                        *)
LEMMA TotalScaled ==
  ASSUME NEW S, IsFiniteSet(S), NEW a, NEW b, NEW m \in Int, NEW n \in Int,
         \A x \in S : a[x] \in Int /\ b[x] \in Int /\ m * a[x] <= n * b[x]
  PROVE  m * Total(a, S) <= n * Total(b, S)
<1> DEFINE Good == {U \in SUBSET S : m * Total(a, U) <= n * Total(b, U)}
<1>1. ASSUME NEW U \in SUBSET S, \A V \in SUBSET U : V # U => V \in Good
      PROVE  U \in Good
  <2>1. IsFiniteSet(U)
    BY FS_Subset
  <2>2. CASE U = {}
    BY <2>2, TotalEmpty
  <2>3. CASE U # {}
    <3>1. PICK x \in U : TRUE
      BY <2>3
    <3>2. Total(a, U) = a[x] + Total(a, U \ {x}) /\ Total(b, U) = b[x] + Total(b, U \ {x})
      BY <2>1, TotalRemove
    <3>3. Total(a, U \ {x}) \in Int /\ Total(b, U \ {x}) \in Int
      <4>1. IsFiniteSet(U \ {x})
        BY <2>1, FS_Subset
      <4>2. QED
        BY <4>1, TotalRemove
    <3>4. m * Total(a, U \ {x}) <= n * Total(b, U \ {x})
      BY <1>1
    <3>5. a[x] \in Int /\ b[x] \in Int /\ m * a[x] <= n * b[x]
      OBVIOUS
    <3>6. m * (a[x] + Total(a, U \ {x})) <= n * (b[x] + Total(b, U \ {x}))
      BY <3>3, <3>4, <3>5
    <3>7. QED
      BY <3>2, <3>6
  <2>4. QED
    BY <2>2, <2>3
<1>2. SUBSET S \subseteq Good
  <2> HIDE DEF Good
  <2>1. QED
    BY <1>1, InductionOnSubsets
<1>3. QED
  BY <1>2

(* A finite set has a greatest element in a total and transitive relation. *)
LEMMA GreatestExists ==
  ASSUME NEW S, IsFiniteSet(S), S # {}, NEW R,
         \A x, y \in S : <<x, y>> \in R \/ <<y, x>> \in R,
         \A x, y, z \in S : <<x, y>> \in R /\ <<y, z>> \in R => <<x, z>> \in R
  PROVE  \E x \in S : \A y \in S : <<x, y>> \in R
<1> DEFINE Good == {U \in SUBSET S : U # {} => \E x \in U : \A y \in U : <<x, y>> \in R}
<1>1. ASSUME NEW U \in SUBSET S, \A V \in SUBSET U : V # U => V \in Good
      PROVE  U \in Good
  <2>1. SUFFICES ASSUME U # {} PROVE \E x \in U : \A y \in U : <<x, y>> \in R
    OBVIOUS
  <2>2. PICK z \in U : TRUE
    BY <2>1
  <2>3. CASE U \ {z} = {}
    BY <2>3
  <2>4. CASE U \ {z} # {}
    <3>1. PICK x \in U \ {z} : \A y \in U \ {z} : <<x, y>> \in R
      <4>1. U \ {z} \in Good
        BY <1>1
      <4>2. QED
        BY <2>4, <4>1
    <3>2. CASE <<x, z>> \in R
      BY <3>1, <3>2
    <3>3. CASE <<z, x>> \in R
      BY <3>1, <3>3
    <3>4. QED
      BY <3>2, <3>3
  <2>5. QED
    BY <2>3, <2>4
<1>2. SUBSET S \subseteq Good
  <2> HIDE DEF Good
  <2>1. QED
    BY <1>1, InductionOnSubsets
<1>3. QED
  BY <1>2
-----------------------------------------------------------------------------
(* The inputs of an assembly, of their types.                              *)
Inputs ==
  /\ ranked \in [Positions -> Shape] /\ key \in [Positions -> Nat]
  /\ budget \in Nat /\ floor \in Int /\ selection \in {"coverage", "rank"}

(* The summands: what an item holds, what pack charges for it, its         *)
(* relevance.                                                              *)
tokens == [i \in Positions |-> ranked[i].tokens]
costs == [i \in Positions |-> cost(i)]
scores == [i \in Positions |-> Positive(ranked[i].score)]

(* There are finitely many candidates.                                     *)
LEMMA PositionsAreFinite ==
  \A S \in SUBSET Positions : IsFiniteSet(S)
<1>1. IsFiniteSet(Positions)
  BY PackingAssumption, FS_Interval DEF Positions
<1>2. QED
  BY <1>1, FS_Subset

(* What a candidate holds, of its types; no item costs less than its       *)
(* tokens.                                                                 *)
LEMMA ShapeTypes ==
  ASSUME Inputs, NEW i \in Positions
  PROVE  /\ ranked[i].tokens \in Nat /\ cost(i) \in Nat /\ cost(i) >= 1
         /\ ranked[i].tokens <= cost(i)
         /\ ranked[i].score \in Int /\ Positive(ranked[i].score) \in Nat
         /\ ranked[i].evidence \subseteq Query
         /\ tokens[i] = ranked[i].tokens /\ costs[i] = cost(i)
         /\ scores[i] = Positive(ranked[i].score)
BY DEF Inputs, Shape, cost, Positive, tokens, costs, scores

(* The tokens of a set are a sum.                                          *)
LEMMA TokensAreTotal ==
  ASSUME Inputs, NEW S \in SUBSET Positions
  PROVE  Tokens(S) = Total(tokens, S)
<1> DEFINE Body(g) == [s \in SUBSET S |-> IF s = {} THEN 0 ELSE ranked[any(s)].tokens + g[s \ {any(s)}]]
<1>1. PICK g : g = CHOOSE f : f = Body(f)
  OBVIOUS
<1>2. Tokens(S) = g[S]
  BY <1>1 DEF Tokens, MapThenSumSet, MapThenFoldSet, any
<1>3. ASSUME NEW f
      PROVE  f = Body(f) <=> Sums(f, tokens, SUBSET S)
  <2>1. ASSUME NEW s \in SUBSET S, s # {}
        PROVE  ranked[any(s)].tokens = tokens[any(s)]
    <3>1. any(s) \in Positions
      BY <2>1 DEF any
    <3>2. QED
      BY <3>1 DEF tokens
  <2>2. QED
    BY <2>1 DEF Sums
<1>4. IsFiniteSet(S)
  BY PositionsAreFinite
<1>5. PICK h : Sums(h, tokens, SUBSET S)
  BY <1>4, SumsExist
<1>6. Sums(g, tokens, SUBSET S)
  <2> HIDE DEF Body
  <2>1. h = Body(h)
    BY <1>3, <1>5
  <2>2. g = Body(g)
    BY <1>1, <2>1
  <2>3. QED
    BY <1>3, <2>2
<1>7. QED
  BY <1>2, <1>4, <1>6, SumIsTotal

(* The cost of a set is a sum.                                             *)
LEMMA CostsAreTotal ==
  ASSUME Inputs, NEW S \in SUBSET Positions
  PROVE  Cost(S) = Total(costs, S)
<1> DEFINE Body(g) == [s \in SUBSET S |-> IF s = {} THEN 0 ELSE cost(any(s)) + g[s \ {any(s)}]]
<1>1. PICK g : g = CHOOSE f : f = Body(f)
  OBVIOUS
<1>2. Cost(S) = g[S]
  BY <1>1 DEF Cost, MapThenSumSet, MapThenFoldSet, any
<1>3. ASSUME NEW f
      PROVE  f = Body(f) <=> Sums(f, costs, SUBSET S)
  <2>1. ASSUME NEW s \in SUBSET S, s # {}
        PROVE  cost(any(s)) = costs[any(s)]
    <3>1. any(s) \in Positions
      BY <2>1 DEF any
    <3>2. QED
      BY <3>1 DEF costs
  <2>2. QED
    BY <2>1 DEF Sums
<1>4. IsFiniteSet(S)
  BY PositionsAreFinite
<1>5. PICK h : Sums(h, costs, SUBSET S)
  BY <1>4, SumsExist
<1>6. Sums(g, costs, SUBSET S)
  <2> HIDE DEF Body
  <2>1. h = Body(h)
    BY <1>3, <1>5
  <2>2. g = Body(g)
    BY <1>1, <2>1
  <2>3. QED
    BY <1>3, <2>2
<1>7. QED
  BY <1>2, <1>4, <1>6, SumIsTotal

(* The utility of a set is a sum and what it covers.                       *)
LEMMA UtilityIsTotal ==
  ASSUME Inputs, NEW S \in SUBSET Positions
  PROVE  Utility(S) = QuerySize * Total(scores, S) + Unit * Cardinality(Evidence(S))
<1> DEFINE Body(g) == [s \in SUBSET S |-> IF s = {} THEN 0 ELSE Positive(ranked[any(s)].score) + g[s \ {any(s)}]]
<1>1. PICK g : g = CHOOSE f : f = Body(f)
  OBVIOUS
<1>2. Utility(S) = QuerySize * g[S] + Unit * Cardinality(Evidence(S))
  BY <1>1 DEF Utility, MapThenSumSet, MapThenFoldSet, any
<1>3. ASSUME NEW f
      PROVE  f = Body(f) <=> Sums(f, scores, SUBSET S)
  <2>1. ASSUME NEW s \in SUBSET S, s # {}
        PROVE  Positive(ranked[any(s)].score) = scores[any(s)]
    <3>1. any(s) \in Positions
      BY <2>1 DEF any
    <3>2. QED
      BY <3>1 DEF scores
  <2>2. QED
    BY <2>1 DEF Sums
<1>4. IsFiniteSet(S)
  BY PositionsAreFinite
<1>5. PICK h : Sums(h, scores, SUBSET S)
  BY <1>4, SumsExist
<1>6. Sums(g, scores, SUBSET S)
  <2> HIDE DEF Body
  <2>1. h = Body(h)
    BY <1>3, <1>5
  <2>2. g = Body(g)
    BY <1>1, <2>1
  <2>3. QED
    BY <1>3, <2>2
<1>7. QED
  BY <1>2, <1>4, <1>6, SumIsTotal

(* The factors that make gains integers are positive.                      *)
LEMMA SizesArePositive == QuerySize \in Nat /\ QuerySize >= 1 /\ Unit \in Nat
<1>1. Cardinality(Query) \in Nat /\ (Query # {} => Cardinality(Query) # 0)
  BY PackingAssumption, FS_CardinalityType, FS_EmptySet
<1>2. QED
  BY <1>1, PackingAssumption DEF QuerySize

(* Sets of features are finite; more of them are no fewer.                 *)
LEMMA FeaturesAreFinite ==
  ASSUME NEW E \in SUBSET Query
  PROVE  /\ IsFiniteSet(E) /\ Cardinality(E) \in Nat
         /\ \A F \in SUBSET E : Cardinality(F) <= Cardinality(E)
BY PackingAssumption, FS_Subset, FS_CardinalityType

(* The evidence of a set is of the query, and grows with the set.          *)
LEMMA EvidenceOf ==
  ASSUME Inputs, NEW S \in SUBSET Positions
  PROVE  /\ Evidence(S) \in SUBSET Query
         /\ \A T \in SUBSET S : Evidence(T) \subseteq Evidence(S)
         /\ \A i \in Positions : Evidence(S \cup {i}) = Evidence(S) \cup ranked[i].evidence
<1>1. \A i \in Positions : ranked[i].evidence \subseteq Query
  BY ShapeTypes
<1>2. QED
  BY <1>1 DEF Evidence

(* A gain is no less than the relevance in it.                             *)
LEMMA GainType ==
  ASSUME Inputs, NEW i \in Positions, NEW seen
  PROVE  /\ gain(i, seen) \in Nat
         /\ gain(i, seen) >= QuerySize * Positive(ranked[i].score)
<1>1. ranked[i].evidence \ seen \in SUBSET Query /\ Positive(ranked[i].score) \in Nat
  BY ShapeTypes
<1>2. Cardinality(ranked[i].evidence \ seen) \in Nat
  BY <1>1, FeaturesAreFinite
<1>3. QED
  BY <1>1, <1>2, SizesArePositive DEF gain

(* The more is covered, the less an item adds.                             *)
LEMMA GainShrinks ==
  ASSUME Inputs, NEW i \in Positions, NEW seen, NEW more, seen \subseteq more
  PROVE  gain(i, more) <= gain(i, seen)
<1>1. /\ ranked[i].evidence \ seen \in SUBSET Query /\ Positive(ranked[i].score) \in Nat
      /\ ranked[i].evidence \ more \in SUBSET (ranked[i].evidence \ seen)
      /\ ranked[i].evidence \ more \in SUBSET Query
  BY ShapeTypes
<1>2. PICK few : few = Cardinality(ranked[i].evidence \ more)
  OBVIOUS
<1>3. PICK many : many = Cardinality(ranked[i].evidence \ seen)
  OBVIOUS
<1>4. few \in Nat /\ many \in Nat /\ few <= many
  BY <1>1, <1>2, <1>3, FeaturesAreFinite
<1>5. Unit * few <= Unit * many
  BY <1>4, SizesArePositive
<1>6. QED
  BY <1>1, <1>2, <1>3, <1>4, <1>5, SizesArePositive DEF gain

(* A utility is a natural number.                                          *)
LEMMA UtilityType ==
  ASSUME Inputs, NEW S \in SUBSET Positions
  PROVE  Utility(S) \in Nat
<1>1. Total(scores, S) \in Nat
  BY PositionsAreFinite, ShapeTypes, TotalMonotone
<1>2. Cardinality(Evidence(S)) \in Nat
  BY EvidenceOf, FeaturesAreFinite
<1>3. QED
  BY <1>1, <1>2, UtilityIsTotal, SizesArePositive

(* Costs and tokens of sets: their types, and how they grow and shrink     *)
(* with the set.                                                           *)
LEMMA CostType ==
  ASSUME Inputs, NEW S \in SUBSET Positions
  PROVE  /\ Cost(S) \in Nat /\ Tokens(S) \in Nat /\ Tokens(S) <= Cost(S)
         /\ \A T \in SUBSET S : Cost(T) <= Cost(S) /\ Tokens(T) <= Tokens(S)
         /\ \A i \in Positions \ S : /\ Cost(S \cup {i}) = Cost(S) + cost(i)
                                     /\ Tokens(S \cup {i}) = Tokens(S) + ranked[i].tokens
         /\ \A i \in S : cost(i) <= Cost(S) /\ Cost(S \ {i}) = Cost(S) - cost(i)
<1>1. \A i \in Positions : costs[i] \in Nat /\ tokens[i] \in Nat /\ tokens[i] <= costs[i]
  BY ShapeTypes
<1>2. \A T \in SUBSET S : T \in SUBSET Positions
  OBVIOUS
<1>3. \A T \in SUBSET S : Total(costs, T) <= Total(costs, S) /\ Total(tokens, T) <= Total(tokens, S)
  BY <1>1, PositionsAreFinite, TotalMonotone
<1>4. Total(costs, S) \in Nat /\ Total(tokens, S) \in Nat
  BY <1>1, PositionsAreFinite, TotalMonotone
<1>5. Total(tokens, S) <= Total(costs, S)
  <2>1. 1 * Total(tokens, S) <= 1 * Total(costs, S)
    <3>1. \A i \in S : tokens[i] \in Int /\ costs[i] \in Int /\ 1 * tokens[i] <= 1 * costs[i]
      BY <1>1
    <3>2. QED
      BY <3>1, PositionsAreFinite, TotalScaled
  <2>2. QED
    BY <1>4, <2>1
<1>6. ASSUME NEW i \in Positions \ S
      PROVE  /\ Cost(S \cup {i}) = Cost(S) + cost(i)
             /\ Tokens(S \cup {i}) = Tokens(S) + ranked[i].tokens
  <2>1. IsFiniteSet(S) /\ i \notin S /\ S \cup {i} \in SUBSET Positions
    BY PositionsAreFinite
  <2>2. \A j \in S \cup {i} : costs[j] \in Int /\ tokens[j] \in Int
    BY <1>1
  <2>3. /\ Total(costs, S \cup {i}) = costs[i] + Total(costs, S)
        /\ Total(tokens, S \cup {i}) = tokens[i] + Total(tokens, S)
    BY <2>1, <2>2, TotalAdd
  <2>4. costs[i] = cost(i) /\ tokens[i] = ranked[i].tokens
    BY ShapeTypes
  <2>5. QED
    BY <1>1, <1>4, <2>1, <2>3, <2>4, CostsAreTotal, TokensAreTotal
<1>7. ASSUME NEW i \in S
      PROVE  cost(i) <= Cost(S) /\ Cost(S \ {i}) = Cost(S) - cost(i)
  <2>1. Total(costs, S) = costs[i] + Total(costs, S \ {i})
    BY <1>1, PositionsAreFinite, TotalRemove
  <2>2. S \ {i} \in SUBSET Positions /\ Total(costs, S \ {i}) \in Nat
    BY <1>1, PositionsAreFinite, TotalMonotone
  <2>3. costs[i] = cost(i) /\ costs[i] \in Nat
    BY ShapeTypes
  <2>4. QED
    BY <1>4, <2>1, <2>2, <2>3, CostsAreTotal
<1>8. QED
  BY <1>2, <1>3, <1>4, <1>5, <1>6, <1>7, CostsAreTotal, TokensAreTotal

(* What an item adds to a pack is its gain.                                *)
LEMMA UtilityAdds ==
  ASSUME Inputs, NEW S \in SUBSET Positions, NEW i \in Positions, i \notin S
  PROVE  Utility(S \cup {i}) = Utility(S) + gain(i, Evidence(S))
<1>1. Total(scores, S \cup {i}) = Positive(ranked[i].score) + Total(scores, S)
  <2>1. \A j \in S \cup {i} : scores[j] \in Int
    BY ShapeTypes
  <2>2. scores[i] = Positive(ranked[i].score)
    BY ShapeTypes
  <2>3. QED
    BY <2>1, <2>2, PositionsAreFinite, TotalAdd
<1> DEFINE old == Evidence(S)
           new == ranked[i].evidence \ old
<1>2. /\ old \in SUBSET Query /\ new \in SUBSET Query
      /\ Evidence(S \cup {i}) = old \cup new
  <2>1. old \in SUBSET Query /\ Evidence(S \cup {i}) = old \cup ranked[i].evidence
    BY EvidenceOf
  <2>2. ranked[i].evidence \subseteq Query
    BY ShapeTypes
  <2> HIDE DEF old
  <2>3. QED
    BY <2>1, <2>2
<1>3. Cardinality(old \cup new) = Cardinality(old) + Cardinality(new)
  <2>1. IsFiniteSet(old) /\ IsFiniteSet(new) /\ old \cap new = {}
    BY <1>2, FeaturesAreFinite
  <2>2. Cardinality(old \cap new) = 0
    BY <2>1, FS_EmptySet
  <2>3. Cardinality(old) \in Nat /\ Cardinality(new) \in Nat
    BY <2>1, FS_CardinalityType
  <2>4. Cardinality(old \cup new) = Cardinality(old) + Cardinality(new) - Cardinality(old \cap new)
    <3> HIDE DEF old, new
    <3>1. QED
      BY <2>1, FS_Union
  <2>5. QED
    BY <2>2, <2>3, <2>4
<1>4. /\ Cardinality(old) \in Nat /\ Cardinality(new) \in Nat
      /\ Total(scores, S) \in Nat /\ Positive(ranked[i].score) \in Nat
  <2>1. \A j \in S : scores[j] \in Nat
    BY ShapeTypes
  <2>2. Total(scores, S) \in Nat
    BY <2>1, PositionsAreFinite, TotalMonotone
  <2>3. Cardinality(old) \in Nat /\ Cardinality(new) \in Nat
    <3> HIDE DEF old, new
    <3>1. QED
      BY <1>2, FeaturesAreFinite
  <2>4. QED
    BY <2>2, <2>3, ShapeTypes
<1>5. Utility(S \cup {i}) = QuerySize * (Positive(ranked[i].score) + Total(scores, S))
                             + Unit * (Cardinality(old) + Cardinality(new))
  <2>1. S \cup {i} \in SUBSET Positions
    OBVIOUS
  <2>2. Utility(S \cup {i}) = QuerySize * Total(scores, S \cup {i})
                               + Unit * Cardinality(Evidence(S \cup {i}))
    BY <2>1, UtilityIsTotal
  <2> HIDE DEF old, new
  <2>3. QED
    BY <1>1, <1>2, <1>3, <2>2
<1>6. /\ Utility(S) = QuerySize * Total(scores, S) + Unit * Cardinality(old)
      /\ gain(i, Evidence(S)) = QuerySize * Positive(ranked[i].score) + Unit * Cardinality(new)
  BY UtilityIsTotal DEF gain
<1>7. QED
  <2> HIDE DEF old, new
  <2>1. QED
    BY <1>4, <1>5, <1>6, SizesArePositive

(* What the items gain beside what is covered.                             *)
gains(seen) == [i \in Positions |-> gain(i, seen)]

(* A pack is worth no less with more in it, and no more than what each     *)
(* addition gains by itself.                                               *)
LEMMA UtilityOfMore ==
  ASSUME Inputs, NEW C \in SUBSET Positions, NEW R \in SUBSET (Positions \ C)
  PROVE  /\ Utility(C) <= Utility(C \cup R)
         /\ Utility(C \cup R) <= Utility(C) + Total(gains(Evidence(C)), R)
<1> DEFINE weight == gains(Evidence(C))
           Holds(U) == /\ Utility(C) <= Utility(C \cup U)
                       /\ Utility(C \cup U) <= Utility(C) + Total(weight, U)
           Good == {U \in SUBSET R : Holds(U)}
<1>1. \A i \in Positions : weight[i] = gain(i, Evidence(C)) /\ weight[i] \in Nat
  BY GainType DEF gains
<1>2. IsFiniteSet(R)
  BY PositionsAreFinite
<1> HIDE DEF weight
<1>3. ASSUME NEW U \in SUBSET R, \A V \in SUBSET U : V # U => V \in Good
      PROVE  U \in Good
  <2>1. CASE U = {}
    <3>1. Utility(C \cup U) = Utility(C)
      <4>1. C \cup U = C
        BY <2>1
      <4>2. QED
        BY <4>1
    <3>2. Total(weight, U) = 0 /\ Utility(C) \in Nat
      BY <2>1, TotalEmpty, UtilityType
    <3>3. QED
      BY <3>1, <3>2
  <2>2. CASE U # {}
    <3>1. PICK x \in U : TRUE
      BY <2>2
    <3>2. PICK V : V = U \ {x}
      OBVIOUS
    <3>3. V \in Good
      BY <1>3, <3>2
    <3>4. /\ C \cup V \in SUBSET Positions /\ x \in Positions /\ x \notin C \cup V
          /\ C \cup U = (C \cup V) \cup {x} /\ C \in SUBSET (C \cup V) /\ U \in SUBSET Positions
          /\ V \in SUBSET Positions
      BY <3>2
    <3>5. Utility(C \cup U) = Utility(C \cup V) + gain(x, Evidence(C \cup V))
      BY <3>4, UtilityAdds
    <3>6. gain(x, Evidence(C \cup V)) \in Nat /\ gain(x, Evidence(C \cup V)) <= weight[x]
      <4>1. Evidence(C) \subseteq Evidence(C \cup V)
        BY <3>4, EvidenceOf
      <4>2. gain(x, Evidence(C \cup V)) <= gain(x, Evidence(C))
        BY <3>4, <4>1, GainShrinks
      <4>3. QED
        BY <1>1, <3>4, <4>2, GainType
    <3>7. Total(weight, U) = weight[x] + Total(weight, V)
      <4>1. IsFiniteSet(U) /\ \A u \in U : weight[u] \in Int
        BY <1>1, <3>4, PositionsAreFinite
      <4>2. QED
        BY <3>2, <4>1, TotalRemove
    <3>8. Total(weight, V) \in Nat /\ Utility(C) \in Nat /\ Utility(C \cup V) \in Nat /\ weight[x] \in Nat
      BY <1>1, <3>4, PositionsAreFinite, TotalMonotone, UtilityType
    <3>9. QED
      BY <3>3, <3>5, <3>6, <3>7, <3>8
  <2>3. QED
    BY <2>1, <2>2
<1>4. SUBSET R \subseteq Good
  <2> HIDE DEF Good
  <2>1. QED
    BY <1>2, <1>3, InductionOnSubsets
<1>5. QED
  BY <1>4 DEF weight

(* A single item is worth what it gains.                                   *)
LEMMA UtilityOfOne ==
  ASSUME Inputs, NEW i \in Positions
  PROVE  Utility({i}) = gain(i, {}) /\ Evidence({i}) = ranked[i].evidence /\ Cost({i}) = cost(i)
<1>1. Evidence({}) = {} /\ Evidence({i}) = ranked[i].evidence
  BY DEF Evidence
<1>2. Utility({}) = 0
  <2>1. Total(scores, {}) = 0 /\ Cardinality(Evidence({})) = 0
    BY <1>1, TotalEmpty, FS_EmptySet
  <2>2. Utility({}) = QuerySize * Total(scores, {}) + Unit * Cardinality(Evidence({}))
    BY UtilityIsTotal
  <2>3. QED
    BY <2>1, <2>2, SizesArePositive
<1>3. Utility({} \cup {i}) = Utility({}) + gain(i, Evidence({}))
  BY UtilityAdds
<1>4. gain(i, {}) \in Nat /\ {} \cup {i} = {i} /\ cost(i) \in Nat
  BY GainType, ShapeTypes
<1>5. Cost({}) = 0
  BY CostsAreTotal, TotalEmpty
<1>6. Cost({} \cup {i}) = Cost({}) + cost(i)
  BY CostType
<1>7. QED
  BY <1>1, <1>2, <1>3, <1>4, <1>5, <1>6

(* Cross-multiplied comparisons of quotients are transitive.               *)
LEMMA QuotientsCompare ==
  ASSUME NEW a \in Nat, NEW b \in Nat, NEW c \in Nat,
         NEW x \in Nat \ {0}, NEW y \in Nat \ {0}, NEW z \in Nat \ {0},
         a * y >= b * x, b * z >= c * y
  PROVE  /\ a * z >= c * x
         /\ a * y > b * x \/ b * z > c * y => a * z > c * x
<1>1. PICK p \in Nat, q \in Nat : p = a * z /\ q = c * x
  OBVIOUS
<1>2. p * y = (a * y) * z /\ (b * x) * z = (b * z) * x /\ q * y = (c * y) * x
  BY <1>1
<1>3. (a * y) * z >= (b * x) * z /\ (a * y > b * x => (a * y) * z > (b * x) * z)
  <2>1. PICK m \in Nat, n \in Nat : m = a * y /\ n = b * x
    OBVIOUS
  <2>2. m >= n
    BY <2>1
  <2>3. m * z >= n * z /\ (m > n => m * z > n * z)
    BY <2>2
  <2>4. QED
    BY <2>1, <2>3
<1>4. (b * z) * x >= (c * y) * x /\ (b * z > c * y => (b * z) * x > (c * y) * x)
  <2>1. PICK m \in Nat, n \in Nat : m = b * z /\ n = c * y
    OBVIOUS
  <2>2. m >= n
    BY <2>1
  <2>3. m * x >= n * x /\ (m > n => m * x > n * x)
    BY <2>2
  <2>4. QED
    BY <2>1, <2>3
<1>5. p * y >= q * y /\ (a * y > b * x \/ b * z > c * y => p * y > q * y)
  BY <1>2, <1>3, <1>4
<1>6. (p * y >= q * y => p >= q) /\ (p * y > q * y => p > q)
  <2>1. p < q => p * y < q * y
    OBVIOUS
  <2>2. p <= q => p * y <= q * y
    OBVIOUS
  <2>3. QED
    BY <2>1, <2>2
<1>7. QED
  BY <1>1, <1>5, <1>6

(* Where an item that gains something still fits, so does a preferred one. *)
LEMMA BestExists ==
  ASSUME Inputs, NEW f \in feasible, gain(f, covered) > 0
  PROVE  \E i \in Best : gain(i, covered) > 0
<1> DEFINE R == {ij \in Positions \X Positions : preferred(ij[1], ij[2])}
<1>1. feasible \subseteq Positions /\ IsFiniteSet(feasible)
  <2>1. feasible \in SUBSET Positions
    BY DEF feasible, Eligible
  <2>2. QED
    BY <2>1, PositionsAreFinite
<1>2. \A i \in Positions : gain(i, covered) \in Nat /\ cost(i) \in Nat \ {0} /\ key[i] \in Nat
  BY GainType, ShapeTypes DEF Inputs
<1>3. \A i, j \in feasible : preferred(i, j) \/ preferred(j, i)
  <2>1. SUFFICES ASSUME NEW i \in feasible, NEW j \in feasible
                 PROVE  preferred(i, j) \/ preferred(j, i)
    OBVIOUS
  <2>2. PICK a \in Nat, b \in Nat, m \in Nat, n \in Nat :
          a = gain(i, covered) /\ b = gain(j, covered) /\ m = a * cost(j) /\ n = b * cost(i)
    BY <1>1, <1>2
  <2>3. key[i] \in Nat /\ key[j] \in Nat
    BY <1>1, <1>2
  <2>4. QED
    BY <2>2, <2>3 DEF preferred
<1>4. \A i, j, k \in feasible : preferred(i, j) /\ preferred(j, k) => preferred(i, k)
  <2>1. SUFFICES ASSUME NEW i \in feasible, NEW j \in feasible, NEW k \in feasible,
                        preferred(i, j), preferred(j, k)
                 PROVE  preferred(i, k)
    OBVIOUS
  <2>2. PICK a \in Nat, b \in Nat, c \in Nat, p \in Nat \ {0}, q \in Nat \ {0}, r \in Nat \ {0} :
          /\ a = gain(i, covered) /\ b = gain(j, covered) /\ c = gain(k, covered)
          /\ p = cost(i) /\ q = cost(j) /\ r = cost(k)
    BY <1>1, <1>2
  <2>3. key[i] \in Nat /\ key[j] \in Nat /\ key[k] \in Nat
    BY <1>1, <1>2
  <2>4. a * q >= b * p /\ b * r >= c * q
    BY <2>1, <2>2 DEF preferred
  <2>5. a * r >= c * p /\ (a * q > b * p \/ b * r > c * q => a * r > c * p)
    BY <2>4, QuotientsCompare
  <2>6. CASE a * q > b * p \/ b * r > c * q
    BY <2>2, <2>5, <2>6 DEF preferred
  <2>7. CASE a * q = b * p /\ b * r = c * q
    <3>1. /\ a > b \/ (a = b /\ key[i] >= key[j])
          /\ b > c \/ (b = c /\ key[j] >= key[k])
      BY <2>1, <2>2, <2>7 DEF preferred
    <3>2. a > c \/ (a = c /\ key[i] >= key[k])
      BY <2>3, <3>1
    <3>3. a * r > c * p \/ a * r = c * p
      BY <2>5
    <3>4. QED
      BY <2>2, <3>2, <3>3 DEF preferred
  <2>8. QED
    BY <2>4, <2>6, <2>7
<1>5. \E i \in feasible : \A j \in feasible : <<i, j>> \in R
  <2>1. /\ \A i, j \in feasible : <<i, j>> \in R \/ <<j, i>> \in R
        /\ \A i, j, k \in feasible : <<i, j>> \in R /\ <<j, k>> \in R => <<i, k>> \in R
    BY <1>1, <1>3, <1>4
  <2> HIDE DEF R
  <2>2. QED
    BY <1>1, <2>1, GreatestExists
<1>6. PICK i \in Best : TRUE
  BY <1>1, <1>5 DEF Best
<1>7. preferred(i, f) /\ i \in feasible
  BY <1>6 DEF Best
<1>8. PICK a \in Nat, b \in Nat, p \in Nat \ {0}, q \in Nat \ {0} :
        a = gain(i, covered) /\ b = gain(f, covered) /\ p = cost(i) /\ q = cost(f)
  BY <1>1, <1>2, <1>7
<1>9. a * q >= b * p /\ b > 0
  BY <1>7, <1>8 DEF preferred
<1>10. b * p > 0
  BY <1>8, <1>9
<1>11. a > 0
  BY <1>8, <1>9, <1>10
<1>12. QED
  BY <1>6, <1>8, <1>11

-----------------------------------------------------------------------------
(* What pack charges, and what the answer holds, stays within the budget.  *)
Books ==
  /\ phase \in {"pack", "fill", "done"}
  /\ chosen \subseteq Eligible
  /\ covered = Evidence(chosen) /\ spent = Cost(chosen) /\ spent <= budget
  /\ at \in 1..Size + 1
  /\ assembled \subseteq Eligible /\ \A i \in assembled : i < at
  /\ tokens_used = Tokens(assembled) /\ tokens_used <= budget

(* Packing comes before filling, and filling by rank does without it.      *)
Phases ==
  /\ phase = "pack" => selection = "coverage" /\ ~replaced /\ at = 1 /\ assembled = {}
  /\ phase = "done" => at = Size + 1

(* The filling has what was packed of the candidates that it passed ...    *)
InStep ==
  phase # "pack" /\ selection = "coverage" /\ OneReading => assembled = {i \in chosen : i < at}

(* ... or what had room.                                                   *)
RankFull ==
  selection = "rank" =>
    \A i \in Eligible \ assembled : i < at => Tokens(assembled) + ranked[i].tokens > budget

(* Packing ended with no room for an item of positive score.               *)
PackFull ==
  phase # "pack" /\ selection = "coverage" /\ ~replaced =>
    \A i \in Eligible \ chosen : ranked[i].score > 0 => Cost(chosen) + cost(i) > budget

(* All of S still fits, item by item, and none of it is denser than the    *)
(* pack C as a whole; or S is worth no more than C twice and one item.     *)
WithinReach(S, C) ==
  \A j \in S \ C : /\ cost(j) + Cost(C) <= budget
                   /\ gain(j, Evidence(C)) * Cost(C) <= Utility(C) * cost(j)

(* S is worth no more than C twice and a single item.                      *)
Bounded(S, C) == \E o \in singletons : Utility(S) <= 2 * Utility(C) + gain(o, {})

(* Every selection that the budget allows is one or the other, all along.  *)
Rivals ==
  phase = "pack" =>
    \A S \in SUBSET Eligible : Cost(S) <= budget => WithinReach(S, chosen) \/ Bounded(S, chosen)

(* The inductive invariant of packing and filling.                         *)
PackInv == Inputs /\ Books /\ Phases /\ InStep /\ RankFull /\ PackFull /\ Rivals /\ ThirdOfOptimum

(* The eligible items are some of the positions.                           *)
LEMMA EligiblePositions == Eligible \in SUBSET Positions /\ SUBSET Eligible \subseteq SUBSET Positions
BY DEF Eligible

(* A rival is worth no more than a pack and what its other items gain.     *)
LEMMA RivalBound ==
  ASSUME Inputs, NEW S \in SUBSET Positions, NEW C \in SUBSET Positions
  PROVE  Utility(S) <= Utility(C) + Total(gains(Evidence(C)), S \ C)
<1>1. C \ S \in SUBSET (Positions \ S) /\ S \ C \in SUBSET (Positions \ C)
  OBVIOUS
<1>2. Utility(S) <= Utility(S \cup (C \ S))
  BY <1>1, UtilityOfMore
<1>3. Utility(C \cup (S \ C)) <= Utility(C) + Total(gains(Evidence(C)), S \ C)
  BY <1>1, UtilityOfMore
<1>4. S \cup (C \ S) = C \cup (S \ C)
  OBVIOUS
<1>5. PICK W \in SUBSET Positions : W = C \cup (S \ C)
  OBVIOUS
<1>6. /\ Utility(S) \in Nat /\ Utility(C) \in Nat /\ Utility(W) \in Nat
      /\ Total(gains(Evidence(C)), S \ C) \in Nat
  <2>1. \A j \in S \ C : gains(Evidence(C))[j] \in Nat
    BY GainType DEF gains
  <2>2. Total(gains(Evidence(C)), S \ C) \in Nat
    BY <2>1, PositionsAreFinite, TotalMonotone
  <2>3. QED
    BY <2>2, UtilityType
<1>7. Utility(S) <= Utility(W) /\ Utility(W) <= Utility(C) + Total(gains(Evidence(C)), S \ C)
  BY <1>2, <1>3, <1>4, <1>5
<1>8. QED
  BY <1>6, <1>7

(* Adding two proportions: both at most u / c, so is their sum.            *)
LEMMA ProportionsAdd ==
  ASSUME NEW g \in Nat, NEW h \in Nat, NEW u \in Nat, NEW c \in Nat, NEW k \in Nat,
         NEW d \in Nat \ {0}, NEW e \in Nat \ {0},
         h <= g, g * c <= u * d, k * d >= g * e
  PROVE  h * (c + e) <= (u + k) * d
<1>1. PICK gc \in Nat, ud \in Nat, kd \in Nat, ge \in Nat, hc \in Nat, he \in Nat :
        /\ gc = g * c /\ ud = u * d /\ kd = k * d /\ ge = g * e /\ hc = h * c /\ he = h * e
  OBVIOUS
<1>2. hc <= gc /\ he <= ge
  BY <1>1
<1>3. h * (c + e) = hc + he /\ (u + k) * d = ud + kd
  BY <1>1
<1>4. gc <= ud /\ kd >= ge
  BY <1>1
<1>5. QED
  BY <1>2, <1>3, <1>4

(* Packing a best item keeps every rival one or the other: where a rival   *)
(* has an item that no longer fits, the rest of it costs less than the     *)
(* pack and, being no denser, gains less than the pack is worth.           *)
LEMMA RivalsStay ==
  ASSUME Inputs, chosen \in SUBSET Eligible, covered = Evidence(chosen), spent = Cost(chosen),
         NEW i \in Best, NEW S \in SUBSET Eligible, Cost(S) <= budget,
         WithinReach(S, chosen) \/ Bounded(S, chosen)
  PROVE  WithinReach(S, chosen \cup {i}) \/ Bounded(S, chosen \cup {i})
<1>1. i \in feasible /\ i \in Positions /\ i \notin chosen /\ chosen \in SUBSET Positions
      /\ S \in SUBSET Positions
  BY DEF Best, feasible, Eligible
<1>2. PICK D \in SUBSET Positions : D = chosen \cup {i}
  BY <1>1
<1>3. /\ Utility(D) = Utility(chosen) + gain(i, covered)
      /\ Cost(D) = spent + cost(i)
      /\ covered \subseteq Evidence(D)
  <2>1. Utility(chosen \cup {i}) = Utility(chosen) + gain(i, Evidence(chosen))
    BY <1>1, UtilityAdds
  <2>2. Cost(chosen \cup {i}) = Cost(chosen) + cost(i)
    BY <1>1, CostType
  <2>3. Evidence(chosen \cup {i}) = Evidence(chosen) \cup ranked[i].evidence
    BY <1>1, EvidenceOf
  <2>4. QED
    BY <1>2, <2>1, <2>2, <2>3
<1>4. /\ Utility(D) \in Nat /\ Utility(chosen) \in Nat /\ Utility(S) \in Nat
      /\ Cost(D) \in Nat /\ spent \in Nat /\ Cost(S) \in Nat
      /\ cost(i) \in Nat /\ cost(i) >= 1 /\ gain(i, covered) \in Nat /\ budget \in Nat
  BY <1>1, UtilityType, CostType, ShapeTypes, GainType DEF Inputs
<1>5. \A j \in Positions : /\ gain(j, covered) \in Nat /\ gain(j, Evidence(D)) \in Nat
                           /\ gain(j, {}) \in Nat
                           /\ gain(j, Evidence(D)) <= gain(j, covered)
                           /\ gain(j, Evidence(D)) <= gain(j, {})
                           /\ cost(j) \in Nat /\ cost(j) >= 1
  BY <1>3, GainType, GainShrinks, ShapeTypes
<1>6. CASE Bounded(S, chosen)
  <2>1. PICK o \in singletons : Utility(S) <= 2 * Utility(chosen) + gain(o, {})
    BY <1>6 DEF Bounded
  <2>2. o \in Positions
    BY DEF singletons, Eligible
  <2>3. Utility(S) <= 2 * Utility(D) + gain(o, {})
    BY <1>3, <1>4, <1>5, <2>1, <2>2
  <2>4. QED
    BY <1>2, <2>3 DEF Bounded
<1>7. CASE WithinReach(S, chosen)
  <2>1. ASSUME NEW j \in S \ D
        PROVE  gain(j, Evidence(D)) * Cost(D) <= Utility(D) * cost(j)
    <3>1. j \in feasible /\ j \in Positions
      <4>1. j \in Eligible \ chosen /\ cost(j) + spent <= budget
        BY <1>2, <1>7 DEF WithinReach
      <4>2. QED
        BY <4>1, EligiblePositions DEF feasible
    <3>2. preferred(i, j)
      BY <3>1 DEF Best
    <3>3. PICK g, h, u, c, k, d, e :
            /\ g = gain(j, covered) /\ h = gain(j, Evidence(D)) /\ u = Utility(chosen)
            /\ c = spent /\ k = gain(i, covered) /\ d = cost(j) /\ e = cost(i)
      OBVIOUS
    <3> g \in Nat /\ h \in Nat /\ u \in Nat /\ c \in Nat /\ k \in Nat
        /\ d \in Nat \ {0} /\ e \in Nat \ {0}
      BY <1>4, <1>5, <3>1, <3>3
    <3>4. h <= g
      BY <1>5, <3>1, <3>3
    <3>5. g * c <= u * d
      BY <1>2, <1>7, <3>3 DEF WithinReach
    <3>6. k * d >= g * e
      BY <3>2, <3>3 DEF preferred
    <3>7. h * (c + e) <= (u + k) * d
      BY <3>4, <3>5, <3>6, ProportionsAdd
    <3>8. QED
      BY <1>3, <3>3, <3>7
  <2>2. CASE \A j \in S \ D : cost(j) + Cost(D) <= budget
    BY <1>2, <2>1, <2>2 DEF WithinReach
  <2>3. CASE \E j \in S \ D : ~ (cost(j) + Cost(D) <= budget)
    <3>1. PICK o \in S \ D : ~ (cost(o) + Cost(D) <= budget)
      BY <2>3
    <3>2. PICK R \in SUBSET Positions : R = (S \ D) \ {o}
      BY <1>1
    <3>3. o \in Positions /\ o \in singletons
      <4>1. o \in Eligible /\ o \in S
        OBVIOUS
      <4>2. cost(o) <= Cost(S)
        BY <1>1, <4>1, CostType
      <4>3. QED
        BY <1>1, <1>4, <1>5, <4>1, <4>2 DEF singletons
    <3>4. Cost(R) \in Nat /\ Cost(R) + cost(o) <= Cost(S)
      <4>1. S \ {o} \in SUBSET Positions /\ R \in SUBSET (S \ {o})
        BY <1>1, <3>2
      <4>2. Cost(R) <= Cost(S \ {o})
        BY <4>1, CostType
      <4>3. Cost(S \ {o}) = Cost(S) - cost(o)
        BY <1>1, <3>1, CostType
      <4>4. Cost(R) \in Nat
        BY CostType
      <4>5. QED
        BY <1>4, <1>5, <3>3, <4>2, <4>3, <4>4
    <3>5. Cost(R) < Cost(D)
      BY <1>4, <1>5, <3>1, <3>3, <3>4
    <3> DEFINE weight == gains(Evidence(D))
    <3>6. \A j \in Positions : weight[j] = gain(j, Evidence(D)) /\ weight[j] \in Nat
      BY <1>5 DEF gains
    <3> HIDE DEF weight
    <3>7. Total(weight, R) \in Nat
      BY <3>6, PositionsAreFinite, TotalMonotone
    <3>8. Cost(D) * Total(weight, R) <= Utility(D) * Total(costs, R)
      <4>1. \A j \in R : /\ weight[j] \in Int /\ costs[j] \in Int
                         /\ Cost(D) * weight[j] <= Utility(D) * costs[j]
        <5>1. SUFFICES ASSUME NEW j \in R
                       PROVE  /\ weight[j] \in Int /\ costs[j] \in Int
                              /\ Cost(D) * weight[j] <= Utility(D) * costs[j]
          OBVIOUS
        <5>2. j \in S \ D /\ j \in Positions /\ costs[j] = cost(j)
          BY <3>2, ShapeTypes
        <5>3. weight[j] * Cost(D) <= Utility(D) * cost(j)
          BY <2>1, <3>6, <5>2
        <5>4. weight[j] * Cost(D) = Cost(D) * weight[j]
          BY <1>4, <3>6, <5>2
        <5>5. QED
          BY <1>5, <3>6, <5>2, <5>3, <5>4
      <4>2. IsFiniteSet(R) /\ Cost(D) \in Int /\ Utility(D) \in Int
        BY <1>4, PositionsAreFinite
      <4>3. PICK m, n : m = Cost(D) /\ n = Utility(D)
        OBVIOUS
      <4>4. m * Total(weight, R) <= n * Total(costs, R)
        BY <4>1, <4>2, <4>3, TotalScaled
      <4>5. QED
        BY <4>3, <4>4
    <3>9. Total(weight, R) <= Utility(D)
      <4>1. PICK t \in Nat, c \in Nat, u \in Nat, r \in Nat :
              t = Total(weight, R) /\ c = Cost(D) /\ u = Utility(D) /\ r = Cost(R)
        BY <1>4, <3>4, <3>7
      <4>2. c * t <= u * r /\ r < c
        BY <3>5, <3>8, <4>1, CostsAreTotal
      <4>3. u * r <= u * c
        BY <4>2
      <4>4. u < t => u * c < t * c
        BY <4>2
      <4>5. t * c = c * t
        OBVIOUS
      <4>6. QED
        BY <4>1, <4>2, <4>3, <4>4, <4>5
    <3>10. Utility(S) <= Utility(D) + Total(weight, S \ D)
      BY <1>1, RivalBound DEF weight
    <3>11. Total(weight, S \ D) = weight[o] + Total(weight, R)
      <4>1. IsFiniteSet(S \ D) /\ \A j \in S \ D : weight[j] \in Int
        BY <1>1, <3>6, PositionsAreFinite
      <4>2. QED
        BY <3>1, <3>2, <4>1, TotalRemove
    <3>12. weight[o] <= gain(o, {}) /\ weight[o] \in Nat /\ gain(o, {}) \in Nat
      BY <1>5, <3>3, <3>6
    <3>13. Utility(S) <= 2 * Utility(D) + gain(o, {})
      BY <1>4, <3>7, <3>9, <3>10, <3>11, <3>12
    <3>14. QED
      BY <1>2, <3>3, <3>13 DEF Bounded
  <2>4. QED
    BY <2>2, <2>3
<1>8. QED
  BY <1>6, <1>7

(* At the end no rival is worth more than three times a pack that is worth *)
(* as much as what was chosen and as any single item.                      *)
LEMMA RivalsAtEnd ==
  ASSUME Inputs, chosen \in SUBSET Eligible, covered = Evidence(chosen), spent = Cost(chosen),
         \A i \in Best : gain(i, covered) <= 0,
         NEW S \in SUBSET Eligible, WithinReach(S, chosen) \/ Bounded(S, chosen),
         NEW u \in Nat, u >= Utility(chosen), \A o \in singletons : gain(o, {}) <= u
  PROVE  3 * u >= Utility(S)
<1>1. chosen \in SUBSET Positions /\ S \in SUBSET Positions
  BY EligiblePositions
<1>2. Utility(chosen) \in Nat /\ Utility(S) \in Nat
  BY <1>1, UtilityType
<1>3. CASE Bounded(S, chosen)
  <2>1. PICK o \in singletons : Utility(S) <= 2 * Utility(chosen) + gain(o, {})
    BY <1>3 DEF Bounded
  <2>2. gain(o, {}) \in Nat /\ gain(o, {}) <= u
    BY GainType DEF singletons, Eligible
  <2>3. QED
    BY <1>2, <2>1, <2>2
<1>4. CASE WithinReach(S, chosen)
  <2> DEFINE weight == gains(covered)
  <2>1. \A j \in S \ chosen : weight[j] \in Int /\ 1 * weight[j] <= 0 * weight[j]
    <3>1. SUFFICES ASSUME NEW j \in S \ chosen
                   PROVE  weight[j] \in Int /\ 1 * weight[j] <= 0 * weight[j]
      OBVIOUS
    <3>2. j \in feasible /\ j \in Positions
      <4>1. j \in Eligible \ chosen /\ cost(j) + spent <= budget
        BY <1>4 DEF WithinReach
      <4>2. QED
        BY <4>1, EligiblePositions DEF feasible
    <3>3. weight[j] = gain(j, covered) /\ gain(j, covered) \in Nat
      BY <3>2, GainType DEF gains
    <3>4. gain(j, covered) = 0
      <4>1. gain(j, covered) > 0 => \E i \in Best : gain(i, covered) > 0
        BY <3>2, BestExists
      <4>2. \A i \in Best : gain(i, covered) \in Nat
        BY GainType DEF Best, feasible, Eligible
      <4>3. QED
        BY <3>3, <4>1, <4>2
    <3>5. QED
      BY <3>3, <3>4
  <2> HIDE DEF weight
  <2>2. IsFiniteSet(S \ chosen)
    BY <1>1, PositionsAreFinite
  <2>3. 1 * Total(weight, S \ chosen) <= 0 * Total(weight, S \ chosen)
    BY <2>1, <2>2, TotalScaled
  <2>4. Total(weight, S \ chosen) \in Int
    BY <2>1, <2>2, TotalRemove
  <2>5. Utility(S) <= Utility(chosen) + Total(weight, S \ chosen)
    BY <1>1, RivalBound DEF weight
  <2>6. QED
    BY <1>2, <2>3, <2>4, <2>5
<1>5. QED
  BY <1>3, <1>4

-----------------------------------------------------------------------------
(* The inputs stay, and with them what is computed from them alone.        *)
LEMMA InputsStay ==
  ASSUME UNCHANGED inputs
  PROVE  /\ Eligible' = Eligible /\ singletons' = singletons /\ budget' = budget
         /\ selection' = selection /\ ranked' = ranked
         /\ (OneReading' <=> OneReading) /\ (Inputs' <=> Inputs)
         /\ \A j : cost(j)' = cost(j) /\ gain(j, {})' = gain(j, {})
                   /\ gain(j, Evidence(chosen))' = gain(j, Evidence(chosen'))
         /\ \A S : Cost(S)' = Cost(S) /\ Utility(S)' = Utility(S)
         /\ Cost(chosen)' = Cost(chosen') /\ Utility(chosen)' = Utility(chosen')
         /\ Evidence(chosen)' = Evidence(chosen') /\ Tokens(assembled)' = Tokens(assembled')
<1> USE DEF inputs
<1>1. /\ budget' = budget /\ selection' = selection /\ ranked' = ranked /\ key' = key /\ floor' = floor
  OBVIOUS
<1>2. \A j : cost(j)' = cost(j)
  BY DEF cost
<1>3. Eligible' = Eligible
  BY DEF Eligible
<1>4. singletons' = singletons
  BY <1>1, <1>2, <1>3 DEF singletons
<1>5. (OneReading' <=> OneReading) /\ (Inputs' <=> Inputs)
  BY DEF OneReading, Inputs
<1>6. \A j : gain(j, {})' = gain(j, {})
             /\ gain(j, Evidence(chosen))' = gain(j, Evidence(chosen'))
  BY DEF gain, QuerySize, Positive, Evidence
<1>7. \A S : Cost(S)' = Cost(S)
  BY DEF Cost, MapThenSumSet, MapThenFoldSet, cost
<1>8. \A S : Utility(S)' = Utility(S)
  BY DEF Utility, MapThenSumSet, MapThenFoldSet, Positive, Evidence, QuerySize
<1>9. Cost(chosen)' = Cost(chosen')
  BY DEF Cost, MapThenSumSet, MapThenFoldSet, cost
<1>10. Utility(chosen)' = Utility(chosen')
  BY DEF Utility, MapThenSumSet, MapThenFoldSet, Positive, Evidence, QuerySize
<1>11. Evidence(chosen)' = Evidence(chosen')
  BY DEF Evidence
<1>12. Tokens(assembled)' = Tokens(assembled')
  BY DEF Tokens, MapThenSumSet, MapThenFoldSet
<1>13. QED
  BY <1>1, <1>2, <1>3, <1>4, <1>5, <1>6, <1>7, <1>8, <1>9, <1>10, <1>11, <1>12

(* Before anything is packed every rival is within reach.                  *)
LEMMA PackInitInv == PackInit => PackInv
<1>1. SUFFICES ASSUME PackInit PROVE PackInv
  OBVIOUS
<1>0. /\ ranked \in [Positions -> Shapes] /\ key \in KeyLists
      /\ budget \in Budgets /\ floor \in Floors /\ selection \in Selections
      /\ phase = IF selection = "coverage" THEN "pack" ELSE "fill"
      /\ chosen = {} /\ covered = {} /\ spent = 0 /\ replaced = FALSE
      /\ at = 1 /\ assembled = {} /\ tokens_used = 0
  BY <1>1 DEF PackInit
<1>2. Inputs
  <2>1. ranked \in [Positions -> Shapes] /\ Shapes \subseteq Shape
    BY <1>0, PackingAssumption
  <2>2. ranked \in [Positions -> Shape]
    BY <2>1
  <2>3. key \in [Positions -> Nat] /\ budget \in Nat /\ floor \in Int /\ selection \in {"coverage", "rank"}
    BY <1>0, PackingAssumption
  <2>4. QED
    BY <2>2, <2>3 DEF Inputs
<1>3. Cost({}) = 0 /\ Tokens({}) = 0 /\ Evidence({}) = {} /\ Utility({}) \in Nat
  BY <1>0, <1>2, CostsAreTotal, TokensAreTotal, TotalEmpty, UtilityType DEF Evidence
<1>4. Books
  <2>1. 1 \in 1..Size + 1 /\ 0 <= budget
    BY <1>0, <1>2, PackingAssumption DEF Inputs
  <2>2. phase \in {"pack", "fill", "done"}
    BY <1>0
  <2>3. QED
    BY <1>0, <1>3, <2>1, <2>2 DEF Books
<1>5. Phases /\ InStep /\ RankFull /\ PackFull /\ ThirdOfOptimum
  <2>1. selection = "coverage" \/ selection = "rank"
    BY <1>2 DEF Inputs
  <2>2. \A i \in Eligible : ~ (i < at)
    BY <1>0, PackingAssumption DEF Eligible, Positions
  <2>3. selection = "rank" => phase = "fill"
    BY <1>0
  <2>4. selection = "coverage" => phase = "pack"
    BY <1>0
  <2>5. replaced = FALSE /\ at = 1 /\ assembled = {} /\ phase # "done"
    BY <1>0
  <2> USE DEF Phases, InStep, RankFull, PackFull, ThirdOfOptimum
  <2>6. CASE selection = "coverage"
    BY <2>4, <2>5, <2>6
  <2>7. CASE selection = "rank"
    BY <2>2, <2>3, <2>5, <2>7
  <2>8. QED
    BY <2>1, <2>6, <2>7
<1>6. Rivals
  <2>1. ASSUME NEW S \in SUBSET Eligible, Cost(S) <= budget, NEW j \in S
        PROVE  /\ cost(j) + Cost({}) <= budget
               /\ gain(j, {}) * Cost({}) <= Utility({}) * cost(j)
    <3>1. S \in SUBSET Positions /\ j \in Positions
      BY EligiblePositions
    <3>2. cost(j) <= Cost(S) /\ Cost(S) \in Nat /\ cost(j) \in Nat /\ gain(j, {}) \in Nat /\ budget \in Nat
      BY <1>0, <1>2, <3>1, CostType, ShapeTypes, GainType DEF Inputs
    <3>3. Utility({}) * cost(j) \in Nat
      BY <1>3, <3>2
    <3>4. gain(j, {}) * 0 = 0
      BY <3>2
    <3>5. QED
      BY <1>3, <2>1, <3>2, <3>3, <3>4
  <2>2. \A S \in SUBSET Eligible : Cost(S) <= budget => WithinReach(S, {})
    BY <1>0, <1>3, <2>1 DEF WithinReach
  <2>3. QED
    BY <1>0, <2>2 DEF Rivals
<1>7. QED
  BY <1>0, <1>2, <1>4, <1>5, <1>6 DEF PackInv

(* Packing a best item keeps the books, and the rivals where they are.     *)
LEMMA PackOneKeeps == PackInv /\ pack_one => PackInv'
<1>1. SUFFICES ASSUME PackInv, pack_one PROVE PackInv'
  OBVIOUS
<1> USE DEF PackInv
<1>2. PICK i \in Best : /\ chosen' = chosen \cup {i}
                        /\ covered' = covered \cup ranked[i].evidence
                        /\ spent' = spent + cost(i)
  BY <1>1 DEF pack_one
<1>3. /\ phase = "pack" /\ UNCHANGED inputs /\ phase' = phase /\ replaced' = replaced
      /\ at' = at /\ assembled' = assembled /\ tokens_used' = tokens_used
  BY <1>1 DEF pack_one, fillVars
<1>4. i \in Eligible /\ i \notin chosen /\ cost(i) + spent <= budget /\ i \in Positions
  BY DEF Best, feasible, Eligible
<1>5. /\ chosen \in SUBSET Positions /\ chosen \in SUBSET Eligible /\ covered = Evidence(chosen)
      /\ spent = Cost(chosen)
  BY <1>1, EligiblePositions DEF Books
<1>6. /\ Cost(chosen \cup {i}) = Cost(chosen) + cost(i)
      /\ Evidence(chosen \cup {i}) = Evidence(chosen) \cup ranked[i].evidence
  <2>1. i \in Positions \ chosen
    BY <1>4
  <2>2. QED
    BY <1>1, <1>5, <2>1, CostType, EvidenceOf
<1>7. spent' <= budget
  <2>1. spent \in Nat /\ cost(i) \in Nat
    BY <1>1, <1>4, <1>5, CostType, ShapeTypes
  <2>2. QED
    BY <1>2, <1>4, <2>1
<1>8. Books'
  BY <1>1, <1>2, <1>3, <1>4, <1>5, <1>6, <1>7, InputsStay DEF Books
<1>9. Inputs' /\ Phases' /\ InStep' /\ RankFull' /\ PackFull' /\ ThirdOfOptimum'
  BY <1>1, <1>3, InputsStay DEF Phases, InStep, RankFull, PackFull, ThirdOfOptimum
<1>10. Rivals'
  <2>1. ASSUME NEW S \in SUBSET Eligible, Cost(S) <= budget
        PROVE  WithinReach(S, chosen') \/ Bounded(S, chosen')
    <3>1. WithinReach(S, chosen) \/ Bounded(S, chosen)
      BY <1>1, <1>3, <2>1 DEF Rivals
    <3>2. QED
      BY <1>1, <1>2, <1>5, <2>1, <3>1, RivalsStay
  <2>2. \A S : /\ WithinReach(S, chosen') => WithinReach(S, chosen)'
               /\ Bounded(S, chosen') => Bounded(S, chosen)'
    BY <1>3, InputsStay DEF WithinReach, Bounded
  <2>3. QED
    BY <1>3, <2>1, <2>2, InputsStay DEF Rivals
<1>11. QED
  BY <1>8, <1>9, <1>10

(* When nothing that fits gains anything, a single item stands in for a    *)
(* pack that is worth less, and the pack has no room for a positive score. *)
LEMMA PackDoneKeeps == PackInv /\ pack_done => PackInv'
<1>1. SUFFICES ASSUME PackInv, pack_done PROVE PackInv'
  OBVIOUS
<1> USE DEF PackInv
<1>2. /\ phase = "pack" /\ UNCHANGED inputs /\ phase' = "fill"
      /\ at' = at /\ assembled' = assembled /\ tokens_used' = tokens_used
      /\ \A i \in Best : gain(i, covered) <= 0
  BY <1>1 DEF pack_done, fillVars
<1>3. /\ chosen \in SUBSET Positions /\ chosen \in SUBSET Eligible /\ covered = Evidence(chosen)
      /\ spent = Cost(chosen) /\ spent <= budget
  BY <1>1, EligiblePositions DEF Books
<1>4. Utility(chosen) \in Nat /\ \A i \in singletons : i \in Positions /\ gain(i, {}) \in Nat
  BY <1>1, <1>3, UtilityType, GainType DEF singletons, Eligible
<1>5. /\ chosen' \subseteq Eligible /\ covered' = Evidence(chosen') /\ spent' = Cost(chosen')
      /\ spent' <= budget
      /\ Utility(chosen') \in Nat /\ Utility(chosen') >= Utility(chosen)
      /\ \A o \in singletons : gain(o, {}) <= Utility(chosen')
      /\ replaced' \/ chosen' = chosen
  <2>1. CASE singletons = {}
    BY <1>1, <1>3, <1>4, <2>1 DEF pack_done, packVars
  <2>2. CASE singletons # {}
    <3>1. PICK i \in BestSingle : best_single(i)
      BY <1>1, <2>2 DEF pack_done
    <3>2. i \in singletons /\ \A o \in singletons : gain(o, {}) <= gain(i, {})
      BY <1>4 DEF BestSingle
    <3>3. i \in Positions /\ i \in Eligible /\ cost(i) <= budget /\ gain(i, {}) \in Nat
      BY <1>4, <3>2 DEF singletons
    <3>4. CASE gain(i, {}) > Utility(chosen)
      <4>1. chosen' = {i} /\ covered' = ranked[i].evidence /\ spent' = cost(i) /\ replaced'
        BY <3>1, <3>4 DEF best_single
      <4>2. Utility({i}) = gain(i, {}) /\ Evidence({i}) = ranked[i].evidence /\ Cost({i}) = cost(i)
        BY <1>1, <3>3, UtilityOfOne
      <4>3. QED
        BY <1>4, <3>2, <3>3, <3>4, <4>1, <4>2
    <3>5. CASE ~ (gain(i, {}) > Utility(chosen))
      <4>1. chosen' = chosen /\ covered' = covered /\ spent' = spent
        BY <3>1, <3>5 DEF best_single, packVars
      <4>2. \A o \in singletons : gain(o, {}) <= Utility(chosen)
        BY <1>4, <3>2, <3>3, <3>5
      <4>3. QED
        BY <1>3, <1>4, <4>1, <4>2
    <3>6. QED
      BY <3>4, <3>5
  <2>3. QED
    BY <2>1, <2>2
<1>6. Books'
  BY <1>1, <1>2, <1>5, InputsStay DEF Books
<1>7. Inputs' /\ Phases' /\ Rivals'
  BY <1>1, <1>2, InputsStay DEF Phases, Rivals
<1>8. RankFull' /\ selection' = "coverage" /\ at = 1 /\ assembled = {}
  BY <1>1, <1>2, InputsStay DEF Phases, RankFull
<1>9. InStep'
  <2>1. {i \in chosen' : i < 1} = {}
    <3>1. \A i \in chosen' : i \in 1..Size
      BY <1>5, EligiblePositions DEF Positions
    <3>2. QED
      BY <3>1, PackingAssumption
  <2>2. QED
    BY <1>2, <1>8, <2>1 DEF InStep
<1>10. PackFull'
  <2>1. ASSUME NEW i \in Eligible \ chosen, ranked[i].score > 0
        PROVE  Cost(chosen) + cost(i) > budget
    <3>1. i \in Positions /\ ranked[i].score \in Int /\ Positive(ranked[i].score) >= 1
          /\ Positive(ranked[i].score) \in Nat
      BY <1>1, <2>1, EligiblePositions, ShapeTypes DEF Positive
    <3>2. QuerySize * Positive(ranked[i].score) > 0
      <4>1. PICK q \in Nat \ {0}, p \in Nat \ {0} : q = QuerySize /\ p = Positive(ranked[i].score)
        BY <3>1, SizesArePositive
      <4>2. q * p > 0
        OBVIOUS
      <4>3. QED
        BY <4>1, <4>2
    <3>3. gain(i, covered) > 0
      <4>1. gain(i, covered) \in Nat /\ gain(i, covered) >= QuerySize * Positive(ranked[i].score)
        BY <1>1, <3>1, GainType
      <4>2. QED
        BY <3>1, <3>2, <4>1, SizesArePositive
    <3>4. i \notin feasible
      <4>1. \A j \in Best : gain(j, covered) \in Nat
        BY <1>1, GainType DEF Best, feasible, Eligible
      <4>2. QED
        BY <1>1, <1>2, <3>3, <4>1, BestExists
    <3>5. ~ (cost(i) + spent <= budget)
      BY <2>1, <3>4 DEF feasible
    <3>6. cost(i) \in Nat /\ spent \in Nat /\ budget \in Nat
      BY <1>1, <1>3, <3>1, ShapeTypes, CostType DEF Inputs
    <3>7. QED
      BY <1>3, <3>5, <3>6
  <2>2. CASE replaced'
    BY <2>2 DEF PackFull
  <2>3. CASE chosen' = chosen
    BY <1>2, <2>1, <2>3, InputsStay DEF PackFull
  <2>4. QED
    BY <1>5, <2>2, <2>3
<1>11. ThirdOfOptimum'
  <2>1. ASSUME NEW S \in SUBSET Eligible, Cost(S) <= budget
        PROVE  3 * Utility(chosen') >= Utility(S)
    <3>1. WithinReach(S, chosen) \/ Bounded(S, chosen)
      BY <1>1, <1>2, <2>1 DEF Rivals
    <3>2. PICK u \in Nat : u = Utility(chosen')
      BY <1>5
    <3>3. u >= Utility(chosen) /\ \A o \in singletons : gain(o, {}) <= u
      BY <1>5, <3>2
    <3>4. 3 * u >= Utility(S)
      BY <1>1, <1>2, <1>3, <3>1, <3>3, RivalsAtEnd
    <3>5. QED
      BY <3>2, <3>4
  <2>2. QED
    BY <1>2, <2>1, InputsStay DEF ThirdOfOptimum
<1>12. QED
  BY <1>6, <1>7, <1>8, <1>9, <1>10, <1>11

(* Filling takes what fits, and of a pack that is read once, everything.   *)
LEMMA FillKeeps == PackInv /\ fill => PackInv'
<1>1. SUFFICES ASSUME PackInv, fill PROVE PackInv'
  OBVIOUS
<1> USE DEF PackInv
<1>2. /\ phase = "fill" /\ phase' = phase /\ UNCHANGED inputs /\ at <= Size /\ at' = at + 1
      /\ chosen' = chosen /\ covered' = covered /\ spent' = spent /\ replaced' = replaced
  BY <1>1 DEF fill, packVars
<1>3. /\ chosen \in SUBSET Eligible /\ assembled \in SUBSET Eligible /\ \A i \in assembled : i < at
      /\ chosen \in SUBSET Positions /\ assembled \in SUBSET Positions
      /\ at \in 1..Size + 1 /\ tokens_used = Tokens(assembled) /\ tokens_used <= budget
      /\ spent = Cost(chosen) /\ spent <= budget
  BY <1>1, EligiblePositions DEF Books
<1>4. at \in Positions /\ at \notin assembled /\ Size \in Nat /\ at \in Nat
  BY <1>2, <1>3, PackingAssumption DEF Positions
<1>5. /\ ranked[at].tokens \in Nat /\ Tokens(assembled) \in Nat /\ budget \in Nat
      /\ Tokens(assembled \cup {at}) = Tokens(assembled) + ranked[at].tokens
  <2>1. at \in Positions \ assembled
    BY <1>4
  <2>2. QED
    BY <1>1, <1>3, <1>4, <2>1, ShapeTypes, CostType DEF Inputs
<1> DEFINE enters == at \in Eligible /\ fits(at) /\ selected(at)
<1>6. /\ enters => /\ assembled' = assembled \cup {at} /\ tokens_used' = Tokens(assembled')
                   /\ tokens_used' <= budget
      /\ ~ enters => assembled' = assembled /\ tokens_used' = tokens_used
  BY <1>1, <1>3, <1>5 DEF fill, fits, used_with
<1>7. Books'
  <2>1. tokens_used' = Tokens(assembled') /\ tokens_used' <= budget
    BY <1>3, <1>6
  <2>2. assembled' \subseteq Eligible /\ \A i \in assembled' : i < at'
    <3>1. \A i \in assembled : i \in Nat /\ i < at + 1
      BY <1>3, <1>4 DEF Positions
    <3>2. \A i \in assembled \cup {at} : i < at + 1
      BY <1>4, <3>1
    <3>3. assembled' = assembled \cup {at} \/ assembled' = assembled
      BY <1>6
    <3>4. enters => at \in Eligible
      OBVIOUS
    <3> HIDE DEF enters
    <3>5. assembled' \subseteq Eligible
      BY <1>3, <1>6, <3>4
    <3>6. \A i \in assembled' : i < at'
      BY <1>2, <3>1, <3>2, <3>3
    <3>7. QED
      BY <3>5, <3>6
  <2>3. at' \in 1..Size + 1
    BY <1>2, <1>3, <1>4
  <2>4. QED
    BY <1>1, <1>2, <2>1, <2>2, <2>3, InputsStay DEF Books
<1>8. Inputs' /\ Phases' /\ Rivals' /\ PackFull' /\ ThirdOfOptimum'
  BY <1>1, <1>2, InputsStay DEF Phases, Rivals, PackFull, ThirdOfOptimum
<1>9. InStep'
  <2>1. SUFFICES ASSUME selection = "coverage", OneReading
                 PROVE  assembled' = {i \in chosen : i < at + 1}
    BY <1>2, InputsStay DEF InStep
  <2>2. assembled = {i \in chosen : i < at}
    BY <1>1, <1>2, <2>1 DEF InStep
  <2>3. selected(at) <=> at \in chosen
    BY <1>3, <1>4, <2>1 DEF selected, OneReading
  <2>4. ASSUME at \in chosen PROVE enters
    <3>1. assembled \cup {at} \in SUBSET chosen
      BY <2>2, <2>4
    <3>2. Tokens(assembled \cup {at}) <= Tokens(chosen) /\ Tokens(chosen) <= Cost(chosen)
          /\ Tokens(chosen) \in Nat /\ Cost(chosen) \in Nat
      BY <1>1, <1>3, <3>1, CostType
    <3>3. tokens_used + ranked[at].tokens <= budget
      BY <1>3, <1>5, <3>2
    <3>4. QED
      BY <1>3, <2>3, <2>4, <3>3 DEF fits, used_with
  <2>5. \A i \in chosen : i \in Nat /\ (i < at + 1 <=> i < at \/ i = at)
    BY <1>3, <1>4 DEF Positions
  <2>6. CASE at \in chosen
    BY <1>6, <2>2, <2>4, <2>5, <2>6
  <2>7. CASE at \notin chosen
    BY <1>6, <2>2, <2>3, <2>5, <2>7
  <2>8. QED
    BY <2>6, <2>7
<1>10. RankFull'
  <2>1. SUFFICES ASSUME selection = "rank", NEW i \in Eligible, i \notin assembled', i < at + 1
                 PROVE  Tokens(assembled') + ranked[i].tokens > budget
    BY <1>2, InputsStay DEF RankFull
  <2>2. i \in Positions /\ i \in Nat /\ ranked[i].tokens \in Nat
    BY <1>1, EligiblePositions, ShapeTypes DEF Positions
  <2>3. CASE i = at
    <3>1. selected(at) /\ ~ enters
      BY <1>6, <2>1, <2>3 DEF selected
    <3>2. ~ (tokens_used + ranked[at].tokens <= budget)
      BY <2>3, <3>1 DEF fits, used_with
    <3>3. QED
      BY <1>3, <1>5, <1>6, <2>3, <3>1, <3>2
  <2>4. CASE i # at
    <3>1. i < at /\ i \notin assembled
      BY <1>4, <1>6, <2>1, <2>2, <2>4
    <3>2. Tokens(assembled) + ranked[i].tokens > budget
      BY <1>1, <2>1, <3>1 DEF RankFull
    <3>3. Tokens(assembled') \in Nat /\ Tokens(assembled') >= Tokens(assembled)
      <4>1. PICK T : T = assembled \cup {at}
        OBVIOUS
      <4>2. Tokens(T) \in Nat /\ Tokens(T) >= Tokens(assembled)
        BY <1>5, <4>1
      <4>3. assembled' = T \/ assembled' = assembled
        BY <1>6, <4>1
      <4>4. QED
        BY <1>5, <4>2, <4>3
    <3>4. QED
      BY <1>5, <2>2, <3>2, <3>3
  <2>5. QED
    BY <2>3, <2>4
<1>11. QED
  BY <1>7, <1>8, <1>9, <1>10

(* Steps that end the assembly, or change nothing.                         *)
LEMMA RestKeeps == PackInv /\ (assemble_done \/ UNCHANGED packingVars) => PackInv'
<1>1. SUFFICES ASSUME PackInv, assemble_done \/ UNCHANGED packingVars PROVE PackInv'
  OBVIOUS
<1> USE DEF PackInv
<1>2. /\ UNCHANGED inputs
      /\ chosen' = chosen /\ covered' = covered /\ spent' = spent /\ replaced' = replaced
      /\ at' = at /\ assembled' = assembled /\ tokens_used' = tokens_used
      /\ phase' = phase \/ (phase = "fill" /\ phase' = "done" /\ at > Size)
  BY <1>1 DEF assemble_done, packingVars, packVars, fillVars
<1>3. at' = Size + 1 \/ at' <= Size
  BY <1>1, <1>2, PackingAssumption DEF Books
<1>4. Inputs' /\ Books' /\ Rivals' /\ PackFull' /\ InStep' /\ RankFull' /\ ThirdOfOptimum'
  <2>1. Inputs' /\ Books'
    BY <1>1, <1>2, InputsStay DEF Books
  <2>2. PackFull' /\ InStep' /\ RankFull' /\ ThirdOfOptimum'
    BY <1>1, <1>2, InputsStay DEF PackFull, InStep, RankFull, ThirdOfOptimum
  <2>3. \A S : /\ WithinReach(S, chosen) => WithinReach(S, chosen)'
               /\ Bounded(S, chosen) => Bounded(S, chosen)'
    BY <1>2, InputsStay DEF WithinReach, Bounded
  <2>4. Rivals'
    BY <1>1, <1>2, <2>3, InputsStay DEF Rivals
  <2>5. QED
    BY <2>1, <2>2, <2>4
<1>5. Phases'
  <2>1. at > Size => at = Size + 1
    BY <1>1, PackingAssumption DEF Books
  <2>2. QED
    BY <1>1, <1>2, <2>1, InputsStay DEF Phases
<1>6. QED
  BY <1>4, <1>5

(* The inductive invariant holds of every assembly.                        *)
THEOREM PackInvariant == PackSpec => []PackInv
<1>1. PackInit => PackInv
  BY PackInitInv
<1>2. PackInv /\ [PackNext]_packingVars => PackInv'
  BY PackOneKeeps, PackDoneKeeps, FillKeeps, RestKeeps DEF PackNext
<1>3. QED
  BY <1>1, <1>2, PTL DEF PackSpec

(* The running totals that pack and assemble keep are those of what they   *)
(* chose, all along.                                                       *)
THEOREM PackTypes == PackSpec => []PackTypeOK
<1>1. PackInv => PackTypeOK
  BY DEF PackInv, Books, PackTypeOK
<1>2. QED
  BY <1>1, PackInvariant, PTL

(* The answer stays within the budget, and is exactly what was packed: the *)
(* second accounting, in rank order, drops nothing.                        *)
THEOREM PackIsAnswer == PackSpec => []AnswerIsThePack
<1>1. ASSUME PackInv PROVE AnswerIsThePack
  <2>1. Tokens(assembled) <= budget
    BY <1>1 DEF PackInv, Books
  <2>2. ASSUME phase = "done", selection = "coverage", OneReading PROVE assembled = chosen
    <3>1. at = Size + 1 /\ assembled = {i \in chosen : i < at}
      BY <1>1, <2>2 DEF PackInv, Phases, InStep
    <3>2. \A i \in chosen : i \in 1..Size
      BY <1>1 DEF PackInv, Books, Eligible, Positions
    <3>3. QED
      BY <3>1, <3>2, PackingAssumption
  <2>3. QED
    BY <2>1, <2>2 DEF AnswerIsThePack
<1>2. QED
  BY <1>1, PackInvariant, PTL

(* The pack is worth a third of the best selection that the budget allows. *)
THEOREM PackIsThird == PackSpec => []ThirdOfOptimum
<1>1. PackInv => ThirdOfOptimum
  BY DEF PackInv
<1>2. QED
  BY <1>1, PackInvariant, PTL

(* What is excluded "over budget" had no room left.                        *)
THEOREM LeftOutHadNoRoom == PackSpec => []NoRoomForLeftOut
<1>1. ASSUME PackInv PROVE NoRoomForLeftOut
  <2>1. SUFFICES ASSUME phase = "done", OneReading, ~replaced, NEW i \in LeftOut
                 PROVE  Cost(assembled) + cost(i) > budget
    BY DEF NoRoomForLeftOut
  <2>2. /\ i \in Eligible /\ i \notin assembled /\ ranked[i].score > 0 /\ i \in 1..Size
        /\ assembled \in SUBSET Positions /\ Inputs /\ i \in Positions
    BY <1>1 DEF LeftOut, Eligible, Positions, PackInv, Books
  <2>3. at = Size + 1 /\ i < at
    BY <1>1, <2>1, <2>2, PackingAssumption DEF PackInv, Phases
  <2>4. CASE selection = "coverage"
    <3>1. assembled = {j \in chosen : j < at}
      BY <1>1, <2>1, <2>4 DEF PackInv, InStep
    <3>2. \A j \in chosen : j \in 1..Size
      BY <1>1 DEF PackInv, Books, Eligible, Positions
    <3>3. assembled = chosen
      BY <2>3, <3>1, <3>2, PackingAssumption
    <3>4. QED
      BY <1>1, <2>1, <2>2, <2>4, <3>3 DEF PackInv, PackFull
  <2>5. CASE selection = "rank"
    <3>1. Tokens(assembled) + ranked[i].tokens > budget
      BY <1>1, <2>2, <2>3, <2>5 DEF PackInv, RankFull
    <3>2. /\ Tokens(assembled) \in Nat /\ Cost(assembled) \in Nat /\ Tokens(assembled) <= Cost(assembled)
          /\ cost(i) \in Nat /\ ranked[i].tokens \in Nat /\ ranked[i].tokens <= cost(i) /\ budget \in Nat
      BY <2>2, CostType, ShapeTypes DEF Inputs
    <3>3. QED
      BY <3>1, <3>2
  <2>6. QED
    BY <1>1, <2>4, <2>5 DEF PackInv, Inputs
<1>2. QED
  BY <1>1, PackInvariant, PTL

-----------------------------------------------------------------------------
(* The summands: costs of items, weights of requirements, and what a set   *)
(* is worth in a scenario.                                                 *)
itemCosts == [i \in Items |-> problem.evidence[i].cost]
weights == [r \in problem.requirements |-> r.weight]
worths(S) == [s \in problem.scenarios |-> s.probability * weight_met(S, s)]

(* What an instance holds.                                                 *)
LEMMA ProblemTypes ==
  ASSUME problem \in Instances
  PROVE  /\ \A i \in Items : /\ problem.evidence[i].cost \in Nat \ {0}
                             /\ problem.evidence[i].facts \in SUBSET Facts
         /\ IsFiniteSet(problem.requirements) /\ IsFiniteSet(problem.scenarios)
         /\ \A r \in problem.requirements : r.weight \in Nat /\ r.witnesses \subseteq (SUBSET Facts) \ {{}}
         /\ \A s \in problem.scenarios : s.probability \in Nat
         /\ problem.limit \in Nat
         /\ \A S \in SUBSET Items : IsFiniteSet(S)
<1>1. problem \in Problem /\ IsFiniteSet(problem.requirements) /\ IsFiniteSet(problem.scenarios)
  BY InstancesAssumption
<1>2. \A i \in Items : problem.evidence[i] \in EvidenceItem
  BY <1>1 DEF Problem
<1>3. /\ \A r \in problem.requirements : r \in Requirement
      /\ \A s \in problem.scenarios : s \in Scenario
      /\ problem.limit \in Nat
  BY <1>1 DEF Problem
<1>4. \A S \in SUBSET Items : IsFiniteSet(S)
  BY InstancesAssumption, FS_Subset
<1>5. QED
  BY <1>1, <1>2, <1>3, <1>4 DEF EvidenceItem, Requirement, Scenario

(* The cost of a bundle is a sum.                                          *)
LEMMA BundleCostIsTotal ==
  ASSUME problem \in Instances, NEW S \in SUBSET Items
  PROVE  bundle_cost(S) = Total(itemCosts, S)
<1> DEFINE Body(g) == [s \in SUBSET S |-> IF s = {} THEN 0 ELSE problem.evidence[any(s)].cost + g[s \ {any(s)}]]
<1>1. PICK g : g = CHOOSE f : f = Body(f)
  OBVIOUS
<1>2. bundle_cost(S) = g[S]
  BY <1>1 DEF bundle_cost, MapThenSumSet, MapThenFoldSet, any
<1>3. ASSUME NEW f
      PROVE  f = Body(f) <=> Sums(f, itemCosts, SUBSET S)
  <2>1. ASSUME NEW s \in SUBSET S, s # {}
        PROVE  problem.evidence[any(s)].cost = itemCosts[any(s)]
    <3>1. any(s) \in Items
      BY <2>1 DEF any
    <3>2. QED
      BY <3>1 DEF itemCosts
  <2>2. QED
    BY <2>1 DEF Sums
<1>4. IsFiniteSet(S)
  BY ProblemTypes
<1>5. PICK h : Sums(h, itemCosts, SUBSET S)
  BY <1>4, SumsExist
<1>6. Sums(g, itemCosts, SUBSET S)
  <2> HIDE DEF Body
  <2>1. h = Body(h)
    BY <1>3, <1>5
  <2>2. g = Body(g)
    BY <1>1, <2>1
  <2>3. QED
    BY <1>3, <2>2
<1>7. QED
  BY <1>2, <1>4, <1>6, SumIsTotal

(* The weight that is met is a sum.                                        *)
LEMMA WeightIsTotal ==
  ASSUME problem \in Instances, NEW S, NEW scenario
  PROVE  /\ weight_met(S, scenario) = Total(weights, met(S, scenario))
         /\ IsFiniteSet(met(S, scenario)) /\ met(S, scenario) \subseteq problem.requirements
<1>0. PICK M : M = met(S, scenario)
  OBVIOUS
<1> DEFINE Body(g) == [s \in SUBSET M |-> IF s = {} THEN 0 ELSE any(s).weight + g[s \ {any(s)}]]
<1>1. PICK g : g = CHOOSE f : f = Body(f)
  OBVIOUS
<1>2. weight_met(S, scenario) = g[M]
  BY <1>0, <1>1 DEF weight_met, MapThenSumSet, MapThenFoldSet, any
<1>3. M \subseteq problem.requirements /\ IsFiniteSet(M)
  <2>1. M \subseteq problem.requirements
    BY <1>0 DEF met
  <2>2. QED
    BY <2>1, ProblemTypes, FS_Subset
<1>4. ASSUME NEW f
      PROVE  f = Body(f) <=> Sums(f, weights, SUBSET M)
  <2>1. ASSUME NEW s \in SUBSET M, s # {}
        PROVE  any(s).weight = weights[any(s)]
    <3>1. any(s) \in problem.requirements
      BY <1>3, <2>1 DEF any
    <3>2. QED
      BY <3>1 DEF weights
  <2>2. QED
    BY <2>1 DEF Sums
<1>5. PICK h : Sums(h, weights, SUBSET M)
  BY <1>3, SumsExist
<1>6. Sums(g, weights, SUBSET M)
  <2> HIDE DEF Body
  <2>1. h = Body(h)
    BY <1>4, <1>5
  <2>2. g = Body(g)
    BY <1>1, <2>1
  <2>3. QED
    BY <1>4, <2>2
<1>7. QED
  BY <1>0, <1>2, <1>3, <1>6, SumIsTotal

(* The value of a set is a sum.                                            *)
LEMMA ValueIsTotal ==
  ASSUME problem \in Instances, NEW S
  PROVE  value(S) = Total(worths(S), problem.scenarios)
<1>0. PICK M, w : M = problem.scenarios /\ w = worths(S)
  OBVIOUS
<1> DEFINE Body(g) == [s \in SUBSET M |->
             IF s = {} THEN 0 ELSE any(s).probability * weight_met(S, any(s)) + g[s \ {any(s)}]]
<1>1. PICK g : g = CHOOSE f : f = Body(f)
  OBVIOUS
<1>2. value(S) = g[M]
  BY <1>0, <1>1 DEF value, MapThenSumSet, MapThenFoldSet, any
<1>3. IsFiniteSet(M)
  BY <1>0, ProblemTypes
<1>4. ASSUME NEW f
      PROVE  f = Body(f) <=> Sums(f, w, SUBSET M)
  <2>1. ASSUME NEW s \in SUBSET M, s # {}
        PROVE  any(s).probability * weight_met(S, any(s)) = w[any(s)]
    <3>1. any(s) \in problem.scenarios
      BY <1>0, <2>1 DEF any
    <3>2. QED
      BY <1>0, <3>1 DEF worths
  <2>2. QED
    BY <2>1 DEF Sums
<1>5. PICK h : Sums(h, w, SUBSET M)
  BY <1>3, SumsExist
<1>6. Sums(g, w, SUBSET M)
  <2> HIDE DEF Body
  <2>1. h = Body(h)
    BY <1>4, <1>5
  <2>2. g = Body(g)
    BY <1>1, <2>1
  <2>3. QED
    BY <1>4, <2>2
<1>7. g[M] = Total(w, M)
  BY <1>3, <1>6, SumIsTotal
<1>8. QED
  BY <1>0, <1>2, <1>7

(* Costs and values are natural numbers, a cost no less with more items,   *)
(* and a value no less than what any scenario's met requirement gives it.  *)
LEMMA CostAndValueTypes ==
  ASSUME problem \in Instances
  PROVE  /\ \A S \in SUBSET Items :
              /\ bundle_cost(S) \in Nat
              /\ \A T \in SUBSET S : bundle_cost(T) <= bundle_cost(S)
         /\ bundle_cost({}) = 0
         /\ \A S : /\ value(S) \in Nat
                   /\ \A s \in problem.scenarios : \A r \in met(S, s) :
                        s.probability * r.weight <= value(S)
<1>1. ASSUME NEW S \in SUBSET Items
      PROVE  bundle_cost(S) \in Nat /\ \A T \in SUBSET S : bundle_cost(T) <= bundle_cost(S)
  <2>1. IsFiniteSet(S) /\ \A i \in S : itemCosts[i] \in Nat
    BY ProblemTypes DEF itemCosts
  <2>2. Total(itemCosts, S) \in Nat /\ \A T \in SUBSET S : Total(itemCosts, T) <= Total(itemCosts, S)
    BY <2>1, TotalMonotone
  <2>3. \A T \in SUBSET S : T \in SUBSET Items
    OBVIOUS
  <2>4. QED
    BY <2>2, <2>3, BundleCostIsTotal
<1>2. bundle_cost({}) = 0
  BY BundleCostIsTotal, TotalEmpty
<1>3. ASSUME NEW S
      PROVE  /\ value(S) \in Nat
             /\ \A s \in problem.scenarios : \A r \in met(S, s) : s.probability * r.weight <= value(S)
  <2>1. ASSUME NEW s \in problem.scenarios
        PROVE  /\ weight_met(S, s) \in Nat
               /\ \A r \in met(S, s) : r.weight <= weight_met(S, s) /\ r.weight \in Nat
    <3>1. IsFiniteSet(met(S, s)) /\ met(S, s) \subseteq problem.requirements
          /\ weight_met(S, s) = Total(weights, met(S, s))
      BY WeightIsTotal
    <3>2. \A r \in met(S, s) : weights[r] = r.weight /\ weights[r] \in Nat
      BY <3>1, ProblemTypes DEF weights
    <3>3. PICK M : M = met(S, s)
      OBVIOUS
    <3>4. Total(weights, M) \in Nat /\ \A r \in M : weights[r] <= Total(weights, M)
      BY <3>1, <3>2, <3>3, TotalMonotone, TotalBounds
    <3>5. QED
      BY <3>1, <3>2, <3>3, <3>4
  <2>2. \A s \in problem.scenarios : /\ worths(S)[s] = s.probability * weight_met(S, s)
                                     /\ worths(S)[s] \in Nat
    BY <2>1, ProblemTypes DEF worths
  <2>3. PICK w : w = worths(S)
    OBVIOUS
  <2>4. PICK M : M = problem.scenarios
    OBVIOUS
  <2>5. IsFiniteSet(M) /\ \A s \in M : w[s] \in Nat
    BY <2>2, <2>3, <2>4, ProblemTypes
  <2>6. Total(w, M) \in Nat /\ \A s \in M : w[s] <= Total(w, M)
    BY <2>5, TotalMonotone, TotalBounds
  <2>7. value(S) = Total(w, M)
    BY <2>3, <2>4, ValueIsTotal
  <2>8. ASSUME NEW s \in problem.scenarios, NEW r \in met(S, s)
        PROVE  s.probability * r.weight <= value(S)
    <3>1. PICK p \in Nat, a \in Nat, b \in Nat : p = s.probability /\ a = r.weight /\ b = weight_met(S, s)
      BY <2>1, ProblemTypes
    <3>2. a <= b
      BY <2>1, <3>1
    <3>3. p * a <= p * b
      BY <3>2
    <3>4. p * b <= value(S)
      BY <2>2, <2>3, <2>4, <2>6, <2>7, <3>1
    <3>5. QED
      BY <2>6, <2>7, <3>1, <3>3, <3>4
  <2>9. QED
    BY <2>6, <2>7, <2>8
<1>4. QED
  BY <1>1, <1>2, <1>3

(* Being beaten is a strict order, and what does not beat a set that does  *)
(* not beat another does not beat that one either.                         *)
LEMMA BeatsIsAnOrder ==
  ASSUME problem \in Instances
  PROVE  /\ \A a \in SUBSET Items : ~ beats(a, a)
         /\ \A a, b \in SUBSET Items : ~ beats(a, b) \/ ~ beats(b, a)
         /\ \A a, b, c \in SUBSET Items : ~ beats(a, b) /\ ~ beats(b, c) => ~ beats(a, c)
BY CostAndValueTypes DEF beats

-----------------------------------------------------------------------------
(* The cover, with a name for each of its parts.                           *)
newly(i, had, missing) == Cardinality(problem.evidence[i].facts \cap (missing \ FactsOf(had)))

(* More new facts per cost, or as many and a lower cost.                   *)
no_worse(i, j, had, missing) ==
  LET mine == newly(i, had, missing) * problem.evidence[j].cost
      other == newly(j, had, missing) * problem.evidence[i].cost
  IN  \/ mine > other
      \/ /\ mine = other
         /\ problem.evidence[i].cost <= problem.evidence[j].cost

(* The candidates that add a fact.                                         *)
useful(had, missing, candidates) == {i \in candidates \ had : newly(i, had, missing) > 0}

(* The one that a round of the cover takes.                                *)
next_item(had, missing, candidates) ==
  CHOOSE i \in useful(had, missing, candidates) :
    \A j \in useful(had, missing, candidates) : no_worse(i, j, had, missing)

(* g satisfies the recursion of the cover on the sets of D.                *)
Covers(g, missing, candidates, D) ==
  g = [had \in D |-> IF useful(had, missing, candidates) = {} THEN had
                     ELSE g[had \cup {next_item(had, missing, candidates)}]]

(* The cover is a function that satisfies its recursion.                   *)
LEMMA CoverIsChosen ==
  ASSUME NEW missing, NEW candidates
  PROVE  cover(missing, candidates) = CHOOSE g : Covers(g, missing, candidates, SUBSET Items)
BY DEF cover, Covers, useful, next_item, no_worse, newly

(* There is a most useful item where one is useful at all.                 *)
LEMMA NextItemExists ==
  ASSUME problem \in Instances, NEW had, NEW missing, NEW candidates \in SUBSET Items,
         useful(had, missing, candidates) # {}
  PROVE  next_item(had, missing, candidates) \in useful(had, missing, candidates)
<1>1. PICK U : U = useful(had, missing, candidates)
  OBVIOUS
<1>2. U \in SUBSET Items /\ IsFiniteSet(U) /\ U # {}
  <2>1. U \in SUBSET Items
    BY <1>1 DEF useful
  <2>2. QED
    BY <1>1, <2>1, ProblemTypes
<1>3. \A i \in U : newly(i, had, missing) \in Nat /\ problem.evidence[i].cost \in Nat \ {0}
  <2>1. SUFFICES ASSUME NEW i \in U
                 PROVE  newly(i, had, missing) \in Nat /\ problem.evidence[i].cost \in Nat \ {0}
    OBVIOUS
  <2>2. PICK F : F = problem.evidence[i].facts \cap (missing \ FactsOf(had))
    OBVIOUS
  <2>3. F \in SUBSET Facts /\ problem.evidence[i].cost \in Nat \ {0}
    BY <1>2, <2>2, ProblemTypes
  <2>4. Cardinality(F) \in Nat
    BY <2>3, InstancesAssumption, FS_Subset, FS_CardinalityType
  <2>5. QED
    BY <2>2, <2>3, <2>4 DEF newly
<1> DEFINE R == {ij \in U \X U : no_worse(ij[1], ij[2], had, missing)}
<1>4. \A i, j \in U : no_worse(i, j, had, missing) \/ no_worse(j, i, had, missing)
  <2>1. SUFFICES ASSUME NEW i \in U, NEW j \in U
                 PROVE  no_worse(i, j, had, missing) \/ no_worse(j, i, had, missing)
    OBVIOUS
  <2>2. PICK a \in Nat, b \in Nat, p \in Nat, q \in Nat :
          /\ a = newly(i, had, missing) /\ b = newly(j, had, missing)
          /\ p = problem.evidence[i].cost /\ q = problem.evidence[j].cost
    BY <1>3
  <2>3. PICK m \in Nat, n \in Nat : m = a * q /\ n = b * p
    BY <2>2
  <2>4. QED
    BY <2>2, <2>3 DEF no_worse
<1>5. \A i, j, k \in U : no_worse(i, j, had, missing) /\ no_worse(j, k, had, missing)
                           => no_worse(i, k, had, missing)
  <2>1. SUFFICES ASSUME NEW i \in U, NEW j \in U, NEW k \in U,
                        no_worse(i, j, had, missing), no_worse(j, k, had, missing)
                 PROVE  no_worse(i, k, had, missing)
    OBVIOUS
  <2>2. PICK a, b, c, p, q, r :
          /\ a = newly(i, had, missing) /\ b = newly(j, had, missing) /\ c = newly(k, had, missing)
          /\ p = problem.evidence[i].cost /\ q = problem.evidence[j].cost
          /\ r = problem.evidence[k].cost
    OBVIOUS
  <2> a \in Nat /\ b \in Nat /\ c \in Nat /\ p \in Nat \ {0} /\ q \in Nat \ {0} /\ r \in Nat \ {0}
    BY <1>3, <2>2
  <2>3. a * q >= b * p /\ b * r >= c * q
    BY <2>1, <2>2 DEF no_worse
  <2>4. a * r >= c * p /\ (a * q > b * p \/ b * r > c * q => a * r > c * p)
    BY <2>3, QuotientsCompare
  <2>5. CASE a * q > b * p \/ b * r > c * q
    BY <2>2, <2>4, <2>5 DEF no_worse
  <2>6. CASE a * q = b * p /\ b * r = c * q
    <3>1. p <= q /\ q <= r
      BY <2>1, <2>2, <2>6 DEF no_worse
    <3>2. p <= r
      BY <3>1
    <3>3. a * r > c * p \/ a * r = c * p
      BY <2>4
    <3>4. QED
      BY <2>2, <3>2, <3>3 DEF no_worse
  <2>7. QED
    BY <2>3, <2>5, <2>6
<1>6. \E i \in U : \A j \in U : <<i, j>> \in R
  <2>1. /\ \A i, j \in U : <<i, j>> \in R \/ <<j, i>> \in R
        /\ \A i, j, k \in U : <<i, j>> \in R /\ <<j, k>> \in R => <<i, k>> \in R
    BY <1>4, <1>5
  <2> HIDE DEF R
  <2>2. QED
    BY <1>2, <2>1, GreatestExists
<1>7. \E i \in U : \A j \in U : no_worse(i, j, had, missing)
  BY <1>6
<1>8. QED
  BY <1>1, <1>7 DEF next_item

(* There is a function that satisfies the cover's recursion: each round    *)
(* has an item more, so the rounds are no more than the items.             *)
LEMMA CoversExist ==
  ASSUME problem \in Instances, NEW missing, NEW candidates \in SUBSET Items
  PROVE  \E g : Covers(g, missing, candidates, SUBSET Items)
<1> DEFINE nxt(had) == had \cup {next_item(had, missing, candidates)}
           Near(n) == {had \in SUBSET Items : Cardinality(Items \ had) <= n}
           Good == {n \in Nat : \E g : Covers(g, missing, candidates, Near(n))}
<1>1. ASSUME NEW had \in SUBSET Items
      PROVE  /\ IsFiniteSet(Items \ had) /\ Cardinality(Items \ had) \in Nat
             /\ Cardinality(Items \ had) <= Cardinality(Items)
             /\ Cardinality(Items \ had) = 0 => had = Items
  <2>1. IsFiniteSet(Items \ had) /\ Cardinality(Items \ had) \in Nat
    BY InstancesAssumption, FS_Subset, FS_CardinalityType
  <2>2. Cardinality(Items \ had) <= Cardinality(Items)
    BY InstancesAssumption, FS_Subset
  <2>3. Cardinality(Items \ had) = 0 => Items \ had = {}
    BY <2>1, FS_EmptySet
  <2>4. QED
    BY <2>1, <2>2, <2>3
<1>2. ASSUME NEW had \in SUBSET Items, useful(had, missing, candidates) # {}
      PROVE  /\ nxt(had) \in SUBSET Items
             /\ Cardinality(Items \ nxt(had)) = Cardinality(Items \ had) - 1
             /\ Cardinality(Items \ nxt(had)) \in Nat
  <2>1. PICK i : i = next_item(had, missing, candidates)
    OBVIOUS
  <2>2. i \in Items \ had
    BY <1>2, <2>1, NextItemExists DEF useful
  <2>3. Items \ nxt(had) = (Items \ had) \ {i} /\ nxt(had) \in SUBSET Items
    BY <2>1, <2>2
  <2> HIDE DEF nxt
  <2>4. Cardinality((Items \ had) \ {i}) = Cardinality(Items \ had) - 1
    BY <1>1, <2>2, FS_RemoveElement
  <2>5. QED
    BY <1>1, <2>3, <2>4
<1>3. 0 \in Good
  <2>1. Near(0) = {Items}
    <3>1. \A had \in SUBSET Items : Cardinality(Items \ had) <= 0 <=> had = Items
      <4>1. SUFFICES ASSUME NEW had \in SUBSET Items
                     PROVE  Cardinality(Items \ had) <= 0 <=> had = Items
        OBVIOUS
      <4>2. PICK rest : rest = Items \ had
        OBVIOUS
      <4>3. Cardinality(rest) \in Nat /\ IsFiniteSet(rest)
        BY <1>1, <4>2
      <4>4. Cardinality(rest) <= 0 <=> rest = {}
        BY <4>3, FS_EmptySet
      <4>5. QED
        BY <4>2, <4>4
    <3>2. QED
      BY <3>1
  <2>2. useful(Items, missing, candidates) = {}
    BY DEF useful
  <2>3. Covers([had \in {Items} |-> had], missing, candidates, {Items})
    BY <2>2 DEF Covers
  <2>4. QED
    <3> HIDE DEF Near
    <3>1. QED
      BY <2>1, <2>3
<1>4. ASSUME NEW n \in Nat, n \in Good PROVE n + 1 \in Good
  <2>1. PICK f : Covers(f, missing, candidates, Near(n))
    BY <1>4
  <2> DEFINE g == [had \in Near(n + 1) |->
                     IF useful(had, missing, candidates) = {} THEN had ELSE f[nxt(had)]]
  <2>2. ASSUME NEW had \in Near(n + 1), useful(had, missing, candidates) # {}
        PROVE  nxt(had) \in Near(n)
    <3>1. had \in SUBSET Items /\ Cardinality(Items \ had) <= n + 1 /\ Cardinality(Items \ had) \in Nat
      BY <1>1
    <3> HIDE DEF nxt
    <3>2. QED
      BY <1>2, <2>2, <3>1
  <2>3. ASSUME NEW had \in Near(n)
        PROVE  had \in Near(n + 1) /\ f[had] = g[had]
    <3>1. had \in Near(n + 1)
      <4>1. had \in SUBSET Items /\ Cardinality(Items \ had) <= n
        OBVIOUS
      <4>2. Cardinality(Items \ had) \in Nat
        BY <1>1, <4>1
      <4>3. QED
        BY <4>1, <4>2
    <3>2. f[had] = IF useful(had, missing, candidates) = {} THEN had ELSE f[nxt(had)]
      BY <2>1 DEF Covers
    <3>3. QED
      BY <3>1, <3>2
  <2>4. g = [had \in Near(n + 1) |->
               IF useful(had, missing, candidates) = {} THEN had ELSE g[nxt(had)]]
    <3> HIDE DEF Near, nxt
    <3>1. QED
      BY <2>2, <2>3
  <2>5. Covers(g, missing, candidates, Near(n + 1))
    BY <2>4 DEF Covers
  <2>6. \E h : Covers(h, missing, candidates, Near(n + 1))
    <3> HIDE DEF g, Near
    <3>1. QED
      BY <2>5
  <2>7. QED
    <3> HIDE DEF Near
    <3>1. QED
      BY <2>6
<1>5. Nat \subseteq Good
  <2> HIDE DEF Good
  <2>1. QED
    BY <1>3, <1>4, InductionOnNumbers
<1>6. Near(Cardinality(Items)) = SUBSET Items
  BY <1>1
<1>7. QED
  BY <1>5, <1>6, InstancesAssumption, FS_CardinalityType

(* The recursion of the cover holds for it.                                *)
LEMMA CoverStep ==
  ASSUME problem \in Instances, NEW missing, NEW candidates \in SUBSET Items, NEW had \in SUBSET Items
  PROVE  cover(missing, candidates)[had] =
           IF useful(had, missing, candidates) = {} THEN had
           ELSE cover(missing, candidates)[had \cup {next_item(had, missing, candidates)}]
<1>1. PICK g : g = cover(missing, candidates)
  OBVIOUS
<1>2. Covers(g, missing, candidates, SUBSET Items)
  BY <1>1, CoversExist, CoverIsChosen
<1>3. g[had] = IF useful(had, missing, candidates) = {} THEN had
               ELSE g[had \cup {next_item(had, missing, candidates)}]
  BY <1>2 DEF Covers
<1>4. QED
  BY <1>1, <1>3

(* A cover has what it was asked to start from, and candidates; and when   *)
(* it ends no candidate adds to it.                                        *)
LEMMA CoverEnds ==
  ASSUME problem \in Instances, NEW missing, NEW candidates \in SUBSET Items, NEW had \in SUBSET Items
  PROVE  /\ cover(missing, candidates)[had] \in SUBSET (had \cup candidates)
         /\ useful(cover(missing, candidates)[had], missing, candidates) = {}
<1>1. PICK g : g = cover(missing, candidates)
  OBVIOUS
<1> DEFINE Holds(h) == /\ g[h] \in SUBSET (h \cup candidates)
                       /\ useful(g[h], missing, candidates) = {}
           Good == {U \in SUBSET Items : Holds(Items \ U)}
<1>2. ASSUME NEW U \in SUBSET Items, \A V \in SUBSET U : V # U => V \in Good
      PROVE  U \in Good
  <2>1. PICK h \in SUBSET Items : h = Items \ U
    OBVIOUS
  <2>2. g[h] = IF useful(h, missing, candidates) = {} THEN h
               ELSE g[h \cup {next_item(h, missing, candidates)}]
    BY <1>1, CoverStep
  <2>3. CASE useful(h, missing, candidates) = {}
    <3>1. g[h] = h
      BY <2>2, <2>3
    <3>2. Holds(h)
      BY <2>3, <3>1
    <3>3. QED
      BY <2>1, <3>2
  <2>4. CASE useful(h, missing, candidates) # {}
    <3>1. PICK i : i = next_item(h, missing, candidates)
      OBVIOUS
    <3>2. i \in candidates \ h
      BY <2>4, <3>1, NextItemExists DEF useful
    <3>3. U \ {i} \in Good
      BY <1>2, <2>1, <3>2
    <3>4. Items \ (U \ {i}) = h \cup {i}
      BY <2>1, <3>2
    <3>5. PICK k : k = h \cup {i}
      OBVIOUS
    <3>6. Holds(k)
      BY <3>3, <3>4, <3>5
    <3>7. g[h] = g[k]
      BY <2>2, <2>4, <3>1, <3>5
    <3>8. Holds(h)
      BY <3>2, <3>5, <3>6, <3>7
    <3>9. QED
      BY <2>1, <3>8
  <2>5. QED
    BY <2>3, <2>4
<1>3. SUBSET Items \subseteq Good
  <2> HIDE DEF Good
  <2>1. QED
    BY <1>2, InstancesAssumption, InductionOnSubsets
<1>4. Items \ had \in Good /\ Items \ (Items \ had) = had
  BY <1>3
<1>5. Holds(had)
  BY <1>4
<1>6. QED
  BY <1>1, <1>5

-----------------------------------------------------------------------------
(* Nothing has been examined yet.                                          *)
Begun == ~ solved /\ taken = {} /\ best_bundle = {}

(* No addition to nothing that the budget allows is better than a, nor is  *)
(* adding nothing.                                                         *)
Unbeaten(a) == \A b \in affordable({}) \cup {{}} : ~ beats(b, a)

(* The remembered addition is unbeaten from the first round on; and so is  *)
(* the answer.                                                             *)
SolveInv ==
  /\ problem \in Instances
  /\ taken \in Affordable /\ best_bundle \in Affordable /\ solved \in BOOLEAN
  /\ Begun \/ Unbeaten(best_bundle)
  /\ solved => Unbeaten(taken)

(* What is offered is items, and costs no more than allowed by itself and  *)
(* with what was taken.                                                    *)
LEMMA OffersAreAffordable ==
  ASSUME problem \in Instances, NEW S \in SUBSET Items, NEW a \in affordable(S)
  PROVE  a \in Affordable /\ S \cup a \in Affordable
<1>1. a \in SUBSET Items
  <2>1. CASE a \in completions(S)
    <3>1. PICK missing, candidates, seed :
            /\ candidates \in SUBSET Items /\ seed \in SUBSET Items
            /\ a = cover(missing, candidates)[seed]
      <4>1. PICK w, s : a \in chains(S, w, s)
        BY <2>1 DEF completions
      <4>2. PICK missing, candidates :
              missing = w \ surviving(S, s) /\ candidates = suppliers(S, missing, s)
        OBVIOUS
      <4>3. a \in {cover(missing, candidates)[seed] : seed \in {{}} \cup {{i} : i \in candidates}}
        BY <4>1, <4>2 DEF chains
      <4>4. PICK seed \in {{}} \cup {{i} : i \in candidates} : a = cover(missing, candidates)[seed]
        BY <4>3
      <4>5. candidates \in SUBSET Items /\ seed \in SUBSET Items
        BY <4>2 DEF suppliers
      <4>6. QED
        BY <4>4, <4>5
    <3>2. a \in SUBSET (seed \cup candidates)
      BY <3>1, CoverEnds
    <3>3. QED
      BY <3>1, <3>2
  <2>2. CASE a \in bundles(S)
    BY <2>2 DEF bundles
  <2>3. QED
    BY <2>1, <2>2 DEF affordable
<1>2. bundle_cost(S \cup a) <= problem.limit
  BY DEF affordable
<1>3. S \cup a \in SUBSET Items /\ a \in SUBSET (S \cup a)
  BY <1>1
<1>4. bundle_cost(a) <= bundle_cost(S \cup a) /\ bundle_cost(a) \in Nat /\ bundle_cost(S \cup a) \in Nat
      /\ problem.limit \in Nat
  BY <1>1, <1>3, CostAndValueTypes, ProblemTypes
<1>5. QED
  BY <1>1, <1>2, <1>3, <1>4 DEF Affordable

(* The problem stays, and with it what is computed from it alone.          *)
LEMMA ProblemStays ==
  ASSUME UNCHANGED problem
  PROVE  /\ Affordable' = Affordable
         /\ \A a : /\ Unbeaten(a)' <=> Unbeaten(a)
         /\ Unbeaten(taken)' <=> Unbeaten(taken')
         /\ Unbeaten(best_bundle)' <=> Unbeaten(best_bundle')
<1>1. Affordable' = Affordable
  BY DEF Affordable, bundle_cost, MapThenSumSet, MapThenFoldSet
<1>2. \A a, b : beats(a, b)' <=> beats(a, b)
  BY DEF beats, value, weight_met, met, surviving, FactsOf, active, bundle_cost, MapThenSumSet, MapThenFoldSet
<1>3. /\ \A b : beats(b, taken)' <=> beats(b, taken')
      /\ \A b : beats(b, best_bundle)' <=> beats(b, best_bundle')
  BY DEF beats, value, weight_met, met, surviving, FactsOf, active, bundle_cost, MapThenSumSet, MapThenFoldSet
<1>4. \A m, c : cover(m, c)' = cover(m, c)
  BY DEF cover, FactsOf
<1>5. completions({})' = completions({})
  <2>1. \A w, s : chains({}, w, s)' = chains({}, w, s)
    BY DEF chains, cover, suppliers, surviving, FactsOf, active
  <2>2. QED
    BY <2>1 DEF completions
<1>6. affordable({})' = affordable({})
  BY <1>5 DEF affordable, bundles, bundle_cost, MapThenSumSet, MapThenFoldSet
<1>7. QED
  BY <1>1, <1>2, <1>3, <1>6 DEF Unbeaten

(* The best of what was examined in a round is unbeaten.                   *)
LEMMA BestIsUnbeaten ==
  ASSUME problem \in Instances, taken \in Affordable, best_bundle \in Affordable,
         Begun \/ Unbeaten(best_bundle), NEW best \in best_of(affordable(taken))
  PROVE  best \in Affordable /\ Unbeaten(best)
<1>1. taken \in SUBSET Items /\ best_bundle \in SUBSET Items
  BY DEF Affordable
<1>2. \A a \in affordable(taken) : a \in Affordable
  BY <1>1, OffersAreAffordable
<1>3. best \in Affordable /\ \A b \in affordable(taken) \cup {best_bundle} : ~ beats(b, best)
  BY <1>2 DEF best_of
<1>4. CASE Begun
  BY <1>3, <1>4 DEF Begun, Unbeaten
<1>5. CASE Unbeaten(best_bundle)
  <2>1. SUFFICES ASSUME NEW b \in affordable({}) \cup {{}} PROVE ~ beats(b, best)
    BY <1>3 DEF Unbeaten
  <2>2. ~ beats(b, best_bundle) /\ ~ beats(best_bundle, best)
    BY <1>3, <1>5 DEF Unbeaten
  <2>3. b \in SUBSET Items /\ best \in SUBSET Items
    BY <1>3, OffersAreAffordable DEF Affordable
  <2>4. QED
    BY <1>1, <2>2, <2>3, BeatsIsAnOrder
<1>6. QED
  BY <1>4, <1>5

(* At first nothing is taken and nothing remembered.                       *)
LEMMA SolveInitInv == SolveInit => SolveInv
<1>1. SUFFICES ASSUME SolveInit PROVE SolveInv
  OBVIOUS
<1>2. problem \in Instances /\ taken = {} /\ best_bundle = {} /\ solved = FALSE
  BY <1>1 DEF SolveInit
<1>3. {} \in Affordable
  <2>1. bundle_cost({}) = 0 /\ problem.limit \in Nat
    BY <1>2, CostAndValueTypes, ProblemTypes
  <2>2. QED
    BY <2>1 DEF Affordable
<1>4. QED
  BY <1>2, <1>3 DEF SolveInv, Begun

(* A round remembers an unbeaten addition, and the last one answers with   *)
(* it or with what beats it.                                               *)
LEMMA SolveNextInv == SolveInv /\ [SolveNext]_solveVars => SolveInv'
<1>1. SUFFICES ASSUME SolveInv, [SolveNext]_solveVars PROVE SolveInv'
  OBVIOUS
<1>2. /\ problem \in Instances /\ taken \in Affordable /\ best_bundle \in Affordable
      /\ solved \in BOOLEAN /\ (Begun \/ Unbeaten(best_bundle)) /\ (solved => Unbeaten(taken))
      /\ taken \in SUBSET Items
  BY <1>1 DEF SolveInv, Affordable
<1>3. CASE add_bundle
  <2>1. /\ ~ solved /\ problem' = problem /\ solved' = solved
        /\ best_bundle' \in best_of(affordable(taken))
        /\ \E a \in affordable(taken) : taken' = taken \cup a
    BY <1>3 DEF add_bundle
  <2>2. taken' \in Affordable
    BY <1>2, <2>1, OffersAreAffordable
  <2>3. best_bundle' \in Affordable /\ Unbeaten(best_bundle')
    BY <1>2, <2>1, BestIsUnbeaten
  <2>4. QED
    BY <1>2, <2>1, <2>2, <2>3, ProblemStays DEF SolveInv
<1>4. CASE solve_done
  <2>1. PICK bundle \in best_of(affordable(taken)) :
          best_bundle' = bundle /\ taken' = best_or_ascent(bundle)
    BY <1>4 DEF solve_done
  <2>2. problem' = problem /\ solved' = TRUE
    BY <1>4 DEF solve_done
  <2>3. bundle \in Affordable /\ Unbeaten(bundle)
    BY <1>2, BestIsUnbeaten
  <2>4. taken' \in Affordable /\ Unbeaten(taken')
    <3>1. CASE beats(bundle, taken)
      <4>1. taken' = bundle
        BY <2>1, <3>1 DEF best_or_ascent
      <4>2. QED
        BY <2>3, <4>1
    <3>2. CASE ~ beats(bundle, taken)
      <4>1. taken' = taken
        BY <2>1, <3>2 DEF best_or_ascent
      <4>2. ASSUME NEW b \in affordable({}) \cup {{}} PROVE ~ beats(b, taken)
        <5>1. ~ beats(b, bundle)
          BY <2>3 DEF Unbeaten
        <5>2. b \in SUBSET Items /\ bundle \in SUBSET Items
          BY <1>2, <2>3, OffersAreAffordable DEF Affordable
        <5>3. QED
          BY <1>2, <3>2, <5>1, <5>2, BeatsIsAnOrder
      <4>3. Unbeaten(taken)
        BY <4>2 DEF Unbeaten
      <4>4. QED
        BY <1>2, <4>1, <4>3
    <3>3. QED
      BY <3>1, <3>2
  <2>5. QED
    BY <1>2, <2>1, <2>2, <2>3, <2>4, ProblemStays DEF SolveInv
<1>5. CASE UNCHANGED solveVars
  <2>1. problem' = problem /\ taken' = taken /\ best_bundle' = best_bundle /\ solved' = solved
    BY <1>5 DEF solveVars
  <2>2. QED
    BY <1>2, <2>1, ProblemStays DEF SolveInv, Begun
<1>6. QED
  BY <1>1, <1>3, <1>4, <1>5 DEF SolveNext

(* The inductive invariant holds of every problem that is solved.          *)
THEOREM SolveInvariant == SolveSpec => []SolveInv
BY SolveInitInv, SolveNextInv, PTL DEF SolveSpec

(* What is taken and what is remembered never cost more than allowed.      *)
THEOREM SolveTypes == SolveSpec => []SolveTypeOK
<1>1. SolveInv => SolveTypeOK
  BY DEF SolveInv, SolveTypeOK
<1>2. QED
  BY <1>1, SolveInvariant, PTL

(* There is an affordable set that no other beats: the oracle is one.      *)
LEMMA OracleExists ==
  ASSUME problem \in Instances
  PROVE  oracle \in Affordable /\ \A T \in Affordable : ~ beats(T, oracle)
<1> DEFINE R == {ST \in (SUBSET Items) \X (SUBSET Items) : ~ beats(ST[2], ST[1])}
<1>1. Affordable \subseteq SUBSET Items /\ IsFiniteSet(Affordable) /\ Affordable # {}
  <2>1. Affordable \subseteq SUBSET Items /\ IsFiniteSet(SUBSET Items)
    BY InstancesAssumption, FS_SUBSET DEF Affordable
  <2>2. IsFiniteSet(Affordable)
    BY <2>1, FS_Subset
  <2>3. {} \in Affordable
    BY CostAndValueTypes, ProblemTypes DEF Affordable
  <2>4. QED
    BY <2>1, <2>2, <2>3
<1>2. /\ \A S, T \in Affordable : <<S, T>> \in R \/ <<T, S>> \in R
      /\ \A S, T, U \in Affordable : <<S, T>> \in R /\ <<T, U>> \in R => <<S, U>> \in R
  BY <1>1, BeatsIsAnOrder
<1>3. \E S \in Affordable : \A T \in Affordable : <<S, T>> \in R
  <2> HIDE DEF R
  <2>1. QED
    BY <1>1, <1>2, GreatestExists
<1>4. \E S \in Affordable : \A T \in Affordable : ~ beats(T, S)
  BY <1>3
<1>5. QED
  BY <1>4 DEF oracle

(* No set of up to max_bundle items beats the answer of solve, and where   *)
(* there are no more items than that it is the answer of oracle.           *)
THEOREM AnswerIsUnbeaten == SolveSpec => []NoBundleBeatsAnswer
<1>1. ASSUME SolveInv PROVE NoBundleBeatsAnswer
  <2>1. SUFFICES ASSUME solved
                 PROVE  /\ \A b \in Affordable : Cardinality(b) <= MaxBundle => ~ beats(b, taken)
                        /\ Cardinality(Items) <= MaxBundle => value(taken) = value(oracle)
    BY DEF NoBundleBeatsAnswer
  <2>2. problem \in Instances /\ taken \in Affordable /\ Unbeaten(taken)
    BY <1>1, <2>1 DEF SolveInv
  <2>3. ASSUME NEW b \in Affordable, Cardinality(b) <= MaxBundle
        PROVE  ~ beats(b, taken)
    <3>1. b \in SUBSET Items /\ IsFiniteSet(b) /\ Cardinality(b) \in Nat
      BY <2>2, ProblemTypes, FS_CardinalityType DEF Affordable
    <3>2. CASE b = {}
      BY <2>2, <3>2 DEF Unbeaten
    <3>3. CASE b # {}
      <4>1. Cardinality(b) \in 1..MaxBundle
        <5>1. Cardinality(b) # 0
          BY <3>1, <3>3, FS_EmptySet
        <5>2. QED
          BY <2>3, <3>1, <5>1, MaxBundleAssumption
      <4>2. b \in bundles({})
        BY <3>1, <4>1 DEF bundles
      <4>3. bundle_cost({} \cup b) <= problem.limit
        <5>1. {} \cup b = b
          OBVIOUS
        <5>2. QED
          BY <5>1 DEF Affordable
      <4>4. b \in affordable({})
        BY <4>2, <4>3 DEF affordable
      <4>5. QED
        BY <2>2, <4>4 DEF Unbeaten
    <3>4. QED
      BY <3>2, <3>3
  <2>4. ASSUME Cardinality(Items) <= MaxBundle PROVE value(taken) = value(oracle)
    <3>1. oracle \in Affordable /\ ~ beats(taken, oracle)
      BY <2>2, OracleExists
    <3>2. Cardinality(oracle) <= MaxBundle
      <4>1. oracle \subseteq Items
        BY <3>1 DEF Affordable
      <4>2. Cardinality(oracle) <= Cardinality(Items) /\ Cardinality(oracle) \in Nat
            /\ Cardinality(Items) \in Nat
        BY <4>1, InstancesAssumption, FS_Subset, FS_CardinalityType
      <4>3. QED
        BY <2>4, <4>2, MaxBundleAssumption
    <3>3. ~ beats(oracle, taken)
      BY <2>3, <3>1, <3>2
    <3>4. value(taken) \in Nat /\ value(oracle) \in Nat
      BY <2>2, CostAndValueTypes
    <3>5. QED
      BY <3>1, <3>3, <3>4 DEF beats
  <2>5. QED
    BY <2>3, <2>4
<1>2. QED
  BY <1>1, SolveInvariant, PTL

(* Carriers with a part of the witness each are covered one by one, all of *)
(* them.                                                                   *)
LEMMA ChainIsCovered ==
  ASSUME problem \in Instances, NEW w, NEW s, AffordableChain(w, s)
  PROVE  cover(w, Carriers(w, s))[{}] = Carriers(w, s)
<1>1. PICK C \in SUBSET Items : C = Carriers(w, s)
  BY DEF Carriers
<1>2. PICK a : a = cover(w, C)[{}]
  OBVIOUS
<1>3. a \in SUBSET C /\ useful(a, w, C) = {}
  <2>1. {} \in SUBSET Items /\ {} \cup C = C
    OBVIOUS
  <2>2. QED
    BY <1>2, <2>1, CoverEnds
<1>4. ASSUME NEW i \in C, i \notin a PROVE FALSE
  <2>1. problem.evidence[i].facts \cap w # {} /\ i \in Items
    BY <1>1 DEF Carriers
  <2>2. PICK f \in problem.evidence[i].facts \cap w : TRUE
    BY <2>1
  <2>3. f \notin FactsOf(a)
    <3>1. ASSUME NEW j \in a PROVE f \notin problem.evidence[j].facts
      <4>1. j \in C /\ i # j
        BY <1>3, <1>4
      <4>2. problem.evidence[i].facts \cap problem.evidence[j].facts \cap w = {}
        BY <1>1, <4>1 DEF AffordableChain
      <4>3. QED
        BY <4>2
    <3>2. QED
      BY <3>1 DEF FactsOf
  <2>4. PICK F : F = problem.evidence[i].facts \cap (w \ FactsOf(a))
    OBVIOUS
  <2>5. f \in F /\ F \in SUBSET Facts
    BY <2>1, <2>2, <2>3, <2>4, ProblemTypes
  <2>6. Cardinality(F) \in Nat /\ Cardinality(F) # 0
    BY <2>5, InstancesAssumption, FS_Subset, FS_CardinalityType, FS_EmptySet
  <2>7. i \in useful(a, w, C)
    BY <1>4, <2>4, <2>6 DEF useful, newly
  <2>8. QED
    BY <1>3, <2>7
<1>5. QED
  BY <1>1, <1>2, <1>3, <1>4

(* A chain of carriers that the budget allows enters whole: the answer is  *)
(* worth at least the requirement that it meets, in the scenario where it  *)
(* survives.                                                               *)
THEOREM ChainsAreWhole == SolveSpec => []ChainsEnterWhole
<1>1. ASSUME SolveInv PROVE ChainsEnterWhole
  <2>1. SUFFICES ASSUME solved, NEW r \in problem.requirements, NEW s \in problem.scenarios,
                        NEW w \in r.witnesses, AffordableChain(w, s)
                 PROVE  value(taken) >= s.probability * r.weight
    BY DEF ChainsEnterWhole
  <2>2. problem \in Instances /\ taken \in Affordable /\ Unbeaten(taken)
    BY <1>1, <2>1 DEF SolveInv
  <2>3. PICK C \in SUBSET Items : C = Carriers(w, s)
    BY DEF Carriers
  <2>4. cover(w, C)[{}] = C
    BY <2>1, <2>2, <2>3, ChainIsCovered
  <2>5. w # {} /\ w \subseteq FactsOf(C) /\ bundle_cost(C) <= problem.limit
    <3>1. w # {}
      BY <2>1, <2>2, ProblemTypes
    <3>2. QED
      BY <2>1, <2>3, <3>1 DEF AffordableChain
  <2>6. C # {}
    BY <2>5 DEF FactsOf
  <2>7. C \in completions({})
    <3>1. w \ surviving({}, s) = w
      BY DEF surviving, FactsOf
    <3>2. suppliers({}, w, s) = C
      BY <2>3 DEF suppliers, Carriers
    <3>3. C \in chains({}, w, s)
      BY <2>4, <2>5, <2>6, <3>1, <3>2 DEF chains
    <3>4. QED
      BY <3>3 DEF completions
  <2>8. C \in affordable({})
    <3>1. {} \cup C = C
      OBVIOUS
    <3>2. QED
      BY <2>5, <2>7, <3>1 DEF affordable
  <2>9. ~ beats(C, taken)
    BY <2>2, <2>8 DEF Unbeaten
  <2>10. r \in met(C, s)
    <3>1. {i \in C : active(i, s)} = C
      BY <2>3 DEF Carriers
    <3>2. w \subseteq surviving(C, s)
      BY <2>5, <3>1 DEF surviving
    <3>3. QED
      BY <3>2 DEF met
  <2>11. s.probability * r.weight <= value(C) /\ value(C) \in Nat /\ value(taken) \in Nat
         /\ s.probability * r.weight \in Nat
    <3>1. s.probability \in Nat /\ r.weight \in Nat
      BY <2>2, ProblemTypes
    <3>2. s.probability * r.weight \in Nat
      BY <3>1
    <3>3. QED
      BY <2>2, <2>10, <3>2, CostAndValueTypes
  <2>12. value(C) <= value(taken)
    BY <2>9, <2>11 DEF beats
  <2>13. QED
    BY <2>11, <2>12
<1>2. QED
  BY <1>1, SolveInvariant, PTL
=============================================================================
