------------------------------ MODULE NSGA2Proofs ------------------------------
(***************************************************************************)
(* Proofs about NSGA2: for every size of the population, number of          *)
(* generations and set of individuals, the sorting ranks by dominance, an   *)
(* overflowing first front keeps its extremes, and the answer is the best   *)
(* that the Pareto front offers.                                           *)
(***************************************************************************)
EXTENDS NSGA2, SequenceTheorems, WellFoundedInduction, NaturalsInduction, TLAPS

-----------------------------------------------------------------------------
(* THE INVARIANT                                                          *)

Everyone == DOMAIN combined
Sortings == {"scan", "walk"}
Selections == {"take", "sort", "replace", "panicked"}

BasicInv ==
  /\ population \in Seq(Founders \cup Bred) /\ Len(population) \in 1..PopulationSize
  /\ offspring \in Seq(Bred) /\ Len(offspring) = IF pc \in {"breed", "done"} THEN 0 ELSE PopulationSize
  /\ gen \in 0..MaxGenerations /\ (pc # "done" => gen < MaxGenerations)
  /\ curve \in Seq(0..NoFlow) /\ Len(curve) <= Window
  /\ pc \in {"breed", "done"} \cup Sortings \cup Selections

(* Who is in the first k fronts of f.                                      *)
Upto(f, k) == UNION {Range(f[m]) : m \in 1..k}
Ascending(s) == \A x, y \in DOMAIN s : x < y => s[x] < s[y]

RankTypes ==
  /\ fronts \in Seq(Seq(Everyone) \ {<<>>})
  /\ nextFront \in Seq(Everyone)
  /\ pending \subseteq Everyone
  /\ IF pc \in {"breed", "done"} THEN over = <<>> /\ fronts = <<>> /\ nextFront = <<>> /\ pending = {}
     ELSE over \in [Everyone -> SUBSET Everyone]

(* Nobody is ranked twice.                                                 *)
Apart ==
  /\ \A k \in DOMAIN fronts : IsInjective(fronts[k])
  /\ \A k, m \in DOMAIN fronts : k < m => Range(fronts[k]) \cap Range(fronts[m]) = {}
  /\ IsInjective(nextFront)
  /\ Range(nextFront) \cap Upto(fronts, Len(fronts)) = {}

(* Whoever dominates a member of a front is in an earlier one, and one of   *)
(* them in the one just before.                                            *)
Layered ==
  \A k \in DOMAIN fronts : \A j \in Range(fronts[k]) :
    /\ Dominators(combined, j) \subseteq Upto(fronts, k - 1)
    /\ k > 1 => Dominators(combined, j) \cap Range(fronts[k - 1]) # {}

(* Whose dominatedSet has been walked as far as j.                         *)
Walked(j) ==
  IF pc = "scan" THEN {}
  ELSE Upto(fronts, Len(fronts) - 1) \cup {currentFront[w] : w \in 1..walker - 1}
         \cup (IF j \in pending THEN {} ELSE {currentFront[walker]})

Counted ==
  pc \in Sortings => \A j \in Everyone : over[j] = Dominators(combined, j) \ Walked(j)

(* Those whose count is zero are those in a front.                         *)
FreeAreRanked ==
  pc \in Sortings => \A j \in Everyone :
    (over[j] = {} /\ (pc = "scan" => j \notin pending))
      <=> j \in Upto(fronts, Len(fronts)) \cup Range(nextFront)

Scanning ==
  pc = "scan" =>
    /\ fronts = <<>>
    /\ Ascending(nextFront)
    /\ \A i \in Everyone \ pending, j \in pending : i < j

Walking ==
  pc = "walk" =>
    /\ fronts # <<>>
    /\ walker \in 1..Len(currentFront)
    /\ pending \subseteq Dominated(currentFront[walker])
    /\ \A j \in Range(nextFront) : Dominators(combined, j) \cap Range(currentFront) # {}

FirstAscends == fronts # <<>> => Ascending(fronts[1])
AllRanked == pc \in Selections => Upto(fronts, Len(fronts)) = Everyone

RankInv ==
  /\ RankTypes /\ Apart /\ Layered /\ Counted /\ FreeAreRanked
  /\ Scanning /\ Walking /\ FirstAscends /\ AllRanked

(* Two members of the front at hand between which all its values of an      *)
(* objective are.                                                          *)
Bounds(o, lo, hi) ==
  /\ lo \in Range(front) /\ hi \in Range(front) /\ lo # hi
  /\ \A i \in Range(front) : combined[lo][o] <= combined[i][o] /\ combined[i][o] <= combined[hi][o]

EndsInv ==
  /\ job = "flow" => ends = {}
  /\ job = "cost" => \E a, b \in Everyone : ends = {a, b} /\ Bounds("flow", a, b)
  /\ job = "crowding" /\ Len(front) > 2 =>
       \E a, b, c, d \in Everyone : ends = {a, b, c, d} /\ Bounds("flow", a, b) /\ Bounds("cost", c, d)

(* The exchange sort has the least at the places before i, in order, and    *)
(* the least of those compared at i.                                       *)
Sorted ==
  /\ \A x, y \in DOMAIN sorted : x < at[1] /\ x < y => Key(sorted[x]) <= Key(sorted[y])
  /\ \A y \in DOMAIN sorted : at[1] < y /\ y < at[2] => Key(sorted[at[1]]) <= Key(sorted[y])

SortInv ==
  pc = "sort" =>
    /\ taken < Len(fronts) /\ Len(chosen) < PopulationSize /\ Len(chosen) + Len(front) > PopulationSize
    /\ Len(sorted) = Len(front) /\ IsInjective(sorted) /\ Range(sorted) = Range(front)
    /\ at \in Nat \X Nat /\ at[1] \in 1..Len(sorted) /\ at[2] \in at[1] + 1..Len(sorted) + 1
    /\ job \in Objectives \cup {"crowding"} /\ (job \in Objectives => Len(front) > 2)
    /\ gap \in [Objectives -> [Range(front) -> 0..Most]]
    /\ span \in [Objectives -> 0..Most]
    /\ EndsInv
    /\ Sorted

(* What the selection keeps of a first front that exceeds the population.   *)
KeptInv ==
  pc = "replace" /\ PopulationSize >= 3 /\ Len(fronts[1]) > PopulationSize =>
    /\ Len(chosen) = PopulationSize
    /\ \A o \in Objectives : \A i \in Range(fronts[1]) : combined[i].valid =>
         \E k \in DOMAIN chosen : chosen[k].valid /\ chosen[k][o] <= combined[i][o]

SelectionInv ==
  /\ chosen \in Seq(Founders \cup Bred)
  /\ sorted \in Seq(Everyone) /\ ends \subseteq Everyone
  /\ taken \in 0..Len(fronts)
  /\ pc \notin Selections => chosen = <<>> /\ taken = 0
  /\ pc \notin {"sort", "replace"} => sorted = <<>> /\ ends = {} /\ span = NoSpan
  /\ taken = 0 /\ pc # "replace" => chosen = <<>>
  /\ taken > 0 => chosen # <<>> /\ Len(fronts[1]) <= PopulationSize
  /\ pc = "replace" => chosen # <<>>

SearchInv == BasicInv /\ RankInv /\ SelectionInv /\ SortInv /\ KeptInv
-----------------------------------------------------------------------------
(* DOMINANCE                                                              *)

LEMMA MinIs ==
  ASSUME NEW S \in SUBSET Nat, S # {}
  PROVE  Min(S) \in S /\ \A x \in S : Min(S) <= x
<1>1. PICK m \in S : \A x \in S : ~(<<x, m>> \in OpToRel(<, Nat))
  BY NatLessThanWellFounded, WFMin
<1>2. \A x \in S : ~(x < m)
  BY <1>1 DEF OpToRel
<1>3. \A x \in S : m <= x
  BY <1>2
<1> QED BY <1>3 DEF Min

LEMMA IndividualIs ==
  ASSUME NEW a \in Individuals
  PROVE  a.flow \in 0..Most /\ a.cost \in 0..Most /\ a.valid \in BOOLEAN /\ Most \in Nat
BY SearchAssumption DEF Individuals

(* What whoever dominates has less of.                                     *)
Weight(a) == IF a.valid THEN a.flow + a.cost ELSE 2 * Most + 1

LEMMA DominatesWeighs ==
  ASSUME NEW a \in Individuals, NEW b \in Individuals
  PROVE  /\ Weight(a) \in Nat
         /\ dominates(a, b) => Weight(a) < Weight(b)
<1>1. /\ a.flow \in 0..Most /\ a.cost \in 0..Most /\ a.valid \in BOOLEAN /\ Most \in Nat
      /\ b.flow \in 0..Most /\ b.cost \in 0..Most /\ b.valid \in BOOLEAN
  BY IndividualIs
<1>2. CASE a.valid /\ b.valid
  <2>1. Weight(a) = a.flow + a.cost /\ Weight(b) = b.flow + b.cost
    BY <1>2 DEF Weight
  <2>2. dominates(a, b) => AsGood(a, b) /\ ~AsGood(b, a)
    BY <1>2 DEF dominates
  <2> QED BY <1>1, <2>1, <2>2 DEF AsGood
<1>3. CASE a.valid /\ ~b.valid
  <2>1. Weight(a) = a.flow + a.cost /\ Weight(b) = 2 * Most + 1
    BY <1>3 DEF Weight
  <2> QED BY <1>1, <2>1
<1>4. CASE ~a.valid
  <2>1. Weight(a) = 2 * Most + 1 /\ ~dominates(a, b)
    BY <1>4 DEF Weight, dominates
  <2> QED BY <1>1, <2>1
<1> QED BY <1>1, <1>2, <1>3, <1>4

(* Of any individuals there is one that none of them dominates.            *)
LEMMA SomeUndominated ==
  ASSUME NEW p \in Seq(Individuals), NEW U \in SUBSET (DOMAIN p), U # {}
  PROVE  \E j \in U : Dominators(p, j) \cap U = {}
<1>1. \A i \in DOMAIN p : p[i] \in Individuals
  BY ElementOfSeq, LenProperties
<1> DEFINE W == {Weight(p[i]) : i \in U}
<1>2. W \in SUBSET Nat /\ W # {}
  BY <1>1, DominatesWeighs
<1>3. Min(W) \in W /\ \A x \in W : Min(W) <= x
  <2> HIDE DEF W
  <2> QED BY <1>2, MinIs
<1>4. PICK j \in U : \A i \in U : Weight(p[j]) <= Weight(p[i])
  BY <1>3
<1>5. ASSUME NEW i \in U, dominates(p[i], p[j]) PROVE FALSE
  <2>1. Weight(p[i]) < Weight(p[j]) /\ Weight(p[i]) \in Nat /\ Weight(p[j]) \in Nat
    BY <1>1, <1>5, DominatesWeighs
  <2> QED BY <1>4, <2>1
<1> QED BY <1>5 DEF Dominators

-----------------------------------------------------------------------------
(* THE ANSWER                                                             *)

(* Of the valid individuals of the least flow, one of the least cost is in  *)
(* the Pareto front.                                                       *)
LEMMA BestIsInFront ==
  ASSUME NEW p \in Seq(Individuals), NEW v \in DOMAIN p, p[v].valid,
         \A k \in DOMAIN p : p[k].valid => p[v].flow <= p[k].flow
  PROVE  \E i \in ParetoFront(p) : p[i].flow = p[v].flow
<1>1. \A i \in DOMAIN p : /\ p[i].flow \in 0..Most /\ p[i].cost \in 0..Most
                          /\ p[i].valid \in BOOLEAN /\ Most \in Nat
  BY ElementOfSeq, LenProperties, IndividualIs
<1> DEFINE B == {i \in DOMAIN p : p[i].valid /\ p[i].flow = p[v].flow}
           C == {p[i].cost : i \in B}
<1>2. C \in SUBSET Nat /\ C # {}
  BY <1>1
<1>3. Min(C) \in C /\ \A x \in C : Min(C) <= x
  <2> HIDE DEF C
  <2> QED BY <1>2, MinIs
<1>4. PICK i \in B : \A k \in B : p[i].cost <= p[k].cost
  BY <1>3
<1>5. ASSUME NEW k \in DOMAIN p, dominates(p[k], p[i]) PROVE FALSE
  <2>1. p[k].valid /\ AsGood(p[k], p[i]) /\ ~AsGood(p[i], p[k])
    BY <1>5 DEF dominates
  <2>2. p[k].flow <= p[v].flow /\ p[v].flow <= p[k].flow
    BY <2>1 DEF AsGood
  <2>3. k \in B
    BY <1>1, <2>1, <2>2
  <2>4. p[i].cost <= p[k].cost /\ p[k].cost <= p[i].cost
    BY <1>4, <2>1, <2>3 DEF AsGood
  <2> QED BY <1>1, <2>1, <2>2, <2>4 DEF AsGood
<1>6. i \in ParetoFront(p)
  BY <1>5 DEF ParetoFront, Dominators
<1> QED BY <1>6

LEMMA BestFlowIs ==
  ASSUME NEW p \in Seq(Individuals)
  PROVE  /\ BestFlow(p) \in 0..NoFlow
         /\ \A v \in DOMAIN p : p[v].valid /\ (\A k \in DOMAIN p : p[k].valid => p[v].flow <= p[k].flow)
              => BestFlow(p) = p[v].flow
<1>1. /\ Most \in Nat
      /\ \A i \in DOMAIN p : p[i].flow \in 0..Most
  BY ElementOfSeq, LenProperties, IndividualIs, SearchAssumption
<1> DEFINE F == {NoFlow} \cup {p[i].flow : i \in ParetoFront(p)}
<1>2. F \in SUBSET (0..NoFlow) /\ F # {}
  BY <1>1 DEF NoFlow, ParetoFront
<1>3. F \in SUBSET Nat
  BY <1>1, <1>2 DEF NoFlow
<1>4. Min(F) \in F /\ \A x \in F : Min(F) <= x
  <2> HIDE DEF F
  <2> QED BY <1>2, <1>3, MinIs
<1>5. BestFlow(p) = Min(F)
  BY DEF BestFlow
<1>6. ASSUME NEW v \in DOMAIN p, p[v].valid, \A k \in DOMAIN p : p[k].valid => p[v].flow <= p[k].flow
      PROVE  Min(F) = p[v].flow
  <2>1. p[v].flow \in F
    BY <1>6, BestIsInFront
  <2>2. \A x \in F : p[v].flow <= x
    BY <1>1, <1>6 DEF NoFlow, ParetoFront
  <2> HIDE DEF F
  <2>3. Min(F) <= p[v].flow /\ p[v].flow <= Min(F) /\ Min(F) \in Nat /\ p[v].flow \in Nat
    BY <1>3, <1>4, <2>1, <2>2
  <2> QED BY <2>3
<1> HIDE DEF F
<1> QED BY <1>2, <1>4, <1>5, <1>6

LEMMA AnswerIs ==
  ASSUME NEW p \in Seq(Individuals), \E k \in DOMAIN p : p[k].valid
  PROVE  Answer(p).valid /\ Answer(p).flow = BestFlow(p)
<1>1. \A i \in DOMAIN p : p[i].flow \in 0..Most
  BY ElementOfSeq, LenProperties, IndividualIs
<1> DEFINE offered == {i \in DOMAIN p : p[i].valid}
           best    == {i \in offered : \A k \in offered : p[i].flow <= p[k].flow}
           F       == {p[i].flow : i \in offered}
<1>2. F \in SUBSET Nat /\ F # {}
  BY <1>1
<1>3. Min(F) \in F /\ \A x \in F : Min(F) <= x
  <2> HIDE DEF F
  <2> QED BY <1>2, MinIs
<1>4. best # {} /\ best \in SUBSET Nat
  <2>1. PICK i \in offered : \A x \in F : p[i].flow <= x
    BY <1>3
  <2>2. i \in best
    BY <2>1
  <2>3. DOMAIN p = 1..Len(p) /\ Len(p) \in Nat
    BY LenProperties
  <2> QED BY <2>2, <2>3
<1>5. Min(best) \in best
  <2> HIDE DEF best
  <2> QED BY <1>4, MinIs
<1>6. Answer(p) = p[Min(best)]
  BY DEF Answer, MayAnswer
<1>7. PICK v \in best : v = Min(best)
  BY <1>5
<1>8. BestFlow(p) = p[v].flow
  BY BestFlowIs
<1> QED BY <1>6, <1>7, <1>8

-----------------------------------------------------------------------------
(* WHAT THE INVARIANT IS ABOUT                                            *)

LEMMA CombinedIs ==
  ASSUME BasicInv
  PROVE  /\ combined \in Seq(Founders \cup Bred) /\ combined \in Seq(Individuals)
         /\ Everyone = 1..Len(combined) /\ Len(combined) \in Nat /\ Everyone # {}
         /\ \A i \in Everyone : combined[i] \in Founders \cup Bred /\ combined[i] \in Individuals
         /\ Founders \cup Bred \subseteq Individuals
<1>1. Founders \cup Bred \subseteq Individuals
  BY SearchAssumption
<1>2. population \in Seq(Founders \cup Bred) /\ offspring \in Seq(Founders \cup Bred) /\ Len(population) \in 1..PopulationSize
  BY SeqMonotonic DEF BasicInv
<1>3. combined \in Seq(Founders \cup Bred) /\ Len(combined) = Len(population) + Len(offspring)
  BY <1>2, ConcatProperties DEF combined
<1>4. combined \in Seq(Individuals)
  BY <1>1, <1>3, SeqMonotonic
<1>5. Len(population) \in Nat /\ Len(population) >= 1 /\ Len(offspring) \in Nat
  BY <1>2, LenProperties
<1>6. Everyone = 1..Len(combined) /\ Len(combined) \in Nat /\ Len(combined) >= 1
  BY <1>3, <1>5, LenProperties DEF Everyone
<1>7. \A i \in Everyone : combined[i] \in Founders \cup Bred
  BY <1>3, <1>6, ElementOfSeq
<1> QED BY <1>1, <1>3, <1>4, <1>6, <1>7

LEMMA DominatorsAre ==
  /\ \A j : Dominators(combined, j) \subseteq Everyone
  /\ \A i, j \in Everyone : j \in Dominated(i) <=> i \in Dominators(combined, j)
BY DEF Dominators, Dominated, Everyone

LEMMA UptoIs ==
  ASSUME NEW f
  PROVE  /\ Upto(f, 0) = {}
         /\ \A k \in Nat : Upto(f, k + 1) = Upto(f, k) \cup Range(f[k + 1])
         /\ \A k \in Nat \ {0} : Upto(f, k) = Upto(f, k - 1) \cup Range(f[k])
         /\ \A k \in Nat : \A m \in 1..k : Range(f[m]) \subseteq Upto(f, k)
         /\ \A k, m \in Nat : k <= m => Upto(f, k) \subseteq Upto(f, m)
         /\ \A k \in Nat : \A j \in Upto(f, k) : \E m \in 1..k : j \in Range(f[m])
<1>1. \A k \in Nat : 1..k + 1 = (1..k) \cup {k + 1}
  OBVIOUS
<1>2. \A k \in Nat : Upto(f, k + 1) = Upto(f, k) \cup Range(f[k + 1])
  BY <1>1, Zenon DEF Upto
<1>3. \A k \in Nat \ {0} : k - 1 \in Nat /\ (k - 1) + 1 = k
  OBVIOUS
<1>4. \A k \in Nat \ {0} : Upto(f, k) = Upto(f, k - 1) \cup Range(f[k])
  <2> SUFFICES ASSUME NEW k \in Nat \ {0} PROVE Upto(f, k) = Upto(f, k - 1) \cup Range(f[k])
    OBVIOUS
  <2>1. Upto(f, (k - 1) + 1) = Upto(f, k - 1) \cup Range(f[(k - 1) + 1])
    BY <1>2, <1>3
  <2> QED BY <1>3, <2>1
<1>5. \A k, m \in Nat : k <= m => 1..k \subseteq 1..m
  OBVIOUS
<1>6. Upto(f, 0) = {}
  BY DEF Upto
<1> QED BY <1>2, <1>4, <1>5, <1>6 DEF Upto

LEMMA UptoAppended ==
  ASSUME NEW T, NEW f \in Seq(T), NEW s \in T
  PROVE  /\ \A k \in 0..Len(f) : Upto(Append(f, s), k) = Upto(f, k)
         /\ Upto(Append(f, s), Len(f) + 1) = Upto(f, Len(f)) \cup Range(s)
<1>1. /\ \A m \in 1..Len(f) : Append(f, s)[m] = f[m]
      /\ Append(f, s)[Len(f) + 1] = s /\ Len(f) \in Nat
  BY AppendProperties, LenProperties
<1>2. ASSUME NEW k \in 0..Len(f) PROVE Upto(Append(f, s), k) = Upto(f, k)
  <2>1. \A m \in 1..k : Append(f, s)[m] = f[m]
    BY <1>1
  <2> QED BY <2>1 DEF Upto
<1>3. Upto(Append(f, s), Len(f)) = Upto(f, Len(f))
  BY <1>1, <1>2
<1>4. Upto(Append(f, s), Len(f) + 1) = Upto(Append(f, s), Len(f)) \cup Range(Append(f, s)[Len(f) + 1])
  BY <1>1, UptoIs
<1> QED BY <1>1, <1>2, <1>3, <1>4

(* What the next front has once j has been considered.                     *)
LEMMA JoinedHas ==
  ASSUME NEW s \in Seq(Everyone), NEW j \in Everyone
  PROVE  /\ Append(s, j) \in Seq(Everyone) /\ Range(Append(s, j)) = Range(s) \cup {j}
         /\ Len(Append(s, j)) = Len(s) + 1 /\ Append(s, j)[Len(s) + 1] = j
         /\ \A x \in DOMAIN s : Append(s, j)[x] = s[x]
         /\ DOMAIN Append(s, j) = DOMAIN s \cup {Len(s) + 1}
         /\ IsInjective(s) /\ j \notin Range(s) => IsInjective(Append(s, j))
<1>1. /\ DOMAIN s = 1..Len(s) /\ Len(s) \in Nat /\ Append(s, j) \in Seq(Everyone)
      /\ Len(Append(s, j)) = Len(s) + 1 /\ Append(s, j)[Len(s) + 1] = j
      /\ \A x \in 1..Len(s) : Append(s, j)[x] = s[x]
  BY AppendProperties, LenProperties
<1>2. DOMAIN Append(s, j) = 1..Len(s) + 1
  BY <1>1, LenProperties
<1>3. DOMAIN Append(s, j) = DOMAIN s \cup {Len(s) + 1}
  BY <1>1, <1>2
<1>4. Range(Append(s, j)) = Range(s) \cup {j}
  BY <1>1, <1>3 DEF Range
<1>5. IsInjective(s) /\ j \notin Range(s) => IsInjective(Append(s, j))
  BY <1>1, <1>3 DEF IsInjective, Range
<1> QED BY <1>1, <1>3, <1>4, <1>5

LEMMA CurrentIs ==
  ASSUME RankTypes, fronts # <<>>
  PROVE  /\ Len(fronts) \in Nat \ {0} /\ DOMAIN fronts = 1..Len(fronts)
         /\ currentFront \in Seq(Everyone) \ {<<>>} /\ Len(currentFront) \in Nat \ {0}
         /\ DOMAIN currentFront = 1..Len(currentFront)
         /\ \A w \in 1..Len(currentFront) : currentFront[w] \in Everyone /\ currentFront[w] \in Range(currentFront)
         /\ Upto(fronts, Len(fronts)) = Upto(fronts, Len(fronts) - 1) \cup Range(currentFront)
         /\ Range(currentFront) = {currentFront[w] : w \in 1..Len(currentFront)}
<1>1. fronts \in Seq(Seq(Everyone) \ {<<>>})
  BY DEF RankTypes
<1>2. Len(fronts) \in Nat \ {0} /\ DOMAIN fronts = 1..Len(fronts)
  BY <1>1, EmptySeq, LenProperties
<1>3. currentFront \in Seq(Everyone) \ {<<>>}
  BY <1>1, <1>2, ElementOfSeq DEF currentFront
<1>4. Len(currentFront) \in Nat \ {0} /\ DOMAIN currentFront = 1..Len(currentFront)
  BY <1>3, EmptySeq, LenProperties
<1>5. \A w \in 1..Len(currentFront) : currentFront[w] \in Everyone /\ currentFront[w] \in Range(currentFront)
  BY <1>3, <1>4, ElementOfSeq DEF Range
<1>6. Upto(fronts, Len(fronts)) = Upto(fronts, Len(fronts) - 1) \cup Range(currentFront)
  BY <1>2, UptoIs DEF currentFront
<1> QED BY <1>2, <1>3, <1>4, <1>5, <1>6 DEF Range

-----------------------------------------------------------------------------
(* THE SORTING                                                            *)

LEMMA CombinedStays ==
  ASSUME UNCHANGED <<population, offspring>>
  PROVE  /\ combined' = combined /\ Everyone' = Everyone
         /\ \A j : Dominators(combined, j)' = Dominators(combined, j) /\ Dominated(j)' = Dominated(j)
BY DEF combined, Everyone, Dominators, Dominated

LEMMA PendingIs ==
  ASSUME BasicInv, RankTypes, pending # {}
  PROVE  /\ Min(pending) \in pending /\ Min(pending) \in Everyone
         /\ \A k \in pending : Min(pending) <= k
<1>1. Everyone \in SUBSET Nat /\ pending \subseteq Everyone
  BY CombinedIs DEF RankTypes
<1>2. pending \in SUBSET Nat
  BY <1>1
<1> QED BY <1>1, <1>2, MinIs

(* What is ranked stays ranked.                                            *)
LEMMA RankedStays ==
  ASSUME RankInv, UNCHANGED <<population, offspring, fronts>>
  PROVE  Layered' /\ FirstAscends'
<1>1. Layered'
  BY CombinedStays DEF RankInv, Layered, Upto
<1>2. FirstAscends'
  BY DEF RankInv, FirstAscends, Ascending
<1> QED BY <1>1, <1>2

LEMMA NobodyIsRanked ==
  DOMAIN <<>> = {} /\ Len(<<>>) = 0 /\ Range(<<>>) = {} /\ Upto(<<>>, 0) = {}
<1>1. DOMAIN <<>> = {} /\ Len(<<>>) = 0
  BY EmptySeq, LenProperties
<1>2. Range(<<>>) = {}
  BY <1>1 DEF Range
<1> QED BY <1>1, <1>2, UptoIs

LEMMA BreedRanks ==
  ASSUME SearchInv, Breed, BasicInv'
  PROVE  RankInv'
<1>1. /\ fronts' = <<>> /\ nextFront' = <<>> /\ pc' = "scan"
      /\ over' = [j \in Everyone' |-> Dominators(combined', j)] /\ pending' = Everyone'
  BY DEF SearchInv, RankInv, RankTypes, Breed, combined, Everyone
<1>2. /\ Upto(fronts, Len(fronts))' = {} /\ Range(nextFront)' = {} /\ Apart' /\ Layered' /\ FirstAscends'
  BY <1>1, NobodyIsRanked DEF Apart, Layered, FirstAscends, IsInjective
<1>3. \A j : Dominators(combined, j)' \subseteq Everyone'
  BY DEF Dominators, Everyone
<1>4. RankTypes'
  BY <1>1, <1>3, EmptySeq DEF RankTypes
<1>5. Counted'
  BY <1>1 DEF Counted, Walked
<1>6. FreeAreRanked'
  BY <1>1, <1>2 DEF FreeAreRanked
<1>7. Scanning'
  <2>1. DOMAIN (nextFront') = {}
    BY <1>1, EmptySeq, LenProperties
  <2> QED BY <1>1, <2>1 DEF Scanning, Ascending
<1>8. Walking' /\ AllRanked'
  BY <1>1 DEF Walking, AllRanked, Selections
<1> QED BY <1>2, <1>4, <1>5, <1>6, <1>7, <1>8 DEF RankInv

(* Joining the next front: nobody twice.                                   *)
LEMMA JoiningKeepsApart ==
  ASSUME RankInv, UNCHANGED <<population, offspring, fronts>>,
         NEW j \in Everyone, NEW left, nextFront' = Joined(j, left),
         left = {} => j \notin Upto(fronts, Len(fronts)) \cup Range(nextFront)
  PROVE  /\ Apart' /\ nextFront' \in Seq(Everyone)
         /\ Range(nextFront)' = Range(nextFront) \cup (IF left = {} THEN {j} ELSE {})
<1>1. nextFront \in Seq(Everyone) /\ Apart
  BY DEF RankInv, RankTypes
<1>2. Upto(fronts, Len(fronts))' = Upto(fronts, Len(fronts))
  BY DEF Upto
<1>3. CASE left = {}
  <2>1. nextFront' = Append(nextFront, j)
    BY <1>3 DEF Joined
  <2>2. /\ nextFront' \in Seq(Everyone) /\ Range(nextFront') = Range(nextFront) \cup {j}
        /\ IsInjective(nextFront')
    <3>1. IsInjective(nextFront) /\ j \notin Range(nextFront)
      BY <1>1, <1>3 DEF Apart
    <3>2. PICK s \in Seq(Everyone) : s = nextFront
      BY <1>1
    <3>3. /\ Append(s, j) \in Seq(Everyone) /\ Range(Append(s, j)) = Range(s) \cup {j}
          /\ IsInjective(s) /\ j \notin Range(s) => IsInjective(Append(s, j))
      BY JoinedHas
    <3> QED BY <2>1, <3>1, <3>2, <3>3
  <2> QED BY <1>1, <1>2, <1>3, <2>2 DEF Apart
<1>4. CASE left # {}
  <2>1. nextFront' = nextFront
    BY <1>4 DEF Joined
  <2> QED BY <1>1, <1>2, <1>4, <2>1 DEF Apart
<1> QED BY <1>3, <1>4

LEMMA ScanOneRanks ==
  ASSUME SearchInv, ScanOne
  PROVE  RankInv'
<1>1. PICK j : /\ j = Min(pending) /\ nextFront' = Joined(j, over[j]) /\ pending' = pending \ {j}
  BY DEF ScanOne
<1>2. /\ pc = "scan" /\ pending # {}
      /\ UNCHANGED <<population, offspring, pc, fronts, over>>
  BY DEF ScanOne
<1>3. BasicInv /\ RankInv /\ RankTypes /\ fronts = <<>>
  BY <1>2 DEF SearchInv, RankInv, Scanning
<1>4. j \in pending /\ j \in Everyone /\ \A k \in pending : j <= k
  BY <1>1, <1>2, <1>3, PendingIs
<1>5. j \notin Upto(fronts, Len(fronts)) \cup Range(nextFront)
  BY <1>2, <1>3, <1>4 DEF RankInv, FreeAreRanked, Sortings
<1>6. /\ Apart' /\ nextFront' \in Seq(Everyone)
      /\ Range(nextFront)' = Range(nextFront) \cup (IF over[j] = {} THEN {j} ELSE {})
  BY <1>1, <1>2, <1>3, <1>4, <1>5, JoiningKeepsApart
<1>7. combined' = combined /\ Everyone' = Everyone
  BY <1>2, CombinedStays
<1>8. RankTypes'
  BY <1>1, <1>2, <1>3, <1>6, <1>7 DEF RankTypes
<1>9. Counted'
  BY <1>2, <1>3, <1>7, CombinedStays DEF RankInv, Counted, Walked
<1>10. FreeAreRanked'
  <2>1. Upto(fronts, Len(fronts))' = Upto(fronts, Len(fronts))
    BY <1>2 DEF Upto
  <2> QED BY <1>1, <1>2, <1>3, <1>4, <1>5, <1>6, <1>7, <2>1 DEF RankInv, FreeAreRanked, Sortings
<1>11. Scanning'
  <2>1. Everyone \subseteq Nat
    BY <1>3, CombinedIs
  <2>2. \A i \in Everyone' \ pending', k \in pending' : i < k
    <3> SUFFICES ASSUME NEW i \in Everyone \ pending', NEW k \in pending' PROVE i < k
      BY <1>7
    <3>1. CASE i = j
      <4>1. j <= k /\ k # j /\ j \in Nat /\ k \in Nat
        BY <1>1, <1>3, <1>4, <2>1 DEF RankTypes
      <4> QED BY <3>1, <4>1
    <3>2. CASE i # j
      BY <1>1, <1>2, <1>3, <3>2 DEF RankInv, Scanning
    <3> QED BY <3>1, <3>2
  <2>3. Ascending(nextFront)
    BY <1>2, <1>3 DEF RankInv, Scanning
  <2>4. Ascending(nextFront')
    <3>1. CASE over[j] = {}
      <4>1. nextFront' = Append(nextFront, j) /\ nextFront \in Seq(Everyone)
        BY <1>1, <1>3, <3>1 DEF Joined, RankTypes
      <4>2. /\ DOMAIN (nextFront') = DOMAIN nextFront \cup {Len(nextFront) + 1}
            /\ nextFront'[Len(nextFront) + 1] = j
            /\ \A x \in DOMAIN nextFront : nextFront'[x] = nextFront[x]
        BY <1>4, <4>1, JoinedHas
      <4>3. DOMAIN nextFront = 1..Len(nextFront) /\ Len(nextFront) \in Nat
        BY <4>1, LenProperties
      <4>4. \A x \in DOMAIN nextFront : nextFront[x] \in Everyone /\ nextFront[x] \notin pending
        BY <1>2, <1>3, <4>1, <4>3, ElementOfSeq DEF RankInv, FreeAreRanked, Sortings, Range
      <4>5. \A x \in DOMAIN nextFront : nextFront[x] < j
        BY <1>2, <1>3, <1>4, <4>4 DEF RankInv, Scanning
      <4>6. ASSUME NEW x \in DOMAIN (nextFront'), NEW y \in DOMAIN (nextFront'), x < y
            PROVE  nextFront'[x] < nextFront'[y]
        <5>1. x \in DOMAIN nextFront
          BY <4>2, <4>3, <4>6
        <5>2. CASE y \in DOMAIN nextFront
          BY <2>3, <4>2, <4>6, <5>1, <5>2 DEF Ascending
        <5>3. CASE y = Len(nextFront) + 1
          BY <4>2, <4>5, <5>1, <5>3
        <5> QED BY <4>2, <5>2, <5>3
      <4> QED BY <4>6 DEF Ascending
    <3>2. CASE over[j] # {}
      BY <1>1, <2>3, <3>2 DEF Joined
    <3> QED BY <3>1, <3>2
  <2> QED BY <1>2, <1>3, <2>2, <2>4 DEF Scanning
<1>12. Walking' /\ AllRanked'
  BY <1>2 DEF Walking, AllRanked, Selections
<1>13. Layered' /\ FirstAscends'
  BY <1>2, <1>3, RankedStays
<1> QED BY <1>6, <1>8, <1>9, <1>10, <1>11, <1>12, <1>13 DEF RankInv

(* The member whose dominatedSet is walked is in no front before, nor       *)
(* earlier in its own.                                                     *)
LEMMA WalkerIsNew ==
  ASSUME BasicInv, RankInv, pc = "walk"
  PROVE  /\ currentFront[walker] \in Everyone /\ currentFront[walker] \in Range(currentFront)
         /\ currentFront[walker] \notin Upto(fronts, Len(fronts) - 1)
         /\ currentFront[walker] \notin {currentFront[w] : w \in 1..walker - 1}
<1>1. RankTypes /\ Apart /\ fronts # <<>> /\ walker \in 1..Len(currentFront)
  BY DEF RankInv, Walking
<1>2. currentFront[walker] \in Everyone /\ currentFront[walker] \in Range(currentFront)
  BY <1>1, CurrentIs
<1>3. currentFront[walker] \notin Upto(fronts, Len(fronts) - 1)
  <2> SUFFICES ASSUME currentFront[walker] \in Upto(fronts, Len(fronts) - 1) PROVE FALSE
    OBVIOUS
  <2>1. Len(fronts) \in Nat \ {0} /\ DOMAIN fronts = 1..Len(fronts)
    BY <1>1, CurrentIs
  <2>2. PICK m \in 1..Len(fronts) - 1 : currentFront[walker] \in Range(fronts[m])
    BY <2>1, UptoIs
  <2>3. m \in DOMAIN fronts /\ Len(fronts) \in DOMAIN fronts /\ m < Len(fronts)
    BY <2>1, <2>2
  <2>4. Range(fronts[m]) \cap Range(currentFront) = {}
    BY <1>1, <2>3 DEF Apart, currentFront
  <2> QED BY <1>2, <2>2, <2>4
<1>4. currentFront[walker] \notin {currentFront[w] : w \in 1..walker - 1}
  <2>1. IsInjective(currentFront)
    BY <1>1, CurrentIs DEF Apart, currentFront
  <2>2. \A w \in 1..walker - 1 : w \in 1..Len(currentFront) /\ w # walker
    BY <1>1, CurrentIs
  <2>3. DOMAIN currentFront = 1..Len(currentFront)
    BY <1>1, CurrentIs
  <2> QED BY <1>1, <2>1, <2>2, <2>3 DEF IsInjective
<1> QED BY <1>2, <1>3, <1>4

LEMMA WalkOneRanks ==
  ASSUME SearchInv, WalkOne
  PROVE  RankInv'
<1>1. PICK j, c : /\ j = Min(pending) /\ c = currentFront[walker]
                  /\ over' = [over EXCEPT ![j] = @ \ {c}]
                  /\ nextFront' = Joined(j, over'[j]) /\ pending' = pending \ {j}
  BY DEF WalkOne
<1>2. /\ pc = "walk" /\ pc' = "walk" /\ pending # {}
      /\ UNCHANGED <<population, offspring, fronts, walker>>
  BY DEF WalkOne
<1>3. BasicInv /\ RankInv /\ RankTypes
  BY DEF SearchInv, RankInv
<1>4. j \in pending /\ j \in Everyone
  BY <1>1, <1>2, <1>3, PendingIs
<1>5. over \in [Everyone -> SUBSET Everyone]
  BY <1>2, <1>3 DEF RankTypes
<1>6. /\ \A i \in Everyone : over[i] = Dominators(combined, i) \ Walked(i)
      /\ \A i \in Everyone : over[i] = {} <=> i \in Upto(fronts, Len(fronts)) \cup Range(nextFront)
  BY <1>2, <1>3 DEF RankInv, Counted, FreeAreRanked, Sortings
<1>7. /\ fronts # <<>> /\ walker \in 1..Len(currentFront) /\ pending \subseteq Dominated(c)
      /\ \A i \in Range(nextFront) : Dominators(combined, i) \cap Range(currentFront) # {}
  BY <1>1, <1>2, <1>3 DEF RankInv, Walking
<1>8. c \in Everyone /\ c \in Range(currentFront) /\ c \in Dominators(combined, j)
  BY <1>1, <1>2, <1>3, <1>4, <1>7, WalkerIsNew, DominatorsAre
<1>9. Walked(j) = Upto(fronts, Len(fronts) - 1) \cup {currentFront[w] : w \in 1..walker - 1}
  BY <1>2, <1>4 DEF Walked
<1>10. c \in over[j]
  BY <1>1, <1>2, <1>3, <1>4, <1>6, <1>8, <1>9, WalkerIsNew
<1>11. j \notin Upto(fronts, Len(fronts)) \cup Range(nextFront)
  BY <1>4, <1>6, <1>10
<1>12. /\ Apart' /\ nextFront' \in Seq(Everyone)
       /\ Range(nextFront)' = Range(nextFront) \cup (IF over'[j] = {} THEN {j} ELSE {})
  BY <1>1, <1>2, <1>3, <1>4, <1>11, JoiningKeepsApart
<1>13. combined' = combined /\ Everyone' = Everyone /\ currentFront' = currentFront
       /\ Upto(fronts, Len(fronts))' = Upto(fronts, Len(fronts))
       /\ Upto(fronts, Len(fronts) - 1)' = Upto(fronts, Len(fronts) - 1)
  BY <1>2, CombinedStays DEF currentFront, Upto
<1>14. over' \in [Everyone -> SUBSET Everyone] /\ over'[j] = over[j] \ {c}
       /\ \A i \in Everyone : i # j => over'[i] = over[i]
  BY <1>1, <1>4, <1>5
<1>15. RankTypes'
  BY <1>1, <1>2, <1>3, <1>12, <1>13, <1>14 DEF RankTypes
<1>16. Counted'
  <2> SUFFICES ASSUME NEW i \in Everyone PROVE over'[i] = Dominators(combined, i) \ Walked(i)'
    BY <1>2, <1>13, CombinedStays DEF Counted
  <2>1. CASE i = j
    <3>1. Walked(j)' = Walked(j) \cup {c}
      BY <1>1, <1>2, <1>9, <1>13 DEF Walked
    <3> QED BY <1>6, <1>14, <2>1, <3>1
  <2>2. CASE i # j
    <3>1. Walked(i)' = Walked(i)
      BY <1>1, <1>2, <1>13, <2>2 DEF Walked
    <3> QED BY <1>6, <1>14, <2>2, <3>1
  <2> QED BY <2>1, <2>2
<1>17. FreeAreRanked'
  <2> SUFFICES ASSUME NEW i \in Everyone
               PROVE  over'[i] = {} <=> i \in Upto(fronts, Len(fronts)) \cup Range(nextFront)'
    BY <1>2, <1>13 DEF FreeAreRanked
  <2> QED BY <1>6, <1>11, <1>12, <1>14
<1>18. Scanning' /\ AllRanked'
  BY <1>2 DEF Scanning, AllRanked, Selections
<1>19. Walking'
  <2>1. pending' \subseteq Dominated(currentFront[walker])'
    BY <1>1, <1>2, <1>7, <1>13, CombinedStays
  <2>2. ASSUME NEW i \in Range(nextFront)' PROVE Dominators(combined, i) \cap Range(currentFront) # {}
    BY <1>7, <1>8, <1>12
  <2> QED BY <1>2, <1>7, <1>13, <2>1, <2>2, CombinedStays DEF Walking
<1>20. Layered' /\ FirstAscends'
  BY <1>2, <1>3, RankedStays
<1> QED BY <1>12, <1>15, <1>16, <1>17, <1>18, <1>19, <1>20 DEF RankInv

LEMMA NextWalkerRanks ==
  ASSUME SearchInv, NextWalker
  PROVE  RankInv'
<1>1. /\ pc = "walk" /\ pc' = "walk" /\ pending = {} /\ walker < Len(currentFront)
      /\ walker' = walker + 1 /\ pending' = Dominated(currentFront[walker + 1])
      /\ UNCHANGED <<population, offspring, fronts, over, nextFront>>
  BY DEF NextWalker
<1>2. BasicInv /\ RankInv /\ RankTypes
  BY DEF SearchInv, RankInv
<1>3. /\ combined' = combined /\ Everyone' = Everyone /\ currentFront' = currentFront
      /\ Upto(fronts, Len(fronts))' = Upto(fronts, Len(fronts))
      /\ Upto(fronts, Len(fronts) - 1)' = Upto(fronts, Len(fronts) - 1)
      /\ \A j : Dominators(combined, j)' = Dominators(combined, j) /\ Dominated(j)' = Dominated(j)
  BY <1>1, CombinedStays DEF currentFront, Upto
<1>4. fronts # <<>> /\ walker \in 1..Len(currentFront) /\ Len(currentFront) \in Nat
  BY <1>1, <1>2, CurrentIs DEF RankInv, Walking
<1>5. walker + 1 \in 1..Len(currentFront) /\ currentFront[walker + 1] \in Everyone
  BY <1>1, <1>2, <1>4, CurrentIs
<1>6. RankTypes'
  <2>1. Dominated(currentFront[walker + 1]) \subseteq Everyone
    BY DEF Dominated, Everyone
  <2> QED BY <1>1, <1>2, <1>3, <2>1 DEF RankTypes
<1>7. Apart'
  BY <1>1, <1>2 DEF RankInv, Apart, Upto
<1>8. Counted'
  <2> SUFFICES ASSUME NEW i \in Everyone PROVE over[i] = Dominators(combined, i) \ Walked(i)'
    BY <1>1, <1>3 DEF Counted
  <2>1. over[i] = Dominators(combined, i) \ Walked(i)
    BY <1>1, <1>2 DEF RankInv, Counted, Sortings
  <2>2. Walked(i) = Upto(fronts, Len(fronts) - 1) \cup {currentFront[w] : w \in 1..walker}
    <3>1. 1..walker = (1..walker - 1) \cup {walker}
      BY <1>4
    <3>2. Walked(i) = Upto(fronts, Len(fronts) - 1) \cup {currentFront[w] : w \in 1..walker - 1} \cup {currentFront[walker]}
      BY <1>1 DEF Walked
    <3> QED BY <3>1, <3>2
  <2>3. Walked(i)' = Upto(fronts, Len(fronts) - 1) \cup {currentFront[w] : w \in 1..walker}
                       \cup (IF i \in Dominated(currentFront[walker + 1]) THEN {} ELSE {currentFront[walker + 1]})
    <3>1. walker' - 1 = walker
      BY <1>1, <1>4
    <3> QED BY <1>1, <1>3, <3>1 DEF Walked
  <2>4. i \notin Dominated(currentFront[walker + 1]) => currentFront[walker + 1] \notin Dominators(combined, i)
    BY <1>5, DominatorsAre
  <2> QED BY <2>1, <2>2, <2>3, <2>4
<1>9. FreeAreRanked'
  BY <1>1, <1>2, <1>3 DEF RankInv, FreeAreRanked, Sortings
<1>10. Scanning' /\ AllRanked'
  BY <1>1 DEF Scanning, AllRanked, Selections
<1>11. Walking'
  BY <1>1, <1>2, <1>3, <1>4, <1>5 DEF RankInv, Walking
<1>12. Layered' /\ FirstAscends'
  BY <1>1, <1>2, RankedStays
<1> QED BY <1>6, <1>7, <1>8, <1>9, <1>10, <1>11, <1>12 DEF RankInv

(* When a front is complete, the counts are of those yet to be ranked.      *)
LEMMA CompleteIsCounted ==
  ASSUME SearchInv, FrontComplete
  PROVE  /\ \A j \in Everyone : over[j] = Dominators(combined, j) \ Upto(fronts, Len(fronts))
         /\ \A j \in Everyone : over[j] = {} <=> j \in Upto(fronts, Len(fronts)) \cup Range(nextFront)
<1>1. BasicInv /\ RankInv /\ RankTypes /\ pc \in Sortings /\ pending = {}
  BY DEF SearchInv, RankInv, FrontComplete, Sortings
<1>2. \A j \in Everyone : over[j] = {} <=> j \in Upto(fronts, Len(fronts)) \cup Range(nextFront)
  BY <1>1 DEF RankInv, FreeAreRanked
<1>3. CASE pc = "scan"
  <2>1. fronts = <<>>
    BY <1>1, <1>3 DEF RankInv, Scanning
  <2>2. Upto(fronts, Len(fronts)) = {}
    BY <2>1, NobodyIsRanked
  <2> QED BY <1>1, <1>2, <1>3, <2>2 DEF RankInv, Counted, Walked
<1>4. CASE pc = "walk"
  <2>1. walker = Len(currentFront) /\ fronts # <<>>
    BY <1>1, <1>4 DEF FrontComplete, RankInv, Walking
  <2>2. /\ Len(currentFront) \in Nat \ {0}
        /\ Upto(fronts, Len(fronts)) = Upto(fronts, Len(fronts) - 1) \cup Range(currentFront)
        /\ Range(currentFront) = {currentFront[w] : w \in 1..Len(currentFront)}
    BY <1>1, <2>1, CurrentIs
  <2>3. 1..Len(currentFront) = (1..walker - 1) \cup {walker}
    BY <2>1, <2>2
  <2>4. \A j : Walked(j) = Upto(fronts, Len(fronts))
    BY <1>1, <1>4, <2>2, <2>3 DEF Walked
  <2> QED BY <1>1, <1>2, <2>4 DEF RankInv, Counted
<1> QED BY <1>1, <1>3, <1>4 DEF Sortings

LEMMA NextFrontRanks ==
  ASSUME SearchInv, NextFront
  PROVE  RankInv'
<1>1. /\ FrontComplete /\ nextFront # <<>> /\ fronts' = Append(fronts, nextFront)
      /\ nextFront' = <<>> /\ walker' = 1 /\ pending' = Dominated(nextFront[1]) /\ pc' = "walk"
      /\ UNCHANGED <<population, offspring, over>>
  BY DEF NextFront
<1>2. BasicInv /\ RankInv /\ RankTypes /\ Apart /\ Layered /\ pc \in Sortings
  BY <1>1 DEF SearchInv, RankInv, FrontComplete, Sortings
<1>3. /\ combined' = combined /\ Everyone' = Everyone
      /\ \A j : Dominators(combined, j)' = Dominators(combined, j) /\ Dominated(j)' = Dominated(j)
  BY <1>1, CombinedStays
<1> DEFINE Some == Seq(Everyone) \ {<<>>}
           n == Len(fronts)
<1>4. fronts \in Seq(Some) /\ nextFront \in Some /\ over \in [Everyone -> SUBSET Everyone]
  BY <1>1, <1>2 DEF RankTypes, Sortings
<1>5. /\ n \in Nat /\ DOMAIN fronts = 1..n
      /\ fronts' \in Seq(Some) /\ Len(fronts') = n + 1
      /\ \A k \in 1..n : fronts'[k] = fronts[k]
      /\ fronts'[n + 1] = nextFront
  <2> HIDE DEF Some
  <2> QED BY <1>1, <1>4, LenProperties, AppendProperties
<1>6. DOMAIN (fronts') = 1..n + 1 /\ currentFront' = nextFront
  <2> HIDE DEF Some
  <2>1. DOMAIN (fronts') = 1..n + 1
    BY <1>5, LenProperties
  <2> QED BY <1>5, <2>1 DEF currentFront
<1>7. /\ \A k \in 0..n : Upto(fronts', k) = Upto(fronts, k)
      /\ Upto(fronts', n + 1) = Upto(fronts, n) \cup Range(nextFront)
  <2> HIDE DEF Some
  <2> QED BY <1>1, <1>4, UptoAppended
<1>8. /\ Len(nextFront) \in Nat \ {0} /\ nextFront[1] \in Everyone /\ DOMAIN nextFront = 1..Len(nextFront)
  BY <1>4, EmptySeq, LenProperties, ElementOfSeq
<1>9. /\ \A j \in Everyone : over[j] = Dominators(combined, j) \ Upto(fronts, n)
      /\ \A j \in Everyone : over[j] = {} <=> j \in Upto(fronts, n) \cup Range(nextFront)
  <2> QED BY CompleteIsCounted, <1>1
<1>10. Range(nextFront) \subseteq Everyone
  BY <1>4, <1>8, ElementOfSeq DEF Range
<1>11. RankTypes'
  <2>1. nextFront' \in Seq(Everyone) /\ pending' \subseteq Everyone
    BY <1>1, EmptySeq DEF Dominated, Everyone
  <2> QED BY <1>1, <1>3, <1>4, <1>5, <2>1 DEF RankTypes
<1>12. Apart'
  <2>1. ASSUME NEW k \in DOMAIN (fronts') PROVE IsInjective(fronts'[k])
    <3>1. CASE k \in 1..n
      BY <1>2, <1>5, <3>1 DEF Apart
    <3>2. CASE k = n + 1
      BY <1>2, <1>5, <3>2 DEF Apart
    <3> QED BY <1>5, <1>6, <3>1, <3>2
  <2>2. ASSUME NEW k \in DOMAIN (fronts'), NEW m \in DOMAIN (fronts'), k < m
        PROVE  Range(fronts'[k]) \cap Range(fronts'[m]) = {}
    <3>1. k \in 1..n
      BY <1>5, <1>6, <2>2
    <3>2. CASE m \in 1..n
      BY <1>2, <1>5, <2>2, <3>1, <3>2 DEF Apart
    <3>3. CASE m = n + 1
      <4>1. Range(fronts[k]) \subseteq Upto(fronts, n)
        BY <1>5, <3>1, UptoIs
      <4> QED BY <1>2, <1>5, <3>1, <3>3, <4>1 DEF Apart
    <3> QED BY <1>5, <1>6, <3>2, <3>3
  <2>3. IsInjective(nextFront') /\ Range(nextFront') = {}
    BY <1>1, NobodyIsRanked DEF IsInjective
  <2> QED BY <2>1, <2>2, <2>3 DEF Apart
<1>13. Layered'
  <2> SUFFICES ASSUME NEW k \in DOMAIN (fronts'), NEW j \in Range(fronts'[k])
               PROVE  /\ Dominators(combined, j) \subseteq Upto(fronts', k - 1)
                      /\ k > 1 => Dominators(combined, j) \cap Range(fronts'[k - 1]) # {}
    BY <1>3 DEF Layered
  <2>1. CASE k \in 1..n
    <3>1. j \in Range(fronts[k]) /\ k \in DOMAIN fronts /\ k - 1 \in 0..n /\ (k > 1 => k - 1 \in 1..n)
      BY <1>5, <2>1
    <3>2. /\ Dominators(combined, j) \subseteq Upto(fronts, k - 1)
          /\ k > 1 => Dominators(combined, j) \cap Range(fronts[k - 1]) # {}
      BY <1>2, <3>1 DEF Layered
    <3> QED BY <1>5, <1>7, <3>1, <3>2
  <2>2. CASE k = n + 1
    <3>1. j \in Range(nextFront) /\ j \in Everyone /\ k - 1 = n /\ n \in 0..n
      BY <1>5, <1>10, <2>2
    <3>2. Dominators(combined, j) \subseteq Upto(fronts, n)
      BY <1>9, <3>1
    <3>3. ASSUME k > 1 PROVE Dominators(combined, j) \cap Range(fronts'[k - 1]) # {}
      <4>1. n \in 1..n /\ n # 0
        BY <1>5, <2>2, <3>3
      <4>2. fronts # <<>>
        BY <4>1, EmptySeq
      <4>3. pc = "walk"
        BY <1>2, <4>2 DEF RankInv, Scanning, Sortings
      <4>4. Dominators(combined, j) \cap Range(currentFront) # {}
        BY <1>2, <3>1, <4>3 DEF RankInv, Walking
      <4>5. fronts'[k - 1] = currentFront
        BY <1>5, <3>1, <4>1 DEF currentFront
      <4> QED BY <4>4, <4>5
    <3> QED BY <1>7, <3>1, <3>2, <3>3
  <2> QED BY <1>5, <1>6, <2>1, <2>2
<1>14. Counted'
  <2> SUFFICES ASSUME NEW i \in Everyone PROVE over[i] = Dominators(combined, i) \ Walked(i)'
    BY <1>1, <1>3 DEF Counted
  <2>1. Walked(i)' = Upto(fronts, n) \cup (IF i \in Dominated(nextFront[1]) THEN {} ELSE {nextFront[1]})
    <3>1. Len(fronts') - 1 = n /\ n \in 0..n
      BY <1>5
    <3>2. {nextFront[w] : w \in 1..1 - 1} = {}
      OBVIOUS
    <3>3. Walked(i)' = Upto(fronts', n) \cup {nextFront[w] : w \in 1..1 - 1}
                         \cup (IF i \in Dominated(nextFront[1]) THEN {} ELSE {nextFront[1]})
      BY <1>1, <1>6, <3>1 DEF Walked
    <3> QED BY <1>7, <3>1, <3>2, <3>3
  <2>2. i \notin Dominated(nextFront[1]) => nextFront[1] \notin Dominators(combined, i)
    BY <1>8, DominatorsAre
  <2> QED BY <1>9, <2>1, <2>2
<1>15. FreeAreRanked'
  <2>1. Upto(fronts, Len(fronts))' = Upto(fronts, n) \cup Range(nextFront) /\ Range(nextFront') = {}
    BY <1>1, <1>5, <1>7, NobodyIsRanked
  <2> QED BY <1>1, <1>3, <1>9, <2>1 DEF FreeAreRanked
<1>16. Scanning' /\ AllRanked'
  BY <1>1 DEF Scanning, AllRanked, Selections
<1>17. Walking'
  <2>1. fronts' # <<>> /\ walker' \in 1..Len(currentFront')
    BY <1>1, <1>5, <1>6, <1>8, EmptySeq
  <2>2. Range(nextFront') = {}
    BY <1>1, NobodyIsRanked
  <2> QED BY <1>1, <1>3, <1>6, <2>1, <2>2 DEF Walking
<1>18. FirstAscends'
  <2>1. CASE n = 0
    <3>1. fronts = <<>>
      <4> HIDE DEF Some
      <4> QED BY <1>4, <2>1, EmptySeq
    <3>2. pc = "scan"
      BY <1>2, <3>1 DEF RankInv, Walking, Sortings
    <3>3. Ascending(nextFront) /\ fronts'[1] = nextFront
      BY <1>2, <1>5, <2>1, <3>2 DEF RankInv, Scanning
    <3> QED BY <3>3 DEF FirstAscends
  <2>2. CASE n # 0
    <3>1. fronts # <<>> /\ fronts'[1] = fronts[1]
      BY <1>5, <2>2, EmptySeq
    <3>2. Ascending(fronts[1])
      BY <1>2, <3>1 DEF RankInv, FirstAscends
    <3> QED BY <3>1, <3>2 DEF FirstAscends
  <2> QED BY <2>1, <2>2
<1> QED BY <1>11, <1>12, <1>13, <1>14, <1>15, <1>16, <1>17, <1>18 DEF RankInv

(* The sorting ends when everyone is ranked: of those who are not, one      *)
(* would be dominated by none of them.                                     *)
LEMMA RankedRanks ==
  ASSUME SearchInv, Ranked
  PROVE  RankInv' /\ fronts # <<>>
<1>1. FrontComplete /\ nextFront = <<>> /\ pc' = "take" /\ UNCHANGED <<population, offspring, frontVars>>
  BY DEF Ranked
<1>2. BasicInv /\ RankInv
  BY DEF SearchInv
<1>3. /\ combined' = combined /\ Everyone' = Everyone
      /\ fronts' = fronts /\ over' = over /\ nextFront' = nextFront /\ pending' = pending
  BY <1>1, CombinedStays DEF frontVars
<1>4. Upto(fronts, Len(fronts)) = Everyone
  <2> DEFINE U == Everyone \ Upto(fronts, Len(fronts))
  <2>1. Upto(fronts, Len(fronts)) \subseteq Everyone
    <3> SUFFICES ASSUME NEW j \in Upto(fronts, Len(fronts)) PROVE j \in Everyone
      OBVIOUS
    <3>1. fronts \in Seq(Seq(Everyone) \ {<<>>}) /\ Len(fronts) \in Nat
      BY <1>2, LenProperties DEF RankInv, RankTypes
    <3>2. PICK m \in 1..Len(fronts) : j \in Range(fronts[m])
      BY <3>1, UptoIs
    <3>3. fronts[m] \in Seq(Everyone)
      BY <3>1, ElementOfSeq
    <3> QED BY <3>2, <3>3, LenProperties, ElementOfSeq DEF Range
  <2>2. ASSUME U # {} PROVE FALSE
    <3>1. combined \in Seq(Individuals) /\ U \in SUBSET (DOMAIN combined)
      BY <1>2, CombinedIs DEF Everyone
    <3>2. PICK j \in U : Dominators(combined, j) \cap U = {}
      <4> HIDE DEF U
      <4> QED BY <2>2, <3>1, SomeUndominated
    <3>3. over[j] = {}
      BY <1>1, <3>2, CompleteIsCounted, DominatorsAre
    <3>4. Range(nextFront) = {}
      BY <1>1, NobodyIsRanked
    <3> QED BY <1>1, <3>2, <3>3, <3>4, CompleteIsCounted
  <2> QED BY <2>1, <2>2
<1>5. fronts # <<>>
  BY <1>2, <1>4, CombinedIs, NobodyIsRanked
<1>6. AllRanked'
  BY <1>3, <1>4 DEF AllRanked, Upto
<1>7. RankTypes'
  BY <1>1, <1>2, <1>3 DEF FrontComplete, RankInv, RankTypes
<1>8. Apart'
  BY <1>2, <1>3 DEF RankInv, Apart, Upto
<1>9. Layered' /\ FirstAscends'
  BY <1>1, <1>2, <1>3, RankedStays
<1>10. Counted' /\ FreeAreRanked' /\ Scanning' /\ Walking'
  BY <1>1 DEF Counted, FreeAreRanked, Scanning, Walking, Sortings
<1> QED BY <1>5, <1>6, <1>7, <1>8, <1>9, <1>10 DEF RankInv

(* The selection leaves the fronts as they are.                            *)
LEMMA SelectingRanks ==
  ASSUME RankInv, pc \in Selections, pc' \in Selections, UNCHANGED <<population, offspring, frontVars>>
  PROVE  RankInv'
<1>1. /\ combined' = combined /\ Everyone' = Everyone
      /\ fronts' = fronts /\ over' = over /\ nextFront' = nextFront /\ pending' = pending
  BY CombinedStays DEF frontVars
<1>2. AllRanked'
  BY <1>1 DEF RankInv, AllRanked, Upto
<1>3. RankTypes'
  BY <1>1 DEF RankInv, RankTypes, Selections
<1>4. Apart'
  BY <1>1 DEF RankInv, Apart, Upto
<1>5. Layered' /\ FirstAscends'
  BY <1>1, RankedStays
<1>6. Counted' /\ FreeAreRanked' /\ Scanning' /\ Walking'
  BY DEF Counted, FreeAreRanked, Scanning, Walking, Sortings, Selections
<1> QED BY <1>2, <1>3, <1>4, <1>5, <1>6 DEF RankInv

(* Between generations there are no fronts.                                *)
LEMMA NothingToRank ==
  pc \in {"breed", "done"} /\ over = <<>> /\ fronts = <<>> /\ nextFront = <<>> /\ pending = {} => RankInv
<1> SUFFICES ASSUME pc \in {"breed", "done"}, over = <<>>, fronts = <<>>, nextFront = <<>>, pending = {}
             PROVE  RankInv
  OBVIOUS
<1>1. RankTypes
  BY EmptySeq DEF RankTypes
<1>2. Apart /\ Layered /\ FirstAscends
  BY NobodyIsRanked DEF Apart, Layered, FirstAscends, IsInjective
<1>3. Counted /\ FreeAreRanked /\ Scanning /\ Walking /\ AllRanked
  BY DEF Counted, FreeAreRanked, Scanning, Walking, AllRanked, Sortings, Selections
<1> QED BY <1>1, <1>2, <1>3 DEF RankInv

(* What the invariant says of the fronts is what FrontsAreRanks does.       *)
LEMMA RanksFollow == RankInv => FrontsAreRanks
<1> SUFFICES ASSUME RankInv, pc \in Selections PROVE FrontsAreRanks
  BY DEF FrontsAreRanks, Selections
<1>1. RankTypes /\ Apart /\ Layered /\ Upto(fronts, Len(fronts)) = Everyone
  BY DEF RankInv, AllRanked
<1>2. Len(fronts) \in Nat /\ DOMAIN fronts = 1..Len(fronts)
  BY <1>1, LenProperties DEF RankTypes
<1>3. \A i \in DOMAIN combined : \E k \in DOMAIN fronts : i \in Range(fronts[k])
  BY <1>1, <1>2, UptoIs DEF Everyone
<1>4. ASSUME NEW k \in DOMAIN fronts, NEW m \in DOMAIN fronts, NEW i \in Range(fronts[k]), i \in Range(fronts[m])
      PROVE  k = m
  <2>1. k < m \/ m < k \/ k = m
    BY <1>2
  <2> QED BY <1>1, <1>4, <2>1 DEF Apart
<1>5. ASSUME NEW k \in DOMAIN fronts, NEW m \in DOMAIN fronts, NEW x \in DOMAIN fronts[k], NEW y \in DOMAIN fronts[m],
             fronts[k][x] = fronts[m][y]
      PROVE  k = m /\ x = y
  <2>1. fronts[k][x] \in Range(fronts[k]) /\ fronts[m][y] \in Range(fronts[m])
    BY DEF Range
  <2>2. k = m
    BY <1>4, <1>5, <2>1
  <2> QED BY <1>1, <1>5, <2>2 DEF Apart, IsInjective
<1>6. ASSUME NEW k \in DOMAIN fronts, NEW m \in DOMAIN fronts, k <= m,
             NEW i \in Range(fronts[k]), NEW j \in Range(fronts[m]), dominates(combined[j], combined[i])
      PROVE  FALSE
  <2>1. j \in Everyone
    <3>1. Range(fronts[m]) \subseteq Upto(fronts, Len(fronts))
      BY <1>2, UptoIs
    <3> QED BY <1>1, <3>1
  <2>2. j \in Upto(fronts, k - 1) /\ k - 1 \in Nat
    BY <1>1, <1>2, <1>6, <2>1 DEF Layered, Dominators, Everyone
  <2>3. PICK w \in 1..k - 1 : j \in Range(fronts[w])
    BY <2>2, UptoIs
  <2>4. w \in DOMAIN fronts /\ w < m
    BY <1>2, <1>6, <2>3
  <2> QED BY <1>4, <2>3, <2>4
<1>7. \A k \in DOMAIN fronts \ {1} : \A j \in Range(fronts[k]) :
        \E i \in Range(fronts[k - 1]) : dominates(combined[i], combined[j])
  <2> SUFFICES ASSUME NEW k \in DOMAIN fronts, k # 1, NEW j \in Range(fronts[k])
               PROVE  \E i \in Range(fronts[k - 1]) : dominates(combined[i], combined[j])
    OBVIOUS
  <2>1. Dominators(combined, j) \cap Range(fronts[k - 1]) # {}
    BY <1>1, <1>2 DEF Layered
  <2> QED BY <2>1 DEF Dominators
<1> QED BY <1>3, <1>5, <1>6, <1>7 DEF FrontsAreRanks

-----------------------------------------------------------------------------
(* THE EXCHANGE SORT                                                      *)

(* One comparison, with the swap it may cause.                             *)
PartlySorted(K, s, i, j) ==
  /\ \A x, y \in DOMAIN s : x < i /\ x < y => K[s[x]] <= K[s[y]]
  /\ \A y \in DOMAIN s : i < y /\ y < j => K[s[i]] <= K[s[y]]

Exchanged(K, s, i, j) ==
  IF K[s[i]] > K[s[j]] THEN [s EXCEPT ![i] = s[j], ![j] = s[i]] ELSE s

LEMMA ExchangeKeeps ==
  ASSUME NEW S, NEW K \in [S -> Int], NEW s \in Seq(S), NEW i \in 1..Len(s), NEW j \in i + 1..Len(s),
         PartlySorted(K, s, i, j), NEW t, t = Exchanged(K, s, i, j)
  PROVE  /\ t \in Seq(S) /\ Len(t) = Len(s) /\ DOMAIN t = DOMAIN s /\ Range(t) = Range(s)
         /\ IsInjective(s) => IsInjective(t)
         /\ PartlySorted(K, t, i, j + 1)
<1>0. /\ \A x, y \in DOMAIN s : x < i /\ x < y => K[s[x]] <= K[s[y]]
      /\ \A y \in DOMAIN s : i < y /\ y < j => K[s[i]] <= K[s[y]]
      /\ t = IF K[s[i]] > K[s[j]] THEN [s EXCEPT ![i] = s[j], ![j] = s[i]] ELSE s
  BY DEF PartlySorted, Exchanged
<1>1. /\ DOMAIN s = 1..Len(s) /\ Len(s) \in Nat /\ j \in DOMAIN s /\ i \in DOMAIN s
      /\ i < j /\ i \in Nat /\ j \in Nat
  BY LenProperties
<1>2. \A x \in DOMAIN s : s[x] \in S /\ K[s[x]] \in Int
  BY <1>1, ElementOfSeq
<1>3. CASE ~(K[s[i]] > K[s[j]])
  <2>1. t = s /\ K[s[i]] <= K[s[j]]
    BY <1>0, <1>1, <1>2, <1>3
  <2>2. ASSUME NEW y \in DOMAIN s, i < y, y < j + 1 PROVE K[s[i]] <= K[s[y]]
    <3>1. y < j \/ y = j
      BY <1>1, <2>2
    <3> QED BY <1>0, <2>1, <2>2, <3>1
  <2> QED BY <1>0, <2>1, <2>2 DEF PartlySorted
<1>4. CASE K[s[i]] > K[s[j]]
  <2>1. t = [s EXCEPT ![i] = s[j], ![j] = s[i]]
    BY <1>0, <1>4
  <2>2. PICK u \in Seq(S) : /\ u = [s EXCEPT ![i] = s[j]] /\ Len(u) = Len(s)
                            /\ \A x \in 1..Len(s) : u[x] = IF x = i THEN s[j] ELSE s[x]
    <3>1. i \in 1..Len(s) /\ s[j] \in S
      BY <1>1, <1>2
    <3>2. /\ [s EXCEPT ![i] = s[j]] \in Seq(S) /\ Len([s EXCEPT ![i] = s[j]]) = Len(s)
          /\ \A x \in 1..Len(s) : [s EXCEPT ![i] = s[j]][x] = IF x = i THEN s[j] ELSE s[x]
      BY <3>1, ExceptSeq
    <3> QED BY <3>2
  <2>3. t = [u EXCEPT ![j] = s[i]]
    BY <2>1, <2>2
  <2>4. t \in Seq(S) /\ Len(t) = Len(s) /\ DOMAIN t = DOMAIN s
    <3>1. t \in Seq(S) /\ Len(t) = Len(u)
      BY <1>1, <1>2, <2>2, <2>3, ExceptSeq
    <3> QED BY <1>1, <2>2, <3>1, LenProperties
  <2>5. t[i] = s[j] /\ t[j] = s[i] /\ \A x \in DOMAIN s : x # i /\ x # j => t[x] = s[x]
    <3>1. \A x \in 1..Len(u) : t[x] = IF x = j THEN s[i] ELSE u[x]
      BY <1>1, <1>2, <2>2, <2>3, ExceptSeq
    <3> QED BY <1>1, <2>2, <3>1
  <2>6. Range(t) = Range(s)
    BY <1>1, <2>4, <2>5 DEF Range
  <2>7. IsInjective(s) => IsInjective(t)
    <3> SUFFICES ASSUME IsInjective(s), NEW x \in DOMAIN s, NEW y \in DOMAIN s, t[x] = t[y] PROVE x = y
      BY <2>4 DEF IsInjective
    <3> DEFINE q(z) == IF z = i THEN j ELSE IF z = j THEN i ELSE z
    <3>1. \A z \in DOMAIN s : t[z] = s[q(z)] /\ q(z) \in DOMAIN s
      BY <1>1, <2>5
    <3>2. q(x) = q(y)
      <4>1. s[q(x)] = s[q(y)] /\ q(x) \in DOMAIN s /\ q(y) \in DOMAIN s
        <5> HIDE DEF q
        <5> QED BY <3>1
      <4> HIDE DEF q
      <4> QED BY <4>1 DEF IsInjective
    <3> QED BY <3>2
  <2>8. ASSUME NEW x \in DOMAIN s, NEW y \in DOMAIN s, x < i, x < y PROVE K[t[x]] <= K[t[y]]
    <3>1. t[x] = s[x]
      <4>1. x \in 1..Len(s)
        BY <1>1
      <4>2. x # i /\ x # j
        BY <1>1, <2>8, <4>1
      <4> QED BY <2>5, <4>2
    <3>0. x < j /\ \A z \in DOMAIN s : x < z => K[s[x]] <= K[s[z]]
      BY <1>0, <1>1, <2>8
    <3>2. CASE y = i
      <4>1. t[y] = s[j] /\ K[s[x]] <= K[s[j]]
        BY <1>1, <2>5, <3>0, <3>2
      <4> QED BY <3>1, <4>1
    <3>3. CASE y = j
      <4>1. t[y] = s[i] /\ K[s[x]] <= K[s[i]]
        BY <1>1, <2>5, <2>8, <3>0, <3>3
      <4> QED BY <3>1, <4>1
    <3>4. CASE y # i /\ y # j
      <4>1. t[y] = s[y]
        BY <2>5, <3>4
      <4>2. K[s[x]] <= K[s[y]]
        BY <2>8, <3>0
      <4> QED BY <3>1, <4>1, <4>2
    <3> QED BY <3>2, <3>3, <3>4
  <2>9. ASSUME NEW y \in DOMAIN s, i < y, y < j + 1 PROVE K[t[i]] <= K[t[y]]
    <3>1. CASE y = j
      BY <1>1, <1>2, <1>4, <2>5, <3>1
    <3>2. CASE y # j
      <4>0. y \in Nat /\ i \in Nat /\ j \in Nat /\ i < y /\ y < j + 1 /\ y # j
        <5>1. y \in 1..Len(s)
          BY <1>1
        <5> QED BY <1>1, <2>9, <3>2, <5>1
      <4>1. y < j /\ y # i
        BY <4>0
      <4>2. t[y] = s[y] /\ K[s[i]] <= K[s[y]]
        <5>1. t[y] = s[y]
          BY <2>5, <3>2, <4>1
        <5>2. K[s[i]] <= K[s[y]]
          BY <1>0, <2>9, <4>1
        <5> QED BY <5>1, <5>2
      <4>3. K[s[j]] \in Int /\ K[s[i]] \in Int /\ K[s[y]] \in Int
        BY <1>1, <1>2
      <4> QED BY <1>4, <2>5, <4>2, <4>3
    <3> QED BY <3>1, <3>2
  <2> QED BY <2>4, <2>6, <2>7, <2>8, <2>9 DEF PartlySorted
<1> QED BY <1>3, <1>4

LEMMA FrontIs ==
  ASSUME BasicInv, RankInv, taken \in Nat, taken < Len(fronts)
  PROVE  /\ front \in Seq(Everyone) /\ Len(front) \in Nat \ {0} /\ DOMAIN front = 1..Len(front)
         /\ \A x \in DOMAIN front : front[x] \in Everyone
         /\ Range(front) \subseteq Everyone /\ IsInjective(front)
         /\ taken + 1 \in DOMAIN fronts
<1>1. fronts \in Seq(Seq(Everyone) \ {<<>>}) /\ Apart
  BY DEF RankInv, RankTypes
<1>2. taken + 1 \in 1..Len(fronts) /\ DOMAIN fronts = 1..Len(fronts)
  BY <1>1, LenProperties
<1>3. front \in Seq(Everyone) \ {<<>>}
  BY <1>1, <1>2, ElementOfSeq DEF front
<1>4. Len(front) \in Nat \ {0} /\ DOMAIN front = 1..Len(front)
  BY <1>3, EmptySeq, LenProperties
<1>5. \A x \in DOMAIN front : front[x] \in Everyone
  BY <1>3, <1>4, ElementOfSeq
<1>6. IsInjective(front)
  BY <1>1, <1>2 DEF Apart, front
<1> QED BY <1>2, <1>3, <1>4, <1>5, <1>6 DEF Range

LEMMA ObjectiveIs ==
  ASSUME BasicInv, NEW i \in Everyone, NEW o \in Objectives
  PROVE  combined[i][o] \in 0..Most /\ combined[i].valid \in BOOLEAN
<1>1. combined[i] \in Individuals
  BY CombinedIs
<1>2. combined[i].flow \in 0..Most /\ combined[i].cost \in 0..Most /\ combined[i].valid \in BOOLEAN
  BY <1>1, IndividualIs
<1>3. o = "flow" \/ o = "cost"
  BY DEF Objectives
<1> QED BY <1>2, <1>3

LEMMA Products ==
  ASSUME NEW m \in Nat, NEW g \in 0..m, NEW s \in 0..m
  PROVE  g * AtLeastOne(s) \in Nat /\ g * AtLeastOne(s) <= m * m
<1>1. PICK w \in Nat : w = AtLeastOne(s) /\ (m >= 1 => w <= m)
  BY DEF AtLeastOne
<1>2. CASE m = 0
  BY <1>1, <1>2
<1>3. CASE m >= 1
  <2>1. w <= m /\ g <= m /\ g \in Nat
    BY <1>1, <1>3
  <2>2. g * w <= g * m
    BY <2>1
  <2>3. g * m <= m * m
    BY <2>1
  <2>4. g * w \in Nat /\ g * m \in Nat /\ m * m \in Nat
    BY <2>1
  <2> QED BY <1>1, <2>2, <2>3, <2>4
<1> QED BY <1>2, <1>3

(* Extremes are the most distant.                                          *)
LEMMA DistanceIs ==
  ASSUME BasicInv, RankInv, SelectionInv, SortInv, pc = "sort", NEW i \in Range(front)
  PROVE  Distance(i) \in Int /\ (IF i \in ends THEN Distance(i) = Unbounded ELSE Distance(i) < Unbounded)
<1>1. gap \in [Objectives -> [Range(front) -> 0..Most]] /\ span \in [Objectives -> 0..Most] /\ Most \in Nat
  BY SearchAssumption DEF SortInv
<1>2. PICK g \in 0..Most, c \in 0..Most, sf \in 0..Most, sc \in 0..Most :
        g = gap["flow"][i] /\ c = gap["cost"][i] /\ sf = span["flow"] /\ sc = span["cost"]
  <2>1. "flow" \in Objectives /\ "cost" \in Objectives
    BY DEF Objectives
  <2> QED BY <1>1, <2>1
<1>3. PICK x \in Nat : x = g * AtLeastOne(sc) /\ x <= Most * Most
  BY <1>1, <1>2, Products
<1>4. PICK y \in Nat : y = c * AtLeastOne(sf) /\ y <= Most * Most
  BY <1>1, <1>2, Products
<1>5. PICK m \in Nat : m = Most * Most
  BY <1>1
<1>6. Unbounded = 2 * m + 1
  <2>1. 2 * Most * Most = 2 * (Most * Most)
    BY <1>1
  <2> QED BY <1>5, <2>1 DEF Unbounded
<1>7. Distance(i) = IF i \in ends THEN Unbounded ELSE x + y
  BY <1>2, <1>3, <1>4 DEF Distance
<1> QED BY <1>3, <1>4, <1>5, <1>6, <1>7

LEMMA KeyIs ==
  ASSUME BasicInv, RankInv, SelectionInv, SortInv, pc = "sort", NEW i \in Range(front)
  PROVE  /\ Key(i) \in Int
         /\ job \in Objectives => Key(i) = combined[i][job] /\ Key(i) \in 0..Most
         /\ job = "crowding" /\ combined[i].valid => Key(i) = 0 - Distance(i)
<1>1. i \in Everyone
  BY FrontIs DEF SortInv, SelectionInv
<1>2. CASE job \in Objectives
  <2>1. job # "crowding"
    BY <1>2 DEF Objectives
  <2>2. Key(i) = combined[i][job]
    BY <2>1 DEF Key
  <2>3. combined[i][job] \in 0..Most
    BY <1>1, <1>2, ObjectiveIs
  <2> QED BY <2>1, <2>2, <2>3, SearchAssumption
<1>3. CASE job = "crowding"
  <2>1. Key(i) = IF combined[i].valid THEN 0 - Distance(i) ELSE 0
    BY <1>3 DEF Key, Crowded
  <2>2. job \notin Objectives
    BY <1>3 DEF Objectives
  <2> QED BY <1>3, <2>1, <2>2, DistanceIs
<1> QED BY <1>2, <1>3 DEF SortInv

-----------------------------------------------------------------------------
(* THE SELECTION                                                          *)

LEMMA SelectionStays ==
  ASSUME UNCHANGED <<population, offspring, frontVars, taken>>
  PROVE  /\ combined' = combined /\ Everyone' = Everyone /\ fronts' = fronts /\ front' = front
         /\ \A o, lo, hi : Bounds(o, lo, hi)' <=> Bounds(o, lo, hi)
BY CombinedStays DEF frontVars, front, Bounds

LEMMA SortIs ==
  ASSUME SearchInv, pc = "sort"
  PROVE  /\ BasicInv /\ RankInv /\ SelectionInv /\ SortInv
         /\ front \in Seq(Everyone) /\ Len(front) \in Nat \ {0} /\ DOMAIN front = 1..Len(front)
         /\ Range(front) \subseteq Everyone /\ IsInjective(front) /\ taken + 1 \in DOMAIN fronts
         /\ sorted \in Seq(Range(front)) /\ DOMAIN sorted = 1..Len(front) /\ Len(sorted) = Len(front)
         /\ \A x \in DOMAIN sorted : sorted[x] \in Range(front) /\ sorted[x] \in Everyone
         /\ at[1] \in 1..Len(front) /\ at[2] \in at[1] + 1..Len(front) + 1
<1>1. BasicInv /\ RankInv /\ SelectionInv /\ SortInv
  BY DEF SearchInv
<1>2. taken \in Nat /\ taken < Len(fronts)
  BY <1>1 DEF SelectionInv, SortInv
<1>3. /\ front \in Seq(Everyone) /\ Len(front) \in Nat \ {0} /\ DOMAIN front = 1..Len(front)
      /\ Range(front) \subseteq Everyone /\ IsInjective(front) /\ taken + 1 \in DOMAIN fronts
  BY <1>1, <1>2, FrontIs
<1>4. /\ Len(sorted) = Len(front) /\ Range(sorted) = Range(front) /\ sorted \in Seq(Everyone)
      /\ at[1] \in 1..Len(sorted) /\ at[2] \in at[1] + 1..Len(sorted) + 1
  BY <1>1 DEF SortInv, SelectionInv
<1>5. sorted \in Seq(Range(front)) /\ DOMAIN sorted = 1..Len(front)
  BY <1>4, SeqOfRange, LenProperties
<1>6. \A x \in DOMAIN sorted : sorted[x] \in Range(front)
  BY <1>4 DEF Range
<1> QED BY <1>1, <1>3, <1>4, <1>5, <1>6

LEMMA CompareKeeps ==
  ASSUME SearchInv, Compare
  PROVE  SelectionInv' /\ SortInv' /\ KeptInv'
<1>1. /\ pc = "sort" /\ pc' = "sort" /\ at[1] < Len(sorted) /\ at[2] <= Len(sorted)
      /\ sorted' = IF Key(sorted[at[1]]) > Key(sorted[at[2]])
                   THEN [sorted EXCEPT ![at[1]] = sorted[at[2]], ![at[2]] = sorted[at[1]]] ELSE sorted
      /\ at' = <<at[1], at[2] + 1>>
      /\ UNCHANGED <<population, offspring, frontVars, chosen, taken, job, ends, gap, span>>
  BY DEF Compare, takeVars
<1>2. /\ BasicInv /\ RankInv /\ SelectionInv /\ SortInv
      /\ sorted \in Seq(Range(front)) /\ DOMAIN sorted = 1..Len(front) /\ Len(sorted) = Len(front)
      /\ \A x \in DOMAIN sorted : sorted[x] \in Range(front) /\ sorted[x] \in Everyone
      /\ at[1] \in 1..Len(front) /\ at[2] \in at[1] + 1..Len(front) + 1
      /\ Len(front) \in Nat \ {0} /\ Range(front) \subseteq Everyone
  BY <1>1, SortIs
<1>3. PICK K : K = [i \in Range(front) |-> Key(i)]
  OBVIOUS
<1>4. K \in [Range(front) -> Int] /\ \A i \in Range(front) : K[i] = Key(i)
  BY <1>1, <1>2, <1>3, KeyIs
<1>5. PICK i, j, s, t, S :
        /\ i \in 1..Len(sorted) /\ j \in i + 1..Len(sorted)
        /\ i = at[1] /\ j = at[2] /\ s = sorted /\ t = sorted' /\ S = Range(front)
  BY <1>1, <1>2
<1>6. /\ s \in Seq(S) /\ K \in [S -> Int] /\ i \in 1..Len(s) /\ j \in i + 1..Len(s)
      /\ PartlySorted(K, s, i, j) /\ t = Exchanged(K, s, i, j)
  <2>1. i \in DOMAIN s /\ j \in DOMAIN s
    BY <1>2, <1>5
  <2>2. \A x \in DOMAIN s : K[s[x]] = Key(s[x])
    BY <1>2, <1>4, <1>5
  <2>3. Sorted
    BY <1>1, <1>2 DEF SortInv
  <2>4. t = IF K[s[i]] > K[s[j]] THEN [s EXCEPT ![i] = s[j], ![j] = s[i]] ELSE s
    BY <1>1, <1>5, <2>1, <2>2
  <2>5. \A x, y \in DOMAIN s : x < i /\ x < y => K[s[x]] <= K[s[y]]
    BY <1>5, <2>2, <2>3 DEF Sorted
  <2>6. \A y \in DOMAIN s : i < y /\ y < j => K[s[i]] <= K[s[y]]
    BY <1>5, <2>1, <2>2, <2>3 DEF Sorted
  <2> QED BY <1>2, <1>4, <1>5, <2>4, <2>5, <2>6 DEF PartlySorted, Exchanged
<1>7. /\ t \in Seq(S) /\ Len(t) = Len(s) /\ DOMAIN t = DOMAIN s /\ Range(t) = Range(s)
      /\ IsInjective(s) => IsInjective(t)
      /\ PartlySorted(K, t, i, j + 1)
  BY <1>6, ExchangeKeeps
<1>8. /\ combined' = combined /\ Everyone' = Everyone /\ fronts' = fronts /\ front' = front
      /\ \A o, lo, hi : Bounds(o, lo, hi)' <=> Bounds(o, lo, hi)
  BY <1>1, SelectionStays
<1>9. \A k : Key(k)' = Key(k)
  BY <1>1, <1>8 DEF Key, Distance
<1>10. sorted' \in Seq(Everyone)
  BY <1>2, <1>5, <1>7, SeqMonotonic
<1>11. SelectionInv'
  <2>1. ends' \subseteq Everyone' /\ sorted' \in Seq(Everyone')
    BY <1>1, <1>2, <1>8, <1>10 DEF SelectionInv
  <2> QED BY <1>1, <1>2, <1>8, <2>1 DEF SelectionInv, Selections
<1>12. at' = <<i, j + 1>> /\ at'[1] = i /\ at'[2] = j + 1
  BY <1>1, <1>5
<1>13. Sorted'
  <2>1. \A x \in DOMAIN t : K[t[x]] = Key(t[x])
    BY <1>4, <1>5, <1>7, LenProperties, ElementOfSeq
  <2>2. i \in DOMAIN t
    BY <1>2, <1>5, <1>7
  <2>3. \A x, y \in DOMAIN t : x < i /\ x < y => Key(t[x]) <= Key(t[y])
    BY <1>7, <2>1 DEF PartlySorted
  <2>4. \A y \in DOMAIN t : i < y /\ y < j + 1 => Key(t[i]) <= Key(t[y])
    BY <1>7, <2>1, <2>2 DEF PartlySorted
  <2> QED BY <1>5, <1>9, <1>12, <2>3, <2>4 DEF Sorted
<1>14. EndsInv'
  BY <1>1, <1>2, <1>8 DEF SortInv, EndsInv
<1>15. at' \in Nat \X Nat /\ at'[1] \in 1..Len(sorted') /\ at'[2] \in at'[1] + 1..Len(sorted') + 1
  <2>1. i \in Nat /\ j \in Nat /\ i \in 1..Len(t) /\ j + 1 \in i + 1..Len(t) + 1
    BY <1>2, <1>5, <1>7
  <2> QED BY <1>5, <1>12, <2>1
<1>16. Len(sorted') = Len(front) /\ IsInjective(sorted') /\ Range(sorted') = Range(front)
  BY <1>1, <1>2, <1>5, <1>7 DEF SortInv
<1>17. SortInv'
  BY <1>1, <1>2, <1>8, <1>13, <1>14, <1>15, <1>16 DEF SortInv
<1> QED BY <1>1, <1>11, <1>17 DEF KeptInv

LEMMA NextPassKeeps ==
  ASSUME SearchInv, NextPass
  PROVE  SelectionInv' /\ SortInv' /\ KeptInv'
<1>1. /\ pc = "sort" /\ pc' = "sort" /\ at[1] < Len(sorted) /\ at[2] > Len(sorted)
      /\ at' = <<at[1] + 1, at[1] + 2>>
      /\ UNCHANGED <<population, offspring, frontVars, chosen, taken, job, sorted, ends, gap, span>>
  BY DEF NextPass, takeVars
<1>2. /\ BasicInv /\ RankInv /\ SelectionInv /\ SortInv
      /\ DOMAIN sorted = 1..Len(front) /\ Len(sorted) = Len(front)
      /\ at[1] \in 1..Len(front) /\ at[2] \in at[1] + 1..Len(front) + 1
      /\ Len(front) \in Nat \ {0}
  BY <1>1, SortIs
<1>3. /\ combined' = combined /\ Everyone' = Everyone /\ fronts' = fronts /\ front' = front
      /\ \A o, lo, hi : Bounds(o, lo, hi)' <=> Bounds(o, lo, hi)
  BY <1>1, SelectionStays
<1>4. \A k : Key(k)' = Key(k)
  BY <1>1, <1>3 DEF Key, Distance
<1>5. SelectionInv'
  BY <1>1, <1>2, <1>3 DEF SelectionInv, Selections
<1>6. at'[1] = at[1] + 1 /\ at'[2] = at[1] + 2 /\ at[2] = Len(front) + 1
  BY <1>1, <1>2
<1>7. Sorted'
  <2>1. Sorted
    BY <1>1, <1>2 DEF SortInv
  <2>2. ASSUME NEW x \in DOMAIN sorted, NEW y \in DOMAIN sorted, x < at[1] + 1, x < y
        PROVE  Key(sorted[x]) <= Key(sorted[y])
    <3>1. x \in 1..Len(front) /\ y \in 1..Len(front)
      BY <1>2
    <3>2. x < at[1] \/ (x = at[1] /\ y < at[2])
      BY <1>2, <1>6, <2>2, <3>1
    <3> QED BY <2>1, <2>2, <3>2 DEF Sorted
  <2>3. \A y \in DOMAIN sorted : ~(at[1] + 1 < y /\ y < at[1] + 2)
    BY <1>2
  <2> QED BY <1>1, <1>4, <1>6, <2>2, <2>3 DEF Sorted
<1>8. EndsInv'
  BY <1>1, <1>2, <1>3 DEF SortInv, EndsInv
<1>9. at' \in Nat \X Nat /\ at'[1] \in 1..Len(sorted) /\ at'[2] \in at'[1] + 1..Len(sorted) + 1
  BY <1>1, <1>2, <1>6
<1>10. SortInv'
  BY <1>1, <1>2, <1>3, <1>7, <1>8, <1>9 DEF SortInv
<1> QED BY <1>1, <1>5, <1>10 DEF KeptInv

(* A sort that is over has everyone in order.                              *)
LEMMA SortEndsInOrder ==
  ASSUME SearchInv, SortEnds
  PROVE  \A x, y \in DOMAIN sorted : x < y => Key(sorted[x]) <= Key(sorted[y])
<1>1. pc = "sort" /\ at[1] >= Len(sorted)
  BY DEF SortEnds
<1>2. /\ SortInv /\ DOMAIN sorted = 1..Len(front) /\ Len(sorted) = Len(front)
      /\ at[1] \in 1..Len(front) /\ Len(front) \in Nat \ {0}
  BY <1>1, SortIs
<1>3. \A x, y \in DOMAIN sorted : x < y => x < at[1]
  BY <1>1, <1>2
<1> QED BY <1>1, <1>2, <1>3 DEF SortInv, Sorted

LEMMA CrowdKeeps ==
  ASSUME SearchInv, Crowd
  PROVE  SelectionInv' /\ SortInv' /\ KeptInv'
<1>1. /\ pc = "take" /\ taken < Len(fronts) /\ Len(chosen) < PopulationSize
      /\ Len(chosen) + Len(front) > PopulationSize
      /\ pc' = "sort" /\ sorted' = front /\ at' = <<1, 2>>
      /\ job' = (IF Len(front) <= 2 THEN "crowding" ELSE "flow")
      /\ ends' = (IF Len(front) <= 2 THEN Range(front) ELSE {})
      /\ gap' = [o \in Objectives |-> [i \in Range(front) |-> 0]]
      /\ UNCHANGED <<population, offspring, frontVars, chosen, taken, span>>
  <2>1. ~(Len(chosen) + Len(front) <= PopulationSize) /\ taken < Len(fronts) /\ Len(chosen) < PopulationSize
    BY DEF Crowd, Wanting, Fits
  <2>2. BasicInv /\ RankInv /\ taken \in Nat /\ Len(chosen) \in Nat /\ PopulationSize \in Nat
    BY SearchAssumption, LenProperties DEF SearchInv, SelectionInv
  <2>3. Len(front) \in Nat
    BY <2>1, <2>2, FrontIs
  <2>4. Len(chosen) + Len(front) > PopulationSize
    BY <2>1, <2>2, <2>3
  <2> QED BY <2>1, <2>4 DEF Crowd, Wanting, takeVars
<1>2. BasicInv /\ RankInv /\ SelectionInv /\ taken \in Nat /\ span = NoSpan
  BY <1>1 DEF SearchInv, SelectionInv
<1>3. /\ front \in Seq(Everyone) /\ Len(front) \in Nat \ {0} /\ DOMAIN front = 1..Len(front)
      /\ Range(front) \subseteq Everyone /\ IsInjective(front)
  BY <1>1, <1>2, FrontIs
<1>4. /\ combined' = combined /\ Everyone' = Everyone /\ fronts' = fronts /\ front' = front
  BY <1>1, SelectionStays
<1>5. SelectionInv'
  <2>1. ends' \subseteq Everyone' /\ sorted' \in Seq(Everyone')
    BY <1>1, <1>3, <1>4
  <2> QED BY <1>1, <1>2, <1>4, <2>1 DEF SelectionInv, Selections
<1>6. at'[1] = 1 /\ at'[2] = 2 /\ at' \in Nat \X Nat
  BY <1>1
<1>7. Sorted'
  <2>1. \A x \in DOMAIN front : ~(x < 1)
    BY <1>3
  <2>2. \A y \in DOMAIN front : ~(1 < y /\ y < 2)
    BY <1>3
  <2> QED BY <1>1, <1>6, <2>1, <2>2 DEF Sorted
<1>8. gap' \in [Objectives -> [Range(front) -> 0..Most]] /\ span' \in [Objectives -> 0..Most]
  <2>1. 0 \in 0..Most
    BY SearchAssumption
  <2> QED BY <1>1, <1>2, <2>1 DEF NoSpan
<1>9. EndsInv'
  BY <1>1, <1>3, <1>4 DEF EndsInv
<1>10. job' \in Objectives \cup {"crowding"} /\ (job' \in Objectives => Len(front) > 2)
  BY <1>1, <1>3 DEF Objectives
<1>11. at'[1] \in 1..Len(front) /\ at'[2] \in at'[1] + 1..Len(front) + 1
  BY <1>3, <1>6
<1>12. SortInv'
  BY <1>1, <1>3, <1>4, <1>6, <1>7, <1>8, <1>9, <1>10, <1>11 DEF SortInv
<1> QED BY <1>1, <1>5, <1>12 DEF KeptInv

LEMMA MeasureKeeps ==
  ASSUME SearchInv, Measure
  PROVE  SelectionInv' /\ SortInv' /\ KeptInv'
<1>1. /\ SortEnds /\ job \in Objectives /\ pc = "sort" /\ pc' = "sort"
      /\ job' = (IF job = "flow" THEN "cost" ELSE "crowding") /\ sorted' = front /\ at' = <<1, 2>>
      /\ UNCHANGED <<population, offspring, frontVars, chosen, taken>>
  BY DEF Measure, SortEnds, takeVars
<1>0. /\ span' = [span EXCEPT ![job] = Key(sorted[Len(sorted)]) - Key(sorted[1])]
      /\ ends' = ends \cup {sorted[1], sorted[Len(sorted)]}
      /\ gap' = [gap EXCEPT ![job] =
                   [i \in Range(front) |->
                      LET k == CHOOSE m \in 1..Len(sorted) : sorted[m] = i
                      IN IF k \in {1, Len(sorted)} THEN 0 ELSE Key(sorted[k + 1]) - Key(sorted[k - 1])]]
  BY DEF Measure
<1>2. PICK n, lo, hi : n = Len(sorted) /\ lo = sorted[1] /\ hi = sorted[n]
  OBVIOUS
<1>3. /\ BasicInv /\ RankInv /\ SelectionInv /\ SortInv
      /\ front \in Seq(Everyone) /\ Len(front) \in Nat \ {0} /\ DOMAIN front = 1..Len(front)
      /\ Range(front) \subseteq Everyone /\ IsInjective(front)
      /\ DOMAIN sorted = 1..n /\ n = Len(front)
      /\ \A x \in DOMAIN sorted : sorted[x] \in Range(front) /\ sorted[x] \in Everyone
  BY <1>1, <1>2, SortIs
<1>4. /\ Range(sorted) = Range(front) /\ IsInjective(sorted) /\ n > 2
      /\ gap \in [Objectives -> [Range(front) -> 0..Most]] /\ span \in [Objectives -> 0..Most]
      /\ EndsInv
  BY <1>1, <1>3 DEF SortInv
<1>5. /\ combined' = combined /\ Everyone' = Everyone /\ fronts' = fronts /\ front' = front
      /\ \A o, l, h : Bounds(o, l, h)' <=> Bounds(o, l, h)
  BY <1>1, SelectionStays
<1>6. \A i \in Range(front) : Key(i) = combined[i][job] /\ Key(i) \in 0..Most
  BY <1>1, <1>3, KeyIs
<1>7. \A x, y \in 1..n : x < y => Key(sorted[x]) <= Key(sorted[y])
  BY <1>1, <1>3, SortEndsInOrder
<1>8. 1 \in 1..n /\ n \in 1..n /\ 1 < n /\ n \in Nat /\ Most \in Nat
  BY <1>3, <1>4, SearchAssumption
<1>9. lo \in Range(front) /\ hi \in Range(front) /\ lo # hi /\ Key(lo) <= Key(hi)
  <2>1. lo # hi
    <3>1. 1 \in DOMAIN sorted /\ n \in DOMAIN sorted /\ 1 # n
      BY <1>3, <1>8
    <3>2. sorted[1] # sorted[n]
      BY <1>4, <3>1 DEF IsInjective
    <3> QED BY <1>2, <3>2
  <2> QED BY <1>2, <1>3, <1>7, <1>8, <2>1
<1>10. \A i \in Range(front) : Key(lo) <= Key(i) /\ Key(i) <= Key(hi)
  <2> SUFFICES ASSUME NEW i \in Range(front) PROVE Key(lo) <= Key(i) /\ Key(i) <= Key(hi)
    OBVIOUS
  <2>1. PICK x \in 1..n : i = sorted[x]
    BY <1>3, <1>4 DEF Range
  <2>2. Key(lo) <= Key(i)
    <3>1. CASE x = 1
      BY <1>2, <1>6, <1>9, <2>1, <3>1
    <3>2. CASE x # 1
      <4>1. 1 < x
        BY <3>2
      <4> QED BY <1>2, <1>7, <1>8, <2>1, <4>1
    <3> QED BY <3>1, <3>2
  <2>3. Key(i) <= Key(hi)
    <3>1. CASE x = n
      BY <1>2, <1>6, <1>9, <2>1, <3>1
    <3>2. CASE x # n
      <4>1. x < n
        BY <1>8, <3>2
      <4> QED BY <1>2, <1>7, <1>8, <2>1, <4>1
    <3> QED BY <3>1, <3>2
  <2> QED BY <2>2, <2>3
<1>11. Bounds(job, lo, hi)
  BY <1>6, <1>9, <1>10 DEF Bounds
<1>12. span' \in [Objectives -> 0..Most]
  <2>1. Key(hi) - Key(lo) \in 0..Most
    BY <1>6, <1>8, <1>9
  <2> QED BY <1>0, <1>1, <1>2, <1>4, <2>1
<1>13. gap' \in [Objectives -> [Range(front) -> 0..Most]]
  <2> DEFINE place(i) == CHOOSE m \in 1..n : sorted[m] = i
             between(i) == IF place(i) \in {1, n} THEN 0 ELSE Key(sorted[place(i) + 1]) - Key(sorted[place(i) - 1])
  <2>1. ASSUME NEW i \in Range(front) PROVE between(i) \in 0..Most
    <3>1. \E m \in 1..n : sorted[m] = i
      BY <1>3, <1>4 DEF Range
    <3>2. PICK k \in 1..n : k = place(i)
      BY <3>1
    <3>3. CASE k \in {1, n}
      BY <1>8, <3>2, <3>3
    <3>4. CASE k \notin {1, n}
      <4>1. k + 1 \in 1..n /\ k - 1 \in 1..n /\ k - 1 < k + 1
        BY <1>8, <3>4
      <4>2. PICK a \in 0..Most, b \in 0..Most : a = Key(sorted[k + 1]) /\ b = Key(sorted[k - 1]) /\ b <= a
        BY <1>3, <1>6, <1>7, <4>1
      <4>3. between(i) = a - b
        BY <3>2, <3>4, <4>2
      <4> QED BY <1>8, <4>2, <4>3
    <3> QED BY <3>3, <3>4
  <2>2. gap' = [gap EXCEPT ![job] = [i \in Range(front) |-> between(i)]]
    BY <1>0, <1>2
  <2> HIDE DEF between
  <2>3. [i \in Range(front) |-> between(i)] \in [Range(front) -> 0..Most]
    BY <2>1
  <2> QED BY <1>1, <1>4, <2>2, <2>3
<1>14. EndsInv'
  <2>1. CASE job = "flow"
    <3>1. ends' = {lo, hi} /\ job' = "cost" /\ lo \in Everyone /\ hi \in Everyone
      BY <1>0, <1>1, <1>2, <1>3, <1>4, <1>9, <2>1 DEF EndsInv
    <3>2. Bounds("flow", lo, hi)'
      BY <1>5, <1>11, <2>1
    <3> QED BY <1>5, <3>1, <3>2 DEF EndsInv
  <2>2. CASE job = "cost"
    <3>1. PICK a \in Everyone, b \in Everyone : ends = {a, b} /\ Bounds("flow", a, b)
      BY <1>4, <2>2 DEF EndsInv
    <3>2. ends' = {a, b, lo, hi} /\ job' = "crowding" /\ lo \in Everyone /\ hi \in Everyone
      BY <1>0, <1>1, <1>2, <1>3, <1>9, <2>2, <3>1
    <3>3. Bounds("flow", a, b)' /\ Bounds("cost", lo, hi)'
      BY <1>5, <1>11, <2>2, <3>1
    <3> QED BY <1>5, <3>2, <3>3 DEF EndsInv
  <2> QED BY <1>1, <2>1, <2>2 DEF Objectives
<1>15. at'[1] = 1 /\ at'[2] = 2 /\ at' \in Nat \X Nat
  BY <1>1
<1>16. Sorted'
  <2>1. \A x \in DOMAIN front : ~(x < 1)
    BY <1>3
  <2>2. \A y \in DOMAIN front : ~(1 < y /\ y < 2)
    BY <1>3
  <2> QED BY <1>1, <1>15, <2>1, <2>2 DEF Sorted
<1>17. at'[1] \in 1..Len(front) /\ at'[2] \in at'[1] + 1..Len(front) + 1
  BY <1>3, <1>15
<1>18. job' \in Objectives \cup {"crowding"} /\ Len(front) > 2
  BY <1>1, <1>3, <1>4 DEF Objectives
<1>19. SelectionInv'
  <2>1. ends' \subseteq Everyone' /\ sorted' \in Seq(Everyone')
    BY <1>0, <1>1, <1>2, <1>3, <1>5, <1>9 DEF SelectionInv
  <2> QED BY <1>1, <1>3, <1>5, <2>1 DEF SelectionInv, Selections
<1>20. SortInv'
  BY <1>1, <1>3, <1>5, <1>12, <1>13, <1>14, <1>15, <1>16, <1>17, <1>18 DEF SortInv
<1> QED BY <1>1, <1>19, <1>20 DEF KeptInv

(* Of the first three in order, one is of two extremes if the other two     *)
(* are all that is besides: three members are not of two.                  *)
LEMMA FirstThreeHaveOne ==
  ASSUME NEW s, NEW n \in Nat, DOMAIN s = 1..n, n >= 3, IsInjective(s),
         NEW e \in Range(s), NEW f, NEW g, NEW h,
         \A x \in 1..n : s[x] \in {e, f, g, h} \/ ~(s[x] = e),
         \A x, y \in 1..n : x < y /\ s[y] = e => s[x] \in {e, f, g, h}
  PROVE  \E k \in 1..3 : s[k] \in {e, f}
<1> SUFFICES ASSUME \A k \in 1..3 : s[k] \notin {e, f} PROVE FALSE
  OBVIOUS
<1>1. PICK y \in 1..n : s[y] = e
  BY DEF Range
<1>2. ~(y \in 1..3)
  BY <1>1
<1>3. y > 3
  BY <1>1, <1>2
<1>4. 1 \in 1..n /\ 2 \in 1..n /\ 3 \in 1..n
  OBVIOUS
<1>5. \A k \in {1, 2, 3} : s[k] \in {g, h}
  <2> SUFFICES ASSUME NEW k \in {1, 2, 3} PROVE s[k] \in {g, h}
    OBVIOUS
  <2>1. k \in 1..3 /\ k \in 1..n /\ k < y
    BY <1>3, <1>4
  <2>2. s[k] \in {e, f, g, h}
    BY <1>1, <2>1
  <2> QED BY <2>1, <2>2
<1>6. s[1] # s[2] /\ s[2] # s[3] /\ s[1] # s[3]
  BY <1>4 DEF IsInjective
<1> QED BY <1>5, <1>6

(* In a front of valid individuals the one of the greatest value of an      *)
(* objective has the least of the other.                                   *)
LEMMA GreatestIsLeast ==
  ASSUME BasicInv, RankInv, taken \in Nat, taken < Len(fronts),
         \A i \in Range(front) : combined[i].valid,
         NEW lo, NEW hi, NEW o \in Objectives, NEW q \in Objectives, o # q, Bounds(o, lo, hi)
  PROVE  \A i \in Range(front) : combined[hi][q] <= combined[i][q]
<1>1. Range(front) \subseteq Everyone /\ taken + 1 \in DOMAIN fronts /\ front = fronts[taken + 1]
  BY FrontIs DEF front
<1>2. lo \in Range(front) /\ hi \in Range(front) /\ \A i \in Range(front) : combined[i][o] <= combined[hi][o]
  BY DEF Bounds
<1> SUFFICES ASSUME NEW i \in Range(front), ~(combined[hi][q] <= combined[i][q]) PROVE FALSE
  OBVIOUS
<1>3. /\ combined[hi][q] \in 0..Most /\ combined[i][q] \in 0..Most /\ Most \in Nat
  BY <1>1, <1>2, ObjectiveIs, SearchAssumption
<1>4. combined[i][q] < combined[hi][q] /\ combined[i][o] <= combined[hi][o]
  BY <1>2, <1>3
<1>5. AsGood(combined[i], combined[hi]) /\ ~AsGood(combined[hi], combined[i])
  <2>1. (o = "flow" /\ q = "cost") \/ (o = "cost" /\ q = "flow")
    BY DEF Objectives
  <2> QED BY <1>3, <1>4, <2>1 DEF AsGood
<1>6. i \in Dominators(combined, hi)
  BY <1>1, <1>2, <1>5 DEF dominates, Dominators, Everyone
<1>7. i \in Upto(fronts, taken)
  <2>1. Dominators(combined, hi) \subseteq Upto(fronts, (taken + 1) - 1)
    BY <1>1, <1>2 DEF RankInv, Layered
  <2>2. (taken + 1) - 1 = taken
    OBVIOUS
  <2> QED BY <1>6, <2>1, <2>2
<1>8. PICK m \in 1..taken : i \in Range(fronts[m])
  BY <1>7, UptoIs
<1>9. m \in DOMAIN fronts /\ m < taken + 1
  <2>1. DOMAIN fronts = 1..Len(fronts) /\ Len(fronts) \in Nat
    BY LenProperties DEF RankInv, RankTypes
  <2> QED BY <2>1
<1>10. Range(fronts[m]) \cap Range(fronts[taken + 1]) = {}
  BY <1>1, <1>9 DEF RankInv, Apart
<1> QED BY <1>1, <1>8, <1>10

(* A front has valid individuals only or none.                             *)
LEMMA FrontIsOfAKind ==
  ASSUME BasicInv, RankInv, taken \in Nat, taken < Len(fronts), NEW i \in Range(front), combined[i].valid
  PROVE  \A k \in Range(front) : combined[k].valid
<1>1. Range(front) \subseteq Everyone /\ taken + 1 \in DOMAIN fronts /\ front = fronts[taken + 1]
  BY FrontIs DEF front
<1> SUFFICES ASSUME NEW k \in Range(front), ~combined[k].valid PROVE FALSE
  OBVIOUS
<1>2. i \in Dominators(combined, k)
  BY <1>1 DEF dominates, Dominators, Everyone
<1>3. i \in Upto(fronts, taken)
  <2>1. Dominators(combined, k) \subseteq Upto(fronts, (taken + 1) - 1)
    BY <1>1 DEF RankInv, Layered
  <2>2. (taken + 1) - 1 = taken
    OBVIOUS
  <2> QED BY <1>2, <2>1, <2>2
<1>4. PICK m \in 1..taken : i \in Range(fronts[m])
  BY <1>3, UptoIs
<1>5. m \in DOMAIN fronts /\ m < taken + 1
  <2>1. DOMAIN fronts = 1..Len(fronts) /\ Len(fronts) \in Nat
    BY LenProperties DEF RankInv, RankTypes
  <2> QED BY <2>1
<1>6. Range(fronts[m]) \cap Range(fronts[taken + 1]) = {}
  BY <1>1, <1>5 DEF RankInv, Apart
<1> QED BY <1>1, <1>4, <1>6

(* The individuals taken in the order of their distance: of the first three *)
(* one has the least of the objective.                                     *)
LEMMA CrowdedKeepsExtremes ==
  ASSUME SearchInv, SortEnds, job = "crowding", PopulationSize >= 3, Len(front) > PopulationSize,
         NEW o \in Objectives, NEW i \in Range(front), combined[i].valid
  PROVE  \E k \in 1..3 : combined[sorted[k]].valid /\ combined[sorted[k]][o] <= combined[i][o]
<1>1. pc = "sort"
  BY DEF SortEnds
<1>2. /\ BasicInv /\ RankInv /\ SelectionInv /\ SortInv
      /\ Len(front) \in Nat \ {0} /\ DOMAIN sorted = 1..Len(front)
      /\ Range(front) \subseteq Everyone
      /\ \A x \in DOMAIN sorted : sorted[x] \in Range(front)
      /\ taken \in Nat /\ taken < Len(fronts) /\ PopulationSize \in Nat
  <2>1. /\ BasicInv /\ RankInv /\ SelectionInv /\ SortInv
        /\ Len(front) \in Nat \ {0} /\ DOMAIN sorted = 1..Len(front)
        /\ Range(front) \subseteq Everyone
        /\ \A x \in DOMAIN sorted : sorted[x] \in Range(front)
    BY <1>1, SortIs
  <2>2. taken \in Nat /\ taken < Len(fronts)
    BY <1>1, <2>1 DEF SelectionInv, SortInv
  <2> QED BY <2>1, <2>2, SearchAssumption
<1>3. Len(front) >= 3 /\ Len(front) > 2 /\ Len(front) \in Nat
  BY <1>2
<1>4. IsInjective(sorted) /\ Range(sorted) = Range(front) /\ EndsInv
  BY <1>1, <1>2 DEF SortInv
<1>5. \A k \in Range(front) : combined[k].valid
  BY <1>2, FrontIsOfAKind
<1>6. PICK a \in Everyone, b \in Everyone, c \in Everyone, d \in Everyone :
        ends = {a, b, c, d} /\ Bounds("flow", a, b) /\ Bounds("cost", c, d)
  BY <1>3, <1>4 DEF EndsInv
<1>7. /\ a \in Range(front) /\ b \in Range(front) /\ c \in Range(front) /\ d \in Range(front)
      /\ \A k \in Range(front) : combined[a].flow <= combined[k].flow /\ combined[c].cost <= combined[k].cost
  <2>1. \A k \in Range(front) : combined[a]["flow"] <= combined[k]["flow"] /\ combined[c]["cost"] <= combined[k]["cost"]
    BY <1>6 DEF Bounds
  <2> QED BY <1>6, <2>1 DEF Bounds
<1>8. \A k \in Range(front) : combined[d].flow <= combined[k].flow /\ combined[b].cost <= combined[k].cost
  <2>1. "flow" \in Objectives /\ "cost" \in Objectives /\ "flow" # "cost"
    BY DEF Objectives
  <2>2. \A k \in Range(front) : combined[d]["flow"] <= combined[k]["flow"]
    BY <1>2, <1>5, <1>6, <2>1, GreatestIsLeast
  <2>3. \A k \in Range(front) : combined[b]["cost"] <= combined[k]["cost"]
    BY <1>2, <1>5, <1>6, <2>1, GreatestIsLeast
  <2> QED BY <2>2, <2>3
<1>9. \A k \in Range(front) : Key(k) = 0 - Distance(k)
  BY <1>1, <1>2, <1>5, KeyIs
<1>10. \A k \in Range(front) : /\ Distance(k) \in Int
                               /\ IF k \in ends THEN Distance(k) = Unbounded ELSE Distance(k) < Unbounded
  BY <1>1, <1>2, DistanceIs
<1>11. Unbounded \in Int
  BY SearchAssumption DEF Unbounded
<1>12. ASSUME NEW x \in DOMAIN sorted, NEW y \in DOMAIN sorted, x < y, sorted[y] \in ends PROVE sorted[x] \in ends
  <2>1. Key(sorted[x]) <= Key(sorted[y])
    BY <1>12, SortEndsInOrder
  <2>2. PICK p \in Int, q \in Int : p = Distance(sorted[x]) /\ q = Distance(sorted[y]) /\ 0 - p <= 0 - q
    BY <1>2, <1>9, <1>10, <2>1
  <2>3. q = Unbounded /\ (sorted[x] \notin ends => p < Unbounded)
    BY <1>2, <1>10, <1>12, <2>2
  <2> QED BY <1>11, <2>2, <2>3
<1>13. ASSUME NEW e \in Range(front), NEW f, NEW g, NEW h, ends = {e, f, g, h} PROVE \E k \in 1..3 : sorted[k] \in {e, f}
  <2>1. \A x, y \in 1..Len(front) : x < y /\ sorted[y] = e => sorted[x] \in {e, f, g, h}
    BY <1>2, <1>12, <1>13
  <2>2. PICK n, s : n = Len(front) /\ s = sorted /\ n \in Nat
    BY <1>3
  <2>3. /\ n \in Nat /\ DOMAIN s = 1..n /\ n >= 3 /\ IsInjective(s) /\ e \in Range(s)
        /\ \A x, y \in 1..n : x < y /\ s[y] = e => s[x] \in {e, f, g, h}
    BY <1>2, <1>3, <1>4, <2>1, <2>2
  <2>4. \E k \in 1..3 : s[k] \in {e, f}
    BY <2>3, FirstThreeHaveOne
  <2> QED BY <2>2, <2>4
<1>14. \A k \in 1..3 : sorted[k] \in Range(front)
  BY <1>2, <1>3
<1>15. CASE o = "flow"
  <2>1. ends = {a, d, b, c}
    BY <1>6
  <2>2. PICK k \in 1..3 : sorted[k] \in {a, d}
    BY <1>7, <1>13, <2>1
  <2>3. combined[sorted[k]].flow <= combined[i].flow /\ combined[sorted[k]].valid
    BY <1>5, <1>7, <1>8, <1>14, <2>2
  <2> QED BY <1>15, <2>3
<1>16. CASE o = "cost"
  <2>1. ends = {c, b, a, d}
    BY <1>6
  <2>2. PICK k \in 1..3 : sorted[k] \in {c, b}
    BY <1>7, <1>13, <2>1
  <2>3. combined[sorted[k]].cost <= combined[i].cost /\ combined[sorted[k]].valid
    BY <1>5, <1>7, <1>8, <1>14, <2>2
  <2> QED BY <1>16, <2>3
<1> QED BY <1>15, <1>16 DEF Objectives

LEMMA TakeCrowdedKeeps ==
  ASSUME SearchInv, TakeCrowded
  PROVE  SelectionInv' /\ SortInv' /\ KeptInv'
<1>1. /\ SortEnds /\ job = "crowding" /\ pc = "sort" /\ pc' = "replace"
      /\ chosen' = chosen \o [k \in 1..(PopulationSize - Len(chosen)) |-> combined[sorted[k]]]
      /\ UNCHANGED <<population, offspring, frontVars, taken, job, sorted, at, ends, gap, span>>
  BY DEF TakeCrowded, SortEnds, sortVars
<1>2. /\ BasicInv /\ RankInv /\ SelectionInv /\ SortInv
      /\ Len(front) \in Nat \ {0} /\ DOMAIN sorted = 1..Len(front)
      /\ \A x \in DOMAIN sorted : sorted[x] \in Everyone
      /\ PopulationSize \in Nat
  BY <1>1, SortIs, SearchAssumption
<1>3. /\ chosen \in Seq(Founders \cup Bred) /\ Len(chosen) \in Nat
      /\ Len(chosen) < PopulationSize /\ Len(chosen) + Len(front) > PopulationSize
  BY <1>1, <1>2, LenProperties DEF SelectionInv, SortInv
<1> DEFINE room == PopulationSize - Len(chosen)
           added == [k \in 1..room |-> combined[sorted[k]]]
<1>4. room \in Nat /\ room >= 1 /\ 1..room \subseteq DOMAIN sorted
  BY <1>2, <1>3
<1>5. added \in Seq(Founders \cup Bred) /\ Len(added) = room
  <2>1. \A k \in 1..room : combined[sorted[k]] \in Founders \cup Bred
    BY <1>2, <1>4, CombinedIs
  <2>2. added \in [1..room -> Founders \cup Bred]
    BY <2>1
  <2>3. added \in Seq(Founders \cup Bred)
    BY <1>4, <2>2, SeqDef
  <2> HIDE DEF room
  <2>4. DOMAIN added = 1..room
    OBVIOUS
  <2> HIDE DEF added
  <2>5. DOMAIN added = 1..Len(added) /\ Len(added) \in Nat
    BY <2>3, LenProperties
  <2> QED BY <1>4, <2>3, <2>4, <2>5
<1>6. /\ chosen' \in Seq(Founders \cup Bred) /\ Len(chosen') = PopulationSize
      /\ \A k \in 1..Len(chosen) + room : chosen'[k] = IF k <= Len(chosen) THEN chosen[k] ELSE added[k - Len(chosen)]
  <2>1. /\ chosen' \in Seq(Founders \cup Bred) /\ Len(chosen') = Len(chosen) + room
        /\ \A k \in 1..Len(chosen) + room : chosen'[k] = IF k <= Len(chosen) THEN chosen[k] ELSE added[k - Len(chosen)]
    <3> HIDE DEF added, room
    <3>1. chosen' = chosen \o added
      BY <1>1 DEF added, room
    <3>2. /\ chosen \o added \in Seq(Founders \cup Bred) /\ Len(chosen \o added) = Len(chosen) + Len(added)
          /\ \A k \in 1..Len(chosen) + Len(added) : (chosen \o added)[k] = IF k <= Len(chosen) THEN chosen[k] ELSE added[k - Len(chosen)]
      BY <1>3, <1>5, ConcatProperties
    <3> QED BY <1>5, <3>1, <3>2
  <2> QED BY <1>2, <1>3, <2>1
<1>7. chosen' # <<>>
  BY <1>2, <1>3, <1>6, EmptySeq
<1>8. /\ combined' = combined /\ Everyone' = Everyone /\ fronts' = fronts /\ front' = front
  BY <1>1, SelectionStays
<1>9. SelectionInv'
  BY <1>1, <1>2, <1>6, <1>7, <1>8 DEF SelectionInv, Selections
<1>10. KeptInv'
  <2> SUFFICES ASSUME PopulationSize >= 3, Len(fronts[1]) > PopulationSize
               PROVE  \A o \in Objectives : \A i \in Range(fronts[1]) : combined[i].valid =>
                        \E k \in DOMAIN (chosen') : chosen'[k].valid /\ chosen'[k][o] <= combined[i][o]
    BY <1>6, <1>8 DEF KeptInv
  <2>1. taken = 0 /\ chosen = <<>>
    <3>1. taken \in Nat
      BY <1>2 DEF SelectionInv
    <3>2. Len(fronts[1]) \in Nat
      <4>1. fronts \in Seq(Seq(Everyone) \ {<<>>}) /\ 1 \in 1..Len(fronts)
        BY <1>1, <1>2, <3>1, LenProperties DEF RankInv, RankTypes, SortInv
      <4>2. fronts[1] \in Seq(Everyone)
        BY <4>1, ElementOfSeq
      <4> QED BY <4>2, LenProperties
    <3> QED BY <1>1, <1>2, <3>1, <3>2 DEF SelectionInv
  <2>2. front = fronts[1]
    BY <2>1 DEF front
  <2>3. Len(chosen) = 0
    BY <2>1, EmptySeq
  <2>4. \A k \in 1..PopulationSize : chosen'[k] = combined[sorted[k]]
    BY <1>2, <1>6, <2>3
  <2>5. DOMAIN (chosen') = 1..PopulationSize
    BY <1>6, LenProperties
  <2>6. \A k \in 1..3 : k \in 1..PopulationSize
    BY <1>2
  <2> SUFFICES ASSUME NEW o \in Objectives, NEW i \in Range(fronts[1]), combined[i].valid
               PROVE  \E k \in DOMAIN (chosen') : chosen'[k].valid /\ chosen'[k][o] <= combined[i][o]
    OBVIOUS
  <2>7. PICK k \in 1..3 : combined[sorted[k]].valid /\ combined[sorted[k]][o] <= combined[i][o]
    BY <1>1, <2>2, CrowdedKeepsExtremes
  <2> QED BY <2>4, <2>5, <2>6, <2>7
<1> QED BY <1>1, <1>9, <1>10 DEF SortInv

LEMMA InvIs ==
  ASSUME SearchInv
  PROVE  /\ BasicInv /\ RankInv /\ SelectionInv
         /\ taken \in Nat /\ Len(fronts) \in Nat /\ chosen \in Seq(Founders \cup Bred)
         /\ PopulationSize \in Nat \ {0}
<1>1. BasicInv /\ RankInv /\ SelectionInv
  BY DEF SearchInv
<1>2. fronts \in Seq(Seq(Everyone) \ {<<>>}) /\ taken \in 0..Len(fronts) /\ chosen \in Seq(Founders \cup Bred)
  BY <1>1 DEF RankInv, RankTypes, SelectionInv
<1>3. Len(fronts) \in Nat
  BY <1>2, LenProperties
<1> QED BY <1>1, <1>2, <1>3, SearchAssumption

LEMMA TakeFrontKeeps ==
  ASSUME SearchInv, TakeFront
  PROVE  SelectionInv' /\ SortInv' /\ KeptInv'
<1>1. /\ pc = "take" /\ pc' = "take" /\ taken < Len(fronts) /\ Len(chosen) + Len(front) <= PopulationSize
      /\ front[1] <= front[Len(front)] + 1
      /\ chosen' = chosen \o SubSeq(combined, front[1], front[Len(front)])
      /\ taken' = taken + 1
      /\ UNCHANGED <<population, offspring, frontVars, sortVars>>
  BY DEF TakeFront, Wanting, Fits
<1>2. BasicInv /\ RankInv /\ SelectionInv /\ taken \in Nat /\ Len(fronts) \in Nat /\ chosen \in Seq(Founders \cup Bred)
  BY InvIs
<1>3. /\ Len(front) \in Nat \ {0} /\ DOMAIN front = 1..Len(front)
      /\ \A x \in DOMAIN front : front[x] \in Everyone
  BY <1>1, <1>2, FrontIs
<1>4. /\ Everyone = 1..Len(combined) /\ Len(combined) \in Nat
      /\ \A i \in Everyone : combined[i] \in Founders \cup Bred
  BY <1>2, CombinedIs
<1>5. PICK first \in Everyone, last \in Everyone : first = front[1] /\ last = front[Len(front)]
  <2>1. 1 \in DOMAIN front /\ Len(front) \in DOMAIN front
    BY <1>3
  <2> QED BY <1>3, <2>1
<1>6. PICK slice : slice = SubSeq(combined, first, last)
  OBVIOUS
<1>7. slice \in Seq(Founders \cup Bred) /\ Len(slice) = IF first <= last THEN last - first + 1 ELSE 0
  <2>1. first \in Int /\ last \in Int /\ \A i \in first..last : combined[i] \in Founders \cup Bred
    BY <1>4, <1>5
  <2> QED BY <1>6, <2>1, SubSeqProperties
<1>8. chosen' \in Seq(Founders \cup Bred) /\ Len(chosen') = Len(chosen) + Len(slice)
  BY <1>1, <1>2, <1>5, <1>6, <1>7, ConcatProperties
<1>9. Len(chosen) \in Nat /\ Len(slice) \in Nat
  BY <1>2, <1>7, LenProperties
<1>10. chosen' # <<>> /\ Len(fronts[1]) <= PopulationSize
  <2>1. CASE taken = 0
    <3>1. chosen = <<>> /\ front = fronts[1]
      BY <1>1, <1>2, <2>1 DEF SelectionInv, front
    <3>2. Len(fronts[1]) <= PopulationSize
      BY <1>1, <1>3, <3>1, EmptySeq
    <3>3. first <= last
      <4>1. fronts # <<>>
        BY <1>1, <2>1, EmptySeq
      <4>2. Ascending(front)
        BY <1>2, <3>1, <4>1 DEF RankInv, FirstAscends
      <4>3. 1 \in DOMAIN front /\ Len(front) \in DOMAIN front /\ (Len(front) = 1 \/ 1 < Len(front))
        BY <1>3
      <4>4. first = last \/ first < last
        BY <1>5, <4>2, <4>3 DEF Ascending
      <4> QED BY <1>4, <4>4
    <3>4. Len(slice) >= 1
      BY <1>4, <1>7, <3>3
    <3>5. Len(chosen') # 0
      BY <1>8, <1>9, <3>4
    <3> QED BY <3>2, <3>5, EmptySeq
  <2>2. CASE taken > 0
    <3>1. chosen # <<>> /\ Len(fronts[1]) <= PopulationSize
      BY <1>2, <2>2 DEF SelectionInv
    <3>2. Len(chosen) # 0
      BY <1>2, <3>1, EmptySeq
    <3>3. Len(chosen') # 0
      BY <1>8, <1>9, <3>2
    <3> QED BY <3>1, <3>3, EmptySeq
  <2> QED BY <1>2, <2>1, <2>2
<1>11. /\ combined' = combined /\ Everyone' = Everyone /\ fronts' = fronts
  BY <1>1, CombinedStays DEF frontVars
<1>12. taken' \in 0..Len(fronts) /\ taken' > 0
  BY <1>1, <1>2
<1>13. SelectionInv'
  <2>1. sorted' = sorted /\ ends' = ends /\ span' = span
    BY <1>1 DEF sortVars
  <2> QED BY <1>1, <1>2, <1>8, <1>10, <1>11, <1>12, <2>1 DEF SelectionInv, Selections
<1> QED BY <1>1, <1>13 DEF SortInv, KeptInv

LEMMA SliceOutOfRangeKeeps ==
  ASSUME SearchInv, SliceOutOfRange
  PROVE  SelectionInv' /\ SortInv' /\ KeptInv'
<1>1. pc = "take" /\ pc' = "panicked" /\ UNCHANGED <<population, offspring, frontVars, takeVars, sortVars>>
  BY DEF SliceOutOfRange, Wanting
<1>2. Everyone' = Everyone /\ fronts' = fronts /\ chosen' = chosen /\ taken' = taken
      /\ sorted' = sorted /\ ends' = ends /\ span' = span
  BY <1>1, CombinedStays DEF frontVars, takeVars, sortVars
<1>3. SelectionInv'
  BY <1>1, <1>2 DEF SearchInv, SelectionInv, Selections
<1> QED BY <1>1, <1>3 DEF SortInv, KeptInv

(* The selection ends with the population at its size, or every front in    *)
(* it: it has the first one, which fits.                                   *)
LEMMA ChosenKeeps ==
  ASSUME SearchInv, Chosen
  PROVE  SelectionInv' /\ SortInv' /\ KeptInv'
<1>1. /\ pc = "take" /\ pc' = "replace" /\ UNCHANGED <<population, offspring, frontVars, takeVars, sortVars>>
      /\ ~(taken < Len(fronts) /\ Len(chosen) < PopulationSize)
  BY DEF Chosen, Wanting
<1>2. Everyone' = Everyone /\ fronts' = fronts /\ chosen' = chosen /\ taken' = taken
      /\ sorted' = sorted /\ ends' = ends /\ span' = span
  BY <1>1, CombinedStays DEF frontVars, takeVars, sortVars
<1>3. BasicInv /\ RankInv /\ SelectionInv /\ taken \in Nat /\ Len(fronts) \in Nat /\ PopulationSize \in Nat \ {0}
  BY InvIs
<1>4. fronts # <<>>
  <2>1. Upto(fronts, Len(fronts)) = Everyone /\ Everyone # {}
    BY <1>1, <1>3, CombinedIs DEF RankInv, AllRanked, Selections
  <2> QED BY <2>1, NobodyIsRanked
<1>5. taken > 0
  <2> SUFFICES ASSUME taken = 0 PROVE FALSE
    BY <1>3
  <2>1. chosen = <<>> /\ Len(chosen) = 0
    BY <1>1, <1>3, EmptySeq DEF SelectionInv
  <2>2. Len(fronts) # 0
    BY <1>3, <1>4, EmptySeq DEF RankInv, RankTypes
  <2> QED BY <1>1, <1>3, <2>1, <2>2
<1>6. chosen # <<>> /\ Len(fronts[1]) <= PopulationSize
  BY <1>3, <1>5 DEF SelectionInv
<1>7. ~(Len(fronts[1]) > PopulationSize)
  <2>1. Len(fronts[1]) \in Nat
    <3>1. fronts \in Seq(Seq(Everyone) \ {<<>>}) /\ 1 \in 1..Len(fronts)
      BY <1>3, <1>4, EmptySeq DEF RankInv, RankTypes
    <3>2. fronts[1] \in Seq(Everyone)
      BY <3>1, ElementOfSeq
    <3> QED BY <3>2, LenProperties
  <2> QED BY <1>3, <1>6, <2>1
<1>8. SelectionInv'
  BY <1>1, <1>2, <1>3, <1>6 DEF SelectionInv, Selections
<1>9. KeptInv'
  BY <1>2, <1>7 DEF KeptInv
<1> QED BY <1>1, <1>8, <1>9 DEF SortInv

(* Until the fronts are complete nothing is selected.                      *)
LEMMA SortingSelects ==
  ASSUME SearchInv, pc \in Sortings, pc' \in Sortings \cup {"take"}, Len(fronts') \in Nat,
         UNCHANGED <<population, offspring, takeVars, sortVars>>
  PROVE  SelectionInv' /\ SortInv' /\ KeptInv'
<1>1. Everyone' = Everyone /\ chosen' = chosen /\ taken' = taken
      /\ sorted' = sorted /\ ends' = ends /\ span' = span
  BY CombinedStays DEF takeVars, sortVars
<1>2. chosen = <<>> /\ taken = 0 /\ pc \notin {"sort", "replace"} /\ pc' \notin {"sort", "replace"}
  BY DEF SearchInv, SelectionInv, Sortings, Selections
<1>3. taken' \in 0..Len(fronts')
  BY <1>1, <1>2
<1>4. SelectionInv'
  BY <1>1, <1>2, <1>3 DEF SearchInv, SelectionInv, Sortings, Selections
<1> QED BY <1>2, <1>4 DEF SortInv, KeptInv

LEMMA NothingIsSelected ==
  /\ pc \in {"breed", "scan", "done"} /\ fronts = <<>> /\ chosen = <<>> /\ taken = 0
  /\ sorted = <<>> /\ ends = {} /\ span = NoSpan
  => SelectionInv /\ SortInv /\ KeptInv
<1> SUFFICES ASSUME pc \in {"breed", "scan", "done"}, fronts = <<>>, chosen = <<>>, taken = 0,
                    sorted = <<>>, ends = {}, span = NoSpan
             PROVE  SelectionInv /\ SortInv /\ KeptInv
  OBVIOUS
<1>1. Len(fronts) = 0 /\ chosen \in Seq(Founders \cup Bred) /\ sorted \in Seq(Everyone)
  BY EmptySeq
<1> QED BY <1>1 DEF SelectionInv, SortInv, KeptInv, Selections

-----------------------------------------------------------------------------
(* THE GENERATIONS                                                        *)

LEMMA WorkingKeepsBasics ==
  ASSUME BasicInv, pc \notin {"breed", "done"}, pc' \in Sortings \cup Selections,
         UNCHANGED <<population, offspring, gen, curve>>
  PROVE  BasicInv'
<1>1. pc' \notin {"breed", "done"}
  BY DEF Sortings, Selections
<1> QED BY <1>1 DEF BasicInv

LEMMA SearchInitially == Init => SearchInv
<1> SUFFICES ASSUME Init PROVE SearchInv
  OBVIOUS
<1>1. PopulationSize \in Nat \ {0} /\ MaxGenerations \in Nat /\ Window \in Nat \ {0}
  BY SearchAssumption
<1>2. /\ population \in [1..PopulationSize -> Founders] /\ offspring = <<>> /\ gen = 0 /\ curve = <<>>
      /\ pc = IF MaxGenerations = 0 THEN "done" ELSE "breed"
      /\ over = <<>> /\ fronts = <<>> /\ nextFront = <<>> /\ pending = {}
      /\ chosen = <<>> /\ taken = 0 /\ sorted = <<>> /\ ends = {} /\ span = NoSpan
  BY DEF Init
<1>3. population \in Seq(Founders \cup Bred) /\ Len(population) \in 1..PopulationSize
  <2>1. population \in Seq(Founders)
    BY <1>1, <1>2, SeqDef
  <2>2. population \in Seq(Founders \cup Bred)
    BY <2>1, SeqMonotonic
  <2>3. 1..Len(population) = 1..PopulationSize /\ Len(population) \in Nat
    BY <1>2, <2>1, LenProperties
  <2>4. Len(population) = PopulationSize
    BY <1>1, <2>3
  <2> QED BY <1>1, <2>2, <2>4
<1>4. BasicInv
  <2>1. /\ offspring \in Seq(Bred) /\ Len(offspring) = 0
        /\ curve \in Seq(0..NoFlow) /\ Len(curve) <= Window
    BY <1>1, <1>2, EmptySeq
  <2>2. pc \in {"breed", "done"} /\ gen \in 0..MaxGenerations /\ (pc # "done" => gen < MaxGenerations)
    BY <1>1, <1>2
  <2> QED BY <1>3, <2>1, <2>2 DEF BasicInv
<1>5. RankInv
  BY <1>2, NothingToRank
<1>6. SelectionInv /\ SortInv /\ KeptInv
  BY <1>2, NothingIsSelected
<1> QED BY <1>4, <1>5, <1>6 DEF SearchInv

LEMMA BreedKeeps ==
  ASSUME SearchInv, Breed
  PROVE  SearchInv'
<1>1. /\ pc = "breed" /\ pc' = "scan" /\ offspring' \in [1..PopulationSize -> Bred]
      /\ UNCHANGED <<population, gen, curve, fronts, takeVars, sortVars>>
  BY DEF Breed
<1>2. BasicInv'
  <2>1. PopulationSize \in Nat
    BY SearchAssumption
  <2>2. offspring' \in Seq(Bred)
    BY <1>1, <2>1, SeqDef
  <2>3. 1..Len(offspring') = 1..PopulationSize /\ Len(offspring') \in Nat
    BY <1>1, <2>2, LenProperties
  <2>4. Len(offspring') = PopulationSize
    BY <2>1, <2>3
  <2> QED BY <1>1, <2>2, <2>4 DEF SearchInv, BasicInv, Sortings
<1>3. RankInv'
  BY <1>2, BreedRanks
<1>4. /\ fronts' = <<>> /\ chosen' = <<>> /\ taken' = 0 /\ sorted' = <<>> /\ ends' = {} /\ span' = NoSpan
  BY <1>1 DEF SearchInv, RankInv, RankTypes, SelectionInv, takeVars, sortVars, Selections
<1>5. SelectionInv' /\ SortInv' /\ KeptInv'
  <2>1. Len(fronts') = 0 /\ chosen' \in Seq(Founders \cup Bred) /\ sorted' \in Seq(Everyone')
    BY <1>4, EmptySeq
  <2> QED BY <1>1, <1>4, <2>1 DEF SelectionInv, SortInv, KeptInv, Selections
<1> QED BY <1>2, <1>3, <1>5 DEF SearchInv

(* What replaces the population: what was chosen, cut to its size.          *)
LEMMA TruncatedIs ==
  ASSUME NEW s \in Seq(Founders \cup Bred), s # <<>>
  PROVE  /\ Truncated(s) \in Seq(Founders \cup Bred) /\ Len(Truncated(s)) \in 1..PopulationSize
         /\ Len(s) = PopulationSize => DOMAIN Truncated(s) = DOMAIN s /\ \A k \in DOMAIN s : Truncated(s)[k] = s[k]
<1>0. Len(s) \in Nat /\ Len(s) >= 1 /\ PopulationSize \in Nat /\ PopulationSize >= 1
  <2>1. Len(s) \in Nat \ {0}
    BY EmptySeq
  <2>2. PopulationSize \in Nat \ {0}
    BY SearchAssumption
  <2> QED BY <2>1, <2>2
<1>1. DOMAIN s = 1..Len(s)
  BY LenProperties
<1>2. PICK n \in Nat : /\ n = (IF Len(s) > PopulationSize THEN PopulationSize ELSE Len(s))
                       /\ n \in 1..PopulationSize /\ 1 <= n /\ n <= Len(s)
  <2>1. CASE Len(s) > PopulationSize
    <3>1. /\ PopulationSize = (IF Len(s) > PopulationSize THEN PopulationSize ELSE Len(s))
          /\ PopulationSize \in 1..PopulationSize /\ 1 <= PopulationSize /\ PopulationSize <= Len(s)
      BY <1>0, <2>1
    <3> QED BY <1>0, <3>1
  <2>2. CASE ~(Len(s) > PopulationSize)
    <3>1. /\ Len(s) = (IF Len(s) > PopulationSize THEN PopulationSize ELSE Len(s))
          /\ Len(s) \in 1..PopulationSize /\ 1 <= Len(s) /\ Len(s) <= Len(s)
      BY <1>0, <2>2
    <3> QED BY <1>0, <3>1
  <2> QED BY <2>1, <2>2
<1>3. \A i \in 1..n : s[i] \in Founders \cup Bred
  <2> TAKE i \in 1..n
  <2>1. i \in 1..Len(s)
    BY <1>0, <1>2
  <2> QED BY <2>1, ElementOfSeq
<1>4. /\ SubSeq(s, 1, n) \in Seq(Founders \cup Bred) /\ Len(SubSeq(s, 1, n)) = n
      /\ \A i \in 1..n : SubSeq(s, 1, n)[i] = s[i]
  <2>1. 1 \in Int /\ n \in Int /\ 1 <= n
    BY <1>2
  <2>2. /\ SubSeq(s, 1, n) \in Seq(Founders \cup Bred)
        /\ Len(SubSeq(s, 1, n)) = IF 1 <= n THEN n - 1 + 1 ELSE 0
        /\ \A i \in 1..n - 1 + 1 : SubSeq(s, 1, n)[i] = s[1 + i - 1]
    BY <1>3, <2>1, SubSeqProperties
  <2>3. n - 1 + 1 = n /\ \A i \in 1..n : 1 + i - 1 = i
    BY <2>1
  <2> QED BY <2>1, <2>2, <2>3
<1>5. Truncated(s) = SubSeq(s, 1, n)
  BY <1>2 DEF Truncated
<1>6. DOMAIN SubSeq(s, 1, n) = 1..n
  BY <1>4, LenProperties
<1>7. Len(s) = PopulationSize => n = Len(s)
  BY <1>0, <1>2
<1>8. Len(s) = PopulationSize => DOMAIN Truncated(s) = DOMAIN s /\ \A k \in DOMAIN s : Truncated(s)[k] = s[k]
  BY <1>1, <1>4, <1>5, <1>6, <1>7
<1> QED BY <1>2, <1>4, <1>5, <1>8

LEMMA ReplaceKeeps ==
  ASSUME SearchInv, Replace
  PROVE  SearchInv'
<1>1. /\ pc = "replace" /\ population' = Truncated(chosen) /\ gen' = gen + 1
      /\ pc' = IF gen' = MaxGenerations \/ (gen >= Window /\ Stagnates(curve')) THEN "done" ELSE "breed"
      /\ offspring' = <<>> /\ over' = <<>> /\ fronts' = <<>> /\ nextFront' = <<>> /\ pending' = {}
      /\ chosen' = <<>> /\ taken' = 0 /\ sorted' = <<>> /\ ends' = {} /\ span' = NoSpan
  BY DEF Replace
<1>2. PICK c : c = Append(curve, BestFlow(population')) /\ curve' = IF Len(c) > Window THEN Tail(c) ELSE c
  BY DEF Replace
<1>3. /\ BasicInv /\ chosen \in Seq(Founders \cup Bred) /\ chosen # <<>>
      /\ gen \in 0..MaxGenerations /\ gen < MaxGenerations
      /\ curve \in Seq(0..NoFlow) /\ Len(curve) <= Window
      /\ MaxGenerations \in Nat /\ Window \in Nat
  BY <1>1, SearchAssumption DEF SearchInv, BasicInv, SelectionInv
<1>4. population' \in Seq(Founders \cup Bred) /\ Len(population') \in 1..PopulationSize
  BY <1>1, <1>3, TruncatedIs
<1>5. BestFlow(population') \in 0..NoFlow
  <2>1. population' \in Seq(Individuals)
    BY <1>3, <1>4, CombinedIs, SeqMonotonic
  <2> QED BY <2>1, BestFlowIs
<1>6. curve' \in Seq(0..NoFlow) /\ Len(curve') <= Window
  <2>1. c \in Seq(0..NoFlow) /\ Len(c) = Len(curve) + 1 /\ c # <<>> /\ Len(curve) \in Nat
    <3>1. PICK b \in 0..NoFlow : b = BestFlow(population')
      BY <1>5
    <3>2. PICK q \in Seq(0..NoFlow) : q = curve
      BY <1>3
    <3>3. /\ Append(q, b) \in Seq(0..NoFlow) /\ Append(q, b) # <<>>
          /\ Len(Append(q, b)) = Len(q) + 1 /\ Len(q) \in Nat
      BY AppendProperties, LenProperties
    <3>4. c = Append(q, b)
      BY <1>2, <3>1, <3>2
    <3> QED BY <3>2, <3>3, <3>4
  <2>2. Tail(c) \in Seq(0..NoFlow) /\ Len(Tail(c)) = Len(c) - 1
    BY <2>1, HeadTailProperties
  <2>3. CASE Len(c) > Window
    <3>1. curve' = Tail(c)
      BY <1>2, <2>3
    <3>2. Len(c) - 1 <= Window
      BY <1>3, <2>1
    <3> QED BY <2>2, <3>1, <3>2
  <2>4. CASE ~(Len(c) > Window)
    <3>1. curve' = c
      BY <1>2, <2>4
    <3>2. Len(c) <= Window
      BY <1>3, <2>1, <2>4
    <3> QED BY <2>1, <3>1, <3>2
  <2> QED BY <2>3, <2>4
<1>7. gen' \in 0..MaxGenerations /\ (pc' # "done" => gen' < MaxGenerations) /\ pc' \in {"breed", "done"}
  BY <1>1, <1>3
<1>8. BasicInv'
  <2>1. offspring' \in Seq(Bred) /\ Len(offspring') = 0
    BY <1>1, EmptySeq
  <2> QED BY <1>4, <1>6, <1>7, <2>1 DEF BasicInv
<1>9. RankInv'
  <2>1. RankTypes'
    BY <1>1, <1>7, EmptySeq DEF RankTypes
  <2>2. Apart' /\ Layered' /\ FirstAscends'
    BY <1>1, NobodyIsRanked DEF Apart, Layered, FirstAscends, IsInjective
  <2>3. Counted' /\ FreeAreRanked' /\ Scanning' /\ Walking' /\ AllRanked'
    BY <1>7 DEF Counted, FreeAreRanked, Scanning, Walking, AllRanked, Sortings, Selections
  <2> QED BY <2>1, <2>2, <2>3 DEF RankInv
<1>10. SelectionInv' /\ SortInv' /\ KeptInv'
  <2>1. Len(fronts') = 0 /\ chosen' \in Seq(Founders \cup Bred) /\ sorted' \in Seq(Everyone')
    BY <1>1, EmptySeq
  <2>2. pc' \notin Selections /\ pc' \notin {"sort", "replace"}
    BY <1>7 DEF Selections
  <2> QED BY <1>1, <2>1, <2>2 DEF SelectionInv, SortInv, KeptInv
<1> QED BY <1>8, <1>9, <1>10 DEF SearchInv

LEMMA SearchStutters ==
  ASSUME SearchInv, UNCHANGED vars
  PROVE  SearchInv'
<1>1. /\ UNCHANGED <<population, offspring, gen, curve, pc, fronts, over, nextFront, walker, pending,
                    chosen, taken, job, sorted, at, ends, gap, span>>
      /\ combined' = combined /\ Everyone' = Everyone
  BY DEF vars, frontVars, takeVars, sortVars, combined, Everyone
<1>2. BasicInv'
  BY <1>1 DEF SearchInv, BasicInv
<1>3. RankInv'
  <2>1. RankTypes' /\ Apart' /\ Layered'
    BY <1>1, CombinedStays DEF SearchInv, RankInv, RankTypes, Apart, Layered, Upto
  <2>2. Counted' /\ FreeAreRanked' /\ Walking'
    BY <1>1, CombinedStays DEF SearchInv, RankInv, Counted, FreeAreRanked, Walking, Walked, Upto, currentFront
  <2>3. Scanning' /\ FirstAscends' /\ AllRanked'
    BY <1>1 DEF SearchInv, RankInv, Scanning, FirstAscends, AllRanked, Ascending, Upto
  <2> QED BY <2>1, <2>2, <2>3 DEF RankInv
<1>4. SelectionInv' /\ KeptInv'
  BY <1>1 DEF SearchInv, SelectionInv, KeptInv
<1>5. SortInv'
  <2> SUFFICES ASSUME pc = "sort" PROVE SortInv'
    BY <1>1 DEF SortInv
  <2>1. front' = front /\ \A o, lo, hi : Bounds(o, lo, hi)' <=> Bounds(o, lo, hi)
    BY <1>1 DEF front, Bounds
  <2>2. EndsInv'
    BY <1>1, <2>1 DEF EndsInv, SearchInv, SortInv
  <2>3. \A k : Key(k)' = Key(k)
    BY <1>1 DEF Key, Distance
  <2>4. Sorted' <=> Sorted
    BY <1>1, <2>3 DEF Sorted
  <2> QED BY <1>1, <2>1, <2>2, <2>4 DEF SearchInv, SortInv
<1> QED BY <1>2, <1>3, <1>4, <1>5 DEF SearchInv


(* One step per action.                                                    *)
LEMMA SearchKept == SearchInv /\ [Next]_vars => SearchInv'
<1> SUFFICES ASSUME SearchInv, [Next]_vars PROVE SearchInv'
  OBVIOUS
<1>1. CASE Breed
  BY <1>1, BreedKeeps
<1>2. CASE ScanOne \/ WalkOne \/ NextWalker \/ NextFront \/ Ranked
  <2>1. RankInv'
    BY <1>2, ScanOneRanks, WalkOneRanks, NextWalkerRanks, NextFrontRanks, RankedRanks
  <2>2. /\ pc \in Sortings /\ pc' \in Sortings \cup {"take"}
        /\ UNCHANGED <<population, offspring, gen, curve, takeVars, sortVars>>
    BY <1>2 DEF ScanOne, WalkOne, NextWalker, NextFront, Ranked, FrontComplete, Sortings
  <2>3. BasicInv'
    <3>1. pc \notin {"breed", "done"} /\ pc' \in Sortings \cup Selections /\ BasicInv
      BY <2>2 DEF Sortings, Selections, SearchInv
    <3> QED BY <2>2, <3>1, WorkingKeepsBasics
  <2>4. Len(fronts') \in Nat
    <3>1. fronts' \in Seq(Seq(Everyone') \ {<<>>})
      BY <2>1 DEF RankInv, RankTypes
    <3> QED BY <3>1, LenProperties
  <2>5. SelectionInv' /\ SortInv' /\ KeptInv'
    BY <2>2, <2>4, SortingSelects
  <2> QED BY <2>1, <2>3, <2>5 DEF SearchInv
<1>3. CASE TakeFront \/ SliceOutOfRange \/ Crowd \/ Chosen \/ Compare \/ NextPass \/ Measure \/ TakeCrowded
  <2>1. SelectionInv' /\ SortInv' /\ KeptInv'
    BY <1>3, TakeFrontKeeps, SliceOutOfRangeKeeps, CrowdKeeps, ChosenKeeps,
       CompareKeeps, NextPassKeeps, MeasureKeeps, TakeCrowdedKeeps
  <2>2. /\ pc \in Selections /\ pc' \in Selections
        /\ UNCHANGED <<population, offspring, gen, curve, frontVars>>
    BY <1>3 DEF TakeFront, SliceOutOfRange, Crowd, Chosen, Compare, NextPass, Measure, TakeCrowded,
                Wanting, SortEnds, Selections
  <2>3. pc \notin {"breed", "done"} /\ pc' \in Sortings \cup Selections /\ BasicInv /\ RankInv
    BY <2>2 DEF Selections, SearchInv
  <2>4. BasicInv'
    BY <2>2, <2>3, WorkingKeepsBasics
  <2>5. RankInv'
    BY <2>2, <2>3, SelectingRanks
  <2> QED BY <2>1, <2>4, <2>5 DEF SearchInv
<1>4. CASE Replace
  BY <1>4, ReplaceKeeps
<1>5. CASE UNCHANGED vars
  BY <1>5, SearchStutters
<1> QED BY <1>1, <1>2, <1>3, <1>4, <1>5 DEF Next

LEMMA SearchHolds == Spec => []SearchInv
<1> QED BY SearchInitially, SearchKept, PTL DEF Spec

-----------------------------------------------------------------------------
(* THEOREMS                                                               *)

LEMMA InvGivesTypes == SearchInv => TypeOK
<1> SUFFICES ASSUME SearchInv PROVE TypeOK
  OBVIOUS
<1>1. BasicInv /\ RankTypes /\ SelectionInv
  BY DEF SearchInv, RankInv
<1>2. /\ population \in Seq(Founders \cup Bred) /\ Len(population) \in 1..PopulationSize
      /\ offspring \in Seq(Bred) /\ gen \in 0..MaxGenerations
      /\ curve \in Seq(0..NoFlow) /\ Len(curve) <= Window
  BY <1>1 DEF BasicInv
<1>3. Len(offspring) \in {0, PopulationSize}
  BY <1>1 DEF BasicInv
<1>4. \A k \in DOMAIN fronts : fronts[k] \in Seq(DOMAIN combined) /\ fronts[k] # <<>>
  <2>1. fronts \in Seq(Seq(Everyone) \ {<<>>})
    BY <1>1 DEF RankTypes
  <2>2. \A k \in DOMAIN fronts : fronts[k] \in Seq(Everyone) \ {<<>>}
    BY <2>1, ElementOfSeq, LenProperties
  <2> QED BY <2>2 DEF Everyone
<1>5. \A j \in DOMAIN over : over[j] \subseteq DOMAIN combined
  <2>1. CASE over = <<>>
    <3>1. DOMAIN over = {}
      BY <2>1
    <3> QED BY <3>1
  <2>2. CASE over \in [Everyone -> SUBSET Everyone]
    BY <2>2 DEF Everyone
  <2> QED BY <1>1, <2>1, <2>2 DEF RankTypes
<1>6. nextFront \in Seq(DOMAIN combined) /\ pending \subseteq DOMAIN combined
  BY <1>1 DEF RankTypes, Everyone
<1>7. /\ chosen \in Seq(Founders \cup Bred) /\ sorted \in Seq(DOMAIN combined)
      /\ \A i \in ends : i \in DOMAIN combined
  BY <1>1 DEF SelectionInv, Everyone
<1> QED BY <1>2, <1>3, <1>4, <1>5, <1>6, <1>7 DEF TypeOK

(* Every variable has its type, however long the slices that are taken for  *)
(* fronts, and whatever is bred: the tournaments of every generation have   *)
(* someone to draw, and no population exceeds its size.                    *)
THEOREM SearchTypesCorrect == Spec => []TypeOK
<1> QED BY SearchHolds, InvGivesTypes, PTL

(* fastNonDominatedSort puts each individual into one front, and into the   *)
(* k-th exactly for a chain of dominance k long, for populations of any     *)
(* size.                                                                   *)
THEOREM FrontsRankByDominance == Spec => []FrontsAreRanks
<1>1. SearchInv => FrontsAreRanks
  BY RanksFollow DEF SearchInv
<1> QED BY <1>1, SearchHolds, PTL

(* Optimize answers with a valid individual whenever it has one, of the     *)
(* least flow that the Pareto front it reports offers.                     *)
THEOREM AnswerIsTheBest == Spec => []AnswerIsBestOffered
<1>1. SearchInv => AnswerIsBestOffered
  <2> SUFFICES ASSUME SearchInv, \E k \in DOMAIN population : population[k].valid
               PROVE  Answer(population).valid /\ Answer(population).flow = BestFlow(population)
    BY DEF AnswerIsBestOffered
  <2>1. population \in Seq(Founders \cup Bred) /\ BasicInv
    BY DEF SearchInv, BasicInv
  <2>2. population \in Seq(Individuals)
    BY <2>1, CombinedIs, SeqMonotonic
  <2> QED BY <2>2, AnswerIs
<1> QED BY <1>1, SearchHolds, PTL

(* A first front that exceeds the population loses neither its least flow   *)
(* nor its least cost to the selection by crowding distance, wherever a     *)
(* population has three places.                                            *)
THEOREM ExtremesAreKept == Spec => ExtremesKept
<1> DEFINE Kept ==
      pc = "replace" /\ pc' # pc /\ PopulationSize >= 3 /\ Len(fronts[1]) > PopulationSize =>
        \A o \in Objectives : \A i \in Range(fronts[1]) : combined[i].valid =>
          \E k \in DOMAIN population' : population'[k].valid /\ population'[k][o] <= combined[i][o]
<1>1. SearchInv /\ [Next]_vars => [Kept]_vars
  <2> SUFFICES ASSUME SearchInv, [Next]_vars, pc = "replace", pc' # pc, PopulationSize >= 3,
                      Len(fronts[1]) > PopulationSize,
                      NEW o \in Objectives, NEW i \in Range(fronts[1]), combined[i].valid
               PROVE  \E k \in DOMAIN population' :
                        population'[k].valid /\ population'[k][o] <= combined[i][o]
    OBVIOUS
  <2>1. Replace
    BY DEF Next, vars, Breed, ScanOne, WalkOne, NextWalker, NextFront, Ranked, FrontComplete,
           TakeFront, SliceOutOfRange, Crowd, Chosen, Wanting,
           Compare, NextPass, Measure, TakeCrowded, SortEnds
  <2>2. population' = Truncated(chosen) /\ chosen \in Seq(Founders \cup Bred) /\ chosen # <<>>
    BY <2>1 DEF Replace, SearchInv, SelectionInv
  <2>3. /\ Len(chosen) = PopulationSize
        /\ \E k \in DOMAIN chosen : chosen[k].valid /\ chosen[k][o] <= combined[i][o]
    BY DEF SearchInv, KeptInv
  <2>4. DOMAIN population' = DOMAIN chosen /\ \A k \in DOMAIN chosen : population'[k] = chosen[k]
    BY <2>2, <2>3, TruncatedIs
  <2> QED BY <2>3, <2>4
<1>2. Spec => [][Kept]_vars
  BY <1>1, SearchHolds, PTL DEF Spec
<1> QED BY <1>2 DEF ExtremesKept
=============================================================================
