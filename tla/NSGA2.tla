------------------------------- MODULE NSGA2 -------------------------------
(***************************************************************************)
(* The multi-objective search of optimization/genetic_algo.go: Optimize,    *)
(* with non-dominated sorting, crowding distance, environmental selection,  *)
(* the stopping rule and the choice of the answer.                         *)
(*                                                                         *)
(* An individual is its two objectives and whether it is valid (the solver  *)
(* converged and the budget suffices); blanket lengths, which only the      *)
(* solver turns into objectives, are left out. Indices count from 1. The    *)
(* loops of a generation are taken turn by turn; distances are computed for *)
(* the front that needs them, where the code has computed them for all.     *)
(***************************************************************************)
EXTENDS Integers, SequencesExt

CONSTANTS
  PopulationSize,
  MaxGenerations,
  Window,     \* generations without improvement that end the search: 20
  Most,       \* bound: the greatest flow and cost
  Founders,   \* bound: individuals of the first population
  Bred        \* bound: individuals that crossover and mutation may produce

Individuals == [flow : 0..Most, cost : 0..Most, valid : BOOLEAN]

ASSUME SearchAssumption ==
  /\ PopulationSize \in Nat \ {0}
  /\ MaxGenerations \in Nat /\ Window \in Nat \ {0} /\ Most \in Nat
  /\ Founders \subseteq Individuals /\ Bred \subseteq Individuals

VARIABLES
  population,
  offspring,    \* the individuals bred in this generation
  gen,
  curve,        \* the last Window entries of ConvergenceCurve
  pc,           \* "breed", "scan", "walk", "take", "sort", "replace", "done", "panicked"
  \* fastNonDominatedSort
  fronts,
  over,         \* who dominates each individual and is to be walked yet: dominationCount counts them
  nextFront,
  walker,       \* the place in currentFront of the member whose dominatedSet is walked
  pending,      \* what is to be visited yet: all individuals in the scan, then a dominatedSet
  \* crowdingDistanceAssignment and the environmental selection
  chosen,       \* newPopulation
  taken,        \* fronts that are in it
  job,          \* what a front is sorted by: "flow", "cost", "crowding"
  sorted,       \* its members as the exchange sort has them
  at,           \* i and j of the exchange sort
  ends,         \* the members at the infinite distance
  gap,          \* [objective -> [member -> next - prev]]
  span          \* [objective -> objRange]

frontVars == <<fronts, over, nextFront, walker, pending>>
takeVars == <<chosen, taken>>
sortVars == <<job, sorted, at, ends, gap, span>>
vars == <<population, offspring, gen, curve, pc, frontVars, takeVars, sortVars>>

combined == population \o offspring
Objectives == {"flow", "cost"}
NoFlow == Most + 1                  \* 1e20, for a population without a valid individual
Unbounded == 2 * Most * Most + 1    \* 1e18, the crowding distance of an extreme

-----------------------------------------------------------------------------
(* Decisions that are easy to get wrong, each after a faulty variant.     *)

(* The code takes flows within 1e-15 and costs within 1e-6 of each other    *)
(* for equal (genetic_algo.go:317-325); here equal is equal.               *)
AsGood(a, b) == a.flow <= b.flow /\ a.cost <= b.cost
dominates(a, b) ==
  a.valid /\ (b.valid => AsGood(a, b) /\ ~AsGood(b, a))

(* Every pair is compared both ways, whichever of the two comes first.     *)
FaultyDominators(p, j) == {i \in DOMAIN p : i < j /\ dominates(p[i], p[j])}
Dominators(p, j) == {i \in DOMAIN p : dominates(p[i], p[j])}

(* nsga2Compare within a front: the more distant first, the invalid alike.  *)
FaultyCrowded(ind, distance) == IF ind.valid THEN distance ELSE 0
Crowded(ind, distance) == IF ind.valid THEN 0 - distance ELSE 0

FaultyMayAnswer(ind) == TRUE
MayAnswer(ind) == ind.valid

(* newPopulation[:PopulationSize], where it is longer.                     *)
FaultyTruncated(s) == s
Truncated(s) == SubSeq(s, 1, IF Len(s) > PopulationSize THEN PopulationSize ELSE Len(s))

-----------------------------------------------------------------------------
(* extractParetoFront, and the best flow of it.                            *)
ParetoFront(p) == {i \in DOMAIN p : p[i].valid /\ Dominators(p, i) = {}}
BestFlow(p) == Min({NoFlow} \cup {p[i].flow : i \in ParetoFront(p)})

(* bestOverall: the first valid individual of the least flow.              *)
Answer(p) ==
  LET offered == {i \in DOMAIN p : MayAnswer(p[i])}
      best    == {i \in offered : \A k \in offered : p[i].flow <= p[k].flow}
  IN p[Min(best)]

-----------------------------------------------------------------------------
NoGap == [o \in Objectives |-> <<>>]
NoSpan == [o \in Objectives |-> 0]

Init ==
  /\ population \in [1..PopulationSize -> Founders]
  /\ offspring = <<>>
  /\ gen = 0
  /\ curve = <<>>
  /\ pc = IF MaxGenerations = 0 THEN "done" ELSE "breed"
  /\ fronts = <<>> /\ over = <<>> /\ nextFront = <<>> /\ walker = 1 /\ pending = {}
  /\ chosen = <<>> /\ taken = 0
  /\ job = "flow" /\ sorted = <<>> /\ at = <<1, 2>> /\ ends = {} /\ gap = NoGap /\ span = NoSpan

(* Tournaments, crossover, mutation and evaluation. Mutation adds a normal  *)
(* deviate, so that any child may come of any parents. All are compared,    *)
(* and the scan for the first front begins.                                *)
Breed ==
  /\ pc = "breed"
  /\ offspring' \in [1..PopulationSize -> Bred]
  /\ LET all == population \o offspring'
     IN /\ over' = [j \in DOMAIN all |-> Dominators(all, j)]
        /\ pending' = DOMAIN all
  /\ pc' = "scan"
  /\ UNCHANGED <<population, gen, curve, fronts, nextFront, walker, takeVars, sortVars>>

-----------------------------------------------------------------------------
(* fastNonDominatedSort                                                   *)

currentFront == fronts[Len(fronts)]
Dominated(i) == {j \in DOMAIN combined : i \in Dominators(combined, j)}

Joined(j, left) == IF left = {} THEN Append(nextFront, j) ELSE nextFront

ScanOne ==
  /\ pc = "scan" /\ pending # {}
  /\ LET j == Min(pending)
     IN /\ nextFront' = Joined(j, over[j])
        /\ pending' = pending \ {j}
  /\ UNCHANGED <<population, offspring, gen, curve, pc, fronts, over, walker, takeVars, sortVars>>

(* The next of dominatedSet, which is ascending.                           *)
WalkOne ==
  /\ pc = "walk" /\ pending # {}
  /\ LET j == Min(pending)
     IN /\ over' = [over EXCEPT ![j] = @ \ {currentFront[walker]}]
        /\ nextFront' = Joined(j, over'[j])
        /\ pending' = pending \ {j}
  /\ UNCHANGED <<population, offspring, gen, curve, pc, fronts, walker, takeVars, sortVars>>

NextWalker ==
  /\ pc = "walk" /\ pending = {} /\ walker < Len(currentFront)
  /\ walker' = walker + 1
  /\ pending' = Dominated(currentFront[walker'])
  /\ UNCHANGED <<population, offspring, gen, curve, pc, fronts, over, nextFront, takeVars, sortVars>>

FrontComplete == pending = {} /\ (pc = "scan" \/ (pc = "walk" /\ walker = Len(currentFront)))

NextFront ==
  /\ FrontComplete
  /\ nextFront # <<>>
  /\ fronts' = Append(fronts, nextFront)
  /\ nextFront' = <<>>
  /\ walker' = 1
  /\ pending' = Dominated(nextFront[1])
  /\ pc' = "walk"
  /\ UNCHANGED <<population, offspring, gen, curve, over, takeVars, sortVars>>

Ranked ==
  /\ FrontComplete
  /\ nextFront = <<>>
  /\ pc' = "take"
  /\ UNCHANGED <<population, offspring, gen, curve, frontVars, takeVars, sortVars>>

-----------------------------------------------------------------------------
(* The environmental selection. A front that fits is taken as the slice     *)
(* from its first to its last member; one that does not, by crowding.      *)

front == fronts[taken + 1]
Wanting == pc = "take" /\ taken < Len(fronts) /\ Len(chosen) < PopulationSize
Fits == Len(chosen) + Len(front) <= PopulationSize

TakeFront ==
  /\ Wanting /\ Fits
  /\ front[1] <= front[Len(front)] + 1
  /\ chosen' = chosen \o SubSeq(combined, front[1], front[Len(front)])
  /\ taken' = taken + 1
  /\ UNCHANGED <<population, offspring, gen, curve, pc, frontVars, sortVars>>

SliceOutOfRange ==
  /\ Wanting /\ Fits
  /\ front[1] > front[Len(front)] + 1
  /\ pc' = "panicked"
  /\ UNCHANGED <<population, offspring, gen, curve, frontVars, takeVars, sortVars>>

(* A front of one or two is all extremes.                                  *)
Crowd ==
  /\ Wanting /\ ~Fits
  /\ job' = IF Len(front) <= 2 THEN "crowding" ELSE "flow"
  /\ ends' = IF Len(front) <= 2 THEN Range(front) ELSE {}
  /\ gap' = [o \in Objectives |-> [i \in Range(front) |-> 0]]
  /\ sorted' = front
  /\ at' = <<1, 2>>
  /\ pc' = "sort"
  /\ UNCHANGED <<population, offspring, gen, curve, frontVars, takeVars, span>>

Chosen ==
  /\ pc = "take" /\ ~Wanting
  /\ pc' = "replace"
  /\ UNCHANGED <<population, offspring, gen, curve, frontVars, takeVars, sortVars>>

-----------------------------------------------------------------------------
(* The exchange sort, which swaps while it scans: by an objective, and by   *)
(* the crowding distance. Distances are multiplied by the ranges of both    *)
(* objectives, which orders a front's members alike.                        *)

AtLeastOne(n) == IF n = 0 THEN 1 ELSE n
Distance(i) ==
  IF i \in ends THEN Unbounded
  ELSE gap["flow"][i] * AtLeastOne(span["cost"]) + gap["cost"][i] * AtLeastOne(span["flow"])

Key(i) == IF job = "crowding" THEN Crowded(combined[i], Distance(i)) ELSE combined[i][job]

Compare ==
  /\ pc = "sort" /\ at[1] < Len(sorted) /\ at[2] <= Len(sorted)
  /\ LET i == at[1]
         j == at[2]
     IN sorted' = IF Key(sorted[i]) > Key(sorted[j])
                  THEN [sorted EXCEPT ![i] = sorted[j], ![j] = sorted[i]] ELSE sorted
  /\ at' = <<at[1], at[2] + 1>>
  /\ UNCHANGED <<population, offspring, gen, curve, pc, frontVars, takeVars, job, ends, gap, span>>

NextPass ==
  /\ pc = "sort" /\ at[1] < Len(sorted) /\ at[2] > Len(sorted)
  /\ at' = <<at[1] + 1, at[1] + 2>>
  /\ UNCHANGED <<population, offspring, gen, curve, pc, frontVars, takeVars, job, sorted, ends, gap, span>>

SortEnds == pc = "sort" /\ at[1] >= Len(sorted)

(* The extremes of the objective are set apart, the others measured.       *)
Measure ==
  /\ SortEnds /\ job \in Objectives
  /\ LET n == Len(sorted)
     IN /\ span' = [span EXCEPT ![job] = Key(sorted[n]) - Key(sorted[1])]
        /\ ends' = ends \cup {sorted[1], sorted[n]}
        /\ gap' = [gap EXCEPT ![job] =
                     [i \in Range(front) |->
                        LET k == CHOOSE m \in 1..n : sorted[m] = i
                        IN IF k \in {1, n} THEN 0 ELSE Key(sorted[k + 1]) - Key(sorted[k - 1])]]
  /\ job' = IF job = "flow" THEN "cost" ELSE "crowding"
  /\ sorted' = front
  /\ at' = <<1, 2>>
  /\ UNCHANGED <<population, offspring, gen, curve, pc, frontVars, takeVars>>

TakeCrowded ==
  /\ SortEnds /\ job = "crowding"
  /\ chosen' = chosen \o [k \in 1..(PopulationSize - Len(chosen)) |-> combined[sorted[k]]]
  /\ pc' = "replace"
  /\ UNCHANGED <<population, offspring, gen, curve, frontVars, taken, sortVars>>

-----------------------------------------------------------------------------
Stagnates(c) == Len(c) = Window /\ \A k \in DOMAIN c : c[k] = c[Len(c)]

(* The generation ends; its slices are garbage.                            *)
Replace ==
  /\ pc = "replace"
  /\ population' = Truncated(chosen)
  /\ LET c == Append(curve, BestFlow(population'))
     IN curve' = IF Len(c) > Window THEN Tail(c) ELSE c
  /\ gen' = gen + 1
  /\ pc' = IF gen' = MaxGenerations \/ (gen >= Window /\ Stagnates(curve')) THEN "done" ELSE "breed"
  /\ offspring' = <<>>
  /\ fronts' = <<>> /\ over' = <<>> /\ nextFront' = <<>> /\ walker' = 1 /\ pending' = {}
  /\ chosen' = <<>> /\ taken' = 0
  /\ job' = "flow" /\ sorted' = <<>> /\ at' = <<1, 2>> /\ ends' = {} /\ gap' = NoGap /\ span' = NoSpan

Next ==
  \/ Breed
  \/ ScanOne \/ WalkOne \/ NextWalker \/ NextFront \/ Ranked
  \/ TakeFront \/ SliceOutOfRange \/ Crowd \/ Chosen
  \/ Compare \/ NextPass \/ Measure \/ TakeCrowded
  \/ Replace

Spec == Init /\ [][Next]_vars

-----------------------------------------------------------------------------
(* PROPERTIES                                                             *)

(* Every variable has its type; a population is never empty, from which the *)
(* tournaments could not draw, and never exceeds its size, although fronts  *)
(* are taken as slices of any length.                                      *)
TypeOK ==
  /\ population \in Seq(Founders \cup Bred)
  /\ Len(population) \in 1..PopulationSize
  /\ offspring \in Seq(Bred) /\ Len(offspring) \in {0, PopulationSize}
  /\ gen \in 0..MaxGenerations
  /\ curve \in Seq(0..NoFlow) /\ Len(curve) <= Window
  /\ \A k \in DOMAIN fronts : fronts[k] \in Seq(DOMAIN combined) /\ fronts[k] # <<>>
  /\ \A j \in DOMAIN over : over[j] \subseteq DOMAIN combined
  /\ nextFront \in Seq(DOMAIN combined)
  /\ pending \subseteq DOMAIN combined
  /\ chosen \in Seq(Founders \cup Bred)
  /\ sorted \in Seq(DOMAIN combined)
  /\ \A i \in ends : i \in DOMAIN combined

(* The sorting ranks by dominance: each individual is in one front, in the  *)
(* first iff nobody dominates it, and in a later one iff one of the front   *)
(* just before dominates it and nobody of its own or a later one does,      *)
(* although the counts are kept in one pass over the pairs.                *)
FrontsAreRanks ==
  pc \in {"take", "sort", "replace", "panicked"} =>
    LET p == combined
    IN /\ \A i \in DOMAIN p : \E k \in DOMAIN fronts : i \in Range(fronts[k])
       /\ \A k, m \in DOMAIN fronts : \A x \in DOMAIN fronts[k], y \in DOMAIN fronts[m] :
            fronts[k][x] = fronts[m][y] => k = m /\ x = y
       /\ \A k, m \in DOMAIN fronts : k <= m =>
            \A i \in Range(fronts[k]), j \in Range(fronts[m]) : ~dominates(p[j], p[i])
       /\ \A k \in DOMAIN fronts \ {1} : \A j \in Range(fronts[k]) :
            \E i \in Range(fronts[k - 1]) : dominates(p[i], p[j])

(* When even the first front exceeds the population, the solutions of the   *)
(* least flow and of the least cost are kept: that is what the crowding     *)
(* distance of the extremes is for. A third place is needed, because an     *)
(* extreme may occur twice.                                                *)
ExtremesKept ==
  [][pc = "replace" /\ pc' # pc /\ PopulationSize >= 3 /\ Len(fronts[1]) > PopulationSize =>
       \A o \in Objectives : \A i \in Range(fronts[1]) : combined[i].valid =>
         \E k \in DOMAIN population' : population'[k].valid /\ population'[k][o] <= combined[i][o]]_vars

(* The answer is valid when any individual is, and its flow is the least    *)
(* that the Pareto front offers: the answer and the front are chosen by     *)
(* different code from the same population.                                *)
AnswerIsBestOffered ==
  pc = "done" /\ (\E k \in DOMAIN population : population[k].valid) =>
    Answer(population).valid /\ Answer(population).flow = BestFlow(population)

(* NSGA-II is elitist: the best flow of a generation is no worse than that  *)
(* of the one before, and the search goes on to its end.                   *)
Elitist ==
  [][pc' # "panicked" /\ BestFlow(population') <= BestFlow(population)]_vars
=============================================================================
