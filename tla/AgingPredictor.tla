--------------------------- MODULE AgingPredictor ---------------------------
(***************************************************************************)
(* The ageing of a dam, aging_predictor/aging_predictor.go: how the         *)
(* permeability grows under wear, living things and maintenance, what the   *)
(* solver makes of it year by year, when the dam becomes critical, and the  *)
(* four scenarios that POST /aging/scenarios sets side by side.            *)
(*                                                                         *)
(* Ratios and probabilities are in thousandths, damage in ten-thousandths,   *)
(* factors in hundredths. What the logarithms, roots and seasons of the     *)
(* damage formulas come to in a time step is chosen from Wearings, with the *)
(* constant Arrhenius factor, 1.36. The solver's flow is chosen.            *)
(***************************************************************************)
EXTENDS Integers, Sequences

CONSTANTS
  Wearings,     \* [wear, microbe, others, season] of one time step
  FlowRatios,   \* flows of later years to the first one's
  Frequencies,  \* maintenance_frequency of a request
  Spans,        \* [years, step] of a request
  BuildYears,   \* of the dams with a preset
  NoDam,        \* a key without a preset
  Now,          \* the current year
  DefaultYears, \* 100
  Limit         \* bound: the most data points of a request

(* Weathering alone comes to 0.003 in the first year, with Arrhenius.       *)
LeastWear == 40

ASSUME AgingAssumption ==
  /\ Wearings \subseteq [wear : Nat, microbe : Nat, others : Nat, season : 95..105]
  /\ \A y \in Wearings : y.wear >= LeastWear /\ y.wear >= y.microbe + y.others
  /\ FlowRatios \subseteq Nat
  /\ Spans \subseteq [years : Int, step : Int]
  /\ BuildYears \subseteq Nat /\ NoDam \notin BuildYears
  /\ Now \in Nat \ {0} /\ DefaultYears \in Nat \ {0} /\ Limit \in Nat

VARIABLES
  request,    \* [built, freq, climate, span, scenarios]
  wearing,    \* the wearing of each year, alike in all scenarios
  damage,     \* currentDamage
  evolution,  \* permeabilities of the scenario at work, initialK being 100
  points,     \* its data points
  critical,   \* its criticalYear
  results     \* what the complete scenarios found

agingVars == <<request, wearing, damage, evolution, points, critical, results>>

Scenarios == <<"baseline", "high_maintenance", "no_maintenance", "with_climate">>
InitialK == 100

-----------------------------------------------------------------------------
(* A decision that is easy to get wrong, after a faulty variant.           *)

FaultyMaintenanceFactor(freq) ==
  CASE freq = "high" -> 85 [] freq = "medium" -> 60 [] freq = "low" -> 30 [] OTHER -> 100
MaintenanceFactor(freq) ==
  CASE freq = "high" -> 30 [] freq = "medium" -> 60 [] freq = "low" -> 85 [] OTHER -> 100

CriticalAfter(year, prob) == IF critical = 0 /\ prob > 500 THEN year ELSE critical

Smaller(a, b) == IF a <= b THEN a ELSE b
Larger(a, b) == IF a >= b THEN a ELSE b

Grown(prev, grown) == Smaller(Larger(prev, grown), 1000 * InitialK)

-----------------------------------------------------------------------------
(* The scenario at work and its parameters.                               *)

Scenario == request.scenarios[Len(results) + 1]
Climate == request.climate \/ Scenario = "with_climate"
Frequency == CASE Scenario = "high_maintenance" -> "high"
               [] Scenario = "no_maintenance" -> "none"
               [] OTHER -> request.freq
Care == MaintenanceFactor(Frequency)

TimeStep == IF request.span.step <= 0 THEN 5 ELSE request.span.step
Years == IF request.span.years <= 0 THEN DefaultYears ELSE request.span.years
NumPoints == Years \div TimeStep + 1
InitialAge == Larger(Now - request.built, 0)

(* CalculatePermeabilityEvolution: the damage of year y, on top of what     *)
(* maintenance has left of the damage so far.                              *)
Damaged(y) ==
  LET physical == IF Climate THEN (13 * y.wear) \div 10 ELSE y.wear
      microbe  == IF Climate THEN (115 * y.microbe) \div 100 ELSE y.microbe
      living   == ((microbe + y.others) * Care * 9) \div 1000
  IN ((damage + physical + living) * Care) \div 100

Ratio(d, y) == 1000 + (IF Climate THEN (d * y.season) \div 100 ELSE d) \div 10

PermeabilityAfter(ratio) ==
  IF evolution = <<>> THEN Smaller((InitialK * ratio) \div 1000, 1000 * InitialK)
  ELSE LET prev == evolution[Len(evolution)]
       IN Grown(prev, (prev * ((ratio * Care) \div 100)) \div 1000)

FailureProbability(kRatio, flowRatio, age) ==
  LET sum  == (Smaller(1000, (kRatio - 1000) \div 10) + 4 * Smaller(1000, (flowRatio - 1000) \div 5)
                + 2 * Smaller(1000, age)) \div 10
      prob == Larger(0, Smaller(1000, sum))
      worn == IF kRatio > 100000 THEN Larger(prob, 800) ELSE prob
  IN IF flowRatio > 3000 THEN Larger(worn, 700) ELSE worn

RecommendedAction(degree, prob) ==
  IF prob > 800 THEN "reinforce" ELSE IF prob > 500 THEN "repair" ELSE IF prob > 200 THEN "inspect"
  ELSE IF degree > 30 THEN "prevent" ELSE "monitor"

DataPoint(flowRatio) ==
  LET past   == Len(points) * TimeStep
      kRatio == (evolution[Len(points) + 1] * 1000) \div InitialK
      degree == Smaller(100, (kRatio - 1000) \div 50)
      prob   == FailureProbability(kRatio, flowRatio, InitialAge + past)
  IN [year |-> Now + past, prob |-> prob, degree |-> degree, action |-> RecommendedAction(degree, prob)]

(* generateRecommendations, but for those that are always given.           *)
Recommendations ==
  LET last == points[Len(points)]
  IN {r \in {"assess", "watch", "maintain", "strengthen"} :
        CASE r = "assess" -> last.degree > 50
          [] r = "watch" -> last.prob > 300
          [] r = "maintain" -> Frequency \in {"none", "low"}
          [] r = "strengthen" -> last.degree > 30}

-----------------------------------------------------------------------------
AgingInit ==
  /\ request \in [built : BuildYears \cup {NoDam}, freq : Frequencies, climate : BOOLEAN,
                  span : Spans, scenarios : {Scenarios, <<"baseline">>}]
  /\ NumPoints <= Limit
  /\ wearing \in [1..Limit -> Wearings]
  /\ damage = 0
  /\ evolution = <<>>
  /\ points = <<>>
  /\ critical = 0
  /\ results = <<>>

Working == Len(results) < Len(request.scenarios)

(* Of a dam without a preset a scenario has no result: PredictAging         *)
(* answers an error, CompareAgingScenarios keeps nil.                      *)
NoResult == [evolution |-> <<>>, critical |-> 0, advice |-> {}]

Missing ==
  /\ Working
  /\ request.built = NoDam
  /\ results' = Append(results, NoResult)
  /\ UNCHANGED <<request, wearing, damage, evolution, points, critical>>

Evolve ==
  /\ Working
  /\ request.built # NoDam
  /\ Len(evolution) < NumPoints
  /\ LET y == wearing[Len(evolution) + 1]
     IN /\ damage' = Damaged(y)
        /\ evolution' = Append(evolution, PermeabilityAfter(Ratio(damage', y)))
  /\ UNCHANGED <<request, wearing, points, critical, results>>

Predict ==
  /\ Working
  /\ request.built # NoDam
  /\ Len(evolution) = NumPoints
  /\ Len(points) < NumPoints
  /\ \E flowRatio \in IF points = <<>> THEN {1000} ELSE FlowRatios :
       /\ points' = Append(points, DataPoint(flowRatio))
       /\ critical' = CriticalAfter(DataPoint(flowRatio).year, DataPoint(flowRatio).prob)
  /\ UNCHANGED <<request, wearing, damage, evolution, results>>

ScenarioEnds ==
  /\ Working
  /\ points # <<>> /\ Len(points) = NumPoints
  /\ results' = Append(results, [evolution |-> evolution, critical |-> critical, advice |-> Recommendations])
  /\ damage' = 0
  /\ evolution' = <<>>
  /\ points' = <<>>
  /\ critical' = 0
  /\ UNCHANGED <<request, wearing>>

AgingNext == Missing \/ Evolve \/ Predict \/ ScenarioEnds

AgingSpec == AgingInit /\ [][AgingNext]_agingVars

-----------------------------------------------------------------------------
(* PROPERTIES                                                             *)

Urgent == {"repair", "reinforce"}

(* Every variable has its type; a permeability never falls while the dam    *)
(* ages, whatever the maintenance, and never passes a thousand times the    *)
(* first one; probabilities and degrees stay in their ranges.              *)
AgingTypeOK ==
  /\ damage \in Nat
  /\ Len(evolution) <= NumPoints /\ Len(points) <= Len(evolution)
  /\ \A i \in DOMAIN evolution : /\ evolution[i] \in 0..1000 * InitialK
                                 /\ i > 1 => evolution[i - 1] <= evolution[i]
  /\ \A i \in DOMAIN points : points[i].prob \in 0..1000 /\ points[i].degree \in 0..100
  /\ critical \in {0} \cup {points[i].year : i \in DOMAIN points}
  /\ Len(results) <= Len(request.scenarios)

(* The scenarios come out in the order of what they suppose, in every year: *)
(* more maintenance never ages a dam faster, and a harsher climate never    *)
(* slower, although maintenance enters the damage, the living things'       *)
(* share of it and the growth, through maxima, a cap and a season.         *)
NoFaster(s, t) ==
  s \in DOMAIN results /\ t \in DOMAIN results =>
    \A i \in DOMAIN results[s].evolution : results[s].evolution[i] <= results[t].evolution[i]
ScenariosOrdered == NoFaster(2, 1) /\ NoFaster(1, 3) /\ NoFaster(1, 4)

(* The critical year is the first whose data point advises repair or more:  *)
(* the bound of 0.5 that makes a year critical stands apart from that of    *)
(* the advice (aging_predictor.go:241, 298), and the probability may fall   *)
(* again.                                                                  *)
CriticalYearIsFirst ==
  LET urgent == {i \in DOMAIN points : points[i].action \in Urgent}
  IN IF urgent = {} THEN critical = 0
     ELSE \E i \in urgent : points[i].year = critical /\ \A k \in urgent : i <= k

(* What the four forecasts tell fits together.                             *)
ForecastTells == ScenariosOrdered /\ CriticalYearIsFirst
=============================================================================
