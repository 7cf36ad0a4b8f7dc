----------------------------- MODULE MCFeatures -----------------------------
(* The endpoints that compute their answer from the request and the dam     *)
(* presets: the virtual tour's adjustment, the solver, the ageing and the   *)
(* comparisons. They share no state, so that a run looks at one endpoint    *)
(* and leaves the others in their first state.                             *)
EXTENDS MCRiskHysteresis, MCSeepageSolver, AgingPredictor, DamComparison

VARIABLE endpoint

featureVars == <<endpoint, vars, solverVars, agingVars, comparisonVars>>

-----------------------------------------------------------------------------
(* A wear that makes the dam critical, one that makes the permeability meet  *)
(* its cap, and the least there can be.                                    *)
MCWearings == {[wear |-> w, microbe |-> 200, others |-> 300, season |-> s] :
                  w \in {1000, 60000}, s \in {95, 105}}
              \cup {[wear |-> LeastWear, microbe |-> 10, others |-> 30, season |-> 95]}
MCSpans == {[years |-> 30, step |-> 25], [years |-> 0, step |-> 0]}

(* Two dams, the ancient one letting more through, less in the size of the   *)
(* other; and two water levels of zero.                                    *)
Measure(f, p) == [flow |-> f, pressure |-> p]
MCFindings ==
  LET pairs == KnownDams \X KnownDams
  IN { [p \in pairs |-> IF p[1] \notin Ancient THEN Measure(2, 30)
                        ELSE IF p[2] \in Ancient THEN Measure(9, 20) ELSE Measure(12, 25)],
       [p \in pairs |-> Measure(0, 0)] }

-----------------------------------------------------------------------------
TourRests ==
  /\ dam = [r \in Requests |-> tashan]
  /\ Init

SolverRests ==
  /\ section = Weir
  /\ water = [up |-> 10, down |-> 20]
  /\ cover = NoCover
  /\ SolverInit

AgingRests ==
  /\ request = [built |-> NoDam, freq |-> "", climate |-> FALSE, span |-> [years |-> 0, step |-> 0],
                scenarios |-> <<"baseline">>]
  /\ wearing = [i \in 1..Limit |-> [wear |-> 1000, microbe |-> 200, others |-> 300, season |-> 95]]
  /\ AgingInit

ComparisonRests ==
  /\ wanted = [kind |-> "dams", keys |-> <<>>, scaled |-> FALSE]
  /\ found = [p \in KnownDams \X KnownDams |-> Measure(0, 0)]
  /\ ComparisonInit

FeatureInit ==
  \/ endpoint = "tour"    /\ Init      /\ SolverRests /\ AgingRests /\ ComparisonRests
  \/ endpoint = "solver"  /\ TourRests /\ SolverInit  /\ AgingRests /\ ComparisonRests
  \/ endpoint = "aging"   /\ TourRests /\ SolverRests /\ AgingInit  /\ ComparisonRests
  \/ endpoint = "compare" /\ TourRests /\ SolverRests /\ AgingRests /\ ComparisonInit

FeatureNext ==
  /\ UNCHANGED endpoint
  /\ \/ endpoint = "tour"    /\ Next           /\ UNCHANGED <<solverVars, agingVars, comparisonVars>>
     \/ endpoint = "solver"  /\ SolverNext     /\ UNCHANGED <<vars, agingVars, comparisonVars>>
     \/ endpoint = "aging"   /\ AgingNext      /\ UNCHANGED <<vars, solverVars, comparisonVars>>
     \/ endpoint = "compare" /\ ComparisonNext /\ UNCHANGED <<vars, solverVars, agingVars>>

FeatureSpec == FeatureInit /\ [][FeatureNext]_featureVars

(* The type invariants of the endpoints' modules together: clamped levels,   *)
(* passes that stay in the grid, permeabilities that never fall, one         *)
(* goroutine at the slice.                                                 *)
FeatureTypes == TypeOK /\ SolverTypeOK /\ AgingTypeOK /\ ComparisonTypeOK
=============================================================================
