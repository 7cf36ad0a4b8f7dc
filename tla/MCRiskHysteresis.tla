-------------------------- MODULE MCRiskHysteresis --------------------------
(* Small instances of RiskHysteresis: two dams of the presets.             *)
EXTENDS RiskHysteresis, TLC

CONSTANTS tashan, tuojiang

MCDesign == tashan :> [up |-> 85, down |-> 32] @@ tuojiang :> [up |-> 125, down |-> 50]

(* The design levels by default; a head above, below and far above the      *)
(* design's; levels out of range at either end.                            *)
MCAsked == { [up |-> 0, down |-> 0], [up |-> 90, down |-> 32], [up |-> 80, down |-> 32],
             [up |-> 130, down |-> 20], [up |-> 400, down |-> 350], [up |-> 2, down |-> 1] }

RequestSymmetry == Permutations(Requests)
=============================================================================
