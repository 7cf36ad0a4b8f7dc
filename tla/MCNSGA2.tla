------------------------------ MODULE MCNSGA2 ------------------------------
(* Small instances of NSGA2.                                               *)
EXTENDS NSGA2

Ind(f, c) == [flow |-> f, cost |-> c, valid |-> TRUE]
OverBudget == [flow |-> 0, cost |-> 9, valid |-> FALSE]

(* Two founders that do not dominate each other; a bred one that dominates  *)
(* the first, another that the second dominates; and, of either origin, one *)
(* beyond the budget, of the least flow.                                   *)
MCFounders == {Ind(1, 4), Ind(2, 1), OverBudget}
MCBred == {Ind(1, 2), Ind(4, 1), OverBudget}
=============================================================================
