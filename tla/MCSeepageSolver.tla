--------------------------- MODULE MCSeepageSolver ---------------------------
(* Small instances of SeepageSolver: grids of five columns and five rows.  *)
EXTENDS SeepageSolver

(* A dam whose upper row is narrower than the grid, on a foundation that    *)
(* lets more through; a permeable dam; a contact layer thicker than a row.  *)
Weir == [length |-> 40, height |-> 20, top |-> 10, upSlope |-> 5, downSlope |-> 10,
         depth |-> 20, layer |-> 3, k |-> 20, foundation |-> 100, contact |-> 10]
MCSections == {Weir, [Weir EXCEPT !.k = 100, !.foundation = 20], [Weir EXCEPT !.layer = 12]}

MCWaters == {[up |-> u, down |-> d] : u \in {15, 25, 40}, d \in {5, 12}} \cup {[up |-> 10, down |-> 20]}
MCCovers == {[length |-> 10, thickness |-> 10, k |-> 1], [length |-> 30, thickness |-> 12, k |-> 2]}
=============================================================================
