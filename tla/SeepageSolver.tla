---------------------------- MODULE SeepageSolver ----------------------------
(***************************************************************************)
(* The finite-difference seepage solver of simulation/seepage_fem.go: a     *)
(* grid over the cross-section of a dam and its foundation, heads on its    *)
(* borders from the two water levels, relaxation in place in two passes     *)
(* until nothing moves, then velocities and flow; and the second solver     *)
(* that RunComparison runs without the blanket.                            *)
(*                                                                         *)
(* Lengths and heads are integers in a small unit, slopes in tenths, and    *)
(* quotients are rounded down. A cell is <<j, i>>: row j counts from the    *)
(* bottom of the foundation, column i from the upstream end, both from 0.   *)
(***************************************************************************)
EXTENDS Integers, FiniteSetsExt

CONSTANTS
  NX, NY,     \* columns and rows of the grid
  Sections,   \* cross-sections of dams, with their permeabilities
  Waters,     \* [up, down] water levels
  Covers,     \* blankets on the upstream bed
  NoCover,    \* Blanket.Enabled is false
  MinIter,    \* 10: iterations after which the solver may stop
  MaxIter     \* 500

(* Both comparison endpoints hand on whatever levels they are asked for, and *)
(* /compare/dams any resolution: levels below zero and grids of one or two  *)
(* columns or rows are left out.                                           *)
ASSUME SolverAssumption ==
  /\ NX \in Nat /\ NX >= 3 /\ NY \in Nat /\ NY >= 3
  /\ Sections \subseteq [length : Nat \ {0}, height : Nat \ {0}, top : Nat, upSlope : Nat, downSlope : Nat,
                         depth : Nat, layer : Nat, k : Nat \ {0}, foundation : Nat \ {0}, contact : Nat \ {0}]
  /\ Waters \subseteq [up : Nat, down : Nat]
  /\ Covers \subseteq [length : Nat, thickness : Nat, k : Nat \ {0}]
  /\ NoCover \notin Covers
  /\ MinIter \in Nat /\ MaxIter \in Nat /\ MinIter < MaxIter

VARIABLES
  section, water, cover,  \* what RunComparison is called for
  baseline,  \* the second solver, without the blanket, is at work
  head,      \* WaterHead
  velocity,  \* VelocityX, in units of one over twice the column distance
  step,      \* "grid", "sweep", "lift", "velocities", "flow", "done"
  at,        \* the cell that a pass comes to next
  iter,      \* full iterations before this one
  moved,     \* maxDelta >= tol in this iteration
  flow,      \* CalculateSeepageFlow of the two solvers
  lifted     \* history: the cells that the last second pass has lifted

inputVars  == <<section, water, cover>>
solverVars == <<inputVars, baseline, head, velocity, step, at, iter, moved, flow, lifted>>

Cells == (0..NY - 1) \X (0..NX - 1)
Blanket == IF baseline THEN NoCover ELSE cover

Greater(a, b) == IF a >= b THEN a ELSE b
Lesser(a, b) == IF a >= b THEN b ELSE a

-----------------------------------------------------------------------------
(* InitializeGrid: where a cell is and what it is made of.                 *)

X(c) == (section.length * c[2]) \div (NX - 1)
Y(c) == ((section.height + section.depth) * c[1]) \div (NY - 1) - section.depth

(* damProfile, in twentieths. *)
Below(c) == Greater(section.height - Y(c), 0)
FromStart(c) == 20 * X(c) >= 10 * (section.length - section.top) - 2 * section.upSlope * Below(c)
Behind(c) == 20 * X(c) - 10 * (section.length + section.top) - 2 * section.downSlope * Below(c)

InBody(c) == Y(c) > 0 /\ FromStart(c) /\ Behind(c) <= 0
InFoundation(c) == Y(c) <= 0
InCover(c) == Blanket # NoCover /\ Y(c) \in 1..Blanket.thickness /\ X(c) <= Blanket.length
Contact(c) == (InBody(c) \/ InFoundation(c)) /\ Y(c) > 0 - section.layer /\ Y(c) <= section.layer

InDomain(c) == c \in Cells /\ (InBody(c) \/ InFoundation(c) \/ InCover(c))

PointPermeability(c) ==
  CASE Contact(c)  -> section.contact
    [] ~Contact(c) /\ InCover(c) -> Blanket.k
    [] ~Contact(c) /\ ~InCover(c) /\ InBody(c) -> section.k
    [] OTHER -> section.foundation

-----------------------------------------------------------------------------
(* Between two cells: the harmonic mean, or at the contact a layer of it    *)
(* and the arithmetic mean in series.                                      *)

Harmonic(p, q) == (2 * p * q) \div (p + q)

InSeries(p, q, dist) ==
  LET den == section.layer * (p + q) + 2 * (dist - section.layer) * section.contact
      eq  == (dist * section.contact * (p + q)) \div den
  IN IF den > 0 /\ eq > 0 THEN eq ELSE section.contact

Spacing(c, n) ==
  IF c[1] # n[1] THEN (section.height + section.depth) \div (NY - 1) ELSE section.length \div (NX - 1)

Permeability(c, n) ==
  LET p == PointPermeability(c)
      q == PointPermeability(n)
  IN IF (Contact(c) \/ Contact(n)) /\ section.layer > 0 /\ Spacing(c, n) > 0
     THEN InSeries(p, q, Spacing(c, n)) ELSE Harmonic(p, q)

Sides == {"left", "right", "below", "above"}
Beside(c) == [left  |-> <<c[1], c[2] - 1>>, right |-> <<c[1], c[2] + 1>>,
              below |-> <<c[1] - 1, c[2]>>, above |-> <<c[1] + 1, c[2]>>]
Total(f) == f["left"] + f["right"] + f["below"] + f["above"]
Mean(c, weight) == Total([s \in Sides |-> weight[s] * head[Beside(c)[s]]]) \div Total(weight)

-----------------------------------------------------------------------------
(* A decision that is easy to get wrong, after a faulty variant; another    *)
(* below. The cells outside the domain hold a head of zero.               *)
FaultyShares(c) == [s \in Sides |-> 1]
Shares(c) == [s \in Sides |-> IF InDomain(Beside(c)[s]) THEN Permeability(c, Beside(c)[s]) ELSE 0]

-----------------------------------------------------------------------------
(* SetBoundaryConditions. *)

Along(c, num, den) == water.up - ((water.up - water.down) * num * c[2]) \div (den * (NX - 1))

(* In the two columns at either end the head is held, up to the water's     *)
(* level; the code compares the cell's place with that of the next column. *)
HeldUp(c) == c[2] <= 1 /\ Y(c) <= water.up
HeldDown(c) == c[2] >= NX - 2 /\ Y(c) <= water.down
Held(c) == HeldUp(c) \/ HeldDown(c)

BoundaryHead(c) ==
  CASE HeldUp(c) -> water.up
    [] ~HeldUp(c) /\ HeldDown(c) -> water.down
    [] ~Held(c) /\ c[1] <= 1 -> Along(c, 3, 10) + (water.up + water.down) \div 20
    [] OTHER -> Along(c, 1, 1)

-----------------------------------------------------------------------------
(* SolveSteady. *)

Relaxed(c) ==
  IF HeldUp(c) THEN water.up ELSE IF HeldDown(c) THEN water.down ELSE Mean(c, Shares(c))

Relaxes(c) ==
  InDomain(c) /\ (Held(c) \/ \E s, t \in Sides : s # t /\ InDomain(Beside(c)[s]) /\ InDomain(Beside(c)[t]))

(* The second pass raises a dry cell of the dam next to wet ones, inside   *)
(* the grid's domain or not.                                               *)
Wet(c) == [s \in Sides |-> IF head[Beside(c)[s]] > Y(c) THEN 1 ELSE 0]
Lifts(c) == InDomain(c) /\ head[c] < Y(c) /\ Behind(c) < 0 /\ Total(Wet(c)) > 0
Lifted(c) == (7 * Mean(c, Wet(c)) + 3 * Y(c)) \div 10

(* The order of a pass: along the rows, from the bottom. *)
First == <<1, 1>>
Following(c) == IF c[2] < NX - 2 THEN <<c[1], c[2] + 1>> ELSE <<c[1] + 1, 1>>
PassOver == at[1] = NY - 1

-----------------------------------------------------------------------------
SolverInit ==
  /\ section \in Sections
  /\ water \in Waters
  /\ cover \in Covers \cup {NoCover}
  /\ baseline = FALSE
  /\ head = [c \in Cells |-> 0]
  /\ velocity = [c \in Cells |-> 0]
  /\ step = "grid"
  /\ at = First
  /\ iter = 0
  /\ moved = FALSE
  /\ flow = [own |-> 0, base |-> 0]
  /\ lifted = {}

SetUp ==
  /\ step = "grid"
  /\ head' = [c \in Cells |-> IF InDomain(c) THEN BoundaryHead(c) ELSE 0]
  /\ velocity' = [c \in Cells |-> 0]
  /\ step' = "sweep"
  /\ at' = First
  /\ iter' = 0
  /\ moved' = FALSE
  /\ lifted' = {}
  /\ UNCHANGED <<inputVars, baseline, flow>>

Sweep ==
  /\ step = "sweep"
  /\ ~PassOver
  /\ IF Relaxes(at) THEN head' = [head EXCEPT ![at] = Relaxed(at)] ELSE head' = head
  /\ moved' = (moved \/ (~Held(at) /\ head' # head))
  /\ at' = Following(at)
  /\ UNCHANGED <<inputVars, baseline, velocity, step, iter, flow, lifted>>

SweepEnds ==
  /\ step = "sweep"
  /\ PassOver
  /\ step' = "lift"
  /\ at' = First
  /\ lifted' = {}
  /\ UNCHANGED <<inputVars, baseline, head, velocity, iter, moved, flow>>

Lift ==
  /\ step = "lift"
  /\ ~PassOver
  /\ IF Lifts(at) THEN head' = [head EXCEPT ![at] = Lifted(at)] ELSE head' = head
  /\ lifted' = IF Lifts(at) THEN lifted \cup {at} ELSE lifted
  /\ at' = Following(at)
  /\ UNCHANGED <<inputVars, baseline, velocity, step, iter, moved, flow>>

(* The end of an iteration. The second solver is not asked for velocities. *)
FaultyConverged == iter > MinIter
Converged == iter > MinIter /\ ~moved

IterationEnds ==
  /\ step = "lift"
  /\ PassOver
  /\ at' = First
  /\ iter' = iter + 1
  /\ step' = IF ~Converged /\ iter' < MaxIter THEN "sweep"
             ELSE IF baseline THEN "flow" ELSE "velocities"
  /\ moved' = (step' # "sweep" /\ moved)
  /\ UNCHANGED <<inputVars, baseline, head, velocity, flow, lifted>>

(* CalculateVelocities: the interior cells only.                           *)
Slope(c) ==
  LET left  == Beside(c).left
      right == Beside(c).right
  IN CASE InDomain(left) /\ InDomain(right) -> head[right] - head[left]
       [] ~InDomain(left) /\ InDomain(right) -> 2 * (head[right] - head[c])
       [] InDomain(left) /\ ~InDomain(right) -> 2 * (head[c] - head[left])
       [] OTHER -> 0

Interior(c) == c[1] \in 1..NY - 2 /\ c[2] \in 1..NX - 2
VelocityX == [c \in Cells |-> IF Interior(c) /\ InDomain(c) THEN 0 - PointPermeability(c) * Slope(c) ELSE 0]

Velocities ==
  /\ step = "velocities"
  /\ velocity' = VelocityX
  /\ step' = "flow"
  /\ UNCHANGED <<inputVars, baseline, head, at, iter, moved, flow, lifted>>

(* CalculateSeepageFlow, through the two last columns.                     *)
SeepageFlow(v) ==
  LET sum == MapThenSumSet(LAMBDA c : v[c], {c \in Cells : InDomain(c) /\ c[2] >= NX - 2})
  IN IF sum < 0 THEN 0 - sum ELSE sum

(* A dam with a blanket is solved again without it.                        *)
TakeFlow ==
  /\ step = "flow"
  /\ flow' = [flow EXCEPT ![IF baseline THEN "base" ELSE "own"] = SeepageFlow(velocity)]
  /\ step' = IF baseline \/ cover = NoCover THEN "done" ELSE "grid"
  /\ baseline' = (baseline \/ cover # NoCover)
  /\ UNCHANGED <<inputVars, head, velocity, at, iter, moved, lifted>>

SolverNext ==
  SetUp \/ Sweep \/ SweepEnds \/ Lift \/ IterationEnds \/ Velocities \/ TakeFlow

SolverSpec == SolverInit /\ [][SolverNext]_solverVars

(* GetAntiSeepageEfficiency, in percent.                                   *)
Efficiency ==
  IF cover = NoCover \/ flow.base <= 0 THEN 0 ELSE ((flow.base - flow.own) * 100) \div flow.base

(* GetInfiltrationLine: the columns that have a point, and their heights,   *)
(* between a cell under water and a dry one above it where there is one.    *)
Saturated(c) == InDomain(c) /\ head[c] > Y(c)
LineColumns == {i \in 0..NX - 1 : \E j \in 0..NY - 1 : Saturated(<<j, i>>)}
Crossing(y, h, y2, h2) == y + ((h - y) * (y2 - y)) \div ((h - y) + (y2 - h2))
InfiltrationLine(i) ==
  LET j  == CHOOSE k \in 0..NY - 1 : Saturated(<<k, i>>) /\ \A m \in k + 1..NY - 1 : ~Saturated(<<m, i>>)
      c  == <<j, i>>
      up == <<j + 1, i>>
  IN IF InDomain(up) /\ head[up] < Y(up) THEN Crossing(Y(c), head[c], Y(up), head[up])
     ELSE Y(c) + (head[c] - Y(c)) \div 2

-----------------------------------------------------------------------------
(* PROPERTIES                                                             *)

(* Every variable has its type, and the passes stay inside the grid.       *)
SolverTypeOK ==
  /\ section \in Sections /\ water \in Waters /\ cover \in Covers \cup {NoCover}
  /\ baseline \in BOOLEAN
  /\ head \in [Cells -> Int]
  /\ velocity \in [Cells -> Int]
  /\ step \in {"grid", "sweep", "lift", "velocities", "flow", "done"}
  /\ at \in (1..NY - 1) \X (1..NX - 2)
  /\ iter \in 0..MaxIter
  /\ moved \in BOOLEAN
  /\ lifted \subseteq Cells

(* No head, in any iteration and in either pass, leaves the range that the *)
(* boundary heads span: not below the lower water level, not above the      *)
(* higher one by more than the tenth of the mean that the code adds at the  *)
(* bottom. The passes change the heads in place, read cells outside the     *)
(* dam, and lift dry cells; a wrong weight would only show as a plausible   *)
(* number. Nor does the phreatic line rise above the highest head.         *)
LeastHead == Lesser(water.up, water.down)
MostHead == Greater(water.up, water.down) + (water.up + water.down) \div 20

HeadsWithin == \A c \in Cells : InDomain(c) => head[c] >= LeastHead /\ head[c] <= MostHead
LineWithin == \A i \in LineColumns : InfiltrationLine(i) <= MostHead

MaximumPrinciple == step # "grid" => HeadsWithin /\ LineWithin

(* A solver that stops before its last iteration has found heads that       *)
(* neither pass would change, but for what the last second pass has lifted: *)
(* the code measures the change in the first pass only. A head is off its   *)
(* mean only at or next to a lifted cell, and a cell that could be lifted   *)
(* next has become so by cells that the pass came to after it.             *)
Around(c) == {c} \cup {Beside(c)[s] : s \in Sides}
OffItsMean(c) == Relaxes(c) /\ head[c] # Relaxed(c)
WetLater(c) == \A s \in Sides : Wet(c)[s] = 1 => s \in {"right", "above"} /\ Beside(c)[s] \in lifted

SteadyButForLifts ==
  step \in {"velocities", "flow"} /\ iter < MaxIter =>
    \A c \in Cells : Interior(c) =>
      /\ OffItsMean(c) => Around(c) \cap lifted # {}
      /\ Lifts(c) => WetLater(c)

(* A blanket that lets less water through than the same dam without it has  *)
(* a positive efficiency.                                                  *)
EfficiencyShowsSaving ==
  step = "done" /\ cover # NoCover /\ SeepageFlow(VelocityX) > flow.own => Efficiency > 0
=============================================================================
