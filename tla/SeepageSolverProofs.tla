-------------------------- MODULE SeepageSolverProofs --------------------------
(***************************************************************************)
(* Proofs about SeepageSolver, for every grid, cross-section, water level   *)
(* and blanket: types, the maximum principle, and what a stop is worth. What *)
(* the heads can reach rests on one fact of arithmetic, that a weighted mean *)
(* rounded down stays between integer bounds of what it is a mean of.       *)
(***************************************************************************)
EXTENDS SeepageSolver, TLAPS, WellFoundedInduction, NaturalsInduction

-----------------------------------------------------------------------------
(* ARITHMETIC                                                             *)

(* What dividing is.                                                       *)
LEMMA Division ==
  ASSUME NEW s \in Int, NEW n \in Nat \ {0}
  PROVE  \E q \in Int, r \in 0..n - 1 : q = s \div n /\ s = n * q + r
<1> DEFINE q == s \div n
           r == s % n
<1>1. q \in Int /\ r \in 0..n - 1 /\ s = n * q + r
  BY Z3
<1>2. q = s \div n
  OBVIOUS
<1> HIDE DEF q, r
<1> QED BY <1>1, <1>2

(* A quotient rounded down lies between the integer bounds of the quotient. *)
LEMMA DivAtMost ==
  ASSUME NEW s \in Int, NEW n \in Nat \ {0}, NEW hi \in Int, s <= n * hi
  PROVE  s \div n \in Int /\ s \div n <= hi
<1>1. PICK q \in Int, r \in 0..n - 1 : q = s \div n /\ s = n * q + r
  BY Division
<1>2. q <= hi
  <2> SUFFICES ASSUME hi + 1 <= q PROVE FALSE
    OBVIOUS
  <2>1. n * (hi + 1) <= n * q
    BY Z3
  <2>2. n * (hi + 1) = n * hi + n
    BY Z3
  <2> QED BY <1>1, <2>1, <2>2
<1> QED BY <1>1, <1>2

LEMMA DivBounds ==
  ASSUME NEW s \in Int, NEW n \in Nat \ {0}, NEW lo \in Int, NEW hi \in Int,
         n * lo <= s, s <= n * hi
  PROVE  s \div n \in Int /\ lo <= s \div n /\ s \div n <= hi
<1>1. PICK q \in Int, r \in 0..n - 1 : q = s \div n /\ s = n * q + r
  BY Division
<1>2. lo <= q
  <2> SUFFICES ASSUME q + 1 <= lo PROVE FALSE
    OBVIOUS
  <2>1. n * (q + 1) <= n * lo
    BY Z3
  <2>2. n * (q + 1) = n * q + n
    BY Z3
  <2> QED BY <1>1, <2>1, <2>2
<1> QED BY <1>1, <1>2, DivAtMost

LEMMA DivIsInt ==
  ASSUME NEW s \in Int, NEW n \in Nat \ {0}
  PROVE  s \div n \in Int
BY Z3

(* Bounds of four numbers add up.                                          *)
LEMMA SumOfFour ==
  ASSUME NEW a \in Int, NEW b \in Int, NEW c \in Int, NEW d \in Int,
         NEW p \in Int, NEW q \in Int, NEW r \in Int, NEW s \in Int,
         a <= p, b <= q, c <= r, d <= s
  PROVE  a + b + c + d \in Int /\ p + q + r + s \in Int /\ a + b + c + d <= p + q + r + s
OBVIOUS

(* Products of greater factors are greater.                                *)
LEMMA ProductsOrdered ==
  ASSUME NEW a \in Nat, NEW b \in Nat \ {0}, NEW x \in Nat, NEW y \in Nat \ {0}, a <= b, x <= y
  PROVE  a * x \in Nat /\ b * y \in Nat \ {0} /\ a * x <= b * y
<1>1. a * x <= b * x /\ b * x <= b * y
  BY Z3
<1>2. a * x \in Nat /\ b * x \in Nat /\ b * y \in Nat \ {0}
  BY Z3
<1> QED BY <1>1, <1>2

(* A share of a difference lies between nothing and the whole of it.        *)
LEMMA ShareOfDifference ==
  ASSUME NEW d \in Int, NEW m \in Nat, NEW n \in Nat \ {0}, m <= n
  PROVE  /\ (d * m) \div n \in Int
         /\ d >= 0 => (d * m) \div n \in 0..d
         /\ d <= 0 => (d * m) \div n \in d..0
<1>0. d * m \in Int
  BY Z3
<1>1. CASE d >= 0
  <2>1. n * 0 <= d * m /\ d * m <= n * d
    BY <1>1, Z3
  <2> QED BY <1>0, <1>1, <2>1, DivBounds
<1>2. CASE d <= 0
  <2>1. n * d <= d * m /\ d * m <= n * 0
    BY <1>2, Z3
  <2> QED BY <1>0, <1>2, <2>1, DivBounds
<1> QED BY <1>1, <1>2

(* The harmonic mean of two positive permeabilities is positive.           *)
LEMMA HarmonicPositive ==
  ASSUME NEW p \in Nat \ {0}, NEW q \in Nat \ {0}
  PROVE  Harmonic(p, q) \in Nat \ {0}
<1>1. (p + q) * 1 <= 2 * p * q /\ 2 * p * q <= (p + q) * (2 * p)
  BY Z3
<1>2. 2 * p * q \in Int /\ p + q \in Nat \ {0} /\ 2 * p \in Int
  BY Z3
<1> QED BY <1>1, <1>2, DivBounds DEF Harmonic

-----------------------------------------------------------------------------
(* THE GRID                                                               *)

(* What a solver is called for has the fields that the module speaks of.   *)
InputsOK ==
  /\ section \in Sections /\ water \in Waters /\ cover \in Covers \cup {NoCover}
  /\ baseline \in BOOLEAN

LEMMA InputFields ==
  ASSUME InputsOK
  PROVE  /\ section.length \in Nat \ {0} /\ section.height \in Nat \ {0} /\ section.top \in Nat
         /\ section.upSlope \in Nat /\ section.downSlope \in Nat
         /\ section.depth \in Nat /\ section.layer \in Nat
         /\ section.k \in Nat \ {0} /\ section.foundation \in Nat \ {0} /\ section.contact \in Nat \ {0}
         /\ water.up \in Nat /\ water.down \in Nat
         /\ Blanket # NoCover => Blanket.thickness \in Nat /\ Blanket.k \in Nat \ {0}
BY SolverAssumption DEF InputsOK, Blanket

(* The height of a cell is a number.                                       *)
LEMMA HeightIsInt ==
  ASSUME InputsOK, NEW c \in Cells
  PROVE  Y(c) \in Int
<1>1. c[1] \in Int /\ NY - 1 \in Nat \ {0}
  BY SolverAssumption DEF Cells
<1>2. (section.height + section.depth) * c[1] \in Int
  BY <1>1, InputFields, Z3
<1>3. ((section.height + section.depth) * c[1]) \div (NY - 1) \in Int
  BY <1>1, <1>2, DivIsInt
<1> QED BY <1>3, InputFields DEF Y

(* Every kind of material lets water through.                              *)
LEMMA PointPermeable ==
  ASSUME InputsOK, NEW c
  PROVE  PointPermeability(c) \in Nat \ {0}
<1>1. InCover(c) => Blanket.k \in Nat \ {0}
  BY InputFields DEF InCover
<1> QED BY <1>1, InputFields DEF PointPermeability

(* A contact layer in series lets water through: where the quotient comes   *)
(* to nothing the layer's own permeability stands in.                      *)
LEMMA SeriesPermeable ==
  ASSUME InputsOK, NEW p \in Nat \ {0}, NEW q \in Nat \ {0}, NEW dist \in Int
  PROVE  InSeries(p, q, dist) \in Nat \ {0}
<1> DEFINE den == section.layer * (p + q) + 2 * (dist - section.layer) * section.contact
           num == dist * section.contact * (p + q)
<1>1. den \in Int /\ num \in Int
  BY InputFields, Z3
<1> HIDE DEF den, num
<1>2. den > 0 => num \div den \in Int
  BY <1>1, Z3
<1>3. InSeries(p, q, dist) =
        IF den > 0 /\ num \div den > 0 THEN num \div den ELSE section.contact
  BY DEF InSeries, den, num
<1> QED BY <1>1, <1>2, <1>3, InputFields

(* So does every pair of neighbours.                                       *)
LEMMA PairPermeable ==
  ASSUME InputsOK, NEW c, NEW n
  PROVE  Permeability(c, n) \in Nat \ {0}
<1>1. NY - 1 \in Nat \ {0} /\ NX - 1 \in Nat \ {0}
  BY SolverAssumption
<1>2. (section.height + section.depth) \div (NY - 1) \in Int /\ section.length \div (NX - 1) \in Int
  <2>1. section.height + section.depth \in Int /\ section.length \in Int
    BY InputFields
  <2> QED BY <1>1, <2>1, DivIsInt
<1>3. Spacing(c, n) \in Int
  BY <1>2 DEF Spacing
<1>4. InSeries(PointPermeability(c), PointPermeability(n), Spacing(c, n)) \in Nat \ {0}
  BY <1>3, PointPermeable, SeriesPermeable
<1>5. Harmonic(PointPermeability(c), PointPermeability(n)) \in Nat \ {0}
  BY PointPermeable, HarmonicPositive
<1> QED BY <1>4, <1>5 DEF Permeability

(* A cell that the passes come to has its four neighbours in the grid.     *)
Inner == (1..NY - 2) \X (1..NX - 2)

LEMMA NeighboursInGrid ==
  ASSUME NEW c \in Inner
  PROVE  c \in Cells /\ \A s \in Sides : Beside(c)[s] \in Cells
BY SolverAssumption DEF Inner, Cells, Sides, Beside

-----------------------------------------------------------------------------
(* MEANS                                                                  *)

(* A mean of four numbers with weights, not all zero, lies between the      *)
(* bounds of those that have a weight.                                     *)
LEMMA MeanWithin ==
  ASSUME NEW c, NEW weight \in [Sides -> Nat], Total(weight) > 0,
         NEW lo \in Int, NEW hi \in Int,
         \A s \in Sides : head[Beside(c)[s]] \in Int,
         \A s \in Sides : weight[s] > 0 => lo <= head[Beside(c)[s]] /\ head[Beside(c)[s]] <= hi
  PROVE  Mean(c, weight) \in Int /\ lo <= Mean(c, weight) /\ Mean(c, weight) <= hi
<1> DEFINE h(s) == head[Beside(c)[s]]
           part == [s \in Sides |-> weight[s] * h(s)]
<1>1. Total(weight) \in Nat \ {0}
  BY DEF Total, Sides
<1>2. \A s \in Sides : part[s] \in Int /\ weight[s] * lo <= part[s] /\ part[s] <= weight[s] * hi
  <2> SUFFICES ASSUME NEW s \in Sides
               PROVE  part[s] \in Int /\ weight[s] * lo <= part[s] /\ part[s] <= weight[s] * hi
    OBVIOUS
  <2>1. weight[s] \in Nat /\ h(s) \in Int /\ part[s] = weight[s] * h(s)
    OBVIOUS
  <2>2. weight[s] > 0 => lo <= h(s) /\ h(s) <= hi
    OBVIOUS
  <2> HIDE DEF part, h
  <2>3. CASE weight[s] = 0
    BY <2>1, <2>3, Z3
  <2>4. CASE weight[s] > 0
    BY <2>1, <2>2, <2>4, Z3
  <2> QED BY <2>1, <2>3, <2>4
<1> HIDE DEF part
<1>3. /\ Total(part) = part["left"] + part["right"] + part["below"] + part["above"]
      /\ "left" \in Sides /\ "right" \in Sides /\ "below" \in Sides /\ "above" \in Sides
  BY DEF Total, Sides
<1>4. \A s \in Sides : weight[s] * lo \in Int /\ weight[s] * hi \in Int
  BY Z3
<1>5. Total(weight) * lo = weight["left"] * lo + weight["right"] * lo + weight["below"] * lo + weight["above"] * lo
  <2>1. \A s \in Sides : weight[s] \in Nat
    OBVIOUS
  <2> QED BY <2>1, Z3 DEF Total, Sides
<1>6. Total(weight) * hi = weight["left"] * hi + weight["right"] * hi + weight["below"] * hi + weight["above"] * hi
  <2>1. \A s \in Sides : weight[s] \in Nat
    OBVIOUS
  <2> QED BY <2>1, Z3 DEF Total, Sides
<1>7. Total(part) \in Int /\ Total(weight) * lo <= Total(part)
  BY ONLY <1>2, <1>3, <1>4, <1>5, SumOfFour
<1>8. Total(part) <= Total(weight) * hi
  BY ONLY <1>2, <1>3, <1>4, <1>6, SumOfFour
<1>9. Mean(c, weight) = Total(part) \div Total(weight)
  BY DEF Mean, part
<1> QED BY <1>1, <1>7, <1>8, <1>9, DivBounds

-----------------------------------------------------------------------------
(* THE RANGE OF THE HEADS                                                 *)

(* The two water levels span it.                                           *)
LEMMA HeadRange ==
  ASSUME InputsOK
  PROVE  /\ LeastHead \in Nat /\ MostHead \in Nat
         /\ (water.up + water.down) \div 20 \in Nat
         /\ LeastHead <= water.up /\ LeastHead <= water.down
         /\ water.up + (water.up + water.down) \div 20 <= MostHead
         /\ water.down + (water.up + water.down) \div 20 <= MostHead
<1>1. water.up \in Nat /\ water.down \in Nat
  BY InputFields
<1>2. (water.up + water.down) \div 20 \in Nat
  <2>1. water.up + water.down \in Nat
    BY <1>1
  <2> QED BY <2>1, Z3
<1> QED BY <1>1, <1>2 DEF LeastHead, MostHead, Lesser, Greater

(* Along the grid the head of a border goes from one level to the other.   *)
LEMMA AlongWithin ==
  ASSUME InputsOK, NEW c \in Cells, NEW num \in Nat, NEW den \in Nat \ {0}, num <= den
  PROVE  /\ Along(c, num, den) \in Int
         /\ LeastHead <= Along(c, num, den)
         /\ Along(c, num, den) + (water.up + water.down) \div 20 <= MostHead
<1> DEFINE d == water.up - water.down
           m == num * c[2]
           n == den * (NX - 1)
<1>1. d \in Int /\ c[2] \in 0..NX - 1 /\ NX - 1 \in Nat \ {0}
  <2>1. water.up - water.down \in Int
    BY InputFields
  <2>2. c[2] \in 0..NX - 1 /\ NX - 1 \in Nat \ {0}
    BY SolverAssumption DEF Cells
  <2> QED BY <2>1, <2>2
<1>2. m \in Nat /\ n \in Nat \ {0} /\ m <= n
  <2>1. c[2] \in Nat /\ NX - 1 \in Nat \ {0} /\ c[2] <= NX - 1
    BY <1>1
  <2> QED BY <2>1, ProductsOrdered
<1>3. (water.up - water.down) * num * c[2] = d * m
  BY <1>1, Z3
<1>4. Along(c, num, den) = water.up - ((d * m) \div n)
  BY <1>3 DEF Along
<1> HIDE DEF m, n
<1>5. /\ (d * m) \div n \in Int
      /\ d >= 0 => (d * m) \div n \in 0..d
      /\ d <= 0 => (d * m) \div n \in d..0
  BY <1>1, <1>2, ShareOfDifference
<1>6. PICK q \in Int : q = (d * m) \div n
  BY <1>5
<1>7. water.up \in Nat /\ water.down \in Nat
  BY InputFields
<1>8. Along(c, num, den) = water.up - q
  BY <1>4, <1>6
<1>9. /\ water.up - water.down >= 0 => q \in 0..(water.up - water.down)
      /\ water.up - water.down <= 0 => q \in (water.up - water.down)..0
  BY <1>5, <1>6
<1> HIDE DEF d
<1> QED BY <1>7, <1>8, <1>9, HeadRange

(* The heads that SetBoundaryConditions gives are within it.               *)
LEMMA BoundaryWithin ==
  ASSUME InputsOK, NEW c \in Cells
  PROVE  BoundaryHead(c) \in Int /\ LeastHead <= BoundaryHead(c) /\ BoundaryHead(c) <= MostHead
<1>1. /\ Along(c, 3, 10) \in Int /\ LeastHead <= Along(c, 3, 10)
      /\ Along(c, 3, 10) + (water.up + water.down) \div 20 <= MostHead
  BY AlongWithin
<1>2. /\ Along(c, 1, 1) \in Int /\ LeastHead <= Along(c, 1, 1)
      /\ Along(c, 1, 1) + (water.up + water.down) \div 20 <= MostHead
  BY AlongWithin
<1>3. BoundaryHead(c) \in {water.up, water.down, Along(c, 3, 10) + (water.up + water.down) \div 20, Along(c, 1, 1)}
  BY DEF BoundaryHead, Held
<1> QED BY <1>1, <1>2, <1>3, HeadRange, InputFields

(* All heads are within it, and cells outside the dam hold none above it.   *)
AllWithin == \A c \in Cells : head[c] <= MostHead /\ (InDomain(c) => LeastHead <= head[c])

(* The first pass keeps a head within it: only neighbours in the domain     *)
(* have a weight, and at least two do.                                     *)
LEMMA RelaxedWithin ==
  ASSUME InputsOK, head \in [Cells -> Int], AllWithin, NEW c \in Inner, Relaxes(c)
  PROVE  Relaxed(c) \in Int /\ LeastHead <= Relaxed(c) /\ Relaxed(c) <= MostHead
<1>1. CASE Held(c)
  <2>1. Relaxed(c) \in {water.up, water.down}
    BY <1>1 DEF Held, Relaxed
  <2> QED BY <2>1, HeadRange, InputFields
<1>2. CASE ~Held(c)
  <2>1. Relaxed(c) = Mean(c, Shares(c))
    BY <1>2 DEF Held, Relaxed
  <2>2. \A s \in Sides : Permeability(c, Beside(c)[s]) \in Nat \ {0}
    BY PairPermeable
  <2>3. Shares(c) \in [Sides -> Nat]
    BY <2>2 DEF Shares
  <2>4. \A s \in Sides : Shares(c)[s] > 0 <=> InDomain(Beside(c)[s])
    BY <2>2 DEF Shares
  <2>5. PICK s \in Sides : Shares(c)[s] > 0
    BY <1>2, <2>4 DEF Relaxes
  <2>6. Total(Shares(c)) > 0
    BY <2>3, <2>5 DEF Total, Sides
  <2>7. \A t \in Sides : head[Beside(c)[t]] \in Int
    BY NeighboursInGrid
  <2>8. \A t \in Sides : Shares(c)[t] > 0 => LeastHead <= head[Beside(c)[t]] /\ head[Beside(c)[t]] <= MostHead
    BY <2>4, NeighboursInGrid DEF AllWithin
  <2>9. LeastHead \in Int /\ MostHead \in Int
    BY HeadRange
  <2> QED BY <2>1, <2>3, <2>6, <2>7, <2>8, <2>9, MeanWithin
<1> QED BY <1>1, <1>2

(* So does the second pass: what lifts a dry cell is wet, and above a head   *)
(* that was within the range before.                                       *)
LEMMA LiftedWithin ==
  ASSUME InputsOK, head \in [Cells -> Int], AllWithin, NEW c \in Inner, Lifts(c)
  PROVE  Lifted(c) \in Int /\ LeastHead <= Lifted(c) /\ Lifted(c) <= MostHead /\ Y(c) <= Lifted(c)
<1>1. Y(c) \in Int /\ head[c] \in Int /\ LeastHead <= head[c] /\ head[c] < Y(c)
  BY HeightIsInt, NeighboursInGrid DEF Lifts, AllWithin
<1>2. Wet(c) \in [Sides -> Nat]
  BY DEF Wet
<1>3. Total(Wet(c)) > 0
  BY DEF Lifts
<1>4. \A t \in Sides : head[Beside(c)[t]] \in Int /\ head[Beside(c)[t]] <= MostHead
  BY NeighboursInGrid DEF AllWithin
<1>5. \A t \in Sides : Wet(c)[t] > 0 => Y(c) <= head[Beside(c)[t]] /\ head[Beside(c)[t]] <= MostHead
  BY <1>1, <1>4 DEF Wet
<1>6. LeastHead \in Int /\ MostHead \in Int
  BY HeadRange
<1>7. Mean(c, Wet(c)) \in Int /\ Y(c) <= Mean(c, Wet(c)) /\ Mean(c, Wet(c)) <= MostHead
  BY <1>1, <1>2, <1>3, <1>4, <1>5, <1>6, MeanWithin
<1>8. /\ 7 * Mean(c, Wet(c)) + 3 * Y(c) \in Int
      /\ 10 * LeastHead <= 7 * Mean(c, Wet(c)) + 3 * Y(c)
      /\ 7 * Mean(c, Wet(c)) + 3 * Y(c) <= 10 * MostHead
      /\ 10 * Y(c) <= 7 * Mean(c, Wet(c)) + 3 * Y(c)
  BY <1>1, <1>6, <1>7
<1>9. PICK s \in Int : s = 7 * Mean(c, Wet(c)) + 3 * Y(c)
  BY <1>8
<1>10. s \div 10 \in Int /\ LeastHead <= s \div 10 /\ s \div 10 <= MostHead
  BY <1>6, <1>8, <1>9, DivBounds
<1>11. Y(c) <= s \div 10
  BY <1>1, <1>6, <1>8, <1>9, DivBounds
<1>12. Lifted(c) = s \div 10
  BY <1>9 DEF Lifted
<1> QED BY <1>10, <1>11, <1>12

-----------------------------------------------------------------------------
(* THE PHREATIC LINE                                                      *)

(* Between a cell under water and a dry one above it the line crosses below *)
(* the higher of their two heads.                                          *)
LEMMA CrossingBelow ==
  ASSUME NEW y \in Int, NEW h \in Int, NEW y2 \in Int, NEW h2 \in Int, NEW most \in Int,
         y < h, h2 < y2, h <= most, h2 <= most
  PROVE  Crossing(y, h, y2, h2) \in Int /\ Crossing(y, h, y2, h2) <= most
<1> DEFINE a == h - y
           d == y2 - h2
           m == most - y
           s == a * (y2 - y)
<1>1. a \in Nat \ {0} /\ d \in Nat \ {0} /\ a <= m /\ y2 - y <= d + m /\ m \in Int
  OBVIOUS
<1>2. a + d \in Nat \ {0} /\ s \in Int
  BY <1>1, Z3
<1>3. s <= (a + d) * m
  <2>1. s <= a * (d + m)
    BY <1>1, Z3
  <2>2. a * (d + m) = d * a + a * m
    BY <1>1, Z3
  <2>3. d * a <= d * m
    BY <1>1, Z3
  <2>4. (a + d) * m = a * m + d * m
    BY <1>1, Z3
  <2>5. a * (d + m) \in Int /\ d * a \in Int /\ d * m \in Int /\ a * m \in Int
    BY <1>1, Z3
  <2> HIDE DEF a, d, m, s
  <2> QED BY <1>2, <2>1, <2>2, <2>3, <2>4, <2>5
<1>4. s \div (a + d) \in Int /\ s \div (a + d) <= m
  <2> HIDE DEF a, d, m, s
  <2> QED BY <1>1, <1>2, <1>3, DivAtMost
<1>5. Crossing(y, h, y2, h2) = y + (s \div (a + d))
  BY DEF Crossing
<1> HIDE DEF s
<1> QED BY <1>4, <1>5

(* A column with a cell under water has a highest one.                     *)
LEMMA HighestSaturated ==
  ASSUME NEW i \in LineColumns
  PROVE  \E k \in 0..NY - 1 : Saturated(<<k, i>>) /\ \A m \in k + 1..NY - 1 : ~Saturated(<<m, i>>)
<1> DEFINE Row(k) == NY - 1 - k
           T == {n \in 0..NY - 1 : Saturated(<<Row(n), i>>)}
<1>0. NY \in Nat
  BY SolverAssumption
<1>1. T \subseteq Nat
  BY <1>0
<1>2. T # {}
  <2>1. PICK j \in 0..NY - 1 : Saturated(<<j, i>>)
    BY DEF LineColumns
  <2>2. Row(j) \in 0..NY - 1 /\ Row(Row(j)) = j
    BY <1>0
  <2> QED BY <2>1, <2>2
<1>3. PICK n \in T : \A o \in T : ~(<<o, n>> \in OpToRel(<, Nat))
  <2> HIDE DEF T
  <2> QED BY <1>1, <1>2, NatLessThanWellFounded, WFMin
<1>4. \A o \in T : ~(o < n)
  BY <1>1, <1>3 DEF OpToRel
<1>5. Row(n) \in 0..NY - 1 /\ Saturated(<<Row(n), i>>)
  BY <1>0
<1>6. ASSUME NEW m \in Row(n) + 1..NY - 1 PROVE ~Saturated(<<m, i>>)
  <2>1. Row(m) \in 0..NY - 1 /\ Row(Row(m)) = m /\ Row(m) < n
    BY <1>0, <1>5
  <2> QED BY <1>4, <2>1
<1> QED BY <1>5, <1>6

(* Where the heads are within their range, so is the line.                 *)
LEMMA LineFollows ==
  ASSUME InputsOK, head \in [Cells -> Int], AllWithin
  PROVE  LineWithin
<1> SUFFICES ASSUME NEW i \in LineColumns PROVE InfiltrationLine(i) <= MostHead
  BY DEF LineWithin
<1> DEFINE j == CHOOSE k \in 0..NY - 1 : Saturated(<<k, i>>) /\ \A m \in k + 1..NY - 1 : ~Saturated(<<m, i>>)
           c == <<j, i>>
           up == <<j + 1, i>>
<1>1. j \in 0..NY - 1 /\ Saturated(c)
  BY HighestSaturated
<1>2. InfiltrationLine(i) = IF InDomain(up) /\ head[up] < Y(up)
                            THEN Crossing(Y(c), head[c], Y(up), head[up])
                            ELSE Y(c) + (head[c] - Y(c)) \div 2
  BY DEF InfiltrationLine
<1> HIDE DEF j
<1>3. c \in Cells /\ Y(c) < head[c]
  BY <1>1 DEF Saturated, InDomain
<1> HIDE DEF c, up
<1>4. Y(c) \in Int /\ head[c] \in Int /\ head[c] <= MostHead /\ MostHead \in Int
  BY <1>3, HeightIsInt, HeadRange DEF AllWithin
<1>5. CASE InDomain(up) /\ head[up] < Y(up)
  <2>1. up \in Cells
    BY <1>5 DEF InDomain
  <2>2. Y(up) \in Int /\ head[up] \in Int /\ head[up] <= MostHead
    BY <2>1, HeightIsInt DEF AllWithin
  <2> QED BY <1>2, <1>3, <1>4, <1>5, <2>2, CrossingBelow
<1>6. CASE ~(InDomain(up) /\ head[up] < Y(up))
  <2>1. PICK d \in Int : d = head[c] - Y(c) /\ d >= 0
    BY <1>3, <1>4
  <2>2. d \div 2 \in Int /\ d \div 2 <= d
    BY <2>1, Z3
  <2>3. InfiltrationLine(i) = Y(c) + d \div 2
    BY <1>2, <1>6, <2>1
  <2> QED BY <1>4, <2>1, <2>2, <2>3
<1> QED BY <1>5, <1>6

-----------------------------------------------------------------------------
(* THE INVARIANT                                                          *)

(* A pass is only at work before the last iteration, and heads are within   *)
(* their range from the first borders on, those outside the domain too:     *)
(* the second pass reads them.                                             *)
SolverInv ==
  /\ SolverTypeOK
  /\ step \in {"sweep", "lift"} => iter < MaxIter
  /\ step # "grid" => AllWithin

LEMMA InvInputs == SolverInv => InputsOK
BY DEF SolverInv, SolverTypeOK, InputsOK

(* The borders, the domain and the range depend on nothing but what the      *)
(* solver is called for.                                                   *)
LEMMA AllWithinDependsOnHeads ==
  ASSUME UNCHANGED <<inputVars, baseline, head>>, AllWithin
  PROVE  AllWithin'
BY DEF inputVars, AllWithin, MostHead, LeastHead, Greater, Lesser, InDomain, InBody, InFoundation, InCover,
       Y, X, FromStart, Behind, Below, Blanket, Cells

(* One head changed to one within the range leaves all within it.           *)
LEMMA OneHeadChanged ==
  ASSUME SolverInv, AllWithin, NEW c \in Cells, NEW h \in Int, LeastHead <= h, h <= MostHead,
         UNCHANGED <<inputVars, baseline>>, head' = [head EXCEPT ![c] = h]
  PROVE  head' \in [Cells -> Int] /\ AllWithin'
<1>1. head' \in [Cells -> Int]
  BY DEF SolverInv, SolverTypeOK
<1>2. MostHead' = MostHead /\ LeastHead' = LeastHead
  BY DEF inputVars, MostHead, LeastHead, Greater, Lesser
<1>3. \A b : InDomain(b)' <=> InDomain(b)
  BY DEF inputVars, InDomain, InBody, InFoundation, InCover, Y, X, FromStart, Behind, Below, Blanket, Cells
<1>4. \A b \in Cells : head'[b] = IF b = c THEN h ELSE head[b]
  BY DEF SolverInv, SolverTypeOK
<1>5. \A b \in Cells : head'[b] <= MostHead' /\ (InDomain(b)' => LeastHead' <= head'[b])
  BY <1>2, <1>3, <1>4 DEF AllWithin
<1> QED BY <1>1, <1>5 DEF AllWithin, Cells

(* A pass that is not over is at an inner cell, and so is the next one.     *)
LEMMA AtIsInner ==
  ASSUME SolverTypeOK, ~PassOver
  PROVE  at \in Inner /\ at \in Cells /\ Following(at) \in (1..NY - 1) \X (1..NX - 2)
<1>1. at \in (1..NY - 1) \X (1..NX - 2) /\ at[1] # NY - 1
  BY DEF SolverTypeOK, PassOver
<1>2. at = <<at[1], at[2]>> /\ at[1] \in 1..NY - 2 /\ at[2] \in 1..NX - 2 /\ NX \in Nat /\ NY \in Nat
  BY <1>1, SolverAssumption
<1> QED BY <1>1, <1>2 DEF Inner, Cells, Following

LEMMA FirstIsInner == First \in (1..NY - 1) \X (1..NX - 2)
BY SolverAssumption DEF First

(* Velocities are numbers.                                                 *)
LEMMA VelocitiesAreInts ==
  ASSUME SolverInv
  PROVE  VelocityX \in [Cells -> Int]
<1> SUFFICES ASSUME NEW c \in Cells, Interior(c) PROVE 0 - PointPermeability(c) * Slope(c) \in Int
  BY DEF VelocityX
<1>1. c \in Inner
  BY DEF Interior, Inner, Cells
<1>2. \A b \in Cells : head[b] \in Int
  BY DEF SolverInv, SolverTypeOK
<1>3. "left" \in Sides /\ "right" \in Sides
  BY DEF Sides
<1>4. head[c] \in Int /\ head[Beside(c)["left"]] \in Int /\ head[Beside(c)["right"]] \in Int
  BY <1>1, <1>2, <1>3, NeighboursInGrid
<1>5. Slope(c) \in Int
  BY <1>4 DEF Slope
<1>6. PointPermeability(c) \in Nat
  BY InvInputs, PointPermeable
<1> QED BY <1>5, <1>6, Z3

LEMMA InvInitially == SolverInit => SolverInv
<1> SUFFICES ASSUME SolverInit PROVE SolverInv
  OBVIOUS
<1>1. head \in [Cells -> Int] /\ velocity \in [Cells -> Int]
  BY DEF SolverInit
<1>2. iter \in 0..MaxIter
  BY SolverAssumption DEF SolverInit
<1>3. at \in (1..NY - 1) \X (1..NX - 2)
  BY FirstIsInner DEF SolverInit
<1> QED BY <1>1, <1>2, <1>3 DEF SolverInit, SolverInv, SolverTypeOK

LEMMA InvKept == SolverInv /\ [SolverNext]_solverVars => SolverInv'
<1> SUFFICES ASSUME SolverInv, [SolverNext]_solverVars PROVE SolverInv'
  OBVIOUS
<1> USE FirstIsInner
<1>1. CASE SetUp
  <2>1. \A c \in Cells : BoundaryHead(c) \in Int /\ LeastHead <= BoundaryHead(c) /\ BoundaryHead(c) <= MostHead
    BY InvInputs, BoundaryWithin
  <2>2. MostHead \in Nat
    BY InvInputs, HeadRange
  <2>3. head' \in [Cells -> Int] /\ velocity' \in [Cells -> Int]
    BY <1>1, <2>1 DEF SetUp
  <2>4. MostHead' = MostHead /\ LeastHead' = LeastHead
    BY <1>1 DEF SetUp, inputVars, MostHead, LeastHead, Greater, Lesser
  <2>5. \A c : InDomain(c)' <=> InDomain(c)
    BY <1>1 DEF SetUp, inputVars, InDomain, InBody, InFoundation, InCover, Y, X, FromStart, Behind, Below, Blanket, Cells
  <2>6. \A c \in Cells : head'[c] <= MostHead' /\ (InDomain(c)' => LeastHead' <= head'[c])
    BY <1>1, <2>1, <2>2, <2>4, <2>5 DEF SetUp
  <2>7. AllWithin'
    BY <2>6 DEF AllWithin, Cells
  <2>8. 0 \in 0..MaxIter /\ 0 < MaxIter
    BY SolverAssumption
  <2>9. SolverTypeOK'
    BY <1>1, <2>3, <2>8 DEF SetUp, SolverInv, SolverTypeOK, inputVars, Cells
  <2> QED BY <1>1, <2>7, <2>8, <2>9 DEF SetUp, SolverInv
<1>2. CASE Sweep
  <2>1. AllWithin /\ InputsOK /\ at \in Inner /\ at \in Cells /\ at' \in (1..NY - 1) \X (1..NX - 2)
    BY <1>2, InvInputs, AtIsInner DEF Sweep, SolverInv
  <2>2. UNCHANGED <<inputVars, baseline, velocity, step, iter, flow, lifted>>
    BY <1>2 DEF Sweep
  <2>3. head' \in [Cells -> Int] /\ AllWithin'
    <3>1. CASE Relaxes(at)
      <4>1. Relaxed(at) \in Int /\ LeastHead <= Relaxed(at) /\ Relaxed(at) <= MostHead
        BY <2>1, <3>1, RelaxedWithin DEF SolverInv, SolverTypeOK
      <4>2. head' = [head EXCEPT ![at] = Relaxed(at)]
        BY <1>2, <3>1 DEF Sweep
      <4> QED BY <2>1, <2>2, <4>1, <4>2, OneHeadChanged
    <3>2. CASE ~Relaxes(at)
      <4>1. head' = head
        BY <1>2, <3>2 DEF Sweep
      <4>2. AllWithin'
        BY <2>1, <2>2, <4>1, AllWithinDependsOnHeads
      <4> QED BY <4>1, <4>2 DEF SolverInv, SolverTypeOK
    <3> QED BY <3>1, <3>2
  <2>4. moved' \in BOOLEAN
    BY <1>2 DEF Sweep
  <2>5. SolverTypeOK'
    BY <2>1, <2>2, <2>3, <2>4 DEF SolverInv, SolverTypeOK, inputVars, Cells
  <2> QED BY <2>2, <2>3, <2>5 DEF SolverInv
<1>3. CASE SweepEnds
  <2>1. AllWithin'
    BY <1>3, AllWithinDependsOnHeads DEF SweepEnds, SolverInv
  <2>2. SolverTypeOK'
    BY <1>3 DEF SweepEnds, SolverInv, SolverTypeOK, inputVars, Cells
  <2> QED BY <1>3, <2>1, <2>2 DEF SweepEnds, SolverInv
<1>4. CASE Lift
  <2>1. AllWithin /\ InputsOK /\ at \in Inner /\ at \in Cells /\ at' \in (1..NY - 1) \X (1..NX - 2)
    BY <1>4, InvInputs, AtIsInner DEF Lift, SolverInv
  <2>2. UNCHANGED <<inputVars, baseline, velocity, step, iter, moved, flow>>
    BY <1>4 DEF Lift
  <2>3. head' \in [Cells -> Int] /\ AllWithin'
    <3>1. CASE Lifts(at)
      <4>1. Lifted(at) \in Int /\ LeastHead <= Lifted(at) /\ Lifted(at) <= MostHead
        BY <2>1, <3>1, LiftedWithin DEF SolverInv, SolverTypeOK
      <4>2. head' = [head EXCEPT ![at] = Lifted(at)]
        BY <1>4, <3>1 DEF Lift
      <4> QED BY <2>1, <2>2, <4>1, <4>2, OneHeadChanged
    <3>2. CASE ~Lifts(at)
      <4>1. head' = head
        BY <1>4, <3>2 DEF Lift
      <4>2. AllWithin'
        BY <2>1, <2>2, <4>1, AllWithinDependsOnHeads
      <4> QED BY <4>1, <4>2 DEF SolverInv, SolverTypeOK
    <3> QED BY <3>1, <3>2
  <2>4. lifted' \subseteq Cells
    BY <1>4, <2>1 DEF Lift, SolverInv, SolverTypeOK
  <2>5. SolverTypeOK'
    BY <2>1, <2>2, <2>3, <2>4 DEF SolverInv, SolverTypeOK, inputVars, Cells
  <2> QED BY <2>2, <2>3, <2>5 DEF SolverInv
<1>5. CASE IterationEnds
  <2>1. AllWithin'
    BY <1>5, AllWithinDependsOnHeads DEF IterationEnds, SolverInv
  <2>2. iter' \in 0..MaxIter
    BY <1>5, SolverAssumption DEF IterationEnds, SolverInv, SolverTypeOK
  <2>3. step' \in {"sweep", "flow", "velocities"} /\ (step' = "sweep" => iter' < MaxIter) /\ moved' \in BOOLEAN
    BY <1>5 DEF IterationEnds, SolverInv, SolverTypeOK
  <2>4. SolverTypeOK'
    BY <1>5, <2>2, <2>3 DEF IterationEnds, SolverInv, SolverTypeOK, inputVars, Cells
  <2> QED BY <2>1, <2>3, <2>4 DEF SolverInv
<1>6. CASE Velocities
  <2>1. AllWithin'
    BY <1>6, AllWithinDependsOnHeads DEF Velocities, SolverInv
  <2>2. SolverTypeOK'
    BY <1>6, VelocitiesAreInts DEF Velocities, SolverInv, SolverTypeOK, inputVars, Cells
  <2> QED BY <1>6, <2>1, <2>2 DEF Velocities, SolverInv
<1>7. CASE TakeFlow
  <2>1. step' # "grid" => baseline' = baseline
    BY <1>7 DEF TakeFlow, SolverInv, SolverTypeOK
  <2>2. step' # "grid" => AllWithin'
    BY <1>7, <2>1, AllWithinDependsOnHeads DEF TakeFlow, SolverInv
  <2>3. baseline' \in BOOLEAN /\ step' \in {"done", "grid"}
    BY <1>7 DEF TakeFlow, SolverInv, SolverTypeOK
  <2>4. SolverTypeOK'
    BY <1>7, <2>3 DEF TakeFlow, SolverInv, SolverTypeOK, inputVars, Cells
  <2> QED BY <2>2, <2>3, <2>4 DEF SolverInv
<1>8. CASE UNCHANGED solverVars
  <2>1. UNCHANGED <<inputVars, baseline, head, velocity, step, at, iter, moved, flow, lifted>>
    BY <1>8 DEF solverVars
  <2>2. step # "grid" => AllWithin'
    BY <2>1, AllWithinDependsOnHeads DEF SolverInv
  <2>3. SolverTypeOK'
    BY <2>1 DEF SolverInv, SolverTypeOK, inputVars, Cells
  <2> QED BY <2>1, <2>2, <2>3 DEF SolverInv
<1> QED BY <1>1, <1>2, <1>3, <1>4, <1>5, <1>6, <1>7, <1>8 DEF SolverNext

LEMMA InvHolds == SolverSpec => []SolverInv
BY InvInitially, InvKept, PTL DEF SolverSpec

(* The variables of the solver have their types, for every grid, dam, water *)
(* level and blanket: no weighted mean divides by zero, no cell beyond the  *)
(* grid is read, no iteration runs beyond the last.                        *)
THEOREM SolverTypesCorrect == SolverSpec => []SolverTypeOK
<1>1. SolverInv => SolverTypeOK
  BY DEF SolverInv
<1> QED BY <1>1, InvHolds, PTL

(* In every iteration of either solver the heads in the dam stay in the     *)
(* range of the boundary heads (simulation/seepage_fem.go:269-373), and the *)
(* phreatic line stays below the highest.                                  *)
THEOREM HeadsStayWithin == SolverSpec => []MaximumPrinciple
<1>1. SolverInv => MaximumPrinciple
  <2> SUFFICES ASSUME SolverInv, step # "grid" PROVE HeadsWithin /\ LineWithin
    BY DEF MaximumPrinciple
  <2>1. AllWithin /\ InputsOK /\ head \in [Cells -> Int]
    BY InvInputs DEF SolverInv, SolverTypeOK
  <2>2. HeadsWithin
    <3>1. \A c \in Cells : head[c] \in Int
      BY <2>1
    <3>2. LeastHead \in Int /\ MostHead \in Int
      BY <2>1, HeadRange
    <3> QED BY <2>1, <3>1, <3>2 DEF AllWithin, HeadsWithin
  <2>3. LineWithin
    BY <2>1, LineFollows
  <2> QED BY <2>2, <2>3
<1> QED BY <1>1, InvHolds, PTL

-----------------------------------------------------------------------------
(* WHERE THE SOLVER STOPS                                                 *)

(* The cells that hold the water's level hold it from the first borders on. *)
(* While a first pass has measured no change, the cells that it has come    *)
(* past are as it would compute them, and the second pass that follows      *)
(* moves only cells near those it lifts; of the cells that it has come past *)
(* only those can be lifted that cells after them have made so.            *)
HeldHold == \A c \in Inner : InDomain(c) /\ Held(c) => head[c] = Relaxed(c)
Passed(c) == c[1] < at[1] \/ (c[1] = at[1] /\ c[2] < at[2])
PassedOnMean == \A c \in Inner : Passed(c) => ~OffItsMean(c)
OffNearLifted == \A c \in Inner : OffItsMean(c) => Around(c) \cap lifted # {}
PassedWetLater == \A c \in Inner : Passed(c) /\ Lifts(c) => WetLater(c)

SteadyInv ==
  /\ step # "grid" => HeldHold
  /\ step = "sweep" /\ ~moved => PassedOnMean
  /\ step = "lift" /\ ~moved => OffNearLifted
  /\ step = "lift" => PassedWetLater
  /\ SteadyButForLifts

(* Where a cell is does not change while a solver is at work.              *)
LEMMA PlacesStay ==
  ASSUME UNCHANGED <<inputVars, baseline>>
  PROVE  /\ water' = water
         /\ \A c : (HeldUp(c)' <=> HeldUp(c)) /\ (HeldDown(c)' <=> HeldDown(c)) /\ (Held(c)' <=> Held(c))
         /\ \A c : (InDomain(c)' <=> InDomain(c)) /\ (Relaxes(c)' <=> Relaxes(c))
         /\ \A c : Y(c)' = Y(c) /\ Behind(c)' = Behind(c)
BY DEF inputVars, HeldUp, HeldDown, Held, InDomain, Relaxes, InBody, InFoundation, InCover,
       Y, X, FromStart, Behind, Below, Blanket, Cells, Beside

(* Nor do the weights of its neighbours.                                   *)
LEMMA SharesStay ==
  ASSUME UNCHANGED <<inputVars, baseline>>
  PROVE  \A c : Shares(c)' = Shares(c)
<1>1. /\ \A c : PointPermeability(c)' = PointPermeability(c)
      /\ \A c : Contact(c)' <=> Contact(c)
  BY DEF inputVars, PointPermeability, Contact, InBody, InFoundation, InCover, Y, X, FromStart, Behind, Below, Blanket
<1>2. \A c, n : Spacing(c, n)' = Spacing(c, n)
  BY DEF inputVars, Spacing
<1>3. \A c, n : Permeability(c, n)' = Permeability(c, n)
  <2> TAKE c, n
  <2>1. section' = section
    BY DEF inputVars
  <2> QED BY <1>1, <1>2, <2>1 DEF Permeability, InSeries, Harmonic
<1> QED BY <1>3, PlacesStay DEF Shares, Beside

(* What the first pass makes of a cell depends on its neighbours' heads.    *)
LEMMA RelaxedStays ==
  ASSUME UNCHANGED <<inputVars, baseline>>,
         NEW c, \A s \in Sides : head'[Beside(c)[s]] = head[Beside(c)[s]]
  PROVE  Relaxed(c)' = Relaxed(c)
<1>1. Mean(c, Shares(c))' = Total([s \in Sides |-> Shares(c)'[s] * head'[Beside(c)[s]]]) \div Total(Shares(c)')
  BY DEF Mean, Total, Sides, Beside
<1>2. Mean(c, Shares(c))' = Mean(c, Shares(c))
  BY <1>1, SharesStay DEF Mean
<1> QED BY <1>2, PlacesStay DEF Relaxed

(* While no head changes, nothing that is said of a cell does.             *)
LEMMA CellStays ==
  ASSUME UNCHANGED <<inputVars, baseline, head>>
  PROVE  /\ \A c : OffItsMean(c)' <=> OffItsMean(c)
         /\ \A c : Lifts(c)' <=> Lifts(c)
         /\ lifted' = lifted => \A c : WetLater(c)' <=> WetLater(c)
<1>1. \A c : Relaxed(c)' = Relaxed(c)
  BY RelaxedStays
<1>2. \A c : Wet(c)' = Wet(c)
  BY PlacesStay DEF Wet, Beside
<1>3. \A c : OffItsMean(c)' <=> OffItsMean(c)
  BY <1>1, PlacesStay DEF OffItsMean
<1>4. \A c : Lifts(c)' <=> Lifts(c)
  BY <1>2, PlacesStay DEF Lifts, Total
<1>5. lifted' = lifted => \A c : WetLater(c)' <=> WetLater(c)
  BY <1>2 DEF WetLater, Beside, Sides
<1> QED BY <1>3, <1>4, <1>5

(* A cell under the water's level is not dry: the second pass leaves it.    *)
LEMMA HeldNeverLifts ==
  ASSUME InputsOK, HeldHold, NEW c \in Inner, InDomain(c), Held(c)
  PROVE  ~Lifts(c)
<1>1. Y(c) \in Int /\ water.up \in Int /\ water.down \in Int
  BY HeightIsInt, NeighboursInGrid, InputFields
<1>2. Y(c) <= Relaxed(c) /\ Relaxed(c) \in Int
  BY <1>1 DEF Held, HeldUp, HeldDown, Relaxed
<1>3. head[c] = Relaxed(c)
  BY DEF HeldHold
<1> QED BY <1>1, <1>2, <1>3 DEF Lifts

(* What a held cell is to hold does not depend on the heads, so that a step  *)
(* that changes no held cell keeps them.                                   *)
LEMMA HeldKept ==
  ASSUME HeldHold, UNCHANGED <<inputVars, baseline>>,
         \A c \in Inner : InDomain(c) /\ Held(c) => head'[c] = head[c]
  PROVE  HeldHold'
<1> SUFFICES ASSUME NEW c \in Inner, InDomain(c)', Held(c)' PROVE head'[c] = Relaxed(c)'
  BY DEF HeldHold, Inner
<1>1. InDomain(c) /\ Held(c)
  BY PlacesStay
<1>2. Relaxed(c)' = Relaxed(c)
  BY <1>1, PlacesStay DEF Held, Relaxed
<1> QED BY <1>1, <1>2 DEF HeldHold

(* The cells that a pass has come past, after one cell more.               *)
LEMMA PassedNext ==
  ASSUME SolverTypeOK, ~PassOver, at' = Following(at), NEW c \in Inner, Passed(c)'
  PROVE  Passed(c) \/ c = at
<1>1. at \in (1..NY - 1) \X (1..NX - 2) /\ NX \in Nat /\ NY \in Nat
  BY SolverAssumption DEF SolverTypeOK
<1>2. PICK j \in Nat, i \in Nat : at = <<j, i>>
  BY <1>1
<1>3. i <= NX - 2
  BY <1>1, <1>2
<1>4. PICK m \in Nat, n \in Nat : c = <<m, n>> /\ n >= 1 /\ n <= NX - 2
  BY <1>1 DEF Inner
<1>5. m < at'[1] \/ (m = at'[1] /\ n < at'[2])
  BY <1>4 DEF Passed
<1>6. at' = IF i < NX - 2 THEN <<j, i + 1>> ELSE <<j + 1, 1>>
  BY <1>2 DEF Following
<1>7. m < j \/ (m = j /\ n < i) \/ (m = j /\ n = i)
  <2>1. CASE i < NX - 2
    BY <1>5, <1>6, <2>1
  <2>2. CASE ~(i < NX - 2)
    BY <1>1, <1>3, <1>4, <1>5, <1>6, <2>2
  <2> QED BY <2>1, <2>2
<1> QED BY <1>2, <1>4, <1>7 DEF Passed

(* A pass at its first cell has come past none, one that is over past all;  *)
(* and a cell that a pass has come past lies left of the present one or     *)
(* below it, where they are neighbours.                                    *)
LEMMA NonePassed ==
  ASSUME at' = First, NEW c \in Inner
  PROVE  ~Passed(c)'
BY SolverAssumption DEF First, Passed, Inner

LEMMA AllPassed ==
  ASSUME PassOver, NEW c \in Inner
  PROVE  Passed(c)
BY SolverAssumption DEF PassOver, Passed, Inner

LEMMA PassedBefore ==
  ASSUME SolverTypeOK, NEW c \in Inner, Passed(c), NEW s \in Sides, at = Beside(c)[s]
  PROVE  s \in {"right", "above"}
<1>1. PICK m \in Nat, n \in Nat : c = <<m, n>>
  BY SolverAssumption DEF Inner
<1>2. at # <<m, n - 1>> /\ at # <<m - 1, n>>
  BY <1>1 DEF Passed
<1> QED BY <1>1, <1>2 DEF Beside, Sides

LEMMA InnerIsInterior == \A c : c \in Inner <=> c \in Cells /\ Interior(c)
BY SolverAssumption DEF Inner, Cells, Interior

LEMMA SteadyInitially == SolverInit => SteadyInv
BY DEF SolverInit, SteadyInv, SteadyButForLifts

(* A step of the first pass that measures no change made none: a held cell   *)
(* already held its level.                                                 *)
LEMMA UnmeasuredIsUnchanged ==
  ASSUME SolverInv, HeldHold, Sweep, ~moved'
  PROVE  ~moved /\ head' = head /\ (Relaxes(at) => head[at] = Relaxed(at))
<1>1. at \in Inner /\ at \in Cells /\ head \in [Cells -> Int]
  BY AtIsInner DEF Sweep, SolverInv, SolverTypeOK
<1>2. ~moved /\ (Held(at) \/ head' = head)
  BY DEF Sweep
<1>3. Relaxes(at) => head' = [head EXCEPT ![at] = Relaxed(at)]
  BY DEF Sweep
<1>4. ~Relaxes(at) => head' = head
  BY DEF Sweep
<1>5. Held(at) /\ Relaxes(at) => head[at] = Relaxed(at)
  BY <1>1 DEF HeldHold, Relaxes
<1>6. head' = head
  BY <1>1, <1>2, <1>3, <1>4, <1>5
<1>7. Relaxes(at) => head[at] = Relaxed(at)
  BY <1>1, <1>3, <1>6
<1> QED BY <1>2, <1>6, <1>7

(* A cell that the second pass leaves changes nothing.                     *)
LEMMA NotLifted ==
  ASSUME SolverInv, SteadyInv, Lift, ~Lifts(at)
  PROVE  (~moved => OffNearLifted') /\ PassedWetLater'
<1>1. UNCHANGED <<inputVars, baseline, head, lifted>> /\ step = "lift" /\ at' = Following(at) /\ ~PassOver
  BY DEF Lift
<1>2. ~moved => OffNearLifted'
  BY <1>1, CellStays DEF SteadyInv, OffNearLifted, Inner, Around, Beside, Sides
<1>3. PassedWetLater'
  <2> SUFFICES ASSUME NEW c \in Inner, Passed(c)', Lifts(c)' PROVE WetLater(c)'
    BY DEF PassedWetLater, Inner
  <2>1. Lifts(c) /\ c # at
    BY <1>1, CellStays
  <2>2. Passed(c)
    BY <1>1, <2>1, PassedNext DEF SolverInv
  <2> QED BY <1>1, <2>1, <2>2, CellStays DEF SteadyInv, PassedWetLater
<1> QED BY <1>2, <1>3

(* A cell that it lifts disturbs its neighbours only, and those of them that *)
(* the pass has come past can be lifted by it later.                       *)
LEMMA OneLifted ==
  ASSUME SolverInv, SteadyInv, Lift, Lifts(at)
  PROVE  (~moved => OffNearLifted') /\ PassedWetLater'
<1>1. /\ UNCHANGED <<inputVars, baseline>> /\ step = "lift" /\ at' = Following(at) /\ ~PassOver
      /\ lifted' = lifted \cup {at} /\ head' = [head EXCEPT ![at] = Lifted(at)]
  BY DEF Lift
<1>2. at \in Inner /\ at \in Cells /\ head \in [Cells -> Int] /\ AllWithin /\ InputsOK
  BY <1>1, AtIsInner, InvInputs DEF SolverInv, SolverTypeOK
<1>3. PICK d \in Inner : d = at
  BY <1>2
<1>4. d \in Cells /\ head'[d] \in Int /\ Y(d) \in Int /\ Y(d) <= head'[d]
  BY <1>1, <1>2, <1>3, LiftedWithin, HeightIsInt
<1>5. d \in lifted' /\ lifted \subseteq lifted'
  BY <1>1, <1>3
<1>6. \A b \in Cells : b # d => head'[b] = head[b]
  BY <1>1, <1>2, <1>3
<1>7. ~moved => OffNearLifted'
  <2> SUFFICES ASSUME ~moved, NEW c \in Inner, OffItsMean(c)', d \notin Around(c) PROVE Around(c) \cap lifted' # {}
    BY <1>5 DEF OffNearLifted, Inner, Around, Beside, Sides
  <2>1. c \in Cells /\ c # d /\ \A s \in Sides : Beside(c)[s] \in Cells /\ Beside(c)[s] # d
    BY NeighboursInGrid DEF Around
  <2>2. head'[c] = head[c] /\ \A s \in Sides : head'[Beside(c)[s]] = head[Beside(c)[s]]
    BY <1>6, <2>1
  <2>3. OffItsMean(c)
    BY <1>1, <2>2, RelaxedStays, PlacesStay DEF OffItsMean
  <2> QED BY <1>1, <1>5, <2>3 DEF SteadyInv, OffNearLifted
<1>8. PassedWetLater'
  <2> SUFFICES ASSUME NEW c \in Inner, Passed(c)', Lifts(c)', NEW s \in Sides, Wet(c)'[s] = 1
               PROVE  s \in {"right", "above"} /\ Beside(c)[s] \in lifted'
    BY DEF PassedWetLater, WetLater, Inner, Beside, Sides
  <2>1. c # d
    <3>1. head'[c] < Y(c)
      BY <1>1, PlacesStay DEF Lifts
    <3> QED BY <1>4, <3>1
  <2>2. Passed(c)
    BY <1>1, <1>3, <2>1, PassedNext DEF SolverInv
  <2>3. CASE Beside(c)[s] = d
    BY <1>3, <1>5, <2>2, <2>3, PassedBefore DEF SolverInv
  <2>4. CASE Beside(c)[s] # d
    <3>1. c \in Cells /\ Beside(c)[s] \in Cells
      BY NeighboursInGrid
    <3>2. head'[c] = head[c] /\ head'[Beside(c)[s]] = head[Beside(c)[s]]
      BY <1>6, <2>1, <2>4, <3>1
    <3>3. Wet(c)[s] = 1
      BY <1>1, <3>2, PlacesStay DEF Wet, Beside
    <3>4. Wet(c) \in [Sides -> {0, 1}]
      BY DEF Wet
    <3>5. Total(Wet(c)) > 0
      BY <3>3, <3>4 DEF Total, Sides
    <3>6. Lifts(c)
      BY <1>1, <3>2, <3>5, PlacesStay DEF Lifts
    <3>7. WetLater(c)
      BY <1>1, <2>2, <3>6 DEF SteadyInv, PassedWetLater
    <3> QED BY <1>5, <3>3, <3>7 DEF WetLater
  <2> QED BY <2>3, <2>4
<1> QED BY <1>7, <1>8

LEMMA SteadyKept == SolverInv /\ SteadyInv /\ [SolverNext]_solverVars => SteadyInv'
<1> SUFFICES ASSUME SolverInv, SteadyInv, [SolverNext]_solverVars PROVE SteadyInv'
  OBVIOUS
<1>0. InputsOK
  BY InvInputs
<1>1. CASE SetUp
  <2>1. UNCHANGED <<inputVars, baseline>> /\ step' = "sweep" /\ at' = First
    BY <1>1 DEF SetUp
  <2>2. HeldHold'
    <3> SUFFICES ASSUME NEW c \in Inner, InDomain(c)', Held(c)' PROVE head'[c] = Relaxed(c)'
      BY DEF HeldHold, Inner
    <3>1. InDomain(c) /\ Held(c) /\ c \in Cells
      BY <2>1, PlacesStay, NeighboursInGrid
    <3>2. head'[c] = BoundaryHead(c)
      BY <1>1, <3>1 DEF SetUp
    <3>3. BoundaryHead(c) = IF HeldUp(c) THEN water.up ELSE water.down
      BY <3>1 DEF BoundaryHead, Held
    <3>4. Relaxed(c)' = IF HeldUp(c) THEN water.up ELSE water.down
      BY <2>1, <3>1, PlacesStay DEF Held, Relaxed
    <3> QED BY <3>2, <3>3, <3>4
  <2>3. PassedOnMean'
    BY <2>1, NonePassed DEF PassedOnMean, Inner
  <2> QED BY <2>1, <2>2, <2>3 DEF SteadyInv, SteadyButForLifts
<1>2. CASE Sweep
  <2>1. /\ UNCHANGED <<inputVars, baseline, step>> /\ step = "sweep" /\ at' = Following(at) /\ ~PassOver
        /\ HeldHold /\ at \in Inner /\ at \in Cells /\ head \in [Cells -> Int]
    BY <1>2, AtIsInner DEF Sweep, SteadyInv, SolverInv, SolverTypeOK
  <2>2. HeldHold'
    <3>1. \A c \in Inner : c # at => head'[c] = head[c]
      BY <1>2, <2>1, NeighboursInGrid DEF Sweep
    <3>2. InDomain(at) /\ Held(at) => head'[at] = head[at]
      <4>1. InDomain(at) /\ Held(at) => head[at] = Relaxed(at) /\ Relaxes(at)
        BY <2>1 DEF HeldHold, Relaxes
      <4> QED BY <1>2, <2>1, <4>1 DEF Sweep
    <3> QED BY <2>1, <3>1, <3>2, HeldKept
  <2>3. ASSUME ~moved' PROVE PassedOnMean'
    <3>1. ~moved /\ head' = head /\ ~OffItsMean(at)
      BY <1>2, <2>1, <2>3, UnmeasuredIsUnchanged DEF OffItsMean
    <3>2. PassedOnMean
      BY <2>1, <3>1 DEF SteadyInv
    <3> SUFFICES ASSUME NEW c \in Inner, Passed(c)' PROVE ~OffItsMean(c)'
      BY DEF PassedOnMean, Inner
    <3>3. Passed(c) \/ c = at
      BY <2>1, PassedNext DEF SolverInv
    <3> QED BY <2>1, <3>1, <3>2, <3>3, CellStays DEF PassedOnMean
  <2> QED BY <2>1, <2>2, <2>3 DEF SteadyInv, SteadyButForLifts
<1>3. CASE SweepEnds
  <2>1. UNCHANGED <<inputVars, baseline, head, moved>> /\ step = "sweep" /\ PassOver /\ step' = "lift" /\ at' = First
    BY <1>3 DEF SweepEnds
  <2>2. HeldHold'
    BY <2>1, HeldKept DEF SteadyInv
  <2>3. ~moved' => OffNearLifted'
    BY <2>1, AllPassed, CellStays DEF SteadyInv, PassedOnMean, OffNearLifted, Inner
  <2>4. PassedWetLater'
    BY <2>1, NonePassed DEF PassedWetLater, Inner
  <2> QED BY <2>1, <2>2, <2>3, <2>4 DEF SteadyInv, SteadyButForLifts
<1>4. CASE Lift
  <2>1. /\ UNCHANGED <<inputVars, baseline, step, moved>> /\ step = "lift" /\ ~PassOver
        /\ HeldHold /\ at \in Inner /\ at \in Cells /\ head \in [Cells -> Int]
    BY <1>4, AtIsInner DEF Lift, SteadyInv, SolverInv, SolverTypeOK
  <2>2. HeldHold'
    <3>1. \A c \in Inner : c # at => head'[c] = head[c]
      BY <1>4, <2>1, NeighboursInGrid DEF Lift
    <3>2. InDomain(at) /\ Held(at) => head'[at] = head[at]
      <4>1. InDomain(at) /\ Held(at) => ~Lifts(at)
        BY <1>0, <2>1, HeldNeverLifts
      <4> QED BY <1>4, <4>1 DEF Lift
    <3> QED BY <2>1, <3>1, <3>2, HeldKept
  <2>3. (~moved => OffNearLifted') /\ PassedWetLater'
    BY <1>4, NotLifted, OneLifted
  <2> QED BY <2>1, <2>2, <2>3 DEF SteadyInv, SteadyButForLifts
<1>5. CASE IterationEnds
  <2>1. UNCHANGED <<inputVars, baseline, head, lifted>> /\ at' = First /\ step = "lift" /\ PassOver
    BY <1>5 DEF IterationEnds
  <2>2. step' \in {"sweep", "velocities", "flow"} /\ (step' # "sweep" /\ iter' < MaxIter => ~moved)
    BY <1>5 DEF IterationEnds, Converged
  <2>3. HeldHold'
    BY <2>1, HeldKept DEF SteadyInv
  <2>4. PassedOnMean'
    BY <2>1, NonePassed DEF PassedOnMean, Inner
  <2>5. SteadyButForLifts'
    <3> SUFFICES ASSUME step' # "sweep", iter' < MaxIter, NEW c \in Inner
                 PROVE  /\ OffItsMean(c)' => Around(c) \cap lifted' # {}
                        /\ Lifts(c)' => WetLater(c)'
      BY InnerIsInterior DEF SteadyButForLifts, Cells, Interior, Around, Beside, Sides
    <3>1. OffNearLifted /\ PassedWetLater
      BY <2>1, <2>2 DEF SteadyInv
    <3> QED BY <2>1, <3>1, AllPassed, CellStays DEF OffNearLifted, PassedWetLater
  <2> QED BY <2>2, <2>3, <2>4, <2>5 DEF SteadyInv
<1>6. CASE Velocities
  <2>1. UNCHANGED <<inputVars, baseline, head, lifted, iter>> /\ step = "velocities" /\ step' = "flow"
    BY <1>6 DEF Velocities
  <2>2. HeldHold'
    BY <2>1, HeldKept DEF SteadyInv
  <2>3. SteadyButForLifts'
    BY <2>1, CellStays DEF SteadyInv, SteadyButForLifts, Cells, Interior, Around, Beside, Sides
  <2> QED BY <2>1, <2>2, <2>3 DEF SteadyInv
<1>7. CASE TakeFlow
  <2>1. UNCHANGED <<inputVars, head>> /\ step' \in {"done", "grid"} /\ HeldHold
    BY <1>7 DEF TakeFlow, SteadyInv
  <2>2. step' # "grid" => baseline' = baseline
    BY <1>7 DEF TakeFlow, SolverInv, SolverTypeOK
  <2>3. step' # "grid" => HeldHold'
    BY <2>1, <2>2, HeldKept
  <2> QED BY <2>1, <2>3 DEF SteadyInv, SteadyButForLifts
<1>8. CASE UNCHANGED solverVars
  <2>1. UNCHANGED <<inputVars, baseline, head, step, at, iter, moved, lifted>>
    BY <1>8 DEF solverVars
  <2>2. HeldHold => HeldHold'
    BY <2>1, HeldKept
  <2>3. PassedOnMean => PassedOnMean'
    BY <2>1, CellStays DEF PassedOnMean, Passed, Inner
  <2>4. OffNearLifted => OffNearLifted'
    BY <2>1, CellStays DEF OffNearLifted, Inner, Around, Beside, Sides
  <2>5. PassedWetLater => PassedWetLater'
    BY <2>1, CellStays DEF PassedWetLater, Passed, Inner
  <2>6. SteadyButForLifts => SteadyButForLifts'
    BY <2>1, CellStays DEF SteadyButForLifts, Cells, Interior, Around, Beside, Sides
  <2> QED BY <2>1, <2>2, <2>3, <2>4, <2>5, <2>6 DEF SteadyInv
<1> QED BY <1>1, <1>2, <1>3, <1>4, <1>5, <1>6, <1>7, <1>8 DEF SolverNext

(* A solver that stops before its last iteration leaves heads that neither  *)
(* pass would change, but at and next to the cells that its last second     *)
(* pass has lifted (simulation/seepage_fem.go:269-379), for every grid,     *)
(* dam, water level and blanket.                                           *)
THEOREM StopsSteady == SolverSpec => []SteadyButForLifts
<1>1. SteadyInv => SteadyButForLifts
  BY DEF SteadyInv
<1> QED BY <1>1, InvHolds, SteadyInitially, SteadyKept, PTL DEF SolverSpec
=============================================================================
