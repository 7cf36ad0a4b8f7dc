---------------------------- MODULE FeatureProofs ----------------------------
(***************************************************************************)
(* Proofs about the endpoints that compute their answer from the request:   *)
(* the adjustment of the virtual tour (RiskHysteresis), the ageing           *)
(* (AgingPredictor), the comparisons (DamComparison), and all of them        *)
(* together with the solver (MCFeatures).                                   *)
(***************************************************************************)
EXTENDS MCFeatures, SeepageSolverProofs, SequenceTheorems, FiniteSetTheorems, TLAPS

-----------------------------------------------------------------------------
(* ARITHMETIC                                                             *)

LEMMA Quotient ==
  ASSUME NEW m \in Int, NEW n \in Nat \ {0}
  PROVE  m \div n \in Int /\ (m >= 0 => m \div n \in Nat)
BY Z3

LEMMA ProductIsNat ==
  ASSUME NEW a \in Nat, NEW b \in Nat
  PROVE  a * b \in Nat
BY Z3

-----------------------------------------------------------------------------
(* THE TOUR: LEVELS AND THEIR ORDER                                       *)

LEMMA Orders ==
  /\ Levels = {"low", "medium", "high", "critical"}
  /\ Order("low") = 1 /\ Order("medium") = 2 /\ Order("high") = 3 /\ Order("critical") = 4
<1>1. DOMAIN Risks = 1..4
  BY DEF Risks
<1>2. Risks[1] = "low" /\ Risks[2] = "medium" /\ Risks[3] = "high" /\ Risks[4] = "critical"
  BY DEF Risks
<1>3. Levels = {"low", "medium", "high", "critical"}
  BY <1>1, <1>2 DEF Levels
<1>4. Order("low") = 1
  BY <1>1, <1>2 DEF Order
<1>5. Order("medium") = 2
  BY <1>1, <1>2 DEF Order
<1>6. Order("high") = 3
  BY <1>1, <1>2 DEF Order
<1>7. Order("critical") = 4
  BY <1>1, <1>2 DEF Order
<1> QED BY <1>3, <1>4, <1>5, <1>6, <1>7

LEMMA ProposedIsLevel ==
  ASSUME NEW over, NEW press
  PROVE  Proposed(over, press) \in Levels
BY Orders DEF Proposed

(* Hysteresis answers the level proposed or a higher one, that of before.   *)
LEMMA HysteresisRaises ==
  ASSUME NEW risk \in Levels \cup {None}, NEW proposed \in Levels, NEW over, NEW press
  PROVE  LET a == applyRiskHysteresis(risk, proposed, over, press)
         IN a \in Levels /\ Order(a) >= Order(proposed)
BY Orders DEF applyRiskHysteresis, Keeps

(* A level is only left downwards by a margin under what calls for it.      *)
LEMMA MarginOfBands ==
  ASSUME NEW risk \in Levels, NEW proposed \in Levels, NEW over \in Int, NEW press \in Int,
         Order(applyRiskHysteresis(risk, proposed, over, press)) < Order(risk)
  PROVE  WellUnder(risk, over, press)
<1>1. risk # None
  BY HysteresisAssumption, Orders
<1>2. Order(proposed) < Order(risk) /\ BelowBand(risk, over, press)
  BY <1>1, Orders DEF applyRiskHysteresis, Keeps
<1>3. risk # "low"
  BY <1>2, Orders
<1>4. CASE risk = "medium"
  BY <1>2, <1>4 DEF BelowBand, WellUnder, CallsFor
<1>5. CASE risk = "high"
  BY <1>2, <1>5 DEF BelowBand, WellUnder, CallsFor
<1>6. CASE risk = "critical"
  BY <1>2, <1>6 DEF BelowBand, WellUnder, CallsFor
<1> QED BY <1>3, <1>4, <1>5, <1>6, Orders

-----------------------------------------------------------------------------
(* THE TOUR: WATER LEVELS                                                 *)

LevelsAllowed(d, l) == /\ l.up \in 5..(Design[d].up * 5) \div 2
                       /\ l.down \in 0..(l.up - 1)

LEMMA MostUpstream ==
  ASSUME NEW n \in Nat, n >= 5
  PROVE  (n * 5) \div 2 \in Int /\ n <= (n * 5) \div 2
OBVIOUS

LEMMA DesignAllowed ==
  ASSUME NEW d \in Dams
  PROVE  /\ LevelsAllowed(d, Design[d])
         /\ Design[d].up \in Nat /\ Design[d].down \in Nat /\ Design[d].up - Design[d].down \in Nat \ {0}
<1>1. /\ Design[d].up \in Nat /\ Design[d].down \in Nat
      /\ Design[d].up > Design[d].down /\ Design[d].up >= 5
  BY HysteresisAssumption
<1> QED BY <1>1, MostUpstream DEF LevelsAllowed

(* The upper level first, and the lower one against it.                    *)
LEMMA ClampedAllowed ==
  ASSUME NEW d \in Dams, NEW asked \in Asked
  PROVE  LevelsAllowed(d, Clamped(d, asked))
<1>1. PICK most \in Int : most = (Design[d].up * 5) \div 2 /\ most >= 5
  <2>1. Design[d].up \in Nat /\ Design[d].up >= 5
    BY HysteresisAssumption
  <2> QED BY <2>1, MostUpstream
<1>2. asked.up \in Int /\ asked.down \in Int
  BY HysteresisAssumption
<1>3. Chosen(d, asked).up \in Int /\ Chosen(d, asked).down \in Nat
  BY <1>2, DesignAllowed DEF Chosen
<1>4. PICK up \in 5..most : up = InRange(d, Chosen(d, asked).up)
  BY <1>1, <1>3 DEF InRange, AtMost, AtLeast
<1>5. BelowUp(up, Chosen(d, asked).down) \in 0..(up - 1)
  BY <1>3, <1>4 DEF BelowUp
<1> QED BY <1>1, <1>4, <1>5 DEF Clamped, LevelsAllowed

-----------------------------------------------------------------------------
(* THE TOUR: THE INVARIANT                                                *)

(* An answer is final, is never milder than its levels call for, and a      *)
(* request that has read a level and is not stale has read the one stored. *)
RiskInv ==
  /\ TypeOK
  /\ \A r \in Requests : answer[r] # None => pc[r] = "done"
  /\ NeverUnderReported
  /\ \A r \in Requests : pc[r] = "read" /\ r \notin stale => prev[r] = store[dam[r]]

LEMMA OverIsInt ==
  ASSUME TypeOK, NEW r \in Requests
  PROVE  Over(r) \in Int /\ pressure[r] \in Int
<1>1. levels[r].up \in Int /\ levels[r].down \in Int /\ dam[r] \in Dams
  BY DEF TypeOK
<1>2. (levels[r].up - levels[r].down) * 1000 \in Int
  BY <1>1
<1>3. pressure[r] \in Int
  <2>1. pressure[r] \in Pressures \cup {0}
    BY DEF TypeOK
  <2>2. \A p \in Pressures : p \in Int
    BY HysteresisAssumption
  <2>3. 0 \in Int
    OBVIOUS
  <2>4. pressure[r] \in Pressures \/ pressure[r] = 0
    BY <2>1
  <2> QED BY <2>2, <2>3, <2>4, Zenon
<1>4. Design[dam[r]].up - Design[dam[r]].down \in Nat \ {0}
  BY <1>1, DesignAllowed
<1>5. ((levels[r].up - levels[r].down) * 1000) \div (Design[dam[r]].up - Design[dam[r]].down) \in Int
  BY <1>2, <1>4, Quotient
<1> QED BY <1>3, <1>5 DEF Over, Overload

LEMMA RiskInitially == Init => RiskInv
<1> SUFFICES ASSUME Init PROVE RiskInv
  OBVIOUS
<1>1. \A r \in Requests : LevelsAllowed(dam[r], levels[r])
  BY DesignAllowed DEF Init
<1>2. levels \in [Requests -> [up : Nat, down : Nat]]
  BY HysteresisAssumption DEF Init
<1>3. TypeOK
  BY <1>1, <1>2 DEF Init, TypeOK, LevelsAllowed
<1> QED BY <1>3 DEF Init, RiskInv, NeverUnderReported

(* What an answer is measured by are the levels, the dam and the pressure.  *)
LEMMA ReportsKept ==
  ASSUME RiskInv, UNCHANGED <<dam, levels, pressure, answer>>
  PROVE  NeverUnderReported'
BY DEF RiskInv, NeverUnderReported, ProposedFor, Over

LEMMA SolveKeeps ==
  ASSUME RiskInv, NEW r \in Requests, Solve(r)
  PROVE  RiskInv'
<1>1. PICK asked \in Asked : levels' = [levels EXCEPT ![r] = Clamped(dam[r], asked)]
  BY DEF Solve
<1>2. pressure' \in [Requests -> Pressures \cup {0}] /\ \A q \in Requests : q # r => pressure'[q] = pressure[q]
  BY DEF Solve, RiskInv, TypeOK
<1>3. UNCHANGED <<store, dam, prev, answer, alive, stale>> /\ pc[r] = "new" /\ pc' = [pc EXCEPT ![r] = "solved"]
  BY DEF Solve, Steps
<1>4. PICK l \in [up : Nat, down : Nat] : LevelsAllowed(dam[r], l) /\ levels' = [levels EXCEPT ![r] = l]
  <2>1. PICK most \in Int : most = (Design[dam[r]].up * 5) \div 2
    BY HysteresisAssumption, MostUpstream DEF RiskInv, TypeOK
  <2>2. LevelsAllowed(dam[r], Clamped(dam[r], asked))
    BY ClampedAllowed DEF RiskInv, TypeOK
  <2>3. Clamped(dam[r], asked).up \in Nat /\ Clamped(dam[r], asked).down \in Nat
    BY <2>1, <2>2 DEF LevelsAllowed
  <2>4. Clamped(dam[r], asked) \in [up : Nat, down : Nat]
    BY <2>3 DEF Clamped
  <2> QED BY <1>1, <2>2, <2>4
<1>5. levels' \in [Requests -> [up : Nat, down : Nat]] /\ \A q \in Requests : levels'[q] = IF q = r THEN l ELSE levels[q]
  BY <1>4 DEF RiskInv, TypeOK
<1>6. \A q \in Requests : LevelsAllowed(dam[q], levels'[q])
  BY <1>4, <1>5 DEF RiskInv, TypeOK, LevelsAllowed
<1>7. NeverUnderReported'
  BY <1>2, <1>3, <1>5 DEF RiskInv, NeverUnderReported, ProposedFor, Over
<1>8. TypeOK'
  BY <1>2, <1>3, <1>5, <1>6 DEF RiskInv, TypeOK, LevelsAllowed
<1> QED BY <1>3, <1>7, <1>8 DEF RiskInv, TypeOK

LEMMA ReadKeeps ==
  ASSUME RiskInv, NEW r \in Requests, ReadPrevious(r)
  PROVE  RiskInv'
<1>1. UNCHANGED <<store, dam, levels, pressure, answer, alive, stale>> /\ pc[r] = "solved" /\ pc' = [pc EXCEPT ![r] = "read"]
  BY DEF ReadPrevious, Steps
<1>2. prev' = [prev EXCEPT ![r] = store[dam[r]]] /\ store[dam[r]] \in Levels \cup {None}
  BY DEF ReadPrevious, RiskInv, TypeOK
<1>3. TypeOK'
  BY <1>1, <1>2 DEF RiskInv, TypeOK
<1> QED BY <1>1, <1>2, <1>3, ReportsKept DEF RiskInv, TypeOK

LEMMA AnswerKeeps ==
  ASSUME RiskInv, NEW r \in Requests, Answer(r)
  PROVE  RiskInv'
<1> DEFINE risk == applyRiskHysteresis(prev[r], ProposedFor(r), Over(r), pressure[r])
<1>1. /\ UNCHANGED <<dam, levels, pressure, prev, alive>> /\ pc[r] = "read" /\ pc' = [pc EXCEPT ![r] = "done"]
      /\ store' = [store EXCEPT ![dam[r]] = risk] /\ answer' = [answer EXCEPT ![r] = risk]
      /\ stale' = stale \cup {q \in Requests \ {r} : pc[q] = "read" /\ dam[q] = dam[r]}
  BY DEF Answer, Steps
<1>2. prev[r] \in Levels \cup {None} /\ ProposedFor(r) \in Levels
  BY ProposedIsLevel DEF RiskInv, TypeOK, ProposedFor
<1>3. risk \in Levels /\ Order(risk) >= Order(ProposedFor(r))
  BY <1>2, HysteresisRaises
<1> HIDE DEF risk
<1>4. TypeOK'
  BY <1>1, <1>3 DEF RiskInv, TypeOK
<1>5. NeverUnderReported'
  BY <1>1, <1>3 DEF RiskInv, TypeOK, NeverUnderReported, ProposedFor, Over
<1>6. ASSUME NEW q \in Requests, pc'[q] = "read", q \notin stale' PROVE prev'[q] = store'[dam'[q]]
  BY <1>1, <1>6 DEF RiskInv, TypeOK
<1>7. \A q \in Requests : answer'[q] # None => pc'[q] = "done"
  BY <1>1 DEF RiskInv, TypeOK
<1> QED BY <1>4, <1>5, <1>6, <1>7 DEF RiskInv

LEMMA RiskKept == RiskInv /\ [Next]_vars => RiskInv'
<1> SUFFICES ASSUME RiskInv, [Next]_vars PROVE RiskInv'
  OBVIOUS
<1>1. CASE \E r \in Requests : Solve(r) \/ ReadPrevious(r) \/ Answer(r)
  BY <1>1, SolveKeeps, ReadKeeps, AnswerKeeps
<1>2. CASE ConcurrentMapAccess
  <2>1. UNCHANGED <<store, dam, levels, pressure, prev, answer, stale>>
    BY <1>2 DEF ConcurrentMapAccess
  <2>2. pc' = [q \in Requests |-> IF pc[q] \in {"solved", "read"} THEN "cut" ELSE pc[q]] /\ alive' \in BOOLEAN
    BY <1>2 DEF ConcurrentMapAccess
  <2>3. TypeOK'
    BY <2>1, <2>2 DEF RiskInv, TypeOK
  <2> QED BY <2>1, <2>2, <2>3, ReportsKept DEF RiskInv, TypeOK
<1>3. CASE UNCHANGED vars
  <2>1. UNCHANGED <<store, pc, dam, levels, pressure, prev, answer, alive, stale>>
    BY <1>3 DEF vars
  <2>2. TypeOK'
    BY <2>1 DEF RiskInv, TypeOK
  <2> QED BY <2>1, <2>2, ReportsKept DEF RiskInv
<1> QED BY <1>1, <1>2, <1>3 DEF Next

LEMMA RiskHolds == Spec => []RiskInv
BY RiskInitially, RiskKept, PTL DEF Spec

-----------------------------------------------------------------------------
(* THE TOUR: THEOREMS                                                     *)

(* Types; in particular the levels given to the solver are in the allowed   *)
(* range with a head of at least 0.1 m, whatever was asked for.            *)
THEOREM RiskTypesCorrect == Spec => []TypeOK
<1>1. RiskInv => TypeOK
  BY DEF RiskInv
<1> QED BY <1>1, RiskHolds, PTL

(* However many requests interleave and whatever they have stored, none is  *)
(* answered a level milder than its own water levels and pressure call for. *)
THEOREM NoneIsTooMild == Spec => []NeverUnderReported
<1>1. RiskInv => NeverUnderReported
  BY DEF RiskInv
<1> QED BY <1>1, RiskHolds, PTL

(* The stored level of a dam falls only by the margin of the bands, or by a *)
(* request that had read a level replaced since.                           *)
THEOREM LevelsFallByMargin == Spec => LeftOnlyWithMargin
<1>1. ASSUME RiskInv, [Next]_vars, NEW d \in Dams, store[d] # None, Order(store'[d]) < Order(store[d])
      PROVE  \E r \in Requests : /\ pc[r] = "read" /\ pc'[r] = "done" /\ dam[r] = d
                                 /\ WellUnder(store[d], Over(r), pressure[r]) \/ r \in stale
  <2>1. store[d] \in Levels
    BY <1>1 DEF RiskInv, TypeOK
  <2>2. Order(store[d]) \in Int
    BY <2>1, Orders
  <2>3. store' # store
    BY <1>1, <2>2
  <2>4. PICK r \in Requests : Answer(r)
    BY <1>1, <2>3 DEF Next, Solve, ReadPrevious, ConcurrentMapAccess, vars
  <2> DEFINE risk == applyRiskHysteresis(prev[r], ProposedFor(r), Over(r), pressure[r])
  <2>5. pc[r] = "read" /\ pc'[r] = "done" /\ store' = [store EXCEPT ![dam[r]] = risk]
    BY <1>1, <2>4 DEF Answer, Steps, RiskInv, TypeOK
  <2> HIDE DEF risk
  <2>6. dam[r] = d /\ store'[d] = risk
    <3>1. dam[r] # d => store'[d] = store[d]
      BY <2>5
    <3>2. dam[r] = d => store'[d] = risk
      BY <1>1, <2>5 DEF RiskInv, TypeOK
    <3> QED BY <1>1, <2>2, <3>1, <3>2
  <2>7. CASE r \notin stale
    <3>1. prev[r] = store[d]
      BY <1>1, <2>5, <2>6, <2>7 DEF RiskInv
    <3>2. ProposedFor(r) \in Levels /\ Over(r) \in Int /\ pressure[r] \in Int
      BY <1>1, ProposedIsLevel, OverIsInt DEF RiskInv, ProposedFor
    <3>3. WellUnder(store[d], Over(r), pressure[r])
      BY <1>1, <2>1, <2>6, <3>1, <3>2, MarginOfBands DEF risk
    <3> QED BY <2>5, <2>6, <3>3
  <2>8. CASE r \in stale
    BY <2>5, <2>6, <2>8
  <2> QED BY <2>7, <2>8
<1>2. RiskInv /\ [Next]_vars =>
        [\A d \in Dams : store[d] # None /\ Order(store'[d]) < Order(store[d]) =>
           \E r \in Requests : /\ pc[r] = "read" /\ pc'[r] = "done" /\ dam[r] = d
                               /\ WellUnder(store[d], Over(r), pressure[r]) \/ r \in stale]_vars
  BY <1>1
<1> QED BY <1>2, RiskHolds, PTL DEF Spec, LeftOnlyWithMargin

-----------------------------------------------------------------------------
(* THE AGEING: EXTREMES                                                   *)

LEMMA ExtremesAreInts ==
  ASSUME NEW a \in Int, NEW b \in Int
  PROVE  /\ Smaller(a, b) \in Int /\ Smaller(a, b) <= a /\ Smaller(a, b) <= b /\ Smaller(a, b) \in {a, b}
         /\ Larger(a, b) \in Int /\ Larger(a, b) >= a /\ Larger(a, b) >= b /\ Larger(a, b) \in {a, b}
BY DEF Smaller, Larger

-----------------------------------------------------------------------------
(* THE AGEING: WHAT A YEAR AND A DATA POINT COME TO                       *)

LEMMA CareIsNat == Care \in Nat
BY DEF Care, MaintenanceFactor

(* Wear only adds to the damage, maintenance takes a share of it.           *)
LEMMA DamageIsNat ==
  ASSUME NEW y \in Wearings, damage \in Nat
  PROVE  Damaged(y) \in Nat
<1>1. y.wear \in Nat /\ y.microbe \in Nat /\ y.others \in Nat
  BY AgingAssumption
<1> DEFINE physical == IF Climate THEN (13 * y.wear) \div 10 ELSE y.wear
           microbe == IF Climate THEN (115 * y.microbe) \div 100 ELSE y.microbe
           living == ((microbe + y.others) * Care * 9) \div 1000
<1>2. physical \in Nat /\ microbe \in Nat
  <2>1. 13 * y.wear \in Nat /\ 115 * y.microbe \in Nat
    BY <1>1
  <2>2. (13 * y.wear) \div 10 \in Nat /\ (115 * y.microbe) \div 100 \in Nat
    BY <2>1, Quotient
  <2> QED BY <1>1, <2>2
<1> HIDE DEF physical, microbe
<1>3. living \in Nat
  <2>1. microbe + y.others \in Nat
    BY <1>1, <1>2
  <2>2. (microbe + y.others) * Care \in Nat
    BY <2>1, CareIsNat, ProductIsNat
  <2>3. (microbe + y.others) * Care * 9 \in Nat
    BY <2>2
  <2> QED BY <2>3, Quotient
<1> HIDE DEF living
<1>4. (damage + physical + living) * Care \in Nat
  <2>1. damage + physical + living \in Nat
    BY <1>2, <1>3
  <2> QED BY <2>1, CareIsNat, ProductIsNat
<1>5. ((damage + physical + living) * Care) \div 100 \in Nat
  BY <1>4, Quotient
<1> QED BY <1>5 DEF Damaged, physical, microbe, living

(* A damaged dam lets no less through than a new one.                      *)
LEMMA RatioAtLeastOne ==
  ASSUME NEW y \in Wearings, NEW d \in Nat
  PROVE  Ratio(d, y) \in Nat /\ Ratio(d, y) >= 1000
<1>1. y.season \in Nat
  BY AgingAssumption
<1>2. PICK m \in Nat : m = IF Climate THEN (d * y.season) \div 100 ELSE d
  <2>1. (d * y.season) \div 100 \in Nat
    BY <1>1, ProductIsNat, Quotient
  <2> QED BY <2>1
<1>3. m \div 10 \in Nat
  BY Quotient
<1> QED BY <1>2, <1>3 DEF Ratio

Permeabilities == {p \in Nat : p >= InitialK /\ p <= 1000 * InitialK}

LEMMA PermeabilityIs ==
  ASSUME NEW p
  PROVE  p \in Permeabilities <=> p \in Nat /\ p >= 100 /\ p <= 100000
<1>1. InitialK = 100 /\ 1000 * InitialK = 100000
  BY DEF InitialK
<1> QED BY <1>1 DEF Permeabilities

(* A permeability lies between the first one and a thousand times that, and *)
(* is no less than the last.                                               *)
LEMMA PermeabilityGrows ==
  ASSUME evolution \in Seq(Permeabilities), NEW ratio \in Nat, ratio >= 1000
  PROVE  /\ PermeabilityAfter(ratio) \in Permeabilities
         /\ evolution # <<>> => evolution[Len(evolution)] <= PermeabilityAfter(ratio)
<1>1. CASE evolution = <<>>
  <2>1. PICK m \in Nat : m = InitialK * ratio /\ m >= 100000
    BY DEF InitialK
  <2>2. m \div 1000 \in Int /\ m \div 1000 >= 100
    BY <2>1, Z3
  <2>3. PermeabilityAfter(ratio) = Smaller(m \div 1000, 100000)
    BY <1>1, <2>1 DEF PermeabilityAfter, InitialK
  <2>4. Smaller(m \div 1000, 100000) \in Nat /\ Smaller(m \div 1000, 100000) >= 100 /\ Smaller(m \div 1000, 100000) <= 100000
    BY <2>2 DEF Smaller
  <2> QED BY <1>1, <2>3, <2>4, PermeabilityIs
<1>2. CASE evolution # <<>>
  <2>1. PICK last \in Permeabilities : last = evolution[Len(evolution)]
    BY <1>2
  <2>2. last \in Nat /\ last >= 100 /\ last <= 100000
    BY PermeabilityIs
  <2>3. (ratio * Care) \div 100 \in Nat
    BY CareIsNat, ProductIsNat, Quotient
  <2>4. last * ((ratio * Care) \div 100) \in Nat
    BY <2>2, <2>3, ProductIsNat
  <2>5. PICK x \in Nat : x = (last * ((ratio * Care) \div 100)) \div 1000
    BY <2>4, Quotient
  <2>6. PermeabilityAfter(ratio) = Smaller(Larger(last, x), 100000)
    BY <1>2, <2>1, <2>5 DEF PermeabilityAfter, Grown, InitialK
  <2>7. /\ Smaller(Larger(last, x), 100000) \in Nat /\ Smaller(Larger(last, x), 100000) >= last
        /\ Smaller(Larger(last, x), 100000) <= 100000
    BY <2>2, <2>5 DEF Smaller, Larger
  <2>8. Smaller(Larger(last, x), 100000) >= 100
    BY <2>2, <2>7
  <2> QED BY <2>1, <2>6, <2>7, <2>8, PermeabilityIs
<1> QED BY <1>1, <1>2

(* The three shares of the probability add up to 0.7, and the two minima     *)
(* lift it to 0.8 at most.                                                 *)
LEMMA ProbabilityAtMost ==
  ASSUME NEW k \in Int, NEW f \in Int, NEW age \in Int
  PROVE  FailureProbability(k, f, age) \in 0..800
<1>1. (k - 1000) \div 10 \in Int /\ (f - 1000) \div 5 \in Int
  BY Quotient
<1>a. PICK a \in Int : a = Smaller(1000, (k - 1000) \div 10) /\ a <= 1000
  BY <1>1, ExtremesAreInts
<1>b. PICK b \in Int : b = Smaller(1000, (f - 1000) \div 5) /\ b <= 1000
  BY <1>1, ExtremesAreInts
<1>c. PICK c \in Int : c = Smaller(1000, age) /\ c <= 1000
  BY ExtremesAreInts
<1>3. PICK sum \in Int : sum = (a + 4 * b + 2 * c) \div 10 /\ sum <= 700
  <2>1. PICK m \in Int : m = a + 4 * b + 2 * c /\ m <= 7000
    BY <1>a, <1>b, <1>c
  <2>2. m \div 10 \in Int /\ m \div 10 <= 700
    BY <2>1, Z3
  <2> QED BY <2>1, <2>2
<1>4. PICK prob \in 0..700 : prob = Larger(0, Smaller(1000, sum))
  BY <1>3 DEF Larger, Smaller
<1>5. PICK worn \in 0..800 : worn = IF k > 100000 THEN Larger(prob, 800) ELSE prob
  BY <1>4 DEF Larger
<1>6. FailureProbability(k, f, age) = IF f > 3000 THEN Larger(worn, 700) ELSE worn
  <2> DEFINE S == (Smaller(1000, (k - 1000) \div 10) + 4 * Smaller(1000, (f - 1000) \div 5) + 2 * Smaller(1000, age)) \div 10
             P == Larger(0, Smaller(1000, S))
             W == IF k > 100000 THEN Larger(P, 800) ELSE P
  <2>1. FailureProbability(k, f, age) = IF f > 3000 THEN Larger(W, 700) ELSE W
    BY DEF FailureProbability
  <2>2. S = sum
    BY <1>a, <1>b, <1>c, <1>3
  <2> HIDE DEF S
  <2>3. P = prob
    BY <2>2, <1>4
  <2> HIDE DEF P
  <2>4. W = worn
    BY <2>3, <1>5
  <2> HIDE DEF W
  <2> QED BY <2>1, <2>4
<1> QED BY <1>5, <1>6 DEF Larger

-----------------------------------------------------------------------------
(* THE AGEING: THE INVARIANT                                              *)

RequestInv ==
  /\ request.span \in Spans
  /\ request.built \in BuildYears \cup {NoDam}
  /\ request.scenarios \in {Scenarios, <<"baseline">>}
  /\ NumPoints <= Limit
  /\ wearing \in [1..Limit -> Wearings]

EvolutionInv ==
  /\ damage \in Nat
  /\ evolution \in Seq(Permeabilities)
  /\ Len(evolution) <= NumPoints
  /\ \A i \in 1..Len(evolution) : i > 1 => evolution[i - 1] <= evolution[i]

Actions == {"reinforce", "repair", "inspect", "prevent", "monitor"}
DataPoints == [year : Int, prob : 0..800, degree : 0..100, action : Actions]

(* A data point says when it is and what its own figures advise.            *)
PointIs(i, p) ==
  /\ p.year = Now + (i - 1) * TimeStep
  /\ p.action = RecommendedAction(p.degree, p.prob)

PointsInv ==
  /\ points \in Seq(DataPoints)
  /\ Len(points) <= Len(evolution)
  /\ \A i \in 1..Len(points) : PointIs(i, points[i])

Results == [evolution : Seq(Permeabilities) \cup {<<>>}, critical : Int,
            advice : SUBSET {"assess", "watch", "maintain", "strengthen"}]

ResultsInv ==
  /\ critical \in Int
  /\ results \in Seq(Results)
  /\ Len(results) <= Len(request.scenarios)

AgingInv == RequestInv /\ EvolutionInv /\ PointsInv /\ ResultsInv /\ CriticalYearIsFirst

(* However short the time asked for, there is a first data point.          *)
LEMMA AtLeastOnePoint ==
  ASSUME request.span \in Spans
  PROVE  TimeStep \in Nat \ {0} /\ NumPoints \in Nat \ {0}
<1>1. PICK s \in Int, n \in Int : s = request.span.step /\ n = request.span.years
  BY AgingAssumption
<1>2. PICK t \in Nat \ {0} : t = TimeStep
  BY <1>1 DEF TimeStep
<1>3. PICK m \in Nat \ {0} : m = Years
  BY <1>1, AgingAssumption DEF Years
<1>4. m \div t \in Nat
  BY <1>2, <1>3, Quotient
<1> QED BY <1>2, <1>3, <1>4 DEF NumPoints

LEMMA InitialAgeIsInt ==
  ASSUME request.built \in BuildYears
  PROVE  InitialAge \in Int
<1>1. PICK b \in Nat, n \in Nat : b = request.built /\ n = Now
  BY AgingAssumption
<1>2. n - b \in Int
  BY <1>1
<1> QED BY <1>1, <1>2 DEF InitialAge, Larger

LEMMA ScenariosCount ==
  ASSUME RequestInv
  PROVE  Len(request.scenarios) \in Nat
<1>1. CASE request.scenarios = Scenarios
  <2>1. Len(Scenarios) = 4
    BY DEF Scenarios
  <2> QED BY <1>1, <2>1
<1>2. CASE request.scenarios = <<"baseline">>
  <2>1. Len(<<"baseline">>) = 1
    OBVIOUS
  <2> QED BY <1>2, <2>1
<1> QED BY <1>1, <1>2 DEF RequestInv

(* What depends on the request alone stays.                                *)
LEMMA SameRequest ==
  ASSUME RequestInv, request' = request, wearing' = wearing
  PROVE  RequestInv' /\ NumPoints' = NumPoints /\ TimeStep' = TimeStep
<1>1. NumPoints' = NumPoints /\ TimeStep' = TimeStep
  BY DEF NumPoints, TimeStep, Years
<1> QED BY <1>1 DEF RequestInv

LEMMA AgingInitially == AgingInit => AgingInv
<1> SUFFICES ASSUME AgingInit PROVE AgingInv
  OBVIOUS
<1>1. RequestInv
  BY DEF AgingInit, RequestInv
<1>2. EvolutionInv
  BY <1>1, AtLeastOnePoint, EmptySeq DEF AgingInit, EvolutionInv, RequestInv
<1>3. PointsInv
  BY EmptySeq DEF AgingInit, PointsInv
<1>4. ResultsInv
  BY <1>1, ScenariosCount, EmptySeq DEF AgingInit, ResultsInv
<1>5. CriticalYearIsFirst
  BY DEF AgingInit, CriticalYearIsFirst
<1> QED BY <1>1, <1>2, <1>3, <1>4, <1>5 DEF AgingInv

LEMMA MissingKeeps ==
  ASSUME AgingInv, Missing
  PROVE  AgingInv'
<1>1. RequestInv' /\ NumPoints' = NumPoints /\ TimeStep' = TimeStep
  BY SameRequest DEF AgingInv, Missing
<1>2. EvolutionInv' /\ PointsInv' /\ CriticalYearIsFirst'
  <2>1. EvolutionInv'
    BY <1>1 DEF AgingInv, Missing, EvolutionInv
  <2>2. PointsInv'
    BY <1>1 DEF AgingInv, Missing, PointsInv, PointIs
  <2>3. CriticalYearIsFirst'
    BY DEF AgingInv, Missing, CriticalYearIsFirst
  <2> QED BY <2>1, <2>2, <2>3
<1>3. ResultsInv'
  <2>1. NoResult \in Results
    BY DEF NoResult, Results
  <2>2. results' \in Seq(Results) /\ Len(results') = Len(results) + 1
    BY <2>1, AppendProperties DEF AgingInv, ResultsInv, Missing
  <2> QED BY <2>2, ScenariosCount DEF AgingInv, ResultsInv, Missing, Working
<1> QED BY <1>1, <1>2, <1>3 DEF AgingInv

LEMMA EvolveKeeps ==
  ASSUME AgingInv, Evolve
  PROVE  AgingInv'
<1>1. RequestInv' /\ NumPoints' = NumPoints /\ TimeStep' = TimeStep
  BY SameRequest DEF AgingInv, Evolve
<1>2. NumPoints \in Nat
  BY AtLeastOnePoint DEF AgingInv, RequestInv
<1>3. evolution \in Seq(Permeabilities) /\ Len(evolution) \in Nat /\ Len(evolution) < NumPoints
  BY DEF AgingInv, EvolutionInv, Evolve
<1>4. PICK y \in Wearings : y = wearing[Len(evolution) + 1]
  <2>1. Len(evolution) + 1 \in 1..Limit
    BY <1>2, <1>3, AgingAssumption DEF AgingInv, RequestInv
  <2> QED BY <2>1 DEF AgingInv, RequestInv
<1>5. damage' \in Nat
  BY <1>4, DamageIsNat DEF AgingInv, EvolutionInv, Evolve
<1>6. PICK ratio \in Nat : ratio = Ratio(damage', y) /\ ratio >= 1000
  BY <1>4, <1>5, RatioAtLeastOne
<1>7. PICK p \in Permeabilities : p = PermeabilityAfter(ratio) /\ (evolution # <<>> => evolution[Len(evolution)] <= p)
  BY <1>3, <1>6, PermeabilityGrows
<1>8. evolution' = Append(evolution, p)
  BY <1>4, <1>6, <1>7 DEF Evolve
<1>9. /\ evolution' \in Seq(Permeabilities) /\ Len(evolution') = Len(evolution) + 1
      /\ \A i \in 1..Len(evolution) : evolution'[i] = evolution[i]
      /\ evolution'[Len(evolution) + 1] = p
  BY <1>3, <1>7, <1>8, AppendProperties
<1>10. EvolutionInv'
  <2>1. ASSUME NEW i \in 1..Len(evolution'), i > 1
        PROVE  evolution'[i - 1] <= evolution'[i]
    <3>1. CASE i \in 1..Len(evolution)
      <4>1. i - 1 \in 1..Len(evolution)
        BY <3>1, <2>1, <1>3
      <4> QED BY <4>1, <3>1, <2>1, <1>9 DEF AgingInv, EvolutionInv
    <3>2. CASE i = Len(evolution) + 1
      <4>1. i - 1 = Len(evolution) /\ i - 1 \in 1..Len(evolution) /\ evolution # <<>>
        BY <3>2, <2>1, <1>3
      <4> QED BY <4>1, <3>2, <1>7, <1>9
    <3> QED BY <3>1, <3>2, <1>3, <1>9
  <2> QED BY <2>1, <1>1, <1>2, <1>3, <1>5, <1>9 DEF EvolutionInv
<1>11. PointsInv'
  <2>1. points' = points /\ points \in Seq(DataPoints) /\ Len(points) \in Nat
    BY DEF AgingInv, PointsInv, Evolve
  <2>2. Len(points) <= Len(evolution')
    BY <2>1, <1>3, <1>9 DEF AgingInv, PointsInv
  <2> QED BY <2>1, <2>2, <1>1 DEF AgingInv, PointsInv, PointIs
<1>12. ResultsInv' /\ CriticalYearIsFirst'
  BY DEF AgingInv, Evolve, ResultsInv, CriticalYearIsFirst
<1> QED BY <1>1, <1>10, <1>11, <1>12 DEF AgingInv
LEMMA PredictKeeps ==
  ASSUME AgingInv, Predict
  PROVE  AgingInv'
<1>1. RequestInv' /\ NumPoints' = NumPoints /\ TimeStep' = TimeStep
  BY SameRequest DEF AgingInv, Predict
<1>2. TimeStep \in Nat \ {0} /\ request.built \in BuildYears
  BY AtLeastOnePoint DEF AgingInv, RequestInv, Predict
<1>3. /\ points \in Seq(DataPoints) /\ Len(points) \in Nat
      /\ evolution \in Seq(Permeabilities) /\ Len(points) < Len(evolution)
  BY DEF AgingInv, PointsInv, EvolutionInv, Predict
<1>4. PICK past \in Nat : past = Len(points) * TimeStep
  BY <1>2, <1>3, ProductIsNat
<1>5. PICK kRatio \in Int : kRatio = (evolution[Len(points) + 1] * 1000) \div InitialK /\ kRatio >= 1000
  <2>1. PICK k \in Permeabilities : k = evolution[Len(points) + 1]
    BY <1>3
  <2>2. PICK m \in Nat : m = k * 1000 /\ m >= 100000
    BY <2>1, PermeabilityIs
  <2>3. m \div 100 \in Int /\ m \div 100 >= 1000
    BY <2>2, Z3
  <2> QED BY <2>1, <2>2, <2>3 DEF InitialK
<1>6. PICK degree \in 0..100 : degree = Smaller(100, (kRatio - 1000) \div 50)
  <2>1. PICK m \in Nat : m = kRatio - 1000
    BY <1>5
  <2>2. m \div 50 \in Nat
    BY <2>1, Quotient
  <2> QED BY <2>1, <2>2 DEF Smaller
<1>7. PICK flowRatio \in Nat : /\ points' = Append(points, DataPoint(flowRatio))
                               /\ critical' = CriticalAfter(DataPoint(flowRatio).year, DataPoint(flowRatio).prob)
  BY AgingAssumption DEF Predict
<1>8. PICK prob \in 0..800 : prob = FailureProbability(kRatio, flowRatio, InitialAge + past)
  <2>1. PICK age \in Int : age = InitialAge
    BY <1>2, InitialAgeIsInt
  <2>2. PICK a \in Int : a = age + past
    BY <1>4
  <2>3. flowRatio \in Int
    OBVIOUS
  <2>4. FailureProbability(kRatio, flowRatio, a) \in 0..800
    BY <2>3, ProbabilityAtMost
  <2> QED BY <2>1, <2>2, <2>4
<1>9. PICK p \in DataPoints : p = [year |-> Now + past, prob |-> prob, degree |-> degree,
                                   action |-> RecommendedAction(degree, prob)]
  <2>1. RecommendedAction(degree, prob) \in Actions
    BY DEF RecommendedAction, Actions
  <2>2. Now + past \in Int
    BY <1>4, AgingAssumption
  <2> QED BY <2>1, <2>2 DEF DataPoints
<1>10. points' = Append(points, p) /\ critical' = CriticalAfter(p.year, p.prob)
  <2>1. DataPoint(flowRatio) = p
    <3> DEFINE P == Len(points) * TimeStep
               K == (evolution[Len(points) + 1] * 1000) \div InitialK
               D == Smaller(100, (K - 1000) \div 50)
               F == FailureProbability(K, flowRatio, InitialAge + P)
    <3>1. DataPoint(flowRatio) = [year |-> Now + P, prob |-> F, degree |-> D, action |-> RecommendedAction(D, F)]
      BY DEF DataPoint
    <3>2. P = past /\ K = kRatio
      BY <1>4, <1>5
    <3> HIDE DEF P, K
    <3>3. D = degree /\ F = prob
      BY <3>2, <1>6, <1>8
    <3> HIDE DEF D, F
    <3> QED BY <3>1, <3>2, <3>3, <1>9
  <2> QED BY <2>1, <1>7
<1>11. /\ points' \in Seq(DataPoints) /\ Len(points') = Len(points) + 1
       /\ \A i \in 1..Len(points) : points'[i] = points[i]
       /\ points'[Len(points) + 1] = p
  BY <1>3, <1>9, <1>10, AppendProperties
<1>12. EvolutionInv'
  BY <1>1 DEF AgingInv, Predict, EvolutionInv
<1>13. PointsInv'
  <2>1. ASSUME NEW i \in 1..Len(points')
        PROVE  /\ points'[i].year = Now + (i - 1) * TimeStep
               /\ points'[i].action = RecommendedAction(points'[i].degree, points'[i].prob)
    <3>1. CASE i \in 1..Len(points)
      BY <3>1, <1>11 DEF AgingInv, PointsInv, PointIs
    <3>2. CASE i = Len(points) + 1
      <4>1. i - 1 = Len(points)
        BY <3>2, <1>3
      <4> QED BY <4>1, <3>2, <1>4, <1>9, <1>11
    <3> QED BY <3>1, <3>2, <1>3, <1>11
  <2>2. Len(points') <= Len(evolution')
    BY <1>3, <1>11 DEF Predict
  <2>3. \A i \in 1..Len(points') : PointIs(i, points[i])'
    BY <2>1, <1>1 DEF PointIs
  <2> QED BY <2>2, <2>3, <1>11 DEF PointsInv
<1>14. ResultsInv'
  BY <1>9, <1>10 DEF AgingInv, ResultsInv, Predict, CriticalAfter, DataPoints
<1>15. CriticalYearIsFirst'
  <2> DEFINE urgent == {i \in DOMAIN points : points[i].action \in Urgent}
  <2>1. DOMAIN points = 1..Len(points) /\ DOMAIN points' = 1..Len(points) \cup {Len(points) + 1}
    BY <1>3, <1>11
  <2>2. p.action \in Urgent <=> p.prob > 500
    BY <1>9 DEF RecommendedAction, Urgent
  <2>3. p.year > 0
    BY <1>4, <1>9, AgingAssumption
  <2>4. urgent' = urgent \cup {i \in {Len(points) + 1} : p.prob > 500}
    BY <2>1, <2>2, <1>3, <1>11
  <2>5. CASE urgent = {}
    <3>1. critical = 0
      BY <2>5 DEF AgingInv, CriticalYearIsFirst
    <3>2. CASE p.prob > 500
      <4>1. urgent' = {Len(points) + 1} /\ critical' = p.year
        BY <2>4, <2>5, <3>1, <3>2, <1>10 DEF CriticalAfter
      <4> QED BY <4>1, <1>3, <1>11 DEF CriticalYearIsFirst
    <3>3. CASE ~(p.prob > 500)
      <4>1. urgent' = {} /\ critical' = 0
        BY <2>4, <2>5, <3>1, <3>3, <1>10 DEF CriticalAfter
      <4> QED BY <4>1 DEF CriticalYearIsFirst
    <3> QED BY <3>2, <3>3
  <2>6. CASE urgent # {}
    <3>1. PICK i \in urgent : points[i].year = critical /\ \A k \in urgent : i <= k
      BY <2>6 DEF AgingInv, CriticalYearIsFirst
    <3>2. i \in 1..Len(points) /\ points'[i].year = critical
      BY <3>1, <2>1, <1>11
    <3>3. critical # 0
      <4>1. PICK past1 \in Nat : past1 = (i - 1) * TimeStep
        <5>1. i - 1 \in Nat
          BY <3>2
        <5> QED BY <5>1, <1>2, ProductIsNat
      <4>2. critical = Now + past1
        BY <4>1, <3>1, <3>2 DEF AgingInv, PointsInv, PointIs
      <4> QED BY <4>2, AgingAssumption
    <3>4. critical' = critical
      BY <3>3, <1>10 DEF CriticalAfter
    <3>5. i \in urgent' /\ \A k \in urgent' : i <= k
      BY <3>1, <3>2, <2>4, <1>3
    <3> QED BY <3>2, <3>4, <3>5 DEF CriticalYearIsFirst
  <2> QED BY <2>5, <2>6
<1> QED BY <1>1, <1>12, <1>13, <1>14, <1>15 DEF AgingInv

LEMMA ScenarioEndsKeeps ==
  ASSUME AgingInv, ScenarioEnds
  PROVE  AgingInv'
<1>1. RequestInv' /\ NumPoints' = NumPoints /\ TimeStep' = TimeStep
  BY SameRequest DEF AgingInv, ScenarioEnds
<1>2. NumPoints \in Nat
  BY AtLeastOnePoint DEF AgingInv, RequestInv
<1>3. EvolutionInv' /\ PointsInv'
  <2>1. damage' = 0 /\ evolution' = <<>> /\ points' = <<>>
    BY DEF ScenarioEnds
  <2>2. EvolutionInv'
    BY <2>1, <1>1, <1>2, EmptySeq DEF EvolutionInv
  <2>3. PointsInv'
    BY <2>1, EmptySeq DEF PointsInv
  <2> QED BY <2>2, <2>3
<1>4. CriticalYearIsFirst'
  BY DEF ScenarioEnds, CriticalYearIsFirst
<1>5. ResultsInv'
  <2>1. PICK r \in Results : r = [evolution |-> evolution, critical |-> critical, advice |-> Recommendations]
    <3>1. Recommendations \in SUBSET {"assess", "watch", "maintain", "strengthen"}
      BY DEF Recommendations
    <3> QED BY <3>1 DEF AgingInv, EvolutionInv, ResultsInv, Results
  <2>2. results' \in Seq(Results) /\ Len(results') = Len(results) + 1
    BY <2>1, AppendProperties DEF AgingInv, ResultsInv, ScenarioEnds
  <2>3. Len(results) \in Nat
    BY DEF AgingInv, ResultsInv
  <2> QED BY <2>2, <2>3, ScenariosCount DEF AgingInv, ResultsInv, ScenarioEnds, Working
<1> QED BY <1>1, <1>3, <1>4, <1>5 DEF AgingInv

LEMMA AgingKept == AgingInv /\ [AgingNext]_agingVars => AgingInv'
<1> SUFFICES ASSUME AgingInv, [AgingNext]_agingVars PROVE AgingInv'
  OBVIOUS
<1>1. CASE Missing
  BY <1>1, MissingKeeps
<1>2. CASE Evolve
  BY <1>2, EvolveKeeps
<1>3. CASE Predict
  BY <1>3, PredictKeeps
<1>4. CASE ScenarioEnds
  BY <1>4, ScenarioEndsKeeps
<1>5. CASE UNCHANGED agingVars
  <2>1. RequestInv' /\ NumPoints' = NumPoints /\ TimeStep' = TimeStep
    BY <1>5, SameRequest DEF AgingInv, agingVars
  <2>2. EvolutionInv'
    BY <1>5, <2>1 DEF AgingInv, EvolutionInv, agingVars
  <2>3. PointsInv'
    BY <1>5, <2>1 DEF AgingInv, PointsInv, PointIs, agingVars
  <2>4. ResultsInv' /\ CriticalYearIsFirst'
    BY <1>5 DEF AgingInv, ResultsInv, CriticalYearIsFirst, agingVars
  <2> QED BY <2>1, <2>2, <2>3, <2>4 DEF AgingInv
<1> QED BY <1>1, <1>2, <1>3, <1>4, <1>5 DEF AgingNext

LEMMA AgingHolds == AgingSpec => []AgingInv
BY AgingInitially, AgingKept, PTL DEF AgingSpec

-----------------------------------------------------------------------------
(* THE AGEING: THEOREMS                                                   *)

(* Types, for every wear, flow, span and dam: while a dam ages its           *)
(* permeability never falls and never passes the cap of                     *)
(* CalculatePermeabilityEvolution, and the critical year is a data point's. *)
THEOREM AgingTypesCorrect == AgingSpec => []AgingTypeOK
<1>1. AgingInv => AgingTypeOK
  <2> SUFFICES ASSUME AgingInv PROVE AgingTypeOK
    OBVIOUS
  <2>1. DOMAIN evolution = 1..Len(evolution) /\ DOMAIN points = 1..Len(points)
    BY DEF AgingInv, EvolutionInv, PointsInv
  <2>2. ASSUME NEW i \in DOMAIN evolution
        PROVE  /\ evolution[i] \in 0..1000 * InitialK
               /\ i > 1 => evolution[i - 1] <= evolution[i]
    <3>1. PICK q \in Permeabilities : q = evolution[i]
      BY <2>1 DEF AgingInv, EvolutionInv
    <3>2. q \in Nat /\ q >= 100 /\ q <= 100000
      BY <3>1, PermeabilityIs
    <3>3. 1000 * InitialK = 100000
      BY DEF InitialK
    <3>4. evolution[i] \in 0..1000 * InitialK
      BY <3>1, <3>2, <3>3
    <3>5. i > 1 => evolution[i - 1] <= evolution[i]
      BY <2>1 DEF AgingInv, EvolutionInv
    <3> QED BY <3>4, <3>5
  <2>3. ASSUME NEW i \in DOMAIN points
        PROVE  points[i].prob \in 0..1000 /\ points[i].degree \in 0..100
    <3>1. PICK p \in DataPoints : p = points[i]
      BY <2>1 DEF AgingInv, PointsInv
    <3>2. p.prob \in 0..1000 /\ p.degree \in 0..100
      BY DEF DataPoints
    <3> QED BY <3>1, <3>2
  <2>4. critical \in {0} \cup {points[i].year : i \in DOMAIN points}
    BY DEF AgingInv, CriticalYearIsFirst
  <2> QED BY <2>1, <2>2, <2>3, <2>4 DEF AgingInv, EvolutionInv, PointsInv, ResultsInv, AgingTypeOK
<1> QED BY <1>1, AgingHolds, PTL

(* The criticalYear of PredictAging is the year of the first data point      *)
(* whose advice is repair or more, and 0 if there is none.                  *)
THEOREM CriticalYear == AgingSpec => []CriticalYearIsFirst
<1>1. AgingInv => CriticalYearIsFirst
  BY DEF AgingInv
<1> QED BY <1>1, AgingHolds, PTL

(* getRecommendedAction's most urgent advice is never given: it needs a      *)
(* probability above 0.8, and calculateFailureProbability never passes it.  *)
NeverReinforced == \A i \in DOMAIN points : points[i].action # "reinforce"

THEOREM AdviceNeverReached == AgingSpec => []NeverReinforced
<1>1. AgingInv => NeverReinforced
  <2> SUFFICES ASSUME AgingInv, NEW i \in 1..Len(points) PROVE points[i].action # "reinforce"
    BY DEF AgingInv, PointsInv, NeverReinforced
  <2>1. PICK d \in 0..100, q \in 0..800 : points[i].action = RecommendedAction(d, q)
    <3>1. points[i] \in DataPoints /\ PointIs(i, points[i])
      BY DEF AgingInv, PointsInv
    <3> QED BY <3>1 DEF DataPoints, PointIs
  <2> QED BY <2>1 DEF RecommendedAction
<1> QED BY <1>1, AgingHolds, PTL

-----------------------------------------------------------------------------
(* THE AGEING: THE ORDER OF THE SCENARIOS                                 *)

Cares == {30, 60, 85, 100}

(* What a year makes of a damage and a damage of the permeability, for any   *)
(* care and climate; the scenario at work has its own.                      *)
Living(y, care, climate) ==
  (((IF climate THEN (115 * y.microbe) \div 100 ELSE y.microbe) + y.others) * care * 9) \div 1000
Wear(y, climate) == IF climate THEN (13 * y.wear) \div 10 ELSE y.wear
DamageAfter(d, y, care, climate) == ((d + Wear(y, climate) + Living(y, care, climate)) * care) \div 100
RatioOf(d, y, climate) == 1000 + (IF climate THEN (d * y.season) \div 100 ELSE d) \div 10
LetsThrough(E, i, ratio, care) ==
  IF i = 1 THEN Smaller((InitialK * ratio) \div 1000, 1000 * InitialK)
  ELSE Grown(E[i - 1], (E[i - 1] * ((ratio * care) \div 100)) \div 1000)

LEMMA CaresAre == \A freq : MaintenanceFactor(freq) \in Cares /\ MaintenanceFactor(freq) \in Nat
BY DEF MaintenanceFactor, Cares

LEMMA QuotientGrows ==
  ASSUME NEW m \in Nat, NEW n \in Nat, m <= n
  PROVE  m \div 10 <= n \div 10 /\ m \div 100 <= n \div 100 /\ m \div 1000 <= n \div 1000
BY Z3

LEMMA ProductGrows ==
  ASSUME NEW a \in Nat, NEW b \in Nat, NEW c \in Nat, NEW d \in Nat, a <= c, b <= d
  PROVE  a * b <= c * d
<1>1. a * b <= c * b
  BY Z3
<1>2. c * b <= c * d
  BY Z3
<1>3. a * b \in Nat /\ c * b \in Nat /\ c * d \in Nat
  BY ProductIsNat
<1> QED BY <1>1, <1>2, <1>3

LEMMA YearIs ==
  ASSUME NEW y \in Wearings
  PROVE  /\ y.wear \in Nat /\ y.microbe \in Nat /\ y.others \in Nat /\ y.season \in Nat
         /\ y.season >= 95 /\ y.wear >= 40 /\ y.wear >= y.microbe + y.others
BY AgingAssumption DEF LeastWear

LEMMA SharesAreNat ==
  ASSUME NEW y \in Wearings, NEW care \in Nat, NEW climate \in BOOLEAN
  PROVE  Wear(y, climate) \in Nat /\ Living(y, care, climate) \in Nat
<1>1. y.wear \in Nat /\ y.microbe \in Nat /\ y.others \in Nat
  BY YearIs
<1>2. (13 * y.wear) \div 10 \in Nat /\ (115 * y.microbe) \div 100 \in Nat
  BY <1>1, Quotient
<1>3. PICK m \in Nat : m = IF climate THEN (115 * y.microbe) \div 100 ELSE y.microbe
  BY <1>1, <1>2
<1>4. (m + y.others) * care \in Nat
  BY <1>1, ProductIsNat
<1>5. (m + y.others) * care * 9 \in Nat
  BY <1>4
<1> QED BY <1>1, <1>2, <1>3, <1>5, Quotient DEF Wear, Living

LEMMA DamageAfterIsNat ==
  ASSUME NEW d \in Nat, NEW y \in Wearings, NEW care \in Nat, NEW climate \in BOOLEAN
  PROVE  DamageAfter(d, y, care, climate) \in Nat
<1>1. d + Wear(y, climate) + Living(y, care, climate) \in Nat
  BY SharesAreNat
<1>2. (d + Wear(y, climate) + Living(y, care, climate)) * care \in Nat
  BY <1>1, ProductIsNat
<1> QED BY <1>2, Quotient DEF DamageAfter

(* Less care: more damage.                                                 *)
LEMMA DamageGrows ==
  ASSUME NEW d \in Nat, NEW e \in Nat, NEW y \in Wearings, NEW care \in Nat, NEW less \in Nat,
         NEW climate \in BOOLEAN, d <= e, care <= less
  PROVE  DamageAfter(d, y, care, climate) <= DamageAfter(e, y, less, climate)
<1>1. Living(y, care, climate) <= Living(y, less, climate)
  <2>1. y.microbe \in Nat /\ y.others \in Nat
    BY YearIs
  <2>2. PICK m \in Nat : m = IF climate THEN (115 * y.microbe) \div 100 ELSE y.microbe
    BY <2>1, Quotient
  <2>3. PICK n \in Nat : n = m + y.others
    BY <2>1
  <2>4. PICK p \in Nat, q \in Nat : p = n * care /\ q = n * less /\ p <= q
    BY ProductIsNat, ProductGrows
  <2>5. p * 9 \in Nat /\ q * 9 \in Nat /\ p * 9 <= q * 9
    BY <2>4
  <2>6. (p * 9) \div 1000 <= (q * 9) \div 1000
    BY <2>5, QuotientGrows
  <2> QED BY <2>2, <2>3, <2>4, <2>6 DEF Living
<1>2. PICK w \in Nat, l \in Nat, m \in Nat :
        w = Wear(y, climate) /\ l = Living(y, care, climate) /\ m = Living(y, less, climate)
  BY SharesAreNat
<1>3. d + w + l \in Nat /\ e + w + m \in Nat /\ d + w + l <= e + w + m
  BY <1>1, <1>2
<1>4. (d + w + l) * care <= (e + w + m) * less
  BY <1>3, ProductGrows
<1>5. (d + w + l) * care \in Nat /\ (e + w + m) * less \in Nat
  BY <1>3, ProductIsNat
<1> QED BY <1>2, <1>4, <1>5, QuotientGrows DEF DamageAfter

(* A harsher climate: more damage by a twentieth at least, as long as the    *)
(* wear is not lost in the rounding.                                       *)
LEMMA DamageUnderClimate ==
  ASSUME NEW d \in Nat, NEW e \in Nat, NEW y \in Wearings, NEW care \in Cares, 100 * d <= 95 * e
  PROVE  100 * DamageAfter(d, y, care, FALSE) <= 95 * DamageAfter(e, y, care, TRUE)
<1>1. PICK w \in Nat, m \in Nat, o \in Nat : /\ w = y.wear /\ m = y.microbe /\ o = y.others
                                             /\ w >= 40 /\ w >= m + o
  BY YearIs
<1>2. PICK wet \in Nat, moist \in Nat :
        /\ wet = (13 * w) \div 10 /\ 10 * wet >= 13 * w - 9
        /\ moist = (115 * m) \div 100 /\ moist >= m
  BY Z3
<1>3. PICK l \in Nat, ll \in Nat : /\ l = ((m + o) * care * 9) \div 1000 /\ ll = ((moist + o) * care * 9) \div 1000
                                   /\ l <= ll /\ 1000 * l <= 9 * care * (m + o)
  BY <1>2, Z3 DEF Cares
<1>4. PICK n \in Nat, nn \in Nat : /\ n = ((d + w + l) * care) \div 100 /\ 100 * n <= (d + w + l) * care
                                   /\ nn = ((e + wet + ll) * care) \div 100 /\ 100 * nn >= (e + wet + ll) * care - 99
  BY Z3 DEF Cares
<1>5. 100 * n <= 95 * nn
  BY <1>1, <1>2, <1>3, <1>4, Z3 DEF Cares
<1>6. n = DamageAfter(d, y, care, FALSE) /\ nn = DamageAfter(e, y, care, TRUE)
  BY <1>1, <1>2, <1>3, <1>4 DEF DamageAfter, Wear, Living
<1> QED BY <1>5, <1>6

LEMMA RatioIsNat ==
  ASSUME NEW d \in Nat, NEW y \in Wearings, NEW climate \in BOOLEAN
  PROVE  RatioOf(d, y, climate) \in Nat
<1>1. (d * y.season) \div 100 \in Nat
  BY YearIs, ProductIsNat, Quotient
<1>2. PICK m \in Nat : m = IF climate THEN (d * y.season) \div 100 ELSE d
  BY <1>1
<1> QED BY <1>2, Quotient DEF RatioOf

LEMMA RatioGrows ==
  ASSUME NEW d \in Nat, NEW e \in Nat, NEW y \in Wearings, NEW climate \in BOOLEAN, d <= e
  PROVE  RatioOf(d, y, climate) <= RatioOf(e, y, climate)
<1>1. d * y.season \in Nat /\ e * y.season \in Nat /\ d * y.season <= e * y.season
  BY YearIs, ProductIsNat, ProductGrows
<1>2. PICK m \in Nat, n \in Nat : /\ m = IF climate THEN (d * y.season) \div 100 ELSE d
                                  /\ n = IF climate THEN (e * y.season) \div 100 ELSE e
                                  /\ m <= n
  <2>1. (d * y.season) \div 100 \in Nat /\ (e * y.season) \div 100 \in Nat
    BY <1>1, Quotient
  <2>2. (d * y.season) \div 100 <= (e * y.season) \div 100
    BY <1>1, QuotientGrows
  <2> QED BY <2>1, <2>2
<1>3. m \div 10 <= n \div 10 /\ m \div 10 \in Nat /\ n \div 10 \in Nat
  BY <1>2, Quotient, QuotientGrows
<1> QED BY <1>2, <1>3 DEF RatioOf

(* The season takes a twentieth at most, what the climate has added at least.*)
LEMMA RatioUnderClimate ==
  ASSUME NEW d \in Nat, NEW e \in Nat, NEW y \in Wearings, 100 * d <= 95 * e
  PROVE  RatioOf(d, y, FALSE) <= RatioOf(e, y, TRUE)
<1>1. PICK p \in Nat : p = e * y.season /\ p >= 100 * d
  <2>1. e * 95 \in Nat /\ e * y.season \in Nat /\ e * 95 <= e * y.season
    BY YearIs, ProductIsNat, ProductGrows
  <2> QED BY <2>1
<1>2. PICK m \in Nat : m = p \div 100 /\ d <= m
  BY <1>1, Z3
<1>3. d \div 10 <= m \div 10 /\ d \div 10 \in Nat /\ m \div 10 \in Nat
  BY <1>2, Quotient, QuotientGrows
<1> QED BY <1>1, <1>2, <1>3 DEF RatioOf

(* A greater ratio on top of a greater permeability with less care.         *)
LEMMA LetsThroughGrows ==
  ASSUME NEW E \in Seq(Permeabilities), NEW F \in Seq(Permeabilities), NEW i \in Nat \ {0},
         i <= Len(E) + 1, i <= Len(F) + 1, i > 1 => E[i - 1] <= F[i - 1],
         NEW ratio \in Nat, NEW greater \in Nat, ratio <= greater,
         NEW care \in Nat, NEW less \in Nat, care <= less
  PROVE  LetsThrough(E, i, ratio, care) <= LetsThrough(F, i, greater, less)
<1>1. CASE i = 1
  <2>1. PICK m \in Nat, n \in Nat : m = InitialK * ratio /\ n = InitialK * greater /\ m <= n
    BY DEF InitialK
  <2>2. m \div 1000 <= n \div 1000 /\ m \div 1000 \in Nat /\ n \div 1000 \in Nat
    <3>1. m \div 1000 <= n \div 1000
      BY <2>1, QuotientGrows
    <3> QED BY <3>1, Quotient
  <2> QED BY <1>1, <2>1, <2>2 DEF LetsThrough, Smaller, InitialK
<1>2. CASE i > 1
  <2>1. PICK p \in Nat, q \in Nat : p = E[i - 1] /\ q = F[i - 1] /\ p <= q
    <3>1. i - 1 \in 1..Len(E) /\ i - 1 \in 1..Len(F)
      BY <1>2
    <3>2. E[i - 1] \in Permeabilities /\ F[i - 1] \in Permeabilities
      BY <3>1
    <3> QED BY <1>2, <3>2, PermeabilityIs
  <2>2. PICK a \in Nat, b \in Nat : a = ratio * care /\ b = greater * less /\ a <= b
    BY ProductIsNat, ProductGrows
  <2>3. PICK c \in Nat, d \in Nat : c = a \div 100 /\ d = b \div 100 /\ c <= d
    BY <2>2, Quotient, QuotientGrows
  <2>4. PICK m \in Nat, n \in Nat : m = p * c /\ n = q * d /\ m <= n
    <3>1. p * c \in Nat /\ q * d \in Nat
      BY ProductIsNat
    <3>2. p * c <= q * d
      BY <2>1, <2>3, ProductGrows
    <3> QED BY <3>1, <3>2
  <2>5. PICK x \in Nat, y \in Nat : x = m \div 1000 /\ y = n \div 1000 /\ x <= y
    <3>1. m \div 1000 \in Nat /\ n \div 1000 \in Nat
      BY Quotient
    <3>2. m \div 1000 <= n \div 1000
      BY <2>4, QuotientGrows
    <3> QED BY <3>1, <3>2
  <2>6. LetsThrough(E, i, ratio, care) = Grown(p, x) /\ LetsThrough(F, i, greater, less) = Grown(q, y)
    <3>1. LetsThrough(E, i, ratio, care) = Grown(p, x)
      BY <1>2, <2>1, <2>2, <2>3, <2>4, <2>5 DEF LetsThrough
    <3>2. LetsThrough(F, i, greater, less) = Grown(q, y)
      BY <1>2, <2>1, <2>2, <2>3, <2>4, <2>5 DEF LetsThrough
    <3> QED BY <3>1, <3>2
  <2>7. Grown(p, x) <= Grown(q, y)
    BY <2>1, <2>5 DEF Grown, Smaller, Larger, InitialK
  <2> QED BY <2>6, <2>7
<1> QED BY <1>1, <1>2

-----------------------------------------------------------------------------
BaseCare == MaintenanceFactor(request.freq)

(* D is what the damage of the baseline was in each year, E its             *)
(* permeabilities.                                                         *)
BaselineIs(D, E) ==
  /\ D \in [Nat -> Nat] /\ D[0] = 0
  /\ \A i \in 1..Len(E) :
       LET y == wearing[i]
       IN /\ D[i] = DamageAfter(D[i - 1], y, BaseCare, request.climate)
          /\ E[i] = LetsThrough(E, i, RatioOf(D[i], y, request.climate), BaseCare)

(* How the scenario at work has fared so far against the baseline.          *)
ComparedWith(D, E) ==
  LET now == Len(evolution)
  IN /\ Len(results) = 1 => damage <= D[now] /\ \A i \in 1..now : evolution[i] <= E[i]
     /\ Len(results) = 2 => D[now] <= damage /\ \A i \in 1..now : E[i] <= evolution[i]
     /\ Len(results) = 3 => /\ IF request.climate THEN D[now] <= damage ELSE 100 * D[now] <= 95 * damage
                            /\ \A i \in 1..now : E[i] <= evolution[i]

NothingForecast == points = <<>> /\ \A s \in 1..Len(results) : results[s].evolution = <<>>

BaselineInv ==
  IF results = <<>> THEN \E D : BaselineIs(D, evolution) /\ D[Len(evolution)] = damage
  ELSE /\ \A s \in 1..Len(results) : results[s].evolution \in Seq(Permeabilities) /\ Len(results[s].evolution) = NumPoints
       /\ \E D : BaselineIs(D, results[1].evolution) /\ ComparedWith(D, results[1].evolution)

OrderInv ==
  /\ request.climate \in BOOLEAN
  /\ IF request.built = NoDam THEN NothingForecast ELSE BaselineInv
  /\ ScenariosOrdered

(* The step in terms of care and climate.                                  *)
LEMMA StepIs ==
  ASSUME NEW y, NEW ratio, evolution \in Seq(Permeabilities)
  PROVE  /\ Damaged(y) = DamageAfter(damage, y, Care, Climate)
         /\ \A d : Ratio(d, y) = RatioOf(d, y, Climate)
         /\ PermeabilityAfter(ratio) = LetsThrough(evolution, Len(evolution) + 1, ratio, Care)
<1>1. Damaged(y) = DamageAfter(damage, y, Care, Climate)
  BY DEF Damaged, DamageAfter, Wear, Living
<1>2. \A d : Ratio(d, y) = RatioOf(d, y, Climate)
  BY DEF Ratio, RatioOf
<1>3. CASE evolution = <<>>
  BY <1>1, <1>2, <1>3, EmptySeq DEF PermeabilityAfter, LetsThrough
<1>4. CASE evolution # <<>>
  <2>1. Len(evolution) \in Nat /\ Len(evolution) # 0
    BY <1>4, EmptySeq
  <2>2. Len(evolution) + 1 # 1 /\ (Len(evolution) + 1) - 1 = Len(evolution)
    BY <2>1
  <2>3. PermeabilityAfter(ratio) = LetsThrough(evolution, Len(evolution) + 1, ratio, Care)
    BY <1>4, <2>2 DEF PermeabilityAfter, LetsThrough
  <2> QED BY <1>1, <1>2, <2>3
<1> QED BY <1>3, <1>4

(* Which scenario is at work, and what it supposes.                        *)
LEMMA ScenarioIs ==
  ASSUME AgingInv, request.climate \in BOOLEAN, Working
  PROVE  /\ Len(results) \in 0..3
         /\ Len(results) = 0 => Care = BaseCare /\ Climate = request.climate
         /\ Len(results) = 1 => Care = 30 /\ Climate = request.climate
         /\ Len(results) = 2 => Care = 100 /\ Climate = request.climate
         /\ Len(results) = 3 => Care = BaseCare /\ Climate = TRUE
<1>1. request.scenarios \in {Scenarios, <<"baseline">>} /\ Len(results) \in Nat
  BY DEF AgingInv, RequestInv, ResultsInv
<1>2. CASE request.scenarios = Scenarios
  <2>1. /\ Len(Scenarios) = 4 /\ Scenarios[1] = "baseline" /\ Scenarios[2] = "high_maintenance"
        /\ Scenarios[3] = "no_maintenance" /\ Scenarios[4] = "with_climate"
    BY DEF Scenarios
  <2>2. Len(results) \in 0..3
    <3>1. Len(results) < 4
      BY <1>2, <2>1 DEF Working
    <3>2. PICK n \in Nat : n = Len(results)
      BY <1>1
    <3> QED BY <3>1, <3>2
  <2>3. CASE Len(results) = 0
    BY <1>2, <2>1, <2>3 DEF Care, BaseCare, Frequency, Climate, Scenario
  <2>4. CASE Len(results) = 1
    BY <1>2, <2>1, <2>4 DEF Care, Frequency, Climate, Scenario, MaintenanceFactor
  <2>5. CASE Len(results) = 2
    BY <1>2, <2>1, <2>5 DEF Care, Frequency, Climate, Scenario, MaintenanceFactor
  <2>6. CASE Len(results) = 3
    BY <1>2, <2>1, <2>6 DEF Care, BaseCare, Frequency, Climate, Scenario
  <2> QED BY <2>2, <2>3, <2>4, <2>5, <2>6
<1>3. CASE request.scenarios = <<"baseline">>
  <2>1. Len(<<"baseline">>) = 1 /\ <<"baseline">>[1] = "baseline"
    OBVIOUS
  <2>2. Len(results) = 0
    BY <1>1, <1>3, <2>1 DEF Working
  <2>3. Scenario = "baseline"
    BY <1>3, <2>1, <2>2 DEF Scenario
  <2> QED BY <2>2, <2>3 DEF Care, BaseCare, Frequency, Climate
<1> QED BY <1>1, <1>2, <1>3

(* A year of the baseline: its damage is noted.                            *)
LEMMA BaselineGoesOn ==
  ASSUME AgingInv, OrderInv, Evolve, results = <<>>, request.built # NoDam
  PROVE  \E D : BaselineIs(D, evolution)' /\ D[Len(evolution')] = damage'
<1>1. PICK D : BaselineIs(D, evolution) /\ D[Len(evolution)] = damage
  BY DEF OrderInv, BaselineInv
<1>2. evolution \in Seq(Permeabilities) /\ Len(evolution) \in Nat
  BY DEF AgingInv, EvolutionInv
<1>3. PICK k \in Nat : k = Len(evolution)
  BY <1>2
<1>4. Care = BaseCare /\ Climate = request.climate
  BY ScenarioIs, EmptySeq DEF OrderInv, Evolve
<1>5. PICK y : y = wearing[k + 1]
  OBVIOUS
<1>6. PICK d \in Nat : d = damage'
  BY EvolveKeeps DEF AgingInv, EvolutionInv
<1>7. d = DamageAfter(D[k], y, BaseCare, request.climate)
  BY <1>1, <1>2, <1>3, <1>4, <1>5, <1>6, StepIs DEF Evolve
<1>8. PICK p : p = LetsThrough(evolution, k + 1, RatioOf(d, y, request.climate), BaseCare)
  OBVIOUS
<1>9. evolution' = Append(evolution, p)
  BY <1>2, <1>3, <1>4, <1>5, <1>6, <1>8, StepIs DEF Evolve
<1>10. evolution' \in Seq(Permeabilities)
  BY EvolveKeeps DEF AgingInv, EvolutionInv
<1>11. /\ Len(evolution') = k + 1 /\ evolution'[k + 1] = p
       /\ \A i \in 1..k : evolution'[i] = evolution[i]
  BY <1>2, <1>3, <1>9, AppendProperties
<1> DEFINE G == [D EXCEPT ![k + 1] = d]
<1>12. G \in [Nat -> Nat] /\ G[k + 1] = d /\ \A i \in 0..k : G[i] = D[i]
  BY <1>1, <1>3, <1>6 DEF BaselineIs
<1> HIDE DEF G
<1>13. BaseCare' = BaseCare /\ request' = request /\ wearing' = wearing
  BY DEF Evolve, BaseCare
<1>14. ASSUME NEW i \in 1..k + 1
       PROVE  /\ G[i] = DamageAfter(G[i - 1], wearing[i], BaseCare, request.climate)
              /\ evolution'[i] = LetsThrough(evolution', i, RatioOf(G[i], wearing[i], request.climate), BaseCare)
  <2>1. CASE i \in 1..k
    <3>1. /\ D[i] = DamageAfter(D[i - 1], wearing[i], BaseCare, request.climate)
          /\ evolution[i] = LetsThrough(evolution, i, RatioOf(D[i], wearing[i], request.climate), BaseCare)
      BY <2>1, <1>1, <1>3 DEF BaselineIs
    <3>2. G[i] = D[i] /\ G[i - 1] = D[i - 1]
      <4>1. i \in 0..k /\ i - 1 \in 0..k
        BY <2>1, <1>3
      <4> QED BY <4>1, <1>12
    <3>3. evolution'[i] = evolution[i] /\ (i # 1 => evolution'[i - 1] = evolution[i - 1])
      BY <2>1, <1>11
    <3> QED BY <3>1, <3>2, <3>3 DEF LetsThrough
  <2>2. CASE i = k + 1
    <3>1. G[i] = d /\ G[i - 1] = D[k]
      BY <2>2, <1>12
    <3>2. evolution'[i] = p /\ (i # 1 => evolution'[i - 1] = evolution[i - 1])
      BY <2>2, <1>11
    <3>3. G[i] = DamageAfter(G[i - 1], wearing[i], BaseCare, request.climate)
      BY <3>1, <2>2, <1>5, <1>7
    <3>4. LetsThrough(evolution', i, RatioOf(G[i], wearing[i], request.climate), BaseCare) = p
      BY <3>1, <3>2, <2>2, <1>5, <1>8 DEF LetsThrough
    <3> QED BY <3>2, <3>3, <3>4
  <2> QED BY <2>1, <2>2
<1>15. G[0] = 0
  BY <1>1, <1>12 DEF BaselineIs
<1>16. BaselineIs(G, evolution)'
  BY <1>11, <1>12, <1>13, <1>14, <1>15 DEF BaselineIs
<1> QED BY <1>6, <1>11, <1>12, <1>16

(* A year of another scenario: it stays where it was to the baseline.       *)
LEMMA OthersGoOn ==
  ASSUME AgingInv, OrderInv, Evolve, results # <<>>, request.built # NoDam,
         NEW D, BaselineIs(D, results[1].evolution), ComparedWith(D, results[1].evolution)
  PROVE  ComparedWith(D, results[1].evolution)'
<1>1. evolution \in Seq(Permeabilities) /\ Len(evolution) \in Nat /\ damage \in Nat
  BY DEF AgingInv, EvolutionInv
<1>2. PICK k \in Nat : k = Len(evolution) /\ k < NumPoints
  BY <1>1 DEF Evolve
<1>3. PICK n \in Nat : n = Len(results) /\ n # 0
  BY EmptySeq DEF AgingInv, ResultsInv
<1>4. PICK E \in Seq(Permeabilities) : E = results[1].evolution /\ Len(E) = NumPoints
  BY <1>3 DEF OrderInv, BaselineInv
<1>5. k + 1 \in 1..Len(E)
  BY <1>2, <1>4, AtLeastOnePoint DEF AgingInv, RequestInv
<1>6. PICK y \in Wearings : y = wearing[k + 1]
  <2>1. NumPoints \in Nat /\ NumPoints <= Limit /\ Limit \in Nat
    BY AtLeastOnePoint, AgingAssumption DEF AgingInv, RequestInv
  <2>2. k + 1 \in 1..Limit
    BY <2>1, <1>2
  <2> QED BY <2>2 DEF AgingInv, RequestInv
<1>7. PICK climate \in BOOLEAN : climate = request.climate
  BY DEF OrderInv
<1>8. BaseCare \in Cares /\ BaseCare \in Nat
  BY CaresAre DEF BaseCare
<1>9. PICK b \in Nat, bb \in Nat : b = D[k] /\ bb = D[k + 1]
  BY DEF BaselineIs
<1>10. /\ bb = DamageAfter(b, y, BaseCare, climate)
       /\ E[k + 1] = LetsThrough(E, k + 1, RatioOf(bb, y, climate), BaseCare)
  <2>1. /\ D[k + 1] = DamageAfter(D[(k + 1) - 1], wearing[k + 1], BaseCare, request.climate)
        /\ E[k + 1] = LetsThrough(E, k + 1, RatioOf(D[k + 1], wearing[k + 1], request.climate), BaseCare)
    BY <1>4, <1>5 DEF BaselineIs
  <2>2. (k + 1) - 1 = k
    OBVIOUS
  <2> QED BY <2>1, <2>2, <1>6, <1>7, <1>9
<1>a. /\ n \in 0..3
      /\ n = 1 => Care = 30 /\ Climate = request.climate
      /\ n = 2 => Care = 100 /\ Climate = request.climate
      /\ n = 3 => Care = BaseCare /\ Climate = TRUE
  BY <1>3, <1>7, ScenarioIs DEF Evolve
<1>11. PICK c \in BOOLEAN : /\ c = Climate
                            /\ n \in {1, 2} => c = climate
                            /\ n = 3 => c = TRUE
  <2>1. CASE n \in {1, 2}
    <3>1. climate = Climate
      BY <2>1, <1>7, <1>a
    <3> QED BY <2>1, <3>1
  <2>2. CASE n = 3
    <3>1. TRUE = Climate
      BY <2>2, <1>a
    <3>2. n \notin {1, 2} /\ TRUE \in BOOLEAN
      BY <2>2
    <3> QED BY <2>2, <3>1, <3>2, Zenon
  <2>3. n \in {1, 2, 3}
    BY <1>3, <1>a
  <2> QED BY <2>1, <2>2, <2>3
<1>b. k + 1 \in Nat \ {0} /\ (k + 1) - 1 = k /\ k + 1 <= Len(E) + 1 /\ k + 1 <= Len(evolution) + 1
  BY <1>1, <1>2, <1>5
<1>12. Care \in Nat
  BY CareIsNat
<1>13. PICK d \in Nat : d = damage' /\ d = DamageAfter(damage, y, Care, c)
  <2>1. damage' = DamageAfter(damage, y, Care, c)
    BY <1>1, <1>2, <1>6, <1>11, StepIs DEF Evolve
  <2> QED BY <2>1, <1>1, <1>11, <1>12, DamageAfterIsNat
<1>14. PICK p : p = LetsThrough(evolution, k + 1, RatioOf(d, y, c), Care)
  OBVIOUS
<1>15. evolution' = Append(evolution, p)
  BY <1>1, <1>2, <1>6, <1>11, <1>13, <1>14, StepIs DEF Evolve
<1>16. /\ Len(evolution') = k + 1 /\ evolution'[k + 1] = p
       /\ \A i \in 1..k : evolution'[i] = evolution[i]
  BY <1>1, <1>2, <1>15, AppendProperties
<1>17. PICK r \in Nat, rr \in Nat : r = RatioOf(d, y, c) /\ rr = RatioOf(bb, y, climate)
  BY RatioIsNat
<1>c. PICK j \in Nat \ {0} : j = k + 1 /\ j - 1 = k /\ j <= Len(E) + 1 /\ j <= Len(evolution) + 1
  BY <1>b
<1>d. p = LetsThrough(evolution, j, r, Care) /\ E[k + 1] = LetsThrough(E, j, rr, BaseCare)
  BY <1>10, <1>14, <1>17, <1>c
<1>18. results' = results /\ request' = request
  BY DEF Evolve
<1>19. CASE n = 1
  <2>1. Care = 30 /\ c = climate /\ damage <= b /\ \A i \in 1..k : evolution[i] <= E[i]
    <3>1. Care = 30 /\ c = climate
      BY <1>19, <1>11, <1>a
    <3>2. damage <= b /\ \A i \in 1..k : evolution[i] <= E[i]
      BY <1>19, <1>2, <1>3, <1>4, <1>9 DEF ComparedWith
    <3> QED BY <3>1, <3>2
  <2>2. 30 <= BaseCare
    BY <1>8 DEF Cares
  <2>3. d <= bb
    BY <2>1, <2>2, <1>1, <1>8, <1>10, <1>13, DamageGrows
  <2>4. RatioOf(d, y, c) <= RatioOf(bb, y, climate)
    BY <2>1, <2>3, RatioGrows
  <2>5. p <= E[k + 1]
    <3>1. j > 1 => evolution[j - 1] <= E[j - 1]
      BY <2>1, <1>c
    <3>2. r <= rr /\ Care <= BaseCare
      BY <2>1, <2>2, <2>4, <1>17
    <3>3. LetsThrough(evolution, j, r, Care) <= LetsThrough(E, j, rr, BaseCare)
      BY <3>1, <3>2, <1>1, <1>8, <1>12, <1>c, LetsThroughGrows
    <3> QED BY <3>3, <1>d
  <2>6. \A i \in 1..k + 1 : evolution'[i] <= E[i]
    BY <2>1, <2>5, <1>16
  <2> QED BY <2>3, <2>6, <1>3, <1>4, <1>9, <1>13, <1>16, <1>18, <1>19 DEF ComparedWith
<1>20. CASE n = 2
  <2>1. Care = 100 /\ c = climate /\ b <= damage /\ \A i \in 1..k : E[i] <= evolution[i]
    BY <1>20, <1>2, <1>3, <1>4, <1>9, <1>11, <1>a DEF ComparedWith
  <2>2. BaseCare <= 100
    BY <1>8 DEF Cares
  <2>3. bb <= d
    BY <2>1, <2>2, <1>1, <1>8, <1>10, <1>13, DamageGrows
  <2>4. RatioOf(bb, y, climate) <= RatioOf(d, y, c)
    BY <2>1, <2>3, RatioGrows
  <2>5. E[k + 1] <= p
    <3>1. j > 1 => E[j - 1] <= evolution[j - 1]
      BY <2>1, <1>c
    <3>2. rr <= r /\ BaseCare <= Care
      BY <2>1, <2>2, <2>4, <1>17
    <3>3. LetsThrough(E, j, rr, BaseCare) <= LetsThrough(evolution, j, r, Care)
      BY <3>1, <3>2, <1>1, <1>8, <1>12, <1>c, LetsThroughGrows
    <3> QED BY <3>3, <1>d
  <2>6. \A i \in 1..k + 1 : E[i] <= evolution'[i]
    BY <2>1, <2>5, <1>16
  <2> QED BY <2>3, <2>6, <1>3, <1>4, <1>9, <1>13, <1>16, <1>18, <1>20 DEF ComparedWith
<1>21. CASE n = 3
  <2>1. /\ Care = BaseCare /\ c = TRUE /\ \A i \in 1..k : E[i] <= evolution[i]
        /\ IF climate THEN b <= damage ELSE 100 * b <= 95 * damage
    BY <1>21, <1>2, <1>3, <1>4, <1>7, <1>9, <1>11, <1>a DEF ComparedWith
  <2>2. IF climate THEN bb <= d ELSE 100 * bb <= 95 * d
    <3>1. CASE climate
      <4>1. b <= damage /\ BaseCare <= BaseCare /\ climate = TRUE
        BY <3>1, <2>1, <1>8
      <4>2. DamageAfter(b, y, BaseCare, TRUE) <= DamageAfter(damage, y, BaseCare, TRUE)
        BY <4>1, <1>1, <1>8, DamageGrows
      <4>3. bb <= d
        BY <4>1, <4>2, <2>1, <1>10, <1>13
      <4> QED BY <3>1, <4>3
    <3>2. CASE ~climate
      <4>1. 100 * bb <= 95 * d
        BY <3>2, <2>1, <1>1, <1>8, <1>10, <1>13, DamageUnderClimate
      <4> QED BY <3>2, <4>1
    <3> QED BY <3>1, <3>2
  <2>3. RatioOf(bb, y, climate) <= RatioOf(d, y, c)
    <3>1. CASE climate
      BY <3>1, <2>1, <2>2, RatioGrows
    <3>2. CASE ~climate
      BY <3>2, <2>1, <2>2, RatioUnderClimate
    <3> QED BY <3>1, <3>2
  <2>4. E[k + 1] <= p
    <3>1. j > 1 => E[j - 1] <= evolution[j - 1]
      BY <2>1, <1>c
    <3>2. rr <= r /\ BaseCare <= Care
      <4>1. Care = BaseCare
        BY <2>1
      <4>2. BaseCare <= Care
        BY <4>1, <1>8
      <4>3. rr <= r
        BY <2>3, <1>17
      <4> QED BY <4>2, <4>3
    <3>3. LetsThrough(E, j, rr, BaseCare) <= LetsThrough(evolution, j, r, Care)
      BY <3>1, <3>2, <1>1, <1>8, <1>12, <1>c, LetsThroughGrows
    <3> QED BY <3>3, <1>d
  <2>5. \A i \in 1..k + 1 : E[i] <= evolution'[i]
    BY <2>1, <2>4, <1>16
  <2>6. ComparedWith(D, results[1].evolution)' =
          /\ IF climate THEN bb <= d ELSE 100 * bb <= 95 * d
          /\ \A i \in 1..k + 1 : E[i] <= evolution'[i]
    BY <1>3, <1>4, <1>7, <1>9, <1>13, <1>16, <1>18, <1>21 DEF ComparedWith
  <2> QED BY <2>2, <2>5, <2>6
<1>22. CASE n \notin {1, 2, 3}
  BY <1>3, <1>18, <1>22 DEF ComparedWith
<1> QED BY <1>19, <1>20, <1>21, <1>22

LEMMA OrderInitially == AgingInit => OrderInv
<1> SUFFICES ASSUME AgingInit PROVE OrderInv
  OBVIOUS
<1>1. request.climate \in BOOLEAN
  BY DEF AgingInit
<1>2. NothingForecast
  BY EmptySeq DEF AgingInit, NothingForecast
<1>3. BaselineInv
  <2> DEFINE D == [i \in Nat |-> 0]
  <2>1. D \in [Nat -> Nat] /\ D[0] = 0
    OBVIOUS
  <2> HIDE DEF D
  <2>2. Len(evolution) = 0 /\ damage = 0 /\ results = <<>>
    BY EmptySeq DEF AgingInit
  <2>3. BaselineIs(D, evolution)
    BY <2>1, <2>2 DEF BaselineIs
  <2> QED BY <2>1, <2>2, <2>3 DEF BaselineInv
<1>4. ScenariosOrdered
  BY EmptySeq DEF AgingInit, ScenariosOrdered, NoFaster
<1> QED BY <1>1, <1>2, <1>3, <1>4 DEF OrderInv

LEMMA MissingKeepsOrder ==
  ASSUME AgingInv, OrderInv, Missing
  PROVE  OrderInv'
<1>1. NothingForecast /\ request' = request /\ request.built = NoDam
  BY DEF OrderInv, Missing
<1>2. results \in Seq(Results) /\ NoResult \in Results
  BY DEF AgingInv, ResultsInv, NoResult, Results
<1>3. PICK n \in Nat : n = Len(results)
  BY <1>2
<1>4. results' = Append(results, NoResult)
  BY DEF Missing
<1>5. /\ results' \in Seq(Results) /\ Len(results') = n + 1 /\ results'[n + 1] = NoResult
      /\ \A s \in 1..n : results'[s] = results[s]
  BY <1>2, <1>3, <1>4, AppendProperties
<1>6. ASSUME NEW s \in 1..n + 1
      PROVE  results'[s].evolution = <<>>
  <2>1. CASE s \in 1..n
    BY <2>1, <1>1, <1>3, <1>5 DEF NothingForecast
  <2>2. CASE s = n + 1
    BY <2>2, <1>5 DEF NoResult
  <2> QED BY <2>1, <2>2
<1>7. NothingForecast'
  BY <1>1, <1>5, <1>6 DEF NothingForecast, Missing
<1>8. DOMAIN results' = 1..n + 1
  BY <1>5
<1>9. ASSUME NEW s \in DOMAIN results'
      PROVE  DOMAIN results'[s].evolution = {}
  <2>1. results'[s].evolution = <<>>
    BY <1>6, <1>8
  <2> QED BY <2>1, EmptySeq
<1>10. ScenariosOrdered'
  BY <1>9 DEF ScenariosOrdered, NoFaster
<1> QED BY <1>1, <1>7, <1>10 DEF OrderInv

LEMMA EvolveKeepsOrder ==
  ASSUME AgingInv, OrderInv, Evolve
  PROVE  OrderInv'
<1>1. request.built # NoDam /\ request' = request /\ results' = results /\ wearing' = wearing
  BY DEF Evolve
<1>2. BaselineInv
  BY <1>1 DEF OrderInv
<1>3. NumPoints' = NumPoints /\ BaseCare' = BaseCare
  BY SameRequest DEF AgingInv, Evolve, BaseCare
<1>4. CASE results = <<>>
  <2>1. BaselineInv'
    BY <1>1, <1>4, BaselineGoesOn DEF BaselineInv
  <2> QED BY <2>1, <1>1 DEF OrderInv, ScenariosOrdered, NoFaster
<1>5. CASE results # <<>>
  <2>1. PICK D : BaselineIs(D, results[1].evolution) /\ ComparedWith(D, results[1].evolution)
    BY <1>2, <1>5 DEF BaselineInv
  <2>2. ComparedWith(D, results[1].evolution)'
    BY <2>1, <1>1, <1>5, OthersGoOn
  <2>3. BaselineIs(D, results[1].evolution)'
    BY <2>1, <1>1, <1>3 DEF BaselineIs
  <2>4. BaselineInv'
    BY <2>2, <2>3, <1>1, <1>2, <1>3, <1>5 DEF BaselineInv
  <2> QED BY <2>4, <1>1 DEF OrderInv, ScenariosOrdered, NoFaster
<1> QED BY <1>4, <1>5

(* What the order speaks of stays.                                         *)
LEMMA OrderStays ==
  ASSUME AgingInv, OrderInv, UNCHANGED <<request, wearing, damage, evolution, results>>,
         request.built = NoDam => points' = points
  PROVE  OrderInv'
<1>1. NumPoints' = NumPoints /\ BaseCare' = BaseCare
  BY SameRequest DEF AgingInv, BaseCare
<1>2. CASE request.built = NoDam
  <2>1. NothingForecast'
    BY <1>2 DEF OrderInv, NothingForecast
  <2> QED BY <2>1, <1>2 DEF OrderInv, ScenariosOrdered, NoFaster
<1>3. CASE request.built # NoDam
  <2>1. BaselineInv
    BY <1>3 DEF OrderInv
  <2>2. CASE results = <<>>
    <3>1. PICK D : BaselineIs(D, evolution) /\ D[Len(evolution)] = damage
      BY <2>1, <2>2 DEF BaselineInv
    <3>2. BaselineIs(D, evolution)' /\ (D[Len(evolution)] = damage)'
      BY <3>1, <1>1 DEF BaselineIs
    <3>3. BaselineInv'
      BY <3>2, <2>2 DEF BaselineInv
    <3> QED BY <3>3, <1>3 DEF OrderInv, ScenariosOrdered, NoFaster
  <2>3. CASE results # <<>>
    <3>1. PICK D : BaselineIs(D, results[1].evolution) /\ ComparedWith(D, results[1].evolution)
      BY <2>1, <2>3 DEF BaselineInv
    <3>2. BaselineIs(D, results[1].evolution)' /\ ComparedWith(D, results[1].evolution)'
      BY <3>1, <1>1 DEF BaselineIs, ComparedWith
    <3>3. BaselineInv'
      BY <3>2, <2>1, <2>3, <1>1 DEF BaselineInv
    <3> QED BY <3>3, <1>3 DEF OrderInv, ScenariosOrdered, NoFaster
  <2> QED BY <2>2, <2>3
<1> QED BY <1>2, <1>3

LEMMA ScenarioEndsKeepsOrder ==
  ASSUME AgingInv, OrderInv, ScenarioEnds
  PROVE  OrderInv'
<1>1. request' = request /\ wearing' = wearing /\ damage' = 0 /\ evolution' = <<>>
  BY DEF ScenarioEnds
<1>2. request.built # NoDam
  BY DEF ScenarioEnds, OrderInv, NothingForecast
<1>3. BaselineInv
  BY <1>2 DEF OrderInv
<1>4. NumPoints' = NumPoints /\ BaseCare' = BaseCare
  BY SameRequest DEF AgingInv, ScenarioEnds, BaseCare
<1>5. evolution \in Seq(Permeabilities) /\ Len(evolution) = NumPoints /\ NumPoints \in Nat
  <2>1. NumPoints \in Nat
    BY AtLeastOnePoint DEF AgingInv, RequestInv
  <2>2. /\ Len(points) = NumPoints /\ Len(points) <= Len(evolution) /\ Len(evolution) <= NumPoints
        /\ evolution \in Seq(Permeabilities)
    BY DEF AgingInv, EvolutionInv, PointsInv, ScenarioEnds
  <2>3. Len(evolution) \in Nat
    BY <2>2
  <2> QED BY <2>1, <2>2, <2>3
<1>6. PICK n \in Nat : n = Len(results) /\ n <= 3
  <2>1. Len(results) \in 0..3
    BY ScenarioIs DEF OrderInv, ScenarioEnds
  <2>2. PICK n \in 0..3 : n = Len(results)
    BY <2>1
  <2> QED BY <2>2
<1>7. PICK r : r = [evolution |-> evolution, critical |-> critical, advice |-> Recommendations]
  OBVIOUS
<1>8. /\ Len(results') = n + 1 /\ results'[n + 1] = r /\ DOMAIN results' = 1..n + 1
      /\ \A s \in 1..n : results'[s] = results[s]
  <2>1. results' = Append(results, r) /\ results \in Seq(Results)
    BY <1>7 DEF ScenarioEnds, AgingInv, ResultsInv
  <2>2. Recommendations \in SUBSET {"assess", "watch", "maintain", "strengthen"}
    BY DEF Recommendations
  <2>3. r \in Results
    BY <2>2, <1>5, <1>7 DEF AgingInv, ResultsInv, Results
  <2>4. results' \in Seq(Results)
    BY <2>1, <2>3, AppendProperties
  <2> QED BY <2>1, <2>3, <2>4, <1>6, AppendProperties
<1>9. r.evolution = evolution
  BY <1>7
<1>10. ASSUME NEW s \in 1..n + 1
       PROVE  results'[s].evolution \in Seq(Permeabilities) /\ Len(results'[s].evolution) = NumPoints
  <2>1. CASE s \in 1..n
    <3>1. results # <<>>
      BY <2>1, <1>6, EmptySeq
    <3>2. results[s].evolution \in Seq(Permeabilities) /\ Len(results[s].evolution) = NumPoints
      BY <3>1, <2>1, <1>3, <1>6 DEF BaselineInv
    <3> QED BY <3>2, <2>1, <1>8
  <2>2. CASE s = n + 1
    BY <2>2, <1>5, <1>8, <1>9
  <2> QED BY <2>1, <2>2
<1>11. \E D : BaselineIs(D, results[1].evolution)' /\ ComparedWith(D, results[1].evolution)'
  <2>1. PICK D : BaselineIs(D, results'[1].evolution)
    <3>1. CASE n = 0
      <4>1. results = <<>> /\ results'[1].evolution = evolution
        BY <3>1, <1>6, <1>8, <1>9, EmptySeq DEF AgingInv, ResultsInv
      <4> QED BY <4>1, <1>3 DEF BaselineInv
    <3>2. CASE n # 0
      <4>1. results # <<>> /\ results'[1] = results[1]
        BY <3>2, <1>6, <1>8, EmptySeq
      <4> QED BY <4>1, <1>3 DEF BaselineInv
    <3> QED BY <3>1, <3>2
  <2>2. BaselineIs(D, results[1].evolution)'
    BY <2>1, <1>1, <1>4 DEF BaselineIs
  <2>3. D[0] = 0 /\ Len(evolution') = 0
    BY <2>1, <1>1, EmptySeq DEF BaselineIs
  <2>4. ComparedWith(D, results[1].evolution)'
    BY <2>3, <1>1 DEF ComparedWith
  <2> QED BY <2>2, <2>4
<1>12. BaselineInv'
  <2>1. results' # <<>>
    BY <1>6, <1>8, EmptySeq
  <2> QED BY <2>1, <1>4, <1>8, <1>10, <1>11 DEF BaselineInv
<1>13. ASSUME NEW s \in 1..4, NEW t \in 1..4, NoFaster(s, t),
              n + 1 \in {s, t} /\ s <= n + 1 /\ t <= n + 1 =>
                \A i \in 1..NumPoints : results'[s].evolution[i] <= results'[t].evolution[i]
       PROVE  NoFaster(s, t)'
  <2> SUFFICES ASSUME s \in DOMAIN results', t \in DOMAIN results', NEW i \in DOMAIN results'[s].evolution
               PROVE  results'[s].evolution[i] <= results'[t].evolution[i]
    BY DEF NoFaster
  <2>1. s \in 1..n + 1 /\ t \in 1..n + 1 /\ i \in 1..NumPoints
    BY <1>8, <1>10
  <2>2. CASE n + 1 \in {s, t}
    BY <2>1, <2>2, <1>13
  <2>3. CASE n + 1 \notin {s, t}
    <3>1. s \in 1..n /\ t \in 1..n
      BY <2>1, <2>3
    <3>2. DOMAIN results = 1..n
      BY <1>6 DEF AgingInv, ResultsInv
    <3> QED BY <3>1, <3>2, <1>8, <1>13 DEF NoFaster
  <2> QED BY <2>2, <2>3
<1>14. n > 0 => /\ n = 1 => \A i \in 1..NumPoints : evolution[i] <= results'[1].evolution[i]
                /\ n \in {2, 3} => \A i \in 1..NumPoints : results'[1].evolution[i] <= evolution[i]
  <2> SUFFICES ASSUME n > 0
               PROVE  /\ n = 1 => \A i \in 1..NumPoints : evolution[i] <= results'[1].evolution[i]
                      /\ n \in {2, 3} => \A i \in 1..NumPoints : results'[1].evolution[i] <= evolution[i]
    OBVIOUS
  <2>1. results # <<>> /\ results'[1] = results[1]
    BY <1>6, <1>8, EmptySeq
  <2>2. PICK D : ComparedWith(D, results[1].evolution)
    BY <2>1, <1>3 DEF BaselineInv
  <2> QED BY <2>1, <2>2, <1>5, <1>6 DEF ComparedWith
<1>15. NoFaster(2, 1)'
  <2>1. n + 1 \in {2, 1} /\ 2 <= n + 1 /\ 1 <= n + 1 =>
          \A i \in 1..NumPoints : results'[2].evolution[i] <= results'[1].evolution[i]
    <3>1. CASE n = 1
      BY <3>1, <1>8, <1>9, <1>14
    <3> QED BY <3>1
  <2>2. NoFaster(2, 1)
    BY DEF OrderInv, ScenariosOrdered
  <2> QED BY <2>1, <2>2, <1>13
<1>16. NoFaster(1, 3)'
  <2>1. n + 1 \in {1, 3} /\ 1 <= n + 1 /\ 3 <= n + 1 =>
          \A i \in 1..NumPoints : results'[1].evolution[i] <= results'[3].evolution[i]
    <3>1. CASE n = 2
      BY <3>1, <1>8, <1>9, <1>14
    <3> QED BY <3>1
  <2>2. NoFaster(1, 3)
    BY DEF OrderInv, ScenariosOrdered
  <2> QED BY <2>1, <2>2, <1>13
<1>17. NoFaster(1, 4)'
  <2>1. n + 1 \in {1, 4} /\ 1 <= n + 1 /\ 4 <= n + 1 =>
          \A i \in 1..NumPoints : results'[1].evolution[i] <= results'[4].evolution[i]
    <3>1. CASE n = 3
      BY <3>1, <1>8, <1>9, <1>14
    <3> QED BY <3>1
  <2>2. NoFaster(1, 4)
    BY DEF OrderInv, ScenariosOrdered
  <2> QED BY <2>1, <2>2, <1>13
<1>18. ScenariosOrdered'
  BY <1>15, <1>16, <1>17 DEF ScenariosOrdered
<1> QED BY <1>1, <1>2, <1>12, <1>18 DEF OrderInv

LEMMA OrderKept == AgingInv /\ OrderInv /\ [AgingNext]_agingVars => OrderInv'
<1> SUFFICES ASSUME AgingInv, OrderInv, [AgingNext]_agingVars PROVE OrderInv'
  OBVIOUS
<1>1. CASE Missing
  BY <1>1, MissingKeepsOrder
<1>2. CASE Evolve
  BY <1>2, EvolveKeepsOrder
<1>3. CASE Predict
  BY <1>3, OrderStays DEF Predict
<1>4. CASE ScenarioEnds
  BY <1>4, ScenarioEndsKeepsOrder
<1>5. CASE UNCHANGED agingVars
  BY <1>5, OrderStays DEF agingVars
<1> QED BY <1>1, <1>2, <1>3, <1>4, <1>5 DEF AgingNext

(* The four scenarios of CompareAgingScenarios come out in the order of      *)
(* what they suppose, in every year and for any wear: no permeability with   *)
(* high maintenance is above the baseline's, none without maintenance or in  *)
(* a changing climate below it; and each scenario's criticalYear is that of  *)
(* its first urgent advice.                                                *)
THEOREM ForecastsTell == AgingSpec => []ForecastTells
<1>1. AgingInv /\ OrderInv => ForecastTells
  BY DEF AgingInv, OrderInv, ForecastTells
<1> QED BY <1>1, AgingHolds, OrderInitially, OrderKept, PTL DEF AgingSpec

-----------------------------------------------------------------------------
(* THE COMPARISONS: RATIOS                                                *)

LEMMA AtLeastQuotient ==
  ASSUME NEW s \in Int, NEW n \in Nat \ {0}, NEW c \in Int
  PROVE  s \div n \in Int /\ (s \div n >= c <=> s >= n * c)
<1>1. PICK q \in Int, r \in 0..n - 1 : q = s \div n /\ s = n * q + r
  BY Division
<1>2. q >= c => n * c <= n * q
  BY Z3
<1>3. q <= c - 1 => n * q <= n * c - n
  BY Z3
<1>4. n * c \in Int /\ n * q \in Int
  BY Z3
<1> QED BY <1>1, <1>2, <1>3, <1>4

(* A ratio of one or more is a reduction of zero or more.                   *)
LEMMA RatioAndReduction ==
  ASSUME NEW o \in Nat \ {0}, NEW n \in Nat \ {0}
  PROVE  /\ (o * 1000) \div n >= 1000 <=> ((o - n) * 1000) \div o >= 0
         /\ o = n => ((o - n) * 1000) \div o = 0
<1>1. (o * 1000) \div n >= 1000 <=> o >= n
  <2>1. PICK s \in Int : s = o * 1000
    OBVIOUS
  <2>2. s \div n >= 1000 <=> s >= n * 1000
    BY AtLeastQuotient
  <2> QED BY <2>1, <2>2
<1>2. ((o - n) * 1000) \div o >= 0 <=> o >= n
  <2>1. PICK s \in Int : s = (o - n) * 1000
    OBVIOUS
  <2>2. s \div o >= 0 <=> s >= o * 0
    BY AtLeastQuotient
  <2> QED BY <2>1, <2>2
<1>3. ASSUME o = n PROVE ((o - n) * 1000) \div o = 0
  <2>1. (o - n) * 1000 = 0 /\ 0 \div o = 0
    BY <1>3, Z3
  <2> QED BY <2>1
<1> QED BY <1>1, <1>2, <1>3

-----------------------------------------------------------------------------
(* THE COMPARISONS: THE REQUEST                                           *)

LEMMA KeysAre ==
  ASSUME wanted \in Asks
  PROVE  /\ wanted.kind \in {"dams", "eras"}
         /\ \E n \in Nat : /\ wanted.keys \in [1..n -> Keys] /\ Goroutines = 1..n /\ Len(wanted.keys) = n
                           /\ wanted.kind = "dams" => n <= MostKeys
                           /\ wanted.kind = "eras" => n = 2
<1>1. CASE wanted \in [kind : {"dams"}, keys : BoundedSeq(Keys, MostKeys), scaled : {FALSE}]
  <2>1. wanted.kind = "dams" /\ wanted.keys \in BoundedSeq(Keys, MostKeys)
    BY <1>1
  <2>2. PICK n \in 0..MostKeys : wanted.keys \in [1..n -> Keys]
    BY <2>1 DEF BoundedSeq, SeqOf
  <2>3. n \in Nat /\ n <= MostKeys
    BY ComparisonAssumption
  <2>4. Goroutines = 1..n /\ Len(wanted.keys) = n
    BY <2>2, <2>3 DEF Goroutines
  <2> QED BY <2>1, <2>2, <2>3, <2>4
<1>2. CASE wanted \in [kind : {"eras"}, keys : [1..2 -> Keys], scaled : BOOLEAN]
  <2>1. wanted.kind = "eras" /\ wanted.keys \in [1..2 -> Keys]
    BY <1>2
  <2>2. Goroutines = 1..2 /\ Len(wanted.keys) = 2
    BY <2>1 DEF Goroutines
  <2> QED BY <2>1, <2>2
<1> QED BY <1>1, <1>2 DEF Asks

(* What the solver finds of a dam in its own size, and of one in another's. *)
Measures == [flow : 0..Huge, pressure : 0..Huge]

LEMMA FoundAre ==
  ASSUME found \in Findings, NEW d \in KnownDams, NEW e \in KnownDams
  PROVE  /\ found[<<d, e>>] \in Measures /\ OwnSize(d) \in Measures
         /\ found[<<d, e>>].flow \in Nat /\ found[<<d, e>>].pressure \in Nat
         /\ OwnSize(d).flow \in 0..Huge /\ OwnSize(d).pressure \in 0..Huge
         /\ OwnSize(d)["flow"] = OwnSize(d).flow /\ OwnSize(d)["pressure"] = OwnSize(d).pressure
<1>1. found \in [KnownDams \X KnownDams -> Measures] /\ Huge \in Nat
  BY ComparisonAssumption DEF Measures
<1>2. found[<<d, e>>] \in Measures /\ OwnSize(d) \in Measures
  BY <1>1 DEF OwnSize
<1> QED BY <1>1, <1>2 DEF Measures

-----------------------------------------------------------------------------
(* THE COMPARISONS: THE INVARIANT                                         *)

(* Where the slice has a dam of D, and the goroutines that are done and had *)
(* one to add.                                                             *)
Placed(D) == {i \in 1..Len(items) : items[i] \in D}
Arrived(D) == {g \in Goroutines : stage[g] = "done" /\ wanted.keys[g] \in D}

SliceInv ==
  /\ wanted \in Asks /\ found \in Findings
  /\ stage \in [Goroutines -> {"solve", "append", "write", "done"}]
  /\ \A g \in Goroutines : stage[g] \in {"append", "write"} => wanted.keys[g] # Unknown
  /\ holder \in {0} \cup Goroutines
  /\ {g \in Goroutines : stage[g] = "write"} = {holder} \ {0}
  /\ holder # 0 => seen = items
  /\ items \in Seq(KnownDams)

(* No item is lost or added twice, whatever the order: of every kind of dam *)
(* the slice has as many as there are goroutines that are done with one.    *)
CountInv == \A D \in SUBSET KnownDams : Cardinality(Placed(D)) = Cardinality(Arrived(D))

LeastSoFar(least, f) ==
  /\ least \in 0..Huge
  /\ \A i \in 1..noted : least <= OwnSize(items[i])[f]
  /\ noted = 0 => least = Huge
  /\ noted > 0 => \E i \in 1..noted : least = OwnSize(items[i])[f]

MostSoFar(most, f) ==
  /\ most \in 0..Huge
  /\ \A i \in 1..noted : most >= OwnSize(items[i])[f]
  /\ noted = 0 => most = 0
  /\ noted > 0 => \E i \in 1..noted : most = OwnSize(items[i])[f]

Summaries == [minFlow : 0..Huge, maxFlow : 0..Huge, minPressure : 0..Huge, maxPressure : 0..Huge,
              ancient : Nat, modern : Nat]

(* The loop has started only when all goroutines are done, and its summary  *)
(* is that of the items it has been over.                                  *)
SummaryInv ==
  /\ noted \in 0..Len(items)
  /\ noted > 0 => \A g \in Goroutines : stage[g] = "done"
  /\ summary \in Summaries
  /\ LeastSoFar(summary.minFlow, "flow") /\ MostSoFar(summary.maxFlow, "flow")
  /\ LeastSoFar(summary.minPressure, "pressure") /\ MostSoFar(summary.maxPressure, "pressure")
  /\ summary.ancient = Cardinality({i \in 1..noted : items[i] \in Ancient})
  /\ summary.ancient + summary.modern = noted

ReplyInv ==
  /\ reply.status \in {"none", "error", "empty", "ok"}
  /\ wanted.kind = "eras" => items = <<>>
  /\ SummaryOfAll /\ ErasAgree

ComparisonInv == SliceInv /\ CountInv /\ SummaryInv /\ ReplyInv

LEMMA SetsAreFinite ==
  ASSUME SliceInv, NEW D
  PROVE  /\ IsFiniteSet(Goroutines) /\ IsFiniteSet(Placed(D)) /\ IsFiniteSet(Arrived(D))
         /\ Cardinality(Goroutines) = Len(wanted.keys) /\ Cardinality(1..Len(items)) = Len(items)
         /\ Len(items) \in Nat /\ Len(wanted.keys) \in Nat
<1>1. PICK n \in Nat : Goroutines = 1..n /\ Len(wanted.keys) = n
  BY KeysAre DEF SliceInv
<1>2. IsFiniteSet(Goroutines) /\ Cardinality(Goroutines) = n
  BY <1>1, FS_Interval
<1>3. Len(items) \in Nat
  BY DEF SliceInv
<1>4. IsFiniteSet(1..Len(items)) /\ Cardinality(1..Len(items)) = Len(items)
  <2>1. PICK m : m = Len(items) /\ m \in Nat
    BY <1>3
  <2>2. m \in Int /\ m - 1 + 1 = m /\ (1 > m => m = 0)
    BY <2>1
  <2>3. IsFiniteSet(1..m) /\ Cardinality(1..m) = IF 1 > m THEN 0 ELSE m - 1 + 1
    BY <2>2, FS_Interval
  <2> QED BY <2>1, <2>2, <2>3
<1>5. Placed(D) \subseteq 1..Len(items) /\ Arrived(D) \subseteq Goroutines
  BY DEF Placed, Arrived
<1>6. IsFiniteSet(Placed(D)) /\ IsFiniteSet(Arrived(D))
  BY <1>2, <1>4, <1>5, FS_Subset
<1> QED BY <1>1, <1>2, <1>3, <1>4, <1>6

LEMMA OneMore ==
  ASSUME NEW S, IsFiniteSet(S), NEW x, x \notin S
  PROVE  Cardinality(S \cup {x}) = Cardinality(S) + 1
BY FS_AddElement

LEMMA ComparisonInitially == ComparisonInit => ComparisonInv
<1> SUFFICES ASSUME ComparisonInit PROVE ComparisonInv
  OBVIOUS
<1>1. PICK n \in Nat : Goroutines = 1..n
  BY KeysAre DEF ComparisonInit
<1>2. items = <<>> /\ items \in Seq(KnownDams) /\ Len(items) = 0
  BY EmptySeq DEF ComparisonInit
<1>3. SliceInv
  BY <1>1, <1>2 DEF ComparisonInit, SliceInv
<1>4. CountInv
  <2> SUFFICES ASSUME NEW D \in SUBSET KnownDams PROVE Cardinality(Placed(D)) = Cardinality(Arrived(D))
    BY DEF CountInv
  <2>1. Placed(D) = {}
    BY <1>2 DEF Placed
  <2>2. Arrived(D) = {}
    BY DEF ComparisonInit, Arrived
  <2> QED BY <2>1, <2>2
<1>5. SummaryInv
  <2>1. NoSummary \in Summaries /\ Huge \in Nat
    BY ComparisonAssumption DEF NoSummary, Summaries
  <2>2. {i \in 1..noted : items[i] \in Ancient} = {}
    BY DEF ComparisonInit
  <2>3. Cardinality({}) = 0
    BY FS_EmptySet
  <2>4. LeastSoFar(Huge, "flow") /\ LeastSoFar(Huge, "pressure") /\ MostSoFar(0, "flow") /\ MostSoFar(0, "pressure")
    BY <2>1 DEF ComparisonInit, LeastSoFar, MostSoFar
  <2> QED BY <1>2, <2>1, <2>2, <2>3, <2>4 DEF ComparisonInit, SummaryInv, NoSummary
<1>6. ReplyInv
  <2>1. reply.status = "none" /\ items = <<>>
    BY DEF ComparisonInit
  <2> QED BY <2>1 DEF ReplyInv, SummaryOfAll, ErasAgree
<1> QED BY <1>3, <1>4, <1>5, <1>6 DEF ComparisonInv

(* The summary stays while the slice changes before the loop.              *)
LEMMA SummaryStays ==
  ASSUME SummaryInv, UNCHANGED <<wanted, found, summaryVars>>,
         items' = items \/ noted = 0, noted' \in 0..Len(items)', noted > 0 => stage' = stage
  PROVE  SummaryInv'
<1>1. wanted' = wanted /\ found' = found /\ noted' = noted /\ summary' = summary /\ noted \in Nat
  BY DEF summaryVars, SummaryInv
<1>2. \A i \in 1..noted : items'[i] = items[i] /\ OwnSize(items[i])' = OwnSize(items[i])
  BY <1>1 DEF OwnSize
<1>4. LeastSoFar(summary.minFlow, "flow")' /\ LeastSoFar(summary.minPressure, "pressure")'
  BY <1>1, <1>2 DEF SummaryInv, LeastSoFar
<1>5. MostSoFar(summary.maxFlow, "flow")' /\ MostSoFar(summary.maxPressure, "pressure")'
  BY <1>1, <1>2 DEF SummaryInv, MostSoFar
<1>6. {i \in 1..noted : items'[i] \in Ancient} = {i \in 1..noted : items[i] \in Ancient}
  BY <1>2
<1>7. Goroutines' = Goroutines
  BY <1>1 DEF Goroutines
<1> QED BY <1>1, <1>4, <1>5, <1>6, <1>7 DEF SummaryInv

LEMMA UnansweredStays ==
  ASSUME reply.status = "none", reply' = reply, wanted' = wanted
  PROVE  SummaryOfAll' /\ ErasAgree'
<1>1. SummaryOfAll'
  BY DEF SummaryOfAll
<1>2. ErasAgree'
  BY DEF ErasAgree
<1> QED BY <1>1, <1>2

(* What a step of a goroutine leaves alone.                                *)
LEMMA GoesIs ==
  ASSUME ComparisonInv, NEW g \in Goroutines, NEW from, NEW to, Goes(g, from, to), from # "done"
  PROVE  /\ wanted.kind = "dams" /\ UNCHANGED <<wanted, found, summaryVars, reply>>
         /\ Goroutines' = Goroutines /\ noted = 0 /\ noted' = 0
         /\ stage[g] = from /\ stage' = [stage EXCEPT ![g] = to]
         /\ wanted.keys[g] \in KnownDams \cup {Unknown}
         /\ SummaryOfAll' /\ ErasAgree'
<1>1. reply.status = "none" /\ reply' = reply /\ wanted' = wanted
  BY DEF Goes, Unanswered
<1>2. noted = 0 /\ noted' = noted
  BY DEF Goes, summaryVars, ComparisonInv, SummaryInv
<1>3. wanted.keys[g] \in KnownDams \cup {Unknown}
  BY KeysAre DEF ComparisonInv, SliceInv, Keys
<1>4. Goroutines' = Goroutines
  BY <1>1 DEF Goroutines
<1> QED BY <1>1, <1>2, <1>3, <1>4, UnansweredStays DEF Goes, Unanswered

LEMMA SolveDamKeeps ==
  ASSUME ComparisonInv, NEW g \in Goroutines, SolveDam(g)
  PROVE  ComparisonInv'
<1> DEFINE to == IF wanted.keys[g] = Unknown THEN "done" ELSE "append"
<1>1. /\ wanted.kind = "dams" /\ UNCHANGED <<wanted, found, summaryVars, reply, holder, seen, items>>
      /\ Goroutines' = Goroutines /\ noted = 0 /\ noted' = 0
      /\ stage[g] = "solve" /\ stage' = [stage EXCEPT ![g] = to]
      /\ wanted.keys[g] \in KnownDams \cup {Unknown} /\ SummaryOfAll' /\ ErasAgree'
  <2>1. Goes(g, "solve", to) /\ UNCHANGED <<holder, seen, items>>
    BY DEF SolveDam
  <2> QED BY <2>1, GoesIs
<1>2. SliceInv'
  <2>1. stage' \in [Goroutines -> {"solve", "append", "write", "done"}]
    BY <1>1 DEF ComparisonInv, SliceInv
  <2>2. \A h \in Goroutines : stage'[h] \in {"append", "write"} => wanted.keys[h] # Unknown
    BY <1>1 DEF ComparisonInv, SliceInv
  <2>3. {h \in Goroutines : stage'[h] = "write"} = {h \in Goroutines : stage[h] = "write"}
    BY <1>1 DEF ComparisonInv, SliceInv
  <2> QED BY <1>1, <2>1, <2>2, <2>3 DEF ComparisonInv, SliceInv
<1>3. CountInv'
  <2> SUFFICES ASSUME NEW D \in SUBSET KnownDams PROVE (Cardinality(Placed(D)) = Cardinality(Arrived(D)))'
    BY DEF CountInv
  <2>1. Placed(D)' = Placed(D)
    BY <1>1 DEF Placed
  <2>2. Arrived(D)' = Arrived(D)
    <3>1. Unknown \notin D
      BY ComparisonAssumption
    <3> QED BY <1>1, <3>1 DEF Arrived, ComparisonInv, SliceInv
  <2> QED BY <2>1, <2>2 DEF ComparisonInv, CountInv
<1>4. SummaryInv'
  BY <1>1, SummaryStays DEF ComparisonInv, SummaryInv
<1> QED BY <1>1, <1>2, <1>3, <1>4 DEF ComparisonInv, ReplyInv

LEMMA LockItemsKeeps ==
  ASSUME ComparisonInv, NEW g \in Goroutines, LockItems(g)
  PROVE  ComparisonInv'
<1>1. /\ wanted.kind = "dams" /\ UNCHANGED <<wanted, found, summaryVars, reply, items>>
      /\ Goroutines' = Goroutines /\ noted = 0 /\ noted' = 0
      /\ stage[g] = "append" /\ stage' = [stage EXCEPT ![g] = "write"]
      /\ holder = 0 /\ holder' = g /\ seen' = items
      /\ SummaryOfAll' /\ ErasAgree'
  <2>1. Goes(g, "append", "write") /\ holder = 0 /\ holder' = g /\ seen' = items /\ UNCHANGED items
    BY DEF LockItems, MayLock
  <2> QED BY <2>1, GoesIs
<1>2. SliceInv'
  <2>1. stage' \in [Goroutines -> {"solve", "append", "write", "done"}]
    BY <1>1 DEF ComparisonInv, SliceInv
  <2>2. \A h \in Goroutines : stage'[h] \in {"append", "write"} => wanted.keys[h] # Unknown
    BY <1>1 DEF ComparisonInv, SliceInv
  <2>3. g # 0
    BY KeysAre DEF ComparisonInv, SliceInv
  <2>4. {h \in Goroutines : stage[h] = "write"} = {}
    BY <1>1 DEF ComparisonInv, SliceInv
  <2>5. {h \in Goroutines : stage'[h] = "write"} = {g}
    BY <1>1, <2>4 DEF ComparisonInv, SliceInv
  <2> QED BY <1>1, <2>1, <2>2, <2>3, <2>5 DEF ComparisonInv, SliceInv
<1>3. CountInv'
  <2> SUFFICES ASSUME NEW D \in SUBSET KnownDams PROVE (Cardinality(Placed(D)) = Cardinality(Arrived(D)))'
    BY DEF CountInv
  <2>1. Placed(D)' = Placed(D)
    BY <1>1 DEF Placed
  <2>2. Arrived(D)' = Arrived(D)
    BY <1>1 DEF Arrived, ComparisonInv, SliceInv
  <2> QED BY <2>1, <2>2 DEF ComparisonInv, CountInv
<1>4. SummaryInv'
  BY <1>1, SummaryStays DEF ComparisonInv, SummaryInv
<1> QED BY <1>1, <1>2, <1>3, <1>4 DEF ComparisonInv, ReplyInv

LEMMA AppendItemKeeps ==
  ASSUME ComparisonInv, NEW g \in Goroutines, AppendItem(g)
  PROVE  ComparisonInv'
<1>1. /\ wanted.kind = "dams" /\ UNCHANGED <<wanted, found, summaryVars, reply, seen>>
      /\ Goroutines' = Goroutines /\ noted = 0 /\ noted' = 0
      /\ stage[g] = "write" /\ stage' = [stage EXCEPT ![g] = "done"]
      /\ wanted.keys[g] \in KnownDams \cup {Unknown}
      /\ holder' = 0 /\ items' = Append(seen, wanted.keys[g])
      /\ SummaryOfAll' /\ ErasAgree'
  <2>1. Goes(g, "write", "done") /\ holder' = 0 /\ items' = Append(seen, wanted.keys[g]) /\ UNCHANGED seen
    BY DEF AppendItem
  <2> QED BY <2>1, GoesIs
<1>2. holder = g /\ g # 0 /\ seen = items
  <2>1. g \in {holder} \ {0}
    BY <1>1 DEF ComparisonInv, SliceInv
  <2> QED BY <2>1 DEF ComparisonInv, SliceInv
<1>3. PICK d \in KnownDams : d = wanted.keys[g]
  BY <1>1 DEF ComparisonInv, SliceInv
<1>4. /\ items \in Seq(KnownDams) /\ Len(items) \in Nat
      /\ items' \in Seq(KnownDams) /\ Len(items') = Len(items) + 1
      /\ \A i \in 1..Len(items) : items'[i] = items[i]
      /\ items'[Len(items) + 1] = d
  BY <1>1, <1>2, <1>3, AppendProperties DEF ComparisonInv, SliceInv
<1>5. SliceInv'
  <2>1. stage' \in [Goroutines -> {"solve", "append", "write", "done"}]
    BY <1>1 DEF ComparisonInv, SliceInv
  <2>2. \A h \in Goroutines : stage'[h] \in {"append", "write"} => wanted.keys[h] # Unknown
    BY <1>1 DEF ComparisonInv, SliceInv
  <2>3. {h \in Goroutines : stage[h] = "write"} = {g}
    BY <1>2 DEF ComparisonInv, SliceInv
  <2>4. {h \in Goroutines : stage'[h] = "write"} = {}
    BY <1>1, <2>3 DEF ComparisonInv, SliceInv
  <2> QED BY <1>1, <1>4, <2>1, <2>2, <2>4 DEF ComparisonInv, SliceInv
<1>6. CountInv'
  <2> SUFFICES ASSUME NEW D \in SUBSET KnownDams PROVE Cardinality(Placed(D)') = Cardinality(Arrived(D)')
    BY DEF CountInv
  <2>1. Cardinality(Placed(D)) = Cardinality(Arrived(D))
    BY DEF ComparisonInv, CountInv
  <2>2. IsFiniteSet(Placed(D)) /\ IsFiniteSet(Arrived(D))
    BY SetsAreFinite DEF ComparisonInv
  <2>3. CASE d \in D
    <3>1. Placed(D)' = Placed(D) \cup {Len(items) + 1} /\ Len(items) + 1 \notin Placed(D)
      BY <1>4, <2>3 DEF Placed
    <3>2. Arrived(D)' = Arrived(D) \cup {g} /\ g \notin Arrived(D)
      BY <1>1, <1>3, <2>3 DEF Arrived, ComparisonInv, SliceInv
    <3> QED BY <2>1, <2>2, <3>1, <3>2, OneMore
  <2>4. CASE d \notin D
    <3>1. Placed(D)' = Placed(D)
      BY <1>4, <2>4 DEF Placed
    <3>2. Arrived(D)' = Arrived(D)
      BY <1>1, <1>3, <2>4 DEF Arrived, ComparisonInv, SliceInv
    <3> QED BY <2>1, <3>1, <3>2
  <2> QED BY <2>3, <2>4
<1>7. SummaryInv'
  BY <1>1, <1>4, SummaryStays DEF ComparisonInv, SummaryInv
<1> QED BY <1>1, <1>5, <1>6, <1>7 DEF ComparisonInv, ReplyInv

(* When all are done: as many items as valid keys, and the same dams.       *)
LEMMA AllArrived ==
  ASSUME ComparisonInv, Collected
  PROVE  LET valid == {g \in Goroutines : wanted.keys[g] # Unknown}
         IN /\ Len(items) = Cardinality(valid) /\ IsFiniteSet(valid)
            /\ \A D \in SUBSET KnownDams : Cardinality(Placed(D)) = Cardinality({g \in valid : wanted.keys[g] \in D})
            /\ \A i \in 1..Len(items) : items[i] \in KnownDams /\ \E g \in valid : wanted.keys[g] = items[i]
            /\ \A g \in valid : wanted.keys[g] \in KnownDams /\ \E i \in 1..Len(items) : wanted.keys[g] = items[i]
<1> DEFINE valid == {g \in Goroutines : wanted.keys[g] # Unknown}
<1>1. \A g \in Goroutines : stage[g] = "done" /\ wanted.keys[g] \in KnownDams \cup {Unknown}
  BY KeysAre DEF Collected, ComparisonInv, SliceInv, Keys
<1>2. \A D \in SUBSET KnownDams : Arrived(D) = {g \in valid : wanted.keys[g] \in D}
  BY <1>1, ComparisonAssumption DEF Arrived
<1>3. \A D \in SUBSET KnownDams : Cardinality(Placed(D)) = Cardinality({g \in valid : wanted.keys[g] \in D})
  BY <1>2 DEF ComparisonInv, CountInv
<1>4. \A i \in 1..Len(items) : items[i] \in KnownDams
  BY DEF ComparisonInv, SliceInv
<1>5. Placed(KnownDams) = 1..Len(items) /\ Arrived(KnownDams) = valid
  BY <1>1, <1>4, ComparisonAssumption DEF Placed, Arrived
<1>6. Len(items) = Cardinality(valid) /\ IsFiniteSet(valid)
  <2>1. Cardinality(1..Len(items)) = Len(items) /\ IsFiniteSet(Arrived(KnownDams))
    BY SetsAreFinite DEF ComparisonInv
  <2>2. Cardinality(Placed(KnownDams)) = Cardinality(Arrived(KnownDams))
    BY DEF ComparisonInv, CountInv
  <2> QED BY <1>5, <2>1, <2>2
<1>7. ASSUME NEW d \in KnownDams PROVE Placed({d}) = {} <=> Arrived({d}) = {}
  <2>1. IsFiniteSet(Placed({d})) /\ IsFiniteSet(Arrived({d}))
    BY SetsAreFinite DEF ComparisonInv
  <2>2. Cardinality(Placed({d})) = Cardinality(Arrived({d}))
    BY DEF ComparisonInv, CountInv
  <2> QED BY <2>1, <2>2, FS_EmptySet
<1>8. ASSUME NEW i \in 1..Len(items) PROVE \E g \in valid : wanted.keys[g] = items[i]
  <2>1. i \in Placed({items[i]})
    BY DEF Placed
  <2>2. Arrived({items[i]}) # {}
    BY <1>4, <1>7, <2>1
  <2> QED BY <1>2, <1>4, <2>2
<1>9. ASSUME NEW g \in valid PROVE wanted.keys[g] \in KnownDams /\ \E i \in 1..Len(items) : wanted.keys[g] = items[i]
  <2>1. wanted.keys[g] \in KnownDams
    BY <1>1
  <2>2. g \in Arrived({wanted.keys[g]})
    BY <1>1 DEF Arrived
  <2>3. Placed({wanted.keys[g]}) # {}
    BY <1>7, <2>1, <2>2
  <2> QED BY <2>1, <2>3 DEF Placed
<1> QED BY <1>3, <1>4, <1>6, <1>8, <1>9

(* One turn of the loop, for a least and for a greatest figure.             *)
LEMMA TurnOfLoop ==
  ASSUME ComparisonInv, NoteItem
  PROVE  LET d == items[noted + 1]
         IN /\ UNCHANGED <<wanted, found, sliceVars, reply>> /\ noted' = noted + 1
            /\ noted \in Nat /\ noted + 1 \in 1..Len(items) /\ d \in KnownDams
            /\ \A i \in 1..noted + 1 : OwnSize(items[i])' = OwnSize(items[i]) /\ items'[i] = items[i]
            /\ 1..noted + 1 = 1..noted \cup {noted + 1}
            /\ OwnSize(d) \in Measures
<1>1. items \in Seq(KnownDams) /\ Len(items) \in Nat /\ noted \in 0..Len(items) /\ noted < Len(items)
  BY DEF ComparisonInv, SliceInv, SummaryInv, NoteItem
<1>2. UNCHANGED <<wanted, found, sliceVars, reply>> /\ items' = items /\ found' = found
  BY DEF NoteItem, sliceVars
<1>3. noted \in Nat /\ noted + 1 \in 1..Len(items) /\ items[noted + 1] \in KnownDams
  BY <1>1
<1>4. 1..noted + 1 = 1..noted \cup {noted + 1}
  BY <1>3
<1>5. OwnSize(items[noted + 1]) \in Measures
  BY <1>3, FoundAre DEF ComparisonInv, SliceInv
<1> QED BY <1>2, <1>3, <1>4, <1>5 DEF OwnSize, NoteItem

LEMMA LeastGoesOn ==
  ASSUME ComparisonInv, NoteItem, NEW f \in {"flow", "pressure"}, NEW least, NEW next, LeastSoFar(least, f),
         next = IF OwnSize(items[noted + 1])[f] < least THEN OwnSize(items[noted + 1])[f] ELSE least
  PROVE  LeastSoFar(next, f)'
<1>1. Huge \in Nat
  BY ComparisonAssumption
<1>2. PICK v \in 0..Huge : v = OwnSize(items[noted + 1])[f]
  BY TurnOfLoop DEF Measures
<1>3. /\ noted \in Nat /\ 1..noted + 1 = 1..noted \cup {noted + 1}
      /\ \A i \in 1..noted : OwnSize(items[i])[f] \in 0..Huge
  <2>1. \A i \in 1..noted : items[i] \in KnownDams
    BY TurnOfLoop DEF ComparisonInv, SliceInv, SummaryInv
  <2>2. \A i \in 1..noted : OwnSize(items[i]) \in Measures
    BY <2>1, FoundAre DEF ComparisonInv, SliceInv
  <2> QED BY <2>2, TurnOfLoop DEF Measures
<1>4. least \in 0..Huge /\ \A i \in 1..noted : least <= OwnSize(items[i])[f]
  BY DEF LeastSoFar
<1>5. next \in 0..Huge /\ next <= v /\ next <= least /\ next \in {v, least}
  BY <1>1, <1>2, <1>4
<1>6. \A i \in 1..noted + 1 : next <= OwnSize(items[i])[f]
  <2>1. \A i \in 1..noted : next <= OwnSize(items[i])[f]
    BY <1>1, <1>3, <1>4, <1>5
  <2> QED BY <1>2, <1>3, <1>5, <2>1
<1>7. \E i \in 1..noted + 1 : next = OwnSize(items[i])[f]
  <2>1. CASE next = v
    BY <1>2, <1>3, <2>1
  <2>2. CASE next = least /\ next # v
    <3>1. noted # 0
      BY <1>1, <1>2, <1>5, <2>2 DEF LeastSoFar
    <3> QED BY <1>3, <2>2, <3>1 DEF LeastSoFar
  <2> QED BY <1>5, <2>1, <2>2
<1> QED
  <2>1. /\ noted' = noted + 1 /\ noted' > 0
        /\ \A i \in 1..noted + 1 : OwnSize(items[i])' = OwnSize(items[i])
    BY <1>3, TurnOfLoop
  <2> QED BY <1>5, <1>6, <1>7, <2>1 DEF LeastSoFar

LEMMA MostGoesOn ==
  ASSUME ComparisonInv, NoteItem, NEW f \in {"flow", "pressure"}, NEW most, NEW next, MostSoFar(most, f),
         next = IF OwnSize(items[noted + 1])[f] > most THEN OwnSize(items[noted + 1])[f] ELSE most
  PROVE  MostSoFar(next, f)'
<1>1. Huge \in Nat
  BY ComparisonAssumption
<1>2. PICK v \in 0..Huge : v = OwnSize(items[noted + 1])[f]
  BY TurnOfLoop DEF Measures
<1>3. /\ noted \in Nat /\ 1..noted + 1 = 1..noted \cup {noted + 1}
      /\ \A i \in 1..noted : OwnSize(items[i])[f] \in 0..Huge
  <2>1. \A i \in 1..noted : items[i] \in KnownDams
    BY TurnOfLoop DEF ComparisonInv, SliceInv, SummaryInv
  <2>2. \A i \in 1..noted : OwnSize(items[i]) \in Measures
    BY <2>1, FoundAre DEF ComparisonInv, SliceInv
  <2> QED BY <2>2, TurnOfLoop DEF Measures
<1>4. most \in 0..Huge /\ \A i \in 1..noted : most >= OwnSize(items[i])[f]
  BY DEF MostSoFar
<1>5. next \in 0..Huge /\ next >= v /\ next >= most /\ next \in {v, most}
  BY <1>1, <1>2, <1>4
<1>6. \A i \in 1..noted + 1 : next >= OwnSize(items[i])[f]
  <2>1. \A i \in 1..noted : next >= OwnSize(items[i])[f]
    BY <1>1, <1>3, <1>4, <1>5
  <2> QED BY <1>2, <1>3, <1>5, <2>1
<1>7. \E i \in 1..noted + 1 : next = OwnSize(items[i])[f]
  <2>1. CASE next = v
    BY <1>2, <1>3, <2>1
  <2>2. CASE next = most /\ next # v
    <3>1. noted # 0
      BY <1>1, <1>2, <1>5, <2>2 DEF MostSoFar
    <3> QED BY <1>3, <2>2, <3>1 DEF MostSoFar
  <2> QED BY <1>5, <2>1, <2>2
<1> QED
  <2>1. /\ noted' = noted + 1 /\ noted' > 0
        /\ \A i \in 1..noted + 1 : OwnSize(items[i])' = OwnSize(items[i])
    BY <1>3, TurnOfLoop
  <2> QED BY <1>5, <1>6, <1>7, <2>1 DEF MostSoFar

LEMMA NoteItemKeeps ==
  ASSUME ComparisonInv, NoteItem
  PROVE  ComparisonInv'
<1> DEFINE d == items[noted + 1]
<1>1. /\ UNCHANGED <<wanted, found, stage, holder, seen, items, reply>> /\ noted' = noted + 1
      /\ noted \in Nat /\ noted + 1 \in 1..Len(items) /\ d \in KnownDams
      /\ 1..noted + 1 = 1..noted \cup {noted + 1}
  BY TurnOfLoop DEF sliceVars
<1>2. Goroutines' = Goroutines /\ \A g \in Goroutines : stage[g] = "done"
  BY <1>1 DEF NoteItem, Collected, Goroutines
<1>3. PICK s \in Summaries : s = summary
  BY DEF ComparisonInv, SummaryInv
<1>4. PICK leak \in 0..Huge, push \in 0..Huge :
        /\ leak = OwnSize(d).flow /\ push = OwnSize(d).pressure
        /\ leak = OwnSize(d)["flow"] /\ push = OwnSize(d)["pressure"]
  BY TurnOfLoop DEF Measures
<1>5. /\ summary'.minFlow = IF leak < s.minFlow THEN leak ELSE s.minFlow
      /\ summary'.maxFlow = IF leak > s.maxFlow THEN leak ELSE s.maxFlow
      /\ summary'.minPressure = IF push < s.minPressure THEN push ELSE s.minPressure
      /\ summary'.maxPressure = IF push > s.maxPressure THEN push ELSE s.maxPressure
      /\ summary'.ancient = IF d \in Ancient THEN s.ancient + 1 ELSE s.ancient
      /\ summary'.modern = IF d \in Ancient THEN s.modern ELSE s.modern + 1
      /\ summary' = [minFlow |-> summary'.minFlow, maxFlow |-> summary'.maxFlow,
                     minPressure |-> summary'.minPressure, maxPressure |-> summary'.maxPressure,
                     ancient |-> summary'.ancient, modern |-> summary'.modern]
  <2>1. summary' = Noted(s, d)
    BY <1>3 DEF NoteItem
  <2> HIDE DEF d
  <2> QED BY <1>4, <2>1 DEF Noted
<1>6. LeastSoFar(summary.minFlow, "flow")' /\ summary'.minFlow \in 0..Huge
  <2>1. PICK x : x = summary'.minFlow
    OBVIOUS
  <2>2. LeastSoFar(s.minFlow, "flow")
    BY <1>3 DEF ComparisonInv, SummaryInv
  <2>3. LeastSoFar(x, "flow")'
    BY <1>4, <1>5, <2>1, <2>2, LeastGoesOn
  <2> QED BY <2>1, <2>3 DEF LeastSoFar
<1>7. MostSoFar(summary.maxFlow, "flow")' /\ summary'.maxFlow \in 0..Huge
  <2>1. PICK x : x = summary'.maxFlow
    OBVIOUS
  <2>2. MostSoFar(s.maxFlow, "flow")
    BY <1>3 DEF ComparisonInv, SummaryInv
  <2>3. MostSoFar(x, "flow")'
    BY <1>4, <1>5, <2>1, <2>2, MostGoesOn
  <2> QED BY <2>1, <2>3 DEF MostSoFar
<1>8. LeastSoFar(summary.minPressure, "pressure")' /\ summary'.minPressure \in 0..Huge
  <2>1. PICK x : x = summary'.minPressure
    OBVIOUS
  <2>2. LeastSoFar(s.minPressure, "pressure")
    BY <1>3 DEF ComparisonInv, SummaryInv
  <2>3. LeastSoFar(x, "pressure")'
    BY <1>4, <1>5, <2>1, <2>2, LeastGoesOn
  <2> QED BY <2>1, <2>3 DEF LeastSoFar
<1>9. MostSoFar(summary.maxPressure, "pressure")' /\ summary'.maxPressure \in 0..Huge
  <2>1. PICK x : x = summary'.maxPressure
    OBVIOUS
  <2>2. MostSoFar(s.maxPressure, "pressure")
    BY <1>3 DEF ComparisonInv, SummaryInv
  <2>3. MostSoFar(x, "pressure")'
    BY <1>4, <1>5, <2>1, <2>2, MostGoesOn
  <2> QED BY <2>1, <2>3 DEF MostSoFar
<1>10. /\ summary'.ancient = Cardinality({i \in 1..noted' : items'[i] \in Ancient})
       /\ summary'.ancient + summary'.modern = noted' /\ summary'.ancient \in Nat /\ summary'.modern \in Nat
  <2> DEFINE old == {i \in 1..noted : items[i] \in Ancient}
  <2>1. s.ancient \in Nat /\ s.modern \in Nat /\ s.ancient + s.modern = noted /\ s.ancient = Cardinality(old)
    BY <1>3 DEF ComparisonInv, SummaryInv, Summaries
  <2>2. IsFiniteSet(old)
    <3>1. IsFiniteSet(1..noted)
      BY <1>1, FS_Interval
    <3>2. old \subseteq 1..noted
      OBVIOUS
    <3> HIDE DEF old
    <3> QED BY <3>1, <3>2, FS_Subset
  <2> DEFINE new == {i \in 1..noted + 1 : items[i] \in Ancient}
  <2>3. {i \in 1..noted' : items'[i] \in Ancient} = new
    BY <1>1
  <2>4. CASE d \in Ancient
    <3>1. new = old \cup {noted + 1} /\ noted + 1 \notin old
      BY <1>1, <2>4
    <3> HIDE DEF old, new
    <3>2. Cardinality(old \cup {noted + 1}) = Cardinality(old) + 1
      BY <2>2, <3>1, OneMore
    <3>3. s.ancient + 1 = Cardinality(new) /\ s.ancient + 1 + s.modern = noted + 1
      BY <1>1, <2>1, <3>1, <3>2
    <3>4. summary'.ancient = s.ancient + 1 /\ summary'.modern = s.modern
      BY <1>5, <2>4
    <3>5. summary'.ancient = Cardinality(new) /\ summary'.ancient + summary'.modern = noted'
      BY <1>1, <3>3, <3>4
    <3>6. summary'.ancient \in Nat /\ summary'.modern \in Nat
      BY <2>1, <3>4
    <3> QED BY <2>3, <3>5, <3>6
  <2>5. CASE d \notin Ancient
    <3>1. new = old
      BY <1>1, <2>5
    <3> HIDE DEF old, new
    <3>2. s.ancient = Cardinality(new) /\ s.ancient + (s.modern + 1) = noted + 1
      BY <1>1, <2>1, <3>1
    <3>3. summary'.ancient = s.ancient /\ summary'.modern = s.modern + 1
      BY <1>5, <2>5
    <3>4. summary'.ancient = Cardinality(new) /\ summary'.ancient + summary'.modern = noted'
      BY <1>1, <3>2, <3>3
    <3>5. summary'.ancient \in Nat /\ summary'.modern \in Nat
      BY <2>1, <3>3
    <3> QED BY <2>3, <3>4, <3>5
  <2> QED BY <2>4, <2>5
<1>11. summary' \in Summaries
  <2> DEFINE t == summary'
  <2>1. /\ t.minFlow \in 0..Huge /\ t.maxFlow \in 0..Huge /\ t.minPressure \in 0..Huge /\ t.maxPressure \in 0..Huge
        /\ t.ancient \in Nat /\ t.modern \in Nat
    BY <1>6, <1>7, <1>8, <1>9, <1>10
  <2>2. t = [minFlow |-> t.minFlow, maxFlow |-> t.maxFlow, minPressure |-> t.minPressure,
             maxPressure |-> t.maxPressure, ancient |-> t.ancient, modern |-> t.modern]
    BY <1>5
  <2> HIDE DEF t
  <2>3. t \in Summaries
    BY <2>1, <2>2 DEF Summaries
  <2> QED BY <2>3 DEF t
<1>12. SummaryInv'
  <2>1. noted' \in 0..Len(items') /\ (noted' > 0 => \A g \in Goroutines' : stage'[g] = "done")
    BY <1>1, <1>2
  <2> QED BY <1>6, <1>7, <1>8, <1>9, <1>10, <1>11, <2>1 DEF SummaryInv
<1>13. SliceInv' /\ CountInv'
  <2>1. SliceInv'
    BY <1>1, <1>2 DEF ComparisonInv, SliceInv
  <2>2. CountInv'
    BY <1>1, <1>2 DEF ComparisonInv, CountInv, Placed, Arrived
  <2> QED BY <2>1, <2>2
<1>14. ReplyInv'
  <2>1. reply.status = "none"
    BY DEF NoteItem, Collected, Unanswered
  <2> QED BY <1>1, <2>1, UnansweredStays DEF ComparisonInv, ReplyInv
<1> QED BY <1>12, <1>13, <1>14 DEF ComparisonInv

LEMMA MinAndMaxAre ==
  ASSUME NEW S \in SUBSET Int, NEW m \in S
  PROVE  /\ (\A x \in S : m <= x) => Min(S) = m
         /\ (\A x \in S : m >= x) => Max(S) = m
<1>1. ASSUME \A x \in S : m <= x PROVE Min(S) = m
  <2>1. \A y \in S : (\A x \in S : y <= x) => y = m
    BY <1>1
  <2> QED BY <1>1, <2>1 DEF Min
<1>2. ASSUME \A x \in S : m >= x PROVE Max(S) = m
  <2>1. \A y \in S : (\A x \in S : y >= x) => y = m
    BY <1>2
  <2> QED BY <1>2, <2>1 DEF Max
<1> QED BY <1>1, <1>2

LEMMA AnsweringKeeps ==
  ASSUME ComparisonInv, UNCHANGED <<wanted, found, sliceVars, summaryVars>>,
         reply'.status \in {"error", "empty", "ok"}, SummaryOfAll', ErasAgree'
  PROVE  ComparisonInv'
<1>1. UNCHANGED <<wanted, found, stage, holder, seen, items, noted, summary>> /\ Goroutines' = Goroutines
  BY DEF sliceVars, summaryVars, Goroutines
<1>2. SliceInv'
  BY <1>1 DEF ComparisonInv, SliceInv
<1>3. CountInv'
  BY <1>1 DEF ComparisonInv, CountInv, Placed, Arrived
<1>4. SummaryInv'
  BY <1>1, SummaryStays DEF ComparisonInv, SummaryInv
<1>5. ReplyInv'
  BY <1>1 DEF ComparisonInv, ReplyInv
<1> QED BY <1>2, <1>3, <1>4, <1>5 DEF ComparisonInv

(* A request is refused when fewer than two keys have a preset.             *)
LEMMA RefusingKeeps ==
  ASSUME ComparisonInv, wanted.kind = "dams", UNCHANGED <<wanted, found, sliceVars, summaryVars>>,
         reply' = Refused, Cardinality({g \in Goroutines : wanted.keys[g] # Unknown}) < 2
  PROVE  ComparisonInv'
<1>1. reply'.status = "error" /\ Goroutines' = Goroutines /\ wanted' = wanted
  BY DEF Refused, Goroutines
<1>2. SummaryOfAll'
  BY <1>1 DEF SummaryOfAll
<1>3. ErasAgree'
  BY <1>1 DEF ErasAgree
<1> QED BY <1>1, <1>2, <1>3, AnsweringKeeps

LEMMA TooFewKeysKeeps ==
  ASSUME ComparisonInv, TooFewKeys
  PROVE  ComparisonInv'
<1> DEFINE valid == {g \in Goroutines : wanted.keys[g] # Unknown}
<1>1. IsFiniteSet(Goroutines) /\ Cardinality(Goroutines) < 2
  BY SetsAreFinite DEF ComparisonInv, TooFewKeys
<1>2. valid \subseteq Goroutines
  OBVIOUS
<1>3. Cardinality(valid) \in Nat /\ Cardinality(valid) <= Cardinality(Goroutines) /\ Cardinality(Goroutines) \in Nat
  <2> HIDE DEF valid
  <2> QED BY <1>1, <1>2, FS_Subset, FS_CardinalityType
<1>4. Cardinality(valid) < 2
  BY <1>1, <1>3
<1> QED BY <1>4, RefusingKeeps DEF TooFewKeys, Unanswered

LEMMA TooFewItemsKeeps ==
  ASSUME ComparisonInv, TooFewItems
  PROVE  ComparisonInv'
<1>1. Cardinality({g \in Goroutines : wanted.keys[g] # Unknown}) < 2
  BY AllArrived DEF TooFewItems
<1> QED BY <1>1, RefusingKeeps DEF TooFewItems, Collected, Unanswered

(* The figures of the summary are those of the dams with a preset.          *)
LEMMA SummaryIsOfAll ==
  ASSUME ComparisonInv, AnswerDams
  PROVE  LET valid     == {g \in Goroutines : wanted.keys[g] # Unknown}
             values(f) == {OwnSize(wanted.keys[g])[f] : g \in valid}
         IN /\ summary.minFlow \in values("flow")
            /\ summary.minFlow = Min(values("flow")) /\ summary.maxFlow = Max(values("flow"))
            /\ summary.minPressure = Min(values("pressure")) /\ summary.maxPressure = Max(values("pressure"))
            /\ summary.ancient = Cardinality({g \in valid : wanted.keys[g] \in Ancient})
            /\ summary.ancient + summary.modern = Cardinality(valid)
<1> DEFINE valid == {g \in Goroutines : wanted.keys[g] # Unknown}
           values(f) == {OwnSize(wanted.keys[g])[f] : g \in valid}
<1>1. Collected /\ noted = Len(items) /\ noted > 0 /\ noted \in Nat
  BY DEF AnswerDams, ComparisonInv, SliceInv
<1>2. \A f : values(f) = {OwnSize(items[i])[f] : i \in 1..noted}
  <2>1. \A i \in 1..noted : \E g \in valid : wanted.keys[g] = items[i]
    BY <1>1, AllArrived
  <2>2. \A g \in valid : \E i \in 1..noted : wanted.keys[g] = items[i]
    BY <1>1, AllArrived
  <2> QED BY <2>1, <2>2
<1>3. ASSUME NEW f \in {"flow", "pressure"} PROVE values(f) \in SUBSET Int
  <2>1. \A g \in valid : wanted.keys[g] \in KnownDams
    BY <1>1, AllArrived
  <2>2. \A g \in valid : OwnSize(wanted.keys[g]) \in Measures
    BY <2>1, FoundAre DEF ComparisonInv, SliceInv
  <2>3. \A g \in valid : OwnSize(wanted.keys[g])[f] \in 0..Huge
    BY <2>2 DEF Measures
  <2>4. 0..Huge \subseteq Int
    BY ComparisonAssumption
  <2> QED BY <2>3, <2>4
<1>4. ASSUME NEW f \in {"flow", "pressure"}, NEW x, LeastSoFar(x, f) PROVE x \in values(f) /\ x = Min(values(f))
  <2> HIDE DEF values
  <2> DEFINE all == {OwnSize(items[i])[f] : i \in 1..noted}
  <2>1. values(f) = all
    BY <1>2
  <2>2. x \in all /\ \A y \in all : x <= y
    BY <1>1, <1>4 DEF LeastSoFar
  <2> HIDE DEF all
  <2> QED BY <1>3, <2>1, <2>2, MinAndMaxAre
<1>5. ASSUME NEW f \in {"flow", "pressure"}, NEW x, MostSoFar(x, f) PROVE x = Max(values(f))
  <2> HIDE DEF values
  <2> DEFINE all == {OwnSize(items[i])[f] : i \in 1..noted}
  <2>1. values(f) = all
    BY <1>2
  <2>2. x \in all /\ \A y \in all : x >= y
    BY <1>1, <1>5 DEF MostSoFar
  <2> HIDE DEF all
  <2> QED BY <1>3, <2>1, <2>2, MinAndMaxAre
<1>6. summary.ancient = Cardinality({g \in valid : wanted.keys[g] \in Ancient})
  <2>1. {i \in 1..noted : items[i] \in Ancient} = Placed(Ancient)
    BY <1>1 DEF Placed
  <2>2. Cardinality(Placed(Ancient)) = Cardinality({g \in valid : wanted.keys[g] \in Ancient})
    BY <1>1, AllArrived, ComparisonAssumption
  <2> QED BY <2>1, <2>2 DEF ComparisonInv, SummaryInv
<1>7. summary.ancient + summary.modern = Cardinality(valid)
  BY <1>1, AllArrived DEF ComparisonInv, SummaryInv
<1>8. /\ LeastSoFar(summary.minFlow, "flow") /\ MostSoFar(summary.maxFlow, "flow")
      /\ LeastSoFar(summary.minPressure, "pressure") /\ MostSoFar(summary.maxPressure, "pressure")
  BY DEF ComparisonInv, SummaryInv
<1> HIDE DEF valid, values
<1>9. /\ summary.minFlow \in values("flow") /\ summary.minFlow = Min(values("flow"))
      /\ summary.maxFlow = Max(values("flow"))
      /\ summary.minPressure = Min(values("pressure")) /\ summary.maxPressure = Max(values("pressure"))
  BY <1>4, <1>5, <1>8
<1> USE DEF valid, values
<1> QED BY <1>6, <1>7, <1>9

LEMMA AnswerDamsKeeps ==
  ASSUME ComparisonInv, AnswerDams
  PROVE  ComparisonInv'
<1>1. /\ wanted.kind = "dams" /\ Collected /\ UNCHANGED <<wanted, found, sliceVars, summaryVars>>
      /\ reply' = Encoded({summary.minFlow}, [items |-> items, summary |-> summary, insights |-> Insights(summary)])
  BY DEF AnswerDams, Collected, Unanswered
<1>2. wanted' = wanted /\ Goroutines' = Goroutines /\ \A d : OwnSize(d)' = OwnSize(d)
  BY <1>1 DEF Goroutines, OwnSize
<1> DEFINE valid == {g \in Goroutines : wanted.keys[g] # Unknown}
           values(f) == {OwnSize(wanted.keys[g])[f] : g \in valid}
<1>3. valid' = valid /\ values("flow")' = values("flow") /\ values("pressure")' = values("pressure")
  BY <1>2
<1>4. CASE summary.minFlow = 0
  <2>1. reply'.status = "empty"
    BY <1>1, <1>4 DEF Encoded
  <2>2. 0 \in values("flow")
    BY <1>4, SummaryIsOfAll
  <2>3. 0 \in values("flow")'
    BY <1>3, <2>2
  <2>4. SummaryOfAll'
    BY <2>1, <2>3 DEF SummaryOfAll
  <2>5. ErasAgree'
    BY <1>1, <1>2 DEF ErasAgree
  <2> QED BY <1>1, <2>1, <2>4, <2>5, AnsweringKeeps
<1>5. CASE summary.minFlow # 0
  <2>1. reply'.status = "ok" /\ reply'.body.items = items /\ reply'.body.summary = summary
    BY <1>1, <1>5 DEF Encoded
  <2> DEFINE s == reply.body.summary
             placed(d) == {i \in DOMAIN reply.body.items : reply.body.items[i] = d}
             given(d) == {g \in valid : wanted.keys[g] = d}
  <2>2. ASSUME NEW d \in KnownDams PROVE (Cardinality(placed(d)) = Cardinality(given(d)))'
    <3>1. placed(d)' = Placed({d})
      BY <2>1 DEF Placed, ComparisonInv, SliceInv
    <3>2. given(d)' = {g \in valid : wanted.keys[g] \in {d}}
      BY <1>2, <1>3
    <3>3. Cardinality(Placed({d})) = Cardinality({g \in valid : wanted.keys[g] \in {d}})
      BY <1>1, AllArrived
    <3> QED BY <3>1, <3>2, <3>3
  <2>3. /\ s'.minFlow = Min(values("flow")') /\ s'.maxFlow = Max(values("flow")')
        /\ s'.minPressure = Min(values("pressure")') /\ s'.maxPressure = Max(values("pressure")')
    BY <1>3, <2>1, SummaryIsOfAll
  <2>4. /\ s'.ancient = Cardinality({g \in valid : wanted.keys[g] \in Ancient}')
        /\ s'.ancient + s'.modern = Cardinality(valid')
    <3>1. {g \in valid : wanted.keys[g] \in Ancient}' = {g \in valid : wanted.keys[g] \in Ancient}
      BY <1>2, <1>3
    <3> QED BY <1>3, <2>1, <3>1, SummaryIsOfAll
  <2>5. SummaryOfAll'
    BY <2>1, <2>2, <2>3, <2>4 DEF SummaryOfAll
  <2>6. ErasAgree'
    BY <1>1, <1>2 DEF ErasAgree
  <2> QED BY <1>1, <2>1, <2>5, <2>6, AnsweringKeeps
<1> QED BY <1>4, <1>5

LEMMA AnswerErasKeeps ==
  ASSUME ComparisonInv, AnswerEras
  PROVE  ComparisonInv'
<1> DEFINE old == wanted.keys[1]
           new == wanted.keys[2]
           size == IF wanted.scaled THEN new ELSE old
           o == found[<<old, size>>]
           n == OwnSize(new)
           body == [flowRatio |-> (o.flow * 1000) \div n.flow,
                    pressureRatio |-> (o.pressure * 1000) \div n.pressure,
                    flowReduction |-> ((o.flow - n.flow) * 1000) \div o.flow,
                    pressureReduction |-> ((o.pressure - n.pressure) * 1000) \div o.pressure]
<1>1. /\ wanted.kind = "eras" /\ UNCHANGED <<wanted, found, sliceVars, summaryVars>>
      /\ reply' = IF Unknown \in {old, new} THEN Refused
                  ELSE Encoded({o.flow, o.pressure, n.flow, n.pressure}, body)
  BY DEF AnswerEras, Unanswered
<1>2. wanted' = wanted /\ wanted.keys \in [1..2 -> Keys]
  BY <1>1, KeysAre DEF ComparisonInv, SliceInv
<1>3. SummaryOfAll'
  BY <1>1, <1>2 DEF SummaryOfAll
<1>4. CASE Unknown \in {old, new}
  <2>1. reply'.status = "error"
    BY <1>1, <1>4 DEF Refused
  <2>2. ErasAgree'
    BY <2>1 DEF ErasAgree
  <2> QED BY <1>1, <1>3, <2>1, <2>2, AnsweringKeeps
<1>5. CASE Unknown \notin {old, new} /\ 0 \in {o.flow, o.pressure, n.flow, n.pressure}
  <2>1. reply'.status = "empty"
    BY <1>1, <1>5 DEF Encoded
  <2>2. ErasAgree'
    BY <2>1 DEF ErasAgree
  <2> QED BY <1>1, <1>3, <2>1, <2>2, AnsweringKeeps
<1>6. CASE Unknown \notin {old, new} /\ 0 \notin {o.flow, o.pressure, n.flow, n.pressure}
  <2>1. old \in KnownDams /\ new \in KnownDams /\ size \in {old, new}
    BY <1>2, <1>6 DEF Keys
  <2>2. found \in Findings
    BY DEF ComparisonInv, SliceInv
  <2>3. PICK of \in Nat \ {0}, op \in Nat \ {0}, nf \in Nat \ {0}, np \in Nat \ {0} :
          of = o.flow /\ op = o.pressure /\ nf = n.flow /\ np = n.pressure
    <3>1. o.flow \in Nat /\ o.pressure \in Nat
      BY <2>1, <2>2, FoundAre
    <3>2. n.flow \in Nat /\ n.pressure \in Nat
      BY <2>1, <2>2, FoundAre DEF OwnSize
    <3> QED BY <1>6, <3>1, <3>2
  <2>4. old = new => of = nf /\ op = np
    BY <2>1, <2>3 DEF OwnSize
  <2>5. reply'.status = "ok" /\ reply'.body = body
    BY <1>1, <1>6 DEF Encoded
  <2>6. /\ reply'.body.flowRatio = (of * 1000) \div nf
        /\ reply'.body.pressureRatio = (op * 1000) \div np
        /\ reply'.body.flowReduction = ((of - nf) * 1000) \div of
        /\ reply'.body.pressureReduction = ((op - np) * 1000) \div op
    <3> HIDE DEF o, n
    <3> QED BY <2>3, <2>5
  <2>7. /\ (of * 1000) \div nf >= 1000 <=> ((of - nf) * 1000) \div of >= 0
        /\ of = nf => ((of - nf) * 1000) \div of = 0
        /\ (op * 1000) \div np >= 1000 <=> ((op - np) * 1000) \div op >= 0
        /\ op = np => ((op - np) * 1000) \div op = 0
    BY RatioAndReduction
  <2>8. ErasAgree'
    <3>1. /\ reply'.body.flowRatio >= 1000 <=> reply'.body.flowReduction >= 0
          /\ reply'.body.pressureRatio >= 1000 <=> reply'.body.pressureReduction >= 0
      BY <2>6, <2>7
    <3>2. wanted'.keys[1] = wanted'.keys[2] => reply'.body.flowReduction = 0 /\ reply'.body.pressureReduction = 0
      BY <1>2, <2>4, <2>6, <2>7
    <3> QED BY <3>1, <3>2 DEF ErasAgree
  <2> QED BY <1>1, <1>3, <2>5, <2>8, AnsweringKeeps
<1> QED BY <1>4, <1>5, <1>6

LEMMA ComparisonKept == ComparisonInv /\ [ComparisonNext]_comparisonVars => ComparisonInv'
<1> SUFFICES ASSUME ComparisonInv, [ComparisonNext]_comparisonVars PROVE ComparisonInv'
  OBVIOUS
<1>1. ASSUME NEW g \in Goroutines, SolveDam(g) \/ LockItems(g) \/ AppendItem(g) PROVE ComparisonInv'
  BY <1>1, SolveDamKeeps, LockItemsKeeps, AppendItemKeeps
<1>2. CASE TooFewKeys \/ TooFewItems \/ NoteItem \/ AnswerDams \/ AnswerEras
  BY <1>2, TooFewKeysKeeps, TooFewItemsKeeps, NoteItemKeeps, AnswerDamsKeeps, AnswerErasKeeps
<1>3. CASE UNCHANGED comparisonVars
  <2>1. /\ UNCHANGED <<wanted, found, sliceVars, summaryVars, reply, stage, holder, seen, items, noted, summary>>
        /\ Goroutines' = Goroutines
    BY <1>3 DEF comparisonVars, sliceVars, summaryVars, Goroutines
  <2>2. SliceInv'
    BY <2>1 DEF ComparisonInv, SliceInv
  <2>3. CountInv'
    BY <2>1 DEF ComparisonInv, CountInv, Placed, Arrived
  <2>4. SummaryInv'
    BY <2>1, SummaryStays DEF ComparisonInv, SummaryInv
  <2>5. SummaryOfAll'
    BY <2>1 DEF ComparisonInv, ReplyInv, SummaryOfAll, OwnSize
  <2>6. ErasAgree'
    BY <2>1 DEF ComparisonInv, ReplyInv, ErasAgree
  <2> QED BY <2>1, <2>2, <2>3, <2>4, <2>5, <2>6 DEF ComparisonInv, ReplyInv
<1> QED BY <1>1, <1>2, <1>3 DEF ComparisonNext

LEMMA ComparisonHolds == ComparisonSpec => []ComparisonInv
BY ComparisonInitially, ComparisonKept, PTL DEF ComparisonSpec

-----------------------------------------------------------------------------
(* THE COMPARISONS: THEOREMS                                              *)

LEMMA ComparisonTypes == ComparisonInv => ComparisonTypeOK
<1> SUFFICES ASSUME ComparisonInv PROVE ComparisonTypeOK
  OBVIOUS
<1>1. PICK n \in Nat : /\ wanted.keys \in [1..n -> Keys] /\ Goroutines = 1..n /\ Len(wanted.keys) = n
                       /\ wanted.kind = "dams" => n <= MostKeys
  BY KeysAre DEF ComparisonInv, SliceInv
<1>2. Len(items) \in Nat /\ Len(items) <= MostKeys
  <2>1. CASE wanted.kind = "eras"
    <3>1. items = <<>>
      BY <2>1 DEF ComparisonInv, ReplyInv
    <3> QED BY <3>1, ComparisonAssumption
  <2>2. CASE wanted.kind = "dams"
    <3>1. Placed(KnownDams) = 1..Len(items) /\ Arrived(KnownDams) \subseteq Goroutines
      BY DEF ComparisonInv, SliceInv, Placed, Arrived
    <3>2. IsFiniteSet(Goroutines) /\ Cardinality(Goroutines) = n /\ Cardinality(1..Len(items)) = Len(items) /\ Len(items) \in Nat
      BY <1>1, SetsAreFinite DEF ComparisonInv
    <3>3. Cardinality(Arrived(KnownDams)) <= n
      BY <3>1, <3>2, FS_Subset
    <3>4. Cardinality(Placed(KnownDams)) = Cardinality(Arrived(KnownDams))
      BY DEF ComparisonInv, CountInv
    <3> QED BY <1>1, <2>2, <3>1, <3>2, <3>3, <3>4, ComparisonAssumption
  <2> QED BY <2>1, <2>2, KeysAre DEF ComparisonInv, SliceInv
<1>3. items \in BoundedSeq(KnownDams, MostKeys)
  <2>1. items \in [1..Len(items) -> KnownDams]
    BY DEF ComparisonInv, SliceInv
  <2>2. Len(items) \in 0..MostKeys
    BY <1>2, ComparisonAssumption
  <2> QED BY <2>1, <2>2 DEF BoundedSeq, SeqOf
<1> QED BY <1>3 DEF ComparisonInv, SliceInv, SummaryInv, ReplyInv, ComparisonTypeOK

(* Types of the comparisons, for any dams and findings: one goroutine at the *)
(* slice, over what it has read of it.                                     *)
THEOREM ComparisonTypesCorrect == ComparisonSpec => []ComparisonTypeOK
BY ComparisonTypes, ComparisonHolds, PTL

(* However many goroutines append to the slice and in whatever order, the    *)
(* answer of CompareDams has an item for every key with a preset and its     *)
(* summary is that of these; CompareCrossEra's ratios and reductions agree.  *)
THEOREM ComparisonsTell == ComparisonSpec => []ComparisonTells
<1>1. ComparisonInv => ComparisonTells
  BY DEF ComparisonInv, ReplyInv, ComparisonTells
<1> QED BY <1>1, ComparisonHolds, PTL

-----------------------------------------------------------------------------
(* THE ENDPOINTS TOGETHER                                                 *)

LEMMA PartsStart == FeatureInit => Init /\ SolverInit /\ AgingInit /\ ComparisonInit
BY DEF FeatureInit, TourRests, SolverRests, AgingRests, ComparisonRests

(* A step of an endpoint is a step of its module, and of no other.          *)
LEMMA PartsStep ==
  [FeatureNext]_featureVars =>
    /\ [Next]_vars /\ [SolverNext]_solverVars /\ [AgingNext]_agingVars /\ [ComparisonNext]_comparisonVars
<1> SUFFICES ASSUME [FeatureNext]_featureVars
             PROVE  [Next]_vars /\ [SolverNext]_solverVars /\ [AgingNext]_agingVars /\ [ComparisonNext]_comparisonVars
  OBVIOUS
<1>1. CASE UNCHANGED featureVars
  BY <1>1 DEF featureVars
<1>2. CASE FeatureNext
  BY <1>2 DEF FeatureNext
<1> QED BY <1>1, <1>2

(* Every endpoint behaves as its module says, so that all that is proved of  *)
(* the modules holds of the run that checks them together.                  *)
THEOREM FeaturesAreTheirModules == FeatureSpec => Spec /\ SolverSpec /\ AgingSpec /\ ComparisonSpec
BY PartsStart, PartsStep, PTL DEF FeatureSpec, Spec, SolverSpec, AgingSpec, ComparisonSpec

(* The types of all endpoints together, for every instance of the modules:   *)
(* allowed water levels, sweeps that stay in the grid, permeabilities that   *)
(* never fall, one goroutine at the slice.                                  *)
THEOREM FeatureTypesCorrect == FeatureSpec => []FeatureTypes
<1>1. TypeOK /\ SolverTypeOK /\ AgingTypeOK /\ ComparisonTypeOK => FeatureTypes
  BY DEF FeatureTypes
<1> QED BY <1>1, FeaturesAreTheirModules, RiskTypesCorrect, SolverTypesCorrect, AgingTypesCorrect,
           ComparisonTypesCorrect, PTL

=============================================================================
