------------------------- MODULE FrontendPanelProofs -------------------------
(* Proofs about FrontendPanel, for every set of operations and alarms.     *)
EXTENDS FrontendPanel, TLAPS

OpTypes ==
  /\ boot \in {"starting", "configs", "latest", "running", "failed"}
  /\ pc \in [Ops -> {"new", "fetching", "ended"}]
  /\ parts \in [Ops -> SUBSET Parts]
  /\ due \in [Ops -> 0..Steps]
  /\ intervals \subseteq Ops
  /\ hides \in Nat
  /\ overlay \in BOOLEAN /\ late \in BOOLEAN
  /\ shown \in [Parts -> Ops \cup {None}]

AlarmTypes ==
  /\ alarm \in [Alarms -> {"none", "open", "handled"}]
  /\ ack \in [Alarms -> {"idle", "asked", "answered"}]
  /\ load \in [Loads -> {"idle", "asked", "answered"}]
  /\ snap \in [Loads -> SUBSET Alarms]
  /\ active \subseteq Alarms
  /\ panel \in BOOLEAN
  /\ removals \in 0..MaxRemovals

LEMMA TypeSplit == TypeOK <=> OpTypes /\ AlarmTypes
  BY DEF TypeOK, OpTypes, AlarmTypes

LEMMA AlarmTypesStable == AlarmTypes /\ UNCHANGED alarmVars => AlarmTypes'
  BY DEF AlarmTypes, alarmVars

LEMMA OpTypesStable == OpTypes /\ UNCHANGED <<boot, opVars>> => OpTypes'
  BY DEF OpTypes, opVars

LEMMA TypeInit == Init => TypeOK
<1> SUFFICES ASSUME Init PROVE OpTypes /\ AlarmTypes
  BY TypeSplit
<1>1. 0 \in 0..Steps /\ 0 \in 0..MaxRemovals
  BY PanelAssumption
<1>2. OpTypes
  BY <1>1 DEF Init, OpTypes
<1>3. AlarmTypes
  BY <1>1 DEF Init, AlarmTypes
<1>4. QED
  BY <1>2, <1>3

LEMMA OperationTypes ==
  ASSUME OpTypes, NEW o \in Ops, Operation(o)
  PROVE  OpTypes' /\ UNCHANGED alarmVars
<1>1. CASE Begin(o)
  <2>1. Steps \in 0..Steps /\ 0 \in 0..Steps
    BY PanelAssumption
  <2>2. QED
    BY <1>1, <2>1 DEF Begin, OpTypes
<1>2. CASE ProgressTimer(o)
  <2>1. due[o] - 1 \in 0..Steps
    BY <1>2, PanelAssumption DEF ProgressTimer, OpTypes
  <2>2. QED
    BY <1>2, <2>1 DEF ProgressTimer, OpTypes
<1>3. CASE IntervalTick(o)
  BY <1>3 DEF IntervalTick, OpTypes
<1>4. CASE Simulated(o) \/ DefaultSimulated(o)
  BY <1>4 DEF Simulated, DefaultSimulated, Ends, OpTypes
<1>5. CASE Optimized(o)
  BY <1>5 DEF Optimized, Ends, OpTypes
<1>6. CASE \E p \in Parts : PartArrives(o, p)
  <2>1. PICK p \in Parts : PartArrives(o, p)
    BY <1>6
  <2>2. parts' \in [Ops -> SUBSET Parts] /\ shown' \in [Parts -> Ops \cup {None}]
    BY <2>1 DEF PartArrives, ShownAfterPart, OpTypes
  <2>3. pc' \in [Ops -> {"new", "fetching", "ended"}] /\ overlay' \in BOOLEAN /\ late' \in BOOLEAN
    BY <2>1 DEF PartArrives, OpTypes
  <2>4. QED
    BY <2>1, <2>2, <2>3 DEF PartArrives, OpTypes
<1>7. CASE Fails(o)
  BY <1>7 DEF Fails, Ends, IntervalsAfterFailure, OpTypes
<1>8. QED
  BY <1>1, <1>2, <1>3, <1>4, <1>5, <1>6, <1>7 DEF Operation

LEMMA AlarmingTypes ==
  ASSUME AlarmTypes, Alarming
  PROVE  AlarmTypes' /\ UNCHANGED <<boot, opVars>>
<1>1. ASSUME NEW a \in Alarms,
             Raise(a) \/ HandledElsewhere(a) \/ Acknowledge(a) \/ AckServed(a) \/ AckFails(a)
      PROVE  AlarmTypes' /\ UNCHANGED <<boot, opVars>>
  BY <1>1 DEF Raise, HandledElsewhere, Acknowledge, AckServed, AckFails, AlarmTypes
<1>2. ASSUME NEW a \in Alarms, NEW l \in Loads, AckDelivered(a, l)
      PROVE  AlarmTypes' /\ UNCHANGED <<boot, opVars>>
  BY <1>2 DEF AckDelivered, StartsLoad, AlarmTypes
<1>3. ASSUME NEW l \in Loads, Poll(l) \/ LoadServed(l) \/ LoadFails(l)
      PROVE  AlarmTypes' /\ UNCHANGED <<boot, opVars>>
  BY <1>3 DEF Poll, StartsLoad, LoadServed, LoadFails, AlarmTypes
<1>4. ASSUME NEW l \in Loads, LoadDelivered(l)
      PROVE  AlarmTypes' /\ UNCHANGED <<boot, opVars>>
  <2>1. removals < MaxRemovals => removals + 1 \in 0..MaxRemovals
    BY PanelAssumption DEF AlarmTypes
  <2>2. QED
    BY <1>4, <2>1 DEF LoadDelivered, ListAfter, AlarmTypes
<1>5. CASE RemovalTimer
  <2>1. removals - 1 \in 0..MaxRemovals
    BY <1>5, PanelAssumption DEF RemovalTimer, AlarmTypes
  <2>2. QED
    BY <1>5, <2>1 DEF RemovalTimer, RemovalsAfterFiring, AlarmTypes
<1>6. QED
  BY <1>1, <1>2, <1>3, <1>4, <1>5 DEF Alarming

LEMMA TypeStep == TypeOK /\ [Next]_vars => TypeOK'
<1> SUFFICES ASSUME TypeOK, [Next]_vars PROVE OpTypes' /\ AlarmTypes'
  BY DEF TypeOK, OpTypes, AlarmTypes
<1>0. OpTypes /\ AlarmTypes
  BY TypeSplit
<1>1. CASE BootStep
  BY <1>0, <1>1, AlarmTypesStable DEF BootStep, OpTypes, opVars
<1>2. CASE \E o \in Ops : Operation(o)
  BY <1>0, <1>2, OperationTypes, AlarmTypesStable
<1>3. CASE HideTimer
  <2>1. hides - 1 \in Nat
    BY <1>0, <1>3 DEF HideTimer, HidePending, OpTypes
  <2>2. QED
    BY <1>0, <1>3, <2>1, AlarmTypesStable DEF HideTimer, OpTypes
<1>4. CASE Alarming
  BY <1>0, <1>4, AlarmingTypes, OpTypesStable
<1>5. CASE UNCHANGED vars
  BY <1>0, <1>5, AlarmTypesStable, OpTypesStable DEF vars
<1>6. QED
  BY <1>1, <1>2, <1>3, <1>4, <1>5 DEF Next

(* Every variable keeps its type, for any operations, alarms and bounds.   *)
THEOREM TypeCorrect == Spec => []TypeOK
  BY TypeInit, TypeStep, PTL DEF Spec

-----------------------------------------------------------------------------
(* The inductive invariant: whoever shows or hides the overlay later is     *)
(* accounted for now.                                                      *)

(* Progress timers belong to simulations that were begun, the interval to   *)
(* an optimisation under way.                                              *)
TimerInv ==
  /\ \A o \in Ops : due[o] > 0 => Kind[o] = "simulation" /\ pc[o] \in {"fetching", "ended"}
  /\ \A o \in intervals : Kind[o] = "optimization" /\ pc[o] = "fetching"
  /\ hides > 0 => \E o \in Ops : Covers(o) /\ pc[o] = "ended"

IInv == TimerInv /\ OverlayExplained /\ CoveredUnlessOverlapped /\ ShownOfOneRun

LEMMA InvInit == Init => IInv
  BY PanelAssumption
  DEF Init, IInv, TimerInv, OverlayExplained, CoveredUnlessOverlapped, ShownOfOneRun, Parts

(* A step that leaves the operations alone.                               *)
LEMMA InvStable == IInv /\ UNCHANGED opVars => IInv'
  BY DEF IInv, TimerInv, OverlayExplained, CoveredUnlessOverlapped, ShownOfOneRun,
         Covers, opVars

LEMMA BeginStep ==
  ASSUME OpTypes, IInv, NEW o \in Ops, Begin(o)
  PROVE  IInv'
<1>1. /\ pc[o] = "new" /\ pc'[o] = "fetching"
      /\ \A u \in Ops : u # o => pc'[u] = pc[u]
      /\ \A u \in Ops : u # o => due'[u] = due[u]
      /\ due'[o] > 0 => Kind[o] = "simulation"
      /\ overlay' = (overlay \/ Covers(o))
      /\ UNCHANGED <<hides, shown, late>>
  BY DEF Begin, OpTypes
<1>2. TimerInv'
  <2>1. \A u \in intervals' : Kind[u] = "optimization" /\ pc'[u] = "fetching"
    BY <1>1 DEF Begin, IInv, TimerInv, OpTypes
  <2>2. QED
    BY <1>1, <2>1 DEF IInv, TimerInv, Covers
<1>3. OverlayExplained'
  BY <1>1 DEF IInv, OverlayExplained, Covers
<1>4. CoveredUnlessOverlapped'
  BY <1>1 DEF IInv, CoveredUnlessOverlapped, Covers
<1>5. QED
  BY <1>1, <1>2, <1>3, <1>4 DEF IInv, ShownOfOneRun

LEMMA TimerStep ==
  ASSUME OpTypes, IInv, NEW o \in Ops, ProgressTimer(o) \/ IntervalTick(o)
  PROVE  IInv'
<1>1. /\ overlay' = TRUE
      /\ UNCHANGED <<pc, intervals, hides, shown>>
      /\ \A u \in Ops : due'[u] > 0 => due[u] > 0
      /\ late \/ pc[o] = "ended" => late' \/ o \in intervals
      /\ late => late'
  BY DEF ProgressTimer, IntervalTick, OpTypes
<1>2. late' \/ \E u \in Ops : Covers(u) /\ pc[u] = "fetching"
  BY DEF ProgressTimer, IntervalTick, IInv, TimerInv, Covers, OpTypes
<1>3. QED
  BY <1>1, <1>2
  DEF IInv, TimerInv, OverlayExplained, CoveredUnlessOverlapped, ShownOfOneRun, Covers

(* The end of an operation, on whatever path.                             *)
LEMMA EndStep ==
  ASSUME OpTypes, IInv, NEW o \in Ops, pc[o] = "fetching",
         pc' = [pc EXCEPT ![o] = "ended"], due' = due,
         intervals' \subseteq intervals, o \notin intervals',
         hides' \in Nat, hides' > 0 => hides > 0 \/ Covers(o),
         \/ overlay' = FALSE /\ Covers(o)
         \/ overlay' = overlay /\ late' = late /\ ~Covers(o) /\ hides' = hides
         \/ hides' > 0 /\ Covers(o),
         \/ shown' = shown
         \/ shown' = [p \in Parts |-> o]
  PROVE  IInv'
<1>1. /\ pc'[o] = "ended"
      /\ \A u \in Ops : u # o => pc'[u] = pc[u]
  BY DEF OpTypes
<1>2. TimerInv'
  BY <1>1 DEF IInv, TimerInv, Covers
<1>3. OverlayExplained'
  BY <1>1 DEF IInv, OverlayExplained, Covers
<1>4. CoveredUnlessOverlapped'
  BY <1>1 DEF IInv, CoveredUnlessOverlapped, Covers
<1>5. ShownOfOneRun'
  BY DEF IInv, ShownOfOneRun, Parts
<1>6. QED
  BY <1>2, <1>3, <1>4, <1>5 DEF IInv

LEMMA OperationStep ==
  ASSUME OpTypes, IInv, NEW o \in Ops, Operation(o)
  PROVE  IInv'
<1>1. hides \in Nat /\ (o \in intervals => Kind[o] = "optimization")
  BY DEF OpTypes, IInv, TimerInv
<1>2. CASE Simulated(o)
  BY <1>1, <1>2, EndStep DEF Simulated, Ends, Covers
<1>3. CASE Optimized(o)
  <2>1. hides' = hides + 1 /\ hides' \in Nat /\ hides' > 0
    BY <1>1, <1>3 DEF Optimized
  <2>2. Covers(o) /\ o \notin intervals' /\ intervals' \subseteq intervals
    BY <1>3 DEF Optimized, Covers
  <2>3. QED
    BY <1>3, <2>1, <2>2, EndStep DEF Optimized, Ends
<1>4. CASE DefaultSimulated(o)
  BY <1>1, <1>4, EndStep DEF DefaultSimulated, Ends, Covers
<1>5. CASE Fails(o)
  BY <1>1, <1>5, EndStep DEF Fails, Ends, IntervalsAfterFailure
<1>6. CASE \E p \in Parts : PartArrives(o, p)
  <2>1. PICK p \in Parts : PartArrives(o, p)
    BY <1>6
  <2>2. CASE parts[o] \cup {p} = Parts
    BY <1>1, <2>1, <2>2, EndStep DEF PartArrives, ShownAfterPart, Covers
  <2>3. CASE parts[o] \cup {p} # Parts
    <3>1. UNCHANGED <<pc, overlay, due, intervals, hides, late, shown>>
      BY <2>1, <2>3 DEF PartArrives, ShownAfterPart
    <3>2. QED
      BY <3>1 DEF IInv, TimerInv, OverlayExplained, CoveredUnlessOverlapped,
                  ShownOfOneRun, Covers
  <2>4. QED
    BY <2>2, <2>3
<1>7. QED
  BY <1>2, <1>3, <1>4, <1>5, <1>6, BeginStep, TimerStep DEF Operation

LEMMA HideStep ==
  ASSUME OpTypes, IInv, HideTimer
  PROVE  IInv'
<1>1. /\ hides > 0 /\ overlay' = FALSE
      /\ UNCHANGED <<pc, due, intervals, shown>>
  BY DEF HideTimer, HidePending
<1>2. PICK other \in Ops : Covers(other) /\ pc[other] = "ended"
  BY <1>1 DEF IInv, TimerInv
<1>3. CoveredUnlessOverlapped'
  BY <1>1, <1>2 DEF CoveredUnlessOverlapped, Covers
<1>4. QED
  BY <1>1, <1>2, <1>3 DEF IInv, TimerInv, OverlayExplained, ShownOfOneRun, Covers

LEMMA InvStep == TypeOK /\ IInv /\ [Next]_vars => IInv'
<1> SUFFICES ASSUME TypeOK, IInv, [Next]_vars PROVE IInv'
  OBVIOUS
<1>1. OpTypes /\ AlarmTypes
  BY TypeSplit
<1>2. CASE BootStep
  BY <1>2, InvStable DEF BootStep
<1>3. CASE \E o \in Ops : Operation(o)
  BY <1>1, <1>3, OperationStep
<1>4. CASE HideTimer
  BY <1>1, <1>4, HideStep
<1>5. CASE Alarming
  BY <1>1, <1>5, AlarmingTypes, InvStable
<1>6. CASE UNCHANGED vars
  BY <1>6, InvStable DEF vars
<1>7. QED
  BY <1>2, <1>3, <1>4, <1>5, <1>6 DEF Next

LEMMA Invariant == Spec => []IInv
  BY TypeInit, TypeStep, InvInit, InvStep, PTL DEF Spec

(* The overlay never stays without a reason but for a progress timer that   *)
(* outlives its simulation, and an operation under way is uncovered only by *)
(* the end of another with an overlay of its own, however many overlap     *)
(* (showLoading, hideLoading, updateProgress of seepage_panel.js).          *)
THEOREM OverlayHasAReason == Spec => []OverlayFits
  BY Invariant, PTL DEF IInv, OverlayFits

(* What is on display is one run's simulation and grid.                   *)
THEOREM DisplayIsWhole == Spec => []ShownOfOneRun
  BY Invariant, PTL DEF IInv
=============================================================================
