---------------------------- MODULE FrontendPanel ----------------------------
(***************************************************************************)
(* The browser console (frontend/js/seepage_panel.js, app.js): what runs    *)
(* between two awaits is one step, and answers and timers come in any order.*)
(*                                                                         *)
(* Operations the user starts share one loading overlay and one result on   *)
(* display. A simulation sets timers that show progress, an optimisation an *)
(* interval and, at its end, a delayed hide; a stored simulation is fetched *)
(* as two requests; the default simulation runs without overlay. The list   *)
(* of open alarms is fetched again and again, several fetches may be under  *)
(* way, and the alarm panel is taken away by a timer.                       *)
(***************************************************************************)
EXTENDS Naturals, FiniteSets

CONSTANTS
  Ops,          \* operations of one visit, each started at most once
  Kind,         \* [operation -> "simulation", "optimization", "load", "default"]
  Steps,        \* progress timers of a simulation (4 in the code)
  Alarms,       \* alarm rows
  Loads,        \* bound: fetches of the alarm list under way at a time
  MaxRemovals,  \* bound: removal timers pending at a time
  None          \* nothing on display

ASSUME PanelAssumption ==
  /\ Kind \in [Ops -> {"simulation", "optimization", "load", "default"}]
  /\ Steps \in Nat /\ MaxRemovals \in Nat \ {0}
  /\ None \notin Ops

VARIABLES
  boot,       \* where main() stands: "starting", "configs", "latest", "running", "failed"
  pc,         \* per operation: "new", "fetching", "ended"
  parts,      \* per load: the answers it has
  due,        \* per operation: progress timers still to fire
  intervals,  \* operations whose interval runs
  hides,      \* delayed hides pending
  overlay,    \* loadingModal is displayed
  shown,      \* lastSimulationData: the operation it came from, per part
  late,       \* history: a progress timer showed the overlay after its simulation ended
  alarm,      \* per alarm, in the database: "none", "open", "handled"
  ack,        \* per alarm: its acknowledgement: "idle", "asked", "answered"
  load,       \* per fetch of the list: "idle", "asked", "answered"
  snap,       \* per fetch: the open alarms when it was answered
  active,     \* activeAlarms
  panel,      \* alarmPanel has the class "active"
  removals    \* timers pending that will take the class away

opVars    == <<pc, parts, due, intervals, hides, overlay, shown, late>>
alarmVars == <<alarm, ack, load, snap, active, panel, removals>>
vars == <<boot, opVars, alarmVars>>

Parts == {"simulation", "grids"}
Covers(o) == Kind[o] # "default"
Booted == boot = "running"

-----------------------------------------------------------------------------
(* Decisions that are easy to get wrong, each after a faulty variant.     *)

FaultyHidePending == TRUE                            \* a hide without its timer
HidePending == hides > 0

FaultyIntervalsAfterFailure(o) == intervals          \* clearInterval on success only
IntervalsAfterFailure(o) == intervals \ {o}

FaultyShownAfterPart(o, p) == [shown EXCEPT ![p] = o]   \* each answer at once
ShownAfterPart(o, p) ==
  IF parts[o] \cup {p} = Parts THEN [q \in Parts |-> o] ELSE shown

FaultyListAfter(l) == active \cup snap[l]            \* merged, not replaced
ListAfter(l) == snap[l]

FaultyRemovalsAfterFiring == removals                \* setInterval
RemovalsAfterFiring == removals - 1

-----------------------------------------------------------------------------
Init ==
  /\ boot = "starting"
  /\ pc = [o \in Ops |-> "new"]
  /\ parts = [o \in Ops |-> {}]
  /\ due = [o \in Ops |-> 0]
  /\ intervals = {}
  /\ hides = 0
  /\ overlay = FALSE
  /\ shown = [p \in Parts |-> None]
  /\ late = FALSE
  /\ alarm = [a \in Alarms |-> "none"]
  /\ ack = [a \in Alarms |-> "idle"]
  /\ load = [l \in Loads |-> "idle"]
  /\ snap = [l \in Loads |-> {}]
  /\ active = {}
  /\ panel = FALSE
  /\ removals = 0

-----------------------------------------------------------------------------
(* main(): two fetches, one after the other, whose errors are caught; then  *)
(* the polls are set up. Charts that cannot be made, or data that cannot be *)
(* displayed, end it: its buttons work, its polls never start.              *)
BootStep ==
  /\ \/ boot = "starting" /\ boot' \in {"configs", "failed"}
     \/ boot = "configs" /\ boot' = "latest"
     \/ boot = "latest" /\ boot' \in {"running", "failed"}
  /\ UNCHANGED <<opVars, alarmVars>>

-----------------------------------------------------------------------------
(* Operations.                                                            *)

(* The table whose buttons load a simulation is filled by main() and after  *)
(* each simulation.                                                        *)
TableLoaded == Booted \/ \E o \in Ops : Kind[o] = "simulation" /\ pc[o] = "ended"

Begin(o) ==
  /\ pc[o] = "new"
  /\ boot # "starting"
  /\ Kind[o] = "default" => Booted
  /\ Kind[o] = "load" => TableLoaded
  /\ pc' = [pc EXCEPT ![o] = "fetching"]
  /\ overlay' = (overlay \/ Covers(o))
  /\ due' = [due EXCEPT ![o] = IF Kind[o] = "simulation" THEN Steps ELSE 0]
  /\ intervals' = IF Kind[o] = "optimization" THEN intervals \cup {o} ELSE intervals
  /\ UNCHANGED <<boot, parts, hides, shown, late, alarmVars>>

(* updateProgress: the timers are set at the start and never cleared.     *)
ProgressTimer(o) ==
  /\ due[o] > 0
  /\ due' = [due EXCEPT ![o] = @ - 1]
  /\ overlay' = TRUE
  /\ late' = (late \/ pc[o] = "ended")
  /\ UNCHANGED <<boot, pc, parts, intervals, hides, shown, alarmVars>>

IntervalTick(o) ==
  /\ o \in intervals
  /\ overlay' = TRUE
  /\ UNCHANGED <<boot, pc, parts, due, intervals, hides, shown, late, alarmVars>>

Ends(o) ==
  /\ pc[o] = "fetching"
  /\ pc' = [pc EXCEPT ![o] = "ended"]
  /\ UNCHANGED <<boot, parts, due, alarmVars>>

Simulated(o) ==
  /\ Kind[o] = "simulation"
  /\ Ends(o)
  /\ shown' = [p \in Parts |-> o]
  /\ overlay' = FALSE /\ late' = FALSE
  /\ UNCHANGED <<intervals, hides>>

Optimized(o) ==
  /\ Kind[o] = "optimization"
  /\ Ends(o)
  /\ intervals' = intervals \ {o}
  /\ overlay' = TRUE
  /\ hides' = hides + 1
  /\ UNCHANGED <<shown, late>>

DefaultSimulated(o) ==
  /\ Kind[o] = "default"
  /\ Ends(o)
  /\ shown' = [p \in Parts |-> o]
  /\ UNCHANGED <<overlay, intervals, hides, late>>

(* One of the two answers Promise.all waits for.                          *)
PartArrives(o, p) ==
  /\ Kind[o] = "load"
  /\ pc[o] = "fetching"
  /\ p \notin parts[o]
  /\ parts' = [parts EXCEPT ![o] = @ \cup {p}]
  /\ shown' = ShownAfterPart(o, p)
  /\ IF parts[o] \cup {p} = Parts
     THEN pc' = [pc EXCEPT ![o] = "ended"] /\ overlay' = FALSE /\ late' = FALSE
     ELSE UNCHANGED <<pc, overlay, late>>
  /\ UNCHANGED <<boot, due, intervals, hides, alarmVars>>

(* The fetch throws. An error after the answer was taken over ends as a     *)
(* success does, but for the notice.                                       *)
Fails(o) ==
  /\ Ends(o)
  /\ IF Covers(o) THEN overlay' = FALSE /\ late' = FALSE ELSE UNCHANGED <<overlay, late>>
  /\ intervals' = IntervalsAfterFailure(o)
  /\ UNCHANGED <<hides, shown>>

(* The hide runOptimization delays by half a second.                      *)
HideTimer ==
  /\ HidePending
  /\ hides' = hides - 1
  /\ overlay' = FALSE /\ late' = FALSE
  /\ UNCHANGED <<boot, pc, parts, due, intervals, shown, alarmVars>>

Operation(o) ==
  \/ Begin(o) \/ ProgressTimer(o) \/ IntervalTick(o)
  \/ Simulated(o) \/ Optimized(o) \/ DefaultSimulated(o)
  \/ \E p \in Parts : PartArrives(o, p)
  \/ Fails(o)

-----------------------------------------------------------------------------
(* Alarms.                                                                *)

(* The database: the alarm service, and other consoles. *)
Raise(a) ==
  /\ alarm[a] = "none"
  /\ alarm' = [alarm EXCEPT ![a] = "open"]
  /\ UNCHANGED <<boot, opVars, ack, load, snap, active, panel, removals>>

HandledElsewhere(a) ==
  /\ alarm[a] = "open"
  /\ alarm' = [alarm EXCEPT ![a] = "handled"]
  /\ UNCHANGED <<boot, opVars, ack, load, snap, active, panel, removals>>

StartsLoad(l) == load[l] = "idle" /\ load' = [load EXCEPT ![l] = "asked"]

(* Every fifteen seconds, whether the last fetch is answered or not.      *)
Poll(l) ==
  /\ Booted
  /\ StartsLoad(l)
  /\ UNCHANGED <<boot, opVars, alarm, ack, snap, active, panel, removals>>

(* The server answers with the open alarms, of which Alarms stands for      *)
(* fewer than the fifty it lists.                                          *)
LoadServed(l) ==
  /\ load[l] = "asked"
  /\ load' = [load EXCEPT ![l] = "answered"]
  /\ snap' = [snap EXCEPT ![l] = {a \in Alarms : alarm[a] = "open"}]
  /\ UNCHANGED <<boot, opVars, alarm, ack, active, panel, removals>>

(* loadAlarms goes on: the list is replaced, and renderAlarms shows the     *)
(* panel, or has it taken away in three seconds.                           *)
LoadDelivered(l) ==
  /\ load[l] = "answered"
  /\ load' = [load EXCEPT ![l] = "idle"]
  /\ snap' = [snap EXCEPT ![l] = {}]
  /\ active' = ListAfter(l)
  /\ \/ active' # {} /\ panel' = TRUE /\ UNCHANGED removals
     \/ active' = {} /\ removals < MaxRemovals /\ removals' = removals + 1 /\ UNCHANGED panel
  /\ UNCHANGED <<boot, opVars, alarm, ack>>

LoadFails(l) ==
  /\ load[l] \in {"asked", "answered"}
  /\ load' = [load EXCEPT ![l] = "idle"]
  /\ snap' = [snap EXCEPT ![l] = {}]
  /\ UNCHANGED <<boot, opVars, alarm, ack, active, panel, removals>>

RemovalTimer ==
  /\ removals > 0
  /\ removals' = RemovalsAfterFiring
  /\ panel' = FALSE
  /\ UNCHANGED <<boot, opVars, alarm, ack, load, snap, active>>

(* acknowledgeAlarm: the button of a listed alarm. *)
Acknowledge(a) ==
  /\ a \in active
  /\ ack[a] = "idle"
  /\ ack' = [ack EXCEPT ![a] = "asked"]
  /\ UNCHANGED <<boot, opVars, alarm, load, snap, active, panel, removals>>

AckServed(a) ==
  /\ ack[a] = "asked"
  /\ alarm' = [alarm EXCEPT ![a] = "handled"]
  /\ ack' = [ack EXCEPT ![a] = "answered"]
  /\ UNCHANGED <<boot, opVars, load, snap, active, panel, removals>>

AckFails(a) ==
  /\ ack[a] \in {"asked", "answered"}
  /\ ack' = [ack EXCEPT ![a] = "idle"]
  /\ UNCHANGED <<boot, opVars, alarm, load, snap, active, panel, removals>>

AckDelivered(a, l) ==
  /\ ack[a] = "answered"
  /\ ack' = [ack EXCEPT ![a] = "idle"]
  /\ StartsLoad(l)
  /\ UNCHANGED <<boot, opVars, alarm, snap, active, panel, removals>>

Alarming ==
  \/ \E a \in Alarms : \/ Raise(a) \/ HandledElsewhere(a)
                       \/ Acknowledge(a) \/ AckServed(a) \/ AckFails(a)
                       \/ \E l \in Loads : AckDelivered(a, l)
  \/ \E l \in Loads : Poll(l) \/ LoadServed(l) \/ LoadDelivered(l) \/ LoadFails(l)
  \/ RemovalTimer

-----------------------------------------------------------------------------
Next ==
  \/ BootStep
  \/ \E o \in Ops : Operation(o)
  \/ HideTimer
  \/ Alarming

Spec == Init /\ [][Next]_vars

(* Fetches settle, timers fire and the interval of the poll goes on. A      *)
(* server that is asked again and again answers again and again.            *)
Fairness ==
  /\ WF_vars(BootStep)
  /\ WF_vars(RemovalTimer)
  /\ WF_vars(\E l \in Loads : Poll(l))
  /\ \A l \in Loads : SF_vars(LoadServed(l)) /\ SF_vars(LoadDelivered(l))

FairSpec == Spec /\ Fairness

-----------------------------------------------------------------------------
(* PROPERTIES                                                             *)

(* Every variable has its type; no more delayed hides fire than were set.   *)
TypeOK ==
  /\ boot \in {"starting", "configs", "latest", "running", "failed"}
  /\ pc \in [Ops -> {"new", "fetching", "ended"}]
  /\ parts \in [Ops -> SUBSET Parts]
  /\ due \in [Ops -> 0..Steps]
  /\ intervals \subseteq Ops
  /\ hides \in Nat
  /\ overlay \in BOOLEAN /\ late \in BOOLEAN
  /\ shown \in [Parts -> Ops \cup {None}]
  /\ alarm \in [Alarms -> {"none", "open", "handled"}]
  /\ ack \in [Alarms -> {"idle", "asked", "answered"}]
  /\ load \in [Loads -> {"idle", "asked", "answered"}]
  /\ snap \in [Loads -> SUBSET Alarms]
  /\ active \subseteq Alarms
  /\ panel \in BOOLEAN
  /\ removals \in 0..MaxRemovals

(* The overlay, which covers the page, is displayed for an operation under  *)
(* way or about to be hidden; the one thing that leaves it displayed        *)
(* otherwise is a progress timer that outlives its simulation               *)
(* (updateProgress in runSimulation).                                       *)
OverlayExplained ==
  overlay => \/ late \/ hides > 0
             \/ \E o \in Ops : Covers(o) /\ pc[o] = "fetching"

(* While an operation with an overlay is under way the overlay is gone only *)
(* if another one such ended meanwhile or before; the default simulation    *)
(* never takes it away.                                                     *)
CoveredUnlessOverlapped ==
  \A o \in Ops :
    Covers(o) /\ pc[o] = "fetching" /\ ~overlay =>
      \E other \in Ops \ {o} : Covers(other) /\ pc[other] = "ended"

(* The overlay tells whether something is under way, but for late timers    *)
(* and overlapping ends.                                                   *)
OverlayFits == OverlayExplained /\ CoveredUnlessOverlapped

(* The simulation and the grid on display are of one run, although a stored *)
(* one comes in two answers and others may end between them.                *)
ShownOfOneRun == shown["simulation"] = shown["grids"]

(* A handled alarm leaves the list for good, also when an answer given      *)
(* before it was handled arrives after newer ones.                          *)
HandledLeaves ==
  \A a \in Alarms : alarm[a] = "handled" ~> [](a \notin active)

(* An alarm that stays open is in the end always listed with the panel      *)
(* displayed, although answers come out of order and a timer set when the   *)
(* list was empty may take the panel away under it.                         *)
StaysShown ==
  \A a \in Alarms :
    <>[](alarm[a] = "open" /\ Booted) => <>[](a \in active /\ panel)
=============================================================================
