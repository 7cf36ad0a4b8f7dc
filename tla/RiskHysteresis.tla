--------------------------- MODULE RiskHysteresis ---------------------------
(***************************************************************************)
(* The interactive adjustment of the virtual tour, vr_dam/vr_dam.go: each   *)
(* request clamps the water levels it asks for, solves, proposes a risk     *)
(* level, and damps it with the level last stored for the dam. The store is *)
(* one map shared by all requests, read and written without a lock.         *)
(*                                                                         *)
(* Water levels are in decimetres, ratios in thousandths. The solver's      *)
(* answer is a pressure change chosen from Pressures.                      *)
(***************************************************************************)
EXTENDS Integers

CONSTANTS
  Requests,   \* POST /vr/adjust requests, one goroutine each
  Dams,       \* dam keys with a preset
  Design,     \* [dam -> [up, down]] design water levels
  Asked,      \* the [up, down] pairs requests may ask for
  Pressures,  \* pressure changes the solver may find, after smoothing
  None        \* no entry in the map

ASSUME HysteresisAssumption ==
  /\ Design \in [Dams -> [up : Nat, down : Nat]]
  /\ \A d \in Dams : Design[d].up > Design[d].down /\ Design[d].up >= 5
  /\ Asked \subseteq [up : Int, down : Int]
  /\ Pressures \subseteq Int
  /\ None \notin {"low", "medium", "high", "critical"}

VARIABLES
  store,    \* lastRiskLevelStore
  pc,       \* per request: "new", "solved", "read", "done", "cut"
  dam,      \* per request: the dam
  levels,   \* per request: the levels after clamping
  pressure, \* per request: pressureDiff
  prev,     \* per request: previousRisk
  answer,   \* per request: the risk level answered
  alive,    \* the process has not died of a concurrent map access
  stale     \* requests whose previousRisk was overwritten before they wrote

vars == <<store, pc, dam, levels, pressure, prev, answer, alive, stale>>

Risks == <<"low", "medium", "high", "critical">>
Order(r) == CHOOSE i \in DOMAIN Risks : Risks[i] = r
Levels == {Risks[i] : i \in DOMAIN Risks}

-----------------------------------------------------------------------------
(* Decisions that are easy to get wrong, each after a faulty variant.     *)

AtLeast(x, y) == IF x >= y THEN x ELSE y
AtMost(x, y) == IF x <= y THEN x ELSE y

Chosen(d, asked) ==
  [up   |-> IF asked.up <= 0 THEN Design[d].up ELSE asked.up,
   down |-> IF asked.down <= 0 THEN Design[d].down ELSE asked.down]
InRange(d, up) == AtMost(AtLeast(up, 5), (Design[d].up * 5) \div 2)
BelowUp(up, down) == IF down >= up - 1 THEN up - 1 ELSE down

(* Clamping the lower level first compares it with a level not yet clamped. *)
FaultyClamped(d, asked) ==
  LET c == Chosen(d, asked) IN [up |-> InRange(d, c.up), down |-> BelowUp(c.up, c.down)]
Clamped(d, asked) ==
  LET c  == Chosen(d, asked)
      up == InRange(d, c.up)
  IN [up |-> up, down |-> BelowUp(up, c.down)]

(* Whether a level may be left downwards.                                  *)
FaultyBelowBand(risk, over, press) == TRUE
BelowBand(risk, over, press) ==
  CASE risk = "critical" -> over < 1372 /\ press < 700
    [] risk = "high"     -> over < 1127 /\ press < 450
    [] risk = "medium"   -> over < 931 /\ press < 180
    [] risk = "low"      -> TRUE

FaultyKeeps(risk, proposed) == Order(proposed) # Order(risk)
Keeps(risk, proposed) == Order(proposed) < Order(risk)

-----------------------------------------------------------------------------
Overload(d, l) == ((l.up - l.down) * 1000) \div (Design[d].up - Design[d].down)

Proposed(over, press) ==
  IF over > 1500 \/ press > 800 THEN "critical"
  ELSE IF over > 1200 \/ press > 500 THEN "high"
  ELSE IF over > 1000 \/ press > 200 THEN "medium" ELSE "low"

applyRiskHysteresis(risk, proposed, over, press) ==
  IF risk # None /\ Keeps(risk, proposed) /\ ~BelowBand(risk, over, press) THEN risk
  ELSE proposed

Over(r) == Overload(dam[r], levels[r])
ProposedFor(r) == Proposed(Over(r), pressure[r])

Init ==
  /\ store = [d \in Dams |-> None]
  /\ pc = [r \in Requests |-> "new"]
  /\ dam \in [Requests -> Dams]
  /\ levels = [r \in Requests |-> Design[dam[r]]]
  /\ pressure = [r \in Requests |-> 0]
  /\ prev = [r \in Requests |-> None]
  /\ answer = [r \in Requests |-> None]
  /\ alive = TRUE
  /\ stale = {}

Steps(r, from, to) == alive /\ pc[r] = from /\ pc' = [pc EXCEPT ![r] = to]

(* The levels are clamped and the solver runs. At the design levels, which  *)
(* the baseline run also has, the pressure does not change.                *)
Solve(r) ==
  /\ Steps(r, "new", "solved")
  /\ \E asked \in Asked :
       LET l == Clamped(dam[r], asked)
       IN /\ levels' = [levels EXCEPT ![r] = l]
          /\ \E p \in IF l = Design[dam[r]] THEN {0} ELSE Pressures :
               pressure' = [pressure EXCEPT ![r] = p]
  /\ UNCHANGED <<store, dam, prev, answer, alive, stale>>

ReadPrevious(r) ==
  /\ Steps(r, "solved", "read")
  /\ prev' = [prev EXCEPT ![r] = store[dam[r]]]
  /\ UNCHANGED <<store, dam, levels, pressure, answer, alive, stale>>

Answer(r) ==
  /\ Steps(r, "read", "done")
  /\ LET risk == applyRiskHysteresis(prev[r], ProposedFor(r), Over(r), pressure[r])
     IN /\ store' = [store EXCEPT ![dam[r]] = risk]
        /\ answer' = [answer EXCEPT ![r] = risk]
  /\ stale' = stale \cup {q \in Requests \ {r} : pc[q] = "read" /\ dam[q] = dam[r]}
  /\ UNCHANGED <<dam, levels, pressure, prev, alive>>

(* Two requests in the map at once, one of them writing: the runtime may    *)
(* notice and end the process, whichever dams they are about.              *)
ConcurrentMapAccess ==
  /\ alive
  /\ \E r, q \in Requests : r # q /\ pc[r] = "read" /\ pc[q] \in {"solved", "read"}
  /\ alive' = FALSE
  /\ pc' = [r \in Requests |-> IF pc[r] \in {"solved", "read"} THEN "cut" ELSE pc[r]]
  /\ UNCHANGED <<store, dam, levels, pressure, prev, answer, stale>>

Next ==
  \/ \E r \in Requests : Solve(r) \/ ReadPrevious(r) \/ Answer(r)
  \/ ConcurrentMapAccess

Spec == Init /\ [][Next]_vars

-----------------------------------------------------------------------------
(* PROPERTIES                                                             *)

(* Every variable has its type; the levels given to the solver lie in the   *)
(* allowed range with a head of at least 0.1 m, whatever was asked for.    *)
TypeOK ==
  /\ store \in [Dams -> Levels \cup {None}]
  /\ pc \in [Requests -> {"new", "solved", "read", "done", "cut"}]
  /\ dam \in [Requests -> Dams]
  /\ levels \in [Requests -> [up : Nat, down : Nat]]
  /\ \A r \in Requests : /\ levels[r].up \in 5..(Design[dam[r]].up * 5) \div 2
                         /\ levels[r].down \in 0..(levels[r].up - 1)
  /\ pressure \in [Requests -> Pressures \cup {0}]
  /\ prev \in [Requests -> Levels \cup {None}]
  /\ answer \in [Requests -> Levels \cup {None}]
  /\ alive \in BOOLEAN
  /\ stale \subseteq Requests

(* No answer is milder than what its own levels call for, whatever was      *)
(* stored before and however the requests interleave.                      *)
NeverUnderReported ==
  \A r \in Requests : answer[r] # None => Order(answer[r]) >= Order(ProposedFor(r))

(* What calls for each level, and the margin under it at which it is left:  *)
(* one twentieth of the head ratio and one tenth of the pressure.          *)
CallsFor == [medium |-> [over |-> 1000, press |-> 200], high |-> [over |-> 1200, press |-> 500],
             critical |-> [over |-> 1500, press |-> 800]]
WellUnder(risk, over, press) ==
  /\ over * 20 < CallsFor[risk].over * 19
  /\ press * 10 < CallsFor[risk].press * 9

(* The level stored for a dam falls only by a request about that dam, whose *)
(* own levels lie under what calls for the old level by the margin, or      *)
(* whose writer had read a level that another request has replaced since.  *)
LeftOnlyWithMargin ==
  [][\A d \in Dams : store[d] # None /\ Order(store'[d]) < Order(store[d]) =>
       \E r \in Requests : /\ pc[r] = "read" /\ pc'[r] = "done" /\ dam[r] = d
                           /\ WellUnder(store[d], Over(r), pressure[r]) \/ r \in stale]_vars
=============================================================================
