---------------------------- MODULE AlarmDelivery ----------------------------
(***************************************************************************)
(* What the alarm service promises about one alarm, without goroutines,    *)
(* queues or locks: an alarm is pending until its publication is confirmed,*)
(* until it is given up, or until the process that holds it ends; a copy    *)
(* may reach the broker from the moment it is raised, and has reached it    *)
(* when the alarm is confirmed; the row is flagged mqtt_published only      *)
(* after a confirmation.                                                    *)
(***************************************************************************)
CONSTANT Alarms

VARIABLES
  status,   \* [Alarms -> {"none", "pending", "confirmed", "dropped", "lost"}]
  got,      \* alarms of which a copy has reached the broker
  flagged   \* alarms whose row says mqtt_published

vars == <<status, got, flagged>>

Init ==
  /\ status = [a \in Alarms |-> "none"]
  /\ got = {}
  /\ flagged = {}

Moves(a, from, to) ==
  /\ status[a] = from
  /\ status' = [status EXCEPT ![a] = to]

Raise(a) == Moves(a, "none", "pending") /\ UNCHANGED <<got, flagged>>

(* A copy whose publication timed out reaches the broker: possibly late,   *)
(* when the alarm has been given up or lost already.                       *)
Reach(a) ==
  /\ status[a] # "none"
  /\ got' = got \cup {a}
  /\ UNCHANGED <<status, flagged>>

Confirm(a) ==
  /\ Moves(a, "pending", "confirmed")
  /\ got' = got \cup {a}
  /\ UNCHANGED flagged

Flag(a) ==
  /\ status[a] = "confirmed"
  /\ flagged' = flagged \cup {a}
  /\ UNCHANGED <<status, got>>

GiveUp(a) == Moves(a, "pending", "dropped") /\ UNCHANGED <<got, flagged>>

ProcessEnds ==
  /\ status' = [a \in Alarms |-> IF status[a] = "pending" THEN "lost"
                                 ELSE status[a]]
  /\ UNCHANGED <<got, flagged>>

Next ==
  \/ \E a \in Alarms : Raise(a) \/ Reach(a) \/ Confirm(a) \/ Flag(a) \/ GiveUp(a)
  \/ ProcessEnds

Spec == Init /\ [][Next]_vars
=============================================================================
