----------------------------- MODULE CallService -----------------------------
(***************************************************************************)
(* What the API promises about one long-running call (a simulation or an   *)
(* optimisation), without channels or worker goroutines: the work behind a  *)
(* call is done at most once; an answer comes from that work, and one that  *)
(* names a stored row comes after the row; a refused call is never worked   *)
(* on; a call that timed out may still be worked on and stored.             *)
(***************************************************************************)
EXTENDS Naturals

CONSTANT Calls

VARIABLES
  status,  \* per call: where it stands for the client
  runs,    \* per call: how often its work was begun
  saved    \* calls whose result is in the database

vars == <<status, runs, saved>>

Answers == {"stored", "unsaved", "failed"}

Init ==
  /\ status = [c \in Calls |-> "new"]
  /\ runs = [c \in Calls |-> 0]
  /\ saved = {}

Moves(c, from, to) ==
  /\ status[c] = from
  /\ status' = [status EXCEPT ![c] = to]
  /\ UNCHANGED <<runs, saved>>

Call(c) == Moves(c, "new", "pending")

Run(c) ==
  /\ status[c] \in {"pending", "timeout"}
  /\ runs[c] = 0
  /\ runs' = [runs EXCEPT ![c] = 1]
  /\ UNCHANGED <<status, saved>>

Save(c) ==
  /\ runs[c] = 1
  /\ saved' = saved \cup {c}
  /\ UNCHANGED <<status, runs>>

Answer(c) ==
  /\ runs[c] = 1
  /\ \E r \in Answers : (r = "stored" => c \in saved) /\ Moves(c, "pending", r)

Refuse(c) == runs[c] = 0 /\ Moves(c, "pending", "refused")

TimeOut(c) == Moves(c, "pending", "timeout")

(* The process ends: whoever still waits is cut off. *)
Ends ==
  /\ status' = [c \in Calls |-> IF status[c] = "pending" THEN "cut" ELSE status[c]]
  /\ UNCHANGED <<runs, saved>>

Next ==
  \/ \E c \in Calls : \/ Call(c) \/ Run(c) \/ Save(c)
                      \/ Answer(c) \/ Refuse(c) \/ TimeOut(c)
  \/ Ends

Spec == Init /\ [][Next]_vars
=============================================================================
