-------------------------- MODULE MCRequestService --------------------------
(* Small instances of RequestService: the simulator, which stores grids,   *)
(* and the optimiser, stopped in this order.                               *)
EXTENDS RequestService, TLC

CONSTANTS sim, opt, c1, c2, c3

MCWorkers == {sim, opt}
MCGridWorkers == {sim}
MCStopOrder == <<sim, opt>>

(* Three calls of one worker fill its hand, its channel and the sender.    *)
MCTargetOne == c1 :> sim @@ c2 :> sim @@ c3 :> sim

(* Calls that have not reached the worker's channel are alike, and each      *)
(* leaves the place before it once: it is enough to let them arrive, and    *)
(* then leave the sender's place, in this order.                           *)
Stage(c) == CASE pc[c] = "new" -> 0 [] pc[c] = "sending" -> 1 [] OTHER -> 2
InOrder == Stage(c1) >= Stage(c2) /\ Stage(c2) >= Stage(c3)
=============================================================================
