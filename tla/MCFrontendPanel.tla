--------------------------- MODULE MCFrontendPanel ---------------------------
(* Small instances of FrontendPanel.                                       *)
EXTENDS FrontendPanel

CONSTANTS sim, again, opt, stored, dflt

MCKind == [o \in Ops |->
  CASE o \in {sim, again} -> "simulation"
    [] o = opt -> "optimization"
    [] o = stored -> "load"
    [] OTHER -> "default"]

(* Operations and alarms share nothing but boot: exploring the behaviours   *)
(* in which one of the two rests reaches every state of each.              *)
OneAtATime ==
  \/ \A o \in Ops : pc[o] = "new"
  \/ /\ \A a \in Alarms : alarm[a] = "none"
     /\ \A l \in Loads : load[l] = "idle"
     /\ removals = 0
=============================================================================
