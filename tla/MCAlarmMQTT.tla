---------------------------- MODULE MCAlarmMQTT ----------------------------
(* Small instances of AlarmMQTT for TLC.                                  *)
EXTENDS AlarmMQTT, TLC

(* One sensor with both thresholds, one sensor without a warning          *)
(* threshold, and (in Sensors only) one that has no configuration row.    *)
CONSTANTS s1, s2

MCConfig == s1 :> [danger |-> 2, warning |-> 1]
MCConfigTwo == s1 :> [danger |-> 2, warning |-> 1] @@ s2 :> [danger |-> 1, warning |-> Nil]

AlarmSymmetry == Permutations(Alarms)
=============================================================================
