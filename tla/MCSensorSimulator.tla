------------------------- MODULE MCSensorSimulator -------------------------
(* Small instances of SensorSimulator.                                     *)
EXTENDS SensorSimulator

MCDefaults == [up |-> 2, down |-> 1, perm |-> 1]

Unset == [up |-> -1, down |-> -1, perm |-> -1, speed |-> 10]
MCEnv == {[Unset EXCEPT !.up = 3, !.perm = 2, !.speed = -10]}

(* Everything; and one field, with two that say "leave alone" and one that  *)
(* is absent.                                                              *)
MCBodies == {
  [up |-> 4, down |-> 0, perm |-> 3, speed |-> 20],
  [up |-> -1, down |-> -1, perm |-> 1] }

MCPartial == { [perm |-> 2] }
=============================================================================
