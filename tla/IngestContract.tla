--------------------------- MODULE IngestContract ---------------------------
(***************************************************************************)
(* What an upload of readings may rely on, without handlers, channels and   *)
(* loops: its readings become durable all at once; only then may they be    *)
(* evaluated against the alarm thresholds, each at most once and in the     *)
(* order of the upload, some of them perhaps never; only then is the upload *)
(* acknowledged or mirrored over MQTT, each at most once.                   *)
(***************************************************************************)
EXTENDS Integers, Sequences

CONSTANT Uploads

VARIABLES
  size,          \* per upload: how many readings it carries, 0 before it arrived
  stored,        \* uploads whose readings are in the database
  evaluated,     \* per upload: the indices of the readings evaluated so far
  acknowledged,  \* uploads answered with success
  mirrored       \* uploads whose readings went to the MQTT data topic

contractVars == <<size, stored, evaluated, acknowledged, mirrored>>

Init ==
  /\ size = [u \in Uploads |-> 0]
  /\ stored = {}
  /\ evaluated = [u \in Uploads |-> <<>>]
  /\ acknowledged = {}
  /\ mirrored = {}

Arrive(u) ==
  /\ size[u] = 0
  /\ size'[u] \in Nat
  /\ size' = [size EXCEPT ![u] = size'[u]]
  /\ UNCHANGED <<stored, evaluated, acknowledged, mirrored>>

Store(u) ==
  /\ size[u] > 0
  /\ u \notin stored
  /\ stored' = stored \cup {u}
  /\ UNCHANGED <<size, evaluated, acknowledged, mirrored>>

Evaluate(u, i) ==
  /\ u \in stored
  /\ \A k \in DOMAIN evaluated[u] : evaluated[u][k] < i
  /\ evaluated' = [evaluated EXCEPT ![u] = Append(@, i)]
  /\ UNCHANGED <<size, stored, acknowledged, mirrored>>

Acknowledge(u) ==
  /\ u \in stored \ acknowledged
  /\ acknowledged' = acknowledged \cup {u}
  /\ UNCHANGED <<size, stored, evaluated, mirrored>>

Mirror(u) ==
  /\ u \in stored \ mirrored
  /\ mirrored' = mirrored \cup {u}
  /\ UNCHANGED <<size, stored, evaluated, acknowledged>>

Next ==
  \E u \in Uploads :
    \/ Arrive(u)
    \/ Store(u)
    \/ \E i \in 1 .. size[u] : Evaluate(u, i)
    \/ Acknowledge(u)
    \/ Mirror(u)

Spec == Init /\ [][Next]_contractVars
=============================================================================
