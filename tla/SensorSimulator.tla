--------------------------- MODULE SensorSimulator ---------------------------
(***************************************************************************)
(* The DTU sensor simulator, simulator/sensor_simulator.go.                *)
(*                                                                         *)
(* The main loop produces a batch of readings per cycle and uploads it;    *)
(* POST /config changes the configuration and the sensors' base values      *)
(* while it runs; POST /trigger-alarm uploads one manual reading. They      *)
(* share the configuration (cfgMu), the sensors (sensorMu) and the latest   *)
(* readings (latestMu, held only for one assignment or copy and therefore   *)
(* part of the step that takes it).                                        *)
(*                                                                         *)
(* A base value is described by where it comes from: the water level or     *)
(* permeability it was derived from, and for the piezometers the            *)
(* permeability factors multiplied into it since the level was last set.    *)
(* Noise, drift, random events and the simulated time are left out.         *)
(***************************************************************************)
EXTENDS Integers, Sequences

CONSTANTS
  Posts,       \* POST /config requests, one goroutine each
  Triggers,    \* POST /trigger-alarm requests
  Bodies,      \* request bodies: records of the fields the JSON object names
  EnvConfigs,  \* configurations the environment variables may give
  Defaults,    \* the levels and the permeability the built-in bases stand for
  Nil          \* nobody

Fields == {"up", "down", "perm", "speed"}
(* The five piezometers behave alike and are one; the scour and line        *)
(* sensors, which no update touches, are left out.                         *)
Sensors == {"WL-001", "WL-002", "SM-001", "PZ"}

(* Speeds are in tenths; less than zero in a level or the permeability: no  *)
(* override. loadConfig takes what the environment says, whatever its sign. *)
Configs == [up : Int, down : Int, perm : Int, speed : Int]
Settings == {"up", "down", "perm"}      \* the fields that base values derive from

ASSUME SimulatorAssumption ==
  /\ \A b \in Bodies : DOMAIN b \subseteq Fields /\ \A f \in DOMAIN b : b[f] \in Int
  /\ EnvConfigs \subseteq Configs
  /\ Defaults \in [up : Nat, down : Nat, perm : Nat]
  /\ Nil \notin Posts \cup Triggers \cup Sensors \cup Configs /\ "loop" \notin Triggers
  /\ Posts \cap Triggers = {}

VARIABLES
  cfg,        \* the configuration
  cfgWriter,  \* the request that holds cfgMu for writing
  base,       \* the sensors' base values, by what they derive from
  sensorMu,   \* the request that holds sensorMu
  latest,     \* per sensor: who wrote its latest reading
  pc,         \* per request: where its handler stands
  body,       \* per POST: the body
  merged,     \* per POST: the merged copy of the configuration
  todo,       \* per POST: base values still to update
  target,     \* per trigger: the sensor
  loopPc,     \* the main loop: "idle", "collect", "send"
  \* --- history, read by the properties only
  newest,     \* per sensor: who produced its newest reading
  alone,      \* the update under way, unless another has been under way with it
  unsettled,  \* settings not changed by an update alone since updates overlapped
  factors     \* permeabilities configured since the upstream level was

cfgVars    == <<cfg, cfgWriter>>
sensorVars == <<base, sensorMu>>
historyVars == <<alone, unsettled, factors>>
postVars   == <<body, merged, todo, historyVars>>
statusVars == <<latest, newest>>
vars == <<cfgVars, sensorVars, postVars, statusVars, loopPc, pc, target>>

-----------------------------------------------------------------------------
(* Decisions that are easy to get wrong, each after a faulty variant.     *)

(* handlePostConfig decodes into a zero Config: an absent field is 0.      *)
Decoded(b, f) == IF f \in DOMAIN b THEN b[f] ELSE 0

FaultyCounts(b, f) == Decoded(b, f) >= 0
Counts(b, f) == IF f = "speed" THEN Decoded(b, f) > 0 ELSE Decoded(b, f) >= 0

(* UpdateConfig acts on a setting that is given and differs from the old.   *)
Changed(old, new, f) == new[f] >= 0 /\ new[f] # old[f]

FaultyUpdates(old, new) ==              \* the level, set last, drops the new factor
  LET If(f, s) == IF Changed(old, new, f) THEN s ELSE <<>>
  IN If("perm", <<"sm", "pzFactor">>) \o If("up", <<"wl1", "pzLevel">>) \o If("down", <<"wl2">>)
Updates(old, new) ==
  LET If(f, s) == IF Changed(old, new, f) THEN s ELSE <<>>
  IN If("up", <<"wl1", "pzLevel">>) \o If("down", <<"wl2">>) \o If("perm", <<"sm", "pzFactor">>)

FaultyWriterAfterStore(h) == h          \* defer cfgMu.Unlock()
WriterAfterStore(h) == Nil

FaultyMuAfterProducing(t) == Nil        \* sensorMu released before latest is written
MuAfterProducing(t) == t

-----------------------------------------------------------------------------
(* updatePZByPermeability multiplies what is there, by one for the default; *)
(* updatePZByUpstreamWL starts again from the built-in base, so that the    *)
(* factors multiplied in so far are lost.                                  *)
Scaled(s, p) == IF p = Defaults.perm THEN s ELSE Append(s, p)

Updated(b, u, c) ==
  CASE u = "wl1"      -> [b EXCEPT !.wl1 = c.up]
    [] u = "pzLevel"  -> [b EXCEPT !.pzLevel = c.up, !.pzFactors = <<>>]
    [] u = "wl2"      -> [b EXCEPT !.wl2 = c.down]
    [] u = "sm"       -> [b EXCEPT !.sm = c.perm]
    [] u = "pzFactor" -> [b EXCEPT !.pzFactors = Scaled(@, c.perm)]

BuiltIn == [wl1 |-> Defaults.up, wl2 |-> Defaults.down, sm |-> Defaults.perm,
            pzLevel |-> Defaults.up, pzFactors |-> <<>>]

(* initSensors: the built-in bases, then applyConfigOverrides.             *)
Overridden(c) ==
  LET If(f, b, v) == IF c[f] >= 0 THEN v ELSE b
      levels == If("up", BuiltIn, Updated(Updated(BuiltIn, "wl1", c), "pzLevel", c))
      downs  == If("down", levels, Updated(levels, "wl2", c))
  IN If("perm", downs, Updated(Updated(downs, "sm", c), "pzFactor", c))

Init ==
  /\ cfg \in EnvConfigs
  /\ cfgWriter = Nil
  /\ base = Overridden(cfg)
  /\ sensorMu = Nil
  /\ latest = [s \in Sensors |-> Nil]
  /\ pc = [r \in Posts \cup Triggers |-> "new"]
  /\ body = [h \in Posts |-> Nil]
  /\ merged = [h \in Posts |-> Nil]
  /\ todo = [h \in Posts |-> <<>>]
  /\ target = [t \in Triggers |-> Nil]
  /\ loopPc = "idle"
  /\ newest = [s \in Sensors |-> Nil]
  /\ alone = Nil
  /\ unsettled = {}
  /\ factors = IF cfg.perm >= 0 THEN Scaled(<<>>, cfg.perm) ELSE <<>>

-----------------------------------------------------------------------------
(* POST /config.                                                          *)

Steps(r, from, to) == pc[r] = from /\ pc' = [pc EXCEPT ![r] = to]

InUpdate == {h \in Posts : pc[h] \notin {"new", "done"}}

(* For the properties: an update that comes while another is under way      *)
(* unsettles everything, one that has remained alone settles what it        *)
(* changes; and the factors that the permeabilities configured since the    *)
(* upstream level was last changed come to.                                *)
Meets(h) ==
  /\ alone' = IF InUpdate = {} THEN h ELSE Nil
  /\ unsettled' = IF InUpdate = {} THEN unsettled ELSE Settings
  /\ UNCHANGED factors

Settles(h) ==
  LET changed == {f \in Settings : Changed(cfg, merged[h], f)}
      kept == IF "up" \in changed THEN <<>> ELSE factors
  IN /\ unsettled' = IF alone = h THEN unsettled \ changed ELSE unsettled
     /\ factors' = IF "perm" \in changed THEN Scaled(kept, merged[h].perm) ELSE kept
     /\ UNCHANGED alone

(* The body is decoded; the copy is merged under the read lock.            *)
Merge(h) ==
  /\ Steps(h, "new", "store")
  /\ cfgWriter = Nil
  /\ \E b \in Bodies :
       /\ body' = [body EXCEPT ![h] = b]
       /\ merged' = [merged EXCEPT ![h] = [f \in Fields |-> IF Counts(b, f) THEN Decoded(b, f) ELSE cfg[f]]]
  /\ Meets(h)
  /\ UNCHANGED <<cfgVars, sensorVars, todo, statusVars, loopPc, target>>

(* UpdateConfig: the old values are read and the copy assigned.            *)
Store(h) ==
  /\ Steps(h, "store", "unlock")
  /\ cfgWriter = Nil
  /\ cfgWriter' = h
  /\ cfg' = merged[h]
  /\ todo' = [todo EXCEPT ![h] = Updates(cfg, merged[h])]
  /\ Settles(h)
  /\ UNCHANGED <<sensorVars, body, merged, statusVars, loopPc, target>>

Unlock(h) ==
  /\ Steps(h, "unlock", "apply")
  /\ cfgWriter' = WriterAfterStore(h)
  /\ UNCHANGED <<cfg, sensorVars, postVars, statusVars, loopPc, target>>

(* One of the update functions, each of which takes sensorMu for itself.   *)
Apply(h) ==
  /\ pc[h] = "apply"
  /\ todo[h] # <<>>
  /\ sensorMu = Nil
  /\ base' = Updated(base, Head(todo[h]), merged[h])
  /\ todo' = [todo EXCEPT ![h] = Tail(@)]
  /\ UNCHANGED <<cfgVars, sensorMu, pc, body, merged, historyVars, statusVars, loopPc, target>>

(* UpdateConfig has returned; the answer is the configuration as it is.    *)
Respond(h) ==
  /\ Steps(h, "apply", "done")
  /\ todo[h] = <<>>
  /\ cfgWriter \in {Nil, h}
  /\ cfgWriter' = Nil
  /\ body' = [body EXCEPT ![h] = Nil]
  /\ merged' = [merged EXCEPT ![h] = Nil]
  /\ UNCHANGED <<cfg, sensorVars, todo, historyVars, statusVars, loopPc, target>>

-----------------------------------------------------------------------------
(* POST /trigger-alarm for a known sensor and level: sensorMu is held while *)
(* the reading is made, recorded and labelled with the DTU's id.           *)

Produce(t) ==
  /\ Steps(t, "new", "record")
  /\ sensorMu = Nil
  /\ sensorMu' = MuAfterProducing(t)
  /\ \E s \in Sensors :
       /\ target' = [target EXCEPT ![t] = s]
       /\ newest' = [newest EXCEPT ![s] = t]
  /\ UNCHANGED <<cfgVars, base, postVars, latest, loopPc>>

Record(t) ==
  /\ Steps(t, "record", "label")
  /\ latest' = [latest EXCEPT ![target[t]] = t]
  /\ UNCHANGED <<cfgVars, sensorVars, postVars, newest, loopPc, target>>

(* dtuID is read; the upload, stamped with the real time, is started. It    *)
(* runs on its own, holding nothing, and is left out.                      *)
Label(t) ==
  /\ Steps(t, "label", "done")
  /\ cfgWriter = Nil
  /\ sensorMu' = IF sensorMu = t THEN Nil ELSE sensorMu
  /\ target' = [target EXCEPT ![t] = Nil]
  /\ UNCHANGED <<cfgVars, base, postVars, statusVars, loopPc>>

-----------------------------------------------------------------------------
(* The main loop.                                                         *)

(* The speed and the switch for random events are read.                    *)
CycleBegins ==
  /\ loopPc = "idle"
  /\ cfgWriter = Nil
  /\ loopPc' = "collect"
  /\ UNCHANGED <<cfgVars, sensorVars, postVars, statusVars, pc, target>>

Collect ==
  /\ loopPc = "collect"
  /\ sensorMu = Nil
  /\ latest' = [s \in Sensors |-> "loop"]
  /\ newest' = [s \in Sensors |-> "loop"]
  /\ loopPc' = "send"
  /\ UNCHANGED <<cfgVars, sensorVars, postVars, pc, target>>

(* sendData reads the address and the id; the receiver takes the batch or   *)
(* refuses it, or the request fails, which is logged. Either way the batch  *)
(* is forgotten.                                                           *)
Send ==
  /\ loopPc = "send"
  /\ cfgWriter = Nil
  /\ loopPc' = "sleep"
  /\ UNCHANGED <<cfgVars, sensorVars, postVars, statusVars, pc, target>>

(* The interval is computed from the configuration, and slept. A speed of   *)
(* zero makes it infinite, which converts to a duration that, in            *)
(* milliseconds, overflows to zero or less; a negative speed makes it       *)
(* negative: time.Sleep then returns at once and the loop does not pause.   *)
Sleep ==
  /\ loopPc = "sleep"
  /\ cfgWriter = Nil
  /\ loopPc' = "idle"
  /\ UNCHANGED <<cfgVars, sensorVars, postVars, statusVars, pc, target>>

-----------------------------------------------------------------------------
Post(h) == Merge(h) \/ Store(h) \/ Unlock(h) \/ Apply(h) \/ Respond(h)
Trigger(t) == Produce(t) \/ Record(t) \/ Label(t)
Loop == CycleBegins \/ Collect \/ Send \/ Sleep

Next ==
  \/ \E h \in Posts : Post(h)
  \/ \E t \in Triggers : Trigger(t)
  \/ Loop

Spec == Init /\ [][Next]_vars

(* A goroutine that waits for a lock gets it in the end, however often the  *)
(* others take it (both mutexes hand over to a waiter that has starved); a  *)
(* request need never come, but one that was begun goes on.                *)
Fairness ==
  /\ \A h \in Posts : SF_vars(pc[h] # "new" /\ Post(h))
  /\ \A t \in Triggers : SF_vars(pc[t] # "new" /\ Trigger(t))
  /\ SF_vars(Loop)

FairSpec == Spec /\ Fairness

-----------------------------------------------------------------------------
(* PROPERTIES                                                             *)

(* Every variable has its type; and whatever bodies are posted, the speed,  *)
(* by which the interval is divided, is one that the environment gave or    *)
(* more than zero: a request never makes it zero or negative                *)
(* (sensor_simulator.go:92, 419).                                          *)
TypeOK ==
  /\ cfg \in Configs
  /\ cfg.speed > 0 \/ \E c \in EnvConfigs : cfg.speed = c.speed
  /\ cfgWriter \in Posts \cup {Nil}
  /\ base \in [wl1 : Nat, wl2 : Nat, sm : Nat, pzLevel : Nat, pzFactors : Seq(Nat)]
  /\ sensorMu \in Triggers \cup {Nil}
  /\ latest \in [Sensors -> Triggers \cup {"loop", Nil}] /\ newest \in [Sensors -> Triggers \cup {"loop", Nil}]
  /\ pc \in [Posts \cup Triggers -> {"new", "store", "unlock", "apply", "record", "label", "done"}]
  /\ \A h \in Posts : pc[h] \notin {"record", "label"}
  /\ \A t \in Triggers : pc[t] \notin {"store", "unlock", "apply"}
  /\ body \in [Posts -> Bodies \cup {Nil}]
  /\ merged \in [Posts -> Configs \cup {Nil}]
  /\ todo \in [Posts -> Seq({"wl1", "pzLevel", "wl2", "sm", "pzFactor"})]
  /\ target \in [Triggers -> Sensors \cup {Nil}]
  /\ loopPc \in {"idle", "collect", "send", "sleep"}
  /\ alone \in Posts \cup {Nil} /\ unsettled \subseteq Settings /\ factors \in Seq(Nat)

(* The base values that derive from a setting are those it has in the       *)
(* configuration in force.                                                 *)
InForce(f) == IF cfg[f] >= 0 THEN cfg[f] ELSE Defaults[f]

Follows(f) ==
  CASE f = "up"   -> base.wl1 = InForce(f) /\ base.pzLevel = InForce(f)
    [] f = "down" -> base.wl2 = InForce(f)
    [] f = "perm" -> base.sm = InForce(f)

(* When no update is under way, both levels and the flow follow the         *)
(* configuration, and the piezometers its upstream level, although each is  *)
(* set under a lock of its own after the configuration's was released. Its  *)
(* permeability the piezometers do not follow: they are scaled by all that  *)
(* were configured since the upstream level was, and by none of those       *)
(* before (sensor_simulator.go:223-231, 247-257, 268-283). Excepted is what *)
(* updates that overlapped may have left behind, until an update that stays *)
(* alone changes the setting.                                              *)
SensorsFollowConfig ==
  InUpdate = {} =>
    /\ \A f \in Settings \ unsettled : Follows(f)
    /\ "up" \notin unsettled => base.pzFactors = factors

(* /status shows the newest reading of every sensor, whether the loop or a  *)
(* manual trigger produced it: readings are produced and recorded under one *)
(* hold of sensorMu (sensor_simulator.go:476-522, 633-642).                *)
LatestIsNewest == sensorMu = Nil => latest = newest

(* Every request that was begun is answered.                              *)
RequestsFinish == \A r \in Posts \cup Triggers : pc[r] # "new" ~> pc[r] = "done"

(* The main loop goes on uploading.                                       *)
LoopGoesOn == []<>(loopPc = "send")

(* Nobody waits for ever: the locks, of which a trigger holds one while it   *)
(* asks for another, are never waited for in a circle                      *)
(* (sensor_simulator.go:260, 505, 624).                                    *)
NobodyWaitsForEver == RequestsFinish /\ LoopGoesOn

(* An update leaves alone what its body does not name.                     *)
PartialUpdateKeepsRest ==
  [][\A h \in Posts : pc[h] = "store" /\ pc'[h] = "unlock" =>
       \A f \in Fields \ DOMAIN body[h] : cfg'[f] = cfg[f]]_vars
=============================================================================
