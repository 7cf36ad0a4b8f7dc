------------------------------ MODULE AlarmMQTT ------------------------------
(***************************************************************************)
(* The alarm service, backend/internal/alarm_mqtt/service.go.              *)
(*                                                                         *)
(* Two goroutines share the object: alarmLoop takes readings off the       *)
(* bus's AlarmRequestCh, evaluates them against the sensor's thresholds    *)
(* behind a ten-minute cooldown, stores an alarm row, publishes it over    *)
(* MQTT and, when that fails, appends it to the retry queue; retryLoop     *)
(* walks that queue every two seconds, holding retryMu for the whole walk. *)
(*                                                                         *)
(* The database row (alarm_records) and what the broker received outlive   *)
(* the process; the channel, the cooldowns and the retry queue do not.     *)
(*                                                                         *)
(* Time is abstracted to the order of events: a cooldown runs until        *)
(* CooldownExpires, a retry backs off until BackoffElapses.                *)
(***************************************************************************)
EXTENDS Integers, Sequences, FiniteSets

CONSTANTS
  Alarms,      \* identities of the AlarmRecord objects the service allocates
  Sensors,     \* sensor ids that may appear in a reading
  Values,      \* values a reading may carry
  Config,      \* sensor_config rows: [sensor -> [danger, warning]]
  Nil,         \* a threshold column that is NULL; no alarm in hand
  ChanCap,     \* capacity of AlarmRequestCh
  MaxRetries,  \* 30 in the code: retries before an alarm is dropped
  Faults,      \* faults a run injects: "db", "late", "crash" (see below)
  MaxOffers,   \* bound: readings offered in a behaviour
  MaxStarts    \* bound: times the process is started

ASSUME ConstantsAssumption ==
  /\ Nil \notin Alarms
  /\ Values \subseteq Int
  /\ DOMAIN Config \subseteq Sensors
  /\ \A s \in DOMAIN Config :
       /\ Config[s].danger \in Int \cup {Nil}
       /\ Config[s].warning \in Int \cup {Nil}
  /\ ChanCap \in Nat \ {0}
  /\ MaxRetries \in Nat
  /\ Faults \subseteq {"db", "late", "crash"}
  /\ MaxOffers \in Nat
  /\ MaxStarts \in Nat \ {0}

VARIABLES
  \* --- volatile: lost when the process ends
  life,        \* the process: "running", "stopping" (Stop called) or "dead"
  mqtt,        \* mqttClient: "nil", or connected "up" / "down"
  loaded,      \* sensors whose configuration is in sensorConfigs
  cooldowns,   \* per sensor: level of the reading whose cooldown runs, or Nil
  alarmCh,     \* AlarmRequestCh
  alarmPc,     \* where alarmLoop stands
  alarmCur,    \* the alarm alarmLoop is handling, or Nil
  retryQueue,  \* retryQueue: alarms in order
  retryCount,  \* retryItem.RetryCount
  backingOff,  \* alarms whose NextTry lies in the future
  hasId,       \* alarms whose ID field is > 0
  retryPc,     \* where retryLoop stands; other than "idle" it holds retryMu
  rest,        \* the part of the queue this pass has still to visit
  remaining,   \* the items this pass keeps
  sent,        \* alarms the client was handed whose publication then failed
  retryDue,    \* the items whose NextTry had passed when the pass began
  \* --- durable
  rows,        \* alarm_records: "absent", "open", or mqtt_published "published"
  got,         \* alarms of which a copy has reached the broker
  \* --- what the log and the metrics record
  raised,      \* IncAlarmTriggered
  acked,       \* "alarm pushed"
  dropped,     \* "exceeded max retries, dropped"
  lost,        \* alarms in hand, not acknowledged, when a process ended
  attempts,    \* calls of publishAlarm per alarm
  \* --- bounds
  offers,      \* readings offered so far
  starts       \* starts of the process so far

serviceVars == <<life, mqtt, loaded>>
alarmVars   == <<cooldowns, alarmCh, alarmPc, alarmCur>>
retryVars   == <<retryQueue, retryPc, rest, remaining, retryDue>>
itemVars    == <<retryCount, backingOff, hasId>>
brokerVars  == <<sent, got, acked, attempts>>
logVars     == <<raised, dropped, lost>>
boundVars   == <<offers, starts>>
vars == <<serviceVars, alarmVars, retryVars, itemVars, rows, brokerVars,
          logVars, boundVars>>

Levels == {"NORMAL", "WARNING", "DANGER"}
Readings == [sensor : Sensors, value : Values]

Elems(s) == {s[i] : i \in DOMAIN s}
Distinct(s) == \A i, j \in DOMAIN s : s[i] = s[j] => i = j

(* EvaluateThreshold: the danger threshold is tried first; a NULL column  *)
(* never triggers.                                                        *)
Reaches(value, threshold) == threshold # Nil /\ value >= threshold

EvaluateThreshold(value, cfg) ==
  IF Reaches(value, cfg.danger) THEN "DANGER"
  ELSE IF Reaches(value, cfg.warning) THEN "WARNING" ELSE "NORMAL"

-----------------------------------------------------------------------------
(* The decisions of the code that are easy to get wrong, each with a      *)
(* faulty variant; the properties are tested against the variants.        *)

FaultyHasRoom == TRUE
ChannelHasRoom == Len(alarmCh) < ChanCap             \* the send would not block

FaultyRetryMuFree == TRUE
RetryMuFree == retryPc \in {"idle", "exited"}        \* no pass is under way

FaultyKeptAtStart == retryQueue                      \* without the [:0]
KeptAtStart == <<>>                                  \* retryQueue[:0]

FaultyAfterFailedPublish == "mark"
AfterFailedPublish == "push"                         \* else-if: no mark

FaultyRetriesExhausted(a) == retryCount[a] > MaxRetries
RetriesExhausted(a) == retryCount[a] >= MaxRetries

FaultyIsDue(a) == a \notin retryDue
IsDue(a) == a \in retryDue                           \* now.After(NextTry)

FaultyStopNoticed == FALSE
StopNoticed == life = "stopping"                     \* ctx.Done is ready

-----------------------------------------------------------------------------
(* New, ConnectMQTT, UpdateSensorConfigs and Start, as the server calls   *)
(* them. The client stays nil for good when the first connection fails,   *)
(* and the configuration map stays empty when the startup query fails:    *)
(* the server logs both and goes on.                                      *)
FreshMemory ==
  /\ life' = "running"
  /\ mqtt' \in {"nil", "up"}
  /\ loaded' \in {DOMAIN Config, {}}
  /\ cooldowns' = [s \in Sensors |-> Nil]
  /\ alarmCh' = <<>>
  /\ alarmPc' = "idle"
  /\ alarmCur' = Nil
  /\ retryQueue' = <<>>
  /\ retryCount' = [a \in Alarms |-> 0]
  /\ backingOff' = {}
  /\ hasId' = {}
  /\ retryPc' = "idle"
  /\ rest' = <<>>
  /\ remaining' = <<>>
  /\ retryDue' = {}
  /\ sent' = {}

Init ==
  /\ life = "running"
  /\ mqtt \in {"nil", "up"}
  /\ loaded \in {DOMAIN Config, {}}
  /\ cooldowns = [s \in Sensors |-> Nil]
  /\ alarmCh = <<>>
  /\ alarmPc = "idle"
  /\ alarmCur = Nil
  /\ retryQueue = <<>>
  /\ retryCount = [a \in Alarms |-> 0]
  /\ backingOff = {}
  /\ hasId = {}
  /\ retryPc = "idle"
  /\ rest = <<>>
  /\ remaining = <<>>
  /\ retryDue = {}
  /\ sent = {}
  /\ rows = [a \in Alarms |-> "absent"]
  /\ got = {}
  /\ raised = {}
  /\ acked = {}
  /\ dropped = {}
  /\ lost = {}
  /\ attempts = [a \in Alarms |-> 0]
  /\ offers = 0
  /\ starts = 1

-----------------------------------------------------------------------------
(* The environment: readings, time, the network, the process.             *)

(* The receiver's non-blocking send of one reading; a send on a full      *)
(* channel takes the default branch and changes nothing here.             *)
Offer(m) ==
  /\ life # "dead"
  /\ offers < MaxOffers
  /\ offers' = offers + 1
  /\ ChannelHasRoom
  /\ alarmCh' = Append(alarmCh, m)
  /\ UNCHANGED <<serviceVars, cooldowns, alarmPc, alarmCur, retryVars,
                 itemVars, rows, brokerVars, logVars, starts>>

(* Ten minutes have passed since the cooldown was armed. *)
CooldownExpires(s) ==
  /\ life # "dead"
  /\ cooldowns[s] # Nil
  /\ cooldowns' = [cooldowns EXCEPT ![s] = Nil]
  /\ UNCHANGED <<serviceVars, alarmCh, alarmPc, alarmCur, retryVars, itemVars,
                 rows, brokerVars, logVars, boundVars>>

(* The clock passes the item's NextTry. *)
BackoffElapses(a) ==
  /\ life # "dead"
  /\ a \in backingOff
  /\ backingOff' = backingOff \ {a}
  /\ UNCHANGED <<serviceVars, alarmVars, retryVars, retryCount, hasId, rows,
                 brokerVars, logVars, boundVars>>

(* AutoReconnect restores a connection that was once made; it never makes *)
(* the first one.                                                         *)
ConnectionChanges ==
  /\ mqtt # "nil"
  /\ life # "dead"
  /\ mqtt' = IF mqtt = "up" THEN "down" ELSE "up"
  /\ UNCHANGED <<life, loaded, alarmVars, retryVars, itemVars, rows,
                 brokerVars, logVars, boundVars>>

(* A copy given up by its publisher reaches the broker after all. *)
CopyArrives(a) ==
  /\ mqtt = "up"
  /\ a \in sent \ got
  /\ got' = got \cup {a}
  /\ UNCHANGED <<serviceVars, alarmVars, retryVars, itemVars, rows, sent, acked,
                 attempts, logVars, boundVars>>

(* What the service still holds: the alarm alarmLoop works on and the     *)
(* retry items, which during a pass are those not yet visited and those   *)
(* kept.                                                                  *)
InQueue ==
  IF retryPc \in {"pass", "mark"} THEN Elems(rest) \cup Elems(remaining)
  ELSE Elems(retryQueue)
Custody == (Alarms \cap {alarmCur}) \cup InQueue

ProcessEnds ==
  /\ life' = "dead"
  /\ lost' = lost \cup (Custody \ acked)

(* The process is killed at any point. *)
Crash ==
  /\ "crash" \in Faults
  /\ life # "dead"
  /\ ProcessEnds
  /\ UNCHANGED <<mqtt, loaded, alarmVars, retryVars, itemVars, rows,
                 brokerVars, raised, dropped, boundVars>>

(* A new process: nothing reads alarm_records back into the retry queue.  *)
Restart ==
  /\ life = "dead"
  /\ starts < MaxStarts
  /\ starts' = starts + 1
  /\ FreshMemory
  /\ UNCHANGED <<rows, got, acked, attempts, logVars, offers>>

-----------------------------------------------------------------------------
(* alarmLoop.                                                             *)

(* One reading off the channel: evaluateAndPush up to the point where an  *)
(* alarm exists. CheckCooldown runs before EvaluateThreshold, and arms    *)
(* the cooldown whatever the evaluation then says.                        *)
EvaluateAndPush ==
  /\ life # "dead"
  /\ alarmPc = "idle"
  /\ alarmCh # <<>>
  /\ alarmCh' = Tail(alarmCh)
  /\ LET s     == Head(alarmCh).sensor
         level == EvaluateThreshold(Head(alarmCh).value, Config[s])
     IN \/ /\ s \notin loaded \/ cooldowns[s] # Nil
           /\ UNCHANGED <<cooldowns, alarmPc, alarmCur, raised>>
        \/ /\ s \in loaded /\ cooldowns[s] = Nil
           /\ cooldowns' = [cooldowns EXCEPT ![s] = level]
           /\ \/ level = "NORMAL" /\ UNCHANGED <<alarmPc, alarmCur, raised>>
              \/ /\ level # "NORMAL"
                 /\ \E a \in Alarms \ raised :
                      /\ alarmCur' = a
                      /\ raised' = raised \cup {a}
                 /\ alarmPc' = "insert"
  /\ UNCHANGED <<serviceVars, retryVars, itemVars, rows, brokerVars, dropped,
                 lost, boundVars>>

(* InsertAlarm under its five-second context: the row is written and its  *)
(* id returned, or nothing is written, or the commit is not reported.     *)
InsertAlarm ==
  /\ life # "dead"
  /\ alarmPc = "insert"
  /\ alarmPc' = "publish"
  /\ \/ /\ rows' = [rows EXCEPT ![alarmCur] = "open"]
        /\ hasId' = hasId \cup {alarmCur}
     \/ "db" \in Faults /\ UNCHANGED <<rows, hasId>>
     \/ "db" \in Faults /\ rows' = [rows EXCEPT ![alarmCur] = "open"]
                        /\ UNCHANGED hasId
  /\ UNCHANGED <<serviceVars, cooldowns, alarmCh, alarmCur, retryVars,
                 retryCount, backingOff, brokerVars, logVars, boundVars>>

(* publishAlarm returned nil: the QoS 2 exchange completed. The copy for  *)
(* the /all topic is handed to the client, not waited for, and read by    *)
(* nothing here: it is left out.                                          *)
PublishSucceeds(a) ==
  /\ mqtt = "up"
  /\ attempts' = [attempts EXCEPT ![a] = @ + 1]
  /\ got' = got \cup {a}
  /\ acked' = acked \cup {a}
  /\ UNCHANGED sent

(* publishAlarm returned an error: not connected, or the token failed or  *)
(* was not complete after five seconds, in which case the client may      *)
(* deliver the message all the same, now or when it has reconnected.      *)
PublishFails(a) ==
  /\ attempts' = [attempts EXCEPT ![a] = @ + 1]
  /\ \/ UNCHANGED sent
     \/ "late" \in Faults /\ mqtt # "nil" /\ sent' = sent \cup {a}
  /\ UNCHANGED <<got, acked>>

PersistAndPublish ==
  /\ life # "dead"
  /\ alarmPc = "publish"
  /\ \/ /\ PublishSucceeds(alarmCur)
        /\ IF alarmCur \in hasId
           THEN alarmPc' = "mark" /\ UNCHANGED alarmCur
           ELSE alarmPc' = "idle" /\ alarmCur' = Nil
     \/ /\ PublishFails(alarmCur)
        /\ alarmPc' = AfterFailedPublish
        /\ UNCHANGED alarmCur
  /\ UNCHANGED <<serviceVars, cooldowns, alarmCh, retryVars, itemVars, rows,
                 logVars, boundVars>>

(* UpdateAlarmMQTTPublished, whose error is ignored. *)
MarkPublished(a) ==
  \/ rows' = [rows EXCEPT ![a] = "published"]
  \/ "db" \in Faults /\ UNCHANGED rows

AlarmMark ==
  /\ life # "dead"
  /\ alarmPc = "mark"
  /\ MarkPublished(alarmCur)
  /\ alarmPc' = "idle"
  /\ alarmCur' = Nil
  /\ UNCHANGED <<serviceVars, cooldowns, alarmCh, retryVars, itemVars,
                 brokerVars, logVars, boundVars>>

(* pushRetry: needs retryMu, which a retry pass holds from end to end. *)
PushRetry ==
  /\ life # "dead"
  /\ alarmPc = "push"
  /\ RetryMuFree
  /\ retryQueue' = Append(retryQueue, alarmCur)
  /\ retryCount' = [retryCount EXCEPT ![alarmCur] = 0]
  /\ backingOff' = backingOff \cup {alarmCur}
  /\ alarmPc' = "idle"
  /\ alarmCur' = Nil
  /\ UNCHANGED <<serviceVars, cooldowns, alarmCh, hasId, retryPc, rest,
                 remaining, retryDue, rows, brokerVars, logVars, boundVars>>

-----------------------------------------------------------------------------
(* retryLoop: one pass of processRetry, item by item.                     *)

(* The ticker fires: retryMu is taken and the pass works with this now.   *)
RetryTick ==
  /\ life # "dead"
  /\ retryPc = "idle"
  /\ retryQueue # <<>>
  /\ retryPc' = "pass"
  /\ rest' = retryQueue
  /\ remaining' = KeptAtStart
  /\ retryDue' = Elems(retryQueue) \ backingOff
  /\ UNCHANGED <<serviceVars, alarmVars, retryQueue, itemVars, rows,
                 brokerVars, logVars, boundVars>>

RetryVisits(a) ==
  /\ life # "dead"
  /\ retryPc = "pass"
  /\ rest # <<>>
  /\ a = Head(rest)

(* RetryCount has reached the limit: dropped, due or not. *)
RetryDrop ==
  \E a \in Alarms :
    /\ RetryVisits(a)
    /\ RetriesExhausted(a)
    /\ dropped' = dropped \cup {a}
    /\ rest' = Tail(rest)
    /\ UNCHANGED <<serviceVars, alarmVars, retryQueue, retryPc, remaining,
                   retryDue, itemVars, rows, brokerVars, raised, lost,
                   boundVars>>

(* Not due yet: kept for a later pass. *)
RetryKeep ==
  \E a \in Alarms :
    /\ RetryVisits(a)
    /\ ~RetriesExhausted(a)
    /\ ~IsDue(a)
    /\ remaining' = Append(remaining, a)
    /\ rest' = Tail(rest)
    /\ UNCHANGED <<serviceVars, alarmVars, retryQueue, retryPc, retryDue,
                   itemVars, rows, brokerVars, logVars, boundVars>>

RetryPublish ==
  \E a \in Alarms :
    /\ RetryVisits(a)
    /\ ~RetriesExhausted(a)
    /\ IsDue(a)
    /\ \/ /\ PublishSucceeds(a)
          /\ IF a \in hasId
             THEN retryPc' = "mark" /\ UNCHANGED rest
             ELSE rest' = Tail(rest) /\ UNCHANGED retryPc
          /\ UNCHANGED <<remaining, retryCount, backingOff>>
       \/ /\ PublishFails(a)
          /\ retryCount' = [retryCount EXCEPT ![a] = @ + 1]
          /\ backingOff' = backingOff \cup {a}
          /\ remaining' = Append(remaining, a)
          /\ rest' = Tail(rest)
          /\ UNCHANGED retryPc
    /\ UNCHANGED <<serviceVars, alarmVars, retryQueue, retryDue, hasId, rows,
                   logVars, boundVars>>

RetryMark ==
  /\ life # "dead"
  /\ retryPc = "mark"
  /\ MarkPublished(Head(rest))
  /\ rest' = Tail(rest)
  /\ retryPc' = "pass"
  /\ UNCHANGED <<serviceVars, alarmVars, retryQueue, remaining, retryDue,
                 itemVars, brokerVars, logVars, boundVars>>

(* The pass is over: the kept items are the queue, retryMu is released. *)
RetryPassEnds ==
  /\ life # "dead"
  /\ retryPc = "pass"
  /\ rest = <<>>
  /\ retryQueue' = remaining
  /\ remaining' = <<>>
  /\ retryDue' = {}
  /\ retryPc' = "idle"
  /\ UNCHANGED <<serviceVars, alarmVars, rest, itemVars, rows, brokerVars,
                 logVars, boundVars>>

-----------------------------------------------------------------------------
(* Stop: cancel the context and close retryStop, wait for both loops,     *)
(* disconnect. Each loop notices only between two pieces of work, and     *)
(* alarmLoop may still pick a reading, since select chooses at random.    *)
Stop ==
  /\ life = "running"
  /\ life' = "stopping"
  /\ UNCHANGED <<mqtt, loaded, alarmVars, retryVars, itemVars, rows,
                 brokerVars, logVars, boundVars>>

AlarmLoopExits ==
  /\ StopNoticed
  /\ alarmPc = "idle"
  /\ alarmPc' = "exited"
  /\ UNCHANGED <<serviceVars, cooldowns, alarmCh, alarmCur, retryVars,
                 itemVars, rows, brokerVars, logVars, boundVars>>

RetryLoopExits ==
  /\ StopNoticed
  /\ retryPc = "idle"
  /\ retryPc' = "exited"
  /\ UNCHANGED <<serviceVars, alarmVars, retryQueue, rest, remaining,
                 retryDue, itemVars, rows, brokerVars, logVars, boundVars>>

StopReturns ==
  /\ life = "stopping"
  /\ alarmPc = "exited" /\ retryPc = "exited"
  /\ ProcessEnds
  /\ mqtt' = IF mqtt = "up" THEN "down" ELSE mqtt
  /\ UNCHANGED <<loaded, alarmVars, retryVars, itemVars, rows, brokerVars,
                 raised, dropped, boundVars>>

-----------------------------------------------------------------------------
AlarmLoop == EvaluateAndPush \/ InsertAlarm \/ PersistAndPublish \/ AlarmMark
RetryPass == RetryDrop \/ RetryKeep \/ RetryPublish \/ RetryMark \/ RetryPassEnds
Environment ==
  \/ \E m \in Readings : Offer(m)
  \/ \E s \in Sensors : CooldownExpires(s)
  \/ \E a \in Alarms : BackoffElapses(a) \/ CopyArrives(a)
  \/ ConnectionChanges
  \/ Crash
  \/ Restart
  \/ Stop

Next ==
  \/ AlarmLoop
  \/ PushRetry
  \/ RetryTick
  \/ RetryPass
  \/ AlarmLoopExits
  \/ RetryLoopExits
  \/ StopReturns
  \/ Environment

Spec == Init /\ [][Next]_vars

(* Both goroutines run when they can: each publish and each database call  *)
(* has its own deadline, so no step blocks for good. A goroutine waiting   *)
(* for retryMu gets it in the end (sync.Mutex hands the lock over to a     *)
(* waiter that has starved), and a select over a ready ctx.Done picks it   *)
(* in the end: hence strong fairness for these. Time passes. Neither the   *)
(* connection nor the process owes anything.                               *)
Fairness ==
  /\ WF_vars(AlarmLoop)
  /\ SF_vars(PushRetry)
  /\ WF_vars(RetryTick)
  /\ WF_vars(RetryPass)
  /\ \A a \in Alarms : WF_vars(BackoffElapses(a))
  /\ SF_vars(AlarmLoopExits)
  /\ SF_vars(RetryLoopExits)
  /\ WF_vars(StopReturns)

FairSpec == Spec /\ Fairness

-----------------------------------------------------------------------------
(* PROPERTIES                                                             *)

ServiceTypes ==
  /\ life \in {"running", "stopping", "dead"}
  /\ mqtt \in {"nil", "up", "down"}
  /\ loaded \in {DOMAIN Config, {}}
  /\ offers \in 0..MaxOffers
  /\ starts \in 1..MaxStarts

LoopTypes ==
  /\ cooldowns \in [Sensors -> Levels \cup {Nil}]
  /\ alarmCh \in Seq(Readings) /\ Len(alarmCh) <= ChanCap
  /\ alarmPc \in {"idle", "insert", "publish", "mark", "push", "exited"}
  /\ alarmCur \in Alarms \cup {Nil}
  /\ alarmCur = Nil <=> alarmPc \in {"idle", "exited"}

RetryTypes ==
  /\ retryPc \in {"idle", "pass", "mark", "exited"}
  /\ retryQueue \in Seq(Alarms)
  /\ rest \in Seq(Alarms)
  /\ remaining \in Seq(Alarms)
  /\ retryDue \subseteq Alarms
  /\ retryPc \in {"idle", "exited"} => rest = <<>> /\ remaining = <<>>
  /\ retryPc = "mark" => rest # <<>>

ItemTypes ==
  /\ retryCount \in [Alarms -> 0..MaxRetries]
  /\ backingOff \subseteq Alarms
  /\ hasId \subseteq Alarms

RecordTypes ==
  /\ rows \in [Alarms -> {"absent", "open", "published"}]
  /\ sent \subseteq Alarms
  /\ got \subseteq Alarms
  /\ attempts \in [Alarms -> Nat]
  /\ raised \subseteq Alarms
  /\ acked \subseteq Alarms
  /\ dropped \subseteq Alarms
  /\ lost \subseteq Alarms

(* Every variable has its type; the channel never exceeds its capacity.   *)
TypeOK == ServiceTypes /\ LoopTypes /\ RetryTypes /\ ItemTypes /\ RecordTypes

(* No alarm vanishes between the two goroutines: whatever was raised is    *)
(* in hand, acknowledged, dropped with a log line, or went down with a     *)
(* process. A retry pass rebuilds the queue in place (service.go:281-301)  *)
(* while alarmLoop wants to append to it; only retryMu keeps an append     *)
(* from being overwritten.                                                 *)
NoAlarmVanishes ==
  raised = (IF life = "dead" THEN {} ELSE Custody) \cup acked \cup dropped \cup lost

(* An alarm is handled by one goroutine at a time and queued once: no two  *)
(* positions of the queue (the items kept and those still to visit, during *)
(* a pass) hold the same alarm, and none the one alarmLoop works on.       *)
CustodyUnique ==
  /\ Distinct(retryQueue) /\ Distinct(rest) /\ Distinct(remaining)
  /\ Elems(rest) \cap Elems(remaining) = {}
  /\ alarmCur \notin InQueue

(* A row says mqtt_published only if the broker has confirmed the alarm:   *)
(* the flag is set by either goroutine, in a later step than the publish,  *)
(* by an id that was assigned in an earlier one.                           *)
FlaggedRowWasConfirmed ==
  \A a \in Alarms : rows[a] = "published" => a \in acked \cap got

(* An alarm is given up only after the first publish and MaxRetries        *)
(* retries all failed, and none is ever tried more often than that.        *)
DroppedOnlyAfterAllTries ==
  \A a \in Alarms :
    /\ attempts[a] <= MaxRetries + 1
    /\ a \in dropped => attempts[a] = MaxRetries + 1 /\ a \notin acked

(* What the service records of an alarm's fate is true.                     *)
OutcomesAreTrue == FlaggedRowWasConfirmed /\ DroppedOnlyAfterAllTries

(* Once the broker has confirmed an alarm it is never published again, by  *)
(* either goroutine or a later process.                                    *)
AckedIsFinal == [][\A a \in acked : attempts'[a] = attempts[a]]_vars

(* A DANGER reading that alarmLoop takes and raises no alarm for is masked *)
(* by a cooldown that an alarming reading armed: the cooldown suppresses   *)
(* repeated alarms, not first ones. The code arms it on normal readings.   *)
DangerMaskedOnlyByAlarm ==
  [][\A s \in loaded :
       (/\ alarmCh # <<>> /\ alarmCh' = Tail(alarmCh) /\ raised' = raised
        /\ Head(alarmCh).sensor = s
        /\ EvaluateThreshold(Head(alarmCh).value, Config[s]) = "DANGER")
       => cooldowns[s] \in {"WARNING", "DANGER"}]_vars

(* The goroutines, the queue and the lock together do what AlarmDelivery   *)
(* says of each alarm.                                                     *)
Status(a) ==
  IF a \in acked THEN "confirmed"
  ELSE IF a \in dropped THEN "dropped"
  ELSE IF a \in lost THEN "lost"
  ELSE IF a \in raised THEN "pending" ELSE "none"

Abstract == INSTANCE AlarmDelivery WITH
  status <- [a \in Alarms |-> Status(a)],
  flagged <- {a \in Alarms : rows[a] = "published"}

ImplementsDelivery == Abstract!Spec

(* Every alarm raised is in the end confirmed, dropped or lost with the    *)
(* process: no alarm waits for ever behind the lock or in the queue.       *)
AlarmSettles ==
  \A a \in Alarms : a \in raised ~> a \in acked \cup dropped \cup lost

(* Stop returns: both loops finish the work in hand and notice it.         *)
StopTerminates == life = "stopping" ~> life = "dead"
=============================================================================
