---------------------------- MODULE SensorIngest ----------------------------
(***************************************************************************)
(* How readings enter the backend: POST /dtu/data (api/server.go), the      *)
(* receiver (dtu_receiver/receiver.go) and the batch insert                 *)
(* (database/datastore.go).                                                 *)
(*                                                                         *)
(* Each upload runs in a handler of its own: it validates the payload,      *)
(* inserts the readings in one transaction, offers them one by one to the   *)
(* alarm channel and then as a batch to the receiver's channel, never       *)
(* waiting for room, and answers. Two goroutines empty the channels. On     *)
(* shutdown the bus is closed after the HTTP server was given 30 seconds.   *)
(*                                                                         *)
(* AlarmMQTT models what its loop does with a reading (its Offer is the     *)
(* send made here); the rows themselves are counted, not described.         *)
(***************************************************************************)
EXTENDS Integers, Sequences, FiniteSets

CONSTANTS
  Uploads,   \* HTTP requests, each with its handler goroutine
  Payloads,  \* the payloads a request may carry
  MaxBatch,  \* MaxSensorsPerBatch, 256
  AlarmCap,  \* capacity of AlarmRequestCh
  BatchCap,  \* capacity of SensorBatchCh
  Faults     \* faults a run injects: "db", "crash"

(* The times a payload or a reading may be stamped with: none, one the      *)
(* receiver accepts, one more than five minutes ahead of it.                *)
Stamps == {"none", "near", "ahead"}

(* A name of 51 to 64 characters passes the receiver but not the column     *)
(* VARCHAR(50), a value of nine digits not NUMERIC(14,6): "oversize".       *)
Fits == {"fits", "oversize", "invalid"}

ASSUME IngestAssumption ==
  /\ \A p \in Payloads : /\ p.dtu \in BOOLEAN
                         /\ p.stamp \in Stamps
                         /\ p.readings \in Seq([fit : Fits, stamp : Stamps])
  /\ MaxBatch \in Nat
  /\ AlarmCap \in Nat
  /\ BatchCap \in Nat
  /\ Faults \subseteq {"db", "crash"}

NoPayload == [dtu |-> FALSE, stamp |-> "none", readings |-> <<>>]

VARIABLES
  server,     \* "serving", "draining" (Shutdown), "stopping" (Stop), "exited", "killed"
  expired,    \* Shutdown's 30 seconds are over
  running,    \* the loops that have not returned: "receiver", "alarms"
  payload,    \* per upload: what it carries
  pc,         \* per upload: where its handler stands, or its answer
  next,       \* per upload: how many readings are inserted or offered so far
  gone,       \* uploads whose client has gone: the request's context is done
  alarmCh,    \* AlarmRequestCh: <<upload, index>>
  batchCh,    \* SensorBatchCh: uploads
  mirroring,  \* uploads with a PublishSensorData goroutine
  \* --- durable
  rows,       \* per upload: how many of its readings the database holds
  \* --- what log, metrics and broker see
  evaluated,  \* per upload: indices of the readings alarmLoop took, in order
  dropped,    \* per upload: indices logged as "channel full, dropping"
  unsure,     \* uploads whose commit failed or was not reported
  mirrored    \* uploads published on the data topic

serverVars  == <<server, expired, running>>
handlerVars == <<payload, pc, next, gone>>
channelVars == <<alarmCh, batchCh, mirroring>>
recordVars  == <<evaluated, dropped, unsure, mirrored>>
vars == <<serverVars, handlerVars, channelVars, rows, recordVars>>

Working == {"insert", "commit", "offer", "batch", "answer"}
Alive == server \notin {"exited", "killed"}
BusClosed == server = "stopping"
Active(u) == pc[u] \in Working
Readings(u) == payload[u].readings
Size(u) == Len(Readings(u))

-----------------------------------------------------------------------------
(* Validation.                                                            *)

(* The handler stamps what has no time with the payload's, and that with   *)
(* now when it has none.                                                    *)
StampOf(p, r) ==
  IF r.stamp # "none" THEN r.stamp
  ELSE IF p.stamp # "none" THEN p.stamp ELSE "near"

Valid(p) ==
  /\ p.dtu
  /\ Len(p.readings) \in 1 .. MaxBatch
  /\ \A i \in DOMAIN p.readings : /\ p.readings[i].fit # "invalid"
                                  /\ StampOf(p, p.readings[i]) # "ahead"

-----------------------------------------------------------------------------
(* Decisions that are easy to get wrong, each after a faulty variant.     *)

FaultyAfterError(u) == next[u]                       \* what was inserted stays
AfterError(u) == 0                                   \* deferred Rollback

FaultyAfterCommit(ok) == "offer"                     \* its error is not returned
AfterCommit(ok) == IF ok THEN "offer" ELSE "refused"

FaultyHasRoom == TRUE
HasRoom == Len(alarmCh) < AlarmCap

FaultyMayOffer(u) == HasRoom                         \* a send that waits
MayOffer(u) == TRUE                                  \* select with a default

FaultyRestOffered(u) == next[u] + 1 >= Size(u)       \* stops one short
RestOffered(u) == next[u] = Size(u)

FaultyDrained == TRUE                                \* Stop without Shutdown
Drained == expired \/ \A u \in Uploads : ~Active(u)

FaultyTaken == alarmCh                               \* looked at, not taken
Taken == Tail(alarmCh)

-----------------------------------------------------------------------------
Init ==
  /\ server = "serving"
  /\ expired = FALSE
  /\ running = {"receiver", "alarms"}
  /\ payload = [u \in Uploads |-> NoPayload]
  /\ pc = [u \in Uploads |-> "new"]
  /\ next = [u \in Uploads |-> 0]
  /\ gone = {}
  /\ alarmCh = <<>>
  /\ batchCh = <<>>
  /\ mirroring = {}
  /\ rows = [u \in Uploads |-> 0]
  /\ evaluated = [u \in Uploads |-> <<>>]
  /\ dropped = [u \in Uploads |-> {}]
  /\ unsure = {}
  /\ mirrored = {}

-----------------------------------------------------------------------------
(* The handler.                                                           *)

At(u, from) == Alive /\ pc[u] = from
Go(u, to) == pc' = [pc EXCEPT ![u] = to]

(* handleDTUDataUpload up to the validation, which touches nothing shared. *)
Upload(u) ==
  /\ server = "serving"
  /\ At(u, "new")
  /\ \E p \in Payloads :
       /\ payload' = [payload EXCEPT ![u] = p]
       /\ Go(u, IF Valid(p) THEN "insert" ELSE "refused")
  /\ UNCHANGED <<serverVars, next, gone, channelVars, rows, recordVars>>

(* The client hangs up or gives up waiting. *)
ClientGoes(u) ==
  /\ Alive
  /\ Active(u)
  /\ u \notin gone
  /\ gone' = gone \cup {u}
  /\ UNCHANGED <<serverVars, payload, pc, next, channelVars, rows, recordVars>>

MayFail(u) == "db" \in Faults \/ u \in gone

(* One INSERT of the transaction, which only the commit makes visible. *)
InsertReading(u) ==
  /\ At(u, "insert")
  /\ u \notin gone
  /\ next[u] < Size(u)
  /\ Readings(u)[next[u] + 1].fit = "fits"
  /\ next' = [next EXCEPT ![u] = @ + 1]
  /\ Go(u, IF next[u] + 1 = Size(u) THEN "commit" ELSE "insert")
  /\ UNCHANGED <<serverVars, payload, gone, channelVars, rows, recordVars>>

(* Begin or an INSERT fails: the handler answers 400. *)
InsertFails(u) ==
  /\ At(u, "insert")
  /\ MayFail(u) \/ Readings(u)[next[u] + 1].fit # "fits"
  /\ rows' = [rows EXCEPT ![u] = AfterError(u)]
  /\ Go(u, "refused")
  /\ UNCHANGED <<serverVars, payload, next, gone, channelVars, recordVars>>

(* Commit; an error leaves open whether the readings are there. *)
Commit(u) ==
  /\ At(u, "commit")
  /\ next' = [next EXCEPT ![u] = 0]
  /\ \/ /\ u \notin gone
        /\ rows' = [rows EXCEPT ![u] = Size(u)]
        /\ Go(u, AfterCommit(TRUE))
        /\ UNCHANGED unsure
     \/ /\ MayFail(u)
        /\ rows' \in {rows, [rows EXCEPT ![u] = Size(u)]}
        /\ Go(u, AfterCommit(FALSE))
        /\ unsure' = unsure \cup {u}
  /\ UNCHANGED <<serverVars, payload, gone, channelVars, evaluated, dropped,
                 mirrored>>

(* The next reading to the alarm channel, or to the log when it is full. *)
OfferReading(u) ==
  /\ At(u, "offer")
  /\ ~BusClosed
  /\ ~RestOffered(u)
  /\ MayOffer(u)
  /\ next' = [next EXCEPT ![u] = @ + 1]
  /\ \/ /\ HasRoom
        /\ alarmCh' = Append(alarmCh, <<u, next[u] + 1>>)
        /\ UNCHANGED dropped
     \/ /\ ~HasRoom
        /\ dropped' = [dropped EXCEPT ![u] = @ \cup {next[u] + 1}]
        /\ UNCHANGED alarmCh
  /\ UNCHANGED <<serverVars, payload, pc, gone, batchCh, mirroring, rows,
                 evaluated, unsure, mirrored>>

AllOffered(u) ==
  /\ At(u, "offer")
  /\ RestOffered(u)
  /\ Go(u, "batch")
  /\ UNCHANGED <<serverVars, payload, next, gone, channelVars, rows, recordVars>>

(* The batch to the receiver's channel, or to the log when it is full. *)
OfferBatch(u) ==
  /\ At(u, "batch")
  /\ ~BusClosed
  /\ batchCh' = IF Len(batchCh) < BatchCap THEN Append(batchCh, u) ELSE batchCh
  /\ Go(u, "answer")
  /\ UNCHANGED <<serverVars, payload, next, gone, alarmCh, mirroring, rows,
                 recordVars>>

(* A send on a closed channel panics, with or without a default branch;    *)
(* gin's recovery answers 500.                                             *)
SendPanics(u) ==
  /\ \/ At(u, "offer") /\ ~RestOffered(u)
     \/ At(u, "batch")
  /\ BusClosed
  /\ Go(u, "panicked")
  /\ UNCHANGED <<serverVars, payload, next, gone, channelVars, rows, recordVars>>

(* collectRecentAlarms only reads; PublishSensorData runs on its own. *)
Answer(u) ==
  /\ At(u, "answer")
  /\ Go(u, "success")
  /\ mirroring' = mirroring \cup {u}
  /\ UNCHANGED <<serverVars, payload, next, gone, alarmCh, batchCh, rows,
                 recordVars>>

Handler(u) ==
  \/ InsertReading(u) \/ InsertFails(u) \/ Commit(u) \/ OfferReading(u)
  \/ AllOffered(u) \/ OfferBatch(u) \/ SendPanics(u) \/ Answer(u)

(* PublishSensorData: nothing without a connection, else one message. *)
Mirror(u) ==
  /\ Alive
  /\ u \in mirroring
  /\ mirroring' = mirroring \ {u}
  /\ mirrored' \in {mirrored, mirrored \cup {u}}
  /\ UNCHANGED <<serverVars, handlerVars, alarmCh, batchCh, rows, evaluated,
                 dropped, unsure>>

-----------------------------------------------------------------------------
(* The loops.                                                             *)

(* alarmLoop takes one reading; AlarmMQTT says what becomes of it. *)
TakeReading ==
  /\ Alive
  /\ "alarms" \in running
  /\ alarmCh # <<>>
  /\ alarmCh' = Taken
  /\ evaluated' = [evaluated EXCEPT ![Head(alarmCh)[1]] = Append(@, Head(alarmCh)[2])]
  /\ UNCHANGED <<serverVars, handlerVars, batchCh, mirroring, rows, dropped,
                 unsure, mirrored>>

(* processSensorBatch only logs. *)
TakeBatch ==
  /\ Alive
  /\ "receiver" \in running
  /\ batchCh # <<>>
  /\ batchCh' = Tail(batchCh)
  /\ UNCHANGED <<serverVars, handlerVars, alarmCh, mirroring, rows, recordVars>>

(* A loop returns when it sees its closed channel empty or its context      *)
(* done; Server.Stop stops the receiver before it cancels the alarm loop.   *)
ReceiverReturns ==
  /\ BusClosed
  /\ "receiver" \in running
  /\ running' = running \ {"receiver"}
  /\ UNCHANGED <<server, expired, handlerVars, channelVars, rows, recordVars>>

AlarmLoopReturns ==
  /\ BusClosed
  /\ "alarms" \in running
  /\ alarmCh = <<>> \/ "receiver" \notin running
  /\ running' = running \ {"alarms"}
  /\ UNCHANGED <<server, expired, handlerVars, channelVars, rows, recordVars>>

-----------------------------------------------------------------------------
(* Shutting down (cmd/main.go, Server.Stop).                              *)

Signal ==
  /\ server = "serving"
  /\ server' = "draining"
  /\ UNCHANGED <<expired, running, handlerVars, channelVars, rows, recordVars>>

DrainExpires ==
  /\ server = "draining"
  /\ ~expired
  /\ expired' = TRUE
  /\ UNCHANGED <<server, running, handlerVars, channelVars, rows, recordVars>>

StopBegins ==
  /\ server = "draining"
  /\ Drained
  /\ server' = "stopping"
  /\ UNCHANGED <<expired, running, handlerVars, channelVars, rows, recordVars>>

Exit ==
  /\ server = "stopping"
  /\ running = {}
  /\ server' = "exited"
  /\ UNCHANGED <<expired, running, handlerVars, channelVars, rows, recordVars>>

Crash ==
  /\ "crash" \in Faults
  /\ Alive
  /\ server' = "killed"
  /\ UNCHANGED <<expired, running, handlerVars, channelVars, rows, recordVars>>

-----------------------------------------------------------------------------
Next ==
  \/ \E u \in Uploads : Upload(u) \/ ClientGoes(u) \/ Handler(u) \/ Mirror(u)
  \/ TakeReading \/ TakeBatch \/ ReceiverReturns \/ AlarmLoopReturns
  \/ Signal \/ DrainExpires \/ StopBegins \/ Exit \/ Crash

Spec == Init /\ [][Next]_vars

(* The handlers run, and the database answers them or its connection       *)
(* breaks. Nothing is assumed of the two loops, which may be held up by     *)
(* the broker for as long as they like, nor of clients and signals.         *)
FairSpec == Spec /\ \A u \in Uploads : WF_vars(Handler(u))

-----------------------------------------------------------------------------
(* PROPERTIES                                                             *)

ServerTypes ==
  /\ server \in {"serving", "draining", "stopping", "exited", "killed"}
  /\ expired \in BOOLEAN
  /\ running \subseteq {"receiver", "alarms"}

HandlerTypes ==
  /\ payload \in [Uploads -> Payloads \cup {NoPayload}]
  /\ pc \in [Uploads -> Working \cup {"new", "refused", "panicked", "success"}]
  /\ next \in [Uploads -> Nat]
  /\ gone \subseteq Uploads

ChannelTypes ==
  /\ alarmCh \in Seq(Uploads \X Nat)
  /\ Len(alarmCh) <= AlarmCap
  /\ batchCh \in Seq(Uploads)
  /\ Len(batchCh) <= BatchCap
  /\ mirroring \subseteq Uploads

RecordTypes ==
  /\ rows \in [Uploads -> Nat]
  /\ evaluated \in [Uploads -> Seq(Nat)]
  /\ dropped \in [Uploads -> SUBSET Nat]
  /\ unsure \subseteq Uploads
  /\ mirrored \subseteq Uploads

(* Every variable has its type, and no channel exceeds its capacity.      *)
TypeOK == ServerTypes /\ HandlerTypes /\ ChannelTypes /\ RecordTypes

Done(u) == {evaluated[u][k] : k \in DOMAIN evaluated[u]}
Waiting(u) == {i \in 1 .. Size(u) : \E k \in DOMAIN alarmCh : alarmCh[k] = <<u, i>>}

(* What the handler has still to offer; a panic or the end of the process  *)
(* leaves it unoffered for good.                                            *)
ToOffer(u) ==
  IF pc[u] \in {"offer", "panicked"} THEN next[u] + 1 .. Size(u) ELSE {}

(* Every reading the database holds is evaluated, waits to be, was logged   *)
(* as dropped, or is still in its handler's hands (receiver.go:112); the    *)
(* one exception is an upload whose commit did not report success, which    *)
(* is refused although its readings may be stored, and never evaluated.     *)
StoredReadingsAccounted ==
  \A u \in Uploads :
    rows[u] > 0 /\ u \notin unsure =>
      Done(u) \cup Waiting(u) \cup dropped[u] \cup ToOffer(u) = 1 .. Size(u)

(* An upload's readings are stored all or none, at every moment and after   *)
(* every failure in the middle of the transaction (datastore.go:51).       *)
AllOrNone == \A u \in Uploads : rows[u] \in {0, Size(u)}

(* The answer tells what the database holds: success that all readings are  *)
(* there, a refusal that none are, except when the outcome of the commit    *)
(* is not known (receiver.go:104, server.go:392).                          *)
AnswerTellsStored ==
  \A u \in Uploads :
    /\ pc[u] = "success" => rows[u] = Size(u) /\ u \notin unsure
    /\ pc[u] = "refused" => rows[u] = 0 \/ u \in unsure

(* No reading is stored whose time lies ahead or that carries no name, not  *)
(* even one that took its time from the payload (server.go:384).           *)
StoredAreValid ==
  \A u \in Uploads :
    rows[u] > 0 => \A i \in 1 .. rows[u] :
      /\ Readings(u)[i].fit = "fits"
      /\ Readings(u)[i].stamp # "ahead"
      /\ Readings(u)[i].stamp = "none" => payload[u].stamp # "ahead"

(* What the database holds of an upload is the whole batch or nothing, and   *)
(* a batch with one reading that does not pass is nothing.                 *)
OnlyWholeValidBatches == AllOrNone /\ StoredAreValid

(* A handler panics on the closed bus only after Shutdown's 30 seconds      *)
(* (main.go:85, bus.go:220), its readings being stored already.             *)
PanicsOnlyAfterDeadline ==
  \A u \in Uploads : pc[u] = "panicked" => expired /\ rows[u] = Size(u)

(* However an upload ends, its end tells what the database holds of it.     *)
EndTellsStored == AnswerTellsStored /\ PanicsOnlyAfterDeadline

(* Handlers, channels and loops together keep the contract of an upload.   *)
Contract == INSTANCE IngestContract WITH
  size <- [u \in Uploads |-> Size(u)],
  stored <- {u \in Uploads : rows[u] > 0},
  acknowledged <- {u \in Uploads : pc[u] = "success"}

ImplementsContract == Contract!Spec

(* An upload is answered whatever the loops do: a full channel drops        *)
(* readings and never makes the handler wait (receiver.go:113).            *)
UploadEnds == \A u \in Uploads : Active(u) ~> ~Active(u) \/ ~Alive
=============================================================================
