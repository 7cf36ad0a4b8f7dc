-------------------------- MODULE SensorIngestProofs --------------------------
(* Proofs about SensorIngest, for every value of its constants: any number *)
(* of uploads, any payloads and any capacities of the channels.            *)
EXTENDS SensorIngest, TLAPS

-----------------------------------------------------------------------------
(* The type invariant.                                                    *)

(* A step that leaves a group of variables alone leaves its types alone.  *)
LEMMA ServerTypesStable == ServerTypes /\ UNCHANGED serverVars => ServerTypes'
  BY DEF ServerTypes, serverVars

LEMMA HandlerTypesStable == HandlerTypes /\ UNCHANGED handlerVars => HandlerTypes'
  BY DEF HandlerTypes, handlerVars

LEMMA ChannelTypesStable == ChannelTypes /\ UNCHANGED channelVars => ChannelTypes'
  BY DEF ChannelTypes, channelVars

LEMMA RecordTypesStable ==
  RecordTypes /\ UNCHANGED <<rows, recordVars>> => RecordTypes'
  BY DEF RecordTypes, recordVars

(* Payloads have finitely many readings, each with its two fields.        *)
LEMMA PayloadType ==
  ASSUME HandlerTypes, NEW u \in Uploads
  PROVE  /\ Readings(u) \in Seq([fit : Fits, stamp : Stamps])
         /\ Size(u) \in Nat
         /\ DOMAIN Readings(u) = 1 .. Size(u)
<1>1. NoPayload.readings \in Seq([fit : Fits, stamp : Stamps])
  BY DEF NoPayload
<1>2. Readings(u) \in Seq([fit : Fits, stamp : Stamps])
  BY <1>1, IngestAssumption DEF HandlerTypes, Readings
<1>3. QED
  BY <1>2 DEF Size

LEMMA TypeInit == Init => TypeOK
<1> SUFFICES ASSUME Init PROVE TypeOK
  OBVIOUS
<1>1. ServerTypes /\ HandlerTypes
  BY DEF Init, ServerTypes, HandlerTypes, Working
<1>2. ChannelTypes
  BY IngestAssumption DEF Init, ChannelTypes
<1>3. RecordTypes
  BY DEF Init, RecordTypes
<1>4. QED
  BY <1>1, <1>2, <1>3 DEF TypeOK

(* One step per action of a handler.                                      *)
LEMMA HandlerTypeStep ==
  ASSUME TypeOK, NEW u \in Uploads, Handler(u)
  PROVE  TypeOK'
<1>0. ServerTypes /\ HandlerTypes /\ ChannelTypes /\ RecordTypes
  BY DEF TypeOK
<1>a. Size(u) \in Nat
  BY <1>0, PayloadType
<1>1. CASE InsertReading(u)
  <2>1. HandlerTypes'
    BY <1>0, <1>1 DEF InsertReading, HandlerTypes, Go, Working
  <2>2. QED
    BY <1>0, <1>1, <2>1, ServerTypesStable, ChannelTypesStable, RecordTypesStable
    DEF InsertReading, TypeOK
<1>2. CASE InsertFails(u)
  <2>1. HandlerTypes'
    BY <1>0, <1>2 DEF InsertFails, HandlerTypes, Go
  <2>2. RecordTypes'
    BY <1>0, <1>2 DEF InsertFails, RecordTypes, recordVars, AfterError
  <2>3. QED
    BY <1>0, <1>2, <2>1, <2>2, ServerTypesStable, ChannelTypesStable
    DEF InsertFails, TypeOK
<1>3. CASE Commit(u)
  <2>1. HandlerTypes'
    BY <1>0, <1>3 DEF Commit, HandlerTypes, Go, AfterCommit, Working
  <2>2. RecordTypes'
    BY <1>0, <1>3, <1>a DEF Commit, RecordTypes
  <2>3. QED
    BY <1>0, <1>3, <2>1, <2>2, ServerTypesStable, ChannelTypesStable
    DEF Commit, TypeOK
<1>4. CASE OfferReading(u)
  <2>1. HandlerTypes'
    BY <1>0, <1>4 DEF OfferReading, HandlerTypes
  <2>2. RecordTypes'
    <3>1. next[u] + 1 \in Nat
      BY <1>0 DEF HandlerTypes
    <3>2. dropped' \in [Uploads -> SUBSET Nat]
      <4>1. dropped \in [Uploads -> SUBSET Nat] /\ dropped[u] \cup {next[u] + 1} \in SUBSET Nat
        BY <1>0, <3>1 DEF RecordTypes
      <4>2. \/ dropped' = [dropped EXCEPT ![u] = @ \cup {next[u] + 1}]
            \/ dropped' = dropped
        BY <1>4 DEF OfferReading
      <4>3. QED
        BY <4>1, <4>2
    <3>3. QED
      BY <1>0, <1>4, <3>2 DEF OfferReading, RecordTypes
  <2>3. <<u, next[u] + 1>> \in Uploads \X Nat
    BY <1>0 DEF HandlerTypes
  <2>4. ChannelTypes'
    <3>1. CASE UNCHANGED alarmCh
      BY <1>0, <1>4, <3>1 DEF OfferReading, ChannelTypes
    <3>2. CASE HasRoom /\ alarmCh' = Append(alarmCh, <<u, next[u] + 1>>)
      <4>1. alarmCh' \in Seq(Uploads \X Nat) /\ Len(alarmCh') = Len(alarmCh) + 1
            /\ Len(alarmCh) \in Nat
        BY <1>0, <2>3, <3>2 DEF ChannelTypes
      <4>2. Len(alarmCh') <= AlarmCap
        BY <3>2, <4>1, IngestAssumption DEF HasRoom
      <4>3. QED
        BY <1>0, <1>4, <4>1, <4>2 DEF OfferReading, ChannelTypes
    <3>3. QED
      BY <1>4, <3>1, <3>2 DEF OfferReading
  <2>5. QED
    BY <1>0, <1>4, <2>1, <2>2, <2>4, ServerTypesStable DEF OfferReading, TypeOK
<1>5. CASE AllOffered(u)
  <2>1. HandlerTypes'
    BY <1>0, <1>5 DEF AllOffered, HandlerTypes, Go, Working
  <2>2. QED
    BY <1>0, <1>5, <2>1, ServerTypesStable, ChannelTypesStable, RecordTypesStable
    DEF AllOffered, TypeOK
<1>6. CASE OfferBatch(u)
  <2>1. HandlerTypes'
    BY <1>0, <1>6 DEF OfferBatch, HandlerTypes, Go, Working
  <2>2. batchCh' \in Seq(Uploads) /\ Len(batchCh') <= BatchCap
    BY <1>0, <1>6, IngestAssumption DEF OfferBatch, ChannelTypes
  <2>3. ChannelTypes'
    BY <1>0, <1>6, <2>2 DEF OfferBatch, ChannelTypes
  <2>4. QED
    BY <1>0, <1>6, <2>1, <2>3, ServerTypesStable, RecordTypesStable
    DEF OfferBatch, TypeOK
<1>7. CASE SendPanics(u)
  <2>1. HandlerTypes'
    BY <1>0, <1>7 DEF SendPanics, HandlerTypes, Go
  <2>2. QED
    BY <1>0, <1>7, <2>1, ServerTypesStable, ChannelTypesStable, RecordTypesStable
    DEF SendPanics, TypeOK
<1>8. CASE Answer(u)
  <2>1. HandlerTypes'
    BY <1>0, <1>8 DEF Answer, HandlerTypes, Go
  <2>2. ChannelTypes'
    BY <1>0, <1>8 DEF Answer, ChannelTypes
  <2>3. QED
    BY <1>0, <1>8, <2>1, <2>2, ServerTypesStable, RecordTypesStable
    DEF Answer, TypeOK
<1>9. QED
  BY <1>1, <1>2, <1>3, <1>4, <1>5, <1>6, <1>7, <1>8 DEF Handler

LEMMA TypeStep == TypeOK /\ [Next]_vars => TypeOK'
<1> SUFFICES ASSUME TypeOK, [Next]_vars PROVE TypeOK'
  OBVIOUS
<1>0. ServerTypes /\ HandlerTypes /\ ChannelTypes /\ RecordTypes
  BY DEF TypeOK
<1>1. ASSUME NEW u \in Uploads, Upload(u) PROVE TypeOK'
  <2>1. HandlerTypes'
    BY <1>0, <1>1 DEF Upload, HandlerTypes, Go, Working
  <2>2. QED
    BY <1>0, <1>1, <2>1, ServerTypesStable, ChannelTypesStable, RecordTypesStable
    DEF Upload, TypeOK
<1>2. ASSUME NEW u \in Uploads, ClientGoes(u) PROVE TypeOK'
  <2>1. HandlerTypes'
    BY <1>0, <1>2 DEF ClientGoes, HandlerTypes
  <2>2. QED
    BY <1>0, <1>2, <2>1, ServerTypesStable, ChannelTypesStable, RecordTypesStable
    DEF ClientGoes, TypeOK
<1>3. ASSUME NEW u \in Uploads, Mirror(u) PROVE TypeOK'
  <2>1. ChannelTypes' /\ RecordTypes'
    BY <1>0, <1>3 DEF Mirror, ChannelTypes, RecordTypes
  <2>2. QED
    BY <1>0, <1>3, <2>1, ServerTypesStable, HandlerTypesStable DEF Mirror, TypeOK
<1>4. CASE TakeReading
  <2>1. /\ Head(alarmCh) \in Uploads \X Nat
        /\ Tail(alarmCh) \in Seq(Uploads \X Nat)
        /\ Len(Tail(alarmCh)) <= AlarmCap
    <3>1. alarmCh \in Seq(Uploads \X Nat) /\ alarmCh # <<>> /\ Len(alarmCh) <= AlarmCap
      BY <1>0, <1>4 DEF TakeReading, ChannelTypes
    <3>2. Len(Tail(alarmCh)) = Len(alarmCh) - 1 /\ Len(alarmCh) \in Nat
      BY <3>1
    <3>3. QED
      BY <3>1, <3>2, IngestAssumption
  <2>2. Head(alarmCh)[1] \in Uploads /\ Head(alarmCh)[2] \in Nat
    BY <2>1
  <2>3. ChannelTypes'
    BY <1>0, <1>4, <2>1 DEF TakeReading, Taken, ChannelTypes
  <2>4. evaluated' \in [Uploads -> Seq(Nat)]
    BY <1>0, <1>4, <2>2 DEF TakeReading, RecordTypes
  <2>5. RecordTypes'
    BY <1>0, <1>4, <2>4 DEF TakeReading, RecordTypes
  <2>6. QED
    BY <1>0, <1>4, <2>3, <2>5, ServerTypesStable, HandlerTypesStable
    DEF TakeReading, TypeOK
<1>5. CASE TakeBatch
  <2>1. Tail(batchCh) \in Seq(Uploads) /\ Len(Tail(batchCh)) <= BatchCap
    <3>1. batchCh \in Seq(Uploads) /\ batchCh # <<>> /\ Len(batchCh) <= BatchCap
      BY <1>0, <1>5 DEF TakeBatch, ChannelTypes
    <3>2. Len(Tail(batchCh)) = Len(batchCh) - 1 /\ Len(batchCh) \in Nat
      BY <3>1
    <3>3. QED
      BY <3>1, <3>2, IngestAssumption
  <2>2. ChannelTypes'
    BY <1>0, <1>5, <2>1 DEF TakeBatch, ChannelTypes
  <2>3. QED
    BY <1>0, <1>5, <2>2, ServerTypesStable, HandlerTypesStable, RecordTypesStable
    DEF TakeBatch, TypeOK
<1>6. CASE \/ ReceiverReturns \/ AlarmLoopReturns \/ Signal \/ DrainExpires
           \/ StopBegins \/ Exit \/ Crash
  <2>1. ServerTypes' /\ UNCHANGED <<handlerVars, channelVars, rows, recordVars>>
    BY <1>0, <1>6 DEF ReceiverReturns, AlarmLoopReturns, Signal, DrainExpires, StopBegins,
       Exit, Crash, ServerTypes
  <2>2. QED
    BY <1>0, <2>1, HandlerTypesStable, ChannelTypesStable, RecordTypesStable DEF TypeOK
<1>7. CASE UNCHANGED vars
  BY <1>0, <1>7, ServerTypesStable, HandlerTypesStable, ChannelTypesStable,
     RecordTypesStable DEF vars, TypeOK
<1>8. QED
  BY <1>1, <1>2, <1>3, <1>4, <1>5, <1>6, <1>7, HandlerTypeStep DEF Next

(* Every variable keeps its type and the channels stay within their        *)
(* capacity (bus.go, the buffered channels), whatever the constants.       *)
THEOREM TypeCorrect == Spec => []TypeOK
  BY TypeInit, TypeStep, PTL DEF Spec

-----------------------------------------------------------------------------
(* The inductive invariant.                                               *)

(* Past the commit: the stages in which the readings are stored for sure. *)
Passed == {"offer", "batch", "answer", "success", "panicked"}

Storable(u) ==
  /\ Valid(payload[u])
  /\ \A i \in DOMAIN Readings(u) : Readings(u)[i].fit = "fits"

(* What the database holds of an upload, by the stage of its handler.     *)
StageInv(u) ==
  /\ next[u] <= Size(u)
  /\ pc[u] = "new" => payload[u] = NoPayload
  /\ pc[u] \in {"new", "insert", "commit"} => rows[u] = 0
  /\ pc[u] = "insert" => /\ next[u] < Size(u)
                         /\ Valid(payload[u])
                         /\ \A i \in 1 .. next[u] : Readings(u)[i].fit = "fits"
  /\ pc[u] \in Passed \cup {"commit"} => Storable(u)
  /\ pc[u] \in Passed => rows[u] = Size(u) /\ u \notin unsure
  /\ pc[u] \in {"batch", "answer", "success"} => next[u] = Size(u)
  /\ u \in unsure => pc[u] = "refused"
  /\ pc[u] = "refused" =>
       rows[u] = 0 \/ (u \in unsure /\ rows[u] = Size(u) /\ Storable(u))

(* What has become of the readings that were offered, and only of those.  *)
OfferInv(u) ==
  /\ pc[u] \notin Passed => evaluated[u] = <<>> /\ dropped[u] = {}
  /\ \A m \in DOMAIN evaluated[u] : evaluated[u][m] \in 1 .. next[u]
  /\ dropped[u] \subseteq 1 .. next[u]
  /\ pc[u] \in Passed =>
       \A i \in 1 .. next[u] :
         \/ i \in Done(u) \cup dropped[u]
         \/ \E k \in DOMAIN alarmCh : alarmCh[k] = <<u, i>>

(* The alarm channel: readings offered, in order, after those evaluated.  *)
ChannelInv ==
  \A k \in DOMAIN alarmCh :
    /\ pc[alarmCh[k][1]] \in Passed
    /\ alarmCh[k][2] \in 1 .. next[alarmCh[k][1]]
    /\ \A m \in DOMAIN evaluated[alarmCh[k][1]] :
         evaluated[alarmCh[k][1]][m] < alarmCh[k][2]
    /\ \A l \in DOMAIN alarmCh :
         k < l /\ alarmCh[k][1] = alarmCh[l][1] => alarmCh[k][2] < alarmCh[l][2]

(* The bus is closed under a handler only after the deadline.             *)
DeadlineInv ==
  /\ server \in {"stopping", "exited"} => expired \/ \A u \in Uploads : ~Active(u)
  /\ \A u \in Uploads : pc[u] = "panicked" => expired

(* A mirror runs for an answered upload and has not published yet.        *)
MirrorInv ==
  /\ \A u \in mirroring \cup mirrored : pc[u] = "success"
  /\ mirroring \cap mirrored = {}

IInv ==
  /\ \A u \in Uploads : StageInv(u) /\ OfferInv(u)
  /\ ChannelInv
  /\ DeadlineInv
  /\ MirrorInv

LEMMA InvInit == Init => IInv
<1> SUFFICES ASSUME Init PROVE IInv
  OBVIOUS
<1>1. ASSUME NEW u \in Uploads PROVE StageInv(u) /\ OfferInv(u)
  <2>1. payload[u] = NoPayload /\ next[u] = 0 /\ rows[u] = 0 /\ pc[u] = "new"
        /\ evaluated[u] = <<>> /\ dropped[u] = {} /\ u \notin unsure
    BY DEF Init
  <2>2. Size(u) = 0
    BY <2>1 DEF Size, Readings, NoPayload
  <2>3. StageInv(u)
    BY <2>1, <2>2 DEF StageInv, Passed
  <2>4. OfferInv(u)
    BY <2>1 DEF OfferInv, Passed
  <2>5. QED
    BY <2>3, <2>4
<1>2. ChannelInv
  BY DEF Init, ChannelInv
<1>3. DeadlineInv /\ MirrorInv
  BY DEF Init, DeadlineInv, MirrorInv
<1>4. QED
  BY <1>1, <1>2, <1>3 DEF IInv

(* What is true of one upload stays true when a step does not touch it.   *)
LEMMA StageFrame ==
  ASSUME NEW v, StageInv(v),
         payload'[v] = payload[v], pc'[v] = pc[v], next'[v] = next[v],
         rows'[v] = rows[v], v \in unsure' <=> v \in unsure
  PROVE  StageInv(v)'
<1>1. Readings(v)' = Readings(v) /\ Size(v)' = Size(v)
  BY DEF Readings, Size
<1>2. Storable(v)' <=> Storable(v)
  BY <1>1 DEF Storable
<1>3. QED
  BY <1>1, <1>2 DEF StageInv

LEMMA StageUpload ==
  ASSUME TypeOK, NEW u \in Uploads, StageInv(u), Upload(u)
  PROVE  StageInv(u)'
<1>1. HandlerTypes /\ pc[u] = "new"
  BY DEF TypeOK, Upload, At
<1>2. next[u] = 0
  <2>1. Size(u) = 0
    BY <1>1 DEF StageInv, Size, Readings, NoPayload
  <2>2. QED
    BY <1>1, <2>1 DEF StageInv, HandlerTypes
<1> PICK p \in Payloads :
      /\ payload' = [payload EXCEPT ![u] = p]
      /\ Go(u, IF Valid(p) THEN "insert" ELSE "refused")
  BY DEF Upload
<1>3. /\ payload'[u] = p /\ next'[u] = 0 /\ rows'[u] = 0
      /\ pc'[u] = IF Valid(p) THEN "insert" ELSE "refused"
      /\ u \notin unsure'
  BY <1>1, <1>2 DEF HandlerTypes, Upload, Go, StageInv, recordVars
<1>4. Size(u)' = Len(p.readings) /\ Len(p.readings) \in Nat
  BY <1>3, IngestAssumption DEF Size, Readings
<1>5. Valid(p) => Len(p.readings) > 0
  BY <1>4, IngestAssumption DEF Valid
<1>6. QED
  BY <1>3, <1>4, <1>5 DEF StageInv, Passed

LEMMA StageHandler ==
  ASSUME TypeOK, NEW u \in Uploads, StageInv(u), Handler(u)
  PROVE  StageInv(u)'
<1>0. HandlerTypes /\ RecordTypes /\ Size(u) \in Nat /\ DOMAIN Readings(u) = 1 .. Size(u)
      /\ next[u] \in Nat
  BY PayloadType DEF TypeOK, HandlerTypes
<1>a. ASSUME payload' = payload
      PROVE  /\ Readings(u)' = Readings(u) /\ Size(u)' = Size(u)
             /\ Storable(u)' <=> Storable(u)
  BY <1>a DEF Readings, Size, Storable
<1>1. CASE InsertReading(u)
  <2>1. /\ payload' = payload /\ rows' = rows /\ unsure' = unsure
        /\ pc[u] = "insert" /\ next'[u] = next[u] + 1 /\ next[u] < Size(u)
        /\ Readings(u)[next[u] + 1].fit = "fits"
        /\ pc'[u] = IF next[u] + 1 = Size(u) THEN "commit" ELSE "insert"
    BY <1>0, <1>1 DEF InsertReading, At, Go, HandlerTypes, recordVars
  <2>2. \A i \in 1 .. (next[u] + 1) : Readings(u)[i].fit = "fits"
    BY <1>0, <2>1 DEF StageInv
  <2>3. rows[u] = 0 /\ Valid(payload[u])
    BY <2>1 DEF StageInv
  <2>4. CASE next[u] + 1 = Size(u)
    <3>1. Storable(u)
      BY <1>0, <2>2, <2>3, <2>4 DEF Storable
    <3>2. QED
      BY <1>0, <1>a, <2>1, <2>3, <2>4, <3>1 DEF StageInv, Passed
  <2>5. CASE next[u] + 1 # Size(u)
    <3>1. pc'[u] = "insert" /\ next'[u] < Size(u)' /\ Readings(u)' = Readings(u)
          /\ Size(u)' = Size(u) /\ payload'[u] = payload[u] /\ rows'[u] = 0
      BY <1>0, <1>a, <2>1, <2>3, <2>5
    <3>2. QED
      BY <1>0, <2>1, <2>2, <2>3, <3>1 DEF StageInv, Passed
  <2>6. QED
    BY <2>4, <2>5
<1>2. CASE InsertFails(u)
  <2>1. payload' = payload /\ next' = next /\ rows'[u] = 0 /\ pc'[u] = "refused"
    BY <1>0, <1>2 DEF InsertFails, Go, AfterError, HandlerTypes, RecordTypes
  <2>2. QED
    BY <1>0, <1>a, <2>1 DEF StageInv, Passed
<1>3. CASE Commit(u)
  <2>1. payload' = payload /\ pc[u] = "commit" /\ next'[u] = 0 /\ Storable(u) /\ rows[u] = 0
    BY <1>0, <1>3 DEF Commit, At, HandlerTypes, StageInv
  <2>2. CASE pc' = [pc EXCEPT ![u] = "offer"] /\ rows' = [rows EXCEPT ![u] = Size(u)]
             /\ unsure' = unsure
    <3>1. u \notin unsure
      BY <2>1 DEF StageInv
    <3>2. pc'[u] = "offer" /\ rows'[u] = Size(u)
      BY <1>0, <2>2 DEF HandlerTypes, RecordTypes
    <3>3. QED
      BY <1>0, <1>a, <2>1, <2>2, <3>1, <3>2 DEF StageInv, Passed
  <2>3. CASE pc' = [pc EXCEPT ![u] = "refused"] /\ unsure' = unsure \cup {u}
             /\ rows' \in {rows, [rows EXCEPT ![u] = Size(u)]}
    <3>1. pc'[u] = "refused" /\ rows'[u] \in {0, Size(u)} /\ u \in unsure'
      BY <1>0, <2>1, <2>3 DEF HandlerTypes, RecordTypes
    <3>2. QED
      BY <1>0, <1>a, <2>1, <3>1 DEF StageInv, Passed
  <2>4. QED
    BY <1>3, <2>2, <2>3 DEF Commit, Go, AfterCommit
<1>4. CASE OfferReading(u)
  <2>1. /\ payload' = payload /\ rows' = rows /\ unsure' = unsure /\ pc' = pc
        /\ pc[u] = "offer" /\ next'[u] = next[u] + 1 /\ next[u] # Size(u)
    BY <1>0, <1>4 DEF OfferReading, At, RestOffered, HandlerTypes
  <2>2. next[u] + 1 <= Size(u)
    BY <1>0, <2>1 DEF StageInv
  <2>3. QED
    BY <1>0, <1>a, <2>1, <2>2 DEF StageInv, Passed
<1>5. CASE AllOffered(u)
  <2>1. /\ payload' = payload /\ rows' = rows /\ unsure' = unsure /\ next' = next
        /\ pc[u] = "offer" /\ pc'[u] = "batch" /\ next[u] = Size(u)
    BY <1>0, <1>5 DEF AllOffered, At, Go, RestOffered, HandlerTypes, recordVars
  <2>2. QED
    BY <1>0, <1>a, <2>1 DEF StageInv, Passed
<1>6. CASE OfferBatch(u) \/ Answer(u)
  <2>1. /\ payload' = payload /\ rows' = rows /\ unsure' = unsure /\ next' = next
        /\ pc[u] \in {"batch", "answer"} /\ pc'[u] \in {"answer", "success"}
    BY <1>0, <1>6 DEF OfferBatch, Answer, At, Go, HandlerTypes, recordVars
  <2>2. QED
    BY <1>0, <1>a, <2>1 DEF StageInv, Passed
<1>7. CASE SendPanics(u)
  <2>1. /\ payload' = payload /\ rows' = rows /\ unsure' = unsure /\ next' = next
        /\ pc[u] \in {"offer", "batch"} /\ pc'[u] = "panicked"
    BY <1>0, <1>7 DEF SendPanics, At, Go, HandlerTypes, recordVars
  <2>2. QED
    BY <1>0, <1>a, <2>1 DEF StageInv, Passed
<1>8. QED
  BY <1>1, <1>2, <1>3, <1>4, <1>5, <1>6, <1>7 DEF Handler

LEMMA OfferFrame ==
  ASSUME NEW v, OfferInv(v),
         evaluated'[v] = evaluated[v], dropped'[v] = dropped[v], next'[v] = next[v],
         pc'[v] \in Passed <=> pc[v] \in Passed,
         \A k \in DOMAIN alarmCh :
           alarmCh[k][1] = v => \E l \in DOMAIN alarmCh' : alarmCh'[l] = alarmCh[k]
  PROVE  OfferInv(v)'
<1>1. Done(v)' = Done(v)
  BY DEF Done
<1>2. \A i : (\E k \in DOMAIN alarmCh : alarmCh[k] = <<v, i>>)
             => (\E k \in DOMAIN alarmCh' : alarmCh'[k] = <<v, i>>)
  OBVIOUS
<1>3. QED
  BY <1>1, <1>2 DEF OfferInv

LEMMA ChannelFrame ==
  ASSUME TypeOK, ChannelInv, alarmCh' = alarmCh, evaluated' = evaluated,
         \A v \in Uploads : pc[v] \in Passed => pc'[v] \in Passed /\ next'[v] = next[v]
  PROVE  ChannelInv'
<1>1. \A k \in DOMAIN alarmCh : alarmCh[k][1] \in Uploads
  BY DEF TypeOK, ChannelTypes
<1>2. QED
  BY <1>1 DEF ChannelInv

(* The steps of a handler up to and including the commit.                 *)
LEMMA OfferBefore ==
  ASSUME TypeOK, NEW u \in Uploads, OfferInv(u), ChannelInv,
         pc[u] \notin Passed, pc'[u] \notin Passed \/ next'[u] = 0,
         UNCHANGED <<alarmCh, evaluated, dropped>>,
         \A v \in Uploads \ {u} : pc'[v] = pc[v] /\ next'[v] = next[v]
  PROVE  OfferInv(u)' /\ ChannelInv'
<1>1. OfferInv(u)'
  BY DEF OfferInv
<1>2. ChannelInv'
  BY ChannelFrame
<1>3. QED
  BY <1>1, <1>2

(* The steps of a handler that neither offer nor change what was offered. *)
LEMMA OfferAfter ==
  ASSUME TypeOK, NEW u \in Uploads, OfferInv(u), ChannelInv,
         pc[u] \in Passed <=> pc'[u] \in Passed,
         UNCHANGED <<alarmCh, evaluated, dropped, next>>,
         \A v \in Uploads \ {u} : pc'[v] = pc[v]
  PROVE  OfferInv(u)' /\ ChannelInv'
<1>1. OfferInv(u)'
  BY OfferFrame
<1>2. ChannelInv'
  BY ChannelFrame
<1>3. QED
  BY <1>1, <1>2

LEMMA AppendFacts ==
  ASSUME NEW S, NEW s \in Seq(S), NEW x \in S
  PROVE  /\ DOMAIN s = 1 .. Len(s)
         /\ Len(s) \in Nat
         /\ DOMAIN Append(s, x) = 1 .. (Len(s) + 1)
         /\ \A k \in 1 .. Len(s) : Append(s, x)[k] = s[k]
         /\ Append(s, x)[Len(s) + 1] = x
  OBVIOUS

LEMMA TailFacts ==
  ASSUME NEW S, NEW s \in Seq(S), s # <<>>
  PROVE  /\ DOMAIN s = 1 .. Len(s)
         /\ Len(s) \in Nat \ {0}
         /\ Head(s) = s[1]
         /\ DOMAIN Tail(s) = 1 .. (Len(s) - 1)
         /\ \A k \in 1 .. (Len(s) - 1) : Tail(s)[k] = s[k + 1]
  OBVIOUS

LEMMA OfferReadingStep ==
  ASSUME TypeOK, NEW u \in Uploads, OfferInv(u), ChannelInv, OfferReading(u)
  PROVE  /\ OfferInv(u)' /\ ChannelInv'
         /\ \A k \in DOMAIN alarmCh : \E l \in DOMAIN alarmCh' : alarmCh'[l] = alarmCh[k]
<1> DEFINE n == next[u] + 1
<1>1. /\ alarmCh \in Seq(Uploads \X Nat) /\ next \in [Uploads -> Nat] /\ next[u] \in Nat
      /\ dropped \in [Uploads -> SUBSET Nat] /\ <<u, n>> \in Uploads \X Nat
      /\ \A k \in DOMAIN alarmCh : alarmCh[k] \in Uploads \X Nat
  BY DEF TypeOK, ChannelTypes, HandlerTypes, RecordTypes
<1>2. /\ pc' = pc /\ evaluated' = evaluated /\ pc[u] = "offer"
      /\ next' = [next EXCEPT ![u] = n]
  BY DEF OfferReading, At
<1>3. pc[u] \in Passed /\ next'[u] = n /\ n \in Nat /\ \A v \in Uploads : next[v] <= next'[v]
  BY <1>1, <1>2 DEF Passed
<1>4. Done(u)' = Done(u)
  BY <1>2 DEF Done
<1>5. CASE dropped' = [dropped EXCEPT ![u] = @ \cup {n}] /\ alarmCh' = alarmCh
  <2>1. dropped'[u] = dropped[u] \cup {n}
    BY <1>1, <1>5
  <2>2. OfferInv(u)'
    BY <1>1, <1>2, <1>3, <1>4, <1>5, <2>1 DEF OfferInv
  <2>3. ASSUME NEW w \in Uploads, NEW j \in 1 .. next[w] PROVE j \in 1 .. next'[w]
    BY <1>1, <1>2, <1>3
  <2>4. \A k \in DOMAIN alarmCh : alarmCh[k][2] \in 1 .. next'[alarmCh[k][1]]
    BY <1>1, <2>3 DEF ChannelInv
  <2>5. ChannelInv'
    BY <1>2, <1>5, <2>4 DEF ChannelInv
  <2>6. QED
    BY <1>5, <2>2, <2>5
<1>6. CASE dropped' = dropped /\ alarmCh' = Append(alarmCh, <<u, n>>)
  <2> DEFINE L == Len(alarmCh)
  <2>1. /\ DOMAIN alarmCh = 1 .. L /\ L \in Nat /\ DOMAIN alarmCh' = 1 .. (L + 1)
        /\ \A k \in 1 .. L : alarmCh'[k] = alarmCh[k]
        /\ alarmCh'[L + 1] = <<u, n>>
    BY <1>1, <1>6, AppendFacts
  <2>2. \A k \in DOMAIN alarmCh : \E l \in DOMAIN alarmCh' : alarmCh'[l] = alarmCh[k]
    BY <2>1
  <2>3. OfferInv(u)'
    <3>1. ASSUME NEW i \in 1 .. n
          PROVE  \/ i \in Done(u) \cup dropped[u]
                 \/ \E k \in DOMAIN alarmCh' : alarmCh'[k] = <<u, i>>
      <4>1. CASE i = n
        BY <2>1, <4>1
      <4>2. CASE i # n
        <5>1. i \in 1 .. next[u]
          BY <1>1, <4>2
        <5>2. QED
          BY <1>3, <2>2, <5>1 DEF OfferInv
      <4>3. QED
        BY <4>1, <4>2
    <3>2. QED
      <4>1. \A m \in DOMAIN evaluated[u] : evaluated[u][m] \in 1 .. n
        BY <1>1 DEF OfferInv
      <4>2. dropped[u] \subseteq 1 .. n
        BY <1>1 DEF OfferInv
      <4>3. QED
        BY <1>2, <1>3, <1>4, <1>6, <3>1, <4>1, <4>2 DEF OfferInv
  <2>4. ChannelInv'
    <3> SUFFICES ASSUME NEW k \in 1 .. (L + 1)
                 PROVE  /\ pc[alarmCh'[k][1]] \in Passed
                        /\ alarmCh'[k][2] \in 1 .. next'[alarmCh'[k][1]]
                        /\ \A m \in DOMAIN evaluated[alarmCh'[k][1]] :
                             evaluated[alarmCh'[k][1]][m] < alarmCh'[k][2]
                        /\ \A l \in 1 .. (L + 1) :
                             k < l /\ alarmCh'[k][1] = alarmCh'[l][1]
                               => alarmCh'[k][2] < alarmCh'[l][2]
      BY <1>2, <2>1 DEF ChannelInv
    <3>1. CASE k = L + 1
      <4>1. alarmCh'[k][1] = u /\ alarmCh'[k][2] = n
        BY <2>1, <3>1
      <4>2. \A m \in DOMAIN evaluated[u] : evaluated[u][m] < n
        BY <1>1 DEF OfferInv
      <4>3. QED
        <5>1. \A l \in 1 .. (L + 1) : ~(k < l)
          BY <2>1, <3>1
        <5>2. n \in 1 .. n
          BY <1>1
        <5>3. QED
          BY <1>3, <4>1, <4>2, <5>1, <5>2
    <3>2. CASE k # L + 1
      <4>1. k \in 1 .. L /\ alarmCh'[k] = alarmCh[k] /\ alarmCh[k][1] \in Uploads
            /\ alarmCh[k][2] \in Nat
        BY <1>1, <2>1, <3>2
      <4>2. /\ pc[alarmCh[k][1]] \in Passed
            /\ alarmCh[k][2] \in 1 .. next[alarmCh[k][1]]
            /\ \A m \in DOMAIN evaluated[alarmCh[k][1]] :
                 evaluated[alarmCh[k][1]][m] < alarmCh[k][2]
            /\ \A l \in 1 .. L : k < l /\ alarmCh[k][1] = alarmCh[l][1]
                                 => alarmCh[k][2] < alarmCh[l][2]
        BY <2>1, <4>1 DEF ChannelInv
      <4>3. alarmCh'[k][2] \in 1 .. next'[alarmCh'[k][1]]
        BY <1>1, <1>2, <1>3, <4>1, <4>2
      <4>4. ASSUME NEW l \in 1 .. (L + 1), k < l, alarmCh'[k][1] = alarmCh'[l][1]
            PROVE  alarmCh'[k][2] < alarmCh'[l][2]
        <5>1. CASE l = L + 1
          <6>1. alarmCh'[l][1] = u /\ alarmCh'[l][2] = n
            BY <2>1, <5>1
          <6>2. alarmCh[k][2] \in 1 .. next[u]
            BY <4>1, <4>2, <4>4, <6>1
          <6>3. QED
            BY <1>1, <4>1, <6>1, <6>2
        <5>2. CASE l # L + 1
          BY <2>1, <4>1, <4>2, <4>4, <5>2
        <5>3. QED
          BY <5>1, <5>2
      <4>5. QED
        BY <4>1, <4>2, <4>3, <4>4
    <3>3. QED
      BY <3>1, <3>2
  <2>5. QED
    BY <2>2, <2>3, <2>4
<1>7. QED
  BY <1>5, <1>6 DEF OfferReading

LEMMA TakeReadingStep ==
  ASSUME TypeOK, \A v \in Uploads : OfferInv(v), ChannelInv, TakeReading
  PROVE  (\A v \in Uploads : OfferInv(v)') /\ ChannelInv'
<1> DEFINE L == Len(alarmCh)
<1>1. /\ alarmCh \in Seq(Uploads \X Nat) /\ alarmCh # <<>>
      /\ evaluated \in [Uploads -> Seq(Nat)] /\ next \in [Uploads -> Nat]
      /\ \A k \in DOMAIN alarmCh : alarmCh[k] \in Uploads \X Nat
  BY DEF TypeOK, ChannelTypes, HandlerTypes, RecordTypes, TakeReading
<1>a. Head(alarmCh) \in Uploads \X Nat
  BY <1>1
<1> PICK u \in Uploads, i \in Nat : Head(alarmCh) = <<u, i>>
  BY <1>a
<1>b. Head(alarmCh)[1] = u /\ Head(alarmCh)[2] = i
  OBVIOUS
<1>2. /\ alarmCh' = Tail(alarmCh) /\ UNCHANGED <<pc, next, dropped>>
      /\ evaluated' = [evaluated EXCEPT ![u] = Append(@, i)]
  BY <1>b DEF TakeReading, Taken, handlerVars
<1>3. /\ DOMAIN alarmCh = 1 .. L /\ L \in Nat \ {0} /\ Head(alarmCh) = alarmCh[1]
      /\ DOMAIN alarmCh' = 1 .. (L - 1)
      /\ \A k \in 1 .. (L - 1) : alarmCh'[k] = alarmCh[k + 1]
  BY <1>1, <1>2, TailFacts
<1>5. /\ evaluated'[u] = Append(evaluated[u], i)
      /\ evaluated[u] \in Seq(Nat)
      /\ \A v \in Uploads \ {u} : evaluated'[v] = evaluated[v]
  BY <1>1, <1>2
<1>6. /\ DOMAIN evaluated[u] = 1 .. Len(evaluated[u]) /\ Len(evaluated[u]) \in Nat
      /\ DOMAIN evaluated'[u] = 1 .. (Len(evaluated[u]) + 1)
      /\ \A m \in 1 .. Len(evaluated[u]) : evaluated'[u][m] = evaluated[u][m]
      /\ evaluated'[u][Len(evaluated[u]) + 1] = i
  BY <1>5, AppendFacts
<1>7. /\ pc[u] \in Passed /\ i \in 1 .. next[u]
      /\ \A l \in 2 .. L : alarmCh[l][1] = u => i < alarmCh[l][2]
  <2>1. 1 \in DOMAIN alarmCh /\ alarmCh[1][1] = u /\ alarmCh[1][2] = i
    BY <1>3, <1>b
  <2>2. \A l \in 2 .. L : l \in DOMAIN alarmCh /\ 1 < l
    BY <1>3
  <2>3. QED
    BY <2>1, <2>2 DEF ChannelInv
<1>8. ASSUME NEW v \in Uploads PROVE OfferInv(v)'
  <2>1. \A k \in DOMAIN alarmCh : k # 1 => k - 1 \in DOMAIN alarmCh' /\ alarmCh'[k - 1] = alarmCh[k]
    BY <1>3
  <2>2. CASE v # u
    <3>1. \A k \in DOMAIN alarmCh :
            alarmCh[k][1] = v => \E l \in DOMAIN alarmCh' : alarmCh'[l] = alarmCh[k]
      BY <1>3, <2>1, <2>2
    <3>2. QED
      BY <1>2, <1>5, <2>2, <3>1, OfferFrame
  <2>3. CASE v = u
    <3>1. Done(u)' = Done(u) \cup {i}
      <4>1. Done(u)' = {evaluated'[u][m] : m \in 1 .. (Len(evaluated[u]) + 1)}
        BY <1>6 DEF Done
      <4>2. Done(u) = {evaluated[u][m] : m \in 1 .. Len(evaluated[u])}
        BY <1>6 DEF Done
      <4>3. ASSUME NEW x \in Done(u)' PROVE x \in Done(u) \cup {i}
        BY <1>6, <4>1, <4>2, <4>3
      <4>4. ASSUME NEW x \in Done(u) PROVE x \in Done(u)'
        BY <1>6, <4>1, <4>2, <4>4
      <4>5. i \in Done(u)'
        BY <1>6, <4>1
      <4>6. QED
        BY <4>3, <4>4, <4>5
    <3>2. \A m \in DOMAIN evaluated'[u] : evaluated'[u][m] \in 1 .. next[u]
      BY <1>6, <1>7 DEF OfferInv
    <3>3. ASSUME NEW j \in 1 .. next[u]
          PROVE  \/ j \in Done(u)' \cup dropped[u]
                 \/ \E k \in DOMAIN alarmCh' : alarmCh'[k] = <<u, j>>
      <4>1. CASE j \in Done(u) \cup dropped[u]
        BY <3>1, <4>1
      <4>2. CASE \E k \in DOMAIN alarmCh : alarmCh[k] = <<u, j>>
        <5> PICK k \in DOMAIN alarmCh : alarmCh[k] = <<u, j>>
          BY <4>2
        <5>1. CASE k = 1
          <6>1. j = i
            BY <1>3, <5>1
          <6>2. QED
            BY <3>1, <6>1
        <5>2. CASE k # 1
          BY <2>1, <5>2
        <5>3. QED
          BY <5>1, <5>2
      <4>3. QED
        BY <1>7, <4>1, <4>2 DEF OfferInv
    <3>4. dropped[u] \subseteq 1 .. next[u]
      BY DEF OfferInv
    <3>5. QED
      BY <1>2, <1>7, <2>3, <3>2, <3>3, <3>4 DEF OfferInv
  <2>4. QED
    BY <2>2, <2>3
<1>9. ChannelInv'
  <2> SUFFICES ASSUME NEW k \in 1 .. (L - 1)
               PROVE  /\ pc[alarmCh'[k][1]] \in Passed
                      /\ alarmCh'[k][2] \in 1 .. next[alarmCh'[k][1]]
                      /\ \A m \in DOMAIN evaluated'[alarmCh'[k][1]] :
                           evaluated'[alarmCh'[k][1]][m] < alarmCh'[k][2]
                      /\ \A l \in 1 .. (L - 1) :
                           k < l /\ alarmCh'[k][1] = alarmCh'[l][1]
                             => alarmCh'[k][2] < alarmCh'[l][2]
    BY <1>2, <1>3 DEF ChannelInv
  <2>1. k + 1 \in 2 .. L /\ k + 1 \in DOMAIN alarmCh /\ alarmCh[k + 1] \in Uploads \X Nat
    BY <1>1, <1>3
  <2>2. /\ pc[alarmCh[k + 1][1]] \in Passed
        /\ alarmCh[k + 1][2] \in 1 .. next[alarmCh[k + 1][1]]
        /\ \A m \in DOMAIN evaluated[alarmCh[k + 1][1]] :
             evaluated[alarmCh[k + 1][1]][m] < alarmCh[k + 1][2]
        /\ \A l \in DOMAIN alarmCh :
             k + 1 < l /\ alarmCh[k + 1][1] = alarmCh[l][1]
               => alarmCh[k + 1][2] < alarmCh[l][2]
    BY <2>1 DEF ChannelInv
  <2>3. \A m \in DOMAIN evaluated'[alarmCh[k + 1][1]] :
          evaluated'[alarmCh[k + 1][1]][m] < alarmCh[k + 1][2]
    <3>1. CASE alarmCh[k + 1][1] = u
      <4>1. i < alarmCh[k + 1][2]
        BY <1>7, <2>1, <3>1
      <4>2. \A m \in 1 .. Len(evaluated[u]) : evaluated'[u][m] < alarmCh[k + 1][2]
        BY <1>6, <2>2, <3>1
      <4>3. \A m \in DOMAIN evaluated'[u] : m \in 1 .. Len(evaluated[u]) \/ evaluated'[u][m] = i
        BY <1>6
      <4>4. \A m \in DOMAIN evaluated'[u] : evaluated'[u][m] < alarmCh[k + 1][2]
        BY <4>1, <4>2, <4>3
      <4>5. QED
        BY <3>1, <4>4
    <3>2. CASE alarmCh[k + 1][1] # u
      BY <1>5, <2>1, <2>2, <3>2
    <3>3. QED
      BY <3>1, <3>2
  <2>4. \A l \in 1 .. (L - 1) : k < l => l + 1 \in DOMAIN alarmCh /\ k + 1 < l + 1
    BY <1>3
  <2>5. \A l \in 1 .. (L - 1) : alarmCh'[l] = alarmCh[l + 1]
    BY <1>3
  <2>6. QED
    BY <2>2, <2>3, <2>4, <2>5
<1>10. QED
  BY <1>8, <1>9

LEMMA DeadlineStep ==
  ASSUME TypeOK, DeadlineInv, [Next]_vars
  PROVE  DeadlineInv'
<1>0. /\ pc \in [Uploads -> Working \cup {"new", "refused", "panicked", "success"}]
      /\ server \in {"serving", "draining", "stopping", "exited", "killed"}
      /\ expired \in BOOLEAN
  BY DEF TypeOK, HandlerTypes, ServerTypes
<1>1. ASSUME NEW u \in Uploads, Upload(u) PROVE DeadlineInv'
  BY <1>0, <1>1 DEF Upload, DeadlineInv, Active, Go, At, serverVars, Working
<1>2. ASSUME NEW u \in Uploads, ClientGoes(u) PROVE DeadlineInv'
  BY <1>0, <1>2 DEF ClientGoes, DeadlineInv, Active, serverVars
<1>3. ASSUME NEW u \in Uploads, Mirror(u) PROVE DeadlineInv'
  BY <1>0, <1>3 DEF Mirror, DeadlineInv, Active, serverVars, handlerVars
<1>4. ASSUME NEW u \in Uploads, Handler(u) PROVE DeadlineInv'
  <2>1. /\ server' = server /\ expired' = expired /\ pc[u] \in Working
        /\ \A v \in Uploads \ {u} : pc'[v] = pc[v]
    BY <1>0, <1>4 DEF Handler, InsertReading, InsertFails, Commit, OfferReading, AllOffered,
       OfferBatch, SendPanics, Answer, At, Go, serverVars, Working
  <2>2. pc'[u] = "panicked" => BusClosed
    BY <1>0, <1>4 DEF Handler, InsertReading, InsertFails, Commit, OfferReading, AllOffered,
       OfferBatch, SendPanics, Answer, At, Go, AfterCommit
  <2>3. server \in {"stopping", "exited"} => expired
    BY <2>1 DEF DeadlineInv, Active
  <2>4. QED
    BY <2>1, <2>2, <2>3 DEF DeadlineInv, BusClosed
<1>5. CASE TakeReading \/ TakeBatch
  BY <1>0, <1>5 DEF TakeReading, TakeBatch, DeadlineInv, Active, serverVars, handlerVars
<1>6. CASE ReceiverReturns \/ AlarmLoopReturns \/ Signal \/ Crash \/ Exit
  BY <1>0, <1>6 DEF ReceiverReturns, AlarmLoopReturns, Signal, Crash, Exit, DeadlineInv,
     Active, handlerVars
<1>7. CASE DrainExpires
  BY <1>0, <1>7 DEF DrainExpires, DeadlineInv, Active, handlerVars
<1>8. CASE StopBegins
  BY <1>0, <1>8 DEF StopBegins, Drained, DeadlineInv, Active, handlerVars
<1>9. CASE UNCHANGED vars
  BY <1>0, <1>9 DEF vars, DeadlineInv, Active, serverVars, handlerVars
<1>10. QED
  BY <1>1, <1>2, <1>3, <1>4, <1>5, <1>6, <1>7, <1>8, <1>9 DEF Next

LEMMA MirrorStep ==
  ASSUME TypeOK, MirrorInv, [Next]_vars
  PROVE  MirrorInv'
<1>0. /\ pc \in [Uploads -> Working \cup {"new", "refused", "panicked", "success"}]
      /\ mirroring \subseteq Uploads /\ mirrored \subseteq Uploads
  BY DEF TypeOK, HandlerTypes, ChannelTypes, RecordTypes
<1>1. ASSUME NEW u \in Uploads, Upload(u) PROVE MirrorInv'
  BY <1>0, <1>1 DEF Upload, MirrorInv, Go, At, channelVars, recordVars
<1>2. ASSUME NEW u \in Uploads, Mirror(u) PROVE MirrorInv'
  BY <1>0, <1>2 DEF Mirror, MirrorInv, handlerVars
<1>3. ASSUME NEW u \in Uploads, Answer(u) PROVE MirrorInv'
  BY <1>0, <1>3 DEF Answer, MirrorInv, Go, At, recordVars
<1>4. ASSUME NEW u \in Uploads, Handler(u), ~Answer(u) PROVE MirrorInv'
  <2>1. /\ mirroring' = mirroring /\ mirrored' = mirrored /\ pc[u] # "success"
        /\ \A v \in Uploads \ {u} : pc'[v] = pc[v]
    BY <1>0, <1>4 DEF Handler, InsertReading, InsertFails, Commit, OfferReading, AllOffered,
       OfferBatch, SendPanics, At, Go, channelVars, recordVars
  <2>2. QED
    BY <1>0, <2>1 DEF MirrorInv
<1>5. CASE \/ \E u \in Uploads : ClientGoes(u)
           \/ TakeReading \/ TakeBatch \/ ReceiverReturns \/ AlarmLoopReturns \/ Signal
           \/ Crash \/ Exit \/ DrainExpires \/ StopBegins \/ UNCHANGED vars
  <2>1. UNCHANGED <<pc, mirroring, mirrored>>
    BY <1>5 DEF ClientGoes, TakeReading, TakeBatch, ReceiverReturns, AlarmLoopReturns,
       Signal, Crash, Exit, DrainExpires, StopBegins, vars, handlerVars, channelVars,
       recordVars
  <2>2. QED
    BY <2>1 DEF MirrorInv
<1>6. QED
  BY <1>1, <1>2, <1>3, <1>4, <1>5 DEF Next

(* The parts about one upload and about the alarm channel, per action.    *)
LEMMA UploadsStep ==
  ASSUME TypeOK, \A v \in Uploads : StageInv(v) /\ OfferInv(v), ChannelInv, [Next]_vars
  PROVE  (\A v \in Uploads : StageInv(v)' /\ OfferInv(v)') /\ ChannelInv'
<1>0. HandlerTypes /\ ChannelTypes /\ RecordTypes
  BY DEF TypeOK
<1>1. ASSUME NEW u \in Uploads, Upload(u) \/ Handler(u)
      PROVE  (\A v \in Uploads : StageInv(v)' /\ OfferInv(v)') /\ ChannelInv'
  <2>1. \A v \in Uploads \ {u} :
          /\ payload'[v] = payload[v] /\ pc'[v] = pc[v] /\ next'[v] = next[v]
          /\ rows'[v] = rows[v] /\ evaluated'[v] = evaluated[v]
          /\ dropped'[v] = dropped[v] /\ (v \in unsure' <=> v \in unsure)
    BY <1>0, <1>1 DEF Upload, Handler, InsertReading, InsertFails, Commit, OfferReading,
       AllOffered, OfferBatch, SendPanics, Answer, At, Go, recordVars, HandlerTypes,
       RecordTypes
  <2>2. StageInv(u)'
    BY <1>1, StageUpload, StageHandler
  <2>3. /\ OfferInv(u)' /\ ChannelInv'
        /\ \A k \in DOMAIN alarmCh : \E l \in DOMAIN alarmCh' : alarmCh'[l] = alarmCh[k]
    <3>1. CASE Upload(u) \/ InsertReading(u) \/ InsertFails(u) \/ Commit(u)
      <4>1. /\ pc[u] \notin Passed /\ UNCHANGED <<alarmCh, evaluated, dropped>>
            /\ pc'[u] \notin Passed \/ next'[u] = 0
        BY <1>0, <3>1 DEF Upload, InsertReading, InsertFails, Commit, At, Go, Passed,
           channelVars, recordVars, HandlerTypes
      <4>2. QED
        BY <2>1, <4>1, OfferBefore
    <3>2. CASE AllOffered(u) \/ OfferBatch(u) \/ SendPanics(u) \/ Answer(u)
      <4>1. /\ pc[u] \in Passed /\ pc'[u] \in Passed
            /\ UNCHANGED <<alarmCh, evaluated, dropped, next>>
        BY <1>0, <3>2 DEF AllOffered, OfferBatch, SendPanics, Answer, At, Go, Passed,
           channelVars, recordVars, HandlerTypes
      <4>2. QED
        BY <2>1, <4>1, OfferAfter
    <3>3. CASE OfferReading(u)
      BY <3>3, OfferReadingStep
    <3>4. QED
      BY <1>1, <3>1, <3>2, <3>3 DEF Handler
  <2>4. ASSUME NEW v \in Uploads \ {u} PROVE StageInv(v)' /\ OfferInv(v)'
    <3>1. StageInv(v)'
      BY <2>1, StageFrame
    <3>2. OfferInv(v)'
      BY <2>1, <2>3, OfferFrame
    <3>3. QED
      BY <3>1, <3>2
  <2>5. QED
    BY <2>2, <2>3, <2>4
<1>2. CASE TakeReading
  <2>1. UNCHANGED <<payload, pc, next, rows, unsure>>
    BY <1>2 DEF TakeReading, handlerVars
  <2>2. \A v \in Uploads : StageInv(v)'
    BY <2>1, StageFrame
  <2>3. QED
    BY <1>2, <2>2, TakeReadingStep
<1>3. CASE \/ \E u \in Uploads : ClientGoes(u) \/ Mirror(u)
           \/ TakeBatch \/ ReceiverReturns \/ AlarmLoopReturns \/ Signal
           \/ Crash \/ Exit \/ DrainExpires \/ StopBegins \/ UNCHANGED vars
  <2>1. UNCHANGED <<payload, pc, next, rows, unsure, evaluated, dropped, alarmCh>>
    BY <1>3 DEF ClientGoes, Mirror, TakeBatch, ReceiverReturns, AlarmLoopReturns,
       Signal, Crash, Exit, DrainExpires, StopBegins, vars, handlerVars, channelVars,
       recordVars
  <2>2. \A v \in Uploads : StageInv(v)'
    BY <2>1, StageFrame
  <2>3. \A v \in Uploads : OfferInv(v)'
    BY <2>1, OfferFrame
  <2>4. ChannelInv'
    BY <2>1, ChannelFrame
  <2>5. QED
    BY <2>2, <2>3, <2>4
<1>4. QED
  BY <1>1, <1>2, <1>3 DEF Next

LEMMA InvStep == TypeOK /\ IInv /\ [Next]_vars => IInv'
  BY UploadsStep, DeadlineStep, MirrorStep DEF IInv

LEMMA TypedInvariant == Spec => [](TypeOK /\ IInv)
  BY TypeInit, InvInit, TypeStep, InvStep, PTL DEF Spec

-----------------------------------------------------------------------------
(* What follows from it.                                                  *)

(* A batch is in the database whole or not at all, after every failure in *)
(* the middle of its transaction (datastore.go:46).                       *)
LEMMA BatchesAreWhole == Spec => []AllOrNone
<1>1. TypeOK /\ IInv => AllOrNone
  <2> SUFFICES ASSUME TypeOK, IInv, NEW u \in Uploads PROVE rows[u] \in {0, Size(u)}
    BY DEF AllOrNone
  <2>1. StageInv(u) /\ pc[u] \in Working \cup {"new", "refused", "panicked", "success"}
    BY DEF IInv, TypeOK, HandlerTypes
  <2>2. QED
    BY <2>1 DEF StageInv, Passed, Working
<1>2. QED
  BY <1>1, TypedInvariant, PTL

(* What is stored passed every check of the receiver, and no reading took  *)
(* a time ahead of the bound from its payload (server.go:388).            *)
LEMMA OnlyValidStored == Spec => []StoredAreValid
<1>1. TypeOK /\ IInv => StoredAreValid
  <2> SUFFICES ASSUME TypeOK, IInv, NEW u \in Uploads, rows[u] > 0, NEW i \in 1 .. rows[u]
               PROVE  /\ Readings(u)[i].fit = "fits"
                      /\ Readings(u)[i].stamp # "ahead"
                      /\ Readings(u)[i].stamp = "none" => payload[u].stamp # "ahead"
    BY DEF StoredAreValid
  <2>1. /\ StageInv(u) /\ Size(u) \in Nat /\ DOMAIN Readings(u) = 1 .. Size(u)
        /\ pc[u] \in Working \cup {"new", "refused", "panicked", "success"}
    BY PayloadType DEF IInv, TypeOK, HandlerTypes
  <2>2. Storable(u) /\ rows[u] = Size(u)
    BY <2>1 DEF StageInv, Passed, Working
  <2>3. i \in DOMAIN Readings(u)
    BY <2>1, <2>2
  <2>4. StampOf(payload[u], Readings(u)[i]) # "ahead"
    BY <2>2, <2>3 DEF Storable, Valid, Readings
  <2>5. QED
    BY <2>2, <2>3, <2>4 DEF Storable, StampOf
<1>2. QED
  BY <1>1, TypedInvariant, PTL

(* Batches are stored whole or not at all, and only when every reading of    *)
(* them passed the receiver's checks (receiver.go:67, datastore.go:46).      *)
THEOREM BatchesWholeAndValid == Spec => []OnlyWholeValidBatches
  BY BatchesAreWhole, OnlyValidStored, PTL DEF OnlyWholeValidBatches

(* Every stored reading of an upload not refused is evaluated, waits in    *)
(* the channel, was logged as dropped, or is still to be offered           *)
(* (receiver.go:112): none is forgotten between store and evaluation.      *)
THEOREM NoneForgotten == Spec => []StoredReadingsAccounted
<1>1. TypeOK /\ IInv => StoredReadingsAccounted
  <2> SUFFICES ASSUME TypeOK, IInv, NEW u \in Uploads, rows[u] > 0, u \notin unsure
               PROVE  Done(u) \cup Waiting(u) \cup dropped[u] \cup ToOffer(u) = 1 .. Size(u)
    BY DEF StoredReadingsAccounted
  <2>1. /\ StageInv(u) /\ OfferInv(u) /\ Size(u) \in Nat /\ next[u] \in Nat
        /\ pc[u] \in Working \cup {"new", "refused", "panicked", "success"}
    BY PayloadType DEF IInv, TypeOK, HandlerTypes
  <2>2. pc[u] \in Passed
    BY <2>1 DEF StageInv, Passed, Working
  <2>3. next[u] <= Size(u)
    BY <2>1 DEF StageInv
  <2>4. Done(u) \subseteq 1 .. next[u] /\ dropped[u] \subseteq 1 .. next[u]
    BY <2>1 DEF OfferInv, Done
  <2>5. Waiting(u) \subseteq 1 .. Size(u)
    BY DEF Waiting
  <2>6. ToOffer(u) \subseteq 1 .. Size(u)
    BY <2>1 DEF ToOffer
  <2>7. ASSUME NEW i \in 1 .. Size(u)
        PROVE  i \in Done(u) \cup Waiting(u) \cup dropped[u] \cup ToOffer(u)
    <3>1. CASE i \in 1 .. next[u]
      BY <2>1, <2>2, <3>1 DEF OfferInv, Waiting
    <3>2. CASE i \notin 1 .. next[u]
      <4>1. next[u] # Size(u)
        BY <3>2
      <4>2. pc[u] \in {"offer", "panicked"}
        BY <2>1, <2>2, <4>1 DEF StageInv, Passed
      <4>3. i \in next[u] + 1 .. Size(u)
        BY <2>1, <3>2
      <4>4. QED
        BY <4>2, <4>3 DEF ToOffer
    <3>3. QED
      BY <3>1, <3>2
  <2>8. 1 .. next[u] \subseteq 1 .. Size(u)
    BY <2>1, <2>3
  <2>9. QED
    BY <2>4, <2>5, <2>6, <2>7, <2>8
<1>2. QED
  BY <1>1, TypedInvariant, PTL

(* An answer of success means that every reading is stored, a refusal that *)
(* none is, but for an unreported commit (receiver.go:104); the closed bus  *)
(* panics no handler within Shutdown's 30 seconds, and the readings of one  *)
(* it does panic are stored (main.go:85, bus.go:220).                       *)
THEOREM EndsAreTrue == Spec => []EndTellsStored
<1>1. TypeOK /\ IInv => AnswerTellsStored
  BY DEF AnswerTellsStored, IInv, StageInv, Passed
<1>2. TypeOK /\ IInv => PanicsOnlyAfterDeadline
  BY DEF PanicsOnlyAfterDeadline, IInv, DeadlineInv, StageInv, Passed
<1>3. TypeOK /\ IInv => EndTellsStored
  BY <1>1, <1>2 DEF EndTellsStored
<1>4. QED
  BY <1>3, TypedInvariant, PTL

-----------------------------------------------------------------------------
(* The refinement: every step of SensorIngest is one of IngestContract or  *)
(* leaves its variables alone.                                             *)

LEMMA ContractStutter ==
  ASSUME UNCHANGED <<payload, rows, evaluated, pc, mirrored>>
  PROVE  UNCHANGED Contract!contractVars
  BY DEF Contract!contractVars, Size, Readings

LEMMA ContractHandler ==
  ASSUME TypeOK, IInv, NEW u \in Uploads, Handler(u)
  PROVE  [Contract!Next]_(Contract!contractVars)
<1>0. HandlerTypes /\ RecordTypes /\ Size(u) \in Nat /\ StageInv(u)
  BY PayloadType DEF TypeOK, IInv
<1>1. payload' = payload /\ evaluated' = evaluated /\ mirrored' = mirrored
  BY DEF Handler, InsertReading, InsertFails, Commit, OfferReading, AllOffered, OfferBatch,
     SendPanics, Answer, recordVars
<1>2. [w \in Uploads |-> Size(w)]' = [w \in Uploads |-> Size(w)]
  BY <1>1 DEF Size, Readings
<1>3. CASE Commit(u)
  <2>1. /\ pc[u] = "commit" /\ rows[u] = 0 /\ Storable(u)
        /\ pc'[u] \in {"offer", "refused"}
        /\ \A v \in Uploads \ {u} : pc'[v] = pc[v]
    BY <1>0, <1>3 DEF Commit, At, Go, AfterCommit, StageInv, HandlerTypes
  <2>2. Size(u) > 0
    <3>1. Size(u) \in 1 .. MaxBatch
      BY <2>1 DEF Storable, Valid, Size, Readings
    <3>2. QED
      BY <3>1, IngestAssumption
  <2>3. {v \in Uploads : pc[v] = "success"}' = {v \in Uploads : pc[v] = "success"}
    BY <2>1
  <2>4. CASE rows' = rows
    BY <1>1, <1>2, <2>3, <2>4 DEF Contract!contractVars
  <2>5. CASE rows' = [rows EXCEPT ![u] = Size(u)]
    <3>1. {v \in Uploads : rows[v] > 0}' = {v \in Uploads : rows[v] > 0} \cup {u}
      BY <1>0, <2>2, <2>5 DEF RecordTypes
    <3>2. Contract!Store(u)
      BY <1>1, <1>2, <2>1, <2>2, <2>3, <3>1 DEF Contract!Store
    <3>3. QED
      BY <3>2 DEF Contract!Next
  <2>6. QED
    BY <1>3, <2>4, <2>5 DEF Commit
<1>4. CASE Answer(u)
  <2>1. /\ pc[u] = "answer" /\ rows' = rows /\ pc' = [pc EXCEPT ![u] = "success"]
        /\ rows[u] = Size(u) /\ Storable(u)
    BY <1>0, <1>4 DEF Answer, At, Go, StageInv, Passed
  <2>2. rows[u] > 0
    <3>1. Size(u) \in 1 .. MaxBatch
      BY <2>1 DEF Storable, Valid, Size, Readings
    <3>2. QED
      BY <2>1, <3>1, IngestAssumption
  <2>3. {v \in Uploads : pc[v] = "success"}' = {v \in Uploads : pc[v] = "success"} \cup {u}
    BY <1>0, <2>1 DEF HandlerTypes
  <2>4. Contract!Acknowledge(u)
    BY <1>1, <1>2, <2>1, <2>2, <2>3 DEF Contract!Acknowledge
  <2>5. QED
    BY <2>4 DEF Contract!Next
<1>5. CASE \/ InsertReading(u) \/ InsertFails(u) \/ OfferReading(u) \/ AllOffered(u)
           \/ OfferBatch(u) \/ SendPanics(u)
  <2>1. /\ pc[u] # "success" /\ pc'[u] # "success"
        /\ \A v \in Uploads \ {u} : pc'[v] = pc[v]
    BY <1>0, <1>5 DEF InsertReading, InsertFails, OfferReading, AllOffered, OfferBatch,
       SendPanics, At, Go, HandlerTypes
  <2>2. \A v \in Uploads : rows'[v] = rows[v]
    BY <1>0, <1>5 DEF InsertReading, InsertFails, OfferReading, AllOffered, OfferBatch,
       SendPanics, At, AfterError, StageInv, RecordTypes
  <2>3. /\ {v \in Uploads : pc[v] = "success"}' = {v \in Uploads : pc[v] = "success"}
        /\ {v \in Uploads : rows[v] > 0}' = {v \in Uploads : rows[v] > 0}
    BY <2>1, <2>2
  <2>4. QED
    BY <1>1, <1>2, <2>3 DEF Contract!contractVars
<1>6. QED
  BY <1>3, <1>4, <1>5 DEF Handler

LEMMA ContractUpload ==
  ASSUME TypeOK, IInv, NEW u \in Uploads, Upload(u)
  PROVE  [Contract!Next]_(Contract!contractVars)
<1>0. HandlerTypes /\ StageInv(u) /\ pc[u] = "new"
  BY DEF TypeOK, IInv, Upload, At
<1>1. Size(u) = 0
  BY <1>0 DEF StageInv, Size, Readings, NoPayload
<1> PICK p \in Payloads :
      /\ payload' = [payload EXCEPT ![u] = p]
      /\ Go(u, IF Valid(p) THEN "insert" ELSE "refused")
  BY DEF Upload
<1>2. Size(u)' = Len(p.readings) /\ Len(p.readings) \in Nat
  BY <1>0, IngestAssumption DEF Size, Readings, HandlerTypes
<1>3. \A v \in Uploads \ {u} : Size(v)' = Size(v)
  BY <1>0 DEF Size, Readings, HandlerTypes
<1>4. {v \in Uploads : pc[v] = "success"}' = {v \in Uploads : pc[v] = "success"}
  BY <1>0 DEF Go, HandlerTypes
<1>5. UNCHANGED <<rows, evaluated, mirrored>>
  BY DEF Upload, recordVars
<1>6. Contract!Arrive(u)
  BY <1>1, <1>2, <1>3, <1>4, <1>5 DEF Contract!Arrive
<1>7. QED
  BY <1>6 DEF Contract!Next

LEMMA ContractTake ==
  ASSUME TypeOK, IInv, TakeReading
  PROVE  Contract!Next
<1>1. alarmCh \in Seq(Uploads \X Nat) /\ alarmCh # <<>>
  BY DEF TypeOK, ChannelTypes, TakeReading
<1>2. Head(alarmCh) \in Uploads \X Nat /\ 1 \in DOMAIN alarmCh /\ Head(alarmCh) = alarmCh[1]
  BY <1>1
<1> PICK u \in Uploads, i \in Nat : alarmCh[1] = <<u, i>>
  BY <1>2
<1>3. /\ pc[u] \in Passed /\ i \in 1 .. next[u]
      /\ \A m \in DOMAIN evaluated[u] : evaluated[u][m] < i
  BY <1>2 DEF IInv, ChannelInv
<1>4. /\ Size(u) \in Nat /\ next[u] \in Nat /\ next[u] <= Size(u) /\ rows[u] = Size(u)
  BY <1>3, PayloadType DEF IInv, StageInv, TypeOK, HandlerTypes
<1>5. rows[u] > 0 /\ i \in 1 .. Size(u)
  BY <1>3, <1>4
<1>6. evaluated' = [evaluated EXCEPT ![u] = Append(@, i)]
  <2>1. Head(alarmCh)[1] = u /\ Head(alarmCh)[2] = i
    BY <1>2
  <2>2. QED
    BY <2>1 DEF TakeReading
<1>7. UNCHANGED <<payload, rows, pc, mirrored>>
  BY DEF TakeReading, handlerVars
<1>8. UNCHANGED <<[v \in Uploads |-> Size(v)], {v \in Uploads : rows[v] > 0},
                  {v \in Uploads : pc[v] = "success"}>>
  BY <1>7 DEF Size, Readings
<1>9. Contract!Evaluate(u, i)
  BY <1>3, <1>5, <1>6, <1>7, <1>8 DEF Contract!Evaluate
<1>10. i \in 1 .. [v \in Uploads |-> Size(v)][u]
  BY <1>5
<1>11. QED
  BY <1>9, <1>10 DEF Contract!Next

LEMMA ContractMirror ==
  ASSUME TypeOK, IInv, NEW u \in Uploads, Mirror(u)
  PROVE  [Contract!Next]_(Contract!contractVars)
<1>1. UNCHANGED <<payload, rows, pc, evaluated>> /\ mirrored' \in {mirrored, mirrored \cup {u}}
  BY DEF Mirror, handlerVars
<1>2. CASE mirrored' = mirrored
  BY <1>1, <1>2, ContractStutter
<1>3. CASE mirrored' = mirrored \cup {u}
  <2>1. pc[u] = "success" /\ u \notin mirrored
    BY DEF IInv, MirrorInv, Mirror
  <2>2. /\ StageInv(u) /\ rows[u] = Size(u) /\ Storable(u)
    BY <2>1 DEF IInv, StageInv, Passed
  <2>3. rows[u] > 0
    <3>1. Size(u) \in 1 .. MaxBatch
      BY <2>2 DEF Storable, Valid, Size, Readings
    <3>2. QED
      BY <2>2, <3>1, IngestAssumption
  <2>4. UNCHANGED <<[v \in Uploads |-> Size(v)], {v \in Uploads : rows[v] > 0},
                    {v \in Uploads : pc[v] = "success"}>>
    BY <1>1 DEF Size, Readings
  <2>5. Contract!Mirror(u)
    BY <1>1, <1>3, <2>1, <2>3, <2>4 DEF Contract!Mirror
  <2>6. QED
    BY <2>5 DEF Contract!Next
<1>4. QED
  BY <1>1, <1>2, <1>3

LEMMA ContractStep ==
  TypeOK /\ IInv /\ [Next]_vars => [Contract!Next]_(Contract!contractVars)
<1> SUFFICES ASSUME TypeOK, IInv, [Next]_vars
             PROVE  [Contract!Next]_(Contract!contractVars)
  OBVIOUS
<1>1. CASE \/ \E u \in Uploads : ClientGoes(u)
           \/ TakeBatch \/ ReceiverReturns \/ AlarmLoopReturns \/ Signal
           \/ Crash \/ Exit \/ DrainExpires \/ StopBegins \/ UNCHANGED vars
  <2>1. UNCHANGED <<payload, rows, evaluated, pc, mirrored>>
    BY <1>1 DEF ClientGoes, TakeBatch, ReceiverReturns, AlarmLoopReturns, Signal, Crash,
       Exit, DrainExpires, StopBegins, vars, handlerVars, recordVars
  <2>2. QED
    BY <2>1, ContractStutter
<1>2. QED
  BY <1>1, ContractUpload, ContractHandler, ContractMirror, ContractTake DEF Next

(* Handlers, transaction, channels and loops together keep the contract:   *)
(* stored at once, evaluated only when stored, once and in order,          *)
(* acknowledged and mirrored only when stored.                             *)
THEOREM ContractImplemented == Spec => ImplementsContract
<1>1. TypeOK /\ Init => Contract!Init
  <2> SUFFICES ASSUME Init PROVE Contract!Init
    OBVIOUS
  <2>1. \A u \in Uploads : Size(u) = 0 /\ rows[u] = 0 /\ pc[u] = "new"
    BY DEF Init, Size, Readings, NoPayload
  <2>2. QED
    BY <2>1 DEF Init, Contract!Init
<1>2. QED
  BY <1>1, ContractStep, TypeInit, TypedInvariant, PTL
  DEF Spec, ImplementsContract, Contract!Spec
=============================================================================
