--------------------------- MODULE AlarmMQTTProofs ---------------------------
(* Proofs about AlarmMQTT, for every value of its constants.              *)
EXTENDS AlarmMQTT, TLAPS

-----------------------------------------------------------------------------
(* Sequences as the sets of their elements.                               *)

LEMMA ElemsOfEmpty == Elems(<<>>) = {}
  BY DEF Elems

LEMMA ElemsOfAppend ==
  ASSUME NEW S, NEW s \in Seq(S), NEW x \in S
  PROVE  /\ Append(s, x) \in Seq(S)
         /\ Elems(Append(s, x)) = Elems(s) \cup {x}
         /\ Distinct(s) /\ x \notin Elems(s) => Distinct(Append(s, x))
<1>1. /\ Append(s, x) \in Seq(S)
      /\ DOMAIN Append(s, x) = 1..(Len(s) + 1)
      /\ \A i \in 1..Len(s) : Append(s, x)[i] = s[i]
      /\ Append(s, x)[Len(s) + 1] = x
      /\ DOMAIN s = 1..Len(s)
      /\ Len(s) \in Nat
  OBVIOUS
<1>2. Elems(Append(s, x)) = Elems(s) \cup {x}
  <2>1. ASSUME NEW y \in Elems(Append(s, x)) PROVE y \in Elems(s) \cup {x}
    BY <2>1, <1>1 DEF Elems
  <2>2. ASSUME NEW y \in Elems(s) PROVE y \in Elems(Append(s, x))
    BY <2>2, <1>1 DEF Elems
  <2>3. x \in Elems(Append(s, x))
    BY <1>1 DEF Elems
  <2>4. QED
    BY <2>1, <2>2, <2>3
<1>3. ASSUME Distinct(s), x \notin Elems(s) PROVE Distinct(Append(s, x))
  BY <1>1, <1>3 DEF Distinct, Elems
<1>4. QED
  BY <1>1, <1>2, <1>3

LEMMA ElemsOfTail ==
  ASSUME NEW S, NEW s \in Seq(S), s # <<>>
  PROVE  /\ Tail(s) \in Seq(S)
         /\ Head(s) \in S
         /\ Elems(s) = Elems(Tail(s)) \cup {Head(s)}
         /\ Distinct(s) => Distinct(Tail(s)) /\ Head(s) \notin Elems(Tail(s))
<1>1. /\ Tail(s) \in Seq(S)
      /\ Head(s) = s[1]
      /\ Head(s) \in S
      /\ Len(s) \in Nat \ {0}
      /\ DOMAIN s = 1..Len(s)
      /\ DOMAIN Tail(s) = 1..(Len(s) - 1)
      /\ \A i \in 1..(Len(s) - 1) : Tail(s)[i] = s[i + 1]
  OBVIOUS
<1>2. Elems(s) = Elems(Tail(s)) \cup {Head(s)}
  <2>1. ASSUME NEW i \in 1..Len(s) PROVE s[i] \in Elems(Tail(s)) \cup {Head(s)}
    <3>1. CASE i = 1
      BY <3>1, <1>1
    <3>2. CASE i # 1
      <4>1. i - 1 \in 1..(Len(s) - 1) /\ Tail(s)[i - 1] = s[i]
        BY <3>2, <1>1
      <4>2. QED
        BY <4>1, <1>1 DEF Elems
    <3>3. QED
      BY <3>1, <3>2
  <2>2. ASSUME NEW y \in Elems(Tail(s)) \cup {Head(s)} PROVE y \in Elems(s)
    BY <2>2, <1>1 DEF Elems
  <2>3. QED
    BY <2>1, <2>2, <1>1 DEF Elems
<1>3. ASSUME Distinct(s)
      PROVE  Distinct(Tail(s)) /\ Head(s) \notin Elems(Tail(s))
  BY <1>1, <1>3 DEF Distinct, Elems
<1>4. QED
  BY <1>1, <1>2, <1>3

LEMMA ElemsInSet == ASSUME NEW S, NEW s \in Seq(S) PROVE Elems(s) \subseteq S
  BY DEF Elems

LEMMA DistinctEmpty == Distinct(<<>>)
  BY DEF Distinct

-----------------------------------------------------------------------------
(* The type invariant.                                                    *)

LEMMA LevelType == \A v, c : EvaluateThreshold(v, c) \in Levels
  BY DEF EvaluateThreshold, Levels

(* A step that leaves a group of variables alone leaves its types alone.  *)
LEMMA ServiceTypesStable ==
  ServiceTypes /\ UNCHANGED <<serviceVars, boundVars>> => ServiceTypes'
  BY DEF ServiceTypes, serviceVars, boundVars

LEMMA LoopTypesStable == LoopTypes /\ UNCHANGED alarmVars => LoopTypes'
  BY DEF LoopTypes, alarmVars

LEMMA RetryTypesStable == RetryTypes /\ UNCHANGED retryVars => RetryTypes'
  BY DEF RetryTypes, retryVars

LEMMA ItemTypesStable == ItemTypes /\ UNCHANGED itemVars => ItemTypes'
  BY DEF ItemTypes, itemVars

LEMMA RecordTypesStable ==
  RecordTypes /\ UNCHANGED <<rows, brokerVars, logVars>> => RecordTypes'
  BY DEF RecordTypes, brokerVars, logVars

LEMMA CustodyType == TypeOK => Custody \subseteq Alarms
  BY ElemsInSet DEF TypeOK, RetryTypes, Custody, InQueue

LEMMA PublishTypes ==
  ASSUME RecordTypes, NEW a \in Alarms, PublishSucceeds(a) \/ PublishFails(a),
         UNCHANGED <<rows, logVars>>
  PROVE  RecordTypes'
  BY DEF RecordTypes, PublishSucceeds, PublishFails, logVars

(* The types are inductive, one step per action.                          *)
LEMMA TypeStep == TypeOK /\ [Next]_vars => TypeOK'
<1> SUFFICES ASSUME TypeOK, [Next]_vars PROVE TypeOK'
  OBVIOUS
<1>0. ServiceTypes /\ LoopTypes /\ RetryTypes /\ ItemTypes /\ RecordTypes
  BY DEF TypeOK
<1>1. CASE EvaluateAndPush
  <2>1. ServiceTypes' /\ RetryTypes' /\ ItemTypes'
    BY <1>0, <1>1, ServiceTypesStable, RetryTypesStable, ItemTypesStable
    DEF EvaluateAndPush
  <2>2. RecordTypes'
    BY <1>0, <1>1 DEF EvaluateAndPush, RecordTypes, brokerVars
  <2>3. /\ Tail(alarmCh) \in Seq(Readings) /\ Len(Tail(alarmCh)) <= ChanCap
        /\ Head(alarmCh).sensor \in Sensors
    <3>1. alarmCh \in Seq(Readings) /\ Len(alarmCh) <= ChanCap /\ alarmCh # <<>>
      BY <1>0, <1>1 DEF EvaluateAndPush, LoopTypes
    <3>2. Head(alarmCh) \in Readings
      BY <3>1
    <3>3. Tail(alarmCh) \in Seq(Readings) /\ Len(Tail(alarmCh)) = Len(alarmCh) - 1
      BY <3>1
    <3>4. ChanCap \in Nat /\ Len(alarmCh) \in Nat
      BY <3>1, ConstantsAssumption
    <3>5. QED
      BY <3>1, <3>2, <3>3, <3>4 DEF Readings
  <2>4. LoopTypes'
    BY <1>0, <1>1, <2>3, LevelType, ConstantsAssumption
    DEF EvaluateAndPush, LoopTypes
  <2>5. QED
    BY <2>1, <2>2, <2>4 DEF TypeOK
<1>2. CASE InsertAlarm
  <2>1. ServiceTypes' /\ RetryTypes'
    BY <1>0, <1>2, ServiceTypesStable, RetryTypesStable DEF InsertAlarm
  <2>2. LoopTypes'
    BY <1>0, <1>2 DEF InsertAlarm, LoopTypes
  <2>3. alarmCur \in Alarms
    BY <1>0, <1>2 DEF InsertAlarm, LoopTypes
  <2>4. ItemTypes' /\ RecordTypes'
    BY <1>0, <1>2, <2>3
    DEF InsertAlarm, ItemTypes, RecordTypes, brokerVars, logVars
  <2>5. QED
    BY <2>1, <2>2, <2>4 DEF TypeOK
<1>3. CASE PersistAndPublish
  <2>1. ServiceTypes' /\ RetryTypes' /\ ItemTypes'
    BY <1>0, <1>3, ServiceTypesStable, RetryTypesStable, ItemTypesStable
    DEF PersistAndPublish
  <2>2. alarmCur \in Alarms
    BY <1>0, <1>3 DEF PersistAndPublish, LoopTypes
  <2>3. RecordTypes'
    BY <1>0, <1>3, <2>2, PublishTypes DEF PersistAndPublish, logVars
  <2>4. LoopTypes'
    BY <1>0, <1>3, <2>2 DEF PersistAndPublish, AfterFailedPublish, LoopTypes
  <2>5. QED
    BY <2>1, <2>3, <2>4 DEF TypeOK
<1>4. CASE AlarmMark
  <2>1. ServiceTypes' /\ RetryTypes' /\ ItemTypes'
    BY <1>0, <1>4, ServiceTypesStable, RetryTypesStable, ItemTypesStable
    DEF AlarmMark
  <2>2. LoopTypes'
    BY <1>0, <1>4 DEF AlarmMark, LoopTypes
  <2>3. RecordTypes'
    BY <1>0, <1>4 DEF AlarmMark, MarkPublished, RecordTypes, brokerVars, logVars
  <2>4. QED
    BY <2>1, <2>2, <2>3 DEF TypeOK
<1>5. CASE PushRetry
  <2>1. ServiceTypes' /\ RecordTypes'
    BY <1>0, <1>5, ServiceTypesStable, RecordTypesStable DEF PushRetry
  <2>2. alarmCur \in Alarms
    BY <1>0, <1>5 DEF PushRetry, LoopTypes
  <2>3. LoopTypes'
    BY <1>0, <1>5 DEF PushRetry, LoopTypes
  <2>4. RetryTypes'
    BY <1>0, <1>5, <2>2, ElemsOfAppend DEF PushRetry, RetryTypes
  <2>5. ItemTypes'
    BY <1>0, <1>5, <2>2, ConstantsAssumption DEF PushRetry, ItemTypes
  <2>6. QED
    BY <2>1, <2>3, <2>4, <2>5 DEF TypeOK
<1>6. CASE RetryTick
  <2>1. ServiceTypes' /\ LoopTypes' /\ ItemTypes' /\ RecordTypes'
    BY <1>0, <1>6, ServiceTypesStable, LoopTypesStable, ItemTypesStable,
       RecordTypesStable DEF RetryTick
  <2>2. Elems(retryQueue) \subseteq Alarms
    BY <1>0, ElemsInSet DEF RetryTypes
  <2>3. RetryTypes'
    BY <1>0, <1>6, <2>2 DEF RetryTick, KeptAtStart, RetryTypes
  <2>4. QED
    BY <2>1, <2>3 DEF TypeOK
<1>7. CASE RetryDrop
  <2>1. ServiceTypes' /\ LoopTypes' /\ ItemTypes'
    BY <1>0, <1>7, ServiceTypesStable, LoopTypesStable, ItemTypesStable
    DEF RetryDrop
  <2>2. RetryTypes'
    BY <1>0, <1>7, ElemsOfTail DEF RetryDrop, RetryVisits, RetryTypes
  <2>3. RecordTypes'
    BY <1>0, <1>7 DEF RetryDrop, RecordTypes, brokerVars
  <2>4. QED
    BY <2>1, <2>2, <2>3 DEF TypeOK
<1>8. CASE RetryKeep
  <2>1. ServiceTypes' /\ LoopTypes' /\ ItemTypes' /\ RecordTypes'
    BY <1>0, <1>8, ServiceTypesStable, LoopTypesStable, ItemTypesStable,
       RecordTypesStable DEF RetryKeep
  <2>2. RetryTypes'
    BY <1>0, <1>8, ElemsOfTail, ElemsOfAppend
    DEF RetryKeep, RetryVisits, RetryTypes
  <2>3. QED
    BY <2>1, <2>2 DEF TypeOK
<1>9. CASE RetryPublish
  <2> PICK a \in Alarms : RetryPublish!(a)
    BY <1>9 DEF RetryPublish
  <2>1. ServiceTypes' /\ LoopTypes'
    BY <1>0, ServiceTypesStable, LoopTypesStable
  <2>2. RetryTypes'
    <3>1. Tail(rest) \in Seq(Alarms) /\ Append(remaining, a) \in Seq(Alarms)
      BY <1>0 DEF RetryVisits, RetryTypes
    <3>2. QED
      BY <1>0, <3>1 DEF RetryVisits, RetryTypes, RetryPublish
  <2>3. ItemTypes'
    BY <1>0, ConstantsAssumption DEF RetriesExhausted, ItemTypes
  <2>4. RecordTypes'
    BY <1>0, PublishTypes DEF logVars
  <2>5. QED
    BY <2>1, <2>2, <2>3, <2>4 DEF TypeOK
<1>10. CASE RetryMark
  <2>1. ServiceTypes' /\ LoopTypes' /\ ItemTypes'
    BY <1>0, <1>10, ServiceTypesStable, LoopTypesStable, ItemTypesStable
    DEF RetryMark
  <2>2. RetryTypes'
    BY <1>0, <1>10, ElemsOfTail DEF RetryMark, RetryTypes
  <2>3. RecordTypes'
    BY <1>0, <1>10 DEF RetryMark, MarkPublished, RecordTypes, brokerVars, logVars
  <2>4. QED
    BY <2>1, <2>2, <2>3 DEF TypeOK
<1>11. CASE RetryPassEnds
  <2>1. ServiceTypes' /\ LoopTypes' /\ ItemTypes' /\ RecordTypes'
    BY <1>0, <1>11, ServiceTypesStable, LoopTypesStable, ItemTypesStable,
       RecordTypesStable DEF RetryPassEnds
  <2>2. RetryTypes'
    BY <1>0, <1>11 DEF RetryPassEnds, RetryTypes
  <2>3. QED
    BY <2>1, <2>2 DEF TypeOK
<1>12. CASE Stop \/ ConnectionChanges
  <2>1. LoopTypes' /\ RetryTypes' /\ ItemTypes' /\ RecordTypes'
    BY <1>0, <1>12, LoopTypesStable, RetryTypesStable, ItemTypesStable,
       RecordTypesStable DEF Stop, ConnectionChanges
  <2>2. ServiceTypes'
    BY <1>0, <1>12 DEF Stop, ConnectionChanges, ServiceTypes, boundVars
  <2>3. QED
    BY <2>1, <2>2 DEF TypeOK
<1>13. CASE AlarmLoopExits \/ RetryLoopExits
  <2>1. ServiceTypes' /\ ItemTypes' /\ RecordTypes'
    BY <1>0, <1>13, ServiceTypesStable, ItemTypesStable, RecordTypesStable
    DEF AlarmLoopExits, RetryLoopExits
  <2>2. LoopTypes' /\ RetryTypes'
    BY <1>0, <1>13
    DEF AlarmLoopExits, RetryLoopExits, LoopTypes, RetryTypes, alarmVars, retryVars
  <2>3. QED
    BY <2>1, <2>2 DEF TypeOK
<1>14. CASE StopReturns \/ Crash
  <2>1. LoopTypes' /\ RetryTypes' /\ ItemTypes'
    BY <1>0, <1>14, LoopTypesStable, RetryTypesStable, ItemTypesStable
    DEF StopReturns, Crash
  <2>2. ServiceTypes'
    BY <1>0, <1>14 DEF StopReturns, Crash, ProcessEnds, ServiceTypes, boundVars
  <2>3. RecordTypes'
    BY <1>0, <1>14, CustodyType
    DEF StopReturns, Crash, ProcessEnds, RecordTypes, brokerVars
  <2>4. QED
    BY <2>1, <2>2, <2>3 DEF TypeOK
<1>15. CASE Restart
  <2>1. RecordTypes'
    BY <1>0, <1>15 DEF Restart, FreshMemory, RecordTypes, logVars
  <2>2. ServiceTypes'
    BY <1>0, <1>15, ConstantsAssumption DEF Restart, FreshMemory, ServiceTypes
  <2>3. LoopTypes' /\ RetryTypes' /\ ItemTypes'
    BY <1>15, ConstantsAssumption
    DEF Restart, FreshMemory, LoopTypes, RetryTypes, ItemTypes
  <2>4. QED
    BY <2>1, <2>2, <2>3 DEF TypeOK
<1>16. ASSUME NEW m \in Readings, Offer(m) PROVE TypeOK'
  <2>1. RetryTypes' /\ ItemTypes' /\ RecordTypes'
    BY <1>0, <1>16, RetryTypesStable, ItemTypesStable, RecordTypesStable DEF Offer
  <2>2. ServiceTypes'
    BY <1>0, <1>16, ConstantsAssumption DEF Offer, ServiceTypes, serviceVars
  <2>3. LoopTypes'
    BY <1>0, <1>16, ConstantsAssumption DEF Offer, ChannelHasRoom, LoopTypes
  <2>4. QED
    BY <2>1, <2>2, <2>3 DEF TypeOK
<1>17. ASSUME NEW s \in Sensors, CooldownExpires(s) PROVE TypeOK'
  <2>1. ServiceTypes' /\ RetryTypes' /\ ItemTypes' /\ RecordTypes'
    BY <1>0, <1>17, ServiceTypesStable, RetryTypesStable, ItemTypesStable,
       RecordTypesStable DEF CooldownExpires
  <2>2. LoopTypes'
    BY <1>0, <1>17 DEF CooldownExpires, LoopTypes
  <2>3. QED
    BY <2>1, <2>2 DEF TypeOK
<1>18. ASSUME NEW a \in Alarms, BackoffElapses(a) PROVE TypeOK'
  <2>1. ServiceTypes' /\ LoopTypes' /\ RetryTypes' /\ RecordTypes'
    BY <1>0, <1>18, ServiceTypesStable, LoopTypesStable, RetryTypesStable,
       RecordTypesStable DEF BackoffElapses
  <2>2. ItemTypes'
    BY <1>0, <1>18 DEF BackoffElapses, ItemTypes
  <2>3. QED
    BY <2>1, <2>2 DEF TypeOK
<1>19. ASSUME NEW a \in Alarms, CopyArrives(a) PROVE TypeOK'
  <2>1. ServiceTypes' /\ LoopTypes' /\ RetryTypes' /\ ItemTypes'
    BY <1>0, <1>19, ServiceTypesStable, LoopTypesStable, RetryTypesStable,
       ItemTypesStable DEF CopyArrives
  <2>2. RecordTypes'
    BY <1>0, <1>19 DEF CopyArrives, RecordTypes, logVars
  <2>3. QED
    BY <2>1, <2>2 DEF TypeOK
<1>20. CASE UNCHANGED vars
  BY <1>0, <1>20, ServiceTypesStable, LoopTypesStable, RetryTypesStable,
     ItemTypesStable, RecordTypesStable DEF vars, TypeOK
<1>21. QED
  BY <1>1, <1>2, <1>3, <1>4, <1>5, <1>6, <1>7, <1>8, <1>9, <1>10, <1>11, <1>12,
     <1>13, <1>14, <1>15, <1>16, <1>17, <1>18, <1>19, <1>20
  DEF Next, AlarmLoop, RetryPass, Environment

(* TypeOK holds in every reachable state: among other things the channel  *)
(* never holds more than ChanCap readings, alarmLoop holds an alarm        *)
(* exactly while it works on one, and no retry item ever counts more than  *)
(* MaxRetries retries.                                                     *)
THEOREM TypeCorrect == Spec => []TypeOK
<1>1. Init => TypeOK
  BY ConstantsAssumption, ElemsOfEmpty
  DEF Init, TypeOK, ServiceTypes, LoopTypes, RetryTypes, ItemTypes, RecordTypes
<1>2. QED
  BY <1>1, TypeStep, PTL DEF Spec

-----------------------------------------------------------------------------
(* The inductive invariant. NoAlarmVanishes and the properties about       *)
(* confirmations and tries are not inductive alone: whether an alarm in    *)
(* the queue may be published, dropped or forgotten depends on its being   *)
(* there once, unconfirmed, with one try more than its RetryCount.         *)

QueueDistinct ==
  /\ Distinct(retryQueue) /\ Distinct(rest) /\ Distinct(remaining)
  /\ Elems(rest) \cap Elems(remaining) = {}

(* What is in hand is unconfirmed, except between publish and mark.       *)
HandInv ==
  /\ alarmPc = "mark" => alarmCur \in acked
  /\ alarmPc \in {"insert", "publish", "push"} => alarmCur \notin acked
  /\ retryPc = "mark" => Head(rest) \in acked
  /\ \A a \in InQueue : a \in acked => retryPc = "mark" /\ a = Head(rest)

(* Confirmed, dropped and lost exclude each other and what is in hand.     *)
SettledInv ==
  /\ acked \cap (dropped \cup lost) = {}
  /\ life # "dead" => Custody \cap (dropped \cup lost) = {}

TriesInv ==
  /\ \A a \in Alarms : attempts[a] <= MaxRetries + 1
  /\ \A a \in Alarms : a \notin raised => attempts[a] = 0
  /\ alarmPc \in {"insert", "publish"} => attempts[alarmCur] = 0
  /\ alarmPc = "push" => attempts[alarmCur] = 1
  /\ \A a \in InQueue : a \notin acked => attempts[a] = retryCount[a] + 1
  /\ \A a \in dropped : attempts[a] = MaxRetries + 1

ConfirmedInv ==
  /\ acked \subseteq got
  /\ \A a \in Alarms : rows[a] = "published" => a \in acked

IInv ==
  /\ CustodyUnique
  /\ HandInv
  /\ SettledInv
  /\ NoAlarmVanishes
  /\ TriesInv
  /\ ConfirmedInv

-----------------------------------------------------------------------------
(* What the steps do to the queue, as a set.                              *)

LEMMA UniqueSplit == CustodyUnique <=> QueueDistinct /\ alarmCur \notin InQueue
  BY DEF CustodyUnique, QueueDistinct

LEMMA QueueStable ==
  UNCHANGED <<retryQueue, rest, remaining>> /\ (retryPc' \in {"pass", "mark"}
    <=> retryPc \in {"pass", "mark"})
  => InQueue' = InQueue /\ (QueueDistinct <=> QueueDistinct')
  BY DEF InQueue, QueueDistinct, Elems, Distinct

(* One item of the pass is done with: it leaves the queue, or it is kept.  *)
LEMMA VisitEffect ==
  ASSUME TypeOK, QueueDistinct, rest # <<>>, retryPc \in {"pass", "mark"},
         retryPc' = "pass", rest' = Tail(rest), UNCHANGED retryQueue
  PROVE  /\ Head(rest) \in Alarms /\ Head(rest) \in InQueue
         /\ UNCHANGED remaining
              => QueueDistinct' /\ InQueue' = InQueue \ {Head(rest)}
         /\ remaining' = Append(remaining, Head(rest))
              => QueueDistinct' /\ InQueue' = InQueue
<1> DEFINE h == Head(rest)
<1>1. rest \in Seq(Alarms) /\ remaining \in Seq(Alarms)
  BY DEF TypeOK, RetryTypes
<1>2. /\ h \in Alarms
      /\ Elems(rest) = Elems(Tail(rest)) \cup {h}
      /\ Distinct(Tail(rest)) /\ h \notin Elems(Tail(rest))
      /\ h \notin Elems(remaining)
  BY <1>1, ElemsOfTail DEF QueueDistinct
<1>3. InQueue = Elems(rest) \cup Elems(remaining)
  BY DEF InQueue
<1>4. InQueue' = Elems(Tail(rest)) \cup Elems(remaining')
  BY DEF InQueue
<1>5. ASSUME UNCHANGED remaining
      PROVE  QueueDistinct' /\ InQueue' = InQueue \ {h}
  BY <1>2, <1>3, <1>4, <1>5 DEF QueueDistinct
<1>6. ASSUME remaining' = Append(remaining, h)
      PROVE  QueueDistinct' /\ InQueue' = InQueue
  <2>1. /\ Elems(remaining') = Elems(remaining) \cup {h}
        /\ Distinct(remaining')
    BY <1>1, <1>2, <1>6, ElemsOfAppend DEF QueueDistinct
  <2>2. QED
    BY <1>2, <1>3, <1>4, <2>1 DEF QueueDistinct
<1>7. QED
  BY <1>2, <1>3, <1>5, <1>6

LEMMA PushEffect ==
  ASSUME TypeOK, QueueDistinct, alarmCur \notin InQueue, PushRetry
  PROVE  /\ alarmCur \in Alarms
         /\ QueueDistinct' /\ InQueue' = InQueue \cup {alarmCur}
<1>1. /\ alarmCur \in Alarms /\ retryQueue \in Seq(Alarms)
      /\ InQueue = Elems(retryQueue)
      /\ retryQueue' = Append(retryQueue, alarmCur)
      /\ UNCHANGED <<rest, remaining, retryPc>>
      /\ InQueue' = Elems(retryQueue')
  BY DEF PushRetry, RetryMuFree, TypeOK, LoopTypes, RetryTypes, InQueue
<1>2. /\ Elems(retryQueue') = Elems(retryQueue) \cup {alarmCur}
      /\ Distinct(retryQueue')
  BY <1>1, ElemsOfAppend DEF QueueDistinct
<1>3. QED
  BY <1>1, <1>2 DEF QueueDistinct

LEMMA TickEffect ==
  ASSUME TypeOK, QueueDistinct, RetryTick
  PROVE  QueueDistinct' /\ InQueue' = InQueue
  BY ElemsOfEmpty, DistinctEmpty
  DEF RetryTick, KeptAtStart, QueueDistinct, InQueue, TypeOK, RetryTypes

LEMMA PassEndsEffect ==
  ASSUME TypeOK, QueueDistinct, RetryPassEnds
  PROVE  QueueDistinct' /\ InQueue' = InQueue
  BY ElemsOfEmpty, DistinctEmpty DEF RetryPassEnds, QueueDistinct, InQueue

-----------------------------------------------------------------------------
(* The invariant is inductive, one lemma per group of actions.            *)

(* Steps that leave everything the invariant speaks of alone.             *)
LEMMA IdleStep ==
  ASSUME IInv, life = "dead" <=> life' = "dead",
         UNCHANGED <<alarmPc, alarmCur, retryQueue, retryPc, rest, remaining,
                     retryCount, rows, acked, attempts, logVars>>,
         got \subseteq got'
  PROVE  IInv'
<1>1. InQueue' = InQueue /\ Custody' = Custody
  BY DEF InQueue, Custody, Elems
<1>2. CustodyUnique'
  BY <1>1 DEF IInv, CustodyUnique, Distinct, Elems
<1>3. HandInv' /\ SettledInv' /\ NoAlarmVanishes'
  BY <1>1 DEF IInv, HandInv, SettledInv, NoAlarmVanishes, logVars
<1>4. TriesInv' /\ ConfirmedInv'
  BY <1>1 DEF IInv, TriesInv, ConfirmedInv, logVars
<1>5. QED
  BY <1>2, <1>3, <1>4 DEF IInv

LEMMA EvaluateStep == TypeOK /\ IInv /\ EvaluateAndPush => IInv'
<1> SUFFICES ASSUME TypeOK, IInv, EvaluateAndPush PROVE IInv'
  OBVIOUS
<1>1. CASE UNCHANGED <<alarmPc, alarmCur, raised>>
  BY <1>1, IdleStep DEF EvaluateAndPush, serviceVars, retryVars, itemVars, brokerVars, logVars
<1>2. ASSUME NEW a \in Alarms \ raised, alarmCur' = a, alarmPc' = "insert",
             raised' = raised \cup {a}
      PROVE  IInv'
  <2>1. /\ life # "dead" /\ alarmCur = Nil /\ alarmPc = "idle"
        /\ UNCHANGED <<life, retryQueue, retryPc, rest, remaining, retryCount,
                       rows, got, acked, attempts, dropped, lost>>
    BY DEF EvaluateAndPush, TypeOK, LoopTypes, serviceVars, retryVars, itemVars,
       brokerVars
  <2>2. InQueue' = InQueue /\ Custody = InQueue /\ Custody' = InQueue \cup {a}
    BY <2>1, <1>2, ConstantsAssumption DEF InQueue, Custody, Elems
  <2>3. a \notin InQueue /\ a \notin acked \cup dropped \cup lost
    BY <2>1, <2>2, <1>2 DEF IInv, NoAlarmVanishes
  <2>4. CustodyUnique'
    BY <2>1, <2>2, <2>3, <1>2 DEF IInv, CustodyUnique, Distinct, Elems
  <2>5. HandInv' /\ SettledInv' /\ NoAlarmVanishes'
    BY <2>1, <2>2, <2>3, <1>2 DEF IInv, HandInv, SettledInv, NoAlarmVanishes
  <2>6. TriesInv' /\ ConfirmedInv'
    BY <2>1, <2>2, <2>3, <1>2 DEF IInv, TriesInv, ConfirmedInv
  <2>7. QED
    BY <2>4, <2>5, <2>6 DEF IInv
<1>3. QED
  BY <1>1, <1>2 DEF EvaluateAndPush

LEMMA InsertStep == TypeOK /\ IInv /\ InsertAlarm => IInv'
<1> SUFFICES ASSUME TypeOK, IInv, InsertAlarm PROVE IInv'
  OBVIOUS
<1>1. /\ alarmPc = "insert" /\ alarmPc' = "publish" /\ alarmCur \in Alarms
      /\ UNCHANGED <<life, alarmCur, retryQueue, retryPc, rest, remaining,
                     retryCount, got, acked, attempts, raised, dropped, lost>>
  BY DEF InsertAlarm, TypeOK, LoopTypes, serviceVars, retryVars, brokerVars, logVars
<1>2. InQueue' = InQueue /\ Custody' = Custody
  BY <1>1 DEF InQueue, Custody, Elems
<1>3. CustodyUnique'
  BY <1>1, <1>2 DEF IInv, CustodyUnique, Distinct, Elems
<1>4. HandInv' /\ SettledInv' /\ NoAlarmVanishes' /\ TriesInv'
  BY <1>1, <1>2 DEF IInv, HandInv, SettledInv, NoAlarmVanishes, TriesInv
<1>5. \A a \in Alarms : rows'[a] = "published" => rows[a] = "published"
  BY <1>1 DEF InsertAlarm, TypeOK, RecordTypes
<1>6. ConfirmedInv'
  BY <1>1, <1>5 DEF IInv, ConfirmedInv
<1>7. QED
  BY <1>3, <1>4, <1>6 DEF IInv

LEMMA PersistStep == TypeOK /\ IInv /\ PersistAndPublish => IInv'
<1> SUFFICES ASSUME TypeOK, IInv, PersistAndPublish PROVE IInv'
  OBVIOUS
<1> DEFINE c == alarmCur
<1>1. /\ life # "dead" /\ alarmPc = "publish" /\ c \in Alarms /\ c # Nil
      /\ UNCHANGED <<life, retryQueue, retryPc, rest, remaining, retryCount,
                     rows, raised, dropped, lost>>
      /\ attempts' = [attempts EXCEPT ![c] = @ + 1]
      /\ attempts \in [Alarms -> Nat]
      /\ MaxRetries \in Nat
  BY ConstantsAssumption
  DEF PersistAndPublish, PublishSucceeds, PublishFails, TypeOK, LoopTypes,
      RecordTypes, serviceVars, retryVars, itemVars, logVars
<1>2. InQueue' = InQueue /\ c \notin InQueue /\ Custody = InQueue \cup {c}
  BY <1>1 DEF InQueue, Custody, Elems, IInv, CustodyUnique
<1>3. /\ c \notin acked /\ c \notin dropped /\ c \notin lost /\ attempts[c] = 0
      /\ c \in raised
  BY <1>1, <1>2 DEF IInv, HandInv, SettledInv, TriesInv, NoAlarmVanishes
<1>4. TriesInv'
  <2>1. alarmPc' \in {"mark", "idle"} \/ (alarmPc' = "push" /\ alarmCur' = c)
    BY <1>1 DEF PersistAndPublish, AfterFailedPublish
  <2>2. acked \subseteq acked'
    BY DEF PersistAndPublish, PublishSucceeds, PublishFails
  <2>3. QED
    BY <1>1, <1>2, <1>3, <2>1, <2>2 DEF IInv, TriesInv
<1>5. CASE PublishSucceeds(c)
  <2>1. /\ acked' = acked \cup {c}
        /\ got' = got \cup {c}
        /\ \/ alarmPc' = "mark" /\ alarmCur' = c
           \/ alarmPc' = "idle" /\ alarmCur' = Nil
    BY <1>5, <1>3 DEF PersistAndPublish, PublishSucceeds, PublishFails
  <2>2. Custody' = InQueue \cup {c} \/ Custody' = InQueue
    BY <1>1, <1>2, <2>1, ConstantsAssumption DEF Custody
  <2>3. alarmCur' \notin InQueue
    BY <1>2, <2>1, CustodyType, ConstantsAssumption DEF Custody
  <2>4. CustodyUnique'
    BY <1>1, <1>2, <2>3 DEF IInv, CustodyUnique, Distinct, Elems
  <2>5. HandInv' /\ SettledInv' /\ NoAlarmVanishes'
    BY <1>1, <1>2, <1>3, <2>1, <2>2
    DEF IInv, HandInv, SettledInv, NoAlarmVanishes
  <2>6. ConfirmedInv'
    BY <1>1, <2>1 DEF IInv, ConfirmedInv
  <2>7. QED
    BY <1>4, <2>4, <2>5, <2>6 DEF IInv
<1>6. CASE PublishFails(c) /\ alarmPc' = "push" /\ UNCHANGED alarmCur
  <2>1. /\ UNCHANGED acked /\ alarmPc' = "push" /\ UNCHANGED alarmCur
        /\ UNCHANGED got
    BY <1>1, <1>6 DEF PublishFails
  <2>2. Custody' = Custody
    BY <1>2, <2>1 DEF Custody
  <2>3. CustodyUnique'
    BY <1>1, <1>2, <2>1 DEF IInv, CustodyUnique, Distinct, Elems
  <2>4. HandInv' /\ SettledInv' /\ NoAlarmVanishes'
    BY <1>1, <1>2, <1>3, <2>1, <2>2
    DEF IInv, HandInv, SettledInv, NoAlarmVanishes
  <2>7. ConfirmedInv'
    BY <1>1, <2>1 DEF IInv, ConfirmedInv
  <2>8. QED
    BY <1>4, <2>3, <2>4, <2>7 DEF IInv
<1>7. QED
  BY <1>5, <1>6 DEF PersistAndPublish, AfterFailedPublish

LEMMA MarkStep == TypeOK /\ IInv /\ AlarmMark => IInv'
<1> SUFFICES ASSUME TypeOK, IInv, AlarmMark PROVE IInv'
  OBVIOUS
<1>1. /\ alarmPc = "mark" /\ alarmPc' = "idle" /\ alarmCur' = Nil
      /\ alarmCur \in Alarms /\ alarmCur \in acked
      /\ UNCHANGED <<life, retryQueue, retryPc, rest, remaining, retryCount,
                     got, acked, attempts, raised, dropped, lost>>
  BY DEF AlarmMark, TypeOK, LoopTypes, IInv, HandInv, serviceVars, retryVars,
     itemVars, brokerVars, logVars
<1>2. InQueue' = InQueue /\ Custody' = InQueue /\ Custody = InQueue \cup {alarmCur}
  BY <1>1, ConstantsAssumption DEF InQueue, Custody, Elems
<1>3. alarmCur' \notin InQueue
  BY <1>1, CustodyType, ConstantsAssumption DEF Custody
<1>4. CustodyUnique'
  BY <1>1, <1>2, <1>3 DEF IInv, CustodyUnique, Distinct, Elems
<1>5. HandInv' /\ SettledInv' /\ NoAlarmVanishes' /\ TriesInv'
  BY <1>1, <1>2 DEF IInv, HandInv, SettledInv, NoAlarmVanishes, TriesInv
<1>6. ConfirmedInv'
  BY <1>1 DEF AlarmMark, MarkPublished, IInv, ConfirmedInv, TypeOK, RecordTypes
<1>7. QED
  BY <1>4, <1>5, <1>6 DEF IInv

LEMMA PushStep == TypeOK /\ IInv /\ PushRetry => IInv'
<1> SUFFICES ASSUME TypeOK, IInv, PushRetry PROVE IInv'
  OBVIOUS
<1> DEFINE c == alarmCur
<1>1. /\ life # "dead" /\ alarmPc = "push" /\ alarmPc' = "idle" /\ alarmCur' = Nil
      /\ retryPc # "mark"
      /\ retryCount' = [retryCount EXCEPT ![c] = 0]
      /\ retryCount \in [Alarms -> 0..MaxRetries]
      /\ UNCHANGED <<life, retryPc, rest, remaining, rows, got, acked, attempts,
                     raised, dropped, lost>>
  BY DEF PushRetry, RetryMuFree, TypeOK, ItemTypes, serviceVars, brokerVars, logVars
<1>2. /\ c \in Alarms /\ c \notin InQueue
      /\ QueueDistinct' /\ InQueue' = InQueue \cup {c}
  BY UniqueSplit, PushEffect DEF IInv
<1>3. Custody' = InQueue \cup {c} /\ Custody = InQueue \cup {c}
  BY <1>1, <1>2, ConstantsAssumption DEF Custody
<1>4. Nil \notin InQueue'
  BY <1>2, <1>3, CustodyType, ConstantsAssumption
<1>5. CustodyUnique'
  BY <1>1, <1>2, <1>4 DEF CustodyUnique, QueueDistinct
<1>6. c \notin acked /\ attempts[c] = 1
  BY <1>1 DEF IInv, HandInv, TriesInv
<1>7. HandInv' /\ SettledInv' /\ NoAlarmVanishes'
  BY <1>1, <1>2, <1>3, <1>6 DEF IInv, HandInv, SettledInv, NoAlarmVanishes
<1>8. InQueue \subseteq Alarms
  BY CustodyType DEF Custody
<1>9. TriesInv' /\ ConfirmedInv'
  BY <1>1, <1>2, <1>6, <1>8 DEF IInv, TriesInv, ConfirmedInv
<1>10. QED
  BY <1>5, <1>7, <1>9 DEF IInv

(* The start and the end of a pass only move the queue between variables. *)
LEMMA PassBoundaryStep == TypeOK /\ IInv /\ (RetryTick \/ RetryPassEnds) => IInv'
<1> SUFFICES ASSUME TypeOK, IInv, RetryTick \/ RetryPassEnds PROVE IInv'
  OBVIOUS
<1>1. /\ retryPc # "mark" /\ retryPc' # "mark"
      /\ UNCHANGED <<life, alarmPc, alarmCur, retryCount, rows, got, acked,
                     attempts, raised, dropped, lost>>
  BY DEF RetryTick, RetryPassEnds, serviceVars, alarmVars, itemVars, brokerVars,
     logVars
<1>2. QueueDistinct' /\ InQueue' = InQueue
  BY UniqueSplit, TickEffect, PassEndsEffect DEF IInv
<1>3. Custody' = Custody
  BY <1>1, <1>2 DEF Custody
<1>4. CustodyUnique'
  BY <1>1, <1>2, UniqueSplit DEF IInv, CustodyUnique, QueueDistinct
<1>5. HandInv' /\ SettledInv' /\ NoAlarmVanishes'
  BY <1>1, <1>2, <1>3 DEF IInv, HandInv, SettledInv, NoAlarmVanishes
<1>6. TriesInv' /\ ConfirmedInv'
  BY <1>1, <1>2 DEF IInv, TriesInv, ConfirmedInv
<1>7. QED
  BY <1>4, <1>5, <1>6 DEF IInv

LEMMA DropStep == TypeOK /\ IInv /\ RetryDrop => IInv'
<1> SUFFICES ASSUME TypeOK, IInv, NEW a \in Alarms, RetryDrop!(a) PROVE IInv'
  BY DEF RetryDrop
<1>1. /\ life # "dead" /\ retryPc = "pass" /\ rest # <<>> /\ a = Head(rest)
      /\ retryCount[a] >= MaxRetries
      /\ dropped' = dropped \cup {a}
      /\ rest' = Tail(rest)
      /\ UNCHANGED <<life, alarmPc, alarmCur, retryQueue, retryPc, remaining,
                     retryCount, rows, got, acked, attempts, raised, lost>>
      /\ retryCount \in [Alarms -> 0..MaxRetries] /\ attempts \in [Alarms -> Nat]
      /\ MaxRetries \in Nat
  BY ConstantsAssumption
  DEF RetryVisits, RetriesExhausted, TypeOK, ItemTypes, RecordTypes, serviceVars,
      alarmVars, itemVars, brokerVars
<1>2. a \in InQueue /\ QueueDistinct' /\ InQueue' = InQueue \ {a}
  BY <1>1, UniqueSplit, VisitEffect DEF IInv
<1>3. a \notin acked /\ a # alarmCur
  BY <1>1, <1>2 DEF IInv, HandInv, CustodyUnique
<1>4. Custody' = Custody \ {a} /\ a \in Custody
  BY <1>1, <1>2, <1>3 DEF Custody
<1>5. CustodyUnique'
  BY <1>1, <1>2, UniqueSplit DEF IInv, CustodyUnique, QueueDistinct
<1>6. HandInv' /\ SettledInv' /\ NoAlarmVanishes'
  BY <1>1, <1>2, <1>3, <1>4 DEF IInv, HandInv, SettledInv, NoAlarmVanishes
<1>7. attempts[a] = MaxRetries + 1
  BY <1>1, <1>2, <1>3 DEF IInv, TriesInv
<1>8. TriesInv' /\ ConfirmedInv'
  BY <1>1, <1>2, <1>7 DEF IInv, TriesInv, ConfirmedInv
<1>9. QED
  BY <1>5, <1>6, <1>8 DEF IInv

LEMMA KeepStep == TypeOK /\ IInv /\ RetryKeep => IInv'
<1> SUFFICES ASSUME TypeOK, IInv, NEW a \in Alarms, RetryKeep!(a) PROVE IInv'
  BY DEF RetryKeep
<1>1. /\ retryPc = "pass" /\ rest # <<>> /\ a = Head(rest)
      /\ rest' = Tail(rest) /\ remaining' = Append(remaining, a)
      /\ UNCHANGED <<life, alarmPc, alarmCur, retryQueue, retryPc, retryCount,
                     rows, got, acked, attempts, raised, dropped, lost>>
  BY DEF RetryVisits, serviceVars, alarmVars, itemVars, brokerVars, logVars
<1>2. QueueDistinct' /\ InQueue' = InQueue
  BY <1>1, UniqueSplit, VisitEffect DEF IInv
<1>3. Custody' = Custody
  BY <1>1, <1>2 DEF Custody
<1>4. CustodyUnique'
  BY <1>1, <1>2, UniqueSplit DEF IInv, CustodyUnique, QueueDistinct
<1>5. HandInv' /\ SettledInv' /\ NoAlarmVanishes'
  BY <1>1, <1>2, <1>3 DEF IInv, HandInv, SettledInv, NoAlarmVanishes
<1>6. TriesInv' /\ ConfirmedInv'
  BY <1>1, <1>2 DEF IInv, TriesInv, ConfirmedInv
<1>7. QED
  BY <1>4, <1>5, <1>6 DEF IInv

LEMMA RetryPublishStep == TypeOK /\ IInv /\ RetryPublish => IInv'
<1> SUFFICES ASSUME TypeOK, IInv, NEW a \in Alarms, RetryPublish!(a) PROVE IInv'
  BY DEF RetryPublish
<1>1. /\ life # "dead" /\ retryPc = "pass" /\ rest # <<>> /\ a = Head(rest)
      /\ retryCount[a] < MaxRetries /\ retryCount[a] \in Nat
      /\ UNCHANGED <<life, alarmPc, alarmCur, retryQueue, rows, raised, dropped,
                     lost>>
      /\ attempts' = [attempts EXCEPT ![a] = @ + 1]
      /\ retryCount \in [Alarms -> 0..MaxRetries] /\ attempts \in [Alarms -> Nat]
      /\ acked \subseteq Alarms
      /\ MaxRetries \in Nat
  <2>1. /\ retryCount \in [Alarms -> 0..MaxRetries] /\ attempts \in [Alarms -> Nat]
        /\ acked \subseteq Alarms
        /\ MaxRetries \in Nat
    BY ConstantsAssumption DEF TypeOK, ItemTypes, RecordTypes
  <2>2. /\ life # "dead" /\ retryPc = "pass" /\ rest # <<>> /\ a = Head(rest)
        /\ ~(retryCount[a] >= MaxRetries)
        /\ UNCHANGED <<life, alarmPc, alarmCur, retryQueue, rows, raised, dropped,
                       lost>>
    BY DEF RetryVisits, RetriesExhausted, serviceVars, alarmVars, logVars
  <2>3. attempts' = [attempts EXCEPT ![a] = @ + 1]
    BY DEF PublishSucceeds, PublishFails
  <2>4. QED
    BY <2>1, <2>2, <2>3
<1>2. a \in InQueue /\ rest \in Seq(Alarms)
  BY <1>1, ElemsOfTail DEF TypeOK, RetryTypes, InQueue
<1>3. /\ a \notin acked /\ a # alarmCur /\ a \notin dropped /\ a \notin lost
      /\ a \in raised
  BY <1>1, <1>2
  DEF IInv, HandInv, CustodyUnique, SettledInv, Custody, NoAlarmVanishes
<1>4. attempts[a] = retryCount[a] + 1 /\ InQueue \subseteq Alarms
  BY <1>1, <1>2, <1>3, CustodyType DEF IInv, TriesInv, Custody
<1>5. CASE /\ PublishSucceeds(a) /\ a \in hasId
           /\ retryPc' = "mark" /\ UNCHANGED <<rest, remaining, retryCount>>
  <2>1. acked' = acked \cup {a} /\ got' = got \cup {a}
    BY <1>5 DEF PublishSucceeds
  <2>2. InQueue' = InQueue /\ (QueueDistinct <=> QueueDistinct')
    BY <1>1, <1>5, QueueStable
  <2>3. Custody' = Custody
    BY <1>1, <2>2 DEF Custody
  <2>4. CustodyUnique'
    BY <1>1, <2>2, UniqueSplit DEF IInv, CustodyUnique, QueueDistinct
  <2>5. HandInv' /\ SettledInv' /\ NoAlarmVanishes'
    BY <1>1, <1>2, <1>3, <1>5, <2>1, <2>2, <2>3
    DEF IInv, HandInv, SettledInv, NoAlarmVanishes
  <2>6. TriesInv'
    <3>1. \A b \in InQueue : b \notin acked' =>
            b # a /\ b \in Alarms /\ attempts'[b] = retryCount'[b] + 1
      BY <1>1, <1>4, <1>5, <2>1 DEF IInv, TriesInv
    <3>2. attempts'[a] <= MaxRetries + 1 /\ a \notin dropped
      BY <1>1, <1>3, <1>4
    <3>3. QED
      BY <1>1, <1>3, <2>1, <2>2, <3>1, <3>2 DEF IInv, TriesInv, TypeOK, RecordTypes
  <2>7. ConfirmedInv'
    BY <1>1, <2>1 DEF IInv, ConfirmedInv
  <2>8. QED
    BY <2>4, <2>5, <2>6, <2>7 DEF IInv
<1>6. CASE /\ PublishSucceeds(a) /\ rest' = Tail(rest)
           /\ UNCHANGED <<retryPc, remaining, retryCount>>
  <2>1. acked' = acked \cup {a} /\ got' = got \cup {a}
    BY <1>6 DEF PublishSucceeds
  <2>2. InQueue' = InQueue \ {a} /\ QueueDistinct'
    BY <1>1, <1>6, UniqueSplit, VisitEffect DEF IInv
  <2>3. Custody' = Custody \ {a}
    BY <1>1, <1>3, <2>2 DEF Custody
  <2>4. CustodyUnique'
    BY <1>1, <2>2, UniqueSplit DEF IInv, CustodyUnique, QueueDistinct
  <2>5. HandInv' /\ SettledInv' /\ NoAlarmVanishes'
    BY <1>1, <1>2, <1>3, <1>6, <2>1, <2>2, <2>3
    DEF IInv, HandInv, SettledInv, NoAlarmVanishes
  <2>6. TriesInv'
    BY <1>1, <1>2, <1>3, <1>4, <1>6, <2>1, <2>2 DEF IInv, TriesInv, CustodyUnique
  <2>7. ConfirmedInv'
    BY <1>1, <2>1 DEF IInv, ConfirmedInv
  <2>8. QED
    BY <2>4, <2>5, <2>6, <2>7 DEF IInv
<1>7. CASE /\ PublishFails(a) /\ UNCHANGED retryPc
           /\ retryCount' = [retryCount EXCEPT ![a] = @ + 1]
           /\ remaining' = Append(remaining, a) /\ rest' = Tail(rest)
  <2>1. UNCHANGED <<acked, got>>
    BY <1>7 DEF PublishFails
  <2>2. InQueue' = InQueue /\ QueueDistinct'
    BY <1>1, <1>7, UniqueSplit, VisitEffect DEF IInv
  <2>3. Custody' = Custody
    BY <1>1, <2>2 DEF Custody
  <2>4. CustodyUnique'
    BY <1>1, <2>2, UniqueSplit DEF IInv, CustodyUnique, QueueDistinct
  <2>5. HandInv' /\ SettledInv' /\ NoAlarmVanishes'
    BY <1>1, <1>2, <1>3, <1>7, <2>1, <2>2, <2>3
    DEF IInv, HandInv, SettledInv, NoAlarmVanishes
  <2>6. TriesInv'
    <3>1. \A b \in InQueue : b \notin acked' =>
            b \in Alarms /\ attempts'[b] = retryCount'[b] + 1
      BY <1>1, <1>4, <1>7, <2>1 DEF IInv, TriesInv
    <3>2. attempts'[a] <= MaxRetries + 1 /\ a \notin dropped
      BY <1>1, <1>3, <1>4
    <3>3. QED
      BY <1>1, <1>3, <2>1, <2>2, <3>1, <3>2 DEF IInv, TriesInv, TypeOK, RecordTypes
  <2>7. ConfirmedInv'
    BY <1>1, <2>1 DEF IInv, ConfirmedInv
  <2>8. QED
    BY <2>4, <2>5, <2>6, <2>7 DEF IInv
<1>8. QED
  BY <1>5, <1>6, <1>7

LEMMA RetryMarkStep == TypeOK /\ IInv /\ RetryMark => IInv'
<1> SUFFICES ASSUME TypeOK, IInv, RetryMark PROVE IInv'
  OBVIOUS
<1> DEFINE a == Head(rest)
<1>1. /\ life # "dead" /\ retryPc = "mark" /\ retryPc' = "pass" /\ rest # <<>>
      /\ rest' = Tail(rest)
      /\ UNCHANGED <<life, alarmPc, alarmCur, retryQueue, remaining, retryCount,
                     got, acked, attempts, raised, dropped, lost>>
  BY DEF RetryMark, TypeOK, RetryTypes, serviceVars, alarmVars, itemVars,
     brokerVars, logVars
<1>2. a \in Alarms /\ a \in InQueue /\ QueueDistinct' /\ InQueue' = InQueue \ {a}
  BY <1>1, UniqueSplit, VisitEffect DEF IInv
<1>3. a \in acked /\ a # alarmCur
  BY <1>1, <1>2 DEF IInv, HandInv, CustodyUnique
<1>4. Custody' = Custody \ {a}
  BY <1>1, <1>2, <1>3 DEF Custody
<1>5. CustodyUnique'
  BY <1>1, <1>2, UniqueSplit DEF IInv, CustodyUnique, QueueDistinct
<1>6. HandInv' /\ SettledInv' /\ NoAlarmVanishes' /\ TriesInv'
  BY <1>1, <1>2, <1>3, <1>4
  DEF IInv, HandInv, SettledInv, NoAlarmVanishes, TriesInv
<1>7. ConfirmedInv'
  BY <1>1, <1>2, <1>3
  DEF RetryMark, MarkPublished, IInv, ConfirmedInv, TypeOK, RecordTypes
<1>8. QED
  BY <1>5, <1>6, <1>7 DEF IInv

LEMMA ExitStep == TypeOK /\ IInv /\ (AlarmLoopExits \/ RetryLoopExits) => IInv'
<1> SUFFICES ASSUME TypeOK, IInv, AlarmLoopExits \/ RetryLoopExits PROVE IInv'
  OBVIOUS
<1>1. /\ alarmPc' \in {alarmPc, "exited"} /\ retryPc' \in {retryPc, "exited"}
      /\ retryPc \in {"pass", "mark"} <=> retryPc' \in {"pass", "mark"}
      /\ retryPc = "mark" <=> retryPc' = "mark"
      /\ UNCHANGED <<life, alarmCur, retryQueue, rest, remaining, retryCount,
                     rows, got, acked, attempts, raised, dropped, lost>>
  BY DEF AlarmLoopExits, RetryLoopExits, StopNoticed, serviceVars, alarmVars,
     retryVars, itemVars, brokerVars, logVars
<1>2. InQueue' = InQueue /\ (QueueDistinct <=> QueueDistinct')
  BY <1>1, QueueStable
<1>3. Custody' = Custody
  BY <1>1, <1>2 DEF Custody
<1>4. CustodyUnique'
  BY <1>1, <1>2, UniqueSplit DEF IInv, CustodyUnique, QueueDistinct
<1>5. HandInv' /\ SettledInv' /\ NoAlarmVanishes' /\ TriesInv' /\ ConfirmedInv'
  BY <1>1, <1>2, <1>3
  DEF IInv, HandInv, SettledInv, NoAlarmVanishes, TriesInv, ConfirmedInv
<1>6. QED
  BY <1>4, <1>5 DEF IInv

LEMMA EndStep == TypeOK /\ IInv /\ (StopReturns \/ Crash) => IInv'
<1> SUFFICES ASSUME TypeOK, IInv, StopReturns \/ Crash PROVE IInv'
  OBVIOUS
<1>1. /\ life # "dead" /\ life' = "dead" /\ lost' = lost \cup (Custody \ acked)
      /\ UNCHANGED <<alarmPc, alarmCur, retryQueue, retryPc, rest, remaining,
                     retryCount, rows, got, acked, attempts, raised, dropped>>
  BY DEF StopReturns, Crash, ProcessEnds, alarmVars, retryVars, itemVars, brokerVars
<1>2. InQueue' = InQueue /\ (QueueDistinct <=> QueueDistinct')
  BY <1>1, QueueStable
<1>3. CustodyUnique'
  BY <1>1, <1>2, UniqueSplit DEF IInv, CustodyUnique, QueueDistinct
<1>4. HandInv' /\ SettledInv' /\ NoAlarmVanishes' /\ TriesInv' /\ ConfirmedInv'
  BY <1>1, <1>2 DEF IInv, HandInv, SettledInv, NoAlarmVanishes, TriesInv, ConfirmedInv
<1>5. QED
  BY <1>3, <1>4 DEF IInv

LEMMA RestartStep == TypeOK /\ IInv /\ Restart => IInv'
<1> SUFFICES ASSUME TypeOK, IInv, Restart PROVE IInv'
  OBVIOUS
<1>1. /\ life = "dead" /\ life' # "dead" /\ alarmPc' = "idle" /\ alarmCur' = Nil
      /\ retryPc' = "idle" /\ retryQueue' = <<>> /\ rest' = <<>> /\ remaining' = <<>>
      /\ UNCHANGED <<rows, got, acked, attempts, raised, dropped, lost>>
  BY DEF Restart, FreshMemory, brokerVars, logVars
<1>2. InQueue' = {} /\ Custody' = {}
  BY <1>1, ElemsOfEmpty, ConstantsAssumption DEF InQueue, Custody
<1>3. CustodyUnique'
  BY <1>1, <1>2, ElemsOfEmpty, DistinctEmpty DEF CustodyUnique
<1>4. HandInv' /\ SettledInv' /\ NoAlarmVanishes' /\ TriesInv' /\ ConfirmedInv'
  BY <1>1, <1>2 DEF IInv, HandInv, SettledInv, NoAlarmVanishes, TriesInv, ConfirmedInv
<1>5. QED
  BY <1>3, <1>4 DEF IInv

LEMMA Initially == Init => IInv
<1> SUFFICES ASSUME Init PROVE IInv
  OBVIOUS
<1>1. InQueue = {} /\ Custody = {}
  BY ElemsOfEmpty, ConstantsAssumption DEF Init, InQueue, Custody
<1>2. CustodyUnique
  BY <1>1, ElemsOfEmpty, DistinctEmpty DEF Init, CustodyUnique
<1>3. HandInv /\ SettledInv /\ NoAlarmVanishes
  BY <1>1 DEF Init, HandInv, SettledInv, NoAlarmVanishes
<1>4. TriesInv /\ ConfirmedInv
  BY <1>1, ConstantsAssumption DEF Init, TriesInv, ConfirmedInv
<1>5. QED
  BY <1>2, <1>3, <1>4 DEF IInv

LEMMA Invariance == TypeOK /\ IInv /\ [Next]_vars => IInv'
<1> SUFFICES ASSUME TypeOK, IInv, [Next]_vars PROVE IInv'
  OBVIOUS
<1>1. CASE AlarmLoop \/ PushRetry
  BY <1>1, EvaluateStep, InsertStep, PersistStep, MarkStep, PushStep DEF AlarmLoop
<1>2. CASE RetryTick \/ RetryPass
  BY <1>2, PassBoundaryStep, DropStep, KeepStep, RetryPublishStep, RetryMarkStep
  DEF RetryPass
<1>3. CASE AlarmLoopExits \/ RetryLoopExits \/ StopReturns \/ Crash \/ Restart
  BY <1>3, ExitStep, EndStep, RestartStep
<1>4. CASE Stop
  BY <1>4, IdleStep DEF Stop, alarmVars, retryVars, itemVars, brokerVars
<1>5. ASSUME \/ \E m \in Readings : Offer(m)
             \/ \E s \in Sensors : CooldownExpires(s)
             \/ \E a \in Alarms : BackoffElapses(a) \/ CopyArrives(a)
             \/ ConnectionChanges
             \/ UNCHANGED vars
      PROVE  IInv'
  <2>1. /\ UNCHANGED <<life, alarmPc, alarmCur, retryQueue, retryPc, rest, remaining,
                       retryCount, rows, acked, attempts, logVars>>
        /\ got \subseteq got'
    BY <1>5 DEF Offer, CooldownExpires, BackoffElapses, CopyArrives,
       ConnectionChanges, vars, serviceVars, alarmVars, retryVars, itemVars,
       brokerVars, logVars
  <2>2. QED
    BY <2>1, IdleStep
<1>6. QED
  BY <1>1, <1>2, <1>3, <1>4, <1>5 DEF Next, Environment

-----------------------------------------------------------------------------
(* The theorems: what the runs check on small instances, for every set of  *)
(* alarms, sensors and values, every channel capacity and retry limit.     *)

(* What the client still holds was raised. *)
SentInv == sent \subseteq raised

LEMMA SentStep == TypeOK /\ IInv /\ SentInv /\ [Next]_vars => SentInv'
<1> SUFFICES ASSUME TypeOK, IInv, SentInv, [Next]_vars PROVE SentInv'
  OBVIOUS
<1>1. CASE PersistAndPublish
  <2>1. alarmCur \in Custody /\ life # "dead"
    BY <1>1 DEF PersistAndPublish, TypeOK, LoopTypes, Custody
  <2>2. alarmCur \in raised
    BY <2>1 DEF IInv, NoAlarmVanishes
  <2>3. QED
    BY <1>1, <2>2
    DEF PersistAndPublish, PublishSucceeds, PublishFails, SentInv, logVars
<1>2. CASE RetryPublish
  <2> PICK a \in Alarms : RetryPublish!(a)
    BY <1>2 DEF RetryPublish
  <2>1. rest \in Seq(Alarms) /\ rest # <<>> /\ a = Head(rest) /\ retryPc = "pass"
        /\ life # "dead"
    BY DEF RetryVisits, TypeOK, RetryTypes
  <2>2. a \in raised
    BY <2>1, ElemsOfTail DEF IInv, NoAlarmVanishes, Custody, InQueue
  <2>3. QED
    BY <2>2 DEF PublishSucceeds, PublishFails, SentInv, logVars
<1>3. CASE ~PersistAndPublish /\ ~RetryPublish
  <2>1. sent' \in {sent, {}} /\ raised \subseteq raised'
    BY <1>3 DEF Next, AlarmLoop, RetryPass, Environment, EvaluateAndPush,
       InsertAlarm, AlarmMark, PushRetry, RetryTick, RetryDrop, RetryKeep,
       RetryMark, RetryPassEnds, Stop, AlarmLoopExits, RetryLoopExits,
       StopReturns, Offer, CooldownExpires, BackoffElapses, CopyArrives,
       ConnectionChanges, Crash, Restart, FreshMemory, vars, brokerVars, logVars
  <2>2. QED
    BY <2>1 DEF SentInv
<1>4. QED
  BY <1>1, <1>2, <1>3

LEMMA TypedInvariant == Spec => [](TypeOK /\ IInv /\ SentInv)
<1>1. Init => TypeOK /\ IInv /\ SentInv
  BY Initially, ConstantsAssumption, ElemsOfEmpty
  DEF Init, TypeOK, ServiceTypes, LoopTypes, RetryTypes, ItemTypes, RecordTypes,
      SentInv
<1>2. TypeOK /\ IInv /\ SentInv /\ [Next]_vars => (TypeOK /\ IInv /\ SentInv)'
  BY TypeStep, Invariance, SentStep
<1>3. QED
  BY <1>1, <1>2, PTL DEF Spec

(* Whatever evaluateAndPush raised is at every moment in hand, confirmed,  *)
(* dropped or lost with a process: the in-place rebuild of the retry queue *)
(* under retryMu never overwrites an append of alarmLoop.                  *)
THEOREM NothingVanishes == Spec => []NoAlarmVanishes
  BY TypedInvariant, PTL DEF IInv

(* An alarm is in one place at a time: alarmLoop's hand or one position of *)
(* the retry queue.                                                        *)
THEOREM OneOwner == Spec => []CustodyUnique
  BY TypedInvariant, PTL DEF IInv

(* No row is flagged mqtt_published whose alarm the broker has not         *)
(* confirmed; processRetry gives an alarm up only after MaxRetries + 1      *)
(* failed calls of publishAlarm, and none is ever published more often.    *)
THEOREM FateIsTrue == Spec => []OutcomesAreTrue
<1>1. IInv => FlaggedRowWasConfirmed
  BY DEF IInv, ConfirmedInv, FlaggedRowWasConfirmed
<1>2. TypeOK /\ IInv => DroppedOnlyAfterAllTries
  BY DEF TypeOK, RecordTypes, IInv, TriesInv, SettledInv, DroppedOnlyAfterAllTries
<1>3. TypeOK /\ IInv => OutcomesAreTrue
  BY <1>1, <1>2 DEF OutcomesAreTrue
<1>4. QED
  BY <1>3, TypedInvariant, PTL

(* A confirmed alarm is never handed to publishAlarm again.               *)
THEOREM ConfirmedIsFinal == Spec => AckedIsFinal
<1>1. TypeOK /\ IInv /\ [Next]_vars => [\A a \in acked : attempts'[a] = attempts[a]]_vars
  <2> SUFFICES ASSUME TypeOK, IInv, [Next]_vars, NEW a \in acked
               PROVE  attempts'[a] = attempts[a]
    OBVIOUS
  <2>1. attempts \in [Alarms -> Nat] /\ a \in Alarms
    BY DEF TypeOK, RecordTypes
  <2>2. CASE PersistAndPublish
    <3>1. alarmCur # a /\ alarmCur \in Alarms
      BY <2>2 DEF PersistAndPublish, IInv, HandInv, TypeOK, LoopTypes
    <3>2. attempts' = [attempts EXCEPT ![alarmCur] = @ + 1]
      BY <2>2 DEF PersistAndPublish, PublishSucceeds, PublishFails
    <3>3. QED
      BY <2>1, <3>1, <3>2
  <2>3. CASE RetryPublish
    <3> PICK b \in Alarms : RetryPublish!(b)
      BY <2>3 DEF RetryPublish
    <3>1. rest \in Seq(Alarms) /\ rest # <<>> /\ b = Head(rest) /\ retryPc = "pass"
      BY DEF RetryVisits, TypeOK, RetryTypes
    <3>2. b \in InQueue
      BY <3>1, ElemsOfTail DEF InQueue
    <3>3. b \notin acked
      BY <3>1, <3>2 DEF IInv, HandInv
    <3>4. attempts' = [attempts EXCEPT ![b] = @ + 1]
      BY DEF PublishSucceeds, PublishFails
    <3>5. QED
      BY <2>1, <3>3, <3>4
  <2>4. CASE ~PersistAndPublish /\ ~RetryPublish
    <3>1. UNCHANGED attempts
      BY <2>4 DEF Next, AlarmLoop, RetryPass, Environment, EvaluateAndPush,
         InsertAlarm, AlarmMark, PushRetry, RetryTick, RetryDrop, RetryKeep,
         RetryMark, RetryPassEnds, Stop, AlarmLoopExits, RetryLoopExits,
         StopReturns, Offer, CooldownExpires, BackoffElapses, CopyArrives,
         ConnectionChanges, Crash, Restart, vars, brokerVars
    <3>2. QED
      BY <3>1
  <2>5. QED
    BY <2>2, <2>3, <2>4
<1>2. QED
  BY <1>1, TypedInvariant, PTL DEF Spec, AckedIsFinal

-----------------------------------------------------------------------------
(* The service implements AlarmDelivery: every step is one abstract step  *)
(* of one alarm, the end of the process, or a stutter.                    *)

LEMMA AbstractStutter ==
  ASSUME UNCHANGED <<acked, dropped, lost, raised, rows, got>>
  PROVE  UNCHANGED Abstract!vars
  BY DEF Abstract!vars, Status

(* The publishes: a confirmation or nothing.                              *)
LEMMA AbstractPublish ==
  ASSUME TypeOK, NEW a \in Alarms, a \in raised, a \notin acked \cup dropped \cup lost,
         PublishSucceeds(a) \/ PublishFails(a), UNCHANGED <<rows, dropped, lost, raised>>
  PROVE  [Abstract!Next]_(Abstract!vars)
<1>1. CASE PublishSucceeds(a)
  <2>1. acked' = acked \cup {a} /\ got' = got \cup {a}
    BY <1>1 DEF PublishSucceeds
  <2>2. Abstract!Confirm(a)
    BY <2>1 DEF Abstract!Confirm, Abstract!Moves, Status
  <2>3. QED
    BY <2>2 DEF Abstract!Next
<1>2. CASE PublishFails(a)
  BY <1>2, AbstractStutter DEF PublishFails
<1>3. QED
  BY <1>1, <1>2

LEMMA AbstractMark ==
  ASSUME TypeOK, NEW a \in Alarms, a \in acked, MarkPublished(a),
         UNCHANGED <<got, acked, dropped, lost, raised>>
  PROVE  [Abstract!Next]_(Abstract!vars)
<1>1. CASE UNCHANGED rows
  BY <1>1, AbstractStutter
<1>2. CASE rows' = [rows EXCEPT ![a] = "published"]
  <2>1. Abstract!Flag(a)
    BY <1>2 DEF Abstract!Flag, Status, TypeOK, RecordTypes
  <2>2. QED
    BY <2>1 DEF Abstract!Next
<1>3. QED
  BY <1>1, <1>2 DEF MarkPublished

LEMMA AbstractEnds ==
  ASSUME TypeOK, IInv, StopReturns \/ Crash
  PROVE  [Abstract!Next]_(Abstract!vars)
<1>1. /\ life # "dead" /\ lost' = lost \cup (Custody \ acked)
      /\ UNCHANGED <<rows, got, acked, raised, dropped>>
  BY DEF StopReturns, Crash, ProcessEnds, brokerVars
<1>2. \A a \in Alarms : a \in Custody \ acked <=>
                        a \in raised /\ a \notin acked \cup dropped \cup lost
  BY <1>1 DEF IInv, NoAlarmVanishes, SettledInv
<1>3. \A a \in Alarms : Status(a)' = IF Status(a) = "pending" THEN "lost" ELSE Status(a)
  BY <1>1, <1>2 DEF Status
<1>4. Abstract!ProcessEnds
  BY <1>1, <1>3 DEF Abstract!ProcessEnds
<1>5. QED
  BY <1>4 DEF Abstract!Next

LEMMA AbstractStep ==
  ASSUME TypeOK, IInv, SentInv, [Next]_vars
  PROVE  [Abstract!Next]_(Abstract!vars)
<1>1. CASE EvaluateAndPush
  <2>1. UNCHANGED <<rows, got, acked, dropped, lost>>
    BY <1>1 DEF EvaluateAndPush, brokerVars
  <2>2. CASE UNCHANGED raised
    BY <2>1, <2>2, AbstractStutter
  <2>3. ASSUME NEW a \in Alarms \ raised, raised' = raised \cup {a}
        PROVE  [Abstract!Next]_(Abstract!vars)
    <3>1. a \notin acked \cup dropped \cup lost
      BY DEF IInv, NoAlarmVanishes
    <3>2. Abstract!Raise(a)
      BY <2>1, <2>3, <3>1 DEF Abstract!Raise, Abstract!Moves, Status
    <3>3. QED
      BY <3>2 DEF Abstract!Next
  <2>4. QED
    BY <1>1, <2>2, <2>3 DEF EvaluateAndPush
<1>2. CASE PersistAndPublish
  <2>1. /\ alarmCur \in Alarms /\ alarmCur \in Custody /\ life # "dead"
        /\ alarmCur \notin acked
    BY <1>2 DEF PersistAndPublish, TypeOK, LoopTypes, Custody, IInv, HandInv
  <2>2. alarmCur \in raised /\ alarmCur \notin acked \cup dropped \cup lost
    BY <2>1 DEF IInv, NoAlarmVanishes, SettledInv
  <2>3. QED
    BY <1>2, <2>1, <2>2, AbstractPublish DEF PersistAndPublish, logVars
<1>3. CASE AlarmMark
  BY <1>3, AbstractMark DEF AlarmMark, TypeOK, LoopTypes, IInv, HandInv, brokerVars,
     logVars
<1>4. CASE RetryPublish
  <2> PICK a \in Alarms : RetryPublish!(a)
    BY <1>4 DEF RetryPublish
  <2>1. rest \in Seq(Alarms) /\ rest # <<>> /\ a = Head(rest) /\ retryPc = "pass"
        /\ life # "dead"
    BY DEF RetryVisits, TypeOK, RetryTypes
  <2>2. a \in InQueue
    BY <2>1, ElemsOfTail DEF InQueue
  <2>3. a \in raised /\ a \notin acked \cup dropped \cup lost
    BY <2>1, <2>2 DEF IInv, HandInv, NoAlarmVanishes, SettledInv, Custody
  <2>4. QED
    BY <2>3, AbstractPublish DEF logVars
<1>5. CASE RetryMark
  BY <1>5, AbstractMark, ElemsOfTail DEF RetryMark, TypeOK, RetryTypes, IInv, HandInv,
     brokerVars, logVars
<1>6. CASE RetryDrop
  <2> PICK a \in Alarms : RetryDrop!(a)
    BY <1>6 DEF RetryDrop
  <2>1. rest \in Seq(Alarms) /\ rest # <<>> /\ a = Head(rest) /\ retryPc = "pass"
        /\ life # "dead"
    BY DEF RetryVisits, TypeOK, RetryTypes
  <2>2. a \in InQueue
    BY <2>1, ElemsOfTail DEF InQueue
  <2>3. a \in raised /\ a \notin acked \cup dropped \cup lost
    BY <2>1, <2>2 DEF IInv, HandInv, NoAlarmVanishes, SettledInv, Custody
  <2>4. Abstract!GiveUp(a)
    BY <2>3 DEF Abstract!GiveUp, Abstract!Moves, Status, brokerVars
  <2>5. QED
    BY <2>4 DEF Abstract!Next
<1>7. CASE StopReturns \/ Crash
  BY <1>7, AbstractEnds
<1>8. CASE InsertAlarm
  <2>1. /\ alarmCur \in Alarms /\ alarmCur \notin acked
        /\ UNCHANGED <<got, acked, dropped, lost, raised>>
    BY <1>8 DEF InsertAlarm, TypeOK, LoopTypes, IInv, HandInv, brokerVars, logVars
  <2>2. rows[alarmCur] # "published"
    BY <2>1 DEF IInv, ConfirmedInv
  <2>3. \A a \in Alarms : rows'[a] = "published" <=> rows[a] = "published"
    BY <1>8, <2>1, <2>2 DEF InsertAlarm, TypeOK, RecordTypes
  <2>4. QED
    BY <2>1, <2>3 DEF Abstract!vars, Status
<1>9. CASE \/ PushRetry \/ RetryTick \/ RetryKeep \/ RetryPassEnds \/ Restart \/ Stop
           \/ AlarmLoopExits \/ RetryLoopExits \/ ConnectionChanges
           \/ \E m \in Readings : Offer(m)
           \/ \E s \in Sensors : CooldownExpires(s)
           \/ \E a \in Alarms : BackoffElapses(a)
           \/ UNCHANGED vars
  <2>1. UNCHANGED <<acked, dropped, lost, raised, rows, got>>
    BY <1>9 DEF PushRetry, RetryTick, RetryKeep, RetryPassEnds, Restart, Stop,
       AlarmLoopExits, RetryLoopExits, ConnectionChanges, Offer, CooldownExpires,
       BackoffElapses, vars, brokerVars, logVars
  <2>2. QED
    BY <2>1, AbstractStutter
<1>10. ASSUME NEW a \in Alarms, CopyArrives(a)
       PROVE  [Abstract!Next]_(Abstract!vars)
  <2>1. Abstract!Reach(a)
    BY <1>10 DEF CopyArrives, SentInv, Abstract!Reach, Status, logVars
  <2>2. QED
    BY <2>1 DEF Abstract!Next
<1>11. QED
  BY <1>1, <1>2, <1>3, <1>4, <1>5, <1>6, <1>7, <1>8, <1>9, <1>10
  DEF Next, AlarmLoop, RetryPass, Environment

(* The two goroutines, the retry queue and its lock together keep the      *)
(* promise AlarmDelivery states of each alarm.                             *)
THEOREM DeliveryImplemented == Spec => ImplementsDelivery
<1>1. Init => Abstract!Init
  BY DEF Init, Abstract!Init, Status
<1>2. QED
  BY <1>1, AbstractStep, TypedInvariant, PTL
  DEF Spec, ImplementsDelivery, Abstract!Spec
=============================================================================
