------------------------- MODULE RequestServiceProofs -------------------------
(* Proofs about RequestService, for every value of its constants: any      *)
(* number of calls, workers and places in a channel.                       *)
EXTENDS RequestService, TLAPS

-----------------------------------------------------------------------------
(* The type invariant.                                                    *)

(* A step that leaves a group of variables alone leaves its types alone.  *)
LEMMA ServerTypesStable == ServerTypes /\ UNCHANGED serverVars => ServerTypes'
  BY DEF ServerTypes, serverVars

LEMMA CallTypesStable ==
  CallTypes /\ UNCHANGED <<callVars, storeVars>> => CallTypes'
  BY DEF CallTypes, callVars, storeVars

LEMMA WorkTypesStable == WorkTypes /\ UNCHANGED workVars => WorkTypes'
  BY DEF WorkTypes, workVars

LEMMA AppendFacts ==
  ASSUME NEW S, NEW s \in Seq(S), NEW x \in S
  PROVE  /\ Append(s, x) \in Seq(S)
         /\ Len(Append(s, x)) = Len(s) + 1
         /\ Len(s) \in Nat
         /\ DOMAIN s = 1 .. Len(s)
         /\ DOMAIN Append(s, x) = 1 .. (Len(s) + 1)
         /\ \A k \in 1 .. Len(s) : Append(s, x)[k] = s[k]
         /\ Append(s, x)[Len(s) + 1] = x
  OBVIOUS

LEMMA TailFacts ==
  ASSUME NEW S, NEW s \in Seq(S), s # <<>>
  PROVE  /\ Head(s) \in S
         /\ Tail(s) \in Seq(S)
         /\ Len(Tail(s)) = Len(s) - 1
         /\ Len(s) \in Nat \ {0}
         /\ DOMAIN s = 1 .. Len(s)
         /\ Head(s) = s[1]
         /\ DOMAIN Tail(s) = 1 .. (Len(s) - 1)
         /\ \A k \in 1 .. (Len(s) - 1) : Tail(s)[k] = s[k + 1]
  OBVIOUS

LEMMA TypeInit == Init => TypeOK
<1> SUFFICES ASSUME Init PROVE TypeOK
  OBVIOUS
<1>1. ServerTypes /\ CallTypes
  BY RequestAssumption DEF Init, ServerTypes, CallTypes
<1>2. WorkTypes
  BY RequestAssumption DEF Init, WorkTypes
<1>3. QED
  BY <1>1, <1>2 DEF TypeOK

LEMMA HandlerTypeStep ==
  ASSUME TypeOK, NEW c \in Calls, Call(c) \/ Handler(c)
  PROVE  TypeOK'
<1>0. ServerTypes /\ CallTypes /\ WorkTypes
  BY DEF TypeOK
<1>1. CASE Call(c)
  <2>1. CallTypes'
    BY <1>0, <1>1 DEF Call, GoesTo, CallTypes, storeVars
  <2>2. QED
    BY <1>0, <1>1, <2>1, ServerTypesStable, WorkTypesStable DEF Call, TypeOK
<1>2. CASE Enqueue(c)
  <2>1. CallTypes'
    BY <1>0, <1>2 DEF Enqueue, GoesTo, CallTypes, storeVars
  <2>2. Target[c] \in Workers /\ queue[Target[c]] \in Seq(Calls)
    BY <1>0, RequestAssumption DEF WorkTypes
  <2>3. /\ Append(queue[Target[c]], c) \in Seq(Calls)
        /\ Len(Append(queue[Target[c]], c)) = Len(queue[Target[c]]) + 1
        /\ Len(queue[Target[c]]) \in Nat
    BY <2>2, AppendFacts
  <2>4. Len(Append(queue[Target[c]], c)) <= QueueCap
    BY <1>2, <2>3, RequestAssumption DEF Enqueue, RoomFor
  <2>5. WorkTypes'
    BY <1>0, <1>2, <2>2, <2>3, <2>4 DEF Enqueue, WorkTypes
  <2>6. QED
    BY <1>0, <1>2, <2>1, <2>5, ServerTypesStable DEF Enqueue, TypeOK
<1>3. CASE SendExpires(c) \/ SendPanics(c) \/ WaitExpires(c)
  <2>1. CallTypes'
    BY <1>0, <1>3 DEF SendExpires, SendPanics, WaitExpires, GoesTo, CallTypes, storeVars
  <2>2. QED
    BY <1>0, <1>3, <2>1, ServerTypesStable, WorkTypesStable
    DEF SendExpires, SendPanics, WaitExpires, TypeOK
<1>4. CASE TakeAnswer(c)
  <2>1. CallTypes'
    BY <1>0, <1>4 DEF TakeAnswer, GoesTo, CallTypes, storeVars
  <2>2. QED
    BY <1>0, <1>4, <2>1, ServerTypesStable, WorkTypesStable DEF TakeAnswer, TypeOK
<1>5. QED
  BY <1>1, <1>2, <1>3, <1>4 DEF Handler

LEMMA WorkerTypeStep ==
  ASSUME TypeOK, NEW w \in Workers, Worker(w)
  PROVE  TypeOK'
<1>0. ServerTypes /\ CallTypes /\ WorkTypes
  BY DEF TypeOK
<1>1. CASE Take(w)
  <2>1. queue[w] \in Seq(Calls) /\ queue[w] # <<>> /\ Len(queue[w]) <= QueueCap
    BY <1>0, <1>1 DEF Take, WorkTypes
  <2>2. /\ Head(queue[w]) \in Calls /\ Tail(queue[w]) \in Seq(Calls)
        /\ Len(Tail(queue[w])) <= QueueCap
    BY <2>1, TailFacts, RequestAssumption
  <2>3. WorkTypes'
    BY <1>0, <1>1, <2>2, RequestAssumption DEF Take, At, AfterTake, WorkTypes
  <2>4. CallTypes'
    BY <1>0, <1>1, <2>2 DEF Take, CallTypes, callVars
  <2>5. QED
    BY <1>0, <1>1, <2>3, <2>4, ServerTypesStable DEF Take, TypeOK
<1>2. CASE Solve(w)
  <2>1. WorkTypes'
    <3>1. wpc[w] = "solve" /\ queue' = queue /\ wcur' = wcur
      BY <1>2 DEF Solve, At
    <3>2. CASE wpc' = [wpc EXCEPT ![w] = "save"] /\ UNCHANGED wout
      BY <1>0, <3>1, <3>2 DEF WorkTypes
    <3>3. CASE /\ wpc' = [wpc EXCEPT ![w] = "reply"]
               /\ wout' = [wout EXCEPT ![w] = "failed"]
      <4>1. "failed" \in Answers /\ "failed" # Nil
        BY RequestAssumption DEF Answers
      <4>2. QED
        BY <1>0, <3>1, <3>3, <4>1 DEF WorkTypes
    <3>4. QED
      BY <1>2, <3>2, <3>3 DEF Solve
  <2>2. QED
    BY <1>0, <1>2, <2>1, ServerTypesStable, CallTypesStable DEF Solve, TypeOK
<1>3. CASE Save(w)
  <2>1. wcur[w] \in Calls
    BY <1>0, <1>3 DEF Save, At, WorkTypes
  <2>2. WorkTypes'
    <3>1. wpc[w] = "save" /\ queue' = queue /\ wcur' = wcur
      BY <1>3 DEF Save, At
    <3>2. PICK a \in {"stored", "unsaved"}, p \in {"grids", "reply"} :
            wout' = [wout EXCEPT ![w] = a] /\ wpc' = [wpc EXCEPT ![w] = p]
      BY <1>3 DEF Save, Inserted
    <3>3. a \in Answers /\ a # Nil
      BY RequestAssumption DEF Answers
    <3>4. QED
      BY <1>0, <3>1, <3>2, <3>3 DEF WorkTypes
  <2>3. CallTypes'
    BY <1>0, <1>3, <2>1 DEF Save, CallTypes, callVars
  <2>4. QED
    BY <1>0, <1>3, <2>2, <2>3, ServerTypesStable DEF Save, TypeOK
<1>4. CASE SaveGrids(w)
  <2>1. wcur[w] \in Calls
    BY <1>0, <1>4 DEF SaveGrids, At, WorkTypes
  <2>2. WorkTypes'
    BY <1>0, <1>4 DEF SaveGrids, At, WorkTypes
  <2>3. CallTypes'
    BY <1>0, <1>4, <2>1 DEF SaveGrids, CallTypes, callVars
  <2>4. QED
    BY <1>0, <1>4, <2>2, <2>3, ServerTypesStable DEF SaveGrids, TypeOK
<1>5. CASE Reply(w)
  <2>1. wcur[w] \in Calls /\ wout[w] \in Answers
    BY <1>0, <1>5 DEF Reply, At, WorkTypes
  <2>2. WorkTypes'
    BY <1>0, <1>5 DEF Reply, At, WorkTypes
  <2>3. CallTypes'
    BY <1>0, <1>5, <2>1 DEF Reply, CallTypes, storeVars
  <2>4. QED
    BY <1>0, <1>5, <2>2, <2>3, ServerTypesStable DEF Reply, TypeOK
<1>6. CASE WorkerExits(w)
  <2>1. WorkTypes'
    BY <1>0, <1>6 DEF WorkerExits, At, WorkTypes
  <2>2. QED
    BY <1>0, <1>6, <2>1, ServerTypesStable, CallTypesStable DEF WorkerExits, TypeOK
<1>7. QED
  BY <1>1, <1>2, <1>3, <1>4, <1>5, <1>6 DEF Worker

LEMMA TypeStep == TypeOK /\ [Next]_vars => TypeOK'
<1> SUFFICES ASSUME TypeOK, [Next]_vars PROVE TypeOK'
  OBVIOUS
<1>0. ServerTypes /\ CallTypes /\ WorkTypes
  BY DEF TypeOK
<1>1. CASE Signal \/ DrainExpires \/ StopBegins
  <2>1. ServerTypes'
    BY <1>0, <1>1 DEF Signal, DrainExpires, StopBegins, ServerTypes
  <2>2. QED
    BY <1>0, <1>1, <2>1, CallTypesStable, WorkTypesStable
    DEF Signal, DrainExpires, StopBegins, TypeOK
<1>2. CASE CancelWorker \/ JoinWorker
  <2>1. toStop \in Seq(Workers) /\ toStop # <<>>
    BY <1>0, <1>2 DEF CancelWorker, JoinWorker, ServerTypes
  <2>2. Head(toStop) \in Workers /\ Tail(toStop) \in Seq(Workers)
    BY <2>1, TailFacts
  <2>3. ServerTypes'
    BY <1>0, <1>2, <2>2 DEF CancelWorker, JoinWorker, ServerTypes
  <2>4. QED
    BY <1>0, <1>2, <2>3, CallTypesStable, WorkTypesStable
    DEF CancelWorker, JoinWorker, TypeOK
<1>3. CASE Exit \/ Crash
  <2>1. ServerTypes'
    BY <1>0, <1>3 DEF Exit, Crash, ServerTypes
  <2>2. CallTypes'
    BY <1>0, <1>3 DEF Exit, Crash, CutOff, CallTypes, storeVars
  <2>3. QED
    BY <1>0, <1>3, <2>1, <2>2, WorkTypesStable DEF Exit, Crash, TypeOK
<1>4. CASE UNCHANGED vars
  BY <1>0, <1>4, ServerTypesStable, CallTypesStable, WorkTypesStable DEF vars, TypeOK
<1>5. QED
  BY <1>1, <1>2, <1>3, <1>4, HandlerTypeStep, WorkerTypeStep DEF Next, Shutdown

(* Every variable keeps its type and no bus channel exceeds its capacity   *)
(* (bus.go), whatever the constants.                                       *)
THEOREM TypeCorrect == Spec => []TypeOK
  BY TypeInit, TypeStep, PTL DEF Spec

-----------------------------------------------------------------------------
(* The inductive invariant.                                               *)

(* Where a call may be: before it was sent nowhere; then in its worker's   *)
(* channel, in its hand, or behind it, and in one of these at a time.       *)
PlaceInv(c) ==
  /\ runs[c] = 0 => answer[c] = Nil /\ rows[c] = "absent"
  /\ runs[c] \in {0, 1}
  /\ pc[c] \in {"new", "sending", "busy", "panicked"} => runs[c] = 0
  /\ pc[c] \in Answers => runs[c] = 1
  /\ pc[c] \in Answers => answer[c] = Nil

(* The channels hold requests of their worker that were sent and not begun. *)
QueueInv ==
  \A w \in Workers : \A i \in DOMAIN queue[w] :
    /\ Target[queue[w][i]] = w
    /\ runs[queue[w][i]] = 0
    /\ Alive => pc[queue[w][i]] \in {"waiting", "timeout"}
    /\ \A j \in DOMAIN queue[w] : queue[w][i] = queue[w][j] => i = j

(* The request in a worker's hand was begun once and is not yet answered. *)
HandInv ==
  \A w \in Workers : wcur[w] # Nil =>
    /\ Target[wcur[w]] = w
    /\ runs[wcur[w]] = 1
    /\ answer[wcur[w]] = Nil
    /\ Alive => pc[wcur[w]] \in {"waiting", "timeout"}
    /\ wout[w] = "stored" => rows[wcur[w]] # "absent"

(* What is said of a row is true, on its way and when it has arrived.     *)
RowInv ==
  /\ \A c \in Calls : /\ answer[c] = "stored" => rows[c] # "absent"
                      /\ pc[c] = "stored" => rows[c] # "absent"
  /\ \A c \in Calls : rows[c] = "row" =>
       c \in excused \/ \E w \in Workers : wcur[w] = c /\ wpc[w] = "grids"

(* Shutting down: handlers first, then the workers, one by one.           *)
StopInv ==
  /\ server = "stopping" => expired \/ \A c \in Calls : ~Active(c)
  /\ \A c \in Calls : pc[c] \in {"panicked", "cut"} => expired \/ server = "killed"
  /\ \A w \in Workers : wpc[w] = "exited" \/ \E i \in DOMAIN toStop : toStop[i] = w
  /\ server = "exited" => toStop = <<>>

IInv ==
  /\ \A c \in Calls : PlaceInv(c)
  /\ QueueInv
  /\ HandInv
  /\ RowInv
  /\ StopInv

LEMMA InvInit == Init => IInv
<1> SUFFICES ASSUME Init PROVE IInv
  OBVIOUS
<1>1. \A c \in Calls : PlaceInv(c)
  BY RequestAssumption DEF Init, PlaceInv, Answers
<1>2. QueueInv
  BY DEF Init, QueueInv
<1>3. HandInv
  BY DEF Init, HandInv
<1>4. RowInv
  BY RequestAssumption DEF Init, RowInv
<1>5. StopInv
  BY RequestAssumption DEF Init, StopInv
<1>6. QED
  BY <1>1, <1>2, <1>3, <1>4, <1>5 DEF IInv

(* The steps of a handler that move nothing but its own program counter.  *)
LEMMA MoveStep ==
  ASSUME TypeOK, IInv, NEW c \in Calls, NEW to,
         Alive, pc' = [pc EXCEPT ![c] = to],
         UNCHANGED <<serverVars, answer, workVars, storeVars>>,
         \/ pc[c] = "new" /\ to = "sending" /\ server = "serving"
         \/ pc[c] = "sending" /\ to = "busy"
         \/ pc[c] = "sending" /\ to = "panicked" /\ server = "stopping"
         \/ pc[c] = "waiting" /\ to = "timeout"
  PROVE  IInv'
<1>0. CallTypes /\ WorkTypes
  BY DEF TypeOK
<1>1. /\ pc'[c] = to
      /\ \A u \in Calls : u # c => pc'[u] = pc[u]
  BY <1>0 DEF CallTypes
<1>2. \A u \in Calls : PlaceInv(u)'
  <2> SUFFICES ASSUME NEW u \in Calls PROVE PlaceInv(u)'
    OBVIOUS
  <2>1. PlaceInv(u)
    BY DEF IInv
  <2>2. QED
    BY <1>1, <2>1 DEF PlaceInv, storeVars, Answers
<1>3. QueueInv'
  <2> SUFFICES ASSUME NEW w \in Workers, NEW i \in DOMAIN queue[w]
               PROVE  /\ Target[queue[w][i]] = w
                      /\ runs[queue[w][i]] = 0
                      /\ pc'[queue[w][i]] \in {"waiting", "timeout"}
                      /\ \A j \in DOMAIN queue[w] : queue[w][i] = queue[w][j] => i = j
    BY DEF QueueInv, workVars, storeVars
  <2>1. queue[w][i] \in Calls
    BY <1>0 DEF WorkTypes
  <2>2. QED
    BY <1>1, <2>1 DEF IInv, QueueInv
<1>4. HandInv'
  <2> SUFFICES ASSUME NEW w \in Workers, wcur[w] # Nil
               PROVE  /\ Target[wcur[w]] = w
                      /\ runs[wcur[w]] = 1
                      /\ answer[wcur[w]] = Nil
                      /\ pc'[wcur[w]] \in {"waiting", "timeout"}
                      /\ wout[w] = "stored" => rows[wcur[w]] # "absent"
    BY DEF HandInv, workVars, storeVars
  <2>1. wcur[w] \in Calls
    BY <1>0 DEF WorkTypes
  <2>2. QED
    BY <1>1, <2>1 DEF IInv, HandInv
<1>5. RowInv'
  BY <1>1 DEF IInv, RowInv, workVars, storeVars
<1>6. StopInv'
  BY <1>1 DEF IInv, StopInv, Active, serverVars, workVars
<1>7. QED
  BY <1>2, <1>3, <1>4, <1>5, <1>6 DEF IInv

LEMMA EnqueueStep ==
  ASSUME TypeOK, IInv, NEW c \in Calls, Enqueue(c)
  PROVE  IInv'
<1>0. CallTypes /\ WorkTypes
  BY DEF TypeOK
<1>1. /\ Alive /\ pc[c] = "sending" /\ server # "stopping"
      /\ pc' = [pc EXCEPT ![c] = "waiting"]
      /\ queue' = [queue EXCEPT ![Target[c]] = Append(@, c)]
      /\ UNCHANGED <<serverVars, answer, wpc, wcur, wout, storeVars>>
  BY DEF Enqueue, GoesTo, BusClosed
<1>2. /\ pc'[c] = "waiting"
      /\ \A u \in Calls : u # c => pc'[u] = pc[u]
  BY <1>0, <1>1 DEF CallTypes
<1>3. runs[c] = 0
  BY <1>1 DEF IInv, PlaceInv
<1>4. \A u \in Calls : PlaceInv(u)'
  <2> SUFFICES ASSUME NEW u \in Calls PROVE PlaceInv(u)'
    OBVIOUS
  <2>1. PlaceInv(u)
    BY DEF IInv
  <2>2. QED
    BY <1>1, <1>2, <2>1 DEF PlaceInv, storeVars, Answers
<1>5. QueueInv'
  <2> SUFFICES ASSUME NEW w \in Workers, NEW i \in DOMAIN queue'[w]
               PROVE  /\ Target[queue'[w][i]] = w
                      /\ runs[queue'[w][i]] = 0
                      /\ pc'[queue'[w][i]] \in {"waiting", "timeout"}
                      /\ \A j \in DOMAIN queue'[w] : queue'[w][i] = queue'[w][j] => i = j
    BY <1>1 DEF QueueInv, storeVars
  <2>1. queue[w] \in Seq(Calls)
    BY <1>0 DEF WorkTypes
  <2>2. \A k \in DOMAIN queue[w] :
          /\ queue[w][k] \in Calls /\ queue[w][k] # c
          /\ Target[queue[w][k]] = w
          /\ runs[queue[w][k]] = 0
          /\ pc[queue[w][k]] \in {"waiting", "timeout"}
          /\ \A j \in DOMAIN queue[w] : queue[w][k] = queue[w][j] => k = j
    BY <1>1, <2>1 DEF IInv, QueueInv
  <2>3. CASE w # Target[c]
    <3>1. queue'[w] = queue[w]
      BY <1>0, <1>1, <2>3 DEF WorkTypes
    <3>2. QED
      BY <1>2, <2>2, <3>1
  <2>4. CASE w = Target[c]
    <3>1. queue'[w] = Append(queue[w], c)
      BY <1>0, <1>1, <2>4 DEF WorkTypes
    <3>2. /\ Len(queue[w]) \in Nat
          /\ DOMAIN queue[w] = 1 .. Len(queue[w])
          /\ DOMAIN queue'[w] = 1 .. (Len(queue[w]) + 1)
          /\ \A k \in 1 .. Len(queue[w]) : queue'[w][k] = queue[w][k]
          /\ queue'[w][Len(queue[w]) + 1] = c
      BY <2>1, <3>1, AppendFacts
    <3>3. CASE i \in DOMAIN queue[w]
      BY <1>2, <2>2, <3>2, <3>3
    <3>4. CASE i = Len(queue[w]) + 1
      <4>1. queue'[w][i] = c
        BY <3>2, <3>4
      <4>2. \A j \in DOMAIN queue'[w] : queue'[w][j] = c => j = i
        BY <2>2, <3>2, <3>4
      <4>3. QED
        BY <1>2, <1>3, <2>4, <4>1, <4>2
    <3>5. QED
      BY <3>2, <3>3, <3>4
  <2>5. QED
    BY <2>3, <2>4
<1>6. HandInv'
  <2> SUFFICES ASSUME NEW w \in Workers, wcur[w] # Nil
               PROVE  /\ Target[wcur[w]] = w
                      /\ runs[wcur[w]] = 1
                      /\ answer[wcur[w]] = Nil
                      /\ pc'[wcur[w]] \in {"waiting", "timeout"}
                      /\ wout[w] = "stored" => rows[wcur[w]] # "absent"
    BY <1>1 DEF HandInv, storeVars
  <2>1. wcur[w] \in Calls
    BY <1>0 DEF WorkTypes
  <2>2. QED
    BY <1>1, <1>2, <2>1 DEF IInv, HandInv
<1>7. RowInv'
  BY <1>1, <1>2 DEF IInv, RowInv, storeVars
<1>8. StopInv'
  BY <1>1, <1>2 DEF IInv, StopInv, serverVars
<1>9. QED
  BY <1>4, <1>5, <1>6, <1>7, <1>8 DEF IInv

LEMMA TakeAnswerStep ==
  ASSUME TypeOK, IInv, NEW c \in Calls, TakeAnswer(c)
  PROVE  IInv'
<1>0. CallTypes /\ WorkTypes
  BY DEF TypeOK
<1>1. /\ Alive /\ pc[c] = "waiting" /\ answer[c] \in Answers
      /\ pc' = [pc EXCEPT ![c] = answer[c]]
      /\ answer' = [answer EXCEPT ![c] = Nil]
      /\ UNCHANGED <<serverVars, workVars, storeVars>>
  BY <1>0 DEF TakeAnswer, GoesTo, CallTypes
<1>2. /\ pc'[c] = answer[c] /\ answer'[c] = Nil
      /\ \A u \in Calls : u # c => pc'[u] = pc[u] /\ answer'[u] = answer[u]
  BY <1>0, <1>1 DEF CallTypes
<1>3. runs[c] = 1 /\ answer[c] # Nil
  BY <1>1, RequestAssumption DEF IInv, PlaceInv, Answers
<1>4. \A u \in Calls : PlaceInv(u)'
  <2> SUFFICES ASSUME NEW u \in Calls PROVE PlaceInv(u)'
    OBVIOUS
  <2>1. PlaceInv(u)
    BY DEF IInv
  <2>2. QED
    BY <1>1, <1>2, <1>3, <2>1 DEF PlaceInv, storeVars, Answers
<1>5. QueueInv'
  <2> SUFFICES ASSUME NEW w \in Workers, NEW i \in DOMAIN queue[w]
               PROVE  /\ Target[queue[w][i]] = w
                      /\ runs[queue[w][i]] = 0
                      /\ pc'[queue[w][i]] \in {"waiting", "timeout"}
                      /\ \A j \in DOMAIN queue[w] : queue[w][i] = queue[w][j] => i = j
    BY <1>1 DEF QueueInv, workVars, storeVars
  <2>1. queue[w][i] \in Calls /\ queue[w][i] # c
    BY <1>0, <1>3 DEF WorkTypes, IInv, QueueInv
  <2>2. QED
    BY <1>1, <1>2, <2>1 DEF IInv, QueueInv
<1>6. HandInv'
  <2> SUFFICES ASSUME NEW w \in Workers, wcur[w] # Nil
               PROVE  /\ Target[wcur[w]] = w
                      /\ runs[wcur[w]] = 1
                      /\ answer'[wcur[w]] = Nil
                      /\ pc'[wcur[w]] \in {"waiting", "timeout"}
                      /\ wout[w] = "stored" => rows[wcur[w]] # "absent"
    BY <1>1 DEF HandInv, workVars, storeVars
  <2>1. wcur[w] \in Calls /\ wcur[w] # c
    BY <1>0, <1>3 DEF WorkTypes, IInv, HandInv
  <2>2. QED
    BY <1>1, <1>2, <2>1 DEF IInv, HandInv
<1>7. RowInv'
  <2>1. \A u \in Calls : /\ answer'[u] = "stored" => rows[u] # "absent"
                         /\ pc'[u] = "stored" => rows[u] # "absent"
    BY <1>2, RequestAssumption DEF IInv, RowInv
  <2>2. QED
    BY <1>1, <2>1 DEF IInv, RowInv, workVars, storeVars
<1>8. StopInv'
  BY <1>1, <1>2 DEF IInv, StopInv, Active, Answers, serverVars, workVars
<1>9. QED
  BY <1>4, <1>5, <1>6, <1>7, <1>8 DEF IInv

LEMMA HandlerStep ==
  ASSUME TypeOK, IInv, NEW c \in Calls, Call(c) \/ Handler(c)
  PROVE  IInv'
<1>1. CASE Call(c)
  BY <1>1, MoveStep DEF Call, GoesTo
<1>2. CASE SendExpires(c)
  BY <1>2, MoveStep DEF SendExpires, GoesTo
<1>3. CASE SendPanics(c)
  BY <1>3, MoveStep DEF SendPanics, GoesTo, BusClosed
<1>4. CASE WaitExpires(c)
  BY <1>4, MoveStep DEF WaitExpires, GoesTo
<1>5. QED
  BY <1>1, <1>2, <1>3, <1>4, EnqueueStep, TakeAnswerStep DEF Handler

(* Two workers never hold the same request, and none is both in a hand and *)
(* in a channel.                                                           *)
LEMMA HandsApart ==
  ASSUME TypeOK, IInv, NEW w \in Workers, wcur[w] # Nil
  PROVE  /\ wcur[w] \in Calls
         /\ runs[wcur[w]] = 1
         /\ \A v \in Workers : v # w => wcur[v] # wcur[w]
         /\ \A v \in Workers : \A i \in DOMAIN queue[v] : queue[v][i] # wcur[w]
<1>1. wcur[w] \in Calls
  BY DEF TypeOK, WorkTypes
<1>2. runs[wcur[w]] = 1 /\ Target[wcur[w]] = w
  BY DEF IInv, HandInv
<1>3. \A v \in Workers : v # w => wcur[v] # wcur[w]
  BY <1>2 DEF IInv, HandInv
<1>4. \A v \in Workers : \A i \in DOMAIN queue[v] : queue[v][i] # wcur[w]
  BY <1>2 DEF IInv, QueueInv
<1>5. QED
  BY <1>1, <1>2, <1>3, <1>4

(* A step of a worker on the request it holds and goes on holding.        *)
LEMMA HoldStep ==
  ASSUME TypeOK, IInv, NEW w \in Workers, wcur[w] # Nil,
         UNCHANGED <<serverVars, callVars, queue, wcur, runs>>,
         \A v \in Workers : v # w => wpc'[v] = wpc[v] /\ wout'[v] = wout[v],
         \A u \in Calls : u # wcur[w] => rows'[u] = rows[u],
         excused \subseteq excused',
         rows[wcur[w]] # "absent" => rows'[wcur[w]] # "absent",
         wout'[w] = "stored" => rows'[wcur[w]] # "absent",
         rows'[wcur[w]] = "row" => wcur[w] \in excused' \/ wpc'[w] = "grids"
  PROVE  IInv'
<1>0. CallTypes /\ WorkTypes
  BY DEF TypeOK
<1>1. /\ wcur[w] \in Calls
      /\ runs[wcur[w]] = 1
      /\ \A v \in Workers : v # w => wcur[v] # wcur[w]
  BY HandsApart
<1>2. \A u \in Calls : PlaceInv(u)'
  <2> SUFFICES ASSUME NEW u \in Calls PROVE PlaceInv(u)'
    OBVIOUS
  <2>1. PlaceInv(u)
    BY DEF IInv
  <2>2. QED
    BY <1>1, <2>1 DEF PlaceInv, callVars
<1>3. QueueInv'
  BY DEF IInv, QueueInv, Alive, callVars, serverVars
<1>4. HandInv'
  <2> SUFFICES ASSUME NEW v \in Workers, wcur[v] # Nil
               PROVE  /\ Target[wcur[v]] = v
                      /\ runs[wcur[v]] = 1
                      /\ answer[wcur[v]] = Nil
                      /\ Alive => pc[wcur[v]] \in {"waiting", "timeout"}
                      /\ wout'[v] = "stored" => rows'[wcur[v]] # "absent"
    BY DEF HandInv, Alive, callVars, serverVars
  <2>1. wcur[v] \in Calls
    BY <1>0 DEF WorkTypes
  <2>2. QED
    BY <1>1, <2>1 DEF IInv, HandInv
<1>5. RowInv'
  <2>1. \A u \in Calls : rows[u] # "absent" => rows'[u] # "absent"
    BY <1>1
  <2>2. ASSUME NEW u \in Calls, rows'[u] = "row"
        PROVE  u \in excused' \/ \E v \in Workers : wcur[v] = u /\ wpc'[v] = "grids"
    <3>1. CASE u = wcur[w]
      BY <2>2, <3>1
    <3>2. CASE u # wcur[w]
      <4>1. rows[u] = "row"
        BY <2>2, <3>2
      <4>2. CASE u \in excused
        BY <4>2
      <4>3. CASE \E v \in Workers : wcur[v] = u /\ wpc[v] = "grids"
        <5>1. PICK v \in Workers : wcur[v] = u /\ wpc[v] = "grids"
          BY <4>3
        <5>2. v # w
          BY <3>2, <5>1
        <5>3. QED
          BY <5>1, <5>2
      <4>4. QED
        BY <4>1, <4>2, <4>3 DEF IInv, RowInv
    <3>3. QED
      BY <3>1, <3>2
  <2>3. QED
    BY <2>1, <2>2 DEF IInv, RowInv, callVars
<1>6. StopInv'
  <2>1. wpc[w] # "exited"
    BY <1>0 DEF WorkTypes
  <2>2. \A v \in Workers : wpc'[v] = "exited" \/ \E i \in DOMAIN toStop : toStop[i] = v
    BY <2>1 DEF IInv, StopInv
  <2>3. QED
    BY <2>2 DEF IInv, StopInv, Active, callVars, serverVars
<1>7. QED
  BY <1>2, <1>3, <1>4, <1>5, <1>6 DEF IInv

LEMMA TakeStep ==
  ASSUME TypeOK, IInv, NEW w \in Workers, Take(w)
  PROVE  IInv'
<1>0. CallTypes /\ WorkTypes
  BY DEF TypeOK
<1>1. /\ Alive /\ wpc[w] = "idle" /\ queue[w] # <<>>
      /\ wcur' = [wcur EXCEPT ![w] = Head(queue[w])]
      /\ runs' = [runs EXCEPT ![Head(queue[w])] = @ + 1]
      /\ queue' = [queue EXCEPT ![w] = Tail(queue[w])]
      /\ wpc' = [wpc EXCEPT ![w] = "solve"]
      /\ UNCHANGED <<serverVars, callVars, wout, rows, excused>>
  BY DEF Take, At, AfterTake
<1>2. queue[w] \in Seq(Calls)
  BY <1>0 DEF WorkTypes
<1>3. /\ Head(queue[w]) \in Calls
      /\ Len(queue[w]) \in Nat \ {0}
      /\ DOMAIN queue[w] = 1 .. Len(queue[w])
      /\ Head(queue[w]) = queue[w][1]
      /\ DOMAIN Tail(queue[w]) = 1 .. (Len(queue[w]) - 1)
      /\ \A k \in 1 .. (Len(queue[w]) - 1) : Tail(queue[w])[k] = queue[w][k + 1]
  BY <1>1, <1>2, TailFacts
<1>4. PICK c \in Calls : c = queue[w][1] /\ c = Head(queue[w])
  BY <1>3
<1>5. /\ Target[c] = w /\ runs[c] = 0
      /\ pc[c] \in {"waiting", "timeout"}
      /\ \A j \in DOMAIN queue[w] : queue[w][j] = c => j = 1
  BY <1>1, <1>3, <1>4 DEF IInv, QueueInv
<1>6. answer[c] = Nil /\ rows[c] = "absent"
  BY <1>5 DEF IInv, PlaceInv
<1>7. /\ runs'[c] = 1
      /\ \A u \in Calls : u # c => runs'[u] = runs[u]
  BY <1>0, <1>1, <1>4, <1>5 DEF CallTypes
<1>8. /\ wcur'[w] = c
      /\ \A v \in Workers : v # w => /\ wcur'[v] = wcur[v]
                                     /\ wpc'[v] = wpc[v]
                                     /\ queue'[v] = queue[v]
      /\ queue'[w] = Tail(queue[w])
  BY <1>0, <1>1, <1>4 DEF WorkTypes
<1>9. wcur[w] = Nil /\ wout[w] = Nil
  BY <1>0, <1>1 DEF WorkTypes
<1>10. \A u \in Calls : PlaceInv(u)'
  <2> SUFFICES ASSUME NEW u \in Calls PROVE PlaceInv(u)'
    OBVIOUS
  <2>1. PlaceInv(u)
    BY DEF IInv
  <2>2. QED
    BY <1>1, <1>5, <1>7, <2>1, RequestAssumption DEF PlaceInv, callVars, Answers
<1>11. QueueInv'
  <2> SUFFICES ASSUME NEW v \in Workers, NEW i \in DOMAIN queue'[v]
               PROVE  /\ Target[queue'[v][i]] = v
                      /\ runs'[queue'[v][i]] = 0
                      /\ pc[queue'[v][i]] \in {"waiting", "timeout"}
                      /\ \A j \in DOMAIN queue'[v] : queue'[v][i] = queue'[v][j] => i = j
    BY <1>1 DEF QueueInv, callVars
  <2>1. CASE v # w
    <3>1. queue'[v] = queue[v] /\ queue[v][i] \in Calls
      BY <1>0, <1>8, <2>1 DEF WorkTypes
    <3>2. Target[queue[v][i]] = v /\ runs[queue[v][i]] = 0
      BY <3>1 DEF IInv, QueueInv
    <3>3. queue[v][i] # c
      BY <1>5, <2>1, <3>2
    <3>4. /\ pc[queue[v][i]] \in {"waiting", "timeout"}
          /\ \A j \in DOMAIN queue[v] : queue[v][i] = queue[v][j] => i = j
      BY <1>1, <3>1 DEF IInv, QueueInv
    <3>5. QED
      BY <1>7, <3>1, <3>2, <3>3, <3>4
  <2>2. CASE v = w
    <3>1. i \in 1 .. (Len(queue[w]) - 1) /\ DOMAIN queue'[w] = 1 .. (Len(queue[w]) - 1)
      BY <1>3, <1>8, <2>2
    <3>2. \A k \in DOMAIN queue'[w] : /\ k + 1 \in DOMAIN queue[w]
                                      /\ queue'[w][k] = queue[w][k + 1]
      BY <1>3, <1>8, <3>1
    <3>3. /\ queue[w][i + 1] \in Calls
          /\ queue[w][i + 1] # c
      BY <1>2, <1>3, <1>5, <3>1, <3>2
    <3>4. /\ Target[queue[w][i + 1]] = w
          /\ runs[queue[w][i + 1]] = 0
          /\ pc[queue[w][i + 1]] \in {"waiting", "timeout"}
          /\ \A j \in DOMAIN queue[w] : queue[w][i + 1] = queue[w][j] => i + 1 = j
      BY <1>1, <3>1, <3>2 DEF IInv, QueueInv
    <3>5. \A j \in DOMAIN queue'[w] : queue'[w][i] = queue'[w][j] => i = j
      BY <3>1, <3>2, <3>4
    <3>6. QED
      BY <1>7, <2>2, <3>1, <3>2, <3>3, <3>4, <3>5
  <2>3. QED
    BY <2>1, <2>2
<1>12. HandInv'
  <2> SUFFICES ASSUME NEW v \in Workers, wcur'[v] # Nil
               PROVE  /\ Target[wcur'[v]] = v
                      /\ runs'[wcur'[v]] = 1
                      /\ answer[wcur'[v]] = Nil
                      /\ pc[wcur'[v]] \in {"waiting", "timeout"}
                      /\ wout[v] = "stored" => rows[wcur'[v]] # "absent"
    BY <1>1 DEF HandInv, callVars
  <2>1. CASE v = w
    BY <1>5, <1>6, <1>7, <1>8, <1>9, <2>1, RequestAssumption
  <2>2. CASE v # w
    <3>1. wcur'[v] = wcur[v] /\ wcur[v] \in Calls
      BY <1>0, <1>8, <2>2 DEF WorkTypes
    <3>2. wcur[v] # c
      BY <1>5, <3>1 DEF IInv, HandInv
    <3>3. QED
      BY <1>1, <1>7, <3>1, <3>2 DEF IInv, HandInv
  <2>3. QED
    BY <2>1, <2>2
<1>13. RowInv'
  <2>1. ASSUME NEW u \in Calls, rows[u] = "row"
        PROVE  u \in excused \/ \E v \in Workers : wcur'[v] = u /\ wpc'[v] = "grids"
    <3>1. CASE u \in excused
      BY <3>1
    <3>2. CASE \E v \in Workers : wcur[v] = u /\ wpc[v] = "grids"
      <4>1. PICK v \in Workers : wcur[v] = u /\ wpc[v] = "grids"
        BY <3>2
      <4>2. v # w
        BY <1>1, <4>1
      <4>3. QED
        BY <1>8, <4>1, <4>2
    <3>3. QED
      BY <2>1, <3>1, <3>2 DEF IInv, RowInv
  <2>2. QED
    BY <1>1, <2>1 DEF IInv, RowInv, callVars
<1>14. StopInv'
  <2>1. \A v \in Workers : wpc'[v] = "exited" \/ \E i \in DOMAIN toStop : toStop[i] = v
    BY <1>1, <1>8 DEF IInv, StopInv
  <2>2. QED
    BY <1>1, <2>1 DEF IInv, StopInv, Active, callVars, serverVars
<1>15. QED
  BY <1>10, <1>11, <1>12, <1>13, <1>14 DEF IInv

LEMMA ReplyStep ==
  ASSUME TypeOK, IInv, NEW w \in Workers, Reply(w)
  PROVE  IInv'
<1>0. CallTypes /\ WorkTypes
  BY DEF TypeOK
<1>1. /\ Alive /\ wpc[w] = "reply"
      /\ answer' = [answer EXCEPT ![wcur[w]] = IF @ = Nil THEN wout[w] ELSE @]
      /\ wpc' = [wpc EXCEPT ![w] = "idle"]
      /\ wcur' = [wcur EXCEPT ![w] = Nil]
      /\ wout' = [wout EXCEPT ![w] = Nil]
      /\ UNCHANGED <<serverVars, pc, queue, storeVars>>
  BY DEF Reply, At
<1>2. wcur[w] # Nil
  BY <1>0, <1>1 DEF WorkTypes
<1>3. PICK c \in Calls : c = wcur[w]
  BY <1>0, <1>2 DEF WorkTypes
<1>4. /\ runs[c] = 1
      /\ \A v \in Workers : v # w => wcur[v] # c
  BY <1>2, <1>3, HandsApart
<1>5. /\ answer[c] = Nil
      /\ pc[c] \in {"waiting", "timeout"}
      /\ wout[w] = "stored" => rows[c] # "absent"
  BY <1>1, <1>2, <1>3 DEF IInv, HandInv
<1>6. /\ answer'[c] = wout[w]
      /\ \A u \in Calls : u # c => answer'[u] = answer[u]
  BY <1>0, <1>1, <1>3, <1>5 DEF CallTypes
<1>7. /\ wcur'[w] = Nil
      /\ \A v \in Workers : v # w => /\ wcur'[v] = wcur[v]
                                     /\ wpc'[v] = wpc[v]
                                     /\ wout'[v] = wout[v]
  BY <1>0, <1>1 DEF WorkTypes
<1>8. \A u \in Calls : PlaceInv(u)'
  <2> SUFFICES ASSUME NEW u \in Calls PROVE PlaceInv(u)'
    OBVIOUS
  <2>1. PlaceInv(u)
    BY DEF IInv
  <2>2. QED
    BY <1>1, <1>4, <1>5, <1>6, <2>1 DEF PlaceInv, storeVars, Answers
<1>9. QueueInv'
  BY <1>1 DEF IInv, QueueInv, Alive, storeVars, serverVars
<1>10. HandInv'
  <2> SUFFICES ASSUME NEW v \in Workers, wcur'[v] # Nil
               PROVE  /\ Target[wcur'[v]] = v
                      /\ runs[wcur'[v]] = 1
                      /\ answer'[wcur'[v]] = Nil
                      /\ pc[wcur'[v]] \in {"waiting", "timeout"}
                      /\ wout'[v] = "stored" => rows[wcur'[v]] # "absent"
    BY <1>1 DEF HandInv, storeVars
  <2>1. v # w /\ wcur'[v] = wcur[v] /\ wout'[v] = wout[v]
    BY <1>7
  <2>2. wcur[v] \in Calls /\ wcur[v] # c
    BY <1>0, <1>4, <2>1 DEF WorkTypes
  <2>3. QED
    BY <1>1, <1>6, <2>1, <2>2 DEF IInv, HandInv
<1>11. RowInv'
  <2>1. \A u \in Calls : answer'[u] = "stored" => rows[u] # "absent"
    BY <1>5, <1>6 DEF IInv, RowInv
  <2>2. ASSUME NEW u \in Calls, rows[u] = "row"
        PROVE  u \in excused \/ \E v \in Workers : wcur'[v] = u /\ wpc'[v] = "grids"
    <3>1. CASE u \in excused
      BY <3>1
    <3>2. CASE \E v \in Workers : wcur[v] = u /\ wpc[v] = "grids"
      <4>1. PICK v \in Workers : wcur[v] = u /\ wpc[v] = "grids"
        BY <3>2
      <4>2. v # w
        BY <1>1, <4>1
      <4>3. QED
        BY <1>7, <4>1, <4>2
    <3>3. QED
      BY <2>2, <3>1, <3>2 DEF IInv, RowInv
  <2>3. QED
    BY <1>1, <2>1, <2>2 DEF IInv, RowInv, storeVars
<1>12. StopInv'
  <2>1. \A v \in Workers : wpc'[v] = "exited" \/ \E i \in DOMAIN toStop : toStop[i] = v
    BY <1>1, <1>7 DEF IInv, StopInv
  <2>2. QED
    BY <1>1, <2>1 DEF IInv, StopInv, Active, serverVars
<1>13. QED
  BY <1>8, <1>9, <1>10, <1>11, <1>12 DEF IInv

LEMMA ExitsStep ==
  ASSUME TypeOK, IInv, NEW w \in Workers, WorkerExits(w)
  PROVE  IInv'
<1>0. CallTypes /\ WorkTypes
  BY DEF TypeOK
<1>1. /\ wpc[w] = "idle"
      /\ wpc' = [wpc EXCEPT ![w] = "exited"]
      /\ UNCHANGED <<serverVars, callVars, queue, wcur, wout, storeVars>>
  BY DEF WorkerExits, At
<1>2. /\ wpc'[w] = "exited"
      /\ \A v \in Workers : v # w => wpc'[v] = wpc[v]
  BY <1>0, <1>1 DEF WorkTypes
<1>3. \A u \in Calls : PlaceInv(u)'
  BY <1>1 DEF IInv, PlaceInv, callVars, storeVars
<1>4. QueueInv' /\ HandInv'
  BY <1>1 DEF IInv, QueueInv, HandInv, Alive, callVars, storeVars, serverVars
<1>5. RowInv'
  <2>1. \A u \in Calls, v \in Workers :
          wcur[v] = u /\ wpc[v] = "grids" => wcur[v] = u /\ wpc'[v] = "grids"
    BY <1>1, <1>2
  <2>2. QED
    BY <1>1, <2>1 DEF IInv, RowInv, callVars, storeVars
<1>6. StopInv'
  <2>1. \A v \in Workers : wpc'[v] = "exited" \/ \E i \in DOMAIN toStop : toStop[i] = v
    BY <1>2 DEF IInv, StopInv
  <2>2. QED
    BY <1>1, <2>1 DEF IInv, StopInv, Active, callVars, serverVars
<1>7. QED
  BY <1>3, <1>4, <1>5, <1>6 DEF IInv

LEMMA WorkerStep ==
  ASSUME TypeOK, IInv, NEW w \in Workers, Worker(w)
  PROVE  IInv'
<1>0. CallTypes /\ WorkTypes
  BY DEF TypeOK
<1>1. CASE Solve(w)
  <2>1. wpc[w] = "solve" /\ wcur[w] # Nil /\ wcur[w] \in Calls
    BY <1>0, <1>1 DEF Solve, At, WorkTypes
  <2>2. UNCHANGED <<serverVars, callVars, queue, wcur, runs, rows, excused>>
    BY <1>1 DEF Solve, storeVars
  <2>3. \A v \in Workers : v # w => wpc'[v] = wpc[v] /\ wout'[v] = wout[v]
    BY <1>0, <1>1 DEF Solve, WorkTypes
  <2>4. wout'[w] # "stored"
    <3>1. wout[w] = Nil /\ Nil # "stored"
      BY <1>0, <2>1, RequestAssumption DEF WorkTypes
    <3>2. QED
      BY <1>0, <1>1, <3>1 DEF Solve, WorkTypes
  <2>5. rows[wcur[w]] = "row" => wcur[w] \in excused
    BY <2>1, HandsApart DEF IInv, RowInv
  <2>6. QED
    BY <2>1, <2>2, <2>3, <2>4, <2>5, HoldStep
<1>2. CASE Save(w)
  <2>1. wpc[w] = "save" /\ wcur[w] # Nil /\ wcur[w] \in Calls
    BY <1>0, <1>2 DEF Save, At, WorkTypes
  <2>2. UNCHANGED <<serverVars, callVars, queue, wcur, runs>>
    BY <1>2 DEF Save
  <2>3. \A v \in Workers : v # w => wpc'[v] = wpc[v] /\ wout'[v] = wout[v]
    BY <1>0, <1>2 DEF Save, WorkTypes
  <2>4. /\ \A u \in Calls : u # wcur[w] => rows'[u] = rows[u]
        /\ rows[wcur[w]] # "absent" => rows'[wcur[w]] # "absent"
        /\ excused \subseteq excused'
    BY <1>0, <1>2, <2>1 DEF Save, CallTypes
  <2>5. wout'[w] = "stored" => rows'[wcur[w]] # "absent"
    BY <1>0, <1>2, <2>1 DEF Save, Inserted, CallTypes, WorkTypes
  <2>6. rows'[wcur[w]] = "row" => wcur[w] \in excused' \/ wpc'[w] = "grids"
    BY <1>0, <1>2, <2>1 DEF Save, CallTypes, WorkTypes
  <2>7. QED
    BY <2>1, <2>2, <2>3, <2>4, <2>5, <2>6, HoldStep
<1>3. CASE SaveGrids(w)
  <2>1. wpc[w] = "grids" /\ wcur[w] # Nil /\ wcur[w] \in Calls
    BY <1>0, <1>3 DEF SaveGrids, At, WorkTypes
  <2>2. UNCHANGED <<serverVars, callVars, queue, wcur, wout, runs>>
    BY <1>3 DEF SaveGrids
  <2>3. \A v \in Workers : v # w => wpc'[v] = wpc[v]
    BY <1>0, <1>3 DEF SaveGrids, WorkTypes
  <2>4. /\ \A u \in Calls : u # wcur[w] => rows'[u] = rows[u]
        /\ rows[wcur[w]] # "absent" => rows'[wcur[w]] # "absent"
        /\ excused \subseteq excused'
    BY <1>0, <1>3, <2>1 DEF SaveGrids, CallTypes
  <2>5. wout[w] = "stored" => rows[wcur[w]] # "absent"
    BY <2>1 DEF IInv, HandInv
  <2>6. rows'[wcur[w]] = "row" => wcur[w] \in excused'
    BY <1>0, <1>3, <2>1 DEF SaveGrids, CallTypes
  <2>7. QED
    BY <2>1, <2>2, <2>3, <2>4, <2>5, <2>6, HoldStep
<1>4. QED
  BY <1>1, <1>2, <1>3, TakeStep, ReplyStep, ExitsStep DEF Worker

(* The steps of main and of Server.Stop that leave calls and workers alone. *)
LEMMA ServerStep ==
  ASSUME TypeOK, IInv,
         Signal \/ DrainExpires \/ StopBegins \/ CancelWorker \/ JoinWorker
  PROVE  IInv'
<1>1. UNCHANGED <<callVars, workVars, storeVars>> /\ (Alive' => Alive)
  BY DEF Signal, DrainExpires, StopBegins, CancelWorker, JoinWorker, Alive
<1>2. (\A u \in Calls : PlaceInv(u)') /\ QueueInv' /\ HandInv' /\ RowInv'
  <2>1. \A u \in Calls : PlaceInv(u)'
    BY <1>1 DEF IInv, PlaceInv, callVars, storeVars
  <2>2. QueueInv'
    BY <1>1 DEF IInv, QueueInv, callVars, workVars, storeVars
  <2>3. HandInv'
    BY <1>1 DEF IInv, HandInv, callVars, workVars, storeVars
  <2>4. RowInv'
    BY <1>1 DEF IInv, RowInv, callVars, workVars, storeVars
  <2>5. QED
    BY <2>1, <2>2, <2>3, <2>4
<1>3. StopInv'
  <2>1. CASE Signal \/ DrainExpires \/ StopBegins \/ CancelWorker
    BY <1>1, <2>1
    DEF IInv, StopInv, Signal, DrainExpires, StopBegins, CancelWorker, Drained,
        Active, callVars, workVars
  <2>2. CASE JoinWorker
    <3>1. /\ server = "stopping" /\ toStop # <<>> /\ toStop \in Seq(Workers)
          /\ wpc[Head(toStop)] = "exited"
          /\ toStop' = Tail(toStop) /\ server' = server /\ expired' = expired
      BY <2>2 DEF JoinWorker, Joined, TypeOK, ServerTypes
    <3>2. /\ Head(toStop) = toStop[1]
          /\ Len(toStop) \in Nat \ {0}
          /\ DOMAIN toStop = 1 .. Len(toStop)
          /\ DOMAIN toStop' = 1 .. (Len(toStop) - 1)
          /\ \A k \in 1 .. (Len(toStop) - 1) : toStop'[k] = toStop[k + 1]
      BY <3>1, TailFacts
    <3>3. ASSUME NEW v \in Workers, wpc[v] # "exited"
          PROVE  \E i \in DOMAIN toStop' : toStop'[i] = v
      <4>1. PICK i \in DOMAIN toStop : toStop[i] = v
        BY <3>3 DEF IInv, StopInv
      <4>2. i # 1
        BY <3>1, <3>2, <3>3, <4>1
      <4>3. i - 1 \in DOMAIN toStop' /\ toStop'[i - 1] = v
        BY <3>2, <4>1, <4>2
      <4>4. QED
        BY <4>3
    <3>4. QED
      BY <1>1, <3>1, <3>3 DEF IInv, StopInv, Active, callVars, workVars
  <2>3. QED
    BY <2>1, <2>2
<1>4. QED
  BY <1>2, <1>3 DEF IInv

(* The end of the process cuts off the handlers that still wait.          *)
LEMMA EndStep ==
  ASSUME TypeOK, IInv, Exit \/ Crash
  PROVE  IInv'
<1>0. CallTypes /\ WorkTypes
  BY DEF TypeOK
<1>1. /\ server' \in {"exited", "killed"}
      /\ UNCHANGED <<expired, toStop, answer, workVars, storeVars>>
  BY DEF Exit, Crash
<1>2. \A u \in Calls : \/ pc'[u] = pc[u]
                       \/ (pc[u] \in {"sending", "waiting"} /\ pc'[u] = "cut")
  BY DEF Exit, Crash, CutOff, Active
<1>3. ~Alive'
  BY <1>1 DEF Alive
<1>4. \A u \in Calls : PlaceInv(u)'
  BY <1>1, <1>2 DEF IInv, PlaceInv, storeVars, Answers
<1>5. QueueInv' /\ HandInv'
  BY <1>1, <1>3 DEF IInv, QueueInv, HandInv, workVars, storeVars
<1>6. RowInv'
  BY <1>1, <1>2 DEF IInv, RowInv, workVars, storeVars
<1>7. StopInv'
  <2>1. CASE Exit
    <3>1. server = "stopping" /\ server' = "exited" /\ toStop = <<>>
      BY <2>1 DEF Exit
    <3>2. \A u \in Calls : pc'[u] \in {"panicked", "cut"} => expired
      BY <1>2, <3>1 DEF IInv, StopInv, Active
    <3>3. QED
      BY <1>1, <3>1, <3>2 DEF IInv, StopInv, workVars
  <2>2. CASE Crash
    BY <1>1, <2>2 DEF IInv, StopInv, Crash, workVars
  <2>3. QED
    BY <2>1, <2>2
<1>8. QED
  BY <1>4, <1>5, <1>6, <1>7 DEF IInv

LEMMA InvStep == TypeOK /\ IInv /\ [Next]_vars => IInv'
<1> SUFFICES ASSUME TypeOK, IInv, [Next]_vars PROVE IInv'
  OBVIOUS
<1>1. CASE UNCHANGED vars
  BY <1>1 DEF IInv, PlaceInv, QueueInv, HandInv, RowInv, StopInv, Alive, Active,
              vars, serverVars, callVars, workVars, storeVars
<1>2. QED
  BY <1>1, HandlerStep, WorkerStep, ServerStep, EndStep DEF Next, Shutdown

LEMMA Invariant == Spec => [](TypeOK /\ IInv)
  BY TypeInit, TypeStep, InvInit, InvStep, PTL DEF Spec

-----------------------------------------------------------------------------
(* The safety properties.                                                 *)

(* An answer with a row id (simulator.go:165, optimizer.go:167) reaches the *)
(* client only when the row is there, however many calls and workers the   *)
(* answer passes on its way.                                               *)
THEOREM AnswersNameRows == Spec => []AnsweredIdExists
<1>1. IInv => AnsweredIdExists
  BY DEF IInv, RowInv, AnsweredIdExists
<1>2. QED
  BY <1>1, Invariant, PTL

(* No orderly exit leaves a simulation without its grid points: Server.Stop *)
(* joins every worker, and a worker exits only between two requests.       *)
THEOREM ExitsBetweenRequests == Spec => []StoredWhole
<1>1. TypeOK /\ IInv => StoredWhole
  <2> SUFFICES ASSUME TypeOK, IInv, NEW c \in Calls, rows[c] = "row", c \notin excused
               PROVE  /\ server # "exited"
                      /\ \E w \in Workers : wcur[w] = c /\ wpc[w] = "grids"
    BY DEF StoredWhole
  <2>1. PICK w \in Workers : wcur[w] = c /\ wpc[w] = "grids"
    BY DEF IInv, RowInv
  <2>2. server = "exited" => wpc[w] = "exited"
    BY DEF IInv, StopInv
  <2>3. QED
    BY <2>1, <2>2
<1>2. QED
  BY <1>1, Invariant, PTL

(* The bus is closed, and the process ended, under a waiting handler only   *)
(* after Shutdown's deadline or a kill (main.go, api.Server.Stop).         *)
THEOREM DrainedBeforeClosed == Spec => []CallsFailOnlyAfterDeadline
<1>1. IInv => CallsFailOnlyAfterDeadline
  BY DEF IInv, StopInv, CallsFailOnlyAfterDeadline
<1>2. QED
  BY <1>1, Invariant, PTL

-----------------------------------------------------------------------------
(* The refinement of CallService.                                         *)

LEMMA AbstractInit == Init => Abstract!Init
<1> SUFFICES ASSUME Init PROVE Abstract!Init
  OBVIOUS
<1>1. [c \in Calls |-> Status(c)] = [c \in Calls |-> "new"]
  BY DEF Init, Status, Active
<1>2. {c \in Calls : rows[c] # "absent"} = {}
  BY DEF Init
<1>3. QED
  BY <1>1, <1>2 DEF Init, Abstract!Init

(* A step that changes neither statuses nor runs nor rows is a stutter.   *)
LEMMA Stutters ==
  ASSUME UNCHANGED <<pc, runs, rows>>
  PROVE  UNCHANGED Abstract!vars
  BY DEF Abstract!vars, Status, Active

(* A step of one handler changes the status of its call only.             *)
LEMMA StatusMoves ==
  ASSUME CallTypes, NEW c \in Calls, NEW to, pc' = [pc EXCEPT ![c] = to],
         UNCHANGED <<runs, rows>>
  PROVE  /\ [u \in Calls |-> Status(u)]' =
              [[u \in Calls |-> Status(u)] EXCEPT ![c] = Status(c)']
         /\ {u \in Calls : rows[u] # "absent"}' = {u \in Calls : rows[u] # "absent"}
<1>1. \A u \in Calls : u # c => Status(u)' = Status(u)
  BY DEF CallTypes, Status, Active
<1>2. QED
  BY <1>1

LEMMA HandlerImplements ==
  ASSUME TypeOK, IInv, NEW c \in Calls, Call(c) \/ Handler(c)
  PROVE  Abstract!Next \/ UNCHANGED Abstract!vars
<1>0. CallTypes
  BY DEF TypeOK
<1>1. CASE Call(c)
  <2>1. /\ pc[c] = "new" /\ pc' = [pc EXCEPT ![c] = "sending"]
        /\ UNCHANGED <<runs, rows>>
    BY <1>1 DEF Call, GoesTo, storeVars
  <2>2. Status(c) = "new" /\ Status(c)' = "pending"
    BY <1>0, <2>1 DEF Status, Active, CallTypes
  <2>3. Abstract!Call(c)
    BY <1>0, <2>1, <2>2, StatusMoves DEF Abstract!Call, Abstract!Moves
  <2>4. QED
    BY <2>3 DEF Abstract!Next
<1>2. CASE Enqueue(c)
  <2>1. /\ pc[c] = "sending" /\ pc' = [pc EXCEPT ![c] = "waiting"]
        /\ UNCHANGED <<runs, rows>>
    BY <1>2 DEF Enqueue, GoesTo, storeVars
  <2>2. Status(c) = "pending" /\ Status(c)' = "pending"
    BY <1>0, <2>1 DEF Status, Active, CallTypes
  <2>3. QED
    BY <1>0, <2>1, <2>2, StatusMoves DEF Abstract!vars
<1>3. CASE SendExpires(c) \/ SendPanics(c)
  <2>1. PICK to \in {"busy", "panicked"} :
          /\ pc[c] = "sending" /\ pc' = [pc EXCEPT ![c] = to]
          /\ UNCHANGED <<runs, rows>>
    BY <1>3 DEF SendExpires, SendPanics, GoesTo, storeVars
  <2>2. runs[c] = 0
    BY <2>1 DEF IInv, PlaceInv
  <2>3. Status(c) = "pending" /\ Status(c)' = "refused"
    BY <1>0, <2>1 DEF Status, Active, CallTypes
  <2>4. Abstract!Refuse(c)
    BY <1>0, <2>1, <2>2, <2>3, StatusMoves DEF Abstract!Refuse, Abstract!Moves
  <2>5. QED
    BY <2>4 DEF Abstract!Next
<1>4. CASE TakeAnswer(c)
  <2>1. PICK r \in Answers :
          /\ r = answer[c] /\ pc[c] = "waiting" /\ pc' = [pc EXCEPT ![c] = r]
          /\ UNCHANGED <<runs, rows>>
    BY <1>0, <1>4 DEF TakeAnswer, GoesTo, CallTypes, storeVars
  <2>2. runs[c] = 1
    BY <2>1, RequestAssumption DEF IInv, PlaceInv, Answers
  <2>3. r = "stored" => rows[c] # "absent"
    BY <2>1 DEF IInv, RowInv
  <2>4. Status(c) = "pending" /\ Status(c)' = r
    BY <1>0, <2>1 DEF Status, Active, CallTypes, Answers
  <2>5. Abstract!Answer(c)
    BY <1>0, <2>1, <2>2, <2>3, <2>4, StatusMoves
    DEF Abstract!Answer, Abstract!Moves, Abstract!Answers, Answers
  <2>6. QED
    BY <2>5 DEF Abstract!Next
<1>5. CASE WaitExpires(c)
  <2>1. /\ pc[c] = "waiting" /\ pc' = [pc EXCEPT ![c] = "timeout"]
        /\ UNCHANGED <<runs, rows>>
    BY <1>5 DEF WaitExpires, GoesTo, storeVars
  <2>2. Status(c) = "pending" /\ Status(c)' = "timeout"
    BY <1>0, <2>1 DEF Status, Active, CallTypes
  <2>3. Abstract!TimeOut(c)
    BY <1>0, <2>1, <2>2, StatusMoves DEF Abstract!TimeOut, Abstract!Moves
  <2>4. QED
    BY <2>3 DEF Abstract!Next
<1>6. QED
  BY <1>1, <1>2, <1>3, <1>4, <1>5 DEF Handler

(* A worker begins the request it takes, and may add a row for the one it  *)
(* holds; nothing else it does is visible to the client.                   *)
LEMMA WorkerImplements ==
  ASSUME TypeOK, IInv, NEW w \in Workers, Worker(w)
  PROVE  Abstract!Next \/ UNCHANGED Abstract!vars
<1>0. CallTypes /\ WorkTypes
  BY DEF TypeOK
<1>1. CASE Take(w)
  <2>1. /\ queue[w] \in Seq(Calls) /\ queue[w] # <<>> /\ Alive
        /\ runs' = [runs EXCEPT ![Head(queue[w])] = @ + 1]
        /\ UNCHANGED <<pc, rows>>
    BY <1>0, <1>1 DEF Take, At, WorkTypes, callVars
  <2>2. PICK c \in Calls : c = Head(queue[w]) /\ c = queue[w][1] /\ 1 \in DOMAIN queue[w]
    BY <2>1, TailFacts
  <2>3. runs[c] = 0 /\ pc[c] \in {"waiting", "timeout"}
    BY <2>1, <2>2 DEF IInv, QueueInv
  <2>4. Status(c) \in {"pending", "timeout"}
    BY <2>3 DEF Status, Active
  <2>5. runs' = [runs EXCEPT ![c] = 1]
    <3>1. runs' = [runs EXCEPT ![c] = runs[c] + 1]
      BY <2>1, <2>2
    <3>2. runs[c] + 1 = 1
      BY <2>3
    <3>3. QED
      BY <3>1, <3>2
  <2>6. UNCHANGED <<[u \in Calls |-> Status(u)], {u \in Calls : rows[u] # "absent"}>>
    BY <2>1 DEF Status, Active
  <2>7. Abstract!Run(c)
    BY <2>3, <2>4, <2>5, <2>6 DEF Abstract!Run
  <2>8. QED
    BY <2>7 DEF Abstract!Next
<1>2. CASE Save(w) \/ SaveGrids(w)
  <2>1. wcur[w] # Nil /\ UNCHANGED <<pc, runs>>
    BY <1>0, <1>2 DEF Save, SaveGrids, At, WorkTypes, callVars
  <2>2. PICK c \in Calls : c = wcur[w] /\ runs[c] = 1
    BY <2>1, HandsApart
  <2>3. rows' = rows \/ \E r \in {"row", "whole"} : rows' = [rows EXCEPT ![c] = r]
    BY <1>2, <2>2 DEF Save, SaveGrids
  <2>4. UNCHANGED [u \in Calls |-> Status(u)]
    BY <2>1 DEF Status, Active
  <2>5. CASE rows' = rows
    BY <2>1, <2>5, Stutters
  <2>6. CASE \E r \in {"row", "whole"} : rows' = [rows EXCEPT ![c] = r]
    <3>1. {u \in Calls : rows[u] # "absent"}' =
             {u \in Calls : rows[u] # "absent"} \cup {c}
      BY <1>0, <2>6 DEF CallTypes
    <3>2. Abstract!Save(c)
      BY <2>1, <2>2, <2>4, <3>1 DEF Abstract!Save
    <3>3. QED
      BY <3>2 DEF Abstract!Next
  <2>7. QED
    BY <2>3, <2>5, <2>6
<1>3. CASE Solve(w) \/ Reply(w) \/ WorkerExits(w)
  BY <1>3, Stutters DEF Solve, Reply, WorkerExits, callVars, storeVars
<1>4. QED
  BY <1>1, <1>2, <1>3 DEF Worker

LEMMA EndImplements ==
  ASSUME TypeOK, Exit \/ Crash
  PROVE  Abstract!Next
<1>0. CallTypes
  BY DEF TypeOK
<1>1. UNCHANGED <<runs, rows>> /\ CutOff
  BY DEF Exit, Crash, storeVars
<1>2. \A c \in Calls : Status(c)' = IF Status(c) = "pending" THEN "cut" ELSE Status(c)
  <2> SUFFICES ASSUME NEW c \in Calls
               PROVE  Status(c)' = IF Status(c) = "pending" THEN "cut" ELSE Status(c)
    OBVIOUS
  <2>1. pc'[c] = IF Active(c) THEN "cut" ELSE pc[c]
    BY <1>1 DEF CutOff
  <2>2. CASE Active(c)
    BY <2>1, <2>2 DEF Status, Active
  <2>3. CASE ~Active(c)
    <3>1. Status(c)' = Status(c)
      BY <2>1, <2>3 DEF Status, Active
    <3>2. Status(c) # "pending"
      BY <1>0, <2>3 DEF Status, CallTypes, Answers
    <3>3. QED
      BY <3>1, <3>2
  <2>4. QED
    BY <2>2, <2>3
<1>3. Abstract!Ends
  BY <1>1, <1>2 DEF Abstract!Ends
<1>4. QED
  BY <1>3 DEF Abstract!Next

LEMMA StepImplements == TypeOK /\ IInv /\ [Next]_vars => [Abstract!Next]_(Abstract!vars)
<1> SUFFICES ASSUME TypeOK, IInv, [Next]_vars
             PROVE  Abstract!Next \/ UNCHANGED Abstract!vars
  OBVIOUS
<1>1. CASE \E c \in Calls : Call(c) \/ Handler(c)
  BY <1>1, HandlerImplements
<1>2. CASE \E w \in Workers : Worker(w)
  BY <1>2, WorkerImplements
<1>3. CASE Signal \/ DrainExpires \/ StopBegins \/ CancelWorker \/ JoinWorker
  BY <1>3, Stutters
  DEF Signal, DrainExpires, StopBegins, CancelWorker, JoinWorker, callVars, storeVars
<1>4. CASE Exit \/ Crash
  BY <1>4, EndImplements
<1>5. CASE UNCHANGED vars
  BY <1>5, Stutters DEF vars, callVars, storeVars
<1>6. QED
  BY <1>1, <1>2, <1>3, <1>4, <1>5 DEF Next, Shutdown

(* Every behaviour of handlers, channels, workers and shutdown is one that  *)
(* CallService allows: for each call, the work is done at most once, an     *)
(* answer comes from it, and a refused call is never worked on.             *)
THEOREM CallsImplemented == Spec => ImplementsCalls
<1>1. Spec => Abstract!Init /\ [][Abstract!Next]_(Abstract!vars)
  BY AbstractInit, StepImplements, Invariant, PTL DEF Spec
<1>2. QED
  BY <1>1 DEF ImplementsCalls, Abstract!Spec
=============================================================================
