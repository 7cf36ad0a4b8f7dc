--------------------------- MODULE RequestService ---------------------------
(***************************************************************************)
(* How the HTTP handlers of api/server.go hand long-running work to the     *)
(* two worker goroutines (seepage_simulator, anti_seepage_optimizer) and    *)
(* how all of it is shut down (cmd/main.go, api.Server.Stop).               *)
(*                                                                         *)
(* A handler sends a request that carries its own one-slot response         *)
(* channel on the worker's bus channel, giving up after three seconds, and  *)
(* then waits for the answer, giving up after 60 or 300 seconds. A worker   *)
(* takes one request at a time, solves, stores, and answers without         *)
(* blocking. On a signal main stops the HTTP server, which waits at most    *)
(* 30 seconds for handlers, and then Server.Stop closes the bus and stops   *)
(* the workers one after the other.                                         *)
(***************************************************************************)
EXTENDS Integers, Sequences, FiniteSets

CONSTANTS
  Calls,        \* HTTP requests that reach handleRun..., one goroutine each
  Workers,      \* the worker goroutines
  Target,       \* [call -> worker] the endpoint it was sent to
  GridWorkers,  \* workers that store grid points in a second transaction
  StopOrder,    \* the order in which Server.Stop stops the workers
  QueueCap,     \* capacity of the bus channels
  Nil,          \* no request in hand; an empty response channel
  Faults        \* faults a run injects: "db", "crash"

ASSUME RequestAssumption ==
  /\ Target \in [Calls -> Workers]
  /\ GridWorkers \subseteq Workers
  /\ StopOrder \in Seq(Workers)
  /\ \A w \in Workers : \E i \in DOMAIN StopOrder : StopOrder[i] = w
  /\ QueueCap \in Nat \ {0}
  /\ Nil \notin Calls
  /\ Nil \notin {"stored", "unsaved", "failed"}
  /\ Faults \subseteq {"db", "crash"}

VARIABLES
  server,     \* "serving", "draining" (Shutdown), "stopping" (Stop), "exited", "killed"
  expired,    \* Shutdown's 30 seconds are over
  toStop,     \* workers Server.Stop has still to stop
  cancelled,  \* workers whose context is cancelled
  pc,         \* per call: where its handler stands, or the answer it gave
  answer,     \* per call: the content of its response channel
  queue,      \* per worker: its bus channel
  wpc,        \* per worker: where its loop stands
  wcur,       \* per worker: the request in hand
  wout,       \* per worker: the result to be answered
  rows,       \* per call: what the database holds: "absent", "row", "whole"
  runs,       \* per call: how often a worker began it
  excused     \* calls whose row or grids the database failed to take or report

serverVars == <<server, expired, toStop, cancelled>>
callVars   == <<pc, answer>>
workVars   == <<queue, wpc, wcur, wout>>
storeVars  == <<rows, runs, excused>>
vars == <<serverVars, callVars, workVars, storeVars>>

Answers == {"stored", "unsaved", "failed"}
Alive == server \notin {"exited", "killed"}
BusClosed == server = "stopping"
Active(c) == pc[c] \in {"sending", "waiting"}

-----------------------------------------------------------------------------
(* Decisions that are easy to get wrong, each after a faulty variant.     *)

FaultyRoomFor(w) == TRUE
RoomFor(w) == Len(queue[w]) < QueueCap

FaultyAfterTake(w) == queue[w]                     \* a request is looked at, not taken
AfterTake(w) == Tail(queue[w])

FaultyInserted(ok) == "stored"                     \* dbErr is ignored
Inserted(ok) == IF ok THEN "stored" ELSE "unsaved"

FaultyReplyReady(c) == pc[c] = "waiting"           \* send on an unbuffered channel
ReplyReady(c) == TRUE                              \* select with a default

FaultyDrained == TRUE                              \* Stop without Shutdown
Drained == expired \/ \A c \in Calls : ~Active(c)

FaultyMayExit(w) == FALSE                          \* neither ctx nor !ok is looked at
MayExit(w) == w \in cancelled \/ (BusClosed /\ queue[w] = <<>>)

FaultyJoined(w) == TRUE                            \* without wg.Wait
Joined(w) == wpc[w] = "exited"

-----------------------------------------------------------------------------
Init ==
  /\ server = "serving"
  /\ expired = FALSE
  /\ toStop = StopOrder
  /\ cancelled = {}
  /\ pc = [c \in Calls |-> "new"]
  /\ answer = [c \in Calls |-> Nil]
  /\ queue = [w \in Workers |-> <<>>]
  /\ wpc = [w \in Workers |-> "idle"]
  /\ wcur = [w \in Workers |-> Nil]
  /\ wout = [w \in Workers |-> Nil]
  /\ rows = [c \in Calls |-> "absent"]
  /\ runs = [c \in Calls |-> 0]
  /\ excused = {}

-----------------------------------------------------------------------------
(* The handlers. None of them looks at the bus's closed flag, and none     *)
(* notices that its client has gone.                                       *)

GoesTo(c, from, to) ==
  /\ Alive
  /\ pc[c] = from
  /\ pc' = [pc EXCEPT ![c] = to]

Call(c) ==
  /\ server = "serving"
  /\ GoesTo(c, "new", "sending")
  /\ UNCHANGED <<serverVars, answer, workVars, storeVars>>

Enqueue(c) ==
  /\ ~BusClosed
  /\ RoomFor(Target[c])
  /\ GoesTo(c, "sending", "waiting")
  /\ queue' = [queue EXCEPT ![Target[c]] = Append(@, c)]
  /\ UNCHANGED <<serverVars, answer, wpc, wcur, wout, storeVars>>

(* Three seconds on a full channel: 503. *)
SendExpires(c) ==
  /\ ~BusClosed
  /\ ~RoomFor(Target[c])
  /\ GoesTo(c, "sending", "busy")
  /\ UNCHANGED <<serverVars, answer, workVars, storeVars>>

(* A send on the closed channel panics; gin's recovery answers 500. *)
SendPanics(c) ==
  /\ BusClosed
  /\ GoesTo(c, "sending", "panicked")
  /\ UNCHANGED <<serverVars, answer, workVars, storeVars>>

TakeAnswer(c) ==
  /\ answer[c] # Nil
  /\ GoesTo(c, "waiting", answer[c])
  /\ answer' = [answer EXCEPT ![c] = Nil]
  /\ UNCHANGED <<serverVars, workVars, storeVars>>

(* 60 or 300 seconds: 504. The request stays in the queue or in hand. *)
WaitExpires(c) ==
  /\ GoesTo(c, "waiting", "timeout")
  /\ UNCHANGED <<serverVars, answer, workVars, storeVars>>

Handler(c) ==
  Enqueue(c) \/ SendExpires(c) \/ SendPanics(c) \/ TakeAnswer(c) \/ WaitExpires(c)

-----------------------------------------------------------------------------
(* The workers.                                                           *)

At(w, from) == Alive /\ wpc[w] = from

Take(w) ==
  /\ At(w, "idle")
  /\ queue[w] # <<>>
  /\ wcur' = [wcur EXCEPT ![w] = Head(queue[w])]
  /\ runs' = [runs EXCEPT ![Head(queue[w])] = @ + 1]
  /\ queue' = [queue EXCEPT ![w] = AfterTake(w)]
  /\ wpc' = [wpc EXCEPT ![w] = "solve"]
  /\ UNCHANGED <<serverVars, callVars, wout, rows, excused>>

(* solver.Run or OptimizeMulti: a result or an error. *)
Solve(w) ==
  /\ At(w, "solve")
  /\ \/ /\ wpc' = [wpc EXCEPT ![w] = "save"]
        /\ UNCHANGED wout
     \/ /\ wpc' = [wpc EXCEPT ![w] = "reply"]
        /\ wout' = [wout EXCEPT ![w] = "failed"]
  /\ UNCHANGED <<serverVars, callVars, queue, wcur, storeVars>>

(* The row: written and reported, not written, or written but not          *)
(* reported. An error is logged, and the call goes on without an id.       *)
Save(w) ==
  /\ At(w, "save")
  /\ LET row == [rows EXCEPT ![wcur[w]] = IF w \in GridWorkers THEN "row" ELSE "whole"]
     IN \/ /\ rows' = row
           /\ wout' = [wout EXCEPT ![w] = Inserted(TRUE)]
           /\ wpc' = [wpc EXCEPT ![w] = IF w \in GridWorkers THEN "grids" ELSE "reply"]
           /\ UNCHANGED excused
        \/ /\ "db" \in Faults
           /\ rows' \in {rows, row}
           /\ excused' = excused \cup {wcur[w]}
           /\ wout' = [wout EXCEPT ![w] = Inserted(FALSE)]
           /\ wpc' = [wpc EXCEPT ![w] = "reply"]
  /\ UNCHANGED <<serverVars, callVars, queue, wcur, runs>>

(* The grid points, in a transaction of their own whose error is ignored. *)
SaveGrids(w) ==
  /\ At(w, "grids")
  /\ wpc' = [wpc EXCEPT ![w] = "reply"]
  /\ \/ rows' = [rows EXCEPT ![wcur[w]] = "whole"] /\ UNCHANGED excused
     \/ "db" \in Faults /\ excused' = excused \cup {wcur[w]} /\ UNCHANGED rows
  /\ UNCHANGED <<serverVars, callVars, queue, wcur, wout, runs>>

Reply(w) ==
  /\ At(w, "reply")
  /\ ReplyReady(wcur[w])
  /\ answer' = [answer EXCEPT ![wcur[w]] = IF @ = Nil THEN wout[w] ELSE @]
  /\ wpc' = [wpc EXCEPT ![w] = "idle"]
  /\ wcur' = [wcur EXCEPT ![w] = Nil]
  /\ wout' = [wout EXCEPT ![w] = Nil]
  /\ UNCHANGED <<serverVars, pc, queue, storeVars>>

(* Between two requests, when the context is done or the channel closed    *)
(* and empty; select may as well take one more request.                    *)
WorkerExits(w) ==
  /\ At(w, "idle")
  /\ MayExit(w)
  /\ wpc' = [wpc EXCEPT ![w] = "exited"]
  /\ UNCHANGED <<serverVars, callVars, queue, wcur, wout, storeVars>>

Worker(w) ==
  Take(w) \/ Solve(w) \/ Save(w) \/ SaveGrids(w) \/ Reply(w) \/ WorkerExits(w)

-----------------------------------------------------------------------------
(* Shutting down.                                                         *)

(* A signal: http.Server.Shutdown accepts no more requests. *)
Signal ==
  /\ server = "serving"
  /\ server' = "draining"
  /\ UNCHANGED <<expired, toStop, cancelled, callVars, workVars, storeVars>>

DrainExpires ==
  /\ server = "draining"
  /\ ~expired
  /\ expired' = TRUE
  /\ UNCHANGED <<server, toStop, cancelled, callVars, workVars, storeVars>>

(* Shutdown has returned; the deferred Server.Stop closes the bus. *)
StopBegins ==
  /\ server = "draining"
  /\ Drained
  /\ server' = "stopping"
  /\ UNCHANGED <<expired, toStop, cancelled, callVars, workVars, storeVars>>

CancelWorker ==
  /\ server = "stopping"
  /\ toStop # <<>>
  /\ Head(toStop) \notin cancelled
  /\ cancelled' = cancelled \cup {Head(toStop)}
  /\ UNCHANGED <<server, expired, toStop, callVars, workVars, storeVars>>

JoinWorker ==
  /\ server = "stopping"
  /\ toStop # <<>>
  /\ Head(toStop) \in cancelled
  /\ Joined(Head(toStop))
  /\ toStop' = Tail(toStop)
  /\ UNCHANGED <<server, expired, cancelled, callVars, workVars, storeVars>>

CutOff == pc' = [c \in Calls |-> IF Active(c) THEN "cut" ELSE pc[c]]

(* main returns: the handlers still waiting end with the process. *)
Exit ==
  /\ server = "stopping"
  /\ toStop = <<>>
  /\ server' = "exited"
  /\ CutOff
  /\ UNCHANGED <<expired, toStop, cancelled, answer, workVars, storeVars>>

(* A panic in a worker, or a kill. *)
Crash ==
  /\ "crash" \in Faults
  /\ Alive
  /\ server' = "killed"
  /\ CutOff
  /\ UNCHANGED <<expired, toStop, cancelled, answer, workVars, storeVars>>

Shutdown == DrainExpires \/ StopBegins \/ CancelWorker \/ JoinWorker \/ Exit

-----------------------------------------------------------------------------
Next ==
  \/ \E c \in Calls : Call(c) \/ Handler(c)
  \/ \E w \in Workers : Worker(w)
  \/ Signal
  \/ Shutdown
  \/ Crash

Spec == Init /\ [][Next]_vars

(* Handlers have their timers, the solvers an iteration limit and the      *)
(* database calls a deadline, so every goroutine that can step does.       *)
(* Clients, signals and crashes owe nothing.                               *)
Fairness ==
  /\ \A c \in Calls : WF_vars(Handler(c))
  /\ \A w \in Workers : WF_vars(Worker(w))
  /\ WF_vars(Shutdown)

FairSpec == Spec /\ Fairness

-----------------------------------------------------------------------------
(* PROPERTIES                                                             *)

CallTypes ==
  /\ pc \in [Calls -> {"new", "sending", "waiting", "busy", "panicked", "timeout",
                       "cut"} \cup Answers]
  /\ answer \in [Calls -> Answers \cup {Nil}]
  /\ rows \in [Calls -> {"absent", "row", "whole"}]
  /\ runs \in [Calls -> Nat]
  /\ excused \subseteq Calls

WorkTypes ==
  /\ queue \in [Workers -> Seq(Calls)]
  /\ \A w \in Workers : Len(queue[w]) <= QueueCap
  /\ wpc \in [Workers -> {"idle", "solve", "save", "grids", "reply", "exited"}]
  /\ wcur \in [Workers -> Calls \cup {Nil}]
  /\ wout \in [Workers -> Answers \cup {Nil}]
  /\ \A w \in Workers : wcur[w] = Nil <=> wpc[w] \in {"idle", "exited"}
  /\ \A w \in Workers : wout[w] # Nil <=> wpc[w] \in {"grids", "reply"}

ServerTypes ==
  /\ server \in {"serving", "draining", "stopping", "exited", "killed"}
  /\ expired \in BOOLEAN
  /\ toStop \in Seq(Workers)
  /\ cancelled \subseteq Workers

(* Every variable has its type; no bus channel exceeds its capacity.      *)
TypeOK == ServerTypes /\ CallTypes /\ WorkTypes

(* An answer that carries a row id names a row that is in the database,    *)
(* although the answer passes through the worker, the response channel and *)
(* the handler after the insert (simulator.go:165, optimizer.go:167).      *)
AnsweredIdExists == \A c \in Calls : pc[c] = "stored" => rows[c] # "absent"

(* A simulation is stored with its grid points unless the database failed  *)
(* to take or to report part of it, the process was killed, or a worker is *)
(* just between the two transactions; an orderly exit never falls between  *)
(* them.                                                                   *)
StoredWhole ==
  \A c \in Calls :
    rows[c] = "row" =>
      \/ c \in excused
      \/ server = "killed"
      \/ server # "exited" /\ \E w \in Workers : wcur[w] = c /\ wpc[w] = "grids"

(* A handler panics on the closed bus or is cut off by the exit only after *)
(* Shutdown's 30 seconds (or a kill): the bus is closed after the HTTP      *)
(* server has been drained, not before.                                    *)
CallsFailOnlyAfterDeadline ==
  \A c \in Calls : pc[c] \in {"panicked", "cut"} => expired \/ server = "killed"

(* The handlers, channels and workers together do what CallService says    *)
(* of each call: one run per call, answers from that run, no run after a   *)
(* refusal.                                                                *)
Status(c) ==
  CASE Active(c) -> "pending"
    [] pc[c] \in {"busy", "panicked"} -> "refused"
    [] OTHER -> pc[c]

Abstract == INSTANCE CallService WITH
  status <- [c \in Calls |-> Status(c)],
  saved <- {c \in Calls : rows[c] # "absent"}

ImplementsCalls == Abstract!Spec

(* A request the bus accepted is worked on unless the server stops: a       *)
(* worker never hangs on an answer nobody waits for any more.               *)
AcceptedRuns ==
  \A c \in Calls : (\E i \in DOMAIN queue[Target[c]] : queue[Target[c]][i] = c)
                   ~> runs[c] > 0 \/ BusClosed \/ ~Alive

(* Shutting down ends, whatever the queues hold and the clients do.        *)
ShutdownEnds == server = "draining" ~> ~Alive
=============================================================================
