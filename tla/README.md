# Verification of the Tashan weir seepage system

TLA+ models of the Go backend (`src/backend`), its sensor simulator
(`src/simulator`) and its web front end (`src/frontend`), checked with TLC on
small instances and proved with TLAPS for every value of the constants.

## 1. Inventory

Paths are relative to `src/`; `internal/` stands for `backend/internal/`.

| Part | State | Operations | Talks to |
|---|---|---|---|
| Alarm service `internal/alarm_mqtt/service.go` | thresholds, cooldowns (`cfgMu`), retry queue (`retryMu`), MQTT client | `alarmLoop`, `evaluateAndPush`, `persistAndPublish`, `publishAlarm`, `pushRetry`, `retryLoop`, `processRetry`, `Stop` | reads `AlarmRequestCh`; writes `alarm_records`; publishes to the broker |
| Message bus `internal/message/bus.go` | seven buffered channels, `closed` | `Publish*` (used by nobody), `Close` | everything; the producers send on the channels directly |
| DTU receiver `internal/dtu_receiver/receiver.go` | none of its own | `Validate`, `HandleAndStore`, `loop` | stores readings in one transaction, then sends without blocking on `AlarmRequestCh` and `SensorBatchCh` |
| Simulation worker `internal/seepage_simulator/simulator.go` | one goroutine | `loop`, `Run`, `Stop` | reads `SimRequestCh`, stores a row and its grid, answers on the request's channel |
| Optimisation worker `internal/anti_seepage_optimizer/optimizer.go` | one goroutine | `loop`, `Run`, `Stop` | the same with `OptRequestCh` and one row |
| API server `internal/api/server.go`, entry `backend/cmd/main.go` | one goroutine per request | upload, run simulation, run optimisation, read-only queries, feature endpoints; start-up, `Stop` | all of the above |
| Data store `internal/database/datastore.go` | PostgreSQL tables | inserts, updates, queries | called by every part |
| NSGA-II `internal/optimization/genetic_algo.go` | a population | sorting, selection, variation, environmental selection | called by the optimisation worker |
| FEM solver `internal/simulation/seepage_fem.go` | a grid; a worker pool | grid, boundary heads, relaxation, velocities, flow, phreatic line; the second solver of `RunComparison` | called by the workers, the virtual tour, the ageing predictor and the comparators |
| VR dam `internal/vr_dam/vr_dam.go` | `lastRiskLevelStore` (shared, no lock), static scenes | `InteractiveAdjustment` | called by its endpoint; calls the solver |
| Ageing predictor `internal/aging_predictor/aging_predictor.go` | one run of a forecast | `PredictAging`, `CompareAgingScenarios` | called by two endpoints; calls the solver |
| Dam and era comparators `internal/dam_comparator/`, `internal/era_comparator/` | a slice shared by one goroutine per dam | `CompareDams`, `CrossEraComparison` | called by two endpoints; call the solver |
| Sensor simulator `simulator/sensor_simulator.go` | configuration, sensors, latest values, each under its own lock | main loop, configuration and trigger endpoints | uploads to the API |
| Front end `frontend/js/*.js` | the selection, the last data, the loading overlay | asynchronous loads, runs, acknowledgements | calls the API |

What is hard here, and for each part what makes it correct:

* **Alarm service.** Two goroutines share a queue that one rebuilds in place
  while the other appends; publishes time out while their message may still
  arrive; the row's flag is set in a later step; the process may die anywhere.
  Correct: an alarm never vanishes, is in one place at a time, is flagged only
  when confirmed, is given up only after all its tries, is not published
  again once confirmed, settles in the end; `Stop` returns.
* **Requests.** A handler gives up while its request is queued or being
  solved; channels fill up; the server is drained with a deadline, then the
  channels are closed under whoever still sends. Correct: one run per call,
  answers from that run, no run after a refusal, an id in an answer names a
  row, results are stored whole, nobody is cut off early, a worker never hangs
  on an answer, shutdown ends.
* **Ingestion.** Store first, then offer to the alarm service, dropping when
  full; the client may leave in the middle of the transaction, the bus may be
  closed between two offers. Correct: an upload is stored whole or not at all,
  its answer tells which, what is evaluated was stored, and what was stored is
  evaluated or logged as dropped; no upload waits for the loops behind it.
* **Sensor simulator.** Three locks for one logical configuration, merged
  read-modify-write, absent JSON fields, factors multiplied in place. Correct:
  once updates have ended the sensors' base values derive from the configuration
  that is reported, whatever came before; an update changes only what it names.
  The code keeps less than that (section 4), and the properties say how much.
* **NSGA-II.** Index juggling between fronts and populations. Correct: the
  population keeps its size and its best front, and no index leaves its slice.
* **VR dam.** A shared map without a lock. Correct: hysteresis never jumps by
  more than the code intends and one scene's level depends on that scene.
* **Solver.** Heads are overwritten while later cells of the same pass read
  them; cells outside the dam hold zero; a second pass lifts dry cells; convergence
  is measured in the first pass only; the flow needs velocities that another
  call computes. Correct: no head leaves the range of the boundary heads, what is
  taken for converged moves only where the last second pass lifted, a saving shows
  as efficiency.
* **Ageing.** Maintenance enters in three places, through maxima and a cap;
  the critical year and the advice apply the same bound in two places. Correct: more
  maintenance or a milder climate is never worse, in any year; year and advice agree.
* **Comparators.** Goroutines append to one slice in any order; ratios divide
  by what the solver found. Correct: the answer holds every known dam once per
  key and its summary does not depend on the order.
* **Front end.** Overlapping requests, stale answers, timers that outlive what
  set them. Correct: a result on display is of one run, the overlay has a reason,
  handled alarms leave the list for good and open ones stay displayed.

The full list of hazards, with the line where each bites, is in
`PROJECT.json`.

## 2. Modules

| Module | Content |
|---|---|
| `AlarmDelivery` | abstract: what the service promises about one alarm |
| `AlarmMQTT` | the alarm service in full; implements `AlarmDelivery` |
| `AlarmMQTTProofs` | theorems and proofs about `AlarmMQTT` |
| `MCAlarmMQTT` | instances of `AlarmMQTT` for TLC |
| `IngestContract` | abstract: what an upload of readings may rely on |
| `SensorIngest` | upload handlers, the storing transaction, both channels, both loops and the shutdown; implements `IngestContract` |
| `SensorIngestProofs` | theorems and proofs about `SensorIngest` |
| `MCSensorIngest` | its instance |
| `CallService` | abstract: what the API promises about one long-running call |
| `RequestService` | handlers, request channels, both workers and the shutdown; implements `CallService` |
| `RequestServiceProofs` | theorems and proofs about `RequestService` |
| `MCRequestService` | instances of `RequestService` for TLC |
| `SensorSimulator` | the DTU simulator: configuration, triggers and main loop over three locks |
| `SensorSimulatorProofs` | theorems and proofs about `SensorSimulator` |
| `MCSensorSimulator` | its instances |
| `RiskHysteresis` | the damped risk level of the virtual tour over its shared map |
| `MCRiskHysteresis` | its instances |
| `SeepageSolver` | the finite-difference solver, cell by cell, and the second solver of the efficiency |
| `SeepageSolverProofs` | theorems and proofs about `SeepageSolver` |
| `MCSeepageSolver` | its instances |
| `AgingPredictor` | the forecast of a dam's ageing and the four scenarios |
| `DamComparison` | the comparisons of dams and of eras |
| `MCFeatures` | one instance of the four feature endpoints: virtual tour, solver, ageing, comparisons |
| `FeatureProofs` | theorems and proofs about `RiskHysteresis`, `AgingPredictor`, `DamComparison` and the endpoints together |
| `NSGA2` | the multi-objective search: sorting, crowding, selection, stopping, answer |
| `NSGA2Proofs` | theorems and proofs about `NSGA2` |
| `MCNSGA2` | its instances |
| `FrontendPanel` | the browser console: overlapping operations and their timers, the result on display, the alarm list |
| `FrontendPanelProofs` | theorems and proofs about `FrontendPanel` |
| `MCFrontendPanel` | its instance |

### AlarmMQTT

| State | Code |
|---|---|
| `alarmCh` | `bus.AlarmRequestCh` (capacity `ChanCap`, 128 in the code) |
| `cooldowns`, `loaded` | `cooldowns`, `sensorConfigs` (empty when the start-up query fails) |
| `mqtt` | `mqttClient`: nil for good when the first connect fails, else up or down |
| `alarmPc`, `alarmCur` | where `alarmLoop` stands in `evaluateAndPush` / `persistAndPublish`, and its alarm |
| `retryQueue`, `retryCount`, `backingOff`, `hasId` | the retry items: order, `RetryCount`, `NextTry` in the future, `Alarm.ID > 0` |
| `retryPc`, `rest`, `remaining`, `retryDue` | where `processRetry` stands in its walk; while it is not idle it holds `retryMu` |
| `rows` | `alarm_records` with `mqtt_published`; survives the process |
| `sent`, `got` | copies that may still be delivered after a publish timed out, and those delivered |
| `raised`, `acked`, `dropped`, `lost`, `attempts` | history, as the log and the metrics record it |

One action per step between two points where the other goroutine can run:
`EvaluateAndPush`, `InsertAlarm`, `PersistAndPublish`, `AlarmMark`,
`PushRetry` for `alarmLoop`; `RetryTick`, `RetryDrop`, `RetryKeep`,
`RetryPublish`, `RetryMark`, `RetryPassEnds` for one pass of `processRetry`;
`Stop`, the two exits and `StopReturns`; readings, time, the connection, late
copies, crash and restart as the environment. Time is the order of events: a
cooldown runs until `CooldownExpires`, a back-off until `BackoffElapses`, and a
pass fixes what is due when it starts, as the code's `now` does. The copy
published on the `/all` topic is not waited for and read by nobody, and is left
out.

### SensorIngest

| State | Code |
|---|---|
| `payload` | the decoded `DTUPayload`: whether it names a DTU, its `Timestamp`, its readings by whether they fit receiver and columns and how they are stamped |
| `pc`, `next` | per upload: where its handler stands in `HandleAndStore` or what it answered; readings inserted or offered so far |
| `gone` | uploads whose request context is done |
| `rows` | per upload: its readings in `sensor_data` |
| `alarmCh`, `batchCh` | `AlarmRequestCh`, `SensorBatchCh` (capacity 128 in the code) |
| `running` | `alarmLoop` and the receiver's `loop` |
| `mirroring`, `mirrored` | `PublishSensorData` goroutines, and what they published |
| `evaluated`, `dropped`, `unsure` | history: readings taken by `alarmLoop`, logged as dropped, commits without a reported success |
| `server`, `expired` | as in `RequestService` |

`Upload` is the handler up to the validation, which reads nothing shared.
`InsertReading`, `InsertFails` and `Commit` are the transaction; a failed commit
leaves open whether the rows are there. `OfferReading` is one round of the
loop of non-blocking sends, between which anything may happen, `OfferBatch` the
last send, `SendPanics` either on the closed bus. `AlarmMQTT` continues at
`TakeReading`: its `Offer` is the send made here. `collectRecentAlarms` reads
the alarm table for the answer and changes nothing.

### RequestService

| State | Code |
|---|---|
| `pc` | per call: where its handler stands, or the answer it gave (200 with or without an id, 500, 503, 504, 500 by a recovered panic, cut off) |
| `answer` | its one-slot `ResponseCh` |
| `queue` | per worker, `SimRequestCh` / `OptRequestCh` (capacity `QueueCap`, 128 in the code) |
| `wpc`, `wcur`, `wout` | per worker: where `loop` and `Run` stand, the request, the result |
| `rows` | per call: nothing, a row, or the row with its grid points |
| `server`, `expired`, `toStop`, `cancelled` | `main` and `Server.Stop`: serving, draining, stopping, exited; the 30 seconds; the workers still to stop |

Both handlers are one definition, told apart by `Target`; both workers are one
definition, told apart by `GridWorkers`. A rejected request body, the read-only
endpoints and the numbers that are computed are left out. `Stop` also stops the
DTU receiver and the alarm service before the workers: here that is time that
passes between `StopBegins` and the first `CancelWorker`.

### SensorSimulator

| State | Code |
|---|---|
| `cfg`, `cfgWriter` | `cfg` with the four fields the loop and the sensors use (speed in tenths); who holds `cfgMu` for writing. Read locks are held for one step only |
| `base`, `sensorMu` | `BaseValue` of the sensors, by what it was derived from: a level, the permeability, for the piezometers also the factors multiplied in since; who holds `sensorMu` |
| `latest`, `newest` | `latest` (writer of each entry); and, as history, who produced the newest reading |
| `pc`, `body`, `merged`, `todo` | per POST to `/config`: where it stands, its body, the merged copy, the updates of the base values still to come |
| `target` | per manual trigger: its sensor |
| `loopPc` | the main loop |
| `alone`, `unsettled`, `factors` | history: the update under way if no other has been under way with it; the settings that no update alone has changed since two overlapped; the permeabilities configured since the upstream level was last changed |

`Merge`, `Store`, `Unlock`, `Apply` and `Respond` are `handlePostConfig` and
`UpdateConfig`, cut where a lock is released; `Produce`, `Record`, `Label` are
`handleTriggerAlarm`, cut where it waits for a lock while holding one;
`CycleBegins`, `Collect`, `Send`, `Sleep` are the loop. The environment's speed is
taken unchecked (`sensor_simulator.go:92`): with zero or less the loop does not
pause between its uploads, and only a request that names a speed can end that. The
upload that a trigger starts runs on its own and holds nothing. The simulated time is
left out: at a speed above 1 it runs ahead of the clock until the receiver
refuses the batches, which the loop logs and forgets like any other failure.

### RiskHysteresis

| State | Code |
|---|---|
| `store` | `lastRiskLevelStore` |
| `pc`, `dam`, `levels`, `pressure`, `prev`, `answer` | per request: where `InteractiveAdjustment` stands, its dam, the clamped levels, `pressureDiff`, `previousRisk`, the level answered |
| `alive` | the process; a concurrent map access may end it |
| `stale` | history: requests whose `previousRisk` was replaced before they wrote |

`Solve`, `ReadPrevious` and `Answer` are the three stretches of
`InteractiveAdjustment` between accesses to the map. The seepage solver's
result is one of a set of pressure changes, and none at the design levels, where
both solvers run on the same input. The division by the design head and the
bands are in thousandths.

### SeepageSolver

| State | Code |
|---|---|
| `section`, `water`, `cover` | the dam, the water levels and the blanket a solver is built for |
| `head`, `velocity` | `WaterHead` and `VelocityX` of the grid |
| `step`, `at` | where `SolveSteady` stands: first pass, second pass, and the cell a pass comes to next |
| `iter`, `moved` | the iteration, and whether `maxDelta` reached the tolerance in it |
| `lifted` | history, not in the code: the cells that the last second pass has lifted |
| `baseline`, `flow` | the second solver of `GetAntiSeepageEfficiency` is at work; the flows of both |

`SetUp` is `InitializeGrid` with `SetBoundaryConditions`; `Sweep` relaxes one
cell and `Lift` one of the second pass; `SweepEnds` and `IterationEnds` are the
loop around them; `Velocities` and `TakeFlow` are the two calls after
`SolveSteady`, the first of which the second solver does not get. The geometry,
the permeabilities between cells and the weights are those of the code,
with integers for lengths, heads and conductivities and quotients rounded down,
so that "the heads do not move" means less than one unit. Vertical
velocities, pore pressures and forces are computed from the heads and not
modelled.

### AgingPredictor

| State | Code |
|---|---|
| `request` | the build year of the preset, frequency, climate, years and step, and whether one scenario or all four are asked for |
| `wearing` | what the logarithms, roots and seasons of the damage formulas come to in each year, in ten-thousandths of damage and hundredths |
| `damage`, `evolution` | `currentDamage`, `permeabilities` of the scenario at work |
| `points`, `critical` | its data points, `criticalYear` |
| `results` | what the complete scenarios found |

`Evolve` is one turn of `CalculatePermeabilityEvolution`, `Predict` one turn of
the loop of `PredictAging`, `ScenarioEnds` its end, `Missing` its return for a dam
without a preset. The flow of the solver in later years is chosen.

### DamComparison

`stage`, `holder`, `seen` and `items` are the goroutines of `CompareDams`, the
mutex, what an append has read of the shared slice and the slice; `wanted` and
`reply` the request and the answer; `found` what the solver finds for each
dam and size. The append is two actions, between which another goroutine may
run unless the mutex is held. `NoteItem` is one turn of the loop of
`generateComparisonSummary`, over the items in order of arrival: `noted` counts
its turns and `summary` holds its variables. `AnswerDams` answers with them;
`AnswerEras` is `CrossEraComparison`, which has no goroutines. A ratio over zero is
NaN or infinite, which the JSON encoder refuses after the status 200 is
written.

### NSGA2

| State | Code |
|---|---|
| `population`, `offspring` | the slices of `Optimize`; an individual is its two objectives and `Valid` |
| `gen`, `curve` | the loop's counter, the last `Window` entries of `ConvergenceCurve` |
| `fronts`, `nextFront`, `over`, `walker`, `pending` | `fastNonDominatedSort`: `ranks`, the front being collected, the individuals that `dominationCount` still counts, the turns of both inner loops |
| `chosen`, `taken` | `newPopulation`, and how many fronts are in it |
| `job`, `sorted`, `at` | the exchange sort at work: its key, its slice, `i` and `j` |
| `ends`, `gap`, `span` | `crowdingDistanceAssignment`: who has the distance 1e18, `next - prev` and `objRange` by objective |
| `pc` | the loop at work; a panic |

`Breed` stands for tournament, crossover, mutation and evaluation: mutation adds
a normal deviate, so any child may come of any parents, and ranks inside
tournaments do not matter. Then every loop is taken turn by turn: `ScanOne`,
`WalkOne`, `NextWalker`, `NextFront` are the sorting; `TakeFront`, `Crowd`,
`TakeCrowded` the environmental selection; `Compare`, `NextPass`, `Measure` the
exchange sorts, by each objective and by distance; `Replace` ends the generation
and decides on the next. The order of indices is kept as the code makes it,
because slices and ties depend on it. Three abstractions: `over` is the set that
`dominationCount` counts, and the distances are computed for the one front that
is cut by them, multiplied by both ranges, which keeps their order within it. The
code takes flows within 1e-15 and costs within 1e-6 of each other for equal
(`genetic_algo.go:317-325`); in the model equal is equal.

### FrontendPanel

| State | Code |
|---|---|
| `boot` | where `main()` of `app.js` stands |
| `pc`, `parts` | per operation (simulation, optimisation, stored result, default simulation): not started, awaiting its answer, ended; which of its two answers a stored result has |
| `due`, `intervals`, `hides` | the timers of `updateProgress`, `progressInterval`, the delayed `hideLoading` |
| `overlay` | `loadingModal` is displayed |
| `shown` | `lastSimulationData`, by the operation its row and its grid came from |
| `alarm` | per alarm, `is_handled` in `alarm_records` |
| `ack`, `load`, `snap` | acknowledgements and fetches of the list under way, and what the server answered |
| `active`, `panel`, `removals` | `activeAlarms`, the class of `alarmPanel`, the timers that will take it away |
| `late` | history: a progress timer displayed the overlay after its simulation had ended |

What runs between two awaits is one action. `LoadServed` and `LoadDelivered`
are apart, so an answer is as old as the network makes it. `Poll` does not wait
for the last fetch, as `setInterval` does not. The list is the server's fifty
newest open alarms; the model has fewer. Two hazards show in what the
properties must except: progress timers fire up to 1.35 seconds after their
simulation began, and if it has ended by then they display the overlay for good
(`late`); and of two operations under way the first to end hides the overlay of
the other (`CoveredUnlessOverlapped`; the two make `OverlayFits`). Which of two results stays on display is
decided by the order of their answers, and nothing in the code promises another.

## 3. Runs

| Run | Instance | Shows |
|---|---|---|
| `alarm_safety` | 2 alarms, 1 sensor, 3 values (normal, warning, danger), channel 1, 1 retry, 2 readings, 2 starts, all faults | `TypeOK`, `NoAlarmVanishes`, `CustodyUnique`, `OutcomesAreTrue`, `AckedIsFinal`, `ImplementsDelivery` |
| `alarm_liveness` | 2 alarms, crash but no database fault, 1 start | `AlarmSettles`, `StopTerminates` |
| `alarm_masked` | as `alarm_safety`, 1 start | a violation, see findings |
| `ingest_uploads` | 2 uploads, each with one of 8 payloads (two good readings, or one way to be refused), both channels of 1, all faults | `TypeOK`, `StoredReadingsAccounted`, `OnlyWholeValidBatches`, `EndTellsStored`, `ImplementsContract`, `UploadEnds` |
| `requests` | 3 calls of one worker, channel 1, all faults, with fairness | `TypeOK`, `StoredWhole`, `CallsFailOnlyAfterDeadline`, `ImplementsCalls`, `AcceptedRuns`, `ShutdownEnds` |
| `sim_safety` | 2 configuration updates with 2 bodies, 1 trigger, 1 environment with a negative speed, with fairness | `TypeOK`, `SensorsFollowConfig`, `LatestIsNewest`, `NobodyWaitsForEver` |
| `sim_partial` | an update of one field | a violation, see findings |
| `features` | one feature endpoint at a time: 3 adjustments of 2 dams; 3 cross-sections on a grid of 5 by 5, 7 pairs of water levels, 2 blankets or none; forecasts of up to 3 data points under 5 wearings; up to 3 dam keys | `FeatureTypes`, `NeverUnderReported`, `LeftOnlyWithMargin`, `MaximumPrinciple`, `SteadyButForLifts`, `ForecastTells`, `ComparisonTells` |
| `efficiency` | the solver on the same grid | a violation, see findings |
| `nsga_search` | populations of 4 over 4 generations, founders and offspring of 3 kinds each, one of them over the budget | `TypeOK`, `FrontsAreRanks`, `AnswerIsBestOffered`, `ExtremesKept` |
| `nsga_elitist` | the same | a violation, see findings |
| `console` | 2 simulations with 2 progress timers each, 1 optimisation, 1 stored result, the default simulation; 2 alarms, 2 fetches and 2 removal timers at a time | `TypeOK`, `OverlayFits`, `ShownOfOneRun`, `HandledLeaves`, `StaysShown` |

Why the bounds are enough. Two alarms let one be queued, visited or kept while
`alarmLoop` holds the other, which is every way the two goroutines can meet; one
retry reaches both sides of the limit; two starts let a process begin after one
that died with work in hand. Three calls of one worker put one in its hand, one
in the channel and one before a full channel. Calls that have not reached the
channel are alike, so `requests` lets them arrive and leave the sender's place in
one order only (`InOrder`): every other order is the same but for names, and
a call passes these places once. Two updates of `sim_safety` overlap or follow one
another; that a third, alone, settles what two have left is not in the run, and is
what the theorem `SensorsFollow` adds, for any number of updates. The feature endpoints share no state, so
`features` explores one at a time with the others at rest in a first state. A
grid of 5 by 5 has cells in the body, the foundation, the contact layer, the
blanket and outside the dam, and interior cells next to each; the solver may
stop after `MinIter` = 2 iterations and must after `MaxIter` = 12 (10 and
500 in the code), and both happen. Three data points have a first, a middle
and a last, five wearings take a dam from the least wear there can be to critical
and to the cap, and three keys hold a dam twice, an unknown key and both types. Four
individuals and four bred ones have room for a front whose last member comes well
before its first, so that its slice is out of range; a first front may be larger than
the population and is cut, and the window of two closes before the four
generations have passed or with them. Two uploads of
two readings each fill the alarm channel of one from both sides and have the
closing of the bus fall between two offers. Operations and alarms of the console share nothing
but its start-up, so `console` explores the behaviours in which one of the two
rests (`OneAtATime`): two simulations overlap with each other, with an operation
of every other kind and with their own timers, two fetches of the list overtake
each other, and two removal timers outlive what set them. The theorems of
section 5 lift the safety results of `AlarmMQTT`, `SensorIngest`,
`RequestService`, `FrontendPanel`, `SensorSimulator`, `RiskHysteresis`,
`SeepageSolver`, `AgingPredictor`, `DamComparison` and `NSGA2` to every size.

Every cfg says `CHECK_DEADLOCK FALSE`: a process that has ended, or a server
that is asked nothing more, stops rightly. That no goroutine waits for ever is
what the liveness properties say.

Fairness. `AlarmMQTT`: every database call and publish has its own deadline, so
a goroutine that can step does (weak fairness per goroutine, and for the
clock). A goroutine waiting for `retryMu` gets it although the retry loop takes
it again and again: `sync.Mutex` hands the lock to a waiter that has starved for
a millisecond. A `select` on a ready `ctx.Done()` and a ready channel chooses at
random, so it takes the former in the end. These two are strong fairness. The
broker, the connection, restarts and `Stop` owe nothing. `RequestService`: weak
fairness for each handler (its timers), each worker (the solvers have an
iteration limit) and the shutdown; clients, signals and crashes owe nothing.
`SensorIngest`: weak fairness for each
upload's handler, whose only waits are on the database, and none for the two
loops: that uploads end must not depend on them.
`SensorSimulator`: strong fairness for each goroutine once begun, because Go's
mutexes hand over to a waiter that has starved; a request need never come.
`FrontendPanel`: start-up goes on, the removal timer fires and the poll of the
alarm list comes round (weak fairness: `setTimeout` and `setInterval`); a fetch
may fail, but a list asked for again and again is answered and delivered again
and again (strong fairness, an assumption about the network and the server
without which nothing can be shown). Operations owe nothing.

## 4. Findings

`alarm_masked`: `evaluateAndPush` asks `CheckCooldown` before it evaluates the
thresholds, and `CheckCooldown` arms the ten minutes for every reading it lets
through (`service.go:415`). A sensor that sends a normal value and within ten
minutes a dangerous one raises no alarm. `src/README.md:91` gives the order as
"阈值评估、冷却检查、MQTT告警推送" (threshold evaluation, cooldown check, push), and
the legacy `mqtt_service.go` arms the cooldown only for an alarm.

`sim_partial`: `handlePostConfig` decodes into a zero `Config`, and `0 >= 0`
counts as given (`sensor_simulator.go:422`): the example of `src/README.md:294`,
which names the permeability alone, also sets both water levels to zero.

`nsga_elitist`: a front that fits is copied as the index range from its first to
its last member (`genetic_algo.go:648`), not as its members, and the result is
cut to the population's size. The best individual may be cut; and when a front
is not in ascending order the range may be reversed, which panics in the
worker's goroutine and ends the process (the `Crash` of `RequestService`).
`src/README.md:90` names the algorithm NSGA-II, which is elitist.

`efficiency`: `GetAntiSeepageEfficiency` solves the dam again without its blanket
and takes the flow of that solver without `CalculateVelocities`, which
`RunSimulation` calls first (`seepage_fem.go:605-607`, `:895`). Its velocities are
zero, so is its flow, and the efficiency is 0 whatever the blanket saves. The
test at `seepage_fem_test.go:445` asks that a modern dam be more efficient
than an ancient one, in a message that two zeros do not trigger.

What the properties admit because the code does it, so that they do not catch it:
alarms a process held when it ended are lost (`lost`); readings that the closed bus
leaves over are never evaluated; a configuration update writes back a level that one it
overlaps has replaced (`unsettled`); adjustments of the virtual tour race over their map
(`stale`, `alive`); a progress timer that outlives its simulation displays the overlay
for good (`late`); a ratio over zero leaves a comparison without a body (`empty`).
The notes of the hazards in `PROJECT.json` say what remains true of each.

Seen while modelling, without a run of their own:

* The piezometers do not follow the permeability in force. `updatePZByPermeability`
  multiplies the base value that is there (`sensor_simulator.go:247-257`), where
  `updateSMByPermeability` starts from the built-in one, and
  `updatePZByUpstreamWL` (`:223-231`) starts from the built-in one and loses the
  factor. No two updates need overlap: a permeability that is set and then set
  back leaves the piezometers scaled, and a new upstream level leaves them unscaled
  under the permeability in force. `SensorsFollowConfig` says what the code does
  keep: the factors are exactly those of the permeabilities configured since the
  level was (`factors`).
* `handlePostConfig` merges its body with the configuration it reads under one
  hold of `cfgMu` and hands the whole copy to `UpdateConfig`, which takes it anew
  (`:408`, `:436`). Of two updates that overlap, the one that stores last writes
  back the level that the other has replaced. The base value stays changed all
  the same if the level written back is -1, which overrides nothing, or if the
  other sets it last. `GET /config` then reports a level the sensor does not have,
  and posting that level again does not mend it, since `UpdateConfig` compares with
  the configuration only. `SensorsFollowConfig` says how long that may last: until
  an update that stays alone changes the setting.
* The advice for a failure probability above 0.8 ("紧急加固",
  `aging_predictor.go:296-297`) cannot be given: no input takes
  `calculateFailureProbability` above 0.8. `AdviceNeverReached` proves it.
* A scaled comparison of eras solves the ancient dam in the modern size and
  reports the geometry of its own (`era_comparator.go`).
* Water levels left out of `/compare/dams` give flows of zero, a ratio of NaN
  (`dam_comparator.go:134`) and a status 200 without a body.
* The comparisons take water levels below zero and `/compare/dams` any grid
  resolution; `SolverAssumption` leaves levels below zero and grids of one or two
  columns or rows out.
* A grid resolution of 1 has no second column for the boundary to look at
  (`seepage_fem.go:248`): the goroutine of `CompareDams` that solves the dam panics
  (`dam_comparator.go:53`), outside of what the API's recovery catches.
* When the sensor configurations cannot be read at start-up the alarm service
  evaluates nothing until the next start (`server.go:299`); `AlarmMQTT` has this
  as `loaded`.
* `alarm_mqtt/service.go:371` prints pointers and slices with `%v`, so that
  optional numbers of an alarm arrive as addresses.

## 5. Proofs

`AlarmMQTTProofs` proves, from `ConstantsAssumption` alone, for any number of
alarms, sensors, readings, retries and restarts:

| Theorem | Statement |
|---|---|
| `TypeCorrect` | `Spec => []TypeOK` |
| `NothingVanishes` | `Spec => []NoAlarmVanishes` |
| `OneOwner` | `Spec => []CustodyUnique` |
| `FateIsTrue` | `Spec => []OutcomesAreTrue` |
| `ConfirmedIsFinal` | `Spec => AckedIsFinal` |
| `DeliveryImplemented` | `Spec => ImplementsDelivery` |

The invariants are not inductive alone. That the queue holds an alarm once, for
instance, is kept by `PushRetry` only because an alarm `alarmLoop` holds is
nowhere in the queue, which `EvaluateAndPush` gives because a new alarm is none
that was raised before. `IInv` states where each alarm is and what is known of
it there: an alarm in hand before its publish has no attempt, one waiting for
its mark is confirmed, one in the queue has been tried once more than it was
retried, and those acknowledged, dropped or lost are nowhere. `TypeOK /\ IInv`
is shown inductive with one step per action and one lemma per conjunct that
the action can disturb; each property is a consequence. The refinement is
proved per action: each step of `AlarmMQTT` is a step of `AlarmDelivery` or
leaves its variables alone. TLC does not assume any of it: the same properties
are runs.

`SensorIngestProofs` proves, from `IngestAssumption` alone, for any uploads,
payloads and capacities:

| Theorem | Statement |
|---|---|
| `TypeCorrect` | `Spec => []TypeOK` |
| `BatchesWholeAndValid` | `Spec => []OnlyWholeValidBatches` |
| `EndsAreTrue` | `Spec => []EndTellsStored` |
| `NoneForgotten` | `Spec => []StoredReadingsAccounted` |
| `ContractImplemented` | `Spec => ImplementsContract` |

Its `IInv` says of each upload what the database holds by the stage of its
handler (`StageInv`) and that every reading offered so far is evaluated, queued
or dropped (`OfferInv`); of the alarm channel, that its entries were offered, in
order, and come after those evaluated (`ChannelInv`), which is what makes
evaluation happen once and in the order of the upload; and that the bus is
closed under a working handler only after the deadline (`DeadlineInv`).

`RequestServiceProofs` proves, from `RequestAssumption` alone, for any number of
calls and workers, any assignment of the ones to the others and any capacity:

| Theorem | Statement |
|---|---|
| `TypeCorrect` | `Spec => []TypeOK` |
| `AnswersNameRows` | `Spec => []AnsweredIdExists` |
| `ExitsBetweenRequests` | `Spec => []StoredWhole` |
| `DrainedBeforeClosed` | `Spec => []CallsFailOnlyAfterDeadline` |
| `CallsImplemented` | `Spec => ImplementsCalls` |

Its `IInv` says where a request may be. In a channel it was sent, not begun,
belongs to the channel's worker and is there once (`QueueInv`); in a hand it was
begun once and is not answered (`HandInv`), so two workers never hold the same
one; its handler may have given up, which changes nothing for the worker.
`RowInv` carries the truth of an id along its way from the worker over the
response channel to the client, and ties a row without grid points to a worker
between its two transactions. `StopInv` says that a worker that has not exited
is still to be joined, which is why an orderly exit finds no such worker. The
assumption that every worker is in `StopOrder` is `Server.Stop`, which stops
both; without it `ExitsBetweenRequests` does not hold.

`FrontendPanelProofs` proves, from `PanelAssumption` alone, for any operations of
any kinds, timers, alarms and fetches:

| Theorem | Statement |
|---|---|
| `TypeCorrect` | `Spec => []TypeOK` |
| `OverlayHasAReason` | `Spec => []OverlayFits` |
| `DisplayIsWhole` | `Spec => []ShownOfOneRun` |

`TimerInv` is the strengthening: progress timers belong to simulations that were
begun, the interval to an optimisation under way, and a pending hide to one that
ended. Without it a timer could display the overlay for nobody, and a delayed
hide could uncover the only operation there is.

`SensorSimulatorProofs` proves, from the module's named assumptions, for any
sensors, bodies, updates and triggers:

| Theorem | Statement |
|---|---|
| `TypeCorrect` | `Spec => []TypeOK` |
| `SensorsFollow` | `Spec => []SensorsFollowConfig` |
| `StatusIsNewest` | `Spec => []LatestIsNewest` |

`TodoInv` says that an update owes base values only after it has stored its
configuration, only of settings that this gives, and the piezometers' factor
last; `MuInv` that whoever holds `sensorMu` stands between producing and recording,
and that otherwise the status is the newest reading; `AloneInv` that an update
which has remained alone merged what is there and stored what is in force, and
that with any other under way nothing is settled; `FollowInv` that every base value
of a settled setting derives from the configuration or is owed, and that the
piezometers' factors, once those owed are applied, are those configured. The
last place of the factor is what makes that true: owed before the level, it would
be multiplied in and lost. `TypeCorrect` says of the speed that no request makes
it zero or negative; what the environment gives is only assumed to be a number.

`FeatureProofs` proves, from the assumption of `RiskHysteresis`, for any requests,
dams, water levels and pressure changes:

| Theorem | Statement |
|---|---|
| `RiskTypesCorrect` | `Spec => []TypeOK` |
| `NoneIsTooMild` | `Spec => []NeverUnderReported` |
| `LevelsFallByMargin` | `Spec => LeftOnlyWithMargin` |

The invariant adds that the level a request has read is the one stored, unless
another request has replaced it since (`stale`). The assumption that a dam's design
head is at least half a metre is a fact of the presets; the clamping relies on it.

`FeatureProofs` proves, from `AgingAssumption` alone, for any wear, flow,
span and dam:

| Theorem | Statement |
|---|---|
| `AgingTypesCorrect` | `AgingSpec => []AgingTypeOK` |
| `CriticalYear` | `AgingSpec => []CriticalYearIsFirst` |
| `AdviceNeverReached` | `AgingSpec => []NeverReinforced` |
| `ForecastsTell` | `AgingSpec => []ForecastTells` |

`AgingInv` ties each data point to its year and its advice to its own figures; that
the probability stays at 0.8 or less is `ProbabilityAtMost`, the sum of the
three capped shares.

`ForecastsTell` adds to the critical year the order of the four scenarios, which
compares four runs of which only the one at work has its damage in the state.
`OrderInv` therefore says that there is a sequence of damages by which the
baseline's permeabilities came about (`BaselineIs`), and compares the scenario at work
with it year by year (`ComparedWith`): no more damage under high maintenance, no
less under none, and under the added climate at least 100/95 of the baseline's,
which is what makes up for a season that divides the damage by less. The step needs
that damage, ratio and permeability grow with what they are computed from
(`DamageGrows`, `RatioGrows`, `LetsThroughGrows`), through the rounding, the maximum
with the year before and the cap. `LeastWear` is where the rounding matters: with
hardly any wear the climate's factor of 1.3 would round to nothing. The code's
weathering alone comes to 0.003 times an Arrhenius factor of 1.36 in the first
year, 40 of the model's units, and the assumption asks no more than that.

From `ComparisonAssumption` alone, for any dams, keys and findings:

| Theorem | Statement |
|---|---|
| `ComparisonTypesCorrect` | `ComparisonSpec => []ComparisonTypeOK` |
| `ComparisonsTell` | `ComparisonSpec => []ComparisonTells` |

`SliceInv` says that a goroutine between reading and writing the slice has read it
as it is, which the mutex gives. `CountInv` says that of every set of dams the slice
has as many as there are goroutines that are done with one: with single dams it
gives how often each is in the answer, with the ancient ones the counts.
`SummaryInv` says that the minima, maxima and counts are those of the places noted
so far, in whatever order they arrived.

From the assumptions of the four modules, for the endpoints together:

| Theorem | Statement |
|---|---|
| `FeaturesAreTheirModules` | `FeatureSpec => Spec /\ SolverSpec /\ AgingSpec /\ ComparisonSpec` |
| `FeatureTypesCorrect` | `FeatureSpec => []FeatureTypes` |

The first lifts every theorem about one of the modules to the specification that
the run `features` checks.

`NSGA2Proofs` proves, from `SearchAssumption` alone, for any size of the
population, any number of generations, any founders and offspring:

| Theorem | Statement |
|---|---|
| `SearchTypesCorrect` | `Spec => []TypeOK` |
| `FrontsRankByDominance` | `Spec => []FrontsAreRanks` |
| `AnswerIsTheBest` | `Spec => []AnswerIsBestOffered` |
| `ExtremesAreKept` | `Spec => ExtremesKept` |

`SearchInv` has a part for every loop. `RankInv` is about the sorting: what is left
in `over` is who dominates an individual and has not been walked (`Counted`), those
with nothing left are those in a front or about to be (`FreeAreRanked`), and the
fronts so far are layers (`Layered`, `Apart`). When no front follows, all are
ranked, because dominance has no cycles: whoever dominates has a smaller `Weight`,
so a rest that is not ranked would have an undominated member, by the
well-foundedness of the naturals. `SortInv` is the exchange sort: the places before
`i` are final and the place `i` holds the least of those compared, under whatever
key. `EndsInv` says what has been set apart: the ends of each objective. From
the order at the end of the last sort it follows that the first three places
hold an end of each objective (`FirstThreeHaveOne`); and the greatest of one
objective has the least of the other, since nobody in a front dominates another
(`GreatestIsLeast`), so two of an objective's ends that share their value do no
harm. `KeptInv` carries that to `Replace`. That no population is empty needs that
the first member of the first front comes first (`FirstAscends`): its slice is never
the reversed one that panics. That the answer is the best follows without an
invariant: among the valid of least flow one of least cost is undominated
(`BestIsInFront`).

`SeepageSolverProofs` proves, from `SolverAssumption` alone, for any grid, dam,
water levels, blanket and iteration limits:

| Theorem | Statement |
|---|---|
| `SolverTypesCorrect` | `SolverSpec => []SolverTypeOK` |
| `HeadsStayWithin` | `SolverSpec => []MaximumPrinciple` |
| `StopsSteady` | `SolverSpec => []SteadyButForLifts` |

The maximum principle holds of every head on the way, not of the solution
only. Its core is the lemma on the weighted mean of four values (`MeanWithin`): a
mean with non-negative weights, one of them positive, stays in the range of the
values that have weight. The invariant bounds the cells outside the dam from
above as well, because the second pass reads them; from below it does not, because
their heads are zero, and the weights of zero in the first pass, and the condition
that a lifted cell's neighbours be wet in the second, are what keeps them out.

`SteadyButForLifts` says what a stop before the last iteration is worth. It would
be simpler to claim that neither pass changes such heads any more, but that is not
true. When the second pass lifts a cell to just the head that the first pass makes
of it, the next first pass moves nothing, and yet the lifted cell may have made its
neighbour on the left, which the second pass had come past, liftable: the solver
lifts that one and stops, on heads that its next iteration would move. It takes a
coincidence to within the tolerance, one unit in the model and 1e-5 in the code, and a
small instance has it (`MinIter` 0; 6 columns, 3 rows; length 28, height 12, crest 20,
slopes 0.5 and 0.6, no foundation, permeabilities 10, 2 and 2, contact layer 1,
levels 3 and 14). The property therefore speaks of the cells `lifted` in the last
second pass: a head is off its mean only at or next to one of them, and a cell that
could be lifted next has wet neighbours only to its right and above it, lifted after
the pass had come past it.

Its invariant is `SteadyInv`. The first pass does not measure the cells under the
water's level, so it must be shown that they never change: `HeldHold` says that they
hold the level from the first borders on, and the second pass leaves them because
they are not dry (`HeldNeverLifts`). With that, a step of the first pass that
measures nothing has changed nothing (`UnmeasuredIsUnchanged`), and `PassedOnMean`,
that the cells come past are as the pass would compute them, survives it although
the heads are overwritten in place. `OffNearLifted` and `PassedWetLater` carry this
through the second pass; `OneLifted` is their step.

Every safety property that a run checks is proved. Model-checked only: the
liveness properties, since fairness is out of the prover's reach.

## 6. Plan

1. `AlarmMQTT`, `AlarmDelivery`, `AlarmMQTTProofs`: done.
2. `RequestService`, `CallService`, `RequestServiceProofs`: done.
3. `SensorIngest`, `IngestContract`, `SensorIngestProofs`: done.
4. `SensorSimulator`, `SensorSimulatorProofs`: done.
5. `NSGA2`, `NSGA2Proofs`: done.
6. `RiskHysteresis`, `FeatureProofs`: done.
7. `FrontendPanel`, `FrontendPanelProofs`: done.
8. `SeepageSolver`, `SeepageSolverProofs`: done.
9. `AgingPredictor`, `FeatureProofs`: done.
10. `DamComparison`, `FeatureProofs`: done.
11. `FemWorkerPool` (`simulation/seepage_fem.go`): the solver's worker pool, in
    which a caller that does not read its results can block every worker; no
    handler uses it today.

## 7. Not modelled, and why

The logarithms, roots and seasons of the ageing formulas are floating-point
computations out of TLC's reach: what they come to is an input of
`AgingPredictor`. Of the solver, vertical velocities, pore pressures and the
forces on the dam are closed formulas over the heads. `FemWorkerPool` is used by
no handler. Drawing, layout, metrics, configuration files, static tables and the
stand-alone regression and verification programs have no behaviour to check;
`internal/mqtt` and `internal/config` are wired to nothing. The panels of the
feature endpoints in the front end are opened only by an `init` that nobody
calls. `PROJECT.json` lists each component with its status.
