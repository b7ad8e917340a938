# Verification of the smart-grid lambda pipeline

TLA+ models of the pipeline in `src/`, their TLC configurations, and theorems
checked by TLAPS. `PROJECT.json` lists every run, the properties it checks, the
lines of code behind each definition, the hazards and the theorems. Paths below
are relative to `src/`.

## 1. The system

A simulated power grid runs on a shared, accelerated clock. Meters send readings
to Kafka; a speed layer archives them and keeps live aggregates; once a
simulated day is over a batch layer settles it from the archive and from a daily
drop of reference data; a serving API shows settled figures where they exist and
the speed layer's elsewhere.

| Component | State it keeps | Operations | What makes it correct |
|---|---|---|---|
| Clock and reset (`common/clock.py`, `clock_store.py`, `simulation.py`) | `ops.sim_clock`: the current simulation | `reset_simulation`: clock, then MinIO, then tables | nothing of an earlier simulation shows up in the new one |
| Meter simulator (`producers/meter_simulator.py`, `faults.py`) | per meter: outage, missed and late readings | one tick per interval; late, silent, duplicate and malformed messages | every interval is sent once or knowingly dropped |
| Drop publishers (`producers/daily_batch_source.py`, `common/drops.py`) | MinIO `raw-daily/`: version folders of each day; what `follow` has handled, in memory | `follow`, `publish`, `revise` | no half-uploaded drop is read, no published one changes, no revision is lost |
| Speed layer (`streaming/speed_layer.py`, `transforms.py`) | two streaming checkpoints, archive, dead letters, `ops.ingest_batches`, `ops.stream_progress`, `speed.zone_metrics`, counters | micro-batches of `ingest` and `zone_metrics` | nothing on record is lost or counted twice; windows converge |
| Clock tick (`airflow/dags/sim_clock_tick.py`) | `ops.settlement_triggers`, Airflow's DAG runs | one tick per real minute | every ended day is triggered, none before its end |
| Settlement (`airflow/dags/daily_settlement.py`, `batch/orchestration.py`, `batch/settlement.py`, `report.py`, `reconcile.py`) | the DAG run, the child process, `ops.settlement_runs`, `batch.*`, gate verdicts, reconciliation, reports | sensors, gate, settle, reconcile, report; the job's own steps | bills appear completely or not at all, and what is served only moves forward |
| Bills, tariffs, validation, drop quality (`common/billing.py`, `transformations.py`, `drop_quality.py`) | none | pure functions | the two validators agree; blocks and proration add up |
| Serving (`serving/*.py`), alerts, dashboard | none of its own; reads everyone's tables | HTTP requests, metric collection | an answer does not mix two settlements or two simulations |
| Fleet, weather and energy models, scripts, containers | none, or deployment | | |

The parts share no memory. They meet in Kafka (simulator -> speed layer), MinIO
(speed layer and publishers -> settlement), Postgres (speed layer ->
settlement -> serving) and Airflow's own database (tick -> settlement). What is
hard is what happens between those stores:

* the settlement process is a child of an Airflow task and may outlive it, so a
  retry can overlap with it;
* three stores (clock, MinIO, tables) are reset one after the other, while runs
  that were queued for the old simulation are still in Airflow;
* Spark runs a micro-batch again after a crash, from the same offsets, beside
  whatever the sinks had already written, in whole or in part;
* a drop is a folder of objects without a transaction around it;
* a mapped task that is skipped or fails keeps Airflow from running the task
  that would have recorded the others;
* a meter's intervals wait in three places at once (owed after an outage, held
  back, handed to Kafka but not delivered), all of them in memory;
* an answer of the API is several statements without a transaction, and the day it
  is about may end, be settled, restated or reset between any two of them.

`PROJECT.json` "hazards" lists them one by one with the line where each bites.

## 2. Modules

| Module | Models | Extends |
|---|---|---|
| `Settlement` | the DAG, the settlement process, the tables, the reset | |
| `BillLedger` | what settlement promises whoever reads its figures | |
| `SettlementLedger` | the refinement mapping from `Settlement` to `BillLedger` | `Settlement` |
| `MCSettlement`, `MCSettlementLedger` | instances for TLC | `Settlement`, `SettlementLedger` |
| `SettlementProofs` | theorems: types, runs and bills, the reset, reports; the refinement step by step | `SettlementLedger` |
| `ClockTick`, `ClockTickProofs` | the tick DAG; theorems | |
| `Drops`, `DropsProofs` | versions in MinIO and their publishers; theorems | |
| `SpeedLayer` | the two streaming queries | |
| `SpeedToBatch` | the speed layer with the settlement and reconciliation of a day | `SpeedLayer` |
| `SpeedLayerProofs` | theorems of both | `SpeedToBatch` |
| `Validation` | the field tables and the two validators | |
| `Billing` | schedules, revisions, blocks, a day's bill | |
| `Subsequences` | parts of a sequence: records picked from a file, readings released from a heap | |
| `DropQuality` | what a drop contains, how it is damaged, the gate | `Validation`, `Billing`, `Subsequences` |
| `MeterSimulator` | the meters, their faults and the sending process | `Validation`, `Subsequences` |
| `MeterToBill` | the composition of the four above with ingest and settlement | `MeterSimulator`, `DropQuality` |
| `MCMeterToBill` | an instance for TLC | `MeterToBill` |
| `SequenceLemmas` | facts about numbers, folds, sequences and sums over sets | `Subsequences` |
| `MeterToBillProofs` | theorems of validation and of the simulator, in their composition | `MeterToBill`, `SequenceLemmas` |
| `BillingProofs` | theorems of drops, the gate and the bills | `MeterToBillProofs` |
| `Serving`, `ServingProofs` | requests and scrapes beside the store they read; theorems | instantiates `BillLedger` |

Operators that a model does not use in its actions and whose comment calls them
a mutant are defects the properties are known to catch; `PROJECT.json` "mutants"
says which property catches which.

### Settlement

`sim` and `reset` are the clock and how far a reset has got. `drops`, `archive`
and `reached` are what others write: per day the verdict on each complete drop
version, the number of archived readings, and the last day the ingest query has
passed. `dag` is the one active DAG run (`max_active_runs=1`,
`airflow/dags/daily_settlement.py:40`): its task, the pinned simulation (0 for a
blank `sim_id`), the version the gate passed, the attempt and the child process.
`job` holds the processes: a process that has lost its task is an entry of `job`
that no `dag.child` names. The rest are tables.

Each task is an action (`WaitForDrop`, `WaitForArchive`, `QualityGate`,
`SpawnJob`/`ReadExitCode` for `settle`, `Reconcile`, `Report` and
`RecordReport`), `SensorTimesOut` ends a sensor and `TaskDies` is any failure
or kill: the first failure of a task with a retry starts it again, the second ends the
run. A settlement process goes through `JobStart` (the simulation check),
`JobLoadDrop` (the second gate), `JobInsertRun` and `JobOpenRun` (one transaction of
two statements: the row, which nobody sees before the commit, then an UPDATE
that closes what an earlier run of the day left running), `JobReadArchive` and `JobCommit`
(one transaction: bills, zone figures, status); `JobRaises` is an exception
anywhere, after which `_fail_run` closes the row, or fails too. `ResetClock`,
`ResetStores` and `ResetTables` are the reset, in the code's order.

What is left out: what is inside a drop or a bill, and the job's command line
used without the DAG.

The environment is a matter of four constants.

* `OrphansSurvive`: whether a settlement process may outlive its killed task.
  `TRUE` is what the code permits (`Popen`). With it `FailedRunsStayFailed` does
  not hold, see finding 1, nor does `OneRunningRowPerDay`: an orphan and its retry may
  both have inserted a row before either commits, and under READ COMMITTED
  neither UPDATE sees the other's, so that both stay running.
* `AirflowStopsForReset`: whether Airflow is stopped for a reset. `make sim-reset`
  stops it (`Makefile:28`), and every run assumes it. With `FALSE`, the
  reset command run on its own, `LeftoverRunWritesNothing` does not hold.
* `BlankRuns`: whether runs are triggered without a `sim_id`, as by hand in
  Airflow's UI. The tick and `scripts/settle.py` always pin the simulation. With
  `TRUE`, `SettledDayIsOver` does not hold: a run that passed the archive sensor
  before a reset settles the new simulation's unfinished day.
* `AckMayBeLost`: whether a commit may take effect and still raise in the client.
  With `TRUE`, `SettledIsFinal` and `BilledIffSucceeded` do not hold:
  `_fail_run` marks as failed a run whose bills are in place.

`BillLedger` is the promise behind `batch.current_runs`: for each day an
append-only book whose last entry is served, each entry based on a drop at least
as new and on at least as many readings as those before it; books are emptied only
for a new simulation. `SettlementLedger`
maps the succeeded runs of a day to its book and states `ImplementsLedger`.
It is checked where no process outlives its task: a run that a later one has
closed as abandoned and that still commits (finding 1) may well break the order.

### ClockTick

`dagRuns` is Airflow's database, which a reset leaves alone; `recorded` is
`ops.settlement_triggers`, which it clears. `tick` is the active run of
`sim_clock_tick`: what it found due, which mapped triggers are pending, and
whether one was skipped or failed, in which case `record_triggers` is not run.
`DueSettlements` is `due_business_dates` with its limit of days per tick,
`TriggerSettlement` and `TriggerFails` one mapped `TriggerDagRunOperator`,
`RecordTriggers`, `RecordFails` and `RecordNotRun` the last task. `Reset` may
come between two ticks or, with `ResetMidTick`, between two tasks of one.

### Drops

`store` holds every version folder of every day: which objects are there, and
what the manifest says. `writer` is the publication each publisher is in
(`choose` a version, read what it `supersede`s, `upload` the files, then the
`manifest`, then the ground `truth`); it is changed by one action per object, so
that a failure (`PublicationFails`) or a restart of `follow` (`Restart`) can
leave any prefix. `handled`, `start` and `failed` are what `follow` keeps in
memory; `plan` is what `plan_day` draws. `CommandPublish` and `CommandRevise`
are the commands. The contents of a drop are the number of tariff revisions
behind its rates.

`OnePublisher` excludes two publications of one date at the same time, as
ADR-0008 (`docs/adr`, "Revisit if") takes for granted. With `FALSE`, the two
choose the same version and `PublishedStays` and `CompleteIsWhole` do not hold.

### SpeedLayer

`topic` is one partition of `meter.readings`; a message is a valid reading, named
by meter and event time, or invalid. `ingest` and `metrics` are the two queries:
`from`/`to` are the commit log and the offset log, `batch` the batch id, `pc` the
step of the running micro-batch; `metrics` also carries Spark's state (keys seen
by the deduplication, open windows, the two watermarks). `ingest` archives, then
dead-letters, then records in one transaction keyed by the batch id, then counts
(`IngestSink`); `zone_metrics` upserts the windows that changed (`Upsert`).
`Crash` ends both queries wherever they are, leaves any part of a write that was
under way, and starts them again at their planned batch. Spark itself (planning,
commit log, state store, watermark propagation through chained stateful operators) is
modelled from how the code uses it and marked external in the map.

Rows, counts and aggregates are the sets of offsets they are made of, which is
what makes "exactly once" a question about sets. The grid is one zone and the
topic one partition; the arithmetic of the window metrics is left out.

### SpeedToBatch

Adds to both queries what follows them: the sensor (`ArchiveHasPassed`, which
looks at the progress of `ingest` alone), `SettleDay`, which reads the archive, and
`Reconcile`, which compares the settled readings with the rows of
`speed.zone_metrics` at that moment. `run` is one settlement of the day with its
row of `ops.reconciliation`; when it has ended (`RunEnds`) the day may be settled
again. To keep the instance small, what a run does not depend on waits between its
steps, and of the moments at which the archive and the progress are the same it
begins at one.

### Validation, Billing, DropQuality

Pure algorithms, written as operators and checked where they are used, in
`MeterToBill`.

`Validation` has the three field tables of `schemas.py`. A value is the class the
rules put it in (`Classes`), so that the table of which class fails which type
(`WrongType`, `Raises`, `OutOfRange`) is `_coerce` with its exceptions.
`RowVerdict` is `validate_record`, which stops at the first field at fault;
`FrameVerdicts` is `validate_frame` and `validate_json_frame`, which go column by
column over all rows. A boolean `event_time` is read as 1970; that is modelled too.

`FrameRaises` is what no handler catches on the way of a batch through
`mapInPandas`. There are three causes: `json.loads` raises `RecursionError` on a
message nested too deep (`Unreadable`; `transformations.py:351-352` catches
`TypeError` and `ValueError`); `float()` of an integer too large for one raises
`OverflowError` (`Raises`; `:115`, with the handlers at `:175` and `:251`); and a
string with half of a surrogate pair passes the rules, but cannot be converted to Arrow
(`Inconvertible`; `streaming/transforms.py:95-102`). The frame coerces every column
of every row and returns the typed columns of rejected rows too, so that it raises even for
a row that `validate_record` would have rejected for an earlier field. Messages that are not
UTF-8 do not reach the validator as strings; they are left out.

`Billing` counts in cents and in eighths of a kWh, so that rounding half up
matters. `Charge` is one turn of the loop over the blocks, `BlockLines` the loop;
`MarginalCost` says what a bill should be without any of it, a unit at a
time. The default schedule is that of the code. Caps that a day's proration does
not divide are left out (each one in use is a multiple of 30 kWh).

`DropQuality` renders a drop from a schedule and the fleet, damages it in each way
`corrupt_files` does (every choice of records), and judges it (`CheckDrop`: the
integrity checks alone if one fails, then the schedule, the households, the
weather). A file is its contents and its checksum is itself.

### MeterSimulator

`meters` is `_MeterState` per meter: the outage and the intervals missed;
`late` the heap of readings held back; `outbox` what was handed to Kafka's
client and not taken yet. `Round` is `tick` for all meters (`MeterTick`: silence,
outage, upload of what is owed, then one reading with at most one fault) and the
release of late readings. `Send` and `DeliveryFails` are the two ends of a delivery, `FallsBehind`
a round that is skipped because the loop is late, `Stop` SIGTERM or a crash,
`IsDown` and `Start` the time until it is up again. `measured` and `lost` are
history: which rounds took place and which intervals are gone for good.

### MeterToBill

Composes the simulator with `Ingest` (a micro-batch through `FrameVerdicts`;
one that raises is run again and raises again: `poisoned`), `Publish`, `Revise`
and `Settle` (revalidation, `dropDuplicates`, usage, bills). The steps inside
each are the business of `SpeedLayer`, `Drops` and `Settlement`; here each is one
step and its data is what counts. `SendStrange` puts messages in the topic that no
meter sent. Two reductions keep the instance small. What does not depend on one
another is taken in one order (`IngestsNow`): the meters finish, then the first
drop appears, then the ingest query reads on; the meters see neither drops nor
archive, and of the meters a settlement sees only how far ingest has come, which may
be anywhere. And what does not depend on how readings come (strange messages,
damaged drops, second versions, second settlements) is added only to
`Undisturbed` behaviours.

### Serving

`clock`, `age`, `simulation`, `ledger`, `objects` and `reports` are the store, and
their actions what others do to it: `Midnight`, `Settle` (a step of
`BillLedger`, which `Settlement` implements), the report's two writes, and the
reset in its three steps, of which `ReplaceAnchor` alone is `clock_store reset`. A
reset may stop after any of them.

Reports appear only while no other kind of request is in flight
(`ReportsMatter`), as no other reads them.

`request` is the request in flight: its kind, what it has read, and `todo`, the
reads still to come (`Reads`, in the code's order). Each read is an action, so that anything
may happen to the store between two: the anchor with the first look at
the date (`Begin`), the second look (`Look`), `settled_runs` (`ReadSettled`), then figures, windows of
either layer, bills, totals and page, or a report and its object. `Layer` and
`BillAvailability` are `merge.py`. `during` is history: what was current when
the request began and since. A scrape of the metrics is a request whose gauges
(`CountDays`) come from two looks at the clock and one at the settled days.

Requests read only, so one at a time stands for any number. Left out: endpoints of one
statement (`live`, `health`, history, settlements), paging and filters, the limit
on ranges, days before the start, a store that is down (503), and the gauges of zones, gate verdicts
and the archive's lag.

## 3. Runs

| Run | Question | Instance |
|---|---|---|
| `settle_overlap` | do overlapping settlement processes, orphans included, keep the tables consistent? | 1 day, 2 processes, 3 rows, 2 simulations |
| `settle_serial` | across revisions, late readings, kills, retries and a reset, is one run of a day running, is what is served right, and does every DAG run end? | 1 day, 2 rows, 2 drop versions, 2 simulations |
| `clock_tick` | is every ended day triggered, and only those? | 4 days, 2 per tick, 2 failures, 1 reset |
| `drops` | are drops whole, kept and chained, and published in the end? | 1 day, 4 versions, 2 files, 1 command, 2 failures, 1 restart |
| `speed_layer` | is nothing lost or counted twice, and what does the difference recorded between the two views consist of? | 3 messages, times 1..4, a day that ends at 4, batches of at most 2, 1 crash |
| `meter_to_bill` | is every reading accounted for and billed once, do the validators agree where both decide, is the gate right, are bills what the tariff says? | 1 meter, 2 households, 3 rounds, 4 kinds of damage, 7 strange messages, of which one at a time, 1 incident, 2 versions, 2 settlements |
| `serving` | which mixtures of settlements, layers and simulations may an answer or a gauge contain? | 3 days, 2 anchors, 2 settlements |

The bounds are named in each module's CONSTANTS. They are the smallest with
which the interesting cases meet, and each property has a defect it is known to
catch within them. A day is settled independently of the others except through the single DAG
slot and the shared row ids, so one day with three rows (a run, its retry, and a
run after the reset) shows every overlap. `ClockTick` needs more days than
`Limit` on both sides of a tick, hence four. A day's version folders do
not interact with another's; four versions hold a complete one, an interrupted
one, a revision and one more. Three messages are one more than a micro-batch
holds, enough for a copy that comes after the state that knew it was evicted,
and for a day of two readings that differ in what has seen them. (The grace is 0
there: with the day's end it is one bound on the progress.)
Three rounds let an outage, its upload, a late reading and a stop meet, and one
of them lies after the day. The load of the two rounds makes a day's import end beyond the last
cap, exactly at a cap, or turn into an export; revisions to 95, 110 and 0 percent
lower and raise rates and reach the rate the gate refuses. In `serving`, three days hold one that
is over, today and tomorrow at once, two settlements a restatement, and two anchors a
reset in each of its stages.

Deadlock is checked in every run but `meter_to_bill` and `serving`, which end
where their bounds do; where the code polls, an
action of its own (`NothingDue`, `IdlePoll`, `IdleTrigger`) stands for a poll that finds nothing.

Fairness is assumed of what the deployment keeps running, and of nothing else:

* `Settlement`: Airflow schedules the DAG's tasks, processes run on, a reset that
  was begun goes through. Failures, drops, readings, the stream's progress and triggers are not fair:
  `DagRunEnds` holds although the drop never comes, because the sensors time out.
* `ClockTick`: a tick every minute and its tasks. The failures are finite, by the
  bound.
* `Drops`: `follow` polls every second; a publication under way ends or fails.
* `MeterToBill` and `Serving` state none: they have safety properties only.
* `SpeedToBatch`: the ingest query steps on, as the container is restarted whenever
  the process is gone (`docker-compose.yml`); no property needs it of the other query.

### What disagrees with the documentation

Five runs show a state the documentation or a log message excludes. They
concern what is promised, not necessarily what hurts.

1. `bug_abandoned_revives`: `_open_run` records an earlier running row of the day
   as abandoned; if that process outlived its task, it still commits, and the
   failed run becomes a succeeded one. The comment there ("it cannot still be working",
   `settlement.py:145-147`) takes for granted that no two processes overlap; so does the UPDATE
   itself, which misses a row that another opening has not committed yet.
2. `bug_tick_starved`: a trigger that fails once after having created its run leaves its
   day unrecorded. Every later tick is skipped there, and with as many such
   days as the tick's limit no new day is triggered.
3. `bug_tick_misrecorded`: a tick resumed after a reset records its old days
   in the new simulation, where they were never triggered.
4. `bug_drop_not_retried`: the loop logs that it will retry a failed publication, but
   takes the folder left behind for a handled day.
5. `bug_counters_miss`: a crash between the bookkeeping and the counters leaves a
   batch out of the counters, which are said to be exactly-once.

What the other runs take for granted, although a reader may not expect it:

* A message nested too deep, with a number too large for a float, or with half a
  surrogate pair in a string stops the ingest query for good. `ValidatorsAgree`
  says that the query never gets past one, that nothing else stops it and that no meter
  sends one. The comment at `transformations.py:93` explains why a timestamp must not do so;
  the same goes for these. For them the two validators do not agree:
  `validate_record` names a reason if another field is at fault first (and accepts
  half a surrogate pair), while `validate_json_frame` or the conversion after it
  raises. `transformations.py:266` ("the same verdict as `validate_record` BY
  CONSTRUCTION") and ADR-0004:44-46 ("identical verdicts *and* identical
  quarantine reasons for the same input") except none.
* `missed_by_speed` counts more than "late arrivals the speed layer's watermark had to
  drop" (`reconcile.py:8`): also readings `zone_metrics` has not read yet; and readings
  that only the speed layer has, as they came after the settlement, are
  subtracted (`DifferenceIsExplained`), so that it can be negative.
* `publish` after `revise` renders the default schedule again. A revision to a
  rate of 0 is published and refused by the gate; one that lifts the headline rate
  above 500 makes the publisher raise.
* The simulator loses what it owes and holds when it stops, and what fails to be
  delivered; the rounds it fell behind are not made up for.
* `household_bills` answers 500 when a midnight falls between its two looks at
  the date: the check lets tomorrow through and the merge rule raises `FutureDate`
  (the outcome `"unhandled"`, which `FailuresAreExplained` confines to this case). In
  `zone_windows` the same is caught, by a handler marked unreachable (`api.py:579`).
* `day_bills` may name one settlement and total another, though never an older one.
* A restated day has no report until the new one is recorded.
* After a clock-only reset the tables still hold the old simulation's settlements: its bills are
  served for days that are not over, and its settled days hide unsettled ones from the gauges.

## 4. Proofs

A run shows a property on one instance; a theorem shows it for every number of
days, versions, processes, messages and crashes. The theorems assume what the
modules assume of their constants (`BoundsAssumption`, `EnvironmentAssumption`,
`PublishersAssumption`, `ServingAssumption`: numbers are numbers, booleans are booleans,
a window and a batch are not empty; `DayAssumption`: a day ends where a window does;
`RoundsAssumption`, `FaultsAssumption`, `TopicAssumption`: rounds, outages and delays are numbers, the
faults those of `faults.py`, a message in the topic JSON or not; `FleetAssumption`: the fleet is finite and
has a household, as `build_fleet` insists, each with one of the tariff's tiers;
`RevisionsAssumption`: a revision is by a whole percentage)
and what the table names, nothing else. Each is proved from
an inductive invariant, with one step per action.

| Theorem | States | Provided |
|---|---|---|
| `SettlementProofs`: `TypeCorrect` | `TypeOK` | |
| `BillsAllOrNothing`, `SettledStays` | `BilledIffSucceeded`, `SettledIsFinal` | `~AckMayBeLost` |
| `OneRunning`, `FailedStaysFailed` | `OneRunningRowPerDay`, `FailedRunsStayFailed` | `~OrphansSurvive` |
| `LeftoverWritesNothing`, `SettledOnlyWhenOver`, `GatedBeforeSettled` | `LeftoverRunWritesNothing`, `SettledDayIsOver`, `VerdictBacksRun` | `AirflowStopsForReset`, `~BlankRuns` |
| `ListedReportsAreThere` | `ReportsAreComplete` | |
| `SettlementImplementsLedger` | `ImplementsLedger`: `Spec` implies `BillLedger!Spec` | `AirflowStopsForReset`, `~OrphansSurvive`, `~AckMayBeLost` |
| `ClockTickProofs`: `TickTypeCorrect`, `TriggersOnlyEndedDays` | `TypeOK`, `TriggeredDaysAreOver` | |
| `RecordsOnlyTriggered` | `RecordedWasTriggered` | `~ResetMidTick` |
| `DropsProofs`: `DropsTypeCorrect` | `TypeOK` | |
| `NeverHalfUploaded`, `VersionsAreChained`, `NoRevisionLost`, `NeverOverwritten` | `CompleteIsWhole`, `SupersedesWhatWasServed`, `RevisionsAddUp`, `PublishedStays` | `OnePublisher` |
| `SpeedLayerProofs`: `SpeedTypeCorrect` | `TypeOK` | |
| `CountedExactlyOnce`, `CountersNeverRepeat` | `MessagesCountedOnce`, `NeverCountedTwice` | |
| `NothingRecordedIsLost`, `ProgressIsHonest` | `RecordedIsKept`, `ProgressIsArchived` | |
| `NeverAggregatedTwice`, `TimelyNeverMissing`, `WindowsNeverShrink` | `AggregatedOnce`, `TimelyIsAggregated`, `WindowsOnlyGrow` | |
| `HandOverIsSpeed`, `DifferencesAreExplained` | `HandOverSpec` implies `Spec`, so all of the above holds with settlement too; `DifferenceIsExplained` | |
| `ServingProofs`: `ZonesOfADayAgree`, `PartsOfADayMoveForward` | `EachDayFromOneLayer`, `DayBillsMoveForward` | |
| `HouseholdsGetABillOrAReason`, `EveryFailureHasItsReason` | `BilledOrSaysWhy`, `FailuresAreExplained` | |
| `OverdueDaysAreOverdue` | `OverdueIsTrue` | |
| `MeterToBillProofs`: `ValidatorsDecideAlike`, `NoReadingGoesMissing` | `ValidatorsAgree`, `EveryReadingIsAccountedFor` | |
| `BillingProofs`: `GateJudgesRightly` | `GateIsRight` | |
| `EveryIntervalIsBilledOnce`, `EveryBillIsMarginal`, `RevisionsGoTheirWay` | `EachReadingBilledOnce`, `BillIsMarginal`, `RevisionMovesBillsItsWay` | |

What has to be added to each property, and why:

* *Runs and bills* (`RunsInv`, `BillsInv`). That rows stay apart needs the ids:
  ids at or above `nextRun` are unused, a process that writes holds one below,
  and no two processes hold the same; a row inserted and not yet committed is
  empty to everyone else (`InsertedUnseen`). For the bills it
  takes in addition that nobody else has let the run of a working process
  succeed, which is where a lost acknowledgement breaks in.
* *Failed runs, one running row* (`OneChild`, `WritersUnfinished`, `InsertedLast`). Without
  orphans the only process is the child of the running task, so nobody can close
  its row, and the row it has inserted is the newest: its UPDATE sees every
  other running one.
* *Reset* (`ResetInv`). A day and version of the current simulation is
  `Cleared` when the stream has passed its end and the gate has passed it. The
  invariant carries this along: a run past the archive sensor, a run past the
  gate, a process that has compared its pin with the clock, and a row each work
  on something cleared, if they belong to the current simulation; those of an
  earlier one never get that far, as `JobStart` turns them away, and while a
  reset is going on no process is there at all.
* *Reports* (`ReportsInv`). A report is listed under the run id its DAG run holds, so
  the proof follows that id: the child that returned it had it settled
  (`JobsHold`), the DAG holds it from there on and has written its object before it
  reaches the row (`DagHolds`). A second process cannot pull the row away, as a run, once
  settled, is no one's to close (`OwnersApart`); and a reset clears the
  objects before the rows.
* *Ledger* (`LedgerInv`). For the book to be append-only and its entries to
  go forward, a run that commits must be based on a version and a number of readings that
  no committed run exceeds. `BookBacked`: what the book holds is on a drop that is
  there and on readings that are in the archive; `WorkersFollow` and `DagFollows`: the drop
  that the task or its child has read is at least as new as the book's
  last. Between the read of the archive and the commit nobody else commits, as the
  child is the only process (`OneChild`); an orphan breaks exactly this.
* *Serving* (`ServingInv`). An answer is read in several statements, so the invariant says,
  for each read still to come (`At`), what those before it have established and what
  of it is still true now: settlements seen as current are in the book or older
  than its last (`SettledKnown`, `BatchKnown`, `BillsKnown`), a date let through was not in
  the future under the anchor read (`AnchorKnown`, `RangeKnown`). `HistoryInv` ties `during` to
  what the store held since the request began. That the store may move on
  between two reads is then one lemma per read and one per action of the store.
* *Difference* (`SettledIs`, `ComparedIs`). What a settlement has read and what the
  reconciliation compared it with stay facts about the topic while it
  grows. Each reading of the day is settled once and aggregated at most once
  (`SeenOnce`), so that the difference of the two counts is that of two sets of offsets
  (`DifferenceOfSizes`), and whoever is in one alone was late, or not read yet
  (`OnlyInBatch`), or came after the settlement (`OnlyInSpeed`).
* *Tick* (`OverInv`, `RecordInv`). What a tick is about to trigger is over
  like what it has triggered, in its own simulation, which is why a reset at
  any moment does no harm to `TriggeredDaysAreOver`. It does to the record
  (finding 3), so that proof needs specs of the current simulation.
* *Drops* (`DropsInv`). No two publications of one day are under way; each
  writes a version above every complete one (`Fresh`), everything before its
  current step is uploaded (`Uploaded`), and what it revises is still the latest
  complete version (`Revising`). Types need none of this.
* *ingest* (`BookInv`, `KeepInv`). The batch under way is on record in full or
  not at all, later ones not at all; it is counted only by the process that
  recorded it (`Booked`, `Counting`). `Written` says what each step of
  the sink may rely on, the archive before the dead letters before the record.
* *zone_metrics* (`MetricsInv`). Both watermarks are bounded by readings of
  committed batches (`Watermarks`); a reading in an open window is remembered by
  the deduplication or late by now, so its copy is dropped in either case
  (`OpenOnce`); a window that can still change has forgotten nothing of its row
  (`RowInState`), so an upsert never shrinks it; what is remembered is in its
  row (`SeenIsUpserted`), and at the commit so is the batch (`FreshIsUpserted`).
  That the watermark, a maximum, exists and bounds the set is `MaxIsGreatest`, a lemma
  that gets by without induction: among the sets of elements above each element
  of a finite set there is a minimal one, and it is empty.

* *Validators* (`Judged`). A frame is judged column by column over all rows, a
  record field by field until the first fault. `VerdictsAgree` shows for any table of
  fields and any batch that the fold over the columns leaves each row with the first
  fault of its own (`ColumnsUnroll`, `FirstFaultDecides`), whatever its neighbours are, as
  long as no value of it raises; `RaisesWithoutVerdict` that a batch raises exactly for a
  message without a verdict, `MadeHasVerdict` that no meter sends one; `MadeVerdict` that each fault the simulator injects is
  rejected for the reason `EXPECTED_QUARANTINE` names, and a clean reading not at all. `Judged`
  carries the verdicts through ingest and says why it stops when it does.
* *Readings* (`Accounted`, `Ordered`). The property counts what it finds in one
  place after another; `Places` counts per meter and interval over topic, outbox, held back, owed
  and lost, and the sum is 1 exactly for intervals measured. A round moves an
  interval between these places and never copies it (`Balances`, one fact per outcome of a tick,
  summed over the meters by `RoundAccounts`). For the order, whatever a
  meter has sent, what waits in the outbox and what it still owes are one ascending line that
  ends before the present (`InLine`); a late reading is not part of it.
* *Drop versions* (`VersionsInv`, in `BillingProofs`). Every version is either the default drop
  damaged in one of the six ways, or an undamaged one of a schedule like the default: the same tiers, caps and
  fixed charges (`LikeDefault`). `revise` keeps it so: it reads the latest version, damaged or
  not, but refuses a schedule with problems, and of the damaged ones only those whose damage is
  elsewhere are left, with the default schedule (`DamagedSchedule`). One lemma per kind of
  damage then shows the finding it leaves (`DamagedDrop`) and one that nothing else is found in the
  others (`PlainDrop`), for any records picked and any order in which `SetToSeq` lists
  the fleet. The caps have to be the default's: a cap that is no multiple of 30 would not be prorated exactly.
* *Bills* (`BillsInv`, in `BillingProofs`). A bill stays a statement about the readings that
  had come when it was made, since the topic only grows (`BillStays`). What is accepted is
  validated again at settlement, and `RevalidatedIs` shows that exactly the readings that arrived
  intact pass; deduplication leaves one reading per interval (`OneReadingEach`, a bijection
  from offsets to intervals), so that the sum over offsets is the sum over intervals
  (`ReadingsAddUp`, from `SumsMatch`). A bill of blocks is followed turn by turn of the loop in
  `block_energy_charge` (`Turns`): what is left after k blocks is what lies above the cap of
  the k-th, and the lines so far differ from the unit prices by half a cent each. For a revision two such
  loops run side by side, over the same units at rates none of which is lower, or none higher
  (`Dearer`); that rounding and the subsidy, a share of less than the whole, keep the order is
  `DearerBill`.
* *Induction*. The library's theorems of induction take an operator as parameter, which the provers cannot
  instantiate. What folds, flattened and sorted sequences need is proved by
  induction over *sets* of numbers instead (`CountingUp` in `SequenceLemmas`): among
  those for which the claim fails there is a least. This covers recursion whose unfolding
  the prover can see, as in the folds of the community modules.

Only model-checked are the liveness properties (`DagRunEnds`,
`EndedDayTriggeredUnlessStuck`, `PlannedDayIsPublished`, `EveryMessageIsKept`),
as the installed provers handle neither fairness nor `ENABLED`. The `TypeOK` of
`ClockTick` and of `SpeedLayer` are proved and not checked by a run; so are the types of
`MeterToBill`, which `MeterToBillProofs` states itself.

## 5. What is not modelled, and the plan

Not modelled, with the reason in `PROJECT.json` "components": the numerical
models of weather and energy (no state), the dashboard (presentation), object storage and
logging wrappers, scripts and containers (deployment; what they imply for restarts
and resets is in the constants). Within modelled parts: the numbers of the window
metrics, the comparison of reconciliation and the report's page, the progress
listener, the settlement's command line used without the DAG, `reset_drops`,
endpoints of one statement, and the gauges named above.

Done: 1 `Settlement` with `BillLedger`, 2 `ClockTick`, 3 `Drops`,
4 `SpeedLayer`, 5 `Validation`, `Billing`, `DropQuality`, `MeterSimulator` and
their composition `MeterToBill`, 6 `Serving`, 7 `SpeedToBatch`, and the theorems above. The rest:

8. Several partitions of the topic, whose common progress settles a day early.
