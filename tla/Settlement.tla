------------------------------ MODULE Settlement ------------------------------
(***************************************************************************)
(* The settlement of simulated days: the daily_settlement DAG, the Spark   *)
(* job it starts as a child process, the tables the job writes, and the    *)
(* reset that starts a new simulation under them.                          *)
(*                                                                         *)
(* Airflow keeps one active DAG run (max_active_runs=1).  Its settle task  *)
(* waits for a child process; the child, not the task, opens the row of    *)
(* ops.settlement_runs and commits the bills.  Everything that can go      *)
(* wrong between the two is here: a killed task, a child that outlives it, *)
(* a retry, an exception before or after the run is opened, a commit whose *)
(* acknowledgement is lost, a reset of the simulation.                     *)
(*                                                                         *)
(* Data: a drop is "good" or "bad" (check_drop, modelled on its own), the  *)
(* archive of a day is the number of distinct valid readings in it, and    *)
(* the figures of a run are the drop version and the readings it billed.   *)
(***************************************************************************)
EXTENDS Integers, Sequences

CONSTANTS
  NumDays,              \* simulated days 1..NumDays
  MaxSims,              \* bound: simulations, i.e. resets + 1
  MaxRuns,              \* bound: rows ever opened in ops.settlement_runs
  MaxVersions,          \* bound: complete versions of one day's drop
  MaxReadings,          \* bound: readings archived for one day
  Procs,                \* slots for settlement processes
  OrphansSurvive,       \* may the child outlive a killed settle task?
  AirflowStopsForReset, \* is Airflow stopped while the simulation is reset?
  BlankRuns,            \* are DAG runs also triggered without a sim_id?
  AckMayBeLost          \* may a commit succeed and still raise in the client?

ASSUME BoundsAssumption ==
  /\ NumDays \in Nat /\ MaxSims \in Nat /\ MaxRuns \in Nat
  /\ MaxVersions \in Nat /\ MaxReadings \in Nat

ASSUME EnvironmentAssumption ==
  /\ OrphansSurvive \in BOOLEAN /\ AirflowStopsForReset \in BOOLEAN
  /\ BlankRuns \in BOOLEAN /\ AckMayBeLost \in BOOLEAN

VARIABLES
  sim,        \* ops.sim_clock: the current simulation
  reset,      \* what a reset in progress has still to clear
  drops,      \* MinIO: per day, the verdicts on its complete drop versions
  archive,    \* MinIO: per day, the readings archived so far
  reached,    \* ops.stream_progress: the ingest query has passed days 1..reached
  dag,        \* the active run of daily_settlement
  job,        \* the settlement processes
  runs,       \* ops.settlement_runs
  nextRun,    \* the sequence behind run_id; TRUNCATE does not restart it
  billed,     \* runs with rows in batch.bills, zone_metrics and zone_daily
  verdicts,   \* ops.quality_gate_results
  reconciled, \* runs with rows in ops.reconciliation
  objects,    \* MinIO: runs with a report under reports/
  reports     \* ops.daily_reports

sources == <<drops, archive, reached>>
airflow == <<dag, job>>
tables  == <<runs, nextRun, billed, verdicts, reconciled, reports>>
vars    == <<sim, reset, sources, airflow, tables, objects>>

Days     == 1..NumDays
Sims     == 1..MaxSims
RunIds   == 1..MaxRuns
Versions == 1..MaxVersions

\* The tasks of the DAG; "record_report" is the second half of report.
Tasks == {"none", "wait_for_drop", "wait_for_archive", "quality_gate",
          "settle", "reconcile", "report", "record_report"}

\* Where a settlement process stands, the last three being how it ended.
\* "inserted" is in the middle of _open_run's transaction.
Pcs     == {"idle", "start", "load", "open", "inserted", "read", "commit",
            "unacked", "ok", "refused", "error"}
Ended   == {"ok", "refused", "error"}
Working == Pcs \ (Ended \cup {"idle"})

\* pin = 0 stands for a blank sim_id.
DagRun == [task : Tasks, day : Nat, pin : Nat, version : Nat, run : Nat,
           attempt : Nat, child : SUBSET Procs]
Job    == [pc : Pcs, day : Nat, pin : Nat, sim : Nat, version : Nat,
           run : Nat, readings : Nat]
Row    == [status : {"absent", "running", "succeeded", "failed"},
           sim : Nat, day : Nat, version : Nat, readings : Nat]

NoDag == [task |-> "none", day |-> 0, pin |-> 0, version |-> 0, run |-> 0,
          attempt |-> 0, child |-> {}]
NoJob == [pc |-> "idle", day |-> 0, pin |-> 0, sim |-> 0, version |-> 0,
          run |-> 0, readings |-> 0]
NoRow == [status |-> "absent", sim |-> 0, day |-> 0, version |-> 0,
          readings |-> 0]

Init ==
  /\ sim = 1 /\ reset = "idle"
  /\ drops = [d \in Days |-> <<>>]
  /\ archive = [d \in Days |-> 0]
  /\ reached = 0
  /\ dag = NoDag
  /\ job = [p \in Procs |-> NoJob]
  /\ runs = [r \in RunIds |-> NoRow]
  /\ nextRun = 1
  /\ billed = {} /\ verdicts = {} /\ reconciled = {}
  /\ objects = {} /\ reports = {}

\* The producers and the speed layer are always stopped for a reset; Airflow
\* is when the reset goes through sim-reset.
SourcesUp == reset = "idle"
AirflowUp == reset = "idle" \/ ~AirflowStopsForReset

-----------------------------------------------------------------------------
(* What settlement reads: drops and the archive, written by others.        *)

PublishDrop(d, verdict) ==
  /\ SourcesUp
  /\ Len(drops[d]) < MaxVersions
  /\ drops' = [drops EXCEPT ![d] = Append(@, verdict)]
  /\ UNCHANGED <<sim, reset, archive, reached, airflow, tables, objects>>

\* Any day: late readings and backfills arrive after the stream passed it.
ArchiveReading(d) ==
  /\ SourcesUp
  /\ archive[d] < MaxReadings
  /\ archive' = [archive EXCEPT ![d] = @ + 1]
  /\ UNCHANGED <<sim, reset, drops, reached, airflow, tables, objects>>

StreamPassesDay ==
  /\ SourcesUp
  /\ reached < NumDays
  /\ reached' = reached + 1
  /\ UNCHANGED <<sim, reset, drops, archive, airflow, tables, objects>>

Sources ==
  \/ \E d \in Days, verdict \in {"good", "bad"} : PublishDrop(d, verdict)
  \/ \E d \in Days : ArchiveReading(d)
  \/ StreamPassesDay

-----------------------------------------------------------------------------
(* The DAG.                                                                *)

\* Mutant of PinAccepted: the simulation a run was triggered for is ignored.
PinIgnored(pin, current) == TRUE

\* check_simulation: blank means whichever simulation is current.
PinAccepted(pin, current) == pin = 0 \/ pin = current

LatestComplete(d) == Len(drops[d])

DropGood(d, v) == v \in 1..Len(drops[d]) /\ drops[d][v] = "good"

Proceed(task) == [dag EXCEPT !.task = task, !.attempt = 1, !.child = {}]

\* Mutant of AttemptFailed: attempts are not counted.
RetriedForever ==
  IF dag.task \in {"settle", "reconcile", "report", "record_report"}
  THEN [dag EXCEPT !.child = {}]
  ELSE NoDag

\* default_args retries=1: the second failure of a task ends the DAG run.
\* A retried report starts over from its first half.
AttemptFailed ==
  IF dag.task \in {"settle", "reconcile", "report", "record_report"} /\ dag.attempt = 1
  THEN [dag EXCEPT !.task = IF @ = "record_report" THEN "report" ELSE @,
                   !.attempt = 2, !.child = {}]
  ELSE NoDag

\* A run may have been queued since an earlier simulation, so any pin up to
\* the current one; scripts/settle.py and the clock tick always pin.
TriggerRun(d, pin) ==
  /\ AirflowUp
  /\ dag.task = "none"
  /\ pin \in (IF BlankRuns THEN 0 ELSE 1)..sim
  /\ dag' = [NoDag EXCEPT !.task = "wait_for_drop", !.day = d, !.pin = pin,
                          !.attempt = 1]
  /\ UNCHANGED <<sim, reset, sources, job, tables, objects>>

WaitForDrop ==
  /\ AirflowUp
  /\ dag.task = "wait_for_drop"
  /\ LatestComplete(dag.day) > 0
  /\ dag' = Proceed("wait_for_archive")
  /\ UNCHANGED <<sim, reset, sources, job, tables, objects>>

WaitForArchive ==
  /\ AirflowUp
  /\ dag.task = "wait_for_archive"
  /\ dag.day <= reached
  /\ dag' = Proceed("quality_gate")
  /\ UNCHANGED <<sim, reset, sources, job, tables, objects>>

SensorTimesOut ==
  /\ AirflowUp
  /\ dag.task \in {"wait_for_drop", "wait_for_archive"}
  /\ dag' = NoDag
  /\ UNCHANGED <<sim, reset, sources, job, tables, objects>>

\* The verdict is recorded whatever it is; a stale run records nothing.
QualityGate ==
  /\ AirflowUp
  /\ dag.task = "quality_gate"
  /\ LET v == LatestComplete(dag.day) IN
     IF PinAccepted(dag.pin, sim)
     THEN /\ verdicts' = verdicts \cup
               {[sim |-> sim, day |-> dag.day, version |-> v,
                 passed |-> DropGood(dag.day, v)]}
          /\ dag' = IF DropGood(dag.day, v)
                    THEN [Proceed("settle") EXCEPT !.version = v]
                    ELSE NoDag
     ELSE dag' = NoDag /\ UNCHANGED verdicts
  /\ UNCHANGED <<sim, reset, sources, job, runs, nextRun, billed, reconciled,
                 reports, objects>>

\* Mutant of SpawnJob: the job resolves the version itself, after the gate.
SpawnJobOnLatest(p) ==
  /\ AirflowUp
  /\ dag.task = "settle" /\ dag.child = {}
  /\ job[p].pc = "idle"
  /\ dag' = [dag EXCEPT !.child = {p}]
  /\ job' = [job EXCEPT ![p] = [NoJob EXCEPT !.pc = "start", !.day = dag.day,
                     !.pin = dag.pin, !.version = LatestComplete(dag.day)]]
  /\ UNCHANGED <<sim, reset, sources, tables, objects>>

\* run_settlement: Popen.
SpawnJob(p) ==
  /\ AirflowUp
  /\ dag.task = "settle" /\ dag.child = {}
  /\ job[p].pc = "idle"
  /\ dag' = [dag EXCEPT !.child = {p}]
  /\ job' = [job EXCEPT ![p] = [NoJob EXCEPT !.pc = "start", !.day = dag.day,
                                  !.pin = dag.pin, !.version = dag.version]]
  /\ UNCHANGED <<sim, reset, sources, tables, objects>>

\* The child is gone: its exit code decides, a refusal is never retried.
ReadExitCode(p) ==
  /\ AirflowUp
  /\ dag.task = "settle" /\ dag.child = {p}
  /\ job[p].pc \in Ended
  /\ dag' = CASE job[p].pc = "ok"      -> [Proceed("reconcile") EXCEPT !.run = job[p].run]
              [] job[p].pc = "refused" -> NoDag
              [] job[p].pc = "error"   -> AttemptFailed
  /\ job' = [job EXCEPT ![p] = NoJob]
  /\ UNCHANGED <<sim, reset, sources, tables, objects>>

RowExists(r) == r \in RunIds /\ runs[r].status # "absent"

\* A run whose row is gone (truncated by a reset) raises in all three.
Reconcile ==
  /\ AirflowUp
  /\ dag.task = "reconcile"
  /\ IF RowExists(dag.run)
     THEN reconciled' = reconciled \cup {dag.run} /\ dag' = Proceed("report")
     ELSE dag' = AttemptFailed /\ UNCHANGED reconciled
  /\ UNCHANGED <<sim, reset, sources, job, runs, nextRun, billed, verdicts,
                 reports, objects>>

\* Mutant of Report: the row is written before the object it points to.
ReportRowFirst ==
  /\ AirflowUp
  /\ dag.task = "report" /\ RowExists(dag.run)
  /\ reports' = reports \cup {dag.run}
  /\ dag' = [dag EXCEPT !.task = "record_report"]
  /\ UNCHANGED <<sim, reset, sources, job, runs, nextRun, billed, verdicts,
                 reconciled, objects>>

Report ==
  /\ AirflowUp
  /\ dag.task = "report"
  /\ IF RowExists(dag.run)
     THEN /\ objects' = objects \cup {dag.run}
          /\ dag' = [dag EXCEPT !.task = "record_report"]
     ELSE dag' = AttemptFailed /\ UNCHANGED objects
  /\ UNCHANGED <<sim, reset, sources, job, tables>>

RecordReport ==
  /\ AirflowUp
  /\ dag.task = "record_report"
  /\ IF RowExists(dag.run)
     THEN reports' = reports \cup {dag.run} /\ dag' = NoDag
     ELSE dag' = AttemptFailed /\ UNCHANGED reports
  /\ UNCHANGED <<sim, reset, sources, job, runs, nextRun, billed, verdicts,
                 reconciled, objects>>

\* The process of the current task is killed, or the task raises.  With the
\* container its child dies too; the task alone may leave the child behind.
TaskDies ==
  /\ AirflowUp
  /\ dag.task # "none"
  /\ dag' = AttemptFailed
  /\ \/ OrphansSurvive /\ UNCHANGED job
     \/ job' = [p \in Procs |-> IF p \in dag.child THEN NoJob ELSE job[p]]
  /\ UNCHANGED <<sim, reset, sources, tables, objects>>

DagStep ==
  \/ WaitForDrop \/ WaitForArchive \/ SensorTimesOut \/ QualityGate
  \/ \E p \in Procs : SpawnJob(p) \/ ReadExitCode(p)
  \/ Reconcile \/ Report \/ RecordReport

-----------------------------------------------------------------------------
(* The settlement process.                                                 *)

Goto(p, pc) == [job EXCEPT ![p].pc = pc]

\* Mutant of JobStart: the pin is taken for the simulation, unchecked.
JobStartTrustsPin(p) ==
  /\ job[p].pc = "start"
  /\ job' = [job EXCEPT ![p].pc = "load", ![p].sim = job[p].pin]
  /\ UNCHANGED <<sim, reset, sources, dag, tables, objects>>

\* settle(): read the shared clock, refuse a stale simulation.
JobStart(p) ==
  /\ job[p].pc = "start"
  /\ job' = IF PinAccepted(job[p].pin, sim)
            THEN [job EXCEPT ![p].pc = "load", ![p].sim = sim]
            ELSE Goto(p, "refused")
  /\ UNCHANGED <<sim, reset, sources, dag, tables, objects>>

\* The gate, again: the version the DAG's gate chose must still be good.
JobLoadDrop(p) ==
  /\ job[p].pc = "load"
  /\ job' = Goto(p, IF DropGood(job[p].day, job[p].version) THEN "open" ELSE "refused")
  /\ UNCHANGED <<sim, reset, sources, dag, tables, objects>>

\* _open_run is one transaction of two statements.  The INSERT takes the id
\* from the sequence, which no rollback gives back; until the commit nobody
\* else sees the row.
JobInsertRun(p) ==
  /\ job[p].pc = "open"
  /\ nextRun \in RunIds
  /\ nextRun' = nextRun + 1
  /\ job' = [job EXCEPT ![p].pc = "inserted", ![p].run = nextRun]
  /\ UNCHANGED <<sim, reset, sources, dag, runs, billed, verdicts, reconciled,
                 reports, objects>>

\* Mutants of Supersedes: the comparison of run ids is swapped; a run that
\* finished is superseded as well.
SupersedesLater(p, r) ==
  /\ runs[r].status = "running"
  /\ runs[r].sim = job[p].sim /\ runs[r].day = job[p].day
  /\ r > job[p].run

SupersedesAny(p, r) ==
  /\ runs[r].sim = job[p].sim /\ runs[r].day = job[p].day
  /\ r < job[p].run

\* The run to open supersedes what an earlier run of the day left running, of
\* what is committed: a row another transaction has inserted is not seen yet.
Supersedes(p, r) ==
  /\ runs[r].status = "running"
  /\ runs[r].sim = job[p].sim /\ runs[r].day = job[p].day
  /\ r < job[p].run

\* The UPDATE and the commit.  One step: a row that another transaction commits
\* between the two is left alone, as if it had been committed afterwards, and
\* whoever writes a row the UPDATE has locked waits for the commit.
JobOpenRun(p) ==
  /\ job[p].pc = "inserted"
  /\ runs' = [r \in RunIds |->
               IF r = job[p].run
               THEN [NoRow EXCEPT !.status = "running", !.sim = job[p].sim,
                       !.day = job[p].day, !.version = job[p].version]
               ELSE IF Supersedes(p, r) THEN [runs[r] EXCEPT !.status = "failed"]
               ELSE runs[r]]
  /\ job' = Goto(p, "read")
  /\ UNCHANGED <<sim, reset, sources, dag, nextRun, billed, verdicts, reconciled,
                 reports, objects>>

\* Mutant of JobReadArchive: one duplicate too many is removed.
JobReadArchiveOffByOne(p) ==
  /\ job[p].pc = "read"
  /\ job' = [job EXCEPT ![p].pc = "commit", ![p].readings = archive[job[p].day] - 1]
  /\ UNCHANGED <<sim, reset, sources, dag, tables, objects>>

JobReadArchive(p) ==
  /\ job[p].pc = "read"
  /\ job' = [job EXCEPT ![p].pc = "commit", ![p].readings = archive[job[p].day]]
  /\ UNCHANGED <<sim, reset, sources, dag, tables, objects>>

\* Mutant of JobCommit: the status follows in a transaction of its own.
JobCommitBillsFirst(p) ==
  /\ job[p].pc = "commit"
  /\ RowExists(job[p].run)
  /\ billed' = billed \cup {job[p].run}
  /\ job' = Goto(p, "unacked")
  /\ UNCHANGED <<sim, reset, sources, dag, runs, nextRun, verdicts, reconciled,
                 reports, objects>>

\* Mutant of JobCommit: the row is found by its day instead of its id.
JobCommitByDay(p) ==
  /\ job[p].pc = "commit"
  /\ RowExists(job[p].run)
  /\ billed' = billed \cup {job[p].run}
  /\ runs' = [r \in RunIds |-> IF runs[r].sim = job[p].sim /\ runs[r].day = job[p].day
                               THEN [runs[r] EXCEPT !.status = "succeeded",
                                                    !.readings = job[p].readings]
                               ELSE runs[r]]
  /\ job' = Goto(p, "ok")
  /\ UNCHANGED <<sim, reset, sources, dag, nextRun, verdicts, reconciled,
                 reports, objects>>

\* One transaction.  The bills' foreign key refuses a truncated run; the
\* status is set by run_id alone, whatever it was.  Stopping Spark afterwards
\* may raise: the process then fails although its run succeeded.
JobCommit(p) ==
  /\ job[p].pc = "commit"
  /\ RowExists(job[p].run)
  /\ billed' = billed \cup {job[p].run}
  /\ runs' = [runs EXCEPT ![job[p].run].status = "succeeded",
                          ![job[p].run].readings = job[p].readings]
  /\ \E pc \in {"ok", "error"} \cup (IF AckMayBeLost THEN {"unacked"} ELSE {}) :
       job' = Goto(p, pc)
  /\ UNCHANGED <<sim, reset, sources, dag, nextRun, verdicts, reconciled,
                 reports, objects>>

MarkFailed(p) ==
  IF RowExists(job[p].run)
  THEN [runs EXCEPT ![job[p].run].status = "failed"]
  ELSE runs

\* Mutant of JobRaises: the process tries again on the run it has failed.
JobTriesAgain(p) ==
  /\ job[p].pc \in Working
  /\ job' = IF job[p].pc = "commit" THEN job ELSE Goto(p, "error")
  /\ runs' = MarkFailed(p)
  /\ UNCHANGED <<sim, reset, sources, dag, nextRun, billed, verdicts,
                 reconciled, reports, objects>>

\* An exception: _fail_run closes the row, unless that fails as well.  Before
\* _open_run commits there is no row: the transaction is rolled back.
JobRaises(p) ==
  /\ job[p].pc \in Working
  /\ job' = Goto(p, "error")
  /\ runs' \in {runs, MarkFailed(p)}
  /\ UNCHANGED <<sim, reset, sources, dag, nextRun, billed, verdicts,
                 reconciled, reports, objects>>

\* Nobody reads the exit code of an orphan.
OrphanEnds(p) ==
  /\ p \notin dag.child
  /\ job[p].pc \in Ended
  /\ job' = [job EXCEPT ![p] = NoJob]
  /\ UNCHANGED <<sim, reset, sources, dag, tables, objects>>

JobStep(p) ==
  \/ JobStart(p) \/ JobLoadDrop(p) \/ JobInsertRun(p) \/ JobOpenRun(p)
  \/ JobReadArchive(p) \/ JobCommit(p) \/ JobRaises(p) \/ OrphanEnds(p)

-----------------------------------------------------------------------------
(* reset_simulation, in the order of its steps.                            *)

\* With Airflow stopped every process dies; a task that was executing has
\* used an attempt when Airflow resumes the run, one between tasks has not.
ResetClock ==
  /\ reset = "idle"
  /\ sim < MaxSims
  /\ sim' = sim + 1
  /\ reset' = "stores"
  /\ IF AirflowStopsForReset
     THEN /\ job' = [p \in Procs |-> NoJob]
          /\ \/ dag' = AttemptFailed
             \/ dag.child = {} /\ UNCHANGED dag
     ELSE UNCHANGED airflow
  /\ UNCHANGED <<sources, tables, objects>>

ResetStores ==
  /\ reset = "stores"
  /\ reset' = "tables"
  /\ drops' = [d \in Days |-> <<>>]
  /\ archive' = [d \in Days |-> 0]
  /\ objects' = {}
  /\ UNCHANGED <<sim, reached, airflow, tables>>

\* TRUNCATE of SIMULATION_TABLES, without RESTART IDENTITY.  Its lock waits for
\* the transactions that have written a table.
ResetTables ==
  /\ reset = "tables"
  /\ \A p \in Procs : job[p].pc # "inserted"
  /\ reset' = "idle"
  /\ reached' = 0
  /\ runs' = [r \in RunIds |-> NoRow]
  /\ billed' = {} /\ verdicts' = {} /\ reconciled' = {} /\ reports' = {}
  /\ UNCHANGED <<sim, drops, archive, airflow, nextRun, objects>>

ResetStep == ResetStores \/ ResetTables

Next ==
  \/ Sources
  \/ \E d \in Days, pin \in 0..MaxSims : TriggerRun(d, pin)
  \/ DagStep
  \/ TaskDies
  \/ \E p \in Procs : JobStep(p)
  \/ ResetClock \/ ResetStep

Spec == Init /\ [][Next]_vars

\* Airflow schedules its tasks, processes run, and a reset goes through; that
\* tasks die, drops come or an operator triggers anything is never promised.
FairSpec ==
  /\ Spec
  /\ WF_vars(DagStep) /\ WF_vars(ResetStep)
  /\ \A p \in Procs : WF_vars(JobStep(p))

-----------------------------------------------------------------------------
(* Properties.                                                             *)

TypeOK ==
  /\ sim \in Nat /\ reset \in {"idle", "stores", "tables"}
  /\ drops \in [Days -> Seq({"good", "bad"})]
  /\ archive \in [Days -> Nat] /\ reached \in Nat
  /\ dag \in DagRun /\ job \in [Procs -> Job]
  /\ dag.task # "none" => dag.day \in Days
  /\ \A p \in Procs : job[p].pc # "idle" => job[p].day \in Days
  /\ runs \in [RunIds -> Row] /\ nextRun \in Nat
  /\ billed \subseteq RunIds /\ reconciled \subseteq RunIds
  /\ objects \subseteq RunIds /\ reports \subseteq RunIds
  /\ verdicts \subseteq [sim : Nat, day : Nat, version : Nat, passed : BOOLEAN]

Succeeded == {r \in RunIds : runs[r].status = "succeeded"}

\* Bills and zone figures exist for exactly the runs that succeeded: no run
\* that raised, was killed or was abandoned by a later run has left any, and
\* none that succeeded lacks them (the one transaction of _settle).
BilledIffSucceeded == billed = Succeeded

\* A run that succeeded is never changed again, whatever process dies or
\* overtakes it, until the tables are cleared for a new simulation: a day
\* that was served settled keeps its figures until a newer run replaces them.
SettledIsFinal ==
  [][ResetTables \/ \A r \in Succeeded : runs'[r] = runs[r]]_vars

\* A day has at most one run that is still running, whenever earlier ones died
\* without closing theirs (the second statement of _open_run).  It takes that no
\* process outlives its task: of two that overlap in _open_run neither UPDATE
\* need see the other's row.
OneRunningRowPerDay ==
  \A r, s \in RunIds :
    /\ runs[r].status = "running" /\ runs[s].status = "running"
    /\ runs[r].sim = runs[s].sim /\ runs[r].day = runs[s].day
    => r = s

\* A run recorded as failed is over: it never succeeds afterwards.  _open_run
\* relies on it when it records the runs it finds running as abandoned.
FailedRunsStayFailed ==
  [][\A r \in RunIds : runs[r].status = "failed" => runs'[r].status # "succeeded"]_vars

\* Once a reset is through, every run on record belongs to the simulation
\* that it started: no run left over from an earlier one writes into it.
LeftoverRunWritesNothing ==
  reset = "idle" =>
    \A r \in RunIds : runs[r].status # "absent" => runs[r].sim = sim

\* No day is settled before the stream has passed its end, in the simulation
\* the run is recorded under: a run resumed after a reset does not settle the
\* new simulation's half-finished day.
SettledDayIsOver ==
  reset = "idle" => \A r \in RunIds : runs[r].day <= reached

\* Every run is backed by a passing verdict of the gate on the very drop
\* version it bills, recorded in the same simulation.
VerdictBacksRun ==
  reset = "idle" =>
    \A r \in RunIds : runs[r].status # "absent" =>
      [sim |-> runs[r].sim, day |-> runs[r].day, version |-> runs[r].version,
       passed |-> TRUE] \in verdicts

\* A report that is listed can be fetched, and it covers a run that succeeded
\* and had been reconciled: the tasks' order survives kills, retries and resets.
ReportsAreComplete ==
  reset = "idle" => reports \subseteq objects \cap reconciled \cap Succeeded

\* A DAG run gives the single active slot up again, so the queued days behind
\* it are not blocked: retries are bounded and every wait times out.
DagRunEnds == dag.task # "none" ~> dag.task = "none"
=============================================================================
