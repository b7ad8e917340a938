------------------------------- MODULE ClockTick ------------------------------
(***************************************************************************)
(* The sim_clock_tick DAG: once a real minute it asks which simulated days *)
(* have ended and have not been triggered, triggers daily_settlement for   *)
(* each in a mapped task of its own, and records what it triggered.        *)
(*                                                                         *)
(* Its tasks are never retried (retries=0), one tick runs at a time, and   *)
(* what it knows is split between two stores: the runs Airflow has, which  *)
(* outlive a reset of the simulation, and ops.settlement_triggers, which   *)
(* the reset clears.  A mapped task that finds its run in place is skipped *)
(* (skip_when_already_exists), and a task with a skipped or failed         *)
(* upstream is not run: Airflow's all_success rule.                        *)
(***************************************************************************)
EXTENDS Integers, FiniteSets

CONSTANTS
  NumDays,      \* simulated days 1..NumDays
  MaxSims,      \* bound: simulations, i.e. resets + 1
  Limit,        \* MAX_TRIGGERS_PER_TICK
  MaxFailures,  \* bound: task instances that fail or are killed
  ResetMidTick  \* may a reset come between two tasks of a tick?

ASSUME BoundsAssumption ==
  /\ NumDays \in Nat /\ MaxSims \in Nat \ {0} /\ MaxFailures \in Nat
  /\ Limit \in Nat \ {0}

ASSUME EnvironmentAssumption == ResetMidTick \in BOOLEAN

VARIABLES
  sim,       \* the current simulation
  ended,     \* its days 1..ended are over, the grace included
  dagRuns,   \* runs of daily_settlement in Airflow's metadata database
  recorded,  \* ops.settlement_triggers
  tick,      \* the active run of sim_clock_tick
  failures   \* counts what MaxFailures bounds

vars == <<sim, ended, dagRuns, recorded, tick, failures>>

Days == 1..NumDays
Sims == 1..MaxSims

\* settlement_run_id: one run per day of a simulation.
RunId(s, d) == [sim |-> s, day |-> d]
RunIds == [sim : Sims, day : Days]

\* pending: mapped tasks that have not run; spoiled: one was skipped or failed.
Tick == [active : BOOLEAN, specs : SUBSET RunIds, pending : SUBSET RunIds,
         spoiled : BOOLEAN]
NoTick == [active |-> FALSE, specs |-> {}, pending |-> {}, spoiled |-> FALSE]

Init ==
  /\ sim = 1 /\ ended = 0
  /\ dagRuns = {} /\ recorded = {}
  /\ tick = NoTick
  /\ failures = 0

DayEnds ==
  /\ ended < NumDays
  /\ ended' = ended + 1
  /\ UNCHANGED <<sim, dagRuns, recorded, tick, failures>>

Unrecorded == {d \in 1..ended : RunId(sim, d) \notin recorded}

\* Mutant of DueDates: a day is due while it is still running.
DueDatesEarly ==
  {d \in 1..(ended + 1) : /\ RunId(sim, d) \notin recorded
                          /\ Cardinality({e \in Unrecorded : e <= d}) <= Limit}

\* due_business_dates: the oldest Limit of the days that have ended and are
\* not recorded.
DueDates ==
  {d \in Unrecorded : Cardinality({e \in Unrecorded : e <= d}) <= Limit}

DueSettlements ==
  /\ ~tick.active
  /\ DueDates # {}
  /\ LET specs == {RunId(sim, d) : d \in DueDates}
     IN  tick' = [active |-> TRUE, specs |-> specs, pending |-> specs, spoiled |-> FALSE]
  /\ UNCHANGED <<sim, ended, dagRuns, recorded, failures>>

\* Mapping over an empty list, Airflow skips the trigger and so the record.
NothingDue ==
  /\ ~tick.active
  /\ DueDates = {}
  /\ UNCHANGED vars

\* Mutant of TriggerSettlement: a failed trigger gives up all the others.
TriggerOneOnly(id) ==
  /\ id \in tick.pending
  /\ tick' = [tick EXCEPT !.pending = {}, !.spoiled = TRUE]
  /\ dagRuns' = dagRuns \cup (IF \A other \in tick.pending : other.day <= id.day
                              THEN {id} ELSE {})
  /\ UNCHANGED <<sim, ended, recorded, failures>>

\* TriggerDagRunOperator, one mapped task per day, in any order.
TriggerSettlement(id) ==
  /\ id \in tick.pending
  /\ tick' = [tick EXCEPT !.pending = @ \ {id}, !.spoiled = @ \/ id \in dagRuns]
  /\ dagRuns' = dagRuns \cup {id}
  /\ UNCHANGED <<sim, ended, recorded, failures>>

\* It fails before, or is killed after, it has triggered the run.
TriggerFails(id) ==
  /\ id \in tick.pending
  /\ failures < MaxFailures
  /\ failures' = failures + 1
  /\ tick' = [tick EXCEPT !.pending = @ \ {id}, !.spoiled = TRUE]
  /\ dagRuns' \in {dagRuns, dagRuns \cup {id}}
  /\ UNCHANGED <<sim, ended, recorded>>

\* Mutant of RecordTriggers: it does not wait for the triggers.
RecordAtOnce ==
  /\ tick.active /\ ~tick.spoiled
  /\ recorded' = recorded \cup {RunId(sim, id.day) : id \in tick.specs}
  /\ tick' = NoTick
  /\ UNCHANGED <<sim, ended, dagRuns, failures>>

\* record_triggers reads the clock again: the rows go to the simulation that
\* is current now.
RecordTriggers ==
  /\ tick.active /\ tick.pending = {} /\ ~tick.spoiled
  /\ recorded' = recorded \cup {RunId(sim, id.day) : id \in tick.specs}
  /\ tick' = NoTick
  /\ UNCHANGED <<sim, ended, dagRuns, failures>>

RecordFails ==
  /\ tick.active /\ tick.pending = {} /\ ~tick.spoiled
  /\ failures < MaxFailures
  /\ failures' = failures + 1
  /\ tick' = NoTick
  /\ UNCHANGED <<sim, ended, dagRuns, recorded>>

\* A skipped or failed trigger: record is not run and the tick is over.
RecordNotRun ==
  /\ tick.active /\ tick.pending = {} /\ tick.spoiled
  /\ tick' = NoTick
  /\ UNCHANGED <<sim, ended, dagRuns, recorded, failures>>

\* Airflow is stopped for the reset and resumes the tick where it was: what it
\* was executing has failed (TriggerFails, RecordFails), the rest still runs.
Reset ==
  /\ sim < MaxSims
  /\ ResetMidTick \/ ~tick.active
  /\ sim' = sim + 1 /\ ended' = 0 /\ recorded' = {}
  /\ UNCHANGED <<dagRuns, tick, failures>>

TickStep ==
  \/ DueSettlements \/ NothingDue
  \/ \E id \in RunIds : TriggerSettlement(id)
  \/ RecordTriggers \/ RecordNotRun

Failure == RecordFails \/ \E id \in RunIds : TriggerFails(id)

Next == DayEnds \/ TickStep \/ Failure \/ Reset

Spec == Init /\ [][Next]_vars

\* The schedule starts a tick every minute and Airflow runs its tasks.
FairSpec == Spec /\ WF_vars(TickStep)

-----------------------------------------------------------------------------
(* Properties.                                                             *)

TypeOK ==
  /\ sim \in Sims /\ ended \in 0..NumDays
  /\ dagRuns \subseteq RunIds /\ recorded \subseteq RunIds
  /\ tick \in Tick /\ tick.pending \subseteq tick.specs
  /\ failures \in 0..MaxFailures

Triggered(d) == RunId(sim, d) \in dagRuns

\* Only days that are over have been triggered in the current simulation, and
\* a run never carries the id of a simulation that is still to come.
TriggeredDaysAreOver ==
  \A id \in dagRuns : id.sim <= sim /\ (id.sim = sim => id.day <= ended)

\* A day on record as triggered has its run: "Remember what was triggered,
\* AFTER the trigger succeeded".  A day wrongly on record is never settled.
RecordedWasTriggered == recorded \subseteq dagRuns

\* Days that have been triggered and will be due again at every tick.
Stuck == {d \in 1..ended : Triggered(d) /\ RunId(sim, d) \notin recorded}

\* A day that has ended is triggered whatever tasks fail on the way, as long
\* as fewer than Limit days are triggered but not on record.
EndedDayTriggeredUnlessStuck ==
  \A s \in Sims, d \in Days :
    sim = s /\ d <= ended ~> sim # s \/ Triggered(d) \/ Cardinality(Stuck) >= Limit

\* "Every real minute, settle each simulated day that has ended", and "a failed
\* tick leaves the day to be picked up by the next one".
EndedDayTriggered ==
  \A s \in Sims, d \in Days : sim = s /\ d <= ended ~> sim # s \/ Triggered(d)
=============================================================================
