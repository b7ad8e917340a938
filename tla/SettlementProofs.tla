--------------------------- MODULE SettlementProofs ---------------------------
(***************************************************************************)
(* Theorems about Settlement, for every number of days, runs, simulations, *)
(* drop versions, readings and processes, and about what the readers of    *)
(* settled figures may rely on: every report that is listed is there, and  *)
(* settlement implements BillLedger.                                       *)
(***************************************************************************)
EXTENDS SettlementLedger, TLAPS

-----------------------------------------------------------------------------
(* Type correctness.                                                       *)

\* The last conjuncts of TypeOK: whatever is active settles a day there is.
DagHasDay == dag.task # "none" => dag.day \in Days
JobsHaveDays == \A p \in Procs : job[p].pc # "idle" => job[p].day \in Days

\* A DAG run that moves on, loses an attempt or ends is still a DAG run, of
\* the same day if it has one.
LEMMA DagRunTypes ==
  ASSUME dag \in DagRun
  PROVE  /\ \A task \in Tasks : Proceed(task) \in DagRun /\ Proceed(task).day = dag.day
         /\ AttemptFailed \in DagRun
         /\ AttemptFailed.task # "none" => dag.task # "none" /\ AttemptFailed.day = dag.day
         /\ NoDag \in DagRun /\ NoDag.task = "none"
<1>1. NoDag \in DagRun /\ NoDag.task = "none"
  BY DEF NoDag, DagRun, Tasks
<1>2. \A task \in Tasks : Proceed(task) \in DagRun /\ Proceed(task).day = dag.day
  BY DEF Proceed, DagRun
<1>3. AttemptFailed \in DagRun
  BY <1>1 DEF AttemptFailed, DagRun, Tasks
<1>4. AttemptFailed.task # "none" => dag.task # "none" /\ AttemptFailed.day = dag.day
  BY <1>1 DEF AttemptFailed, DagRun
<1>5. QED
  BY <1>1, <1>2, <1>3, <1>4

\* A process that moves to another program counter is still a process, of the
\* same day.
LEMMA GotoType ==
  ASSUME job \in [Procs -> Job], NEW p \in Procs, NEW pc \in Pcs
  PROVE  /\ Goto(p, pc) \in [Procs -> Job]
         /\ \A q \in Procs : Goto(p, pc)[q].day = job[q].day
         /\ \A q \in Procs : q # p => Goto(p, pc)[q] = job[q]
BY DEF Goto, Job

LEMMA NoJobType == NoJob \in Job /\ NoJob.pc = "idle"
BY DEF NoJob, Job, Pcs

LEMMA NoRowType == NoRow \in Row /\ NoRow.status = "absent"
BY DEF NoRow, Row

LEMMA MarkFailedType ==
  ASSUME runs \in [RunIds -> Row], NEW p \in Procs
  PROVE  MarkFailed(p) \in [RunIds -> Row]
BY DEF MarkFailed, RowExists, Row

LEMMA InitTypes == Init => TypeOK
<1> SUFFICES ASSUME Init PROVE TypeOK
  OBVIOUS
<1>1. drops \in [Days -> Seq({"good", "bad"})]
  BY DEF Init
<1>2. dag \in DagRun /\ dag.task = "none"
  BY DEF Init, NoDag, DagRun, Tasks
<1>3. job \in [Procs -> Job] /\ runs \in [RunIds -> Row]
  BY NoJobType, NoRowType DEF Init
<1>4. \A p \in Procs : job[p].pc = "idle"
  BY NoJobType DEF Init
<1>5. QED
  BY <1>1, <1>2, <1>3, <1>4 DEF Init, TypeOK

LEMMA SourcesTypes == TypeOK /\ Sources => TypeOK'
<1> SUFFICES ASSUME TypeOK, Sources PROVE TypeOK'
  OBVIOUS
<1> USE DEF airflow, tables
<1>1. ASSUME NEW d \in Days, NEW verdict \in {"good", "bad"}, PublishDrop(d, verdict)
      PROVE  TypeOK'
  <2>1. drops' \in [Days -> Seq({"good", "bad"})]
    BY <1>1 DEF PublishDrop, TypeOK
  <2>2. QED
    BY <1>1, <2>1 DEF PublishDrop, TypeOK
<1>2. ASSUME NEW d \in Days, ArchiveReading(d) PROVE TypeOK'
  BY <1>2 DEF ArchiveReading, TypeOK
<1>3. CASE StreamPassesDay
  BY <1>3 DEF StreamPassesDay, TypeOK
<1>4. QED
  BY <1>1, <1>2, <1>3 DEF Sources

LEMMA TriggerTypes ==
  ASSUME TypeOK, NEW d \in Days, NEW pin \in 0..MaxSims, TriggerRun(d, pin)
  PROVE  TypeOK'
<1>1. d \in Nat /\ pin \in Nat /\ NoDag \in DagRun
  BY DagRunTypes DEF Days, TypeOK
<1>2. dag' \in DagRun /\ dag'.day = d
  BY <1>1 DEF TriggerRun, DagRun, Tasks
<1>3. QED
  BY <1>2 DEF TriggerRun, TypeOK, sources, tables

LEMMA DagTypes == TypeOK /\ DagStep => TypeOK'
<1> SUFFICES ASSUME TypeOK, DagStep PROVE TypeOK'
  OBVIOUS
<1>t. /\ dag \in DagRun
      /\ \A task \in Tasks : Proceed(task) \in DagRun /\ Proceed(task).day = dag.day
      /\ AttemptFailed \in DagRun /\ NoDag \in DagRun
  BY DagRunTypes DEF TypeOK
<1>d. /\ dag.task # "none" => dag.day \in Days
      /\ AttemptFailed.task # "none" => AttemptFailed.day \in Days
      /\ NoDag.task = "none"
  BY DagRunTypes DEF TypeOK
<1> USE DEF sources, tables
<1>1. CASE WaitForDrop
  BY <1>1, <1>t, <1>d DEF WaitForDrop, TypeOK, Tasks
<1>2. CASE WaitForArchive
  BY <1>2, <1>t, <1>d DEF WaitForArchive, TypeOK, Tasks
<1>3. CASE SensorTimesOut
  BY <1>3, <1>t, <1>d DEF SensorTimesOut, TypeOK
<1>4. CASE QualityGate
  <2> DEFINE v == LatestComplete(dag.day)
  <2>1. dag.day \in Days /\ dag.day \in Nat /\ dag.task # "none"
    BY <1>4, <1>d DEF QualityGate, Days
  <2>2. v \in Nat
    BY <2>1 DEF TypeOK, LatestComplete
  <2>3. DropGood(dag.day, v) \in BOOLEAN
    BY DEF DropGood
  <2>4. /\ [Proceed("settle") EXCEPT !.version = v] \in DagRun
        /\ [Proceed("settle") EXCEPT !.version = v].day = dag.day
    <3>1. Proceed("settle") \in DagRun /\ Proceed("settle").day = dag.day
      BY <1>t DEF Tasks
    <3>2. QED
      BY <2>2, <3>1 DEF DagRun
  <2>5. dag' \in DagRun /\ (dag'.task # "none" => dag'.day \in Days)
    BY <1>4, <1>t, <1>d, <2>1, <2>4 DEF QualityGate
  <2>6. verdicts' \subseteq [sim : Nat, day : Nat, version : Nat, passed : BOOLEAN]
    BY <1>4, <2>1, <2>2, <2>3 DEF QualityGate, TypeOK
  <2>7. QED
    BY <1>4, <2>5, <2>6 DEF QualityGate, TypeOK
<1>5. ASSUME NEW p \in Procs, SpawnJob(p) PROVE TypeOK'
  <2>1. dag' \in DagRun /\ dag'.day = dag.day /\ dag.day \in Days
    BY <1>5, <1>t, <1>d DEF SpawnJob, DagRun
  <2>2. job' \in [Procs -> Job] /\ job'[p].day = dag.day
    BY <1>5, <1>t, NoJobType DEF SpawnJob, DagRun, Job, Pcs, TypeOK, NoJob
  <2>3. \A q \in Procs : q # p => job'[q] = job[q]
    BY <1>5 DEF SpawnJob, TypeOK
  <2>4. JobsHaveDays'
    BY <2>1, <2>2, <2>3 DEF TypeOK, JobsHaveDays
  <2>5. QED
    BY <1>5, <2>1, <2>2, <2>4 DEF SpawnJob, TypeOK, JobsHaveDays
<1>6. ASSUME NEW p \in Procs, ReadExitCode(p) PROVE TypeOK'
  <2>1. job[p].run \in Nat /\ Proceed("reconcile") \in DagRun
    BY <1>t DEF TypeOK, Job, Tasks
  <2>2. /\ [Proceed("reconcile") EXCEPT !.run = job[p].run] \in DagRun
        /\ [Proceed("reconcile") EXCEPT !.run = job[p].run].day = dag.day
    BY <2>1 DEF DagRun, Proceed
  <2>3. dag' \in DagRun /\ DagHasDay'
    BY <1>6, <1>t, <1>d, <2>2 DEF ReadExitCode, Ended, DagHasDay
  <2>4. job' \in [Procs -> Job] /\ JobsHaveDays'
    BY <1>6, NoJobType DEF ReadExitCode, TypeOK, JobsHaveDays
  <2>5. QED
    BY <1>6, <2>3, <2>4 DEF ReadExitCode, TypeOK, DagHasDay, JobsHaveDays
<1>7. CASE Reconcile
  BY <1>7, <1>t, <1>d DEF Reconcile, RowExists, TypeOK, Tasks
<1>8. CASE Report
  <2>1. dag' \in DagRun /\ DagHasDay'
    BY <1>8, <1>t, <1>d DEF Report, DagRun, Tasks, DagHasDay
  <2>2. objects' \subseteq RunIds
    BY <1>8 DEF Report, RowExists, TypeOK
  <2>3. QED
    BY <1>8, <2>1, <2>2 DEF Report, TypeOK, DagHasDay
<1>9. CASE RecordReport
  BY <1>9, <1>t, <1>d DEF RecordReport, RowExists, TypeOK
<1>10. QED
  BY <1>1, <1>2, <1>3, <1>4, <1>5, <1>6, <1>7, <1>8, <1>9 DEF DagStep

LEMMA TaskDiesTypes == TypeOK /\ TaskDies => TypeOK'
<1> SUFFICES ASSUME TypeOK, TaskDies PROVE TypeOK'
  OBVIOUS
<1>1. dag' \in DagRun /\ DagHasDay'
  BY DagRunTypes DEF TaskDies, TypeOK, DagHasDay
<1>2. job' \in [Procs -> Job] /\ JobsHaveDays'
  BY NoJobType DEF TaskDies, TypeOK, JobsHaveDays
<1>3. QED
  BY <1>1, <1>2 DEF TaskDies, TypeOK, DagHasDay, JobsHaveDays, sources, tables

LEMMA JobTypes == ASSUME TypeOK, NEW p \in Procs, JobStep(p) PROVE TypeOK'
<1>t. job \in [Procs -> Job] /\ runs \in [RunIds -> Row]
  BY DEF TypeOK
<1>d. job[p].pc # "idle" => job[p].day \in Days
  BY DEF TypeOK
<1>g. \A pc \in Pcs : /\ Goto(p, pc) \in [Procs -> Job]
                      /\ \A q \in Procs : Goto(p, pc)[q].day = job[q].day
                      /\ \A q \in Procs : q # p => Goto(p, pc)[q] = job[q]
  BY <1>t, GotoType
<1>h. ASSUME \E pc \in Pcs : job' = Goto(p, pc), job[p].pc # "idle"
      PROVE  job' \in [Procs -> Job] /\ JobsHaveDays'
  BY ZenonT(30), <1>g, <1>h, <1>d DEF JobsHaveDays, TypeOK
<1> USE DEF sources, tables
<1>1. CASE JobStart(p)
  <2>1. job' \in [Procs -> Job] /\ job'[p].day = job[p].day
    <3>1. CASE PinAccepted(job[p].pin, sim)
      <4>1. sim \in Nat
        BY DEF TypeOK
      <4>2. job' = [job EXCEPT ![p].pc = "load", ![p].sim = sim]
        BY <1>1, <3>1 DEF JobStart
      <4>3. QED
        BY ZenonT(30), <1>t, <4>1, <4>2 DEF Job, Pcs
    <3>2. CASE ~PinAccepted(job[p].pin, sim)
      BY <1>1, <1>g, <3>2 DEF JobStart, Pcs
    <3>3. QED
      BY <3>1, <3>2
  <2>2. \A q \in Procs : q # p => job'[q] = job[q]
    BY <1>1, <1>g DEF JobStart, Pcs, TypeOK
  <2>3. JobsHaveDays'
    BY <1>1, <1>d, <2>1, <2>2 DEF JobsHaveDays, TypeOK, JobStart
  <2>4. QED
    BY <1>1, <2>1, <2>3 DEF JobStart, TypeOK, JobsHaveDays
<1>2. CASE JobLoadDrop(p)
  <2>1. job' \in [Procs -> Job] /\ JobsHaveDays'
    BY <1>2, <1>h DEF JobLoadDrop, Pcs
  <2>2. QED
    BY <1>2, <2>1 DEF JobLoadDrop, TypeOK, JobsHaveDays
<1>3. CASE JobInsertRun(p)
  <2>1. job' \in [Procs -> Job] /\ job'[p].day = job[p].day
    <3>1. nextRun \in Nat
      BY DEF TypeOK
    <3>2. job' = [job EXCEPT ![p].pc = "inserted", ![p].run = nextRun]
      BY <1>3 DEF JobInsertRun
    <3> QED
      BY ZenonT(30), <1>t, <3>1, <3>2 DEF Job, Pcs
  <2>2. \A q \in Procs : q # p => job'[q] = job[q]
    BY <1>3, <1>t DEF JobInsertRun
  <2>3. JobsHaveDays'
    BY <1>3, <1>d, <2>1, <2>2 DEF JobsHaveDays, TypeOK, JobInsertRun
  <2>4. nextRun' \in Nat
    BY <1>3 DEF JobInsertRun, TypeOK
  <2>5. QED
    BY <1>3, <2>1, <2>3, <2>4 DEF JobInsertRun, TypeOK, JobsHaveDays
<1>8. CASE JobOpenRun(p)
  <2>1. job' \in [Procs -> Job] /\ JobsHaveDays'
    BY <1>8, <1>h DEF JobOpenRun, Pcs
  <2>2. runs' \in [RunIds -> Row]
    <3>1. [NoRow EXCEPT !.status = "running", !.sim = job[p].sim,
             !.day = job[p].day, !.version = job[p].version] \in Row
      BY <1>t DEF NoRow, Row, Job
    <3>2. \A r \in RunIds : [runs[r] EXCEPT !.status = "failed"] \in Row
      BY <1>t DEF Row
    <3>3. QED
      BY <1>8, <1>t, <3>1, <3>2 DEF JobOpenRun
  <2>3. QED
    BY <1>8, <2>1, <2>2 DEF JobOpenRun, TypeOK, JobsHaveDays
<1>4. CASE JobReadArchive(p)
  <2>1. archive[job[p].day] \in Nat
    BY <1>4, <1>d DEF JobReadArchive, TypeOK
  <2>2. job' \in [Procs -> Job] /\ job'[p].day = job[p].day
    BY ZenonT(30), <1>4, <1>t, <2>1 DEF JobReadArchive, Job, Pcs
  <2>3. \A q \in Procs : q # p => job'[q] = job[q]
    BY <1>4, <1>t DEF JobReadArchive
  <2>4. JobsHaveDays'
    BY <1>4, <1>d, <2>2, <2>3 DEF JobsHaveDays, TypeOK, JobReadArchive
  <2>5. QED
    BY <1>4, <2>2, <2>4 DEF JobReadArchive, TypeOK, JobsHaveDays
<1>5. CASE JobCommit(p)
  <2>1. job[p].run \in RunIds /\ job[p].readings \in Nat
    BY <1>5, <1>t DEF JobCommit, RowExists, Job
  <2>2. runs' \in [RunIds -> Row]
    BY <1>5, <1>t, <2>1 DEF JobCommit, Row
  <2>3. job' \in [Procs -> Job] /\ JobsHaveDays'
    BY <1>5, <1>h DEF JobCommit, Pcs
  <2>4. QED
    BY <1>5, <2>1, <2>2, <2>3 DEF JobCommit, TypeOK, JobsHaveDays
<1>6. CASE JobRaises(p)
  <2>1. job' \in [Procs -> Job] /\ JobsHaveDays'
    BY <1>6, <1>h DEF JobRaises, Pcs, Working
  <2>2. runs' \in [RunIds -> Row]
    BY <1>6, <1>t, MarkFailedType DEF JobRaises
  <2>3. QED
    BY <1>6, <2>1, <2>2 DEF JobRaises, TypeOK, JobsHaveDays
<1>7. CASE OrphanEnds(p)
  BY <1>7, NoJobType DEF OrphanEnds, TypeOK
<1>9. QED
  BY <1>1, <1>2, <1>3, <1>4, <1>5, <1>6, <1>7, <1>8 DEF JobStep

LEMMA ResetTypes == TypeOK /\ (ResetClock \/ ResetStep) => TypeOK'
<1> SUFFICES ASSUME TypeOK, ResetClock \/ ResetStep PROVE TypeOK'
  OBVIOUS
<1> USE DEF sources, tables, airflow
<1>1. CASE ResetClock
  <2>1. dag' \in DagRun /\ DagHasDay'
    BY <1>1, DagRunTypes DEF ResetClock, TypeOK, DagHasDay
  <2>2. job' \in [Procs -> Job] /\ JobsHaveDays'
    BY <1>1, NoJobType DEF ResetClock, TypeOK, JobsHaveDays
  <2>3. QED
    BY <1>1, <2>1, <2>2 DEF ResetClock, TypeOK, DagHasDay, JobsHaveDays
<1>2. CASE ResetStores
  <2>1. drops' \in [Days -> Seq({"good", "bad"})]
    BY <1>2 DEF ResetStores
  <2>2. QED
    BY <1>2, <2>1 DEF ResetStores, TypeOK
<1>3. CASE ResetTables
  BY <1>3, NoRowType DEF ResetTables, TypeOK
<1>4. QED
  BY <1>1, <1>2, <1>3 DEF ResetStep

LEMMA NextTypes == TypeOK /\ [Next]_vars => TypeOK'
<1> SUFFICES ASSUME TypeOK, [Next]_vars PROVE TypeOK'
  OBVIOUS
<1>1. CASE UNCHANGED vars
  BY <1>1 DEF vars, sources, airflow, tables, TypeOK
<1>2. CASE Next
  BY <1>2, SourcesTypes, TriggerTypes, DagTypes, TaskDiesTypes, JobTypes, ResetTypes
     DEF Next
<1>3. QED
  BY <1>1, <1>2

\* Every variable keeps its type, and whatever is active settles a day that
\* exists, whichever processes die and whenever the simulation is reset.
THEOREM TypeCorrect == Spec => []TypeOK
<1>1. Init => TypeOK
  BY InitTypes
<1>2. TypeOK /\ [Next]_vars => TypeOK'
  BY NextTypes
<1>3. QED
  BY <1>1, <1>2, PTL DEF Spec

-----------------------------------------------------------------------------
(***************************************************************************)
(* The rows of ops.settlement_runs and the bills.                          *)
(*                                                                         *)
(* The invariant behind all of it: a process that has inserted its run     *)
(* holds a run_id of its own, given out before and not finished by         *)
(* anybody; until it commits the insertion the row is not there.           *)
(***************************************************************************)

\* p holds a run, open or about to be, that it may still commit.
Writes(p) == job[p].pc \in {"inserted", "read", "commit"}

\* Ids that the sequence has not given out have no row.
FreshIds == \A r \in RunIds : r >= nextRun => runs[r].status = "absent"

\* A process holds no run before it opens one.
UnopenedHoldNone ==
  \A p \in Procs : job[p].pc \in {"start", "load", "open"} => job[p].run = 0

WritersHoldIds ==
  \A p \in Procs : Writes(p) => job[p].run \in RunIds /\ job[p].run < nextRun

WritersApart ==
  \A p, q \in Procs : Writes(p) /\ Writes(q) /\ p # q => job[p].run # job[q].run

InsertedUnseen ==
  \A p \in Procs : job[p].pc = "inserted" => runs[job[p].run].status = "absent"

RunsInv ==
  /\ FreshIds /\ UnopenedHoldNone /\ WritersHoldIds /\ WritersApart
  /\ InsertedUnseen

\* With commits that are always acknowledged: the bills match, and nobody else
\* has finished the run that a process is still working on.
NoneUnacked == \A p \in Procs : job[p].pc # "unacked"

WritersUnsettled ==
  \A p \in Procs : Writes(p) => runs[job[p].run].status # "succeeded"

BillsInv == NoneUnacked /\ WritersUnsettled /\ BilledIffSucceeded

-----------------------------------------------------------------------------
(* Most steps leave the rows alone and do not make a writer of a process.  *)

\* What a process may do in a step that writes no row.
QuietMove(p) ==
  \/ job'[p] = job[p]
  \/ job'[p].pc \in Ended \cup {"idle"}
  \/ job'[p].pc \in {"start", "load", "open"} /\ job'[p].run = 0
  \/ job[p].pc = "read" /\ job'[p].pc = "commit" /\ job'[p].run = job[p].run

Quiet ==
  /\ UNCHANGED <<runs, nextRun, billed>>
  /\ \A p \in Procs : QuietMove(p)

LEMMA QuietKeepsRuns == RunsInv /\ Quiet => RunsInv'
<1> SUFFICES ASSUME RunsInv, Quiet PROVE RunsInv'
  OBVIOUS
<1> USE DEF RunsInv, Quiet
<1>1. \A p \in Procs : Writes(p)' => Writes(p) /\ job'[p].run = job[p].run
  BY DEF Writes, QuietMove, Ended
<1>2. FreshIds' /\ InsertedUnseen'
  BY DEF FreshIds, InsertedUnseen, QuietMove, Ended
<1>3. UnopenedHoldNone'
  BY DEF UnopenedHoldNone, QuietMove, Ended
<1>4. WritersHoldIds' /\ WritersApart'
  BY <1>1 DEF WritersHoldIds, WritersApart
<1>5. QED
  BY <1>2, <1>3, <1>4

LEMMA QuietKeepsBills == BillsInv /\ Quiet => BillsInv'
<1> SUFFICES ASSUME BillsInv, Quiet PROVE BillsInv'
  OBVIOUS
<1> USE DEF BillsInv, Quiet
<1>1. \A p \in Procs : Writes(p)' => Writes(p) /\ job'[p].run = job[p].run
  BY DEF Writes, QuietMove, Ended
<1>2. NoneUnacked'
  BY DEF NoneUnacked, QuietMove, Ended
<1>3. WritersUnsettled'
  BY <1>1 DEF WritersUnsettled
<1>4. BilledIffSucceeded'
  BY DEF BilledIffSucceeded, Succeeded
<1>5. QED
  BY <1>2, <1>3, <1>4

\* The steps that write no row of ops.settlement_runs.
QuietAction ==
  \/ Sources
  \/ \E d \in Days, pin \in 0..MaxSims : TriggerRun(d, pin)
  \/ DagStep \/ TaskDies
  \/ \E p \in Procs : \/ JobStart(p) \/ JobLoadDrop(p) \/ JobReadArchive(p)
                      \/ OrphanEnds(p)
  \/ ResetClock \/ ResetStores
  \/ UNCHANGED vars

LEMMA NextIsQuietOr ==
  [Next]_vars => \/ QuietAction
                 \/ \E p \in Procs : \/ JobInsertRun(p) \/ JobOpenRun(p)
                                     \/ JobCommit(p) \/ JobRaises(p)
                 \/ ResetTables
BY DEF Next, QuietAction, JobStep, ResetStep

LEMMA QuietActionsAreQuiet == TypeOK /\ RunsInv /\ QuietAction => Quiet
<1> SUFFICES ASSUME TypeOK, RunsInv, QuietAction PROVE Quiet
  OBVIOUS
<1>t. job \in [Procs -> Job]
  BY DEF TypeOK
<1>n. NoJob.pc = "idle" /\ NoJob.run = 0
  BY DEF NoJob
<1> USE DEF sources, tables, airflow
<1>1. CASE UNCHANGED job /\ UNCHANGED <<runs, nextRun, billed>>
  BY <1>1 DEF Quiet, QuietMove
<1>2. CASE Sources
  BY <1>1, <1>2 DEF Sources, PublishDrop, ArchiveReading, StreamPassesDay
<1>3. ASSUME NEW d \in Days, NEW pin \in 0..MaxSims, TriggerRun(d, pin) PROVE Quiet
  BY <1>1, <1>3 DEF TriggerRun
<1>4. CASE WaitForDrop \/ WaitForArchive \/ SensorTimesOut
  BY <1>1, <1>4 DEF WaitForDrop, WaitForArchive, SensorTimesOut
<1>5. CASE QualityGate
  BY <1>1, <1>5 DEF QualityGate
<1>6. ASSUME NEW p \in Procs, SpawnJob(p) PROVE Quiet
  <2>1. job'[p].pc = "start" /\ job'[p].run = 0
    BY <1>6, <1>t, <1>n DEF SpawnJob, NoJob
  <2>2. \A q \in Procs : q # p => job'[q] = job[q]
    BY <1>6, <1>t DEF SpawnJob
  <2>3. QED
    BY <1>6, <2>1, <2>2 DEF SpawnJob, Quiet, QuietMove
<1>7. ASSUME NEW p \in Procs, ReadExitCode(p) PROVE Quiet
  BY <1>7, <1>t, <1>n DEF ReadExitCode, Quiet, QuietMove
<1>8. CASE Reconcile \/ Report \/ RecordReport
  BY <1>1, <1>8 DEF Reconcile, Report, RecordReport
<1>9. CASE TaskDies
  BY <1>9, <1>n DEF TaskDies, Quiet, QuietMove
<1>10. ASSUME NEW p \in Procs, JobStart(p) PROVE Quiet
  <2>1. job'[p].run = job[p].run /\ job'[p].pc \in {"load", "refused"}
    BY <1>10, <1>t DEF JobStart, Goto
  <2>2. \A q \in Procs : q # p => job'[q] = job[q]
    BY <1>10, <1>t DEF JobStart, Goto
  <2>3. QED
    BY <1>10, <2>1, <2>2 DEF JobStart, Quiet, QuietMove, RunsInv, UnopenedHoldNone, Ended
<1>11. ASSUME NEW p \in Procs, JobLoadDrop(p) PROVE Quiet
  <2>1. job'[p].run = job[p].run /\ job'[p].pc \in {"open", "refused"}
    BY <1>11, <1>t DEF JobLoadDrop, Goto
  <2>2. \A q \in Procs : q # p => job'[q] = job[q]
    BY <1>11, <1>t DEF JobLoadDrop, Goto
  <2>3. QED
    BY <1>11, <2>1, <2>2 DEF JobLoadDrop, Quiet, QuietMove, RunsInv, UnopenedHoldNone, Ended
<1>12. ASSUME NEW p \in Procs, JobReadArchive(p) PROVE Quiet
  <2>1. job[p].pc = "read" /\ job'[p].run = job[p].run /\ job'[p].pc = "commit"
    BY <1>12, <1>t DEF JobReadArchive
  <2>2. \A q \in Procs : q # p => job'[q] = job[q]
    BY <1>12, <1>t DEF JobReadArchive
  <2>3. QED
    BY <1>12, <2>1, <2>2 DEF JobReadArchive, Quiet, QuietMove
<1>13. ASSUME NEW p \in Procs, OrphanEnds(p) PROVE Quiet
  BY <1>13, <1>n DEF OrphanEnds, Quiet, QuietMove
<1>14. CASE ResetClock
  BY <1>14, <1>n DEF ResetClock, Quiet, QuietMove
<1>15. CASE ResetStores
  BY <1>1, <1>15 DEF ResetStores
<1>16. CASE UNCHANGED vars
  BY <1>1, <1>16 DEF vars
<1>17. QED
  BY <1>2, <1>3, <1>4, <1>5, <1>6, <1>7, <1>8, <1>9, <1>10, <1>11, <1>12, <1>13,
     <1>14, <1>15, <1>16 DEF QuietAction, DagStep

-----------------------------------------------------------------------------
(* The steps that do write rows.                                           *)

\* JobInsertRun gives the process an id nobody holds, and no row yet.
LEMMA InsertRunKeeps ==
  ASSUME TypeOK, RunsInv, NEW p \in Procs, JobInsertRun(p)
  PROVE  RunsInv' /\ UNCHANGED <<runs, billed>> /\ (BillsInv => BillsInv')
<1> USE DEF RunsInv
<1>t. job \in [Procs -> Job] /\ nextRun \in Nat
  BY DEF TypeOK
<1>n. nextRun \in RunIds /\ nextRun' = nextRun + 1 /\ UNCHANGED <<runs, billed>>
  BY DEF JobInsertRun
<1>i. \A r \in RunIds : r \in Nat
  BY DEF RunIds
<1>p. /\ job'[p].pc = "inserted" /\ job'[p].run = nextRun
      /\ \A q \in Procs : q # p => job'[q] = job[q]
  BY <1>t DEF JobInsertRun
<1>w. \A q \in Procs : Writes(q)' =>
        \/ q = p
        \/ q # p /\ Writes(q) /\ job'[q].run = job[q].run
  BY <1>p DEF Writes
<1>1. FreshIds' /\ UnopenedHoldNone'
  <2>1. \A r \in RunIds : r >= nextRun + 1 => r >= nextRun
    BY <1>i, <1>t
  <2>2. FreshIds'
    BY <1>n, <2>1 DEF FreshIds
  <2>3. UnopenedHoldNone'
    BY <1>p DEF UnopenedHoldNone
  <2>4. QED
    BY <2>2, <2>3
<1>2. WritersHoldIds'
  <2> SUFFICES ASSUME NEW q \in Procs, Writes(q)'
               PROVE  job'[q].run \in RunIds /\ job'[q].run < nextRun + 1
    BY <1>n DEF WritersHoldIds
  <2>1. CASE q = p
    BY <2>1, <1>p, <1>n, <1>i
  <2>2. CASE q # p
    BY <2>2, <1>w, <1>i, <1>t DEF WritersHoldIds
  <2>3. QED
    BY <2>1, <2>2
<1>3. WritersApart'
  <2> SUFFICES ASSUME NEW q \in Procs, NEW s \in Procs, Writes(q)', Writes(s)', q # s
               PROVE  job'[q].run # job'[s].run
    BY DEF WritersApart
  <2>1. \A x \in Procs : x # p /\ Writes(x)' => job'[x].run < nextRun
    BY <1>w DEF WritersHoldIds
  <2>2. CASE q = p \/ s = p
    BY <2>1, <2>2, <1>p, <1>t
  <2>3. CASE q # p /\ s # p
    BY <2>3, <1>w DEF WritersApart
  <2>4. QED
    BY <2>2, <2>3
<1>4. InsertedUnseen'
  <2>1. runs[nextRun].status = "absent"
    BY <1>n, <1>t DEF FreshIds
  <2>2. QED
    BY <2>1, <1>n, <1>p DEF InsertedUnseen
<1>5. ASSUME BillsInv PROVE BillsInv'
  <2>1. NoneUnacked' /\ BilledIffSucceeded'
    BY <1>5, <1>n, <1>p DEF BillsInv, NoneUnacked, BilledIffSucceeded, Succeeded
  <2>2. runs[nextRun].status = "absent"
    BY <1>n, <1>t DEF FreshIds
  <2>3. WritersUnsettled'
    BY <1>5, <2>2, <1>n, <1>p, <1>w DEF BillsInv, WritersUnsettled
  <2>4. QED
    BY <2>1, <2>3 DEF BillsInv
<1>6. QED
  BY <1>n, <1>1, <1>2, <1>3, <1>4, <1>5

\* JobOpenRun shows the row of the process and touches none that succeeded.
LEMMA OpenRunKeeps ==
  ASSUME TypeOK, RunsInv, NEW p \in Procs, JobOpenRun(p)
  PROVE  /\ RunsInv'
         /\ BillsInv => BillsInv'
         /\ \A r \in Succeeded : runs'[r] = runs[r]
<1> USE DEF RunsInv
<1> DEFINE me == job[p].run
<1>t. job \in [Procs -> Job] /\ runs \in [RunIds -> Row] /\ nextRun \in Nat
  BY DEF TypeOK
<1>n. /\ nextRun' = nextRun /\ billed' = billed
      /\ job[p].pc = "inserted" /\ Writes(p)
  BY DEF JobOpenRun, Writes
<1>m. me \in RunIds /\ me < nextRun /\ runs[me].status = "absent"
  BY <1>n DEF WritersHoldIds, InsertedUnseen
<1>new. runs'[me].status = "running"
  BY <1>m DEF JobOpenRun, NoRow
<1>old. \A r \in RunIds : r # me =>
          runs'[r] = IF Supersedes(p, r) THEN [runs[r] EXCEPT !.status = "failed"]
                     ELSE runs[r]
  BY DEF JobOpenRun
<1>f. \A r \in RunIds : Supersedes(p, r) =>
          /\ runs[r].status = "running"
          /\ [runs[r] EXCEPT !.status = "failed"].status = "failed"
  BY <1>t DEF Supersedes, Row
<1>p. /\ job'[p].pc = "read" /\ job'[p].run = me
      /\ \A q \in Procs : q # p => job'[q] = job[q]
  BY <1>t DEF JobOpenRun, Goto
<1>w. \A q \in Procs : Writes(q)' => Writes(q) /\ job'[q].run = job[q].run
  BY <1>p, <1>n DEF Writes
<1>1. FreshIds'
  <2>1. \A r \in RunIds : r >= nextRun => r # me
    BY <1>m, <1>t DEF RunIds
  <2>2. QED
    BY <2>1, <1>n, <1>old, <1>f DEF FreshIds
<1>2. UnopenedHoldNone'
  BY <1>p DEF UnopenedHoldNone
<1>3. WritersHoldIds'
  BY <1>w, <1>n DEF WritersHoldIds
<1>4. WritersApart'
  BY <1>w DEF WritersApart
<1>5. InsertedUnseen'
  <2> SUFFICES ASSUME NEW q \in Procs, job'[q].pc = "inserted"
               PROVE  runs'[job'[q].run].status = "absent"
    BY DEF InsertedUnseen
  <2>1. q # p /\ job'[q] = job[q]
    BY <1>p
  <2>2. Writes(q) /\ job[q].run \in RunIds /\ job[q].run # me
    BY <2>1, <1>n DEF Writes, WritersHoldIds, WritersApart
  <2>3. runs[job[q].run].status = "absent"
    BY <2>1 DEF InsertedUnseen
  <2>4. QED
    BY <2>1, <2>2, <2>3, <1>old, <1>f
<1>6. \A r \in Succeeded : runs'[r] = runs[r]
  <2> SUFFICES ASSUME NEW r \in RunIds, runs[r].status = "succeeded"
               PROVE  runs'[r] = runs[r]
    BY DEF Succeeded
  <2>1. r # me
    BY <1>m
  <2>2. QED
    BY <2>1, <1>old, <1>f
<1>7. \A r \in RunIds : runs'[r].status = "succeeded" => runs[r].status = "succeeded"
  BY <1>new, <1>old, <1>f
<1>8. BillsInv => BillsInv'
  <2> SUFFICES ASSUME BillsInv PROVE BillsInv'
    OBVIOUS
  <2>1. NoneUnacked'
    BY <1>p DEF BillsInv, NoneUnacked
  <2>2. BilledIffSucceeded'
    BY <1>n, <1>6, <1>7 DEF BillsInv, BilledIffSucceeded, Succeeded
  <2>3. WritersUnsettled'
    <3> SUFFICES ASSUME NEW q \in Procs, Writes(q)'
                 PROVE  runs'[job'[q].run].status # "succeeded"
      BY DEF WritersUnsettled
    <3>1. CASE q = p
      BY <3>1, <1>p, <1>new
    <3>2. CASE q # p
      BY <3>2, <1>w, <1>7 DEF BillsInv, WritersUnsettled, WritersHoldIds
    <3>3. QED
      BY <3>1, <3>2
  <2>4. QED
    BY <2>1, <2>2, <2>3 DEF BillsInv
<1>9. QED
  BY <1>1, <1>2, <1>3, <1>4, <1>5, <1>6, <1>8

\* JobCommit finishes the process's own run and no other.
LEMMA CommitKeeps ==
  ASSUME TypeOK, RunsInv, NEW p \in Procs, JobCommit(p)
  PROVE  /\ RunsInv'
         /\ ~AckMayBeLost /\ BillsInv => BillsInv'
         /\ BillsInv => \A r \in Succeeded : runs'[r] = runs[r]
<1> USE DEF RunsInv
<1> DEFINE me == job[p].run
<1>t. job \in [Procs -> Job] /\ runs \in [RunIds -> Row] /\ nextRun \in Nat
  BY DEF TypeOK
<1>n. me \in RunIds /\ nextRun' = nextRun /\ billed' = billed \cup {me} /\ Writes(p)
  BY DEF JobCommit, RowExists, Writes
<1>r. /\ runs'[me].status = "succeeded"
      /\ \A r \in RunIds : r # me => runs'[r] = runs[r]
  BY <1>t, <1>n DEF JobCommit, Row
<1>p. /\ job'[p].pc \in Ended \cup {"unacked"}
      /\ ~AckMayBeLost => job'[p].pc \in Ended
      /\ \A q \in Procs : q # p => job'[q] = job[q]
  BY <1>t DEF JobCommit, Goto, Ended
<1>w. \A q \in Procs : Writes(q)' => q # p /\ Writes(q) /\ job'[q].run = job[q].run
  BY <1>p DEF Writes, Ended
<1>1. FreshIds'
  <2>1. me < nextRun
    BY <1>n DEF WritersHoldIds
  <2>2. \A r \in RunIds : r >= nextRun => r # me
    BY <2>1, <1>t, <1>n DEF RunIds
  <2>3. QED
    BY <2>2, <1>n, <1>r DEF FreshIds
<1>2. UnopenedHoldNone'
  BY <1>p DEF UnopenedHoldNone, Ended
<1>3. WritersHoldIds' /\ WritersApart'
  BY <1>w, <1>n DEF WritersHoldIds, WritersApart
<1>4. InsertedUnseen'
  <2>1. \A q \in Procs : job'[q].pc = "inserted" =>
          /\ job'[q] = job[q] /\ Writes(q) /\ q # p
    BY <1>p DEF Ended, Writes
  <2>2. \A q \in Procs : job'[q].pc = "inserted" =>
          job[q].run \in RunIds /\ job[q].run # me
    BY <2>1, <1>n DEF WritersHoldIds, WritersApart
  <2>3. QED
    BY <2>1, <2>2, <1>r DEF InsertedUnseen
<1>5. ASSUME ~AckMayBeLost, BillsInv PROVE BillsInv'
  <2>1. NoneUnacked'
    BY <1>5, <1>p DEF BillsInv, NoneUnacked, Ended
  <2>2. BilledIffSucceeded'
    BY <1>5, <1>n, <1>r DEF BillsInv, BilledIffSucceeded, Succeeded
  <2>3. WritersUnsettled'
    <3>1. \A q \in Procs : Writes(q)' => job'[q].run # me /\ job'[q].run \in RunIds
      BY <1>w, <1>n DEF WritersApart, WritersHoldIds
    <3>2. QED
      BY <1>5, <1>w, <1>r, <3>1 DEF BillsInv, WritersUnsettled
  <2>4. QED
    BY <2>1, <2>2, <2>3 DEF BillsInv
<1>6. BillsInv => \A r \in Succeeded : runs'[r] = runs[r]
  BY <1>n, <1>r DEF BillsInv, WritersUnsettled, Succeeded
<1>7. QED
  BY <1>1, <1>2, <1>3, <1>4, <1>5, <1>6

\* JobRaises may mark the process's own run as failed, which nobody finished.
LEMMA RaisesKeeps ==
  ASSUME TypeOK, RunsInv, NEW p \in Procs, JobRaises(p)
  PROVE  /\ RunsInv'
         /\ BillsInv => BillsInv'
         /\ BillsInv => \A r \in Succeeded : runs'[r] = runs[r]
<1> USE DEF RunsInv
<1> DEFINE me == job[p].run
<1>t. job \in [Procs -> Job] /\ runs \in [RunIds -> Row] /\ nextRun \in Nat
  BY DEF TypeOK
<1>n. nextRun' = nextRun /\ billed' = billed /\ job[p].pc \in Working
  BY DEF JobRaises
<1>r. \/ runs' = runs
      \/ /\ RowExists(me)
         /\ runs'[me].status = "failed"
         /\ \A r \in RunIds : r # me => runs'[r] = runs[r]
  BY <1>t DEF JobRaises, MarkFailed, RowExists, Row
<1>p. /\ job'[p].pc = "error"
      /\ \A q \in Procs : q # p => job'[q] = job[q]
  BY <1>t DEF JobRaises, Goto
<1>w. \A q \in Procs : Writes(q)' => q # p /\ Writes(q) /\ job'[q].run = job[q].run
  BY <1>p DEF Writes
<1>1. FreshIds'
  BY <1>n, <1>r DEF FreshIds, RowExists
<1>2. UnopenedHoldNone'
  BY <1>p DEF UnopenedHoldNone
<1>3. WritersHoldIds' /\ WritersApart'
  BY <1>w, <1>n DEF WritersHoldIds, WritersApart
<1>4. InsertedUnseen'
  <2>1. \A q \in Procs : job'[q].pc = "inserted" => job'[q] = job[q] /\ Writes(q)
    BY <1>p DEF Writes
  <2>2. QED
    BY <2>1, <1>r DEF InsertedUnseen, RowExists, WritersHoldIds
<1>5. ASSUME BillsInv PROVE BillsInv' /\ \A r \in Succeeded : runs'[r] = runs[r]
  <2>1. RowExists(me) => Writes(p)
    BY <1>5, <1>n DEF BillsInv, NoneUnacked, UnopenedHoldNone, Working, Pcs, Ended,
                      Writes, RowExists, RunIds
  <2>2. \A r \in Succeeded : runs'[r] = runs[r]
    BY <1>5, <1>r, <2>1 DEF BillsInv, WritersUnsettled, Succeeded
  <2>3. \A r \in RunIds : runs'[r].status = "succeeded" => runs[r].status = "succeeded"
    BY <1>r
  <2>4. NoneUnacked'
    BY <1>5, <1>p DEF BillsInv, NoneUnacked
  <2>5. BilledIffSucceeded'
    BY <1>5, <1>n, <2>2, <2>3 DEF BillsInv, BilledIffSucceeded, Succeeded
  <2>6. WritersUnsettled'
    BY <1>5, <1>w, <2>3 DEF BillsInv, WritersUnsettled, WritersHoldIds
  <2>7. QED
    BY <2>2, <2>4, <2>5, <2>6 DEF BillsInv
<1>6. QED
  BY <1>1, <1>2, <1>3, <1>4, <1>5

LEMMA ResetTablesKeeps ==
  ASSUME TypeOK, RunsInv, ResetTables
  PROVE  RunsInv' /\ (BillsInv => BillsInv')
<1> USE DEF RunsInv
<1>1. /\ \A r \in RunIds : runs'[r].status = "absent"
      /\ UNCHANGED <<job, nextRun>> /\ billed' = {}
  BY NoRowType DEF ResetTables, airflow
<1>2. FreshIds' /\ UnopenedHoldNone' /\ WritersHoldIds' /\ WritersApart'
  BY <1>1 DEF FreshIds, UnopenedHoldNone, WritersHoldIds, WritersApart, Writes
<1>3. InsertedUnseen'
  BY <1>1 DEF InsertedUnseen, WritersHoldIds, Writes
<1>4. ASSUME BillsInv PROVE BillsInv'
  BY <1>1, <1>4 DEF BillsInv, NoneUnacked, WritersUnsettled, WritersHoldIds, Writes,
                    BilledIffSucceeded, Succeeded
<1>5. QED
  BY <1>2, <1>3, <1>4

LEMMA InitRuns == Init => RunsInv /\ BillsInv
<1> SUFFICES ASSUME Init PROVE RunsInv /\ BillsInv
  OBVIOUS
<1>1. /\ \A p \in Procs : job[p].pc = "idle"
      /\ \A r \in RunIds : runs[r].status = "absent"
      /\ billed = {}
  BY NoJobType, NoRowType DEF Init
<1>2. RunsInv
  BY <1>1 DEF RunsInv, FreshIds, UnopenedHoldNone, WritersHoldIds, WritersApart,
              Writes, InsertedUnseen
<1>3. BillsInv
  BY <1>1 DEF BillsInv, NoneUnacked, WritersUnsettled, Writes, BilledIffSucceeded,
              Succeeded
<1>4. QED
  BY <1>2, <1>3

LEMMA NextKeepsRuns == TypeOK /\ RunsInv /\ [Next]_vars => RunsInv'
BY NextIsQuietOr, QuietActionsAreQuiet, QuietKeepsRuns, InsertRunKeeps, OpenRunKeeps,
   CommitKeeps, RaisesKeeps, ResetTablesKeeps

LEMMA NextKeepsBills ==
  ASSUME ~AckMayBeLost
  PROVE  TypeOK /\ RunsInv /\ BillsInv /\ [Next]_vars => BillsInv'
BY NextIsQuietOr, QuietActionsAreQuiet, QuietKeepsBills, InsertRunKeeps, OpenRunKeeps,
   CommitKeeps, RaisesKeeps, ResetTablesKeeps

\* What a step may do to runs that succeeded, under the invariants.
LEMMA NextKeepsSettled ==
  TypeOK /\ RunsInv /\ BillsInv /\ [Next]_vars =>
    ResetTables \/ \A r \in Succeeded : runs'[r] = runs[r]
BY NextIsQuietOr, QuietActionsAreQuiet, InsertRunKeeps, OpenRunKeeps, CommitKeeps,
   RaisesKeeps DEF Quiet, Succeeded

LEMMA RunsInvariant == Spec => []RunsInv
<1>1. Init => RunsInv
  BY InitRuns
<1>2. TypeOK /\ RunsInv /\ [Next]_vars => RunsInv'
  BY NextKeepsRuns
<1>3. QED
  BY <1>1, <1>2, TypeCorrect, PTL DEF Spec

LEMMA BillsInvariant == ASSUME ~AckMayBeLost PROVE Spec => []BillsInv
<1>1. Init => BillsInv
  BY InitRuns
<1>2. TypeOK /\ RunsInv /\ BillsInv /\ [Next]_vars => BillsInv'
  BY NextKeepsBills
<1>3. QED
  BY <1>1, <1>2, TypeCorrect, RunsInvariant, PTL DEF Spec

\* Provided every commit is acknowledged, bills and zone figures exist for
\* exactly the runs that succeeded.
THEOREM BillsAllOrNothing == ASSUME ~AckMayBeLost PROVE Spec => []BilledIffSucceeded
<1>1. BillsInv => BilledIffSucceeded
  BY DEF BillsInv
<1>2. QED
  BY <1>1, BillsInvariant, PTL

\* Provided every commit is acknowledged, nothing but the reset ever changes a
\* run that succeeded.
THEOREM SettledStays == ASSUME ~AckMayBeLost PROVE Spec => SettledIsFinal
<1>1. TypeOK /\ RunsInv /\ BillsInv /\ [Next]_vars =>
        [ResetTables \/ \A r \in Succeeded : runs'[r] = runs[r]]_vars
  BY NextKeepsSettled
<1>2. QED
  BY <1>1, TypeCorrect, RunsInvariant, BillsInvariant, PTL DEF Spec, SettledIsFinal

-----------------------------------------------------------------------------
(***************************************************************************)
(* What the deployment adds: with no orphans, at most one run of a day is  *)
(* running and a failed one stays failed; with Airflow stopped for a reset *)
(* no run crosses from one simulation into the next; with every run pinned *)
(* as well, nothing is settled before its day is over and its drop has     *)
(* passed the gate.                                                        *)
(***************************************************************************)

-----------------------------------------------------------------------------
(* No orphans.                                                             *)

\* The only process there is is the child of the running settle task.
OneChild ==
  \A p \in Procs : job[p].pc # "idle" => dag.task = "settle" /\ dag.child = {p}

\* No id is given out between the insertion and its commit.
InsertedLast == \A p \in Procs : job[p].pc = "inserted" => nextRun = job[p].run + 1

\* Nobody has recorded the run of a working process as finished.
WritersUnfinished ==
  \A p \in Procs : Writes(p) => runs[job[p].run].status \in {"running", "absent"}

LEMMA NextKeepsOneChild ==
  ASSUME ~OrphansSurvive
  PROVE  TypeOK /\ OneChild /\ [Next]_vars => OneChild'
<1> SUFFICES ASSUME TypeOK, OneChild, [Next]_vars PROVE OneChild'
  OBVIOUS
<1>t. job \in [Procs -> Job] /\ dag \in DagRun
  BY DEF TypeOK
<1>n. NoJob.pc = "idle"
  BY DEF NoJob
<1> USE DEF sources, tables, airflow
<1>1. CASE UNCHANGED airflow
  BY <1>1 DEF OneChild
<1>2. CASE Sources
  BY <1>1, <1>2 DEF Sources, PublishDrop, ArchiveReading, StreamPassesDay
<1>3. ASSUME dag.task # "settle", UNCHANGED job PROVE OneChild'
  BY <1>3 DEF OneChild
<1>4. ASSUME NEW d \in Days, NEW pin \in 0..MaxSims, TriggerRun(d, pin)
      PROVE  OneChild'
  BY <1>3, <1>4 DEF TriggerRun
<1>5. CASE WaitForDrop \/ WaitForArchive \/ SensorTimesOut \/ QualityGate
             \/ Reconcile \/ Report \/ RecordReport
  BY <1>3, <1>5 DEF WaitForDrop, WaitForArchive, SensorTimesOut, QualityGate,
                    Reconcile, Report, RecordReport
<1>6. ASSUME NEW p \in Procs, SpawnJob(p) PROVE OneChild'
  <2>1. dag'.task = "settle" /\ dag'.child = {p}
    BY <1>6, <1>t DEF SpawnJob, DagRun
  <2>2. \A q \in Procs : q # p => job'[q] = job[q] /\ job[q].pc = "idle"
    BY <1>6, <1>t DEF SpawnJob, OneChild
  <2>3. QED
    BY <2>1, <2>2 DEF OneChild
<1>7. ASSUME NEW p \in Procs, ReadExitCode(p) PROVE OneChild'
  BY <1>7, <1>t, <1>n DEF ReadExitCode, OneChild
<1>8. CASE TaskDies
  BY <1>8, <1>n DEF TaskDies, OneChild
<1>9. ASSUME NEW p \in Procs, JobStep(p) PROVE OneChild'
  <2>1. UNCHANGED dag
    BY <1>9 DEF JobStep, JobStart, JobLoadDrop, JobInsertRun, JobOpenRun,
                JobReadArchive, JobCommit, JobRaises, OrphanEnds
  <2>2. job[p].pc # "idle"
    BY <1>9 DEF JobStep, JobStart, JobLoadDrop, JobInsertRun, JobOpenRun,
                JobReadArchive, JobCommit, JobRaises, OrphanEnds, Working, Ended
  <2>3. \A q \in Procs : q # p => job'[q] = job[q]
    BY <1>9, <1>t DEF JobStep, JobStart, JobLoadDrop, JobInsertRun, JobOpenRun,
                      JobReadArchive, JobCommit, JobRaises, OrphanEnds, Goto
  <2>4. QED
    BY <2>1, <2>2, <2>3 DEF OneChild
<1>10. CASE ResetClock
  BY <1>10, <1>n DEF ResetClock, OneChild
<1>11. CASE ResetStores \/ ResetTables
  BY <1>1, <1>11 DEF ResetStores, ResetTables
<1>12. CASE UNCHANGED vars
  BY <1>1, <1>12 DEF vars
<1>13. QED
  BY <1>2, <1>4, <1>5, <1>6, <1>7, <1>8, <1>9, <1>10, <1>11, <1>12
     DEF Next, DagStep, ResetStep

LEMMA NextKeepsUnfinished ==
  TypeOK /\ RunsInv /\ OneChild /\ WritersUnfinished /\ [Next]_vars
    => /\ WritersUnfinished'
       /\ \A r \in RunIds : runs[r].status = "failed" => runs'[r].status # "succeeded"
<1> SUFFICES ASSUME TypeOK, RunsInv, OneChild, WritersUnfinished, [Next]_vars
             PROVE  /\ WritersUnfinished'
                    /\ \A r \in RunIds :
                         runs[r].status = "failed" => runs'[r].status # "succeeded"
  OBVIOUS
<1>t. job \in [Procs -> Job] /\ runs \in [RunIds -> Row]
  BY DEF TypeOK
<1>1. CASE QuietAction
  <2>1. Quiet
    BY <1>1, QuietActionsAreQuiet
  <2>2. \A p \in Procs : Writes(p)' => Writes(p) /\ job'[p].run = job[p].run
    BY <2>1 DEF Quiet, QuietMove, Writes, Ended
  <2>3. QED
    BY <2>1, <2>2 DEF Quiet, WritersUnfinished
<1>2. ASSUME NEW p \in Procs,
             JobInsertRun(p) \/ JobOpenRun(p) \/ JobCommit(p) \/ JobRaises(p)
      PROVE  \A q \in Procs : q # p => ~Writes(q)'
  <2>1. job[p].pc # "idle"
    BY <1>2 DEF JobInsertRun, JobOpenRun, JobCommit, JobRaises, Working
  <2>2. \A q \in Procs : q # p => job'[q] = job[q]
    BY <1>2, <1>t DEF JobInsertRun, JobOpenRun, JobCommit, JobRaises, Goto
  <2>3. QED
    BY <2>1, <2>2 DEF OneChild, Writes
<1>3. ASSUME NEW p \in Procs, JobOpenRun(p)
      PROVE  /\ WritersUnfinished'
             /\ \A r \in RunIds :
                  runs[r].status = "failed" => runs'[r].status # "succeeded"
  <2>1. job'[p].run = job[p].run /\ job[p].run \in RunIds
    BY <1>3, <1>t DEF JobOpenRun, Goto, RunsInv, WritersHoldIds, Writes
  <2>2. runs'[job[p].run].status = "running"
    BY <1>3, <2>1 DEF JobOpenRun, NoRow
  <2>3. \A r \in RunIds : r # job[p].run => runs'[r].status \in {"failed", runs[r].status}
    BY <1>3, <1>t DEF JobOpenRun, Row
  <2>4. QED
    BY <1>2, <1>3, <2>1, <2>2, <2>3 DEF WritersUnfinished
<1>4. ASSUME NEW p \in Procs, JobCommit(p)
      PROVE  /\ WritersUnfinished'
             /\ \A r \in RunIds :
                  runs[r].status = "failed" => runs'[r].status # "succeeded"
  <2>1. job'[p].pc \in Ended \cup {"unacked"}
    BY <1>4, <1>t DEF JobCommit, Goto, Ended
  <2>2. Writes(p) /\ runs[job[p].run].status = "running" /\ job[p].run \in RunIds
    BY <1>4 DEF JobCommit, RowExists, WritersUnfinished, Writes
  <2>3. \A r \in RunIds : r # job[p].run => runs'[r] = runs[r]
    BY <1>4, <1>t, <2>2 DEF JobCommit
  <2>4. ~Writes(p)'
    BY <2>1 DEF Writes, Ended
  <2>5. QED
    BY <1>2, <1>4, <2>2, <2>3, <2>4 DEF WritersUnfinished
<1>5. ASSUME NEW p \in Procs, JobRaises(p)
      PROVE  /\ WritersUnfinished'
             /\ \A r \in RunIds :
                  runs[r].status = "failed" => runs'[r].status # "succeeded"
  <2>1. ~Writes(p)'
    BY <1>5, <1>t DEF JobRaises, Goto, Writes
  <2>2. \A r \in RunIds : runs'[r].status \in {"failed", runs[r].status}
    BY <1>5, <1>t DEF JobRaises, MarkFailed, Row
  <2>3. QED
    BY <1>2, <1>5, <2>1, <2>2 DEF WritersUnfinished
<1>6. CASE ResetTables
  <2>1. \A r \in RunIds : runs'[r].status = "absent"
    BY <1>6, NoRowType DEF ResetTables
  <2>2. UNCHANGED job
    BY <1>6 DEF ResetTables, airflow
  <2>3. QED
    BY <2>1, <2>2 DEF WritersUnfinished, Writes, RunsInv, WritersHoldIds
<1>7. ASSUME NEW p \in Procs, JobInsertRun(p)
      PROVE  /\ WritersUnfinished'
             /\ \A r \in RunIds :
                  runs[r].status = "failed" => runs'[r].status # "succeeded"
  <2>1. job'[p].run = nextRun /\ nextRun \in RunIds /\ UNCHANGED runs
    BY <1>7, <1>t DEF JobInsertRun
  <2>2. runs[nextRun].status = "absent"
    BY <2>1 DEF TypeOK, RunsInv, FreshIds
  <2>3. QED
    BY <1>2, <1>7, <2>1, <2>2 DEF WritersUnfinished
<1>8. QED
  BY <1>1, <1>3, <1>4, <1>5, <1>6, <1>7, NextIsQuietOr

\* With one process at a time the row it opens is the last there is, and its
\* UPDATE has seen every other.
LEMMA NextKeepsOneRunning ==
  TypeOK /\ RunsInv /\ OneChild /\ InsertedLast /\ OneRunningRowPerDay /\ [Next]_vars
    => InsertedLast' /\ OneRunningRowPerDay'
<1> SUFFICES ASSUME TypeOK, RunsInv, OneChild, InsertedLast, OneRunningRowPerDay,
                    [Next]_vars
             PROVE  InsertedLast' /\ OneRunningRowPerDay'
  OBVIOUS
<1>t. job \in [Procs -> Job] /\ runs \in [RunIds -> Row] /\ nextRun \in Nat
  BY DEF TypeOK
<1>1. CASE QuietAction
  <2>1. Quiet
    BY <1>1, QuietActionsAreQuiet
  <2>2. \A p \in Procs : job'[p].pc = "inserted" => job'[p] = job[p]
    BY <2>1 DEF Quiet, QuietMove, Ended
  <2>3. QED
    BY <2>1, <2>2 DEF Quiet, InsertedLast, OneRunningRowPerDay
<1>2. ASSUME NEW p \in Procs, JobInsertRun(p)
      PROVE  InsertedLast' /\ OneRunningRowPerDay'
  <2>1. \A q \in Procs : q # p => job'[q] = job[q] /\ job[q].pc # "inserted"
    BY <1>2, <1>t DEF JobInsertRun, OneChild
  <2>2. job'[p].run = nextRun /\ nextRun' = nextRun + 1 /\ UNCHANGED runs
    BY <1>2, <1>t DEF JobInsertRun
  <2>3. QED
    BY <2>1, <2>2 DEF InsertedLast, OneRunningRowPerDay
<1>3. ASSUME NEW p \in Procs, JobOpenRun(p)
      PROVE  InsertedLast' /\ OneRunningRowPerDay'
  <2> DEFINE me == job[p].run
  <2>1. /\ job'[p].pc = "read" /\ nextRun' = nextRun
        /\ \A q \in Procs : q # p => job'[q] = job[q]
    BY <1>3, <1>t DEF JobOpenRun, Goto
  <2>2. InsertedLast'
    BY <2>1 DEF InsertedLast
  <2>3. me \in RunIds /\ me \in Nat /\ nextRun = me + 1
    BY <1>3 DEF JobOpenRun, InsertedLast, RunsInv, WritersHoldIds, Writes, RunIds
  <2>4. runs'[me].sim = job[p].sim /\ runs'[me].day = job[p].day
    BY <1>3, <2>3 DEF JobOpenRun, NoRow
  <2>5. \A x \in RunIds : x # me =>
          runs'[x] = IF Supersedes(p, x) THEN [runs[x] EXCEPT !.status = "failed"]
                     ELSE runs[x]
    BY <1>3 DEF JobOpenRun
  <2>6. \A x \in RunIds : [runs[x] EXCEPT !.status = "failed"].status = "failed"
    BY <1>t DEF Row
  <2>7. \A x \in RunIds : x # me /\ runs'[x].status = "running" =>
          runs'[x] = runs[x] /\ ~Supersedes(p, x)
    BY <2>5, <2>6
  <2>8. \A x \in RunIds : x # me /\ runs[x].status # "absent" => x < me
    BY <2>3 DEF RunsInv, FreshIds, RunIds
  <2>9. \A x \in RunIds : x # me /\ runs'[x].status = "running" =>
          ~(runs'[x].sim = job[p].sim /\ runs'[x].day = job[p].day)
    <3> SUFFICES ASSUME NEW x \in RunIds, x # me, runs'[x].status = "running"
                 PROVE  ~(runs'[x].sim = job[p].sim /\ runs'[x].day = job[p].day)
      OBVIOUS
    <3>1. runs[x].status = "running" /\ x < me
      BY <2>7, <2>8
    <3>2. QED
      BY <2>7, <3>1 DEF Supersedes
  <2>10. OneRunningRowPerDay'
    <3> SUFFICES ASSUME NEW r \in RunIds, NEW s \in RunIds,
                        runs'[r].status = "running", runs'[s].status = "running",
                        runs'[r].sim = runs'[s].sim, runs'[r].day = runs'[s].day
                 PROVE  r = s
      BY DEF OneRunningRowPerDay
    <3>1. CASE r = me \/ s = me
      BY <3>1, <2>4, <2>9
    <3>2. CASE r # me /\ s # me
      BY <3>2, <2>7 DEF OneRunningRowPerDay
    <3>3. QED
      BY <3>1, <3>2
  <2>11. QED
    BY <2>2, <2>10
<1>4. ASSUME NEW p \in Procs, JobCommit(p) \/ JobRaises(p)
      PROVE  InsertedLast' /\ OneRunningRowPerDay'
  <2>1. /\ job'[p].pc \in Ended \cup {"unacked"} /\ nextRun' = nextRun
        /\ \A q \in Procs : q # p => job'[q] = job[q]
    <3>1. CASE JobCommit(p)
      BY <1>t, <3>1 DEF JobCommit, Goto, Ended
    <3>2. CASE JobRaises(p)
      BY <1>t, <3>2 DEF JobRaises, Goto, Ended
    <3>3. QED
      BY <1>4, <3>1, <3>2
  <2>2. \A r \in RunIds : runs'[r].status = "running" => runs'[r] = runs[r]
    BY <1>4, <1>t DEF JobCommit, JobRaises, MarkFailed, RowExists, Row
  <2>3. QED
    BY <2>1, <2>2 DEF InsertedLast, OneRunningRowPerDay, Ended
<1>5. CASE ResetTables
  <2>1. UNCHANGED <<job, nextRun>> /\ \A r \in RunIds : runs'[r].status = "absent"
    BY <1>5, NoRowType DEF ResetTables, airflow
  <2>2. QED
    BY <2>1 DEF InsertedLast, OneRunningRowPerDay
<1>6. QED
  BY <1>1, <1>2, <1>3, <1>4, <1>5, NextIsQuietOr

\* When a settlement process never outlives its task, a day has at most one row
\* that is still running, however many processes died without closing theirs.
THEOREM OneRunning == ASSUME ~OrphansSurvive PROVE Spec => []OneRunningRowPerDay
<1>1. Init => OneChild /\ InsertedLast /\ OneRunningRowPerDay
  BY NoJobType, NoRowType DEF Init, OneChild, InsertedLast, OneRunningRowPerDay
<1>2. TypeOK /\ OneChild /\ [Next]_vars => OneChild'
  BY NextKeepsOneChild
<1>3. TypeOK /\ RunsInv /\ OneChild /\ InsertedLast /\ OneRunningRowPerDay /\ [Next]_vars
        => InsertedLast' /\ OneRunningRowPerDay'
  BY NextKeepsOneRunning
<1>4. QED
  BY <1>1, <1>2, <1>3, TypeCorrect, RunsInvariant, PTL DEF Spec

\* When a settlement process never outlives its task, a run recorded as failed
\* never succeeds afterwards: what _open_run assumes about abandoned runs.
THEOREM FailedStaysFailed == ASSUME ~OrphansSurvive PROVE Spec => FailedRunsStayFailed
<1>1. Init => OneChild /\ WritersUnfinished
  BY NoJobType DEF Init, OneChild, WritersUnfinished, Writes
<1>2. TypeOK /\ OneChild /\ [Next]_vars => OneChild'
  BY NextKeepsOneChild
<1>3. TypeOK /\ RunsInv /\ OneChild /\ WritersUnfinished /\ [Next]_vars => WritersUnfinished'
  BY NextKeepsUnfinished
<1>4. TypeOK /\ RunsInv /\ OneChild /\ WritersUnfinished /\ [Next]_vars =>
        [\A r \in RunIds : runs[r].status = "failed" => runs'[r].status # "succeeded"]_vars
  BY NextKeepsUnfinished
<1>5. QED
  BY <1>1, <1>2, <1>3, <1>4, TypeCorrect, RunsInvariant, PTL
     DEF Spec, FailedRunsStayFailed

-----------------------------------------------------------------------------
(* Airflow is stopped for a reset, and every run is pinned.                *)
(*                                                                         *)
(* A day of the current simulation, with a version of its drop, is cleared *)
(* once the stream has passed its end and the gate has passed the drop.    *)
(* Whatever belongs to the current simulation and is past the gate works   *)
(* on a cleared day; what belongs to an earlier one cannot get that far.   *)

Cleared(d, v) ==
  /\ d <= reached
  /\ [sim |-> sim, day |-> d, version |-> v, passed |-> TRUE] \in verdicts

\* Processes that know which simulation they work for.
Committed(p) ==
  job[p].pc \in {"load", "open", "inserted", "read", "commit", "unacked"}

PinsKnown ==
  /\ dag.task # "none" => dag.pin \in 1..sim
  /\ dag.task # "none" /\ reset # "idle" => dag.pin # sim
  /\ \A p \in Procs : job[p].pc # "idle" => job[p].pin # 0 /\ reset = "idle"

DagCleared ==
  dag.task # "none" /\ dag.pin = sim /\ reset = "idle" =>
    /\ dag.task = "quality_gate" => dag.day <= reached
    /\ dag.task = "settle" => Cleared(dag.day, dag.version)

JobCleared(p) ==
  /\ job[p].pc = "start" /\ job[p].pin = sim => Cleared(job[p].day, job[p].version)
  /\ Committed(p) => job[p].sim = sim /\ Cleared(job[p].day, job[p].version)

JobsCleared == \A p \in Procs : JobCleared(p)

RunCleared(r) ==
  runs[r].status # "absent" =>
    runs[r].sim = sim /\ Cleared(runs[r].day, runs[r].version)

RunsCleared == reset = "idle" => \A r \in RunIds : RunCleared(r)

\* A row that does not exist says nothing.
AbsentRowsBlank ==
  \A r \in RunIds : runs[r].status = "absent" => runs[r].day = 0

ResetInv == PinsKnown /\ DagCleared /\ JobsCleared /\ RunsCleared /\ AbsentRowsBlank

\* Every step outside a reset leaves the simulation alone and takes nothing
\* away of what the stream has passed and the gate has recorded.
Calm ==
  /\ UNCHANGED <<sim, reset>>
  /\ reached \in Nat /\ reached' \in Nat /\ reached <= reached'
  /\ verdicts \subseteq verdicts'

\* Rows that keep what they say stay cleared.
LEMMA CalmKeepsRow ==
  ASSUME TypeOK, Calm, NEW r \in RunIds, RunCleared(r),
         runs'[r].sim = runs[r].sim, runs'[r].day = runs[r].day,
         runs'[r].version = runs[r].version,
         runs[r].status = "absent" => runs'[r].status = "absent"
  PROVE  RunCleared(r)'
<1>1. runs[r].day \in Nat
  BY DEF TypeOK, Row
<1>2. QED
  BY <1>1 DEF Calm, RunCleared, Cleared

\* A process that moves on within what it was cleared for stays cleared.
LEMMA CalmKeepsJob ==
  ASSUME TypeOK, Calm, NEW p \in Procs, JobCleared(p),
         \/ job'[p] = job[p]
         \/ job'[p].pc \in Ended \cup {"idle"}
         \/ /\ Committed(p)
            /\ job'[p].pc # "start"
            /\ job'[p].sim = job[p].sim /\ job'[p].day = job[p].day
            /\ job'[p].version = job[p].version
  PROVE  JobCleared(p)'
<1>1. job[p].day \in Nat
  BY DEF TypeOK, Job
<1>2. CASE job'[p] = job[p]
  BY <1>1, <1>2 DEF Calm, JobCleared, Committed, Cleared
<1>3. CASE job'[p].pc \in Ended \cup {"idle"}
  BY <1>3 DEF JobCleared, Committed, Ended
<1>4. CASE /\ Committed(p)
           /\ job'[p].pc # "start"
           /\ job'[p].sim = job[p].sim /\ job'[p].day = job[p].day
           /\ job'[p].version = job[p].version
  BY <1>1, <1>4 DEF Calm, JobCleared, Cleared
<1>5. QED
  BY <1>2, <1>3, <1>4

\* A DAG run that stays where it is, or is not at the gate or the settlement.
LEMMA CalmKeepsDag ==
  ASSUME TypeOK, Calm, DagCleared,
         \/ dag'.task \notin {"quality_gate", "settle"}
         \/ /\ dag'.task = dag.task /\ dag'.pin = dag.pin
            /\ dag'.day = dag.day /\ dag'.version = dag.version
  PROVE  DagCleared'
<1>1. dag.day \in Nat
  BY DEF TypeOK, DagRun
<1>2. CASE dag'.task \notin {"quality_gate", "settle"}
  BY <1>2 DEF DagCleared
<1>3. CASE /\ dag'.task = dag.task /\ dag'.pin = dag.pin
           /\ dag'.day = dag.day /\ dag'.version = dag.version
  <2> SUFFICES ASSUME dag'.task # "none", dag'.pin = sim', reset' = "idle"
               PROVE  /\ dag'.task = "quality_gate" => dag'.day <= reached'
                      /\ dag'.task = "settle" => /\ dag'.day <= reached'
                           /\ [sim |-> sim', day |-> dag'.day, version |-> dag'.version,
                               passed |-> TRUE] \in verdicts'
    BY DEF DagCleared, Cleared
  <2>1. /\ dag.task = "quality_gate" => dag.day <= reached
        /\ dag.task = "settle" => /\ dag.day <= reached
             /\ [sim |-> sim, day |-> dag.day, version |-> dag.version,
                 passed |-> TRUE] \in verdicts
    BY <1>3 DEF DagCleared, Cleared, Calm
  <2>2. QED
    BY <1>1, <1>3, <2>1 DEF Calm
<1>4. QED
  BY <1>2, <1>3

-----------------------------------------------------------------------------
(* The DAG's steps.                                                        *)

\* What the bookkeeping of tasks keeps of a DAG run.
LEMMA DagRunKeeps ==
  ASSUME dag \in DagRun
  PROVE  /\ \A task \in Tasks : /\ Proceed(task).task = task
                                /\ Proceed(task).pin = dag.pin
                                /\ Proceed(task).day = dag.day
                                /\ Proceed(task).version = dag.version
         /\ AttemptFailed.task # "none" => /\ dag.task # "none"
                                           /\ AttemptFailed.pin = dag.pin
         /\ AttemptFailed.task = "settle" => /\ dag.task = "settle"
                                             /\ AttemptFailed.day = dag.day
                                             /\ AttemptFailed.version = dag.version
         /\ AttemptFailed.task # "quality_gate"
         /\ NoDag.task = "none"
<1>1. NoDag.task = "none"
  BY DEF NoDag
<1>2. \A task \in Tasks : /\ Proceed(task).task = task
                          /\ Proceed(task).pin = dag.pin
                          /\ Proceed(task).day = dag.day
                          /\ Proceed(task).version = dag.version
  BY DEF Proceed, DagRun
<1>3. /\ AttemptFailed.task # "none" => dag.task # "none" /\ AttemptFailed.pin = dag.pin
      /\ AttemptFailed.task = "settle" => /\ dag.task = "settle"
                                          /\ AttemptFailed.day = dag.day
                                          /\ AttemptFailed.version = dag.version
      /\ AttemptFailed.task # "quality_gate"
  BY <1>1 DEF AttemptFailed, DagRun
<1>4. QED
  BY <1>1, <1>2, <1>3

\* The DAG's own steps, the gate and the start of a process apart.
PlainDagStep ==
  \/ WaitForDrop \/ SensorTimesOut \/ Reconcile \/ Report \/ RecordReport

LEMMA PlainDagKeeps ==
  ASSUME TypeOK, ResetInv, PlainDagStep
  PROVE  ResetInv'
<1>t. dag \in DagRun /\ reached \in Nat /\ runs \in [RunIds -> Row]
  BY DEF TypeOK
<1> USE DEF ResetInv, sources, tables, airflow
<1>1. /\ UNCHANGED <<sim, reset, reached, job, runs>> /\ verdicts' = verdicts
  BY DEF PlainDagStep, WaitForDrop, SensorTimesOut, Reconcile, Report, RecordReport
<1>2. Calm
  BY <1>1, <1>t DEF Calm
<1>3. /\ dag'.task \notin {"quality_gate", "settle"}
      /\ dag'.task # "none" => dag.task # "none" /\ dag'.pin = dag.pin
  BY ZenonT(30), <1>t, DagRunKeeps DEF PlainDagStep, WaitForDrop, SensorTimesOut, Reconcile, Report,
                           RecordReport, Tasks, DagRun, AttemptFailed
<1>4. PinsKnown' /\ DagCleared'
  BY <1>1, <1>2, <1>3, CalmKeepsDag DEF PinsKnown
<1>5. JobsCleared' /\ RunsCleared' /\ AbsentRowsBlank'
  BY <1>1, <1>2, CalmKeepsJob, CalmKeepsRow DEF JobsCleared, RunsCleared, AbsentRowsBlank
<1>6. QED
  BY <1>4, <1>5

LEMMA WaitForArchiveKeeps ==
  ASSUME TypeOK, ResetInv, WaitForArchive
  PROVE  ResetInv'
<1>t. dag \in DagRun /\ reached \in Nat
  BY DEF TypeOK
<1> USE DEF ResetInv, sources, tables
<1>1. /\ UNCHANGED <<sim, reset, reached, job, runs>> /\ verdicts' = verdicts
      /\ dag.task = "wait_for_archive" /\ dag.day <= reached
  BY DEF WaitForArchive
<1>2. Calm
  BY <1>1, <1>t DEF Calm
<1>3. dag'.task = "quality_gate" /\ dag'.pin = dag.pin /\ dag'.day = dag.day
  BY <1>t, DagRunKeeps DEF WaitForArchive, Tasks
<1>4. PinsKnown'
  BY <1>1, <1>3 DEF PinsKnown
<1>5. DagCleared'
  BY <1>1, <1>3 DEF DagCleared
<1>6. JobsCleared' /\ RunsCleared' /\ AbsentRowsBlank'
  BY <1>1, <1>2, CalmKeepsJob, CalmKeepsRow DEF JobsCleared, RunsCleared, AbsentRowsBlank
<1>7. QED
  BY <1>4, <1>5, <1>6

LEMMA QualityGateKeeps ==
  ASSUME TypeOK, ResetInv, QualityGate
  PROVE  ResetInv'
<1>t. dag \in DagRun /\ reached \in Nat
  BY DEF TypeOK
<1> USE DEF ResetInv, sources
<1> DEFINE v == LatestComplete(dag.day)
<1>1. /\ UNCHANGED <<sim, reset, reached, job, runs>> /\ verdicts \subseteq verdicts'
      /\ dag.task = "quality_gate"
  BY DEF QualityGate
<1>2. Calm
  BY <1>1, <1>t DEF Calm
<1>3. ASSUME dag' = NoDag PROVE PinsKnown' /\ DagCleared'
  BY <1>t, <1>1, <1>3, DagRunKeeps DEF PinsKnown, DagCleared
<1>4. ASSUME dag' # NoDag PROVE PinsKnown' /\ DagCleared'
  <2>1. /\ PinAccepted(dag.pin, sim) /\ DropGood(dag.day, v)
        /\ dag' = [Proceed("settle") EXCEPT !.version = v]
        /\ verdicts' = verdicts \cup {[sim |-> sim, day |-> dag.day, version |-> v,
                                       passed |-> DropGood(dag.day, v)]}
    BY <1>4 DEF QualityGate
  <2>2. dag'.task = "settle" /\ dag'.pin = dag.pin /\ dag'.day = dag.day /\ dag'.version = v
    <3>1. /\ Proceed("settle") \in DagRun
          /\ Proceed("settle").task = "settle" /\ Proceed("settle").pin = dag.pin
          /\ Proceed("settle").day = dag.day
      BY <1>t, DagRunTypes, DagRunKeeps DEF Tasks
    <3>2. QED
      BY <2>1, <3>1 DEF DagRun
  <2>3. dag.pin = sim /\ reset = "idle"
    BY <1>1, <2>1 DEF PinAccepted, PinsKnown, TypeOK
  <2>4. dag.day <= reached
    BY <1>1, <2>3 DEF DagCleared
  <2>5. DropGood(dag.day, v) = TRUE
    BY <2>1 DEF DropGood
  <2>6. [sim |-> sim, day |-> dag.day, version |-> v, passed |-> TRUE] \in verdicts'
    BY <2>1, <2>5
  <2>7. QED
    BY <1>1, <2>2, <2>4, <2>6 DEF PinsKnown, DagCleared, Cleared
<1>5. PinsKnown' /\ DagCleared'
  BY <1>3, <1>4
<1>6. JobsCleared' /\ RunsCleared' /\ AbsentRowsBlank'
  BY <1>1, <1>2, CalmKeepsJob, CalmKeepsRow DEF JobsCleared, RunsCleared, AbsentRowsBlank
<1>7. QED
  BY <1>5, <1>6

LEMMA SpawnJobKeeps ==
  ASSUME AirflowStopsForReset, TypeOK, ResetInv, NEW p \in Procs, SpawnJob(p)
  PROVE  ResetInv'
<1>t. dag \in DagRun /\ job \in [Procs -> Job] /\ reached \in Nat
  BY DEF TypeOK
<1> USE DEF ResetInv, sources, tables
<1>1. /\ UNCHANGED <<sim, reset, reached, runs>> /\ verdicts' = verdicts
      /\ dag.task = "settle" /\ reset = "idle"
  BY DEF SpawnJob, AirflowUp
<1>2. Calm
  BY <1>1, <1>t DEF Calm
<1>3. /\ dag'.task = dag.task /\ dag'.pin = dag.pin
      /\ dag'.day = dag.day /\ dag'.version = dag.version
  BY <1>t DEF SpawnJob, DagRun
<1>4. /\ job'[p].pc = "start" /\ job'[p].pin = dag.pin
      /\ job'[p].day = dag.day /\ job'[p].version = dag.version
      /\ \A q \in Procs : q # p => job'[q] = job[q]
  BY <1>t DEF SpawnJob, NoJob
<1>5. dag.pin # 0 /\ dag.pin \in Nat
  BY <1>1, <1>t DEF PinsKnown, DagRun
<1>6. PinsKnown'
  BY <1>1, <1>3, <1>4, <1>5 DEF PinsKnown
<1>7. DagCleared'
  BY <1>2, <1>3, CalmKeepsDag
<1>8. JobCleared(p)'
  BY <1>1, <1>3, <1>4, <1>7 DEF DagCleared, JobCleared, Committed
<1>9. JobsCleared'
  BY <1>2, <1>4, <1>8, CalmKeepsJob DEF JobsCleared
<1>10. RunsCleared' /\ AbsentRowsBlank'
  BY <1>1, <1>2, CalmKeepsRow DEF RunsCleared, AbsentRowsBlank
<1>11. QED
  BY <1>6, <1>7, <1>9, <1>10

\* Processes go and the DAG run moves on, loses an attempt or ends.
LEMMA ReadExitCodeKeeps ==
  ASSUME TypeOK, ResetInv, NEW p \in Procs, ReadExitCode(p)
  PROVE  ResetInv'
<1>t. dag \in DagRun /\ job \in [Procs -> Job] /\ reached \in Nat
  BY DEF TypeOK
<1> USE DEF ResetInv, sources, tables
<1>1. /\ UNCHANGED <<sim, reset, reached, runs>> /\ verdicts' = verdicts
      /\ dag.task = "settle"
  BY DEF ReadExitCode
<1>2. Calm
  BY <1>1, <1>t DEF Calm
<1>3. /\ job'[p].pc = "idle"
      /\ \A q \in Procs : q # p => job'[q] = job[q]
  BY <1>t, NoJobType DEF ReadExitCode
<1>4. \/ dag' = NoDag \/ dag' = AttemptFailed
      \/ dag'.task = "reconcile" /\ dag'.pin = dag.pin
  BY <1>t DEF ReadExitCode, Ended, Proceed, DagRun
<1>5. /\ dag'.task # "none" => dag'.pin = dag.pin
      /\ \/ dag'.task \notin {"quality_gate", "settle"}
         \/ /\ dag'.task = dag.task /\ dag'.pin = dag.pin
            /\ dag'.day = dag.day /\ dag'.version = dag.version
  BY <1>t, <1>1, <1>4, DagRunKeeps
<1>6. PinsKnown'
  BY <1>1, <1>3, <1>5 DEF PinsKnown
<1>7. DagCleared'
  BY <1>2, <1>5, CalmKeepsDag
<1>8. JobsCleared'
  BY <1>2, <1>3, CalmKeepsJob DEF JobsCleared
<1>9. RunsCleared' /\ AbsentRowsBlank'
  BY <1>1, <1>2, CalmKeepsRow DEF RunsCleared, AbsentRowsBlank
<1>10. QED
  BY <1>6, <1>7, <1>8, <1>9

LEMMA TaskDiesKeeps ==
  ASSUME TypeOK, ResetInv, TaskDies
  PROVE  ResetInv'
<1>t. dag \in DagRun /\ job \in [Procs -> Job] /\ reached \in Nat
  BY DEF TypeOK
<1> USE DEF ResetInv, sources, tables
<1>1. /\ UNCHANGED <<sim, reset, reached, runs>> /\ verdicts' = verdicts
      /\ dag.task # "none" /\ dag' = AttemptFailed
  BY DEF TaskDies
<1>2. Calm
  BY <1>1, <1>t DEF Calm
<1>3. \A q \in Procs : job'[q] = job[q] \/ job'[q].pc = "idle"
  BY <1>t, NoJobType DEF TaskDies
<1>4. /\ dag'.task # "none" => dag'.pin = dag.pin
      /\ \/ dag'.task \notin {"quality_gate", "settle"}
         \/ /\ dag'.task = dag.task /\ dag'.pin = dag.pin
            /\ dag'.day = dag.day /\ dag'.version = dag.version
  BY <1>t, <1>1, DagRunKeeps
<1>5. PinsKnown'
  BY <1>1, <1>3, <1>4 DEF PinsKnown
<1>6. DagCleared'
  BY <1>2, <1>4, CalmKeepsDag
<1>7. JobsCleared'
  BY <1>2, <1>3, CalmKeepsJob DEF JobsCleared
<1>8. RunsCleared' /\ AbsentRowsBlank'
  BY <1>1, <1>2, CalmKeepsRow DEF RunsCleared, AbsentRowsBlank
<1>9. QED
  BY <1>5, <1>6, <1>7, <1>8

LEMMA SourcesKeep ==
  ASSUME TypeOK, ResetInv, Sources \/ UNCHANGED vars
  PROVE  ResetInv'
<1>t. reached \in Nat
  BY DEF TypeOK
<1> USE DEF ResetInv, tables, airflow, sources
<1>1. UNCHANGED <<sim, reset, dag, job, runs>> /\ verdicts' = verdicts
  BY DEF Sources, PublishDrop, ArchiveReading, StreamPassesDay, vars
<1>2. reached' \in {reached, reached + 1}
  BY DEF Sources, PublishDrop, ArchiveReading, StreamPassesDay, vars
<1>3. Calm
  BY <1>1, <1>2, <1>t DEF Calm
<1>4. PinsKnown'
  BY <1>1 DEF PinsKnown
<1>5. DagCleared'
  BY <1>1, <1>3, CalmKeepsDag
<1>6. JobsCleared' /\ RunsCleared' /\ AbsentRowsBlank'
  BY <1>1, <1>3, CalmKeepsJob, CalmKeepsRow DEF JobsCleared, RunsCleared, AbsentRowsBlank
<1>7. QED
  BY <1>4, <1>5, <1>6

LEMMA TriggerKeeps ==
  ASSUME AirflowStopsForReset, ~BlankRuns, TypeOK, ResetInv,
         NEW d \in Days, NEW pin \in 0..MaxSims, TriggerRun(d, pin)
  PROVE  ResetInv'
<1>t. reached \in Nat
  BY DEF TypeOK
<1> USE DEF ResetInv, tables, sources
<1>1. /\ UNCHANGED <<sim, reset, reached, job, runs>> /\ verdicts' = verdicts
      /\ reset = "idle" /\ pin \in 1..sim
  BY DEF TriggerRun, AirflowUp
<1>2. Calm
  BY <1>1, <1>t DEF Calm
<1>3. dag'.task = "wait_for_drop" /\ dag'.pin = pin
  BY DEF TriggerRun, NoDag
<1>4. PinsKnown'
  BY <1>1, <1>3 DEF PinsKnown
<1>5. DagCleared'
  BY <1>2, <1>3, CalmKeepsDag
<1>6. JobsCleared' /\ RunsCleared' /\ AbsentRowsBlank'
  BY <1>1, <1>2, CalmKeepsJob, CalmKeepsRow DEF JobsCleared, RunsCleared, AbsentRowsBlank
<1>7. QED
  BY <1>4, <1>5, <1>6

-----------------------------------------------------------------------------
(* The steps of a process.                                                 *)

LEMMA GotoKeeps ==
  ASSUME job \in [Procs -> Job], NEW p \in Procs, NEW pc
  PROVE  /\ Goto(p, pc)[p].pc = pc /\ Goto(p, pc)[p].pin = job[p].pin
         /\ Goto(p, pc)[p].sim = job[p].sim /\ Goto(p, pc)[p].day = job[p].day
         /\ Goto(p, pc)[p].version = job[p].version
BY DEF Goto, Job

\* What every step of a process leaves alone.
LEMMA JobStepCalm ==
  ASSUME TypeOK, NEW p \in Procs, JobStep(p)
  PROVE  /\ Calm /\ UNCHANGED <<sim, reset, dag>>
         /\ \A q \in Procs : q # p => job'[q] = job[q]
         /\ job[p].pc # "idle"
         /\ job'[p].pc # "idle" => job'[p].pin = job[p].pin
<1>t. job \in [Procs -> Job] /\ reached \in Nat
  BY DEF TypeOK
<1> USE DEF JobStep, JobStart, JobLoadDrop, JobInsertRun, JobOpenRun, JobReadArchive,
            JobCommit, JobRaises, OrphanEnds, sources, tables
<1>1. Calm /\ UNCHANGED <<sim, reset, dag>>
  BY <1>t DEF Calm
<1>2. \A q \in Procs : q # p => job'[q] = job[q]
  BY <1>t DEF Goto
<1>3. job[p].pc # "idle"
  BY DEF Working, Ended
<1>4. job'[p].pc # "idle" => job'[p].pin = job[p].pin
  <2>1. \A pc : Goto(p, pc)[p].pin = job[p].pin
    BY <1>t, GotoKeeps
  <2>2. CASE JobStart(p)
    <3>1. CASE PinAccepted(job[p].pin, sim)
      BY <1>t, <2>2, <3>1
    <3>2. CASE ~PinAccepted(job[p].pin, sim)
      BY <2>1, <2>2, <3>2
    <3>3. QED
      BY <3>1, <3>2
  <2>3. CASE JobInsertRun(p) \/ JobReadArchive(p)
    <3>1. CASE JobInsertRun(p)
      <4>1. job' = [job EXCEPT ![p].pc = "inserted", ![p].run = nextRun]
        BY <3>1
      <4>2. QED
        BY <1>t, <4>1
    <3>2. CASE JobReadArchive(p)
      <4>1. job' = [job EXCEPT ![p].pc = "commit", ![p].readings = archive[job[p].day]]
        BY <3>2
      <4>2. QED
        BY <1>t, <4>1
    <3>3. QED
      BY <2>3, <3>1, <3>2
  <2>4. CASE JobLoadDrop(p) \/ JobOpenRun(p) \/ JobCommit(p) \/ JobRaises(p)
    BY <2>1, <2>4
  <2>5. CASE OrphanEnds(p)
    BY <1>t, <2>5, NoJobType
  <2>6. QED
    BY <2>2, <2>3, <2>4, <2>5
<1>5. QED
  BY <1>1, <1>2, <1>3, <1>4

LEMMA JobStepKeeps ==
  ASSUME TypeOK, ResetInv, NEW p \in Procs, JobStep(p)
  PROVE  ResetInv'
<1>t. job \in [Procs -> Job] /\ runs \in [RunIds -> Row]
  BY DEF TypeOK
<1>c. /\ Calm /\ UNCHANGED <<sim, reset, dag>>
      /\ \A q \in Procs : q # p => job'[q] = job[q]
      /\ job[p].pc # "idle"
      /\ job'[p].pc # "idle" => job'[p].pin = job[p].pin
  BY JobStepCalm
<1> USE DEF ResetInv, sources, tables
<1>idle. reset = "idle"
  BY <1>c DEF PinsKnown
<1>1. PinsKnown'
  BY <1>c DEF PinsKnown
<1>2. DagCleared'
  BY <1>c, CalmKeepsDag
<1>3. \A q \in Procs : q # p => JobCleared(q)'
  BY <1>c, CalmKeepsJob DEF JobsCleared
<1>4. ASSUME UNCHANGED runs PROVE RunsCleared' /\ AbsentRowsBlank'
  BY <1>4, <1>c, CalmKeepsRow DEF RunsCleared, AbsentRowsBlank
<1>5. ASSUME \/ job'[p].pc \in Ended \cup {"idle"}
             \/ /\ Committed(p)
                /\ job'[p].pc # "start"
                /\ job'[p].sim = job[p].sim /\ job'[p].day = job[p].day
                /\ job'[p].version = job[p].version
      PROVE  JobsCleared'
  BY <1>3, <1>5, <1>c, CalmKeepsJob DEF JobsCleared
<1>6. CASE JobStart(p)
  <2>1. CASE PinAccepted(job[p].pin, sim)
    <3>1. /\ job'[p].pc = "load" /\ job'[p].sim = sim
          /\ job'[p].day = job[p].day /\ job'[p].version = job[p].version
      BY <1>6, <1>t, <2>1 DEF JobStart
    <3>2. job[p].pc = "start" /\ job[p].pin = sim
      BY <1>6, <2>1, <1>c DEF JobStart, PinAccepted, PinsKnown
    <3>3. Cleared(job[p].day, job[p].version)
      BY <3>2 DEF JobsCleared, JobCleared
    <3>4. sim' = sim /\ verdicts' = verdicts /\ reached' = reached
      BY <1>6 DEF JobStart
    <3>5. JobCleared(p)'
      BY <3>1, <3>3, <3>4 DEF JobCleared, Cleared
    <3>6. QED
      BY <1>1, <1>2, <1>3, <1>4, <1>6, <3>5 DEF JobStart, JobsCleared
  <2>2. CASE ~PinAccepted(job[p].pin, sim)
    <3>1. job'[p].pc = "refused"
      BY <1>6, <1>t, <2>2 DEF JobStart, Goto
    <3>2. QED
      BY <1>1, <1>2, <1>4, <1>5, <1>6, <3>1 DEF JobStart, Ended
  <2>3. QED
    BY <2>1, <2>2
<1>7. CASE JobLoadDrop(p) \/ JobInsertRun(p) \/ JobReadArchive(p)
  <2>1. /\ Committed(p) /\ job'[p].pc # "start"
        /\ job'[p].sim = job[p].sim /\ job'[p].day = job[p].day
        /\ job'[p].version = job[p].version
    <3>1. \A pc : /\ Goto(p, pc)[p].pc = pc /\ Goto(p, pc)[p].sim = job[p].sim
                  /\ Goto(p, pc)[p].day = job[p].day
                  /\ Goto(p, pc)[p].version = job[p].version
      BY <1>t, GotoKeeps
    <3>2. CASE JobLoadDrop(p)
      BY <3>1, <3>2 DEF JobLoadDrop, Committed
    <3>3. CASE JobReadArchive(p)
      BY <1>t, <3>3 DEF JobReadArchive, Committed
    <3>4. CASE JobInsertRun(p)
      BY <1>t, <3>4 DEF JobInsertRun, Committed
    <3>5. QED
      BY <1>7, <3>2, <3>3, <3>4
  <2>2. UNCHANGED runs
    BY <1>7 DEF JobLoadDrop, JobInsertRun, JobReadArchive
  <2>3. QED
    BY <1>1, <1>2, <1>4, <1>5, <2>1, <2>2
<1>8. CASE JobOpenRun(p)
  <2>1. /\ Committed(p) /\ job'[p].pc # "start"
        /\ job'[p].sim = job[p].sim /\ job'[p].day = job[p].day
        /\ job'[p].version = job[p].version
    BY <1>8, <1>t, GotoKeeps DEF JobOpenRun, Committed
  <2>2. job[p].run \in RunIds =>
          /\ runs'[job[p].run].sim = job[p].sim /\ runs'[job[p].run].day = job[p].day
          /\ runs'[job[p].run].version = job[p].version
          /\ runs'[job[p].run].status = "running"
    BY <1>8 DEF JobOpenRun, NoRow
  <2>3. \A r \in RunIds : r # job[p].run =>
          /\ runs'[r].sim = runs[r].sim /\ runs'[r].day = runs[r].day
          /\ runs'[r].version = runs[r].version
          /\ runs'[r].status = "absent" <=> runs[r].status = "absent"
    BY <1>8, <1>t DEF JobOpenRun, Row, Supersedes
  <2>4. JobCleared(p)
    BY DEF JobsCleared
  <2>5. sim' = sim /\ verdicts' = verdicts /\ reached' = reached
    BY <1>8 DEF JobOpenRun
  <2>6. \A r \in RunIds : RunCleared(r)'
    <3> SUFFICES ASSUME NEW r \in RunIds PROVE RunCleared(r)'
      OBVIOUS
    <3>1. CASE r = job[p].run
      BY <2>1, <2>2, <2>4, <2>5, <3>1 DEF JobCleared, RunCleared, Cleared
    <3>2. CASE r # job[p].run
      BY <2>3, <3>2, <1>c, CalmKeepsRow, <1>idle, <1>8 DEF RunsCleared
    <3>3. QED
      BY <3>1, <3>2
  <2>7. AbsentRowsBlank'
    BY <2>2, <2>3 DEF AbsentRowsBlank
  <2>8. QED
    BY <1>1, <1>2, <1>5, <2>1, <2>6, <2>7 DEF RunsCleared
<1>9. CASE JobCommit(p) \/ JobRaises(p)
  <2> PICK pc \in {"ok", "error", "unacked"} :
         job' = Goto(p, pc) /\ (pc = "unacked" => JobCommit(p))
    BY <1>9 DEF JobCommit, JobRaises
  <2>1. job'[p].pc \in Ended \cup {"idle"} \/ (job'[p].pc = "unacked" /\ JobCommit(p))
    BY <1>t, GotoKeeps DEF Ended
  <2>2. /\ job'[p].sim = job[p].sim /\ job'[p].day = job[p].day
        /\ job'[p].version = job[p].version
    BY <1>t, GotoKeeps
  <2>3. JobsCleared'
    BY <1>5, <2>1, <2>2 DEF JobCommit, Committed
  <2>4. \A r \in RunIds :
          /\ runs'[r].sim = runs[r].sim /\ runs'[r].day = runs[r].day
          /\ runs'[r].version = runs[r].version
          /\ runs'[r].status = "absent" <=> runs[r].status = "absent"
    <3>1. CASE JobCommit(p)
      BY <1>t, <3>1 DEF JobCommit, RowExists, Row
    <3>2. CASE JobRaises(p)
      BY <1>t, <3>2 DEF JobRaises, MarkFailed, RowExists, Row
    <3>3. QED
      BY <1>9, <3>1, <3>2
  <2>5. RunsCleared' /\ AbsentRowsBlank'
    BY <2>4, <1>c, CalmKeepsRow DEF RunsCleared, AbsentRowsBlank
  <2>6. QED
    BY <1>1, <1>2, <2>3, <2>5
<1>10. CASE OrphanEnds(p)
  <2>1. job'[p].pc = "idle" /\ UNCHANGED runs
    BY <1>10, <1>t, NoJobType DEF OrphanEnds
  <2>2. QED
    BY <1>1, <1>2, <1>4, <1>5, <2>1
<1>11. QED
  BY <1>6, <1>7, <1>8, <1>9, <1>10 DEF JobStep

-----------------------------------------------------------------------------
(* The reset.                                                              *)

\* Every process dies and every pin becomes one of an earlier simulation.
LEMMA ResetClockKeeps ==
  ASSUME AirflowStopsForReset, TypeOK, ResetInv, ResetClock
  PROVE  ResetInv'
<1>t. dag \in DagRun /\ sim \in Nat
  BY DEF TypeOK
<1> USE DEF ResetInv, tables
<1>1. /\ sim' = sim + 1 /\ reset' = "stores" /\ UNCHANGED runs
      /\ \A p \in Procs : job'[p].pc = "idle"
      /\ dag' = AttemptFailed \/ dag' = dag
  BY NoJobType DEF ResetClock
<1>2. dag'.task # "none" => dag.task # "none" /\ dag'.pin = dag.pin
  BY <1>t, <1>1, DagRunKeeps
<1>3. PinsKnown'
  BY <1>t, <1>1, <1>2 DEF PinsKnown
<1>4. DagCleared' /\ JobsCleared' /\ RunsCleared' /\ AbsentRowsBlank'
  BY <1>1 DEF DagCleared, JobsCleared, JobCleared, Committed, RunsCleared, AbsentRowsBlank
<1>5. QED
  BY <1>3, <1>4

LEMMA ResetStepKeeps ==
  ASSUME TypeOK, ResetInv, ResetStep
  PROVE  ResetInv'
<1> USE DEF ResetInv, tables, airflow
<1>1. /\ reset # "idle" /\ UNCHANGED <<sim, job, dag>>
  BY DEF ResetStep, ResetStores, ResetTables
<1>2. \A p \in Procs : job[p].pc = "idle"
  BY <1>1 DEF PinsKnown
<1>3. PinsKnown' /\ JobsCleared'
  BY <1>1, <1>2 DEF PinsKnown, JobsCleared, JobCleared, Committed
<1>4. DagCleared'
  BY <1>1 DEF PinsKnown, DagCleared
<1>5. RunsCleared' /\ AbsentRowsBlank'
  <2>1. CASE ResetStores
    BY <2>1 DEF ResetStores, RunsCleared, AbsentRowsBlank
  <2>2. CASE ResetTables
    <3>1. \A r \in RunIds : runs'[r].status = "absent" /\ runs'[r].day = 0
      BY <2>2 DEF ResetTables, NoRow
    <3>2. QED
      BY <3>1 DEF RunsCleared, RunCleared, AbsentRowsBlank
  <2>3. QED
    BY <2>1, <2>2 DEF ResetStep
<1>6. QED
  BY <1>3, <1>4, <1>5

LEMMA InitReset == Init => ResetInv
<1> SUFFICES ASSUME Init PROVE ResetInv
  OBVIOUS
<1>1. /\ dag.task = "none"
      /\ \A p \in Procs : job[p].pc = "idle"
      /\ \A r \in RunIds : runs[r].status = "absent" /\ runs[r].day = 0
  BY DEF Init, NoDag, NoJob, NoRow
<1>2. QED
  BY <1>1 DEF ResetInv, PinsKnown, DagCleared, JobsCleared, JobCleared, Committed,
              RunsCleared, RunCleared, AbsentRowsBlank

LEMMA ResetInvariant ==
  ASSUME AirflowStopsForReset, ~BlankRuns
  PROVE  Spec => []ResetInv
<1>1. Init => ResetInv
  BY InitReset
<1>2. TypeOK /\ ResetInv /\ [Next]_vars => ResetInv'
  BY SourcesKeep, TriggerKeeps, PlainDagKeeps, WaitForArchiveKeeps, QualityGateKeeps,
     SpawnJobKeeps, ReadExitCodeKeeps, TaskDiesKeeps, JobStepKeeps, ResetClockKeeps,
     ResetStepKeeps
     DEF Next, DagStep, PlainDagStep
<1>3. QED
  BY <1>1, <1>2, TypeCorrect, PTL DEF Spec

\* With Airflow stopped for every reset and every run pinned, no run crosses
\* into a simulation it was not triggered for: once a reset is through, all
\* rows belong to the simulation it started.
THEOREM LeftoverWritesNothing ==
  ASSUME AirflowStopsForReset, ~BlankRuns
  PROVE  Spec => []LeftoverRunWritesNothing
<1>1. ResetInv => LeftoverRunWritesNothing
  BY DEF ResetInv, RunsCleared, RunCleared, LeftoverRunWritesNothing
<1>2. QED
  BY <1>1, ResetInvariant, PTL

\* Under the same conditions no day is settled before the stream of its
\* simulation has passed its end.
THEOREM SettledOnlyWhenOver ==
  ASSUME AirflowStopsForReset, ~BlankRuns
  PROVE  Spec => []SettledDayIsOver
<1>1. TypeOK /\ ResetInv => SettledDayIsOver
  <2> SUFFICES ASSUME TypeOK, ResetInv, reset = "idle", NEW r \in RunIds
               PROVE  runs[r].day <= reached
    BY DEF SettledDayIsOver
  <2>1. CASE runs[r].status = "absent"
    BY <2>1 DEF ResetInv, AbsentRowsBlank, TypeOK
  <2>2. CASE runs[r].status # "absent"
    BY <2>2 DEF ResetInv, RunsCleared, RunCleared, Cleared
  <2>3. QED
    BY <2>1, <2>2
<1>2. QED
  BY <1>1, ResetInvariant, TypeCorrect, PTL

\* And every run is backed by a passing verdict on the version it bills.
THEOREM GatedBeforeSettled ==
  ASSUME AirflowStopsForReset, ~BlankRuns
  PROVE  Spec => []VerdictBacksRun
<1>1. ResetInv => VerdictBacksRun
  BY DEF ResetInv, RunsCleared, RunCleared, Cleared, VerdictBacksRun
<1>2. QED
  BY <1>1, ResetInvariant, PTL

-----------------------------------------------------------------------------
(* Reports.                                                                *)
(*                                                                         *)
(* The DAG passes a run from task to task by its number.  What it relies   *)
(* on: no process works on the run any more, and it has either succeeded   *)
(* or lost its row to a reset, after which every task that looks for it    *)
(* raises.                                                                 *)

\* p has opened a run, or is about to, and may still change its row.
Owns(p) == job[p].pc \in {"inserted", "read", "commit", "unacked"}

OwnersApart ==
  /\ \A p \in Procs : Owns(p) => job[p].run \in RunIds /\ job[p].run < nextRun
  /\ \A p, q \in Procs : Owns(p) /\ Owns(q) /\ p # q => job[p].run # job[q].run

HeldRun(r) ==
  /\ r \in RunIds /\ r < nextRun /\ runs[r].status \in {"absent", "succeeded"}
  /\ \A p \in Procs : Owns(p) => job[p].run # r

DagHolds ==
  dag.task \in {"reconcile", "report", "record_report"} =>
    /\ HeldRun(dag.run)
    /\ RowExists(dag.run) =>
         /\ dag.task # "reconcile" => dag.run \in reconciled
         /\ dag.task = "record_report" /\ reset # "tables" => dag.run \in objects

JobsHold == \A p \in Procs : job[p].pc = "ok" => HeldRun(job[p].run)

\* While a reset has cleared the objects and not yet the tables, what is listed
\* cannot be fetched.
Listed ==
  /\ \A r \in reports : HeldRun(r) /\ r \in reconciled \cap Succeeded
  /\ reset # "tables" => reports \subseteq objects

ReportsInv == OwnersApart /\ DagHolds /\ JobsHold /\ Listed

\* The processes that own a run after a step owned it before, the one that has
\* just inserted it apart.
LEMMA NextKeepsOwners ==
  ASSUME TypeOK, RunsInv, OwnersApart, [Next]_vars
  PROVE  /\ OwnersApart'
         /\ \A p \in Procs : Owns(p)' =>
              \/ Owns(p) /\ job'[p].run = job[p].run
              \/ job'[p].run = nextRun
<1>t. job \in [Procs -> Job] /\ nextRun \in Nat
  BY DEF TypeOK
<1>1. ASSUME nextRun' = nextRun,
             \A p \in Procs : Owns(p)' => Owns(p) /\ job'[p].run = job[p].run
      PROVE  OwnersApart'
  BY <1>1 DEF OwnersApart
<1>2. CASE QuietAction
  <2>1. Quiet
    BY <1>2, QuietActionsAreQuiet
  <2>2. QED
    BY <1>1, <2>1 DEF Quiet, QuietMove, Owns, Ended
<1>3. ASSUME NEW p \in Procs, JobInsertRun(p)
      PROVE  /\ OwnersApart'
             /\ \A q \in Procs : Owns(q)' => \/ Owns(q) /\ job'[q].run = job[q].run
                                             \/ job'[q].run = nextRun
  <2>1. /\ job'[p].run = nextRun /\ nextRun \in RunIds /\ nextRun' = nextRun + 1
        /\ \A q \in Procs : q # p => job'[q] = job[q]
    BY <1>3, <1>t DEF JobInsertRun
  <2>2. \A q \in Procs : q # p /\ Owns(q)' =>
          /\ Owns(q) /\ job'[q].run = job[q].run
          /\ job[q].run \in RunIds /\ job[q].run < nextRun
    BY <2>1 DEF OwnersApart, Owns
  <2>3. \A r \in RunIds : r < nextRun => r < nextRun + 1
    BY <1>t DEF RunIds
  <2>4. \A q \in Procs : Owns(q)' => job'[q].run \in RunIds /\ job'[q].run < nextRun'
    <3> SUFFICES ASSUME NEW q \in Procs, Owns(q)'
                 PROVE  job'[q].run \in RunIds /\ job'[q].run < nextRun + 1
      BY <2>1
    <3>1. CASE q = p
      BY <1>t, <2>1, <3>1
    <3>2. CASE q # p
      BY <2>2, <2>3, <3>2
    <3>3. QED
      BY <3>1, <3>2
  <2>5. \A q, s \in Procs : Owns(q)' /\ Owns(s)' /\ q # s => job'[q].run # job'[s].run
    BY <1>t, <2>1, <2>2 DEF OwnersApart
  <2>6. QED
    BY <2>1, <2>2, <2>4, <2>5 DEF OwnersApart
<1>4. ASSUME NEW p \in Procs, JobCommit(p) \/ JobRaises(p)
      PROVE  /\ nextRun' = nextRun
             /\ \A q \in Procs : Owns(q)' => Owns(q) /\ job'[q].run = job[q].run
  <2> PICK pc \in Ended \cup {"unacked"} :
         job' = Goto(p, pc) /\ (JobRaises(p) => pc = "error")
    BY <1>4 DEF JobCommit, JobRaises, Ended
  <2>1. /\ nextRun' = nextRun
        /\ \A q \in Procs : job'[q].run = job[q].run /\ (q # p => job'[q] = job[q])
    BY <1>4, <1>t DEF JobCommit, JobRaises, Goto, Job
  <2>2. Owns(p)' => Owns(p)
    BY <1>4, <1>t, GotoKeeps DEF JobCommit, Owns, Ended
  <2>3. QED
    BY <2>1, <2>2 DEF Owns
<1>5. CASE ResetTables
  BY <1>1, <1>5 DEF ResetTables, airflow, Owns
<1>6. ASSUME NEW p \in Procs, JobOpenRun(p)
      PROVE  /\ nextRun' = nextRun
             /\ \A q \in Procs : Owns(q)' => Owns(q) /\ job'[q].run = job[q].run
  <2>1. /\ nextRun' = nextRun /\ Owns(p) /\ job'[p].run = job[p].run
        /\ \A q \in Procs : q # p => job'[q] = job[q]
    BY <1>6, <1>t DEF JobOpenRun, Goto, Owns
  <2>2. QED
    BY <2>1 DEF Owns
<1>7. QED
  BY <1>1, <1>2, <1>3, <1>4, <1>5, <1>6, NextIsQuietOr

\* A run that is held stays held, and its row as it is until the tables are
\* cleared.
LEMMA NextKeepsHeld ==
  ASSUME TypeOK, RunsInv, OwnersApart, [Next]_vars, NEW r, HeldRun(r)
  PROVE  /\ HeldRun(r)'
         /\ runs'[r] = runs[r] \/ ResetTables
<1>t. /\ runs \in [RunIds -> Row] /\ job \in [Procs -> Job] /\ nextRun \in Nat
      /\ r \in RunIds /\ r \in Nat /\ r # nextRun
  BY DEF TypeOK, HeldRun, RunIds
<1>1. \A p \in Procs : Owns(p)' => job'[p].run # r
  BY <1>t, NextKeepsOwners DEF HeldRun
<1>2. ASSUME nextRun' \in {nextRun, nextRun + 1}, runs'[r] = runs[r]
      PROVE  HeldRun(r)'
  BY <1>t, <1>1, <1>2 DEF HeldRun
<1>3. CASE QuietAction
  <2>1. Quiet
    BY <1>3, QuietActionsAreQuiet
  <2>2. QED
    BY <1>2, <2>1 DEF Quiet
<1>4. ASSUME NEW p \in Procs, JobOpenRun(p) PROVE HeldRun(r)' /\ runs'[r] = runs[r]
  <2>1. ~Supersedes(p, r)
    BY DEF Supersedes, HeldRun
  <2>2. job[p].run # r
    BY <1>4 DEF HeldRun, JobOpenRun, Owns
  <2>3. QED
    BY <1>2, <1>4, <1>t, <2>1, <2>2 DEF JobOpenRun
<1>5. ASSUME NEW p \in Procs, JobCommit(p) PROVE HeldRun(r)' /\ runs'[r] = runs[r]
  <2>1. job[p].run # r
    BY <1>5 DEF HeldRun, JobCommit, Owns
  <2>2. QED
    BY <1>2, <1>5, <1>t, <2>1 DEF JobCommit, RowExists
<1>6. ASSUME NEW p \in Procs, JobRaises(p) PROVE HeldRun(r)' /\ runs'[r] = runs[r]
  <2>1. job[p].run # r
    <3>1. Owns(p) \/ job[p].pc \in {"start", "load", "open"}
      BY <1>6 DEF JobRaises, Working, Pcs, Ended, Owns
    <3>2. r # 0
      BY <1>t DEF RunIds
    <3>3. QED
      BY <3>1, <3>2 DEF HeldRun, RunsInv, UnopenedHoldNone
  <2>2. nextRun' = nextRun /\ runs' \in {runs, [runs EXCEPT ![job[p].run].status = "failed"]}
    BY <1>6 DEF JobRaises, MarkFailed
  <2>3. [runs EXCEPT ![job[p].run].status = "failed"][r] = runs[r]
    BY <1>t, <2>1
  <2>4. runs'[r] = runs[r]
    BY <2>2, <2>3
  <2>5. nextRun' = nextRun
    BY <1>6 DEF JobRaises
  <2>6. QED
    BY <1>2, <2>4, <2>5
<1>7. CASE ResetTables
  <2>1. nextRun' = nextRun /\ \A s \in RunIds : runs'[s].status = "absent"
    BY <1>7, NoRowType DEF ResetTables
  <2>2. QED
    BY <1>t, <1>1, <1>7, <2>1 DEF HeldRun
<1>8. ASSUME NEW p \in Procs, JobInsertRun(p) PROVE HeldRun(r)' /\ runs'[r] = runs[r]
  BY <1>2, <1>8 DEF JobInsertRun
<1>9. QED
  BY <1>3, <1>4, <1>5, <1>6, <1>7, <1>8, NextIsQuietOr

\* A step of the DAG or of a reset that hands no run on.
DagStays ==
  dag'.task \in {"reconcile", "report", "record_report"} =>
    /\ dag.task \in {"reconcile", "report", "record_report"} /\ dag'.run = dag.run
    /\ dag.task = "reconcile" => dag'.task = "reconcile"
    /\ dag'.task = "record_report" => dag.task = "record_report"

\* What it has been given stays given, except by ResetStores, which leaves the
\* objects' clause void, and ResetTables, after which no row exists.
LEMMA DagStaysHolds ==
  ASSUME TypeOK, RunsInv, OwnersApart, [Next]_vars, DagHolds, DagStays,
         \/ /\ reconciled \subseteq reconciled' /\ objects \subseteq objects'
            /\ reset' # "tables" => reset # "tables"
         \/ reconciled \subseteq reconciled' /\ reset' = "tables"
         \/ ResetTables
  PROVE  DagHolds'
<1> SUFFICES ASSUME dag'.task \in {"reconcile", "report", "record_report"},
                    NEW r, r = dag.run
             PROVE  /\ HeldRun(r)'
                    /\ RowExists(r)' =>
                         /\ dag'.task # "reconcile" => r \in reconciled'
                         /\ dag'.task = "record_report" /\ reset' # "tables"
                              => r \in objects'
  BY DEF DagStays, DagHolds, HeldRun, RowExists
<1>1. HeldRun(r)
  BY DEF DagHolds, DagStays
<1>2. HeldRun(r)' /\ (runs'[r] = runs[r] \/ ResetTables)
  BY <1>1, NextKeepsHeld
<1>3. CASE ResetTables
  BY <1>2, <1>3, NoRowType DEF ResetTables, RowExists
<1>4. CASE ~ResetTables
  BY <1>2, <1>4 DEF DagHolds, DagStays, RowExists
<1>5. QED
  BY <1>3, <1>4

\* What is listed stays so while the tables are not cleared.
LEMMA ListedStays ==
  ASSUME TypeOK, RunsInv, ReportsInv, [Next]_vars, ~ResetTables,
         reports' = reports, reconciled \subseteq reconciled',
         reset' # "tables" => reset # "tables" /\ objects \subseteq objects'
  PROVE  Listed'
<1>1. ASSUME NEW r \in reports PROVE HeldRun(r)' /\ r \in (reconciled \cap Succeeded)'
  <2>1. HeldRun(r)' /\ runs'[r] = runs[r]
    BY <1>1, NextKeepsHeld DEF ReportsInv, Listed
  <2>2. QED
    BY <1>1, <2>1 DEF ReportsInv, Listed, Succeeded
<1>2. QED
  BY <1>1 DEF ReportsInv, Listed

\* The steps that neither start, read nor record anything of a report.
LEMMA DagKeepsReports ==
  ASSUME TypeOK, RunsInv, ReportsInv, [Next]_vars, DagStep \/ TaskDies
  PROVE  DagHolds' /\ Listed'
<1>t. /\ dag \in DagRun /\ runs \in [RunIds -> Row]
      /\ \A task \in Tasks : Proceed(task).task = task
      /\ NoDag.task = "none"
  BY DagRunKeeps DEF TypeOK
<1>a. /\ AttemptFailed.task \in {"reconcile", "report"} =>
           /\ dag.task \in {"reconcile", "report", "record_report"}
           /\ AttemptFailed.run = dag.run
           /\ dag.task = "reconcile" => AttemptFailed.task = "reconcile"
      /\ AttemptFailed.task # "record_report"
  BY <1>t DEF AttemptFailed, DagRun
<1> USE DEF sources, tables
<1>r. ~ResetTables /\ reset' = reset
  BY DEF DagStep, TaskDies, WaitForDrop, WaitForArchive, SensorTimesOut, QualityGate, SpawnJob,
         ReadExitCode, Reconcile, Report, RecordReport, ResetTables
<1>h. \A r : HeldRun(r) => HeldRun(r)'
  BY NextKeepsHeld DEF ReportsInv
<1>1. ASSUME DagStays, UNCHANGED <<reset, reconciled, objects, reports>>
      PROVE  DagHolds' /\ Listed'
  <2>1. DagHolds'
    BY <1>1, DagStaysHolds DEF ReportsInv
  <2>2. QED
    BY <1>1, <1>r, <2>1, ListedStays
<1>2. CASE WaitForDrop \/ WaitForArchive \/ SensorTimesOut
  BY <1>1, <1>2, <1>t DEF WaitForDrop, WaitForArchive, SensorTimesOut, DagStays, Tasks
<1>3. CASE QualityGate
  <2>1. dag' = NoDag \/ dag'.task = "settle"
    BY <1>3, <1>t DEF QualityGate, Proceed, DagRun
  <2>2. QED
    BY <1>1, <1>3, <1>t, <2>1 DEF QualityGate, DagStays
<1>4. ASSUME NEW p \in Procs, SpawnJob(p) PROVE DagHolds' /\ Listed'
  <2>1. dag'.task = "settle"
    BY <1>4, <1>t DEF SpawnJob, DagRun
  <2>2. QED
    BY <1>1, <1>4, <2>1 DEF SpawnJob, DagStays
<1>5. ASSUME NEW p \in Procs, ReadExitCode(p) PROVE DagHolds' /\ Listed'
  <2>1. UNCHANGED <<reset, runs, nextRun, reconciled, objects, reports>>
    BY <1>5 DEF ReadExitCode
  <2>2. CASE job[p].pc = "ok"
    <3>1. dag'.task = "reconcile" /\ dag'.run = job[p].run
      BY <1>5, <1>t, <2>2 DEF ReadExitCode, Proceed, DagRun
    <3> PICK r : r = job[p].run /\ HeldRun(r)
      BY <2>2 DEF ReportsInv, JobsHold
    <3>2. HeldRun(r)' /\ dag'.run = r
      BY <1>h, <3>1
    <3>3. Listed'
      BY <1>r, <2>1, ListedStays
    <3>4. QED
      BY <3>1, <3>2, <3>3 DEF DagHolds, HeldRun
  <2>3. CASE job[p].pc # "ok"
    <3>1. dag' = NoDag \/ dag' = AttemptFailed
      BY <1>5, <2>3 DEF ReadExitCode, Ended
    <3>2. QED
      BY <1>1, <1>a, <1>t, <2>1, <3>1 DEF DagStays
  <2>4. QED
    BY <2>2, <2>3
<1>6. CASE Reconcile
  <2>1. UNCHANGED <<reset, runs, nextRun, objects, reports>> /\ reconciled \subseteq reconciled'
    BY <1>6 DEF Reconcile
  <2>2. Listed'
    BY <1>r, <2>1, ListedStays
  <2>3. CASE RowExists(dag.run)
    <3>1. dag'.task = "report" /\ dag'.run = dag.run /\ dag.run \in reconciled'
      BY <1>6, <1>t, <2>3 DEF Reconcile, Proceed, DagRun
    <3> PICK r : r = dag.run /\ HeldRun(r)
      BY <1>6 DEF Reconcile, ReportsInv, DagHolds
    <3>2. HeldRun(r)' /\ dag'.run = r
      BY <1>h, <3>1
    <3>3. QED
      BY <2>2, <3>1, <3>2 DEF DagHolds, HeldRun
  <2>4. CASE ~RowExists(dag.run)
    BY <1>1, <1>6, <1>a, <2>1, <2>4 DEF Reconcile, DagStays
  <2>5. QED
    BY <2>3, <2>4
<1>7. CASE Report
  <2>1. UNCHANGED <<reset, runs, nextRun, reconciled, reports>> /\ objects \subseteq objects'
    BY <1>7 DEF Report
  <2>2. Listed'
    BY <1>r, <2>1, ListedStays
  <2>3. CASE RowExists(dag.run)
    <3>1. dag'.task = "record_report" /\ dag'.run = dag.run /\ dag.run \in objects'
      BY <1>7, <1>t, <2>3 DEF Report, DagRun
    <3> PICK r : r = dag.run /\ HeldRun(r) /\ r \in reconciled
      BY <1>7, <2>3 DEF Report, ReportsInv, DagHolds
    <3>2. HeldRun(r)' /\ dag'.run = r
      BY <1>h, <3>1
    <3>3. QED
      BY <2>1, <2>2, <3>1, <3>2 DEF DagHolds, HeldRun
  <2>4. CASE ~RowExists(dag.run)
    BY <1>1, <1>7, <1>a, <2>1, <2>4 DEF Report, DagStays
  <2>5. QED
    BY <2>3, <2>4
<1>8. CASE RecordReport
  <2>1. UNCHANGED <<reset, runs, nextRun, reconciled, objects>>
    BY <1>8 DEF RecordReport
  <2>2. DagHolds'
    BY <1>8, <1>a, <1>t, <2>1, DagStaysHolds DEF RecordReport, DagStays, ReportsInv
  <2>3. /\ reports' \subseteq reports \cup {dag.run}
        /\ reports' # reports => RowExists(dag.run)
    BY <1>8 DEF RecordReport
  <2>4. RowExists(dag.run) => /\ HeldRun(dag.run) /\ dag.run \in reconciled \cap Succeeded
                              /\ reset # "tables" => dag.run \in objects
    BY <1>8 DEF RecordReport, ReportsInv, DagHolds, HeldRun, RowExists, Succeeded
  <2>5. \A r \in reports' : HeldRun(r) /\ r \in reconciled \cap Succeeded
    BY <2>3, <2>4 DEF ReportsInv, Listed
  <2>6. Succeeded' = Succeeded
    BY <2>1 DEF Succeeded
  <2>7. QED
    BY <1>h, <2>1, <2>2, <2>3, <2>4, <2>5, <2>6 DEF ReportsInv, Listed
<1>9. CASE TaskDies
  BY <1>1, <1>9, <1>a DEF TaskDies, DagStays
<1>10. QED
  BY <1>2, <1>3, <1>4, <1>5, <1>6, <1>7, <1>8, <1>9 DEF DagStep

\* What a process or a reset does to the runs that are held or listed.
LEMMA OthersKeepReports ==
  ASSUME TypeOK, RunsInv, ReportsInv, [Next]_vars,
         \/ Sources \/ \E d \in Days, pin \in 0..MaxSims : TriggerRun(d, pin)
         \/ \E p \in Procs : JobStep(p)
         \/ ResetClock \/ ResetStep \/ UNCHANGED vars
  PROVE  DagHolds' /\ Listed'
<1>t. /\ dag \in DagRun /\ runs \in [RunIds -> Row]
      /\ NoDag.task = "none"
  BY DagRunKeeps DEF TypeOK
<1> USE DEF sources, tables, airflow
<1>1. ASSUME UNCHANGED <<reconciled, objects, reports>>, ~ResetTables,
             DagStays, reset' # "tables" => reset # "tables"
      PROVE  DagHolds' /\ Listed'
  <2>1. DagHolds'
    BY <1>1, DagStaysHolds DEF ReportsInv
  <2>2. QED
    BY <1>1, <2>1, ListedStays
<1>r. reset' = reset => ~ResetTables
  BY DEF ResetTables
<1>2. CASE Sources \/ UNCHANGED vars
  BY <1>1, <1>2, <1>r DEF Sources, PublishDrop, ArchiveReading, StreamPassesDay, vars, DagStays
<1>3. ASSUME NEW d \in Days, NEW pin \in 0..MaxSims, TriggerRun(d, pin)
      PROVE  DagHolds' /\ Listed'
  BY <1>1, <1>3, <1>r, <1>t DEF TriggerRun, DagStays, NoDag
<1>4. ASSUME NEW p \in Procs, JobStep(p) PROVE DagHolds' /\ Listed'
  <2>1. UNCHANGED <<dag, reset, reconciled, objects, reports>>
    BY <1>4 DEF JobStep, JobStart, JobLoadDrop, JobInsertRun, JobOpenRun,
                JobReadArchive, JobCommit, JobRaises, OrphanEnds
  <2>2. QED
    BY <1>1, <1>r, <2>1 DEF DagStays
<1>5. CASE ResetClock
  <2>1. /\ UNCHANGED <<reconciled, objects, reports>>
        /\ reset = "idle" /\ reset' = "stores"
        /\ dag' = dag \/ dag' = AttemptFailed
    BY <1>5 DEF ResetClock
  <2>2. DagStays
    BY <1>t, <2>1 DEF DagStays, AttemptFailed, DagRun
  <2>3. QED
    BY <1>1, <2>1, <2>2 DEF ResetTables
<1>6. CASE ResetStores
  <2>1. UNCHANGED <<dag, reconciled, reports>> /\ reset = "stores" /\ reset' = "tables"
    BY <1>6 DEF ResetStores
  <2>2. DagHolds'
    BY <2>1, DagStaysHolds DEF DagStays, ReportsInv
  <2>3. QED
    BY <2>1, <2>2, ListedStays DEF ResetTables
<1>7. CASE ResetTables
  <2>1. UNCHANGED dag /\ reports' = {}
    BY <1>7 DEF ResetTables
  <2>2. DagHolds'
    BY <1>7, <2>1, DagStaysHolds DEF DagStays, ReportsInv
  <2>3. QED
    BY <2>1, <2>2 DEF Listed
<1>8. QED
  BY <1>2, <1>3, <1>4, <1>5, <1>6, <1>7 DEF ResetStep

\* A process ends well only by a commit that was acknowledged.
LEMMA JobsKeepHeld ==
  ASSUME TypeOK, RunsInv, ReportsInv, [Next]_vars
  PROVE  JobsHold'
<1> SUFFICES ASSUME NEW p \in Procs, job'[p].pc = "ok", NEW r, r = job'[p].run
             PROVE  HeldRun(r)'
  BY DEF JobsHold, HeldRun
<1>t. job \in [Procs -> Job] /\ runs \in [RunIds -> Row]
  BY DEF TypeOK
<1>1. ASSUME job[p].pc = "ok", job[p].run = r PROVE HeldRun(r)'
  <2>1. HeldRun(r)
    BY <1>1 DEF ReportsInv, JobsHold
  <2>2. QED
    BY <2>1, NextKeepsHeld DEF ReportsInv
<1>2. CASE job'[p] = job[p]
  BY <1>1, <1>2
<1>3. ASSUME NEW q \in Procs, JobCommit(q), job'[p] # job[p] PROVE HeldRun(r)'
  <2>1. p = q /\ r = job[p].run /\ \A s \in Procs : s # p => job'[s] = job[s]
    BY <1>3, <1>t DEF JobCommit, Goto
  <2>2. Owns(p) /\ RowExists(r) /\ runs'[r].status = "succeeded" /\ nextRun' = nextRun
    BY <1>3, <1>t, <2>1 DEF JobCommit, RowExists, Owns, Row
  <2>3. \A s \in Procs : Owns(s)' => s # p /\ Owns(s)
    BY <2>1 DEF Owns
  <2>4. QED
    BY <2>1, <2>2, <2>3 DEF ReportsInv, OwnersApart, HeldRun
<1>4. CASE job'[p] # job[p] /\ ~\E q \in Procs : JobCommit(q)
  <2> USE DEF sources, tables, airflow
  <2>1. ASSUME NEW q \in Procs, JobStep(q), q # p PROVE FALSE
    BY <1>4, <1>t, <2>1, JobStepCalm
  <2>2. ASSUME JobStep(p) PROVE FALSE
    <3>1. \A pc : Goto(p, pc)[p].pc = pc
      BY <1>t, GotoKeeps
    <3>2. CASE JobStart(p)
      BY <1>t, <3>1, <3>2 DEF JobStart
    <3>3. CASE JobLoadDrop(p) \/ JobOpenRun(p) \/ JobRaises(p)
      BY <3>1, <3>3 DEF JobLoadDrop, JobOpenRun, JobRaises
    <3>4. CASE JobInsertRun(p)
      BY <1>t, <3>4 DEF JobInsertRun
    <3>5. CASE JobReadArchive(p)
      BY <1>t, <3>5 DEF JobReadArchive
    <3>6. CASE OrphanEnds(p)
      BY <1>t, <3>6, NoJobType DEF OrphanEnds
    <3>7. QED
      BY <1>4, <2>2, <3>2, <3>3, <3>4, <3>5, <3>6 DEF JobStep
  <2>3. ASSUME NEW q \in Procs, SpawnJob(q) \/ ReadExitCode(q) PROVE FALSE
    BY <1>4, <1>t, <2>3, NoJobType DEF SpawnJob, ReadExitCode, NoJob
  <2>4. ASSUME UNCHANGED job PROVE FALSE
    BY <1>4, <2>4
  <2>5. ASSUME TaskDies \/ ResetClock PROVE FALSE
    BY <1>4, <1>t, <2>5, NoJobType DEF TaskDies, ResetClock
  <2>6. ASSUME Sources PROVE FALSE
    BY <2>4, <2>6 DEF Sources, PublishDrop, ArchiveReading, StreamPassesDay
  <2>7. ASSUME NEW d \in Days, NEW pin \in 0..MaxSims, TriggerRun(d, pin) PROVE FALSE
    BY <2>4, <2>7 DEF TriggerRun
  <2>8. ASSUME DagStep PROVE FALSE
    BY <2>3, <2>4, <2>8 DEF DagStep, WaitForDrop, WaitForArchive, SensorTimesOut,
                            QualityGate, Reconcile, Report, RecordReport
  <2>9. ASSUME ResetStep \/ UNCHANGED vars PROVE FALSE
    BY <2>4, <2>9 DEF ResetStep, ResetStores, ResetTables, vars
  <2>10. QED
    BY <2>1, <2>2, <2>5, <2>6, <2>7, <2>8, <2>9 DEF Next
<1>5. QED
  BY <1>2, <1>3, <1>4

\* A report that is listed can be fetched and is of a run that succeeded and was
\* reconciled, whoever is killed, retried, orphaned or interrupted by a reset, and
\* whether or not commits are acknowledged: a process that takes its own commit
\* for a failure never tells the DAG of its run.
THEOREM ListedReportsAreThere == Spec => []ReportsAreComplete
<1>1. Init => ReportsInv
  BY NoJobType DEF Init, ReportsInv, OwnersApart, Owns, DagHolds, JobsHold, Listed, NoDag
<1>2. TypeOK /\ RunsInv /\ ReportsInv /\ [Next]_vars => ReportsInv'
  BY NextKeepsOwners, DagKeepsReports, OthersKeepReports, JobsKeepHeld DEF Next, ReportsInv
<1>3. ReportsInv => ReportsAreComplete
  BY DEF ReportsInv, Listed, ReportsAreComplete
<1>4. QED
  BY <1>1, <1>2, <1>3, TypeCorrect, RunsInvariant, PTL DEF Spec

-----------------------------------------------------------------------------
(* Settlement implements BillLedger.                                       *)
(*                                                                         *)
(* An entry is only added by a commit.  That it is later than all entries  *)
(* of its day follows from the ids: the one process at work holds the last *)
(* id given out.  That it rests on no older drop and on no fewer readings  *)
(* is a matter of order: what the book rests on was in the sources when    *)
(* the gate chose the version and when the process read the archive, and   *)
(* the book has not changed in between.                                    *)

NoneDuringReset == reset # "idle" => \A p \in Procs : job[p].pc = "idle"

SourcesBounded ==
  \A d \in Days : Len(drops[d]) <= MaxVersions /\ archive[d] <= MaxReadings

JobsMatchDag ==
  \A p \in Procs : job[p].pc # "idle" =>
    job[p].day = dag.day /\ job[p].version = dag.version

\* The sources still hold what the settled runs rest on.
RowBacked(r) ==
  /\ runs[r].day \in Days
  /\ runs[r].version \in 1..Len(drops[runs[r].day])
  /\ runs[r].readings <= archive[runs[r].day]

BookBacked == reset = "idle" => \A r \in Succeeded : RowBacked(r)

\* The version the gate chose is no older than any that is settled.
DagFollows ==
  dag.task = "settle" =>
    \A r \in Succeeded : runs[r].day = dag.day => runs[r].version <= dag.version

\* Where a process stands that has found its drop good.
Gated == {"open", "inserted", "read", "commit"}

WorkerFollows(p) ==
  /\ job[p].pc \in Gated => job[p].version \in 1..Len(drops[job[p].day])
  /\ Writes(p) => job[p].run + 1 = nextRun
  /\ job[p].pc \in {"read", "commit"} =>
       /\ runs[job[p].run].day = job[p].day
       /\ runs[job[p].run].version = job[p].version
  /\ job[p].pc = "commit" =>
       /\ job[p].readings <= archive[job[p].day]
       /\ \A r \in Succeeded :
            runs[r].day = job[p].day => runs[r].readings <= job[p].readings

WorkersFollow == \A p \in Procs : WorkerFollows(p)

LedgerInv ==
  /\ NoneDuringReset /\ SourcesBounded /\ JobsMatchDag
  /\ BookBacked /\ DagFollows /\ WorkersFollow

LEMMA InitLedger == Init => LedgerInv
<1> SUFFICES ASSUME Init PROVE LedgerInv
  OBVIOUS
<1>1. /\ \A p \in Procs : job[p].pc = "idle"
      /\ Succeeded = {} /\ dag.task = "none"
  BY NoJobType, NoRowType DEF Init, Succeeded, NoDag
<1>2. SourcesBounded
  BY BoundsAssumption DEF Init, SourcesBounded
<1>3. QED
  BY <1>1, <1>2 DEF LedgerInv, NoneDuringReset, JobsMatchDag, BookBacked, DagFollows,
                    WorkersFollow, WorkerFollows, Gated, Writes

\* Steps that change no row and take nothing from the sources.
Growing ==
  /\ UNCHANGED <<runs, nextRun>>
  /\ \A d \in Days : Len(drops[d]) <= Len(drops'[d]) /\ archive[d] <= archive'[d]
  /\ reset' = "idle" => reset = "idle"

LEMMA GrowingKeepsBook ==
  ASSUME TypeOK, TypeOK', BookBacked, Growing
  PROVE  BookBacked'
<1> SUFFICES ASSUME reset' = "idle", NEW r \in Succeeded PROVE RowBacked(r)'
  BY DEF BookBacked, Growing, Succeeded
<1> DEFINE d == runs[r].day
<1>1. /\ d \in Days /\ runs'[r] = runs[r] /\ runs[r] \in Row
      /\ runs[r].version \in 1..Len(drops[d]) /\ runs[r].readings <= archive[d]
  BY DEF Growing, BookBacked, RowBacked, Succeeded, TypeOK
<1>2. /\ Len(drops[d]) \in Nat /\ Len(drops'[d]) \in Nat /\ Len(drops[d]) <= Len(drops'[d])
      /\ archive[d] \in Nat /\ archive'[d] \in Nat /\ archive[d] <= archive'[d]
  BY <1>1 DEF TypeOK, Growing
<1>3. runs[r].version \in 1..Len(drops'[d]) /\ runs[r].readings <= archive'[d]
  BY <1>1, <1>2 DEF Row
<1>4. QED
  BY <1>1, <1>3 DEF RowBacked

LEMMA GrowingKeepsWorkers ==
  ASSUME TypeOK, TypeOK', WorkersFollow, Growing,
         \A p \in Procs : job'[p] = job[p] \/ job'[p].pc \notin Gated
  PROVE  WorkersFollow'
<1> SUFFICES ASSUME NEW p \in Procs PROVE WorkerFollows(p)'
  BY DEF WorkersFollow
<1>1. CASE job'[p].pc \notin Gated
  BY <1>1 DEF WorkerFollows, Gated, Writes
<1>2. CASE job'[p] = job[p] /\ job[p].pc \in Gated
  <2> DEFINE d == job[p].day
  <2>1. d \in Days /\ job[p] \in Job /\ WorkerFollows(p)
    BY <1>2 DEF TypeOK, WorkersFollow, Gated
  <2>2. /\ Len(drops[d]) \in Nat /\ Len(drops'[d]) \in Nat
        /\ Len(drops[d]) <= Len(drops'[d])
        /\ archive[d] \in Nat /\ archive'[d] \in Nat /\ archive[d] <= archive'[d]
    BY <2>1 DEF TypeOK, Growing
  <2>3. /\ job[p].version \in 1..Len(drops'[d])
        /\ job[p].pc = "commit" => job[p].readings <= archive'[d]
    BY SMTT(30), <1>2, <2>1, <2>2 DEF WorkerFollows, Gated, Job
  <2>4. /\ job'[p] = job[p] /\ runs' = runs /\ nextRun' = nextRun
        /\ Succeeded' = Succeeded
    BY <1>2 DEF Growing, Succeeded
  <2>5. QED
    BY <2>1, <2>3, <2>4 DEF WorkerFollows, Gated, Writes
<1>3. QED
  BY <1>1, <1>2

LEMMA SourcesKeepLedger ==
  ASSUME TypeOK, TypeOK', LedgerInv, Sources \/ UNCHANGED vars
  PROVE  LedgerInv'
<1> USE DEF LedgerInv, airflow, tables
<1>t. /\ drops \in [Days -> Seq({"good", "bad"})] /\ archive \in [Days -> Nat]
      /\ drops' \in [Days -> Seq({"good", "bad"})] /\ archive' \in [Days -> Nat]
  BY DEF TypeOK
<1>1. UNCHANGED <<reset, runs, nextRun, dag, job>>
  BY DEF Sources, PublishDrop, ArchiveReading, StreamPassesDay, vars
<1>2. SourcesBounded' /\ Growing
  <2>1. ASSUME NEW d \in Days, NEW verdict \in {"good", "bad"}, PublishDrop(d, verdict)
        PROVE  SourcesBounded' /\ Growing
    <3>1. /\ Len(drops[d]) \in Nat /\ Len(drops[d]) < MaxVersions
          /\ Len(drops'[d]) = Len(drops[d]) + 1
          /\ \A e \in Days : e # d => drops'[e] = drops[e]
          /\ archive' = archive
      BY <1>t, <2>1 DEF PublishDrop
    <3>2. \A e \in Days : Len(drops[e]) \in Nat /\ archive[e] \in Nat
      BY <1>t
    <3>3. \A e \in Days : /\ Len(drops[e]) <= Len(drops'[e])
                          /\ Len(drops[e]) <= MaxVersions => Len(drops'[e]) <= MaxVersions
      <4> SUFFICES ASSUME NEW e \in Days
                   PROVE  /\ Len(drops[e]) <= Len(drops'[e])
                          /\ Len(drops[e]) <= MaxVersions => Len(drops'[e]) <= MaxVersions
        OBVIOUS
      <4>1. CASE e = d
        BY <3>1, <3>2, <4>1, BoundsAssumption
      <4>2. CASE e # d
        BY <3>1, <3>2, <4>2
      <4>3. QED
        BY <4>1, <4>2
    <3>4. QED
      BY <1>1, <3>1, <3>2, <3>3 DEF SourcesBounded, Growing
  <2>2. ASSUME NEW d \in Days, ArchiveReading(d) PROVE SourcesBounded' /\ Growing
    <3>1. /\ drops' = drops /\ archive[d] < MaxReadings /\ archive'[d] = archive[d] + 1
          /\ \A e \in Days : e # d => archive'[e] = archive[e]
      BY <1>t, <2>2 DEF ArchiveReading
    <3>2. \A e \in Days : Len(drops[e]) \in Nat /\ archive[e] \in Nat
      BY <1>t
    <3>3. QED
      BY SMTT(30), <1>t, <1>1, <3>1, <3>2, BoundsAssumption DEF SourcesBounded, Growing
  <2>3. CASE StreamPassesDay \/ UNCHANGED vars
    <3>1. UNCHANGED <<drops, archive>>
      BY <2>3 DEF StreamPassesDay, vars, sources
    <3>2. \A e \in Days : Len(drops[e]) \in Nat /\ archive[e] \in Nat
      BY <1>t
    <3>3. QED
      BY <1>1, <3>1, <3>2 DEF SourcesBounded, Growing
  <2>4. QED
    BY <2>1, <2>2, <2>3 DEF Sources
<1>3. BookBacked' /\ WorkersFollow'
  BY <1>1, <1>2, GrowingKeepsBook, GrowingKeepsWorkers
<1>4. NoneDuringReset' /\ JobsMatchDag' /\ DagFollows'
  BY <1>1 DEF NoneDuringReset, JobsMatchDag, DagFollows, Succeeded
<1>5. QED
  BY <1>2, <1>3, <1>4

\* Where a step of the DAG, the death of a task or the clock of a reset leaves the
\* DAG run: not at the settlement, where it was, or past the gate.
DagGated ==
  dag'.task = "settle" =>
    \/ dag.task = "settle" /\ dag'.day = dag.day /\ dag'.version = dag.version
    \/ dag.day \in Days /\ dag'.day = dag.day /\ dag'.version = Len(drops[dag.day])
       /\ reset = "idle"

LEMMA GatedKeepsFollows ==
  ASSUME TypeOK, BookBacked, DagFollows, DagGated, UNCHANGED runs
  PROVE  DagFollows'
<1> SUFFICES ASSUME dag'.task = "settle", NEW r \in Succeeded, runs[r].day = dag'.day
             PROVE  runs[r].version <= dag'.version
  BY DEF DagFollows, Succeeded
<1>1. CASE dag.task = "settle" /\ dag'.day = dag.day /\ dag'.version = dag.version
  BY <1>1 DEF DagFollows
<1>2. CASE dag'.version = Len(drops[dag.day]) /\ dag'.day = dag.day /\ reset = "idle"
  BY <1>2 DEF BookBacked, RowBacked
<1>3. QED
  BY <1>1, <1>2 DEF DagGated

\* With the one process of a settlement gone or just started.
DagMove ==
  /\ UNCHANGED <<runs, nextRun, drops, archive>>
  /\ reset' = "idle" => reset = "idle"
  /\ DagGated
  /\ \A p \in Procs : \/ job'[p].pc = "idle"
                      \/ job'[p] = job[p] /\ dag'.day = dag.day /\ dag'.version = dag.version
                      \/ /\ job'[p].pc = "start"
                         /\ job'[p].day = dag'.day /\ job'[p].version = dag'.version
  /\ reset' # "idle" => \A p \in Procs : job'[p].pc = "idle"

LEMMA DagMoveKeepsLedger ==
  ASSUME TypeOK, TypeOK', LedgerInv, DagMove
  PROVE  LedgerInv'
<1> USE DEF LedgerInv
<1>1. Growing
  BY DEF DagMove, Growing, TypeOK
<1>2. \A p \in Procs : job'[p] = job[p] \/ job'[p].pc \notin Gated
  BY DEF DagMove, Gated
<1>3. BookBacked' /\ WorkersFollow' /\ DagFollows'
  BY <1>1, <1>2, GrowingKeepsBook, GrowingKeepsWorkers, GatedKeepsFollows DEF DagMove
<1>4. NoneDuringReset' /\ SourcesBounded' /\ JobsMatchDag'
  BY DEF DagMove, NoneDuringReset, SourcesBounded, JobsMatchDag
<1>5. QED
  BY <1>3, <1>4

LEMMA DagStepsMove ==
  ASSUME AirflowStopsForReset, ~OrphansSurvive, TypeOK, LedgerInv, OneChild,
         \/ \E d \in Days, pin \in 0..MaxSims : TriggerRun(d, pin)
         \/ DagStep \/ TaskDies \/ ResetClock
  PROVE  DagMove
<1> USE DEF LedgerInv, sources, tables, airflow
<1>t. /\ dag \in DagRun /\ job \in [Procs -> Job] /\ NoDag.task = "none"
      /\ dag.task # "none" => dag.day \in Days
  BY DagRunKeeps DEF TypeOK
<1>a. dag' = NoDag \/ dag' = AttemptFailed => DagGated
  <2>1. dag' = NoDag => dag'.task = "none"
    BY <1>t
  <2>2. ASSUME dag' = AttemptFailed, dag'.task = "settle"
        PROVE  dag.task = "settle" /\ dag'.day = dag.day /\ dag'.version = dag.version
    BY <1>t, <2>2, DagRunKeeps
  <2>3. QED
    BY <2>1, <2>2 DEF DagGated
<1>o. dag.task # "settle" => \A p \in Procs : job[p].pc = "idle"
  BY DEF OneChild
<1>f. /\ UNCHANGED <<runs, nextRun, drops, archive>>
      /\ reset' = reset \/ ResetClock
      /\ reset = "idle"
  BY DEF TriggerRun, DagStep, WaitForDrop, WaitForArchive, SensorTimesOut, QualityGate,
         SpawnJob, ReadExitCode, Reconcile, Report, RecordReport, TaskDies, ResetClock,
         AirflowUp
<1>1. ASSUME DagGated, reset' = reset,
             \A p \in Procs : \/ job'[p].pc = "idle"
                              \/ /\ job'[p].pc = "start"
                                 /\ job'[p].day = dag'.day /\ job'[p].version = dag'.version
      PROVE  DagMove
  BY <1>1, <1>f DEF DagMove
<1>2. ASSUME NEW d \in Days, NEW pin \in 0..MaxSims, TriggerRun(d, pin) PROVE DagMove
  BY <1>1, <1>2, <1>o, <1>t DEF TriggerRun, NoDag, DagGated
<1>3. CASE WaitForDrop \/ WaitForArchive \/ SensorTimesOut
  BY <1>1, <1>3, <1>o, <1>t, DagRunKeeps
     DEF WaitForDrop, WaitForArchive, SensorTimesOut, DagGated, Tasks
<1>4. CASE QualityGate
  <2>1. \/ dag' = NoDag
        \/ dag' = [Proceed("settle") EXCEPT !.version = LatestComplete(dag.day)]
    BY <1>4 DEF QualityGate
  <2>2. DagGated
    BY <1>4, <1>t, <1>f, <2>1 DEF QualityGate, DagGated, Proceed, DagRun, LatestComplete
  <2>3. QED
    BY <1>1, <1>4, <1>o, <2>2 DEF QualityGate
<1>5. ASSUME NEW p \in Procs, SpawnJob(p) PROVE DagMove
  <2>1. /\ dag'.task = "settle" /\ dag'.day = dag.day /\ dag'.version = dag.version
        /\ dag.task = "settle" /\ dag.child = {}
    BY <1>5, <1>t DEF SpawnJob, DagRun
  <2>2. \A q \in Procs : job[q].pc = "idle"
    BY <2>1 DEF OneChild
  <2>3. /\ job'[p].pc = "start" /\ job'[p].day = dag.day /\ job'[p].version = dag.version
        /\ \A q \in Procs : q # p => job'[q] = job[q]
    BY <1>5, <1>t DEF SpawnJob, NoJob
  <2>4. QED
    BY <1>1, <1>5, <2>1, <2>2, <2>3 DEF SpawnJob, DagGated
<1>6. ASSUME NEW p \in Procs, ReadExitCode(p) PROVE DagMove
  <2>1. \A q \in Procs : job'[q].pc = "idle"
    BY <1>6, <1>t, NoJobType DEF ReadExitCode, OneChild
  <2>2. \/ dag' = NoDag \/ dag' = AttemptFailed
        \/ dag' = [Proceed("reconcile") EXCEPT !.run = job[p].run]
    BY <1>6 DEF ReadExitCode, Ended
  <2>3. DagGated
    BY <1>a, <1>t, <2>2 DEF DagGated, Proceed, DagRun
  <2>4. QED
    BY <1>1, <1>6, <2>1, <2>3 DEF ReadExitCode
<1>7. CASE Reconcile \/ Report \/ RecordReport
  <2>1. DagGated
    BY <1>7, <1>a, <1>t, DagRunKeeps DEF Reconcile, Report, RecordReport, DagGated, Tasks, DagRun
  <2>2. QED
    BY <1>1, <1>7, <1>o, <2>1 DEF Reconcile, Report, RecordReport
<1>8. CASE TaskDies
  <2>1. \A p \in Procs : job'[p].pc = "idle"
    BY <1>8, <1>t, NoJobType DEF TaskDies, OneChild
  <2>2. QED
    BY <1>1, <1>8, <1>a, <2>1 DEF TaskDies
<1>9. CASE ResetClock
  <2>1. \A p \in Procs : job'[p].pc = "idle"
    BY <1>9, NoJobType DEF ResetClock
  <2>2. DagGated
    BY <1>9, <1>a DEF ResetClock, DagGated
  <2>3. QED
    BY <1>f, <2>1, <2>2 DEF DagMove
<1>10. QED
  BY <1>2, <1>3, <1>4, <1>5, <1>6, <1>7, <1>8, <1>9 DEF DagStep

LEMMA SameRowsKeepBook ==
  ASSUME TypeOK, BookBacked, DagFollows, UNCHANGED <<reset, drops, archive, dag>>,
         \A r \in Succeeded' : r \in Succeeded /\ runs'[r] = runs[r]
  PROVE  BookBacked' /\ DagFollows'
BY DEF BookBacked, RowBacked, DagFollows

\* The steps of the one process that works, none of them during a reset.
LEMMA JobStepIsAlone ==
  ASSUME TypeOK, OneChild, LedgerInv, NEW p \in Procs, JobStep(p)
  PROVE  /\ reset = "idle" /\ dag.task = "settle"
         /\ job[p].pc # "idle" /\ job[p] \in Job /\ job[p].day \in Days
         /\ job[p].day = dag.day /\ job[p].version = dag.version
         /\ UNCHANGED <<sim, reset, dag, drops, archive>>
         /\ \A q \in Procs : q # p => job'[q] = job[q] /\ job[q].pc = "idle"
         /\ NoneDuringReset' /\ SourcesBounded'
         /\ \/ job'[p].pc = "idle"
            \/ job'[p].day = dag.day /\ job'[p].version = dag.version
<1>t. job \in [Procs -> Job]
  BY DEF TypeOK
<1>1. /\ UNCHANGED <<sim, reset, dag>> /\ job[p].pc # "idle"
      /\ \A q \in Procs : q # p => job'[q] = job[q]
  BY JobStepCalm
<1>2. UNCHANGED <<drops, archive>>
  BY DEF JobStep, JobStart, JobLoadDrop, JobInsertRun, JobOpenRun,
         JobReadArchive, JobCommit, JobRaises, OrphanEnds, sources
<1>3. /\ job[p].day = dag.day /\ job[p].version = dag.version /\ job[p].day \in Days
      /\ reset = "idle" /\ dag.task = "settle"
      /\ \A q \in Procs : q # p => job[q].pc = "idle"
  BY <1>1 DEF LedgerInv, JobsMatchDag, NoneDuringReset, OneChild, TypeOK
<1>4. \/ job'[p].pc = "idle"
      \/ job'[p].day = job[p].day /\ job'[p].version = job[p].version
  <2>1. ASSUME NEW pc, job' = Goto(p, pc)
        PROVE  job'[p].day = job[p].day /\ job'[p].version = job[p].version
    BY <1>t, <2>1, GotoKeeps
  <2>2. CASE JobStart(p)
    BY <1>t, <2>1, <2>2 DEF JobStart, Job
  <2>3. CASE JobLoadDrop(p) \/ JobOpenRun(p) \/ JobCommit(p) \/ JobRaises(p)
    BY <2>1, <2>3 DEF JobLoadDrop, JobOpenRun, JobCommit, JobRaises
  <2>4. CASE JobInsertRun(p) \/ JobReadArchive(p)
    BY <1>t, <2>4 DEF JobInsertRun, JobReadArchive, Job
  <2>5. CASE OrphanEnds(p)
    BY <1>t, <2>5, NoJobType DEF OrphanEnds
  <2>6. QED
    BY <2>2, <2>3, <2>4, <2>5 DEF JobStep
<1>5. NoneDuringReset' /\ SourcesBounded'
  BY <1>1, <1>2, <1>3 DEF LedgerInv, NoneDuringReset, SourcesBounded
<1>6. QED
  BY <1>t, <1>1, <1>2, <1>3, <1>4, <1>5

\* Which runs have succeeded changes only by a commit, which adds its own.
LEMMA JobStepSucceeded ==
  ASSUME TypeOK, RunsInv, BillsInv, NEW p \in Procs, JobStep(p)
  PROVE  /\ \A r \in Succeeded : r \in Succeeded' /\ runs'[r] = runs[r]
         /\ ~JobCommit(p) => Succeeded' \subseteq Succeeded
         /\ JobCommit(p) =>
              /\ job[p].run \in RunIds \ Succeeded
              /\ Succeeded' = Succeeded \cup {job[p].run}
              /\ runs'[job[p].run].day = runs[job[p].run].day
              /\ runs'[job[p].run].version = runs[job[p].run].version
              /\ runs'[job[p].run].readings = job[p].readings
<1>t. job \in [Procs -> Job] /\ runs \in [RunIds -> Row]
  BY DEF TypeOK
<1>1. CASE JobOpenRun(p)
  <2>1. \A r \in Succeeded : runs'[r] = runs[r]
    BY <1>1, OpenRunKeeps
  <2>2. \A r \in RunIds : runs'[r].status = "succeeded" => runs'[r] = runs[r]
    BY <1>1, <1>t, NoRowType DEF JobOpenRun, NoRow, Row
  <2>3. ~JobCommit(p)
    BY <1>1 DEF JobOpenRun, JobCommit
  <2>4. QED
    BY <2>1, <2>2, <2>3 DEF Succeeded
<1>2. CASE JobCommit(p)
  <2>1. /\ job[p].run \in RunIds
        /\ runs'[job[p].run].status = "succeeded"
        /\ runs'[job[p].run].day = runs[job[p].run].day
        /\ runs'[job[p].run].version = runs[job[p].run].version
        /\ runs'[job[p].run].readings = job[p].readings
        /\ \A r \in RunIds : r # job[p].run => runs'[r] = runs[r]
    BY <1>2, <1>t DEF JobCommit, RowExists, Row
  <2>2. job[p].run \notin Succeeded
    BY <1>2 DEF JobCommit, BillsInv, WritersUnsettled, Writes, Succeeded
  <2>3. QED
    BY <1>2, <2>1, <2>2 DEF Succeeded
<1>3. CASE JobRaises(p)
  <2>1. \A r \in Succeeded : runs'[r] = runs[r]
    BY <1>3, RaisesKeeps
  <2>2. \A r \in RunIds : runs'[r].status = "succeeded" => runs[r].status = "succeeded"
    BY <1>3, <1>t DEF JobRaises, MarkFailed, RowExists, Row
  <2>3. ~JobCommit(p)
    <3>1. job'[p].pc = "error" /\ runs' \in {runs, MarkFailed(p)} /\ UNCHANGED billed
      BY <1>3, <1>t, GotoKeeps DEF JobRaises
    <3>2. ASSUME JobCommit(p) PROVE FALSE
      <4>1. billed' = billed \cup {job[p].run} /\ job[p].run \notin billed
        BY <3>2 DEF JobCommit, BillsInv, WritersUnsettled, Writes, BilledIffSucceeded,
                    Succeeded
      <4>2. QED
        BY <3>1, <4>1
    <3>3. QED
      BY <3>2
  <2>4. QED
    BY <2>1, <2>2, <2>3 DEF Succeeded
<1>4. CASE \/ JobStart(p) \/ JobLoadDrop(p) \/ JobInsertRun(p) \/ JobReadArchive(p)
           \/ OrphanEnds(p)
  <2>1. runs' = runs /\ UNCHANGED billed
    BY <1>4 DEF JobStart, JobLoadDrop, JobInsertRun, JobReadArchive, OrphanEnds, tables
  <2>2. ~JobCommit(p)
    BY <2>1 DEF JobCommit, BillsInv, WritersUnsettled, Writes, BilledIffSucceeded,
                Succeeded
  <2>3. QED
    BY <2>1, <2>2 DEF Succeeded
<1>5. QED
  BY <1>1, <1>2, <1>3, <1>4 DEF JobStep

LEMMA JobKeepsFollowing ==
  ASSUME TypeOK, RunsInv, OneChild, LedgerInv, NEW p \in Procs, JobStep(p)
  PROVE  WorkersFollow'
<1> USE DEF LedgerInv
<1>t. /\ job \in [Procs -> Job] /\ runs \in [RunIds -> Row] /\ nextRun \in Nat
      /\ drops \in [Days -> Seq({"good", "bad"})] /\ archive \in [Days -> Nat]
  BY DEF TypeOK
<1>a. /\ reset = "idle" /\ job[p] \in Job /\ job[p].day \in Days
      /\ UNCHANGED <<drops, archive>>
      /\ \A q \in Procs : q # p => job'[q] = job[q] /\ job[q].pc = "idle"
  BY JobStepIsAlone
<1>w. WorkerFollows(p)
  BY DEF WorkersFollow
<1> SUFFICES WorkerFollows(p)'
  BY <1>a DEF WorkersFollow, WorkerFollows, Gated, Writes
<1>1. CASE job'[p].pc \notin Gated
  BY <1>1 DEF WorkerFollows, Gated, Writes
<1>2. CASE JobLoadDrop(p)
  <2>1. /\ job'[p].pc = "open" \/ job'[p].pc = "refused"
        /\ job'[p].pc = "open" => DropGood(job[p].day, job[p].version)
        /\ job'[p].day = job[p].day /\ job'[p].version = job[p].version
    BY <1>2, <1>t, GotoKeeps DEF JobLoadDrop
  <2>2. QED
    BY <1>1, <1>a, <2>1 DEF WorkerFollows, Gated, Writes, DropGood
<1>3. CASE JobInsertRun(p)
  <2>1. /\ job'[p].pc = "inserted" /\ job'[p].run = nextRun /\ nextRun' = nextRun + 1
        /\ job'[p].day = job[p].day /\ job'[p].version = job[p].version
    BY <1>3, <1>t DEF JobInsertRun, Job
  <2>2. job[p].version \in 1..Len(drops[job[p].day])
    BY <1>3, <1>w DEF JobInsertRun, WorkerFollows, Gated
  <2>3. QED
    BY <1>a, <2>1, <2>2 DEF WorkerFollows, Gated, Writes
<1>7. CASE JobOpenRun(p)
  <2>1. /\ job[p].pc = "inserted" /\ job'[p].pc = "read" /\ job'[p].run = job[p].run
        /\ job'[p].day = job[p].day /\ job'[p].version = job[p].version
        /\ nextRun' = nextRun
    BY <1>7, <1>t DEF JobOpenRun, Goto
  <2>2. job[p].run \in RunIds /\ job[p].run + 1 = nextRun
    BY <1>w, <2>1 DEF WorkerFollows, Gated, Writes, RunsInv, WritersHoldIds
  <2>3. /\ runs'[job[p].run].day = job[p].day
        /\ runs'[job[p].run].version = job[p].version
    BY <1>7, <2>2 DEF JobOpenRun, NoRow
  <2>4. job[p].version \in 1..Len(drops[job[p].day])
    BY <1>w, <2>1 DEF WorkerFollows, Gated
  <2>5. QED
    BY <1>a, <2>1, <2>2, <2>3, <2>4 DEF WorkerFollows, Gated, Writes
<1>4. CASE JobReadArchive(p)
  <2>1. /\ job[p].pc = "read" /\ job'[p].pc = "commit" /\ job'[p].run = job[p].run
        /\ job'[p].day = job[p].day /\ job'[p].version = job[p].version
        /\ job'[p].readings = archive[job[p].day]
        /\ UNCHANGED <<runs, nextRun>>
    BY <1>4, <1>t DEF JobReadArchive, Job, tables
  <2>2. /\ job[p].version \in 1..Len(drops[job[p].day])
        /\ job[p].run + 1 = nextRun
        /\ runs[job[p].run].day = job[p].day /\ runs[job[p].run].version = job[p].version
    BY <1>w, <2>1 DEF WorkerFollows, Gated, Writes
  <2>3. \A r \in Succeeded : runs[r].day = job[p].day => runs[r].readings <= archive[job[p].day]
    BY <1>a DEF BookBacked, RowBacked
  <2>4. Succeeded' = Succeeded
    BY <2>1 DEF Succeeded
  <2>5. archive[job[p].day] <= archive[job[p].day]
    BY <1>t, <1>a
  <2>6. QED
    BY <1>a, <2>1, <2>2, <2>3, <2>4, <2>5 DEF WorkerFollows, Gated, Writes
<1>5. CASE JobStart(p) \/ JobCommit(p) \/ JobRaises(p) \/ OrphanEnds(p)
  <2>1. \A pc : Goto(p, pc)[p].pc = pc
    BY <1>t, GotoKeeps
  <2>2. job'[p].pc \in Ended \cup {"load", "unacked", "idle"}
    <3>1. CASE JobStart(p)
      BY <1>t, <2>1, <3>1 DEF JobStart, Ended
    <3>2. CASE JobCommit(p) \/ JobRaises(p)
      BY <2>1, <3>2 DEF JobCommit, JobRaises, Ended
    <3>3. CASE OrphanEnds(p)
      BY <1>t, <3>3, NoJobType DEF OrphanEnds
    <3>4. QED
      BY <1>5, <3>1, <3>2, <3>3
  <2>3. QED
    BY <1>1, <2>2 DEF Ended, Gated
<1>6. QED
  BY <1>2, <1>3, <1>4, <1>5, <1>7 DEF JobStep

LEMMA JobKeepsLedger ==
  ASSUME TypeOK, RunsInv, BillsInv, OneChild, LedgerInv, NEW p \in Procs, JobStep(p)
  PROVE  LedgerInv'
<1> USE DEF LedgerInv
<1>a. /\ reset = "idle" /\ dag.task = "settle"
      /\ job[p].day \in Days /\ job[p] \in Job
      /\ job[p].day = dag.day /\ job[p].version = dag.version
      /\ UNCHANGED <<reset, dag, drops, archive>>
      /\ \A q \in Procs : q # p => job'[q] = job[q] /\ job[q].pc = "idle"
      /\ NoneDuringReset' /\ SourcesBounded'
      /\ \/ job'[p].pc = "idle"
         \/ job'[p].day = dag.day /\ job'[p].version = dag.version
  BY JobStepIsAlone
<1>1. JobsMatchDag'
  BY <1>a DEF JobsMatchDag
<1>2. BookBacked' /\ DagFollows'
  <2>1. CASE ~JobCommit(p)
    BY <1>a, <2>1, JobStepSucceeded, SameRowsKeepBook
  <2>2. CASE JobCommit(p)
    <3> PICK me : me = job[p].run
      OBVIOUS
    <3>1. /\ \A r \in Succeeded : runs'[r] = runs[r]
          /\ Succeeded' = Succeeded \cup {me}
          /\ runs'[me].day = runs[me].day /\ runs'[me].version = runs[me].version
          /\ runs'[me].readings = job[p].readings
      BY <2>2, JobStepSucceeded
    <3>2. /\ job[p].version \in 1..Len(drops[job[p].day])
          /\ runs[me].day = job[p].day /\ runs[me].version = job[p].version
          /\ job[p].readings <= archive[job[p].day]
      BY <2>2 DEF WorkersFollow, WorkerFollows, Gated, Writes, JobCommit
    <3>3. RowBacked(me)'
      BY <1>a, <3>1, <3>2 DEF RowBacked
    <3>4. \A r \in Succeeded : RowBacked(r)'
      BY <1>a, <3>1 DEF BookBacked, RowBacked
    <3>5. BookBacked'
      BY <3>1, <3>3, <3>4 DEF BookBacked
    <3>6. runs'[me].version <= dag.version
      BY <1>a, <3>1, <3>2 DEF Job
    <3>7. DagFollows'
      BY <1>a, <3>1, <3>6 DEF DagFollows
    <3>8. QED
      BY <3>5, <3>7
  <2>3. QED
    BY <2>1, <2>2
<1>3. QED
  BY <1>a, <1>1, <1>2, JobKeepsFollowing

LEMMA ResetKeepsLedger ==
  ASSUME TypeOK, TypeOK', OneChild, LedgerInv, ResetStep
  PROVE  LedgerInv'
<1> USE DEF LedgerInv, sources, tables, airflow
<1>1. /\ reset # "idle" /\ UNCHANGED <<job, dag>>
      /\ \A p \in Procs : job[p].pc = "idle"
  BY DEF ResetStep, ResetStores, ResetTables, NoneDuringReset
<1>2. NoneDuringReset' /\ JobsMatchDag' /\ WorkersFollow'
  BY <1>1 DEF NoneDuringReset, JobsMatchDag, WorkersFollow, WorkerFollows, Gated, Writes
<1>3. CASE ResetStores
  <2>1. SourcesBounded'
    BY <1>3, BoundsAssumption DEF ResetStores, SourcesBounded
  <2>2. BookBacked' /\ DagFollows'
    BY <1>1, <1>3 DEF ResetStores, BookBacked, DagFollows, Succeeded
  <2>3. QED
    BY <1>2, <2>1, <2>2
<1>4. CASE ResetTables
  <2>1. SourcesBounded'
    BY <1>4 DEF ResetTables, SourcesBounded
  <2>2. Succeeded' = {}
    BY <1>4, NoRowType DEF ResetTables, Succeeded
  <2>3. BookBacked' /\ DagFollows'
    BY <2>2 DEF BookBacked, DagFollows
  <2>4. QED
    BY <1>2, <2>1, <2>3
<1>5. QED
  BY <1>3, <1>4 DEF ResetStep

LEMMA NextKeepsLedger ==
  ASSUME AirflowStopsForReset, ~OrphansSurvive,
         TypeOK, TypeOK', RunsInv, BillsInv, OneChild, LedgerInv, [Next]_vars
  PROVE  LedgerInv'
BY SourcesKeepLedger, DagStepsMove, DagMoveKeepsLedger, JobKeepsLedger, ResetKeepsLedger
   DEF Next

\* A step that changes no run that succeeded changes no book.
LEMMA SameRowsSameBook ==
  ASSUME Succeeded' = Succeeded, \A r \in Succeeded : runs'[r] = runs[r]
  PROVE  Book' = Book
<1>1. \A d \in Days : SettledRuns(d)' = SettledRuns(d)
  BY DEF SettledRuns
<1>2. \A d \in Days : \A r \in SettledRuns(d) : EntryOf(r)' = EntryOf(r)
  BY DEF SettledRuns, EntryOf
<1>3. \A d \in Days : {EntryOf(r) : r \in SettledRuns(d)}' = {EntryOf(r) : r \in SettledRuns(d)}
  BY <1>1, <1>2
<1>4. QED
  BY <1>3 DEF Book

\* A commit adds an entry that follows all those of its day.
LEMMA CommitSettles ==
  ASSUME TypeOK, RunsInv, BillsInv, OneChild, LedgerInv, NEW p \in Procs, JobCommit(p)
  PROVE  \E d \in Days, e \in L!Entry : L!Settle(d, e)
<1> PICK me, d : me = job[p].run /\ d = job[p].day
  OBVIOUS
<1> DEFINE e == [id |-> me, version |-> job[p].version, readings |-> job[p].readings]
<1>s. JobStep(p)
  BY DEF JobStep
<1>a. /\ reset = "idle" /\ dag.task = "settle" /\ job[p] \in Job /\ d \in Days
      /\ d = dag.day /\ job[p].version = dag.version
      /\ UNCHANGED <<sim, reset>>
  BY <1>s, JobStepIsAlone
<1>b. /\ me \in RunIds \ Succeeded /\ Succeeded' = Succeeded \cup {me}
      /\ \A r \in Succeeded : runs'[r] = runs[r]
      /\ runs'[me].day = runs[me].day /\ runs'[me].version = runs[me].version
      /\ runs'[me].readings = job[p].readings
  BY <1>s, JobStepSucceeded
<1>c. /\ job[p].version \in 1..Len(drops[d])
      /\ runs[me].day = d /\ runs[me].version = job[p].version
      /\ me + 1 = nextRun
      /\ job[p].readings <= archive[d]
      /\ \A r \in Succeeded : runs[r].day = d => runs[r].readings <= job[p].readings
  BY DEF LedgerInv, WorkersFollow, WorkerFollows, Gated, Writes, JobCommit
<1>1. e \in L!Entry
  <2>1. /\ Len(drops[d]) \in Nat /\ Len(drops[d]) <= MaxVersions
        /\ archive[d] \in Nat /\ archive[d] <= MaxReadings
    BY <1>a DEF LedgerInv, SourcesBounded, TypeOK
  <2>2. job[p].version \in Versions /\ job[p].readings \in 0..MaxReadings
    BY SMTT(30), <1>a, <1>c, <2>1, BoundsAssumption DEF Versions, Job
  <2>3. QED
    BY <1>b, <2>2 DEF L!Entry
<1>2. \A f \in Book[d] : L!Follows(e, f)
  <2> SUFFICES ASSUME NEW r \in Succeeded, runs[r].day = d
               PROVE  L!Follows(e, EntryOf(r))
    BY <1>a DEF Book, SettledRuns
  <2>1. r < me
    BY <1>b, <1>c DEF RunsInv, FreshIds, Succeeded, RunIds, TypeOK
  <2>2. runs[r].version <= job[p].version
    BY <1>a DEF LedgerInv, DagFollows
  <2>3. runs[r].readings <= job[p].readings
    BY <1>c
  <2>4. QED
    BY <2>1, <2>2, <2>3 DEF L!Follows, EntryOf
<1>3. Book' = [Book EXCEPT ![d] = @ \cup {e}]
  <2>1. Book'[d] = Book[d] \cup {e}
    <3>1. SettledRuns(d)' = SettledRuns(d) \cup {me}
      BY <1>b, <1>c DEF SettledRuns
    <3>2. \A r \in SettledRuns(d) : EntryOf(r)' = EntryOf(r)
      BY <1>b DEF SettledRuns, EntryOf
    <3>3. EntryOf(me)' = e
      BY <1>b, <1>c DEF EntryOf
    <3>4. {EntryOf(r) : r \in SettledRuns(d)}' = {EntryOf(r) : r \in SettledRuns(d)} \cup {e}
      BY <3>1, <3>2, <3>3
    <3>5. QED
      BY <1>a, <3>4 DEF Book
  <2>2. ASSUME NEW c \in Days, c # d PROVE Book'[c] = Book[c]
    <3>1. SettledRuns(c)' = SettledRuns(c)
      BY <1>b, <1>c, <2>2 DEF SettledRuns
    <3>2. \A r \in SettledRuns(c) : EntryOf(r)' = EntryOf(r)
      BY <1>b DEF SettledRuns, EntryOf
    <3>3. {EntryOf(r) : r \in SettledRuns(c)}' = {EntryOf(r) : r \in SettledRuns(c)}
      BY <3>1, <3>2
    <3>4. QED
      BY <2>2, <3>3 DEF Book
  <2>3. QED
    BY <1>a, <2>1, <2>2 DEF Book
<1>4. Kept' = Kept
  BY <1>a DEF Kept
<1>5. L!Settle(d, e)
  BY <1>2, <1>3, <1>4 DEF L!Settle
<1>6. QED
  BY <1>a, <1>1, <1>5

\* Every step of settlement is a step of the books or leaves them alone.
LEMMA NextImplementsLedger ==
  ASSUME TypeOK, RunsInv, BillsInv, OneChild, LedgerInv, [Next]_vars
  PROVE  [L!Next]_<<Kept, Book>>
<1> USE DEF sources, tables, airflow
<1>1. ASSUME UNCHANGED runs PROVE Book' = Book
  BY <1>1, SameRowsSameBook DEF Succeeded
<1>2. ASSUME NEW p \in Procs, JobStep(p) PROVE [L!Next]_<<Kept, Book>>
  <2>1. CASE JobCommit(p)
    BY <2>1, CommitSettles DEF L!Next
  <2>2. CASE ~JobCommit(p)
    <3>1. Book' = Book
      BY <1>2, <2>2, JobStepSucceeded, SameRowsSameBook
    <3>2. Kept' = Kept
      BY <1>2, JobStepIsAlone DEF Kept
    <3>3. QED
      BY <3>1, <3>2
  <2>3. QED
    BY <2>1, <2>2
<1>3. CASE ResetClock
  <2>1. Kept' = Kept
    BY <1>3 DEF ResetClock, Kept, TypeOK
  <2>2. QED
    BY <1>1, <1>3, <2>1 DEF ResetClock
<1>4. CASE ResetStores
  <2>1. Kept' = Kept
    BY <1>4 DEF ResetStores, Kept
  <2>2. QED
    BY <1>1, <1>4, <2>1 DEF ResetStores
<1>5. CASE ResetTables
  <2>1. Kept' = Kept + 1
    BY <1>5 DEF ResetTables, Kept, TypeOK
  <2>2. Succeeded' = {}
    BY <1>5, NoRowType DEF ResetTables, Succeeded
  <2>3. Book' = L!NoEntries
    <3>1. \A d \in Days : SettledRuns(d)' = {}
      BY <2>2 DEF SettledRuns
    <3>2. QED
      BY <3>1 DEF Book, L!NoEntries
  <2>4. QED
    BY <2>1, <2>3 DEF L!Next, L!NewSimulation
<1>6. CASE \/ Sources \/ \E d \in Days, pin \in 0..MaxSims : TriggerRun(d, pin)
           \/ DagStep \/ TaskDies \/ UNCHANGED vars
  <2>1. UNCHANGED <<sim, reset, runs>>
    BY <1>6 DEF Sources, PublishDrop, ArchiveReading, StreamPassesDay, TriggerRun, DagStep,
                WaitForDrop, WaitForArchive, SensorTimesOut, QualityGate, SpawnJob,
                ReadExitCode, Reconcile, Report, RecordReport, TaskDies, vars
  <2>2. Kept' = Kept
    BY <2>1 DEF Kept
  <2>3. QED
    BY <1>1, <2>1, <2>2
<1>7. QED
  BY <1>2, <1>3, <1>4, <1>5, <1>6 DEF Next, ResetStep

\* When Airflow is stopped for every reset, no process outlives its task and
\* every commit is acknowledged, settlement keeps what it promises its readers:
\* the served figures of a day are replaced only by later ones that rest on no
\* older drop and on no fewer readings, and never taken back within a simulation.
THEOREM SettlementImplementsLedger ==
  ASSUME AirflowStopsForReset, ~OrphansSurvive, ~AckMayBeLost
  PROVE  Spec => ImplementsLedger
<1>1. Init => L!Init
  <2> SUFFICES ASSUME Init PROVE L!Init
    OBVIOUS
  <2>1. Kept = 1
    BY DEF Init, Kept
  <2>2. Succeeded = {}
    BY NoRowType DEF Init, Succeeded
  <2>3. \A d \in Days : SettledRuns(d) = {}
    BY <2>2 DEF SettledRuns
  <2>4. Book = L!NoEntries
    BY <2>3 DEF Book, L!NoEntries
  <2>5. QED
    BY <2>1, <2>4 DEF L!Init
<1>2. Init => OneChild /\ LedgerInv
  BY InitLedger, NoJobType DEF Init, OneChild
<1>3. TypeOK /\ OneChild /\ [Next]_vars => OneChild'
  BY NextKeepsOneChild
<1>4. /\ TypeOK /\ TypeOK' /\ RunsInv /\ BillsInv /\ OneChild /\ LedgerInv
      /\ [Next]_vars
      => LedgerInv'
  BY NextKeepsLedger
<1>5. /\ TypeOK /\ RunsInv /\ BillsInv /\ OneChild /\ LedgerInv /\ [Next]_vars
      => [L!Next]_<<Kept, Book>>
  BY NextImplementsLedger
<1>6. QED
  BY <1>1, <1>2, <1>3, <1>4, <1>5, TypeCorrect, RunsInvariant, BillsInvariant, PTL
     DEF Spec, ImplementsLedger, L!Spec
=============================================================================
