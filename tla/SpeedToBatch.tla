------------------------------ MODULE SpeedToBatch ----------------------------
(***************************************************************************)
(* The speed layer and the settlement of one day that follows it: the      *)
(* sensor that waits for the ingest query, the figures settled from the    *)
(* archive, and the reconciliation of the two views.  The two queries of   *)
(* the speed layer know nothing of either, or of one another's progress.   *)
(*                                                                         *)
(* The steps of a settlement are the subject of Settlement; here it is its *)
(* reading of the archive.                                                 *)
(***************************************************************************)
EXTENDS SpeedLayer

CONSTANTS
  DayEnd,  \* midnight: the day is what has an earlier event time
  Grace    \* SETTLEMENT_GRACE

ASSUME DayAssumption == DayEnd \in Nat /\ DayEnd % Window = 0 /\ Grace \in Nat

VARIABLE run  \* a settlement of the day, with its row of ops.reconciliation

allVars == <<vars, run>>

\* settled: the readings of batch.zone_daily.  missed: missed_by_speed, if any
\* was recorded.  seen and read are history: the offsets behind the other figure,
\* and how far zone_metrics had come.
NoRun == [status |-> "none", settled |-> {}, missed |-> {}, seen |-> {}, read |-> 0]

\* Mutant of ArchiveHasPassed: the progress of the other query.
WindowsHavePassed == progress.zone_metrics >= DayEnd + Grace

ArchiveHasPassed == progress.ingest >= DayEnd + Grace

\* The day's partition of the archive, without copies of a reading.
SettledReadings == {topic[o] : o \in {o \in archive : Time(o) < DayEnd}}

\* Bound: of the moments between which the archive and the progress stay the same,
\* one is enough.
ArchiveChanged == ingest.pc \in {"archive", "dlq", "count"}

SettleDay ==
  /\ run.status = "none" /\ ArchiveHasPassed /\ ArchiveChanged
  /\ run' = [run EXCEPT !.status = "settled", !.settled = SettledReadings]
  /\ UNCHANGED vars

\* The rows of speed.zone_metrics whose window starts on the day.
SpeedOfDay == UNION {table[w] : w \in {w \in Windows : w * Window < DayEnd}}

\* compare: a zone with no row is absent from its side, not zero.
MissedBySpeed ==
  IF run.settled = {} \/ SpeedOfDay = {} THEN {}
  ELSE {Cardinality(run.settled) - Cardinality(SpeedOfDay)}

\* reconcile_run: one transaction, which replaces the row of a first attempt.
Reconcile ==
  /\ run.status = "settled"
  /\ run' = [run EXCEPT !.status = "reconciled", !.missed = MissedBySpeed,
                        !.seen = SpeedOfDay, !.read = metrics.from]
  /\ UNCHANGED vars

\* The day may be settled again.
RunEnds == run.status = "reconciled" /\ run' = NoRun /\ UNCHANGED vars

\* Bound: between the steps of a run, what they do not depend on waits: a run that
\* has read the archive sees nothing more of the ingest query, or of a restart.
SpeedSteps ==
  /\ Next /\ UNCHANGED run
  /\ run.status = "settled" => UNCHANGED <<ingest, crashes>>
  /\ run.status # "reconciled"

HandOver == SpeedSteps \/ SettleDay \/ Reconcile \/ RunEnds

\* A trigger every speed_trigger_seconds, and batches run until they end or
\* fail; the container is restarted whenever the process is gone.  (No property
\* needs the same of zone_metrics.)
HandOverInit == Init /\ run = NoRun
HandOverSpec == HandOverInit /\ [][HandOver]_allVars /\ WF_vars(IngestStep)

-----------------------------------------------------------------------------
(* Properties.                                                             *)

SeenBySpeed == {topic[o] : o \in run.seen}

\* The first of the offsets that bear reading r.
FirstOf(r) == Min({o \in DOMAIN topic : topic[o] = r})

\* Behind the watermark when it came, by the readings before it.
LateBy(o, delay) == \E p \in Valid(1..o) : Time(p) >= Time(o) + delay

\* The difference that is recorded counts readings on either side.  What only
\* the settlement has was late for the watermark, or zone_metrics had yet to read
\* it; what only the speed layer has came after a reading that the grace had
\* already waited for.  No other reading, and no copy, makes a difference.
DifferenceIsExplained ==
  run.status = "reconciled" =>
    LET onlyBatch == run.settled \ SeenBySpeed
        onlySpeed == SeenBySpeed \ run.settled
    IN /\ \A n \in run.missed : n = Cardinality(onlyBatch) - Cardinality(onlySpeed)
       /\ \A r \in onlyBatch : FirstOf(r) > run.read \/ LateBy(FirstOf(r), Delay)
       /\ \A r \in onlySpeed :
            \E p \in Valid(1..FirstOf(r)) : Time(p) >= DayEnd + Grace
=============================================================================
