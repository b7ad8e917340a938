------------------------------- MODULE SpeedLayer -----------------------------
(***************************************************************************)
(* The speed layer: two streaming queries over the same Kafka topic.       *)
(* `ingest` archives the valid readings of a micro-batch, dead-letters the *)
(* others and records what it saw; `zone_metrics` deduplicates, aggregates *)
(* per event-time window and upserts the windows that changed.             *)
(*                                                                         *)
(* Both queries live in one process: an exception in either, or the death  *)
(* of the container, ends both, and the container is restarted.  Spark     *)
(* then runs the batch that was planned and not committed again, over the  *)
(* same offsets and from the same state; nothing undoes what the sinks had *)
(* written, in whole or in part.                                           *)
(*                                                                         *)
(* Data: a message is a valid reading, named by its meter and event time   *)
(* (the event_id), or anything the validator rejects (the validator is a   *)
(* part of its own; no meter stamps a future time, so both queries reach   *)
(* the same verdict whenever they run it).                                 *)
(* Rows, counts and aggregates are the sets of offsets they are made of;   *)
(* copies of one archived row are one.  The grid is one zone, the topic    *)
(* one partition.                                                          *)
(***************************************************************************)
EXTENDS Integers, Sequences, FiniteSetsExt

CONSTANTS
  Meters,
  LastTime,     \* bound: event times 1..LastTime
  MaxMessages,  \* bound: messages ever in the topic
  MaxOffsets,   \* speed_max_offsets_per_trigger
  Delay,        \* speed_watermark_minutes
  Window,       \* speed_window_minutes
  MaxCrashes    \* bound: restarts of the process

ASSUME BoundsAssumption ==
  /\ LastTime \in Nat /\ MaxMessages \in Nat /\ MaxCrashes \in Nat
  /\ MaxOffsets \in Nat \ {0} /\ Delay \in Nat /\ Window \in Nat \ {0}

VARIABLES
  topic,       \* meter.readings, in offset order
  ingest,      \* the ingest query: its checkpoint and its running batch
  metrics,     \* the zone_metrics query: the same, and its state store
  archive,     \* offsets with a row in the Parquet master dataset
  dlq,         \* offsets with a record in the dead-letter topic
  batches,     \* ops.ingest_batches: per batch id, the offsets counted
  progress,    \* ops.stream_progress: max_event_time of each query
  counted,     \* how often a batch was added to smartgrid_speed_records_total
  table,       \* speed.zone_metrics: per window, the offsets aggregated
  crashes      \* counts what MaxCrashes bounds

ingested == <<archive, dlq, batches, counted>>
vars == <<topic, ingest, metrics, ingested, progress, table, crashes>>

Times    == 1..LastTime
Readings == [meter : Meters, time : Times]
Invalid  == [meter |-> "none", time |-> 0]
Messages == Readings \cup {Invalid}
Offsets  == 1..MaxMessages
BatchIds == 0..MaxMessages

WindowOf(t)  == t \div Window
WindowEnd(w) == (w + 1) * Window
Windows      == 0..WindowOf(LastTime)

\* A batch covers the offsets from+1..to; until it is committed, to is in the
\* offset log and from in the commit log.
IngestQuery  == [pc : {"idle", "archive", "dlq", "record", "count", "commit"},
                 batch : Nat, from : Nat, to : Nat]
\* late and evict: the watermarks of a batch, for its input and for its state.
MetricsQuery == [pc : {"idle", "upsert", "commit"}, batch : Nat, from : Nat, to : Nat,
                 late : Nat, evict : Nat, seen : SUBSET Readings,
                 open : [Windows -> SUBSET Offsets]]

Empty == [w \in Windows |-> {}]

Init ==
  /\ topic = <<>>
  /\ ingest = [pc |-> "idle", batch |-> 0, from |-> 0, to |-> 0]
  /\ metrics = [pc |-> "idle", batch |-> 0, from |-> 0, to |-> 0,
                late |-> 0, evict |-> 0, seen |-> {}, open |-> Empty]
  /\ archive = {} /\ dlq = {}
  /\ batches = [b \in BatchIds |-> {}]
  /\ counted = [b \in BatchIds |-> 0]
  /\ progress = [ingest |-> 0, zone_metrics |-> 0]
  /\ table = Empty
  /\ crashes = 0

Time(o)  == topic[o].time
Valid(S) == {o \in S : topic[o] # Invalid}
Batch(q) == (q.from + 1)..q.to

\* The greater of t and the latest event time in S.
Latest(t, S) == Max({t} \cup {Time(o) : o \in S})

\* In order, late, backfilled or once more: a reading comes at any moment.
Produce(m) ==
  /\ Len(topic) < MaxMessages
  /\ topic' = Append(topic, m)
  /\ UNCHANGED <<ingest, metrics, ingested, progress, table, crashes>>

\* What a trigger makes the next batch of a query: the offsets that are new,
\* at most MaxOffsets of them.
Planned(q) == Min({Len(topic), q.from + MaxOffsets})

-----------------------------------------------------------------------------
(* ingest.                                                                 *)

PlanIngest ==
  /\ ingest.pc = "idle" /\ Planned(ingest) > ingest.from
  /\ ingest' = [ingest EXCEPT !.pc = "archive", !.to = Planned(ingest)]
  /\ UNCHANGED <<topic, metrics, ingested, progress, table, crashes>>

Archive ==
  /\ ingest.pc = "archive"
  /\ archive' = archive \cup Valid(Batch(ingest))
  /\ ingest' = [ingest EXCEPT !.pc = "dlq"]
  /\ UNCHANGED <<topic, metrics, dlq, batches, counted, progress, table, crashes>>

\* Mutant of DeadLetter: an `elif` where the code has an `if`.
DeadLetterElse ==
  /\ ingest.pc = "dlq"
  /\ dlq' = IF Valid(Batch(ingest)) = {} THEN dlq \cup Batch(ingest) ELSE dlq
  /\ ingest' = [ingest EXCEPT !.pc = "record"]
  /\ UNCHANGED <<topic, metrics, archive, batches, counted, progress, table, crashes>>

DeadLetter ==
  /\ ingest.pc = "dlq"
  /\ dlq' = dlq \cup (Batch(ingest) \ Valid(Batch(ingest)))
  /\ ingest' = [ingest EXCEPT !.pc = "record"]
  /\ UNCHANGED <<topic, metrics, archive, batches, counted, progress, table, crashes>>

\* What the transaction of RecordIngest writes, for progress up to t.
Record(t) ==
  /\ batches' = [batches EXCEPT ![ingest.batch] = Batch(ingest)]
  /\ progress' = [progress EXCEPT !.ingest = t]
  /\ ingest' = [ingest EXCEPT !.pc = "count"]
  /\ UNCHANGED <<topic, metrics, archive, dlq, counted, table, crashes>>

AlreadyRecorded ==
  /\ ingest' = [ingest EXCEPT !.pc = "commit"]
  /\ UNCHANGED <<topic, metrics, ingested, progress, table, crashes>>

Reached == Latest(progress.ingest, Valid(Batch(ingest)))

\* Mutants of RecordIngest: it does not tell a batch it has recorded before;
\* it skips batches without a valid reading; it takes the progress from the
\* topic instead of the batch.
RecordAgain == ingest.pc = "record" /\ Record(Reached)

RecordValidOnly ==
  /\ ingest.pc = "record"
  /\ IF batches[ingest.batch] = {} /\ Valid(Batch(ingest)) # {}
     THEN Record(Reached) ELSE AlreadyRecorded

RecordTopicProgress ==
  /\ ingest.pc = "record"
  /\ IF batches[ingest.batch] = {}
     THEN Record(Latest(progress.ingest, Valid(DOMAIN topic))) ELSE AlreadyRecorded

\* record_ingest: one transaction, keyed by the batch id.
RecordIngest ==
  /\ ingest.pc = "record"
  /\ IF batches[ingest.batch] = {} THEN Record(Reached) ELSE AlreadyRecorded

\* The counters of the process, after the transaction.
CountIngest ==
  /\ ingest.pc = "count"
  /\ counted' = [counted EXCEPT ![ingest.batch] = @ + 1]
  /\ ingest' = [ingest EXCEPT !.pc = "commit"]
  /\ UNCHANGED <<topic, metrics, archive, dlq, batches, progress, table, crashes>>

CommitIngest ==
  /\ ingest.pc = "commit"
  /\ ingest' = [ingest EXCEPT !.pc = "idle", !.batch = @ + 1, !.from = ingest.to]
  /\ UNCHANGED <<topic, metrics, ingested, progress, table, crashes>>

IngestStep ==
  \/ PlanIngest \/ Archive \/ DeadLetter \/ RecordIngest \/ CountIngest
  \/ CommitIngest

-----------------------------------------------------------------------------
(* zone_metrics.                                                           *)

PlanMetrics ==
  /\ metrics.pc = "idle" /\ Planned(metrics) > metrics.from
  /\ metrics' = [metrics EXCEPT !.pc = "upsert", !.to = Planned(metrics)]
  /\ UNCHANGED <<topic, ingest, ingested, progress, table, crashes>>

\* Mutant of Fresh: retransmissions are aggregated again.
FreshWithCopies(q) == {o \in Valid(Batch(q)) : Time(o) > q.late}

\* The valid readings of a batch that are neither behind the watermark nor a
\* retransmission of one that was seen: dropDuplicatesWithinWatermark.
Fresh(q) ==
  LET timely == {o \in Valid(Batch(q)) : Time(o) > q.late}
  IN  {o \in timely : /\ topic[o] \notin q.seen
                      /\ \A p \in timely : topic[p] = topic[o] => o <= p}

InWindow(w, S) == {o \in S : WindowOf(Time(o)) = w}

Changed(q) == {w \in Windows : InWindow(w, Fresh(q)) # {}}

Aggregate(q, w) == q.open[w] \cup InWindow(w, Fresh(q))

\* Mutant of Upsert: it writes what the batch adds, not the whole window.
UpsertIncrement ==
  /\ metrics.pc = "upsert"
  /\ table' = [w \in Windows |-> IF w \in Changed(metrics)
                                 THEN InWindow(w, Fresh(metrics)) ELSE table[w]]
  /\ progress' = [progress EXCEPT !.zone_metrics =
                    Max({@} \cup {WindowEnd(w) : w \in Changed(metrics)})]
  /\ metrics' = [metrics EXCEPT !.pc = "commit"]
  /\ UNCHANGED <<topic, ingest, ingested, crashes>>

\* ZoneMetricsSink: every window that changed, with its whole aggregate, in one
\* transaction.
Upsert ==
  /\ metrics.pc = "upsert"
  /\ table' = [w \in Windows |-> IF w \in Changed(metrics)
                                 THEN Aggregate(metrics, w) ELSE table[w]]
  /\ progress' = [progress EXCEPT !.zone_metrics =
                    Max({@} \cup {WindowEnd(w) : w \in Changed(metrics)})]
  /\ metrics' = [metrics EXCEPT !.pc = "commit"]
  /\ UNCHANGED <<topic, ingest, ingested, crashes>>

\* The watermark after a batch: Delay behind the latest valid reading so far.
Watermark(q) == Max({q.evict, Latest(0, Valid(Batch(q))) - Delay})

\* The state a batch leaves: what the watermark has passed is evicted, and the
\* next batch takes as late what this one has evicted.
After(q) ==
  LET seen == q.seen \cup {topic[o] : o \in Fresh(q)} IN
  [q EXCEPT !.pc = "idle", !.batch = @ + 1, !.from = q.to,
            !.late = q.evict, !.evict = Watermark(q),
            !.seen = {r \in seen : r.time + Delay > q.evict},
            !.open = [w \in Windows |-> IF WindowEnd(w) > q.evict
                                       THEN Aggregate(q, w) ELSE {}]]

CommitMetrics ==
  /\ metrics.pc = "commit"
  /\ metrics' = After(metrics)
  /\ UNCHANGED <<topic, ingest, ingested, progress, table, crashes>>

\* A batch without input, run when the watermark has moved: it only evicts.
EvictMetrics ==
  /\ metrics.pc = "idle" /\ Planned(metrics) = metrics.from
  /\ metrics.late # metrics.evict
  /\ metrics' = After(metrics)
  /\ UNCHANGED <<topic, ingest, ingested, progress, table, crashes>>

\* A trigger that finds nothing to do.
IdleTrigger ==
  /\ ingest.pc = "idle" /\ Planned(ingest) = ingest.from
  /\ metrics.pc = "idle" /\ Planned(metrics) = metrics.from
  /\ UNCHANGED vars

MetricsStep == PlanMetrics \/ Upsert \/ CommitMetrics \/ EvictMetrics

-----------------------------------------------------------------------------

\* Both queries end, wherever they are, and start again from their logs.  The
\* write that was under way may have left any part of its rows.
Crash ==
  /\ crashes < MaxCrashes
  /\ crashes' = crashes + 1
  /\ \E part \in SUBSET Batch(ingest) :
       /\ archive' = IF ingest.pc = "archive" THEN archive \cup Valid(part) ELSE archive
       /\ dlq' = IF ingest.pc = "dlq" THEN dlq \cup (part \ Valid(part)) ELSE dlq
  /\ ingest' = [ingest EXCEPT !.pc = IF ingest.to > ingest.from THEN "archive" ELSE "idle"]
  /\ metrics' = [metrics EXCEPT !.pc = IF metrics.to > metrics.from THEN "upsert" ELSE "idle"]
  /\ UNCHANGED <<topic, batches, counted, progress, table>>

Next ==
  \/ \E m \in Messages : Produce(m)
  \/ IngestStep \/ MetricsStep \/ IdleTrigger \/ Crash

Spec == Init /\ [][Next]_vars

-----------------------------------------------------------------------------
(* Properties.                                                             *)

TypeOK ==
  /\ topic \in Seq(Messages) /\ Len(topic) <= MaxMessages
  /\ ingest \in IngestQuery /\ metrics \in MetricsQuery
  /\ ingest.from <= ingest.to /\ ingest.to <= Len(topic)
  /\ metrics.from <= metrics.to /\ metrics.to <= Len(topic)
  /\ archive \subseteq Offsets /\ dlq \subseteq Offsets
  /\ batches \in [BatchIds -> SUBSET Offsets] /\ counted \in [BatchIds -> Nat]
  /\ progress \in [{"ingest", "zone_metrics"} -> Nat]
  /\ table \in [Windows -> SUBSET Offsets] /\ crashes \in 0..MaxCrashes

\* Every reading of a batch that is on record, or that the query has moved
\* past, is where it belongs: in the archive if valid, dead-lettered if not.
\* No crash between the two writes and the record loses one.
RecordedIsKept ==
  \A o \in DOMAIN topic :
    o <= ingest.from \/ (\E b \in BatchIds : o \in batches[b])
      => IF topic[o] = Invalid THEN o \in dlq ELSE o \in archive

\* What wait_for_archive relies on: when the recorded progress has reached t,
\* some archived reading bears t, and every valid reading the stream delivered
\* before it is archived as well.
ProgressIsArchived ==
  progress.ingest > 0 =>
    \E o \in archive :
      /\ Time(o) = progress.ingest
      /\ \A p \in Valid(1..o) : p \in archive

\* ops.ingest_batches counts every message exactly once: no two batches share
\* one, and none that the query has moved past is missing.
MessagesCountedOnce ==
  /\ \A b, c \in BatchIds : b # c => batches[b] \cap batches[c] = {}
  /\ 1..ingest.from \subseteq UNION {batches[b] : b \in BatchIds}

\* A batch that is run again after a crash is not added to the Prometheus
\* counters a second time.
NeverCountedTwice == \A b \in BatchIds : counted[b] <= 1

\* No reading is aggregated twice, by a retransmission, a batch run again or
\* state that was evicted too early, and none in a window not its own.
AggregatedOnce ==
  \A w \in Windows :
    /\ \A o \in table[w] : topic[o] # Invalid /\ WindowOf(Time(o)) = w
    /\ \A o, p \in table[w] : topic[o] = topic[p] => o = p

\* A window only ever gains readings: replaying a batch converges, and no
\* upsert replaces an aggregate by one that forgot some of it.
WindowsOnlyGrow == [][\A w \in Windows : table[w] \subseteq table'[w]]_vars

\* The view lacks only what is behind the watermark: a valid reading at most
\* Delay older than every reading before it is in its window once the query has
\* moved past it.
TimelyIsAggregated ==
  \A o \in Valid(1..metrics.from) :
    (\A p \in Valid(1..o) : Time(p) < Time(o) + Delay) =>
      \E p \in table[WindowOf(Time(o))] : topic[p] = topic[o]

\* Whatever crashes, ingest catches up with the topic again and again, and has
\* then kept every message and put it on record.  (It may fall behind for good
\* where meters send faster than it reads; the bound on messages excludes that.)
EveryMessageIsKept ==
  []<>\A o \in DOMAIN topic :
        o \in archive \cup dlq /\ \E b \in BatchIds : o \in batches[b]

\* "The batch bookkeeping in ops.* is keyed by (simulation, batch id), so it is
\* exactly-once, and so are the Prometheus counters derived from it."
CountersMatchBookkeeping ==
  \A b \in BatchIds : b < ingest.batch => (batches[b] # {} => counted[b] = 1)
=============================================================================
