--------------------------- MODULE SpeedLayerProofs ---------------------------
(***************************************************************************)
(* The safety properties of the speed layer, for any number of messages,   *)
(* crashes and meters, any batch size, delay and window: what is on record *)
(* is kept, nothing is counted or aggregated twice, and the view lacks     *)
(* only what is behind the watermark.                                      *)
(***************************************************************************)
EXTENDS SpeedToBatch, FiniteSetTheorems, TLAPS

-----------------------------------------------------------------------------
(* Numbers.                                                                *)

LEMMA Division ==
  ASSUME NEW a \in Nat, NEW W \in Nat \ {0}
  PROVE  a \div W \in Nat /\ (a \div W) * W <= a /\ a < ((a \div W) + 1) * W
<1>1. a \div W \in Int /\ a % W \in 0..(W - 1) /\ a = (W * (a \div W)) + (a % W)
  BY SMT
<1> QED
  BY <1>1, SMT

LEMMA ProductGrows ==
  ASSUME NEW x \in Nat, NEW y \in Nat, x <= y, NEW W \in Nat
  PROVE  x * W <= y * W
  BY SMT

\* A reading's window is one of the windows, and ends after the reading.
LEMMA WindowFacts ==
  ASSUME NEW t \in Times
  PROVE  WindowOf(t) \in Windows /\ t < WindowEnd(WindowOf(t))
<1>1. t \in Nat /\ LastTime \in Nat /\ t <= LastTime /\ Window \in Nat \ {0}
  BY BoundsAssumption DEF Times
<1> DEFINE x == t \div Window
           y == LastTime \div Window
<1>2. /\ x \in Nat /\ x * Window <= t /\ t < (x + 1) * Window
      /\ y \in Nat /\ LastTime < (y + 1) * Window
  BY <1>1, Division
<1>3. x <= y
  <2> SUFFICES ASSUME y + 1 <= x PROVE FALSE
    BY <1>2
  <2>1. (y + 1) * Window <= x * Window
    <3>1. y + 1 \in Nat /\ Window \in Nat
      BY <1>1, <1>2
    <3> HIDE DEF x, y
    <3> QED
      BY <1>2, <3>1, ProductGrows
  <2>2. (y + 1) * Window \in Int /\ x * Window \in Int
    BY <1>1, <1>2
  <2> HIDE DEF x, y
  <2> QED
    BY <1>1, <1>2, <2>1, <2>2
<1> QED
  BY <1>2, <1>3 DEF WindowOf, WindowEnd, Windows

LEMMA WindowEndNat == \A w \in Windows : WindowEnd(w) \in Nat
<1>1. SUFFICES ASSUME NEW w \in Windows PROVE (w + 1) * Window \in Nat
  BY DEF WindowEnd
<1>2. w + 1 \in Nat /\ Window \in Nat
  BY BoundsAssumption DEF Windows
<1> QED
  BY <1>2, SMT

LEMMA MinOfTwo ==
  ASSUME NEW a \in Int, NEW b \in Int
  PROVE  Min({a, b}) = IF a <= b THEN a ELSE b
  BY DEF Min

LEMMA MaxOfTwo ==
  ASSUME NEW a \in Int, NEW b \in Int
  PROVE  Max({a, b}) = IF a >= b THEN a ELSE b
  BY DEF Max

\* A finite set of numbers has a greatest element, which Max returns: a
\* minimal one of the sets of the elements above each element is empty.
LEMMA MaxIsGreatest ==
  ASSUME NEW S \in SUBSET Int, IsFiniteSet(S), S # {}
  PROVE  Max(S) \in S /\ \A x \in S : x <= Max(S)
<1> DEFINE Above(x) == {y \in S : y > x}
           T == {Above(x) : x \in S}
<1>1. T \subseteq FiniteSubsetsOf(S) /\ T # {}
  <2>1. \A x \in S : Above(x) \subseteq S /\ IsFiniteSet(Above(x))
    BY FS_Subset
  <2> QED
    BY <2>1 DEF FiniteSubsetsOf
<1>2. PICK A \in T : \A B \in T : <<B, A>> \notin StrictSubsetOrdering(S)
  <2>1. IsWellFoundedOn(StrictSubsetOrdering(S), FiniteSubsetsOf(S))
    BY FS_StrictSubsetOrderingWellFounded
  <2> HIDE DEF T
  <2> QED
    BY <1>1, <2>1, WFMin
<1>3. PICK x \in S : A = Above(x)
  BY <1>2
<1>4. A = {}
  <2>1. SUFFICES ASSUME NEW y \in A PROVE FALSE
    OBVIOUS
  <2>2. y \in S /\ y > x
    BY <2>1, <1>3
  <2>3. Above(y) \subseteq A /\ y \notin Above(y)
    <3>1. ~(y > y) /\ \A z \in S : z > y => z > x
      BY <2>2
    <3> QED
      BY <1>3, <3>1
  <2>4. <<Above(y), A>> \in StrictSubsetOrdering(S)
    <3>1. Above(y) \in SUBSET S /\ A \in SUBSET S /\ Above(y) # A
      BY <2>1, <2>3, <1>3
    <3> QED
      BY <3>1, <2>3 DEF StrictSubsetOrdering
  <2> QED
    BY <2>2, <2>4, <1>2
<1>5. \A y \in S : x >= y
  BY <1>3, <1>4
<1> QED
  BY <1>5 DEF Max

\* The least element of a set of offsets.
LEMMA LeastOffset ==
  ASSUME NEW N \in Nat, NEW S \in SUBSET (1..N), S # {}
  PROVE  \E x \in S : \A y \in S : x <= y
<1> DEFINE T == {y \in (-N)..0 : -y \in S}
<1>1. T \in SUBSET Int /\ IsFiniteSet(T)
  <2>1. IsFiniteSet((-N)..0)
    BY FS_Interval
  <2> QED
    BY <2>1, FS_Subset
<1>2. \A x \in S : -x \in T
  <2>1. \A x \in S : x \in Int /\ -x \in (-N)..0 /\ -(-x) = x
    OBVIOUS
  <2> QED
    BY <2>1
<1>3. Max(T) \in T /\ \A y \in T : y <= Max(T)
  <2>1. T # {}
    BY <1>2
  <2> HIDE DEF T
  <2> QED
    BY <1>1, <2>1, MaxIsGreatest
<1> DEFINE m == Max(T)
<1>4. m \in Int /\ -m \in S /\ \A x \in S : -x <= m
  BY <1>2, <1>3
<1> HIDE DEF m
<1>5. \A x \in S : -m <= x
  <2>1. \A x \in S : x \in Int
    OBVIOUS
  <2> QED
    BY <1>4, <2>1
<1> QED
  BY <1>4, <1>5

-----------------------------------------------------------------------------
(* Types.                                                                  *)

\* Where a query stands fits its logs; a batch covers at least one offset, so
\* no batch id exceeds the offsets before it.
QueryOK ==
  /\ ingest.batch <= ingest.from
  /\ ingest.pc = "idle" <=> ingest.from = ingest.to
  /\ metrics.pc = "idle" <=> metrics.from = metrics.to

Types == TypeOK /\ QueryOK

LEMMA PlannedIs ==
  ASSUME TypeOK, NEW q, q \in {ingest, metrics}
  PROVE  /\ Planned(q) \in Nat /\ q.from <= Planned(q) /\ Planned(q) <= Len(topic)
         /\ q.from \in Nat /\ q.to \in Nat /\ q.from <= q.to /\ q.to <= Len(topic)
<1>1. /\ q.from \in Nat /\ q.to \in Nat /\ q.from <= q.to /\ q.to <= Len(topic)
      /\ Len(topic) \in Nat /\ MaxOffsets \in Nat
  BY BoundsAssumption DEF TypeOK, IngestQuery, MetricsQuery
<1>2. Planned(q) = IF Len(topic) <= q.from + MaxOffsets
                   THEN Len(topic) ELSE q.from + MaxOffsets
  <2>1. q.from + MaxOffsets \in Int /\ Len(topic) \in Int
    BY <1>1
  <2> QED
    BY <2>1, MinOfTwo DEF Planned
<1> QED
  BY <1>1, <1>2

LEMMA MessageIs ==
  ASSUME TypeOK, NEW o \in 1..Len(topic)
  PROVE  /\ topic[o] \in Messages /\ Time(o) \in 0..LastTime
         /\ topic[o] # Invalid => topic[o] \in Readings /\ Time(o) \in Times
         /\ o \in Offsets
<1>1. topic[o] \in Messages /\ Len(topic) \in Nat /\ Len(topic) <= MaxMessages
  BY DEF TypeOK
<1> QED
  BY <1>1, BoundsAssumption DEF Messages, Readings, Invalid, Times, Time, Offsets

LEMMA LatestIs ==
  ASSUME TypeOK, NEW t \in Nat, NEW S \in SUBSET (1..Len(topic))
  PROVE  /\ Latest(t, S) \in Nat /\ t <= Latest(t, S)
         /\ \A o \in S : Time(o) <= Latest(t, S)
         /\ Latest(t, S) = t \/ \E o \in S : Latest(t, S) = Time(o)
<1> DEFINE T == {t} \cup {Time(o) : o \in S}
<1>1. T \subseteq 0..(t + LastTime) /\ T # {} /\ T \in SUBSET Int
  <2>1. \A o \in S : Time(o) \in 0..LastTime
    BY MessageIs
  <2> QED
    BY <2>1, BoundsAssumption
<1>2. IsFiniteSet(T)
  <2>1. IsFiniteSet(0..(t + LastTime))
    BY FS_Interval, BoundsAssumption
  <2> HIDE DEF T
  <2> QED
    BY <1>1, <2>1, FS_Subset
<1>3. Max(T) \in T /\ \A x \in T : x <= Max(T)
  <2> HIDE DEF T
  <2> QED
    BY <1>1, <1>2, MaxIsGreatest
<1>4. Latest(t, S) = Max(T)
  BY DEF Latest
<1>5. Max(T) \in Nat
  <2>1. Max(T) \in 0..(t + LastTime)
    <3> HIDE DEF T
    <3> QED
      BY <1>1, <1>3
  <2>2. \A x \in 0..(t + LastTime) : x \in Nat
    BY BoundsAssumption
  <2> HIDE DEF T
  <2> QED
    BY <2>1, <2>2
<1> QED
  BY <1>3, <1>4, <1>5

\* What a query takes in are offsets of the topic.
LEMMA BatchIs ==
  ASSUME TypeOK, NEW q, q \in {ingest, metrics}
  PROVE  /\ Batch(q) \subseteq 1..Len(topic) /\ Valid(Batch(q)) \subseteq Batch(q)
         /\ Batch(q) \subseteq Offsets
<1>1. q.from \in Nat /\ q.to \in Nat /\ q.to <= Len(topic) /\ Len(topic) \in Nat
  BY PlannedIs DEF TypeOK
<1>2. Batch(q) \subseteq 1..Len(topic)
  BY <1>1 DEF Batch
<1> QED
  BY <1>2, MessageIs DEF Valid

LEMMA FreshIs ==
  ASSUME TypeOK
  PROVE  /\ Fresh(metrics) \subseteq Valid(Batch(metrics))
         /\ \A o \in Fresh(metrics) : topic[o] \in Readings /\ Time(o) > metrics.late
         /\ \A w \in Windows : Aggregate(metrics, w) \subseteq Offsets
<1>1. Fresh(metrics) \subseteq Valid(Batch(metrics))
  BY DEF Fresh
<1>2. \A o \in Fresh(metrics) : topic[o] \in Readings /\ Time(o) > metrics.late
  BY <1>1, BatchIs, MessageIs DEF Fresh, Valid
<1>3. \A w \in Windows : metrics.open[w] \subseteq Offsets
  BY DEF TypeOK, MetricsQuery
<1>4. \A w \in Windows : InWindow(w, Fresh(metrics)) \subseteq Offsets
  BY <1>1, BatchIs DEF InWindow
<1> QED
  BY <1>1, <1>2, <1>3, <1>4 DEF Aggregate

LEMMA WatermarkIs ==
  ASSUME TypeOK
  PROVE  /\ Watermark(metrics) \in Nat /\ metrics.evict <= Watermark(metrics)
         /\ \/ Watermark(metrics) = metrics.evict
            \/ Watermark(metrics) = Latest(0, Valid(Batch(metrics))) - Delay
<1>1. metrics.evict \in Nat /\ Delay \in Nat
  BY BoundsAssumption DEF TypeOK, MetricsQuery
<1>2. Latest(0, Valid(Batch(metrics))) \in Nat
  <2>1. Valid(Batch(metrics)) \in SUBSET (1..Len(topic))
    BY BatchIs
  <2> QED
    BY <2>1, LatestIs
<1> DEFINE l == Latest(0, Valid(Batch(metrics))) - Delay
<1>3. l \in Int
  BY <1>1, <1>2
<1>4. Watermark(metrics) = IF metrics.evict >= l THEN metrics.evict ELSE l
  <2>1. Watermark(metrics) = Max({metrics.evict, l})
    BY DEF Watermark
  <2> HIDE DEF l
  <2> QED
    BY <1>1, <1>3, <2>1, MaxOfTwo
<1> HIDE DEF l
<1>5. Watermark(metrics) \in Nat /\ metrics.evict <= Watermark(metrics)
  BY <1>1, <1>3, <1>4
<1> QED
  BY <1>4, <1>5 DEF l

LEMMA ProgressIs ==
  ASSUME TypeOK, NEW S \in SUBSET Windows
  PROVE  Max({progress.zone_metrics} \cup {WindowEnd(w) : w \in S}) \in Nat
<1> DEFINE t == progress.zone_metrics
           K == WindowOf(LastTime)
           N == t + WindowEnd(K)
           T == {t} \cup {WindowEnd(w) : w \in S}
<1>1. t \in Nat /\ K \in Nat /\ WindowEnd(K) \in Nat
  <2>1. t \in Nat
    BY DEF TypeOK
  <2>2. K \in Nat
    BY BoundsAssumption, Division DEF WindowOf
  <2>3. K \in Windows
    BY <2>2 DEF Windows
  <2> QED
    BY <2>1, <2>2, <2>3, WindowEndNat
<1>2. \A w \in Windows : WindowEnd(w) \in Nat /\ WindowEnd(w) <= WindowEnd(K)
  <2> SUFFICES ASSUME NEW w \in Windows
               PROVE  WindowEnd(w) \in Nat /\ WindowEnd(w) <= WindowEnd(K)
    OBVIOUS
  <2>1. w + 1 \in Nat /\ K + 1 \in Nat /\ w + 1 <= K + 1 /\ Window \in Nat
    BY <1>1, BoundsAssumption DEF Windows
  <2>2. (w + 1) * Window <= (K + 1) * Window
    <3> HIDE DEF K
    <3> QED
      BY <2>1, ProductGrows
  <2> QED
    BY <2>2, WindowEndNat DEF WindowEnd
<1>3. T \subseteq 0..N /\ T # {} /\ N \in Nat
  <2> HIDE DEF K
  <2> QED
    BY <1>1, <1>2
<1>4. Max(T) \in T
  <2>1. IsFiniteSet(0..N)
    BY <1>3, FS_Interval
  <2>2. T \in SUBSET Int
    <3>1. \A x \in 0..N : x \in Int
      BY <1>3
    <3> HIDE DEF T, N
    <3> QED
      BY <1>3, <3>1
  <2> HIDE DEF T, N
  <2>3. IsFiniteSet(T)
    BY <1>3, <2>1, FS_Subset
  <2> QED
    BY <1>3, <2>2, <2>3, MaxIsGreatest
<1>5. \A x \in 0..N : x \in Nat
  BY <1>3
<1>6. Max(T) \in Nat
  <2> HIDE DEF T, N
  <2> QED
    BY <1>3, <1>4, <1>5
<1> QED
  BY <1>6

\* The state a batch leaves.
LEMMA AfterIs ==
  ASSUME TypeOK
  PROVE  After(metrics) \in MetricsQuery
<1>1. /\ metrics \in MetricsQuery
      /\ metrics.batch + 1 \in Nat /\ metrics.to \in Nat /\ metrics.evict \in Nat
  BY DEF TypeOK, MetricsQuery
<1>2. Watermark(metrics) \in Nat
  BY WatermarkIs
<1> DEFINE seen == metrics.seen \cup {topic[o] : o \in Fresh(metrics)}
           kept == {r \in seen : r.time + Delay > metrics.evict}
           open == [w \in Windows |-> IF WindowEnd(w) > metrics.evict
                                      THEN Aggregate(metrics, w) ELSE {}]
<1>3. kept \in SUBSET Readings
  BY <1>1, FreshIs DEF MetricsQuery
<1>4. open \in [Windows -> SUBSET Offsets]
  BY FreshIs
<1>5. After(metrics) =
        [metrics EXCEPT !.pc = "idle", !.batch = @ + 1, !.from = metrics.to,
           !.late = metrics.evict, !.evict = Watermark(metrics), !.seen = kept, !.open = open]
  BY DEF After
<1> HIDE DEF kept, open
<1> QED
  BY <1>1, <1>2, <1>3, <1>4, <1>5 DEF MetricsQuery

LEMMA AfterFields ==
  ASSUME TypeOK
  PROVE  /\ After(metrics).pc = "idle"
         /\ After(metrics).from = metrics.to /\ After(metrics).to = metrics.to
         /\ After(metrics).late = metrics.evict
         /\ After(metrics).evict = Watermark(metrics)
         /\ After(metrics).seen =
              {r \in metrics.seen \cup {topic[o] : o \in Fresh(metrics)} :
                 r.time + Delay > metrics.evict}
         /\ \A w \in Windows : After(metrics).open[w] =
              IF WindowEnd(w) > metrics.evict THEN Aggregate(metrics, w) ELSE {}
  BY DEF After, TypeOK, MetricsQuery

LEMMA TypesInit == Init => Types
<1> SUFFICES ASSUME Init PROVE Types
  OBVIOUS
<1>1. Empty \in [Windows -> SUBSET Offsets]
  BY DEF Empty
<1>2. ingest \in IngestQuery /\ metrics \in MetricsQuery
  BY <1>1 DEF Init, IngestQuery, MetricsQuery
<1>3. topic \in Seq(Messages) /\ Len(topic) = 0
  BY DEF Init
<1> QED
  BY <1>1, <1>2, <1>3, BoundsAssumption DEF Init, Types, TypeOK, QueryOK

LEMMA TypesStep == Types /\ [Next]_vars => Types'
<1> SUFFICES ASSUME Types, [Next]_vars PROVE Types'
  OBVIOUS
<1> USE DEF Types
<1>0. /\ BatchIds \subseteq Nat /\ ingest.batch \in BatchIds
      /\ ingest \in IngestQuery /\ metrics \in MetricsQuery
      /\ Planned(ingest) \in Nat /\ Planned(ingest) <= Len(topic)
      /\ Planned(metrics) \in Nat /\ Planned(metrics) <= Len(topic)
  BY SMTT(30), PlannedIs, BoundsAssumption DEF TypeOK, QueryOK, IngestQuery, BatchIds
<1>1. ASSUME NEW m \in Messages, Produce(m) PROVE Types'
  <2>1. topic' \in Seq(Messages) /\ Len(topic') = Len(topic) + 1 /\ Len(topic) \in Nat
    BY <1>1 DEF Produce, TypeOK
  <2>2. Len(topic') <= MaxMessages
    BY <1>1, <2>1, BoundsAssumption DEF Produce
  <2> QED
    BY SMTT(30), <1>0, <1>1, <2>1, <2>2
       DEF Produce, TypeOK, QueryOK, ingested, IngestQuery, MetricsQuery
<1>2. CASE PlanIngest
  <2>1. ingest' \in IngestQuery
    BY <1>0, <1>2 DEF PlanIngest, IngestQuery
  <2>2. QueryOK' /\ ingest'.from <= ingest'.to /\ ingest'.to <= Len(topic)
    BY <1>0, <1>2, PlannedIs DEF PlanIngest, QueryOK, IngestQuery
  <2> QED
    BY <1>2, <2>1, <2>2 DEF PlanIngest, TypeOK, ingested
<1>3. CASE Archive
  <2>1. archive' \subseteq Offsets
    BY <1>3, BatchIs DEF Archive, TypeOK
  <2> QED
    BY <1>0, <1>3, <2>1 DEF Archive, TypeOK, QueryOK, IngestQuery
<1>4. CASE DeadLetter
  <2>1. dlq' \subseteq Offsets
    BY <1>4, BatchIs DEF DeadLetter, TypeOK
  <2> QED
    BY <1>0, <1>4, <2>1 DEF DeadLetter, TypeOK, QueryOK, IngestQuery
<1>5. CASE RecordIngest
  <2>1. CASE Record(Reached)
    <3>1. Reached \in Nat
      <4>1. Valid(Batch(ingest)) \in SUBSET (1..Len(topic)) /\ progress.ingest \in Nat
        BY BatchIs DEF TypeOK
      <4> QED
        BY <4>1, LatestIs DEF Reached
    <3>2. Batch(ingest) \subseteq Offsets
      BY BatchIs
    <3> QED
      BY <1>0, <1>5, <2>1, <3>1, <3>2
      DEF RecordIngest, Record, TypeOK, QueryOK, IngestQuery
  <2>2. CASE AlreadyRecorded
    BY <1>0, <1>5, <2>2 DEF RecordIngest, AlreadyRecorded, TypeOK, QueryOK, ingested, IngestQuery
  <2> QED
    BY <1>5, <2>1, <2>2 DEF RecordIngest
<1>6. CASE CountIngest
  <2>1. ingest' \in IngestQuery /\ QueryOK' /\ ingest'.from = ingest.from
        /\ ingest'.to = ingest.to
    BY <1>0, <1>6 DEF CountIngest, QueryOK, IngestQuery
  <2>2. counted' \in [BatchIds -> Nat]
    BY <1>0, <1>6 DEF CountIngest, TypeOK
  <2> QED
    BY <1>6, <2>1, <2>2 DEF CountIngest, TypeOK
<1>7. CASE CommitIngest
  <2>0. ingest.from < ingest.to
    BY <1>0, <1>7 DEF CommitIngest, TypeOK, QueryOK, IngestQuery
  <2>1. ingest' \in IngestQuery /\ ingest'.from = ingest.to /\ ingest'.to = ingest.to
    <3>1. ingest.batch + 1 \in Nat /\ ingest.to \in Nat
      BY <1>0 DEF IngestQuery
    <3>2. ingest \in IngestQuery
      BY <1>0
    <3> QED
      BY <1>7, <3>1, <3>2 DEF CommitIngest, IngestQuery
  <2>2. QueryOK'
    BY <1>0, <1>7, <2>0, <2>1 DEF CommitIngest, QueryOK, IngestQuery
  <2> QED
    BY <1>0, <1>7, <2>1, <2>2 DEF CommitIngest, TypeOK, ingested, IngestQuery
<1>8. CASE PlanMetrics
  <2>1. metrics' \in MetricsQuery
    BY <1>0, <1>8 DEF PlanMetrics, MetricsQuery
  <2>2. QueryOK' /\ metrics'.from <= metrics'.to /\ metrics'.to <= Len(topic)
    BY <1>0, <1>8, PlannedIs DEF PlanMetrics, QueryOK, MetricsQuery
  <2> QED
    BY <1>8, <2>1, <2>2 DEF PlanMetrics, TypeOK, ingested
<1>9. CASE Upsert
  <2>1. table' \in [Windows -> SUBSET Offsets]
    BY <1>9, FreshIs DEF Upsert, TypeOK
  <2>2. progress' \in [{"ingest", "zone_metrics"} -> Nat]
    <3>1. Changed(metrics) \in SUBSET Windows
      BY DEF Changed
    <3>2. Max({progress.zone_metrics} \cup {WindowEnd(w) : w \in Changed(metrics)}) \in Nat
      BY <3>1, ProgressIs
    <3>3. progress' = [progress EXCEPT !.zone_metrics =
            Max({progress.zone_metrics} \cup {WindowEnd(w) : w \in Changed(metrics)})]
      BY <1>9 DEF Upsert
    <3> QED
      BY <3>2, <3>3 DEF TypeOK
  <2> QED
    BY <1>0, <1>9, <2>1, <2>2 DEF Upsert, TypeOK, QueryOK, ingested, MetricsQuery
<1>10. CASE metrics' = After(metrics) /\ UNCHANGED <<topic, ingest, ingested, progress, table, crashes>>
  <2>1. metrics' \in MetricsQuery /\ metrics'.pc = "idle"
        /\ metrics'.from = metrics.to /\ metrics'.to = metrics.to
    BY <1>10, AfterIs, AfterFields
  <2> QED
    BY SMTT(30), <1>0, <1>10, <2>1 DEF TypeOK, QueryOK, ingested, MetricsQuery
<1>11. CASE Crash
  <2>1. ingest' \in IngestQuery /\ metrics' \in MetricsQuery
    BY <1>0, <1>11 DEF Crash, IngestQuery, MetricsQuery
  <2>2. archive' \subseteq Offsets /\ dlq' \subseteq Offsets
    BY <1>11, BatchIs DEF Crash, TypeOK, Valid
  <2>3. crashes' \in 0..MaxCrashes
    BY <1>11, BoundsAssumption DEF Crash, TypeOK
  <2>4. QueryOK'
    BY SMTT(30), <1>0, <1>11 DEF Crash, TypeOK, QueryOK, IngestQuery, MetricsQuery
  <2> QED
    BY <1>0, <1>11, <2>1, <2>2, <2>3, <2>4 DEF Crash, TypeOK, IngestQuery, MetricsQuery
<1>12. CASE UNCHANGED vars
  BY <1>12 DEF vars, ingested, TypeOK, QueryOK
<1> QED
  BY <1>1, <1>2, <1>3, <1>4, <1>5, <1>6, <1>7, <1>8, <1>9, <1>10, <1>11, <1>12
  DEF Next, IngestStep, MetricsStep, CommitMetrics, EvictMetrics, IdleTrigger

\* The speed layer keeps its types, for any bounds.
THEOREM SpeedTypeCorrect == Spec => []TypeOK
<1>1. Types => TypeOK
  BY DEF Types
<1> QED
  BY TypesInit, TypesStep, <1>1, PTL DEF Spec

-----------------------------------------------------------------------------
(* The bookkeeping of ingest.                                              *)

\* Batches go on record in the order of their ids, and the batch under way in
\* full or not at all, whether for the first time or once more.
Booked ==
  \A b \in BatchIds :
    /\ b < ingest.batch => batches[b] \subseteq 1..ingest.from
    /\ b = ingest.batch => batches[b] = {} \/ batches[b] = Batch(ingest)
    /\ b > ingest.batch => batches[b] = {}
    /\ counted[b] # 0 => batches[b] # {}

\* It is counted after it went on record, by the process that recorded it.
Counting ==
  /\ ingest.pc \in {"count", "commit"} => batches[ingest.batch] = Batch(ingest)
  /\ ingest.pc = "count" => counted[ingest.batch] = 0

BookInv == Booked /\ Counting /\ MessagesCountedOnce /\ NeverCountedTwice

LEMMA BookInit == Init => BookInv
  BY BoundsAssumption
  DEF Init, BookInv, Booked, Counting, MessagesCountedOnce, NeverCountedTwice, BatchIds

LEMMA IngestIs ==
  ASSUME Types
  PROVE  /\ ingest.batch \in BatchIds /\ BatchIds \subseteq Nat
         /\ ingest.from \in Nat /\ ingest.to \in Nat /\ ingest.from <= ingest.to
         /\ ingest.pc # "idle" => Batch(ingest) # {} /\ ingest.from < ingest.to
         /\ ingest.pc = "idle" => Batch(ingest) = {}
         /\ batches \in [BatchIds -> SUBSET Offsets] /\ counted \in [BatchIds -> Nat]
<1>1. /\ ingest.batch \in Nat /\ ingest.from \in Nat /\ ingest.to \in Nat
      /\ ingest.batch <= ingest.from /\ ingest.from <= ingest.to
      /\ ingest.to <= Len(topic) /\ Len(topic) \in Nat /\ Len(topic) <= MaxMessages
      /\ ingest.pc = "idle" <=> ingest.from = ingest.to
  BY DEF Types, TypeOK, QueryOK, IngestQuery
<1>2. ingest.batch \in BatchIds /\ BatchIds \subseteq Nat
  BY <1>1, BoundsAssumption DEF BatchIds
<1>3. ingest.pc # "idle" => ingest.from < ingest.to /\ ingest.to \in Batch(ingest)
  BY <1>1 DEF Batch
<1>4. ingest.pc = "idle" => Batch(ingest) = {}
  BY <1>1 DEF Batch
<1> QED
  BY <1>1, <1>2, <1>3, <1>4 DEF Types, TypeOK

LEMMA BookStep == Types /\ BookInv /\ [Next]_vars => BookInv'
<1> SUFFICES ASSUME Types, BookInv, [Next]_vars PROVE BookInv'
  OBVIOUS
<1>0. /\ ingest.batch \in BatchIds /\ BatchIds \subseteq Nat
      /\ ingest.from \in Nat /\ ingest.to \in Nat /\ ingest.from <= ingest.to
      /\ ingest.pc # "idle" => Batch(ingest) # {} /\ ingest.from < ingest.to
      /\ ingest.pc = "idle" => Batch(ingest) = {}
      /\ batches \in [BatchIds -> SUBSET Offsets] /\ counted \in [BatchIds -> Nat]
      /\ ingest \in IngestQuery
  BY IngestIs DEF Types, TypeOK
<1>1. ASSUME UNCHANGED <<batches, counted>>, ingest'.batch = ingest.batch,
             ingest'.from = ingest.from, ingest'.to = ingest.to \/ ingest.pc = "idle",
             Counting'
      PROVE  BookInv'
  <2>1. Booked'
    <3>1. ingest.pc = "idle" \/ Batch(ingest)' = Batch(ingest)
      BY <1>1 DEF Batch
    <3> QED
      BY <1>0, <1>1, <3>1 DEF BookInv, Booked
  <2>2. MessagesCountedOnce' /\ NeverCountedTwice'
    BY <1>1 DEF BookInv, MessagesCountedOnce, NeverCountedTwice
  <2> QED
    BY <1>1, <2>1, <2>2 DEF BookInv
<1>2. CASE PlanIngest
  <2>1. ingest'.batch = ingest.batch /\ ingest'.from = ingest.from /\ ingest'.pc = "archive"
    BY <1>0, <1>2 DEF PlanIngest, IngestQuery
  <2> QED
    BY <1>1, <1>2, <2>1 DEF PlanIngest, ingested, Counting
<1>3. CASE Archive \/ DeadLetter
  <2>1. /\ ingest'.batch = ingest.batch /\ ingest'.from = ingest.from
        /\ ingest'.to = ingest.to /\ ingest'.pc \in {"dlq", "record"}
    BY <1>0, <1>3 DEF Archive, DeadLetter, IngestQuery
  <2>2. UNCHANGED <<batches, counted>>
    BY <1>3 DEF Archive, DeadLetter
  <2> QED
    BY <1>1, <2>1, <2>2 DEF Counting
<1>4. CASE ingest.pc = "record" /\ batches[ingest.batch] = {} /\ Record(Reached)
  <2>1. /\ ingest'.batch = ingest.batch /\ ingest'.from = ingest.from
        /\ ingest'.to = ingest.to /\ ingest'.pc = "count" /\ counted' = counted
    BY <1>0, <1>4 DEF Record, IngestQuery
  <2>2. Batch(ingest)' = Batch(ingest)
    BY <2>1 DEF Batch
  <2>3. batches' = [batches EXCEPT ![ingest.batch] = Batch(ingest)]
    BY <1>4 DEF Record
  <2>4. Booked'
    BY <1>0, <2>1, <2>2, <2>3 DEF BookInv, Booked
  <2>5. Counting'
    BY <1>0, <1>4, <2>1, <2>2, <2>3 DEF BookInv, Booked, Counting
  <2>6. \A b \in BatchIds : b # ingest.batch => batches[b] \cap Batch(ingest) = {}
    <3> SUFFICES ASSUME NEW b \in BatchIds, b # ingest.batch
                 PROVE  batches[b] \cap Batch(ingest) = {}
      OBVIOUS
    <3>1. CASE b < ingest.batch
      <4>1. batches[b] \subseteq 1..ingest.from
        BY <3>1 DEF BookInv, Booked
      <4> QED
        BY <1>0, <4>1 DEF Batch
    <3>2. CASE b > ingest.batch
      BY <3>2 DEF BookInv, Booked
    <3>3. b \in Nat /\ ingest.batch \in Nat
      BY <1>0
    <3> QED
      BY <3>1, <3>2, <3>3
  <2>7. \A b, c \in BatchIds : b # c => batches'[b] \cap batches'[c] = {}
    BY <1>0, <2>3, <2>6 DEF BookInv, MessagesCountedOnce
  <2>8. 1..ingest.from \subseteq UNION {batches'[b] : b \in BatchIds}
    <3> SUFFICES ASSUME NEW o \in 1..ingest.from
                 PROVE  \E b \in BatchIds : o \in batches'[b]
      OBVIOUS
    <3>1. PICK b \in BatchIds : o \in batches[b]
      BY DEF BookInv, MessagesCountedOnce
    <3>2. b # ingest.batch
      BY <1>4, <3>1
    <3> QED
      BY <1>0, <2>3, <3>1, <3>2
  <2>9. MessagesCountedOnce'
    BY <2>1, <2>7, <2>8 DEF MessagesCountedOnce
  <2> QED
    BY <2>1, <2>4, <2>5, <2>9 DEF BookInv, NeverCountedTwice
<1>5. CASE ingest.pc = "record" /\ batches[ingest.batch] # {} /\ AlreadyRecorded
  <2>1. /\ ingest'.batch = ingest.batch /\ ingest'.from = ingest.from
        /\ ingest'.to = ingest.to /\ ingest'.pc = "commit" /\ UNCHANGED <<batches, counted>>
    BY <1>0, <1>5 DEF AlreadyRecorded, ingested, IngestQuery
  <2>2. Counting'
    BY <1>0, <1>5, <2>1 DEF BookInv, Booked, Counting, Batch
  <2> QED
    BY <1>1, <2>1, <2>2
<1>6. CASE CountIngest
  <2>1. /\ ingest'.batch = ingest.batch /\ ingest'.from = ingest.from
        /\ ingest'.to = ingest.to /\ ingest'.pc = "commit" /\ batches' = batches
    BY <1>0, <1>6 DEF CountIngest, IngestQuery
  <2>2. Batch(ingest)' = Batch(ingest)
    BY <2>1 DEF Batch
  <2>3. counted[ingest.batch] = 0 /\ batches[ingest.batch] = Batch(ingest)
    BY <1>6 DEF CountIngest, BookInv, Counting
  <2>4. counted' = [counted EXCEPT ![ingest.batch] = 1]
    BY <1>0, <1>6, <2>3 DEF CountIngest
  <2>5. Booked' /\ Counting'
    BY <1>0, <1>6, <2>1, <2>2, <2>3, <2>4 DEF CountIngest, BookInv, Booked, Counting
  <2>6. NeverCountedTwice'
    BY <1>0, <2>4 DEF BookInv, NeverCountedTwice
  <2>7. MessagesCountedOnce'
    BY <2>1 DEF BookInv, MessagesCountedOnce
  <2> QED
    BY <2>5, <2>6, <2>7 DEF BookInv
<1>7. CASE CommitIngest
  <2>1. /\ ingest'.batch = ingest.batch + 1 /\ ingest'.from = ingest.to
        /\ ingest'.pc = "idle" /\ UNCHANGED <<batches, counted>>
    BY <1>0, <1>7 DEF CommitIngest, ingested, IngestQuery
  <2>2. batches[ingest.batch] = Batch(ingest) /\ Batch(ingest) \subseteq 1..ingest.to
        /\ \A o \in 1..ingest.to : o \in 1..ingest.from \/ o \in Batch(ingest)
    BY <1>0, <1>7 DEF CommitIngest, BookInv, Counting, Batch
  <2>3. Booked'
    <3> SUFFICES ASSUME NEW b \in BatchIds
                 PROVE  /\ b < ingest.batch + 1 => batches[b] \subseteq 1..ingest.to
                        /\ b = ingest.batch + 1 => batches[b] = {}
                        /\ b > ingest.batch + 1 => batches[b] = {}
                        /\ counted[b] # 0 => batches[b] # {}
      BY <2>1 DEF Booked
    <3>1. b \in Nat /\ ingest.batch \in Nat
      BY <1>0
    <3>2. CASE b < ingest.batch
      BY <1>0, <3>1, <3>2 DEF BookInv, Booked
    <3>3. CASE b = ingest.batch
      BY <1>0, <2>2, <3>1, <3>3 DEF BookInv, Booked
    <3>4. CASE b > ingest.batch
      BY <3>1, <3>4 DEF BookInv, Booked
    <3> QED
      BY <3>1, <3>2, <3>3, <3>4
  <2>4. MessagesCountedOnce'
    <3>1. \A o \in 1..ingest.to : \E b \in BatchIds : o \in batches[b]
      <4> SUFFICES ASSUME NEW o \in 1..ingest.to
                   PROVE  \E b \in BatchIds : o \in batches[b]
        OBVIOUS
      <4>1. CASE o \in 1..ingest.from
        BY <4>1 DEF BookInv, MessagesCountedOnce
      <4>2. CASE o \in Batch(ingest)
        BY <1>0, <2>2, <4>2
      <4> QED
        BY <2>2, <4>1, <4>2
    <3> QED
      BY <2>1, <3>1 DEF BookInv, MessagesCountedOnce
  <2>5. Counting' /\ NeverCountedTwice'
    BY <2>1 DEF BookInv, Counting, NeverCountedTwice
  <2> QED
    BY <2>3, <2>4, <2>5 DEF BookInv
<1>8. CASE Crash
  <2>1. /\ ingest'.batch = ingest.batch /\ ingest'.from = ingest.from
        /\ ingest'.to = ingest.to /\ ingest'.pc \in {"archive", "idle"}
    BY <1>0, <1>8 DEF Crash, IngestQuery
  <2>2. UNCHANGED <<batches, counted>>
    BY <1>8 DEF Crash
  <2> QED
    BY <1>1, <2>1, <2>2 DEF Counting
<1>9. CASE UNCHANGED <<ingest, batches, counted>>
  <2>1. Counting'
    BY <1>9 DEF BookInv, Counting, Batch
  <2> QED
    BY <1>1, <1>9, <2>1
<1> QED
  BY <1>2, <1>3, <1>4, <1>5, <1>6, <1>7, <1>8, <1>9
  DEF Next, IngestStep, RecordIngest, MetricsStep, Produce, PlanMetrics, Upsert,
      CommitMetrics, EvictMetrics, IdleTrigger, ingested, vars

\* The bookkeeping of the ingest query is right at all times.
LEMMA BookHolds == Spec => []BookInv
<1>1. Init => Types /\ BookInv
  BY TypesInit, BookInit
<1>2. Types /\ BookInv /\ [Next]_vars => (Types /\ BookInv)'
  BY TypesStep, BookStep
<1> QED
  BY <1>1, <1>2, PTL DEF Spec

\* Every message is counted exactly once in ops.ingest_batches, wherever and
\* however often the process ends.
THEOREM CountedExactlyOnce == Spec => []MessagesCountedOnce
<1>1. BookInv => MessagesCountedOnce
  BY DEF BookInv
<1> QED
  BY <1>1, BookHolds, PTL

\* The counters are incremented at most once for a batch: a batch that Spark runs
\* again after it was recorded is recognised.
THEOREM CountersNeverRepeat == Spec => []NeverCountedTwice
<1>1. BookInv => NeverCountedTwice
  BY DEF BookInv
<1> QED
  BY <1>1, BookHolds, PTL

-----------------------------------------------------------------------------
(* The archive, the dead letters and the progress.                         *)

\* What a batch has written by the time it gets to each of its steps.
Written ==
  /\ archive \subseteq 1..Len(topic)
  /\ ingest.pc \in {"dlq", "record", "count", "commit"} =>
       Valid(Batch(ingest)) \subseteq archive
  /\ ingest.pc \in {"record", "count", "commit"} =>
       Batch(ingest) \ Valid(Batch(ingest)) \subseteq dlq

KeepInv == Written /\ RecordedIsKept /\ ProgressIsArchived

LEMMA KeepInit == Init => KeepInv
  BY DEF Init, KeepInv, Written, RecordedIsKept, ProgressIsArchived

LEMMA RecordedOffsets ==
  ASSUME Types, BookInv, NEW b \in BatchIds
  PROVE  batches[b] \subseteq 1..ingest.to /\ ingest.to <= Len(topic) /\ Len(topic) \in Nat
<1>1. /\ b \in Nat /\ ingest.batch \in Nat /\ ingest.from \in Nat /\ ingest.to \in Nat
      /\ ingest.from <= ingest.to
  BY IngestIs
<1>2. ingest.to <= Len(topic) /\ Len(topic) \in Nat
  BY DEF Types, TypeOK
<1>3. Booked
  BY DEF BookInv
<1>4. b < ingest.batch => batches[b] \subseteq 1..ingest.from
  BY <1>3 DEF Booked
<1>5. b = ingest.batch => batches[b] = {} \/ batches[b] = Batch(ingest)
  BY <1>3 DEF Booked
<1>6. b > ingest.batch => batches[b] = {}
  BY <1>3 DEF Booked
<1>7. 1..ingest.from \subseteq 1..ingest.to /\ Batch(ingest) \subseteq 1..ingest.to
  BY <1>1 DEF Batch
<1>8. b < ingest.batch \/ b = ingest.batch \/ b > ingest.batch
  BY <1>1
<1>9. batches[b] \subseteq 1..ingest.to
  BY <1>4, <1>5, <1>6, <1>7, <1>8
<1> QED
  BY <1>2, <1>9

\* The messages that are there stay as they are when one is appended.
LEMMA Appended ==
  ASSUME TypeOK, NEW m \in Messages, Produce(m)
  PROVE  /\ Len(topic) \in Nat /\ Len(topic') = Len(topic) + 1
         /\ DOMAIN topic = 1..Len(topic) /\ DOMAIN topic' = 1..(Len(topic) + 1)
         /\ \A o \in 1..Len(topic) : topic'[o] = topic[o]
         /\ topic'[Len(topic) + 1] = m
  BY DEF Produce, TypeOK

LEMMA KeepStep == Types /\ BookInv /\ KeepInv /\ [Next]_vars => KeepInv'
<1> SUFFICES ASSUME Types, BookInv, KeepInv, [Next]_vars PROVE KeepInv'
  OBVIOUS
<1>0. /\ ingest.from \in Nat /\ ingest.to \in Nat /\ ingest.from <= ingest.to
      /\ ingest.batch \in BatchIds /\ batches \in [BatchIds -> SUBSET Offsets]
      /\ ingest \in IngestQuery /\ TypeOK /\ ingest.to <= Len(topic) /\ Len(topic) \in Nat
      /\ DOMAIN topic = 1..Len(topic) /\ Batch(ingest) \subseteq 1..Len(topic)
  BY IngestIs, BatchIs DEF Types, TypeOK
<1>1. ASSUME UNCHANGED <<topic, batches>>, progress'.ingest = progress.ingest,
             ingest'.from = ingest.from, archive \subseteq archive', dlq \subseteq dlq'
      PROVE  RecordedIsKept' /\ ProgressIsArchived'
  <2>1. RecordedIsKept'
    BY <1>1 DEF KeepInv, RecordedIsKept
  <2>2. ProgressIsArchived'
    BY <1>1 DEF KeepInv, ProgressIsArchived, Time, Valid
  <2> QED
    BY <2>1, <2>2
<1>2. ASSUME UNCHANGED <<topic, batches, progress, archive, dlq>>,
             ingest'.from = ingest.from, ingest'.to = ingest.to,
             Written'
      PROVE  KeepInv'
  BY <1>1, <1>2 DEF KeepInv
<1>3. ASSUME NEW m \in Messages, Produce(m) PROVE KeepInv'
  <2>1. /\ Len(topic') = Len(topic) + 1 /\ DOMAIN topic' = 1..(Len(topic) + 1)
        /\ \A o \in 1..Len(topic) : topic'[o] = topic[o]
    BY <1>0, <1>3, Appended
  <2>2. UNCHANGED <<ingest, archive, dlq, batches, progress>>
    BY <1>3 DEF Produce, ingested
  <2>3. Written'
    <3>1. Batch(ingest)' = Batch(ingest) /\ Valid(Batch(ingest))' = Valid(Batch(ingest))
      BY <1>0, <2>1, <2>2 DEF Batch, Valid
    <3>2. archive' \subseteq 1..Len(topic')
      BY <1>0, <2>1, <2>2 DEF KeepInv, Written
    <3> QED
      BY <2>2, <3>1, <3>2 DEF KeepInv, Written
  <2>4. RecordedIsKept'
    <3> SUFFICES ASSUME NEW o \in DOMAIN topic',
                        o <= ingest.from \/ (\E b \in BatchIds : o \in batches[b])
                 PROVE  IF topic'[o] = Invalid THEN o \in dlq ELSE o \in archive
      BY <2>2 DEF RecordedIsKept
    <3>1. o \in Nat /\ o <= ingest.to
      BY <1>0, <2>1, RecordedOffsets
    <3>2. o \in 1..Len(topic)
      BY <1>0, <2>1, <3>1
    <3> QED
      BY <1>0, <2>1, <3>2 DEF KeepInv, RecordedIsKept
  <2>5. ProgressIsArchived'
    <3> SUFFICES ASSUME progress.ingest > 0
                 PROVE  \E o \in archive : /\ topic'[o].time = progress.ingest
                                           /\ \A p \in 1..o : topic'[p] # Invalid => p \in archive
      BY <2>2 DEF ProgressIsArchived, Time, Valid
    <3>1. PICK o \in archive : /\ topic[o].time = progress.ingest
                               /\ \A p \in 1..o : topic[p] # Invalid => p \in archive
      BY DEF KeepInv, ProgressIsArchived, Time, Valid
    <3>2. o \in 1..Len(topic) /\ 1..o \subseteq 1..Len(topic)
      BY <1>0, <3>1 DEF KeepInv, Written
    <3> QED
      BY <2>1, <3>1, <3>2
  <2> QED
    BY <2>3, <2>4, <2>5 DEF KeepInv
<1>4. CASE PlanIngest
  <2>1. /\ ingest'.from = ingest.from /\ ingest'.pc = "archive"
        /\ UNCHANGED <<topic, batches, progress, archive, dlq>>
    BY <1>0, <1>4 DEF PlanIngest, ingested, IngestQuery
  <2>2. Written'
    BY <2>1 DEF KeepInv, Written
  <2> QED
    BY <1>1, <2>1, <2>2 DEF KeepInv
<1>5. CASE Archive
  <2>1. /\ ingest'.from = ingest.from /\ ingest'.to = ingest.to /\ ingest'.pc = "dlq"
        /\ UNCHANGED <<topic, batches, progress, dlq>>
        /\ archive' = archive \cup Valid(Batch(ingest))
    BY <1>0, <1>5 DEF Archive, IngestQuery
  <2>2. Written'
    <3>1. Valid(Batch(ingest))' = Valid(Batch(ingest))
      BY <2>1 DEF Batch, Valid
    <3>2. archive' \subseteq 1..Len(topic)
      BY <1>0, <2>1 DEF KeepInv, Written, Valid
    <3> QED
      BY <2>1, <3>1, <3>2 DEF Written
  <2> QED
    BY <1>1, <2>1, <2>2 DEF KeepInv
<1>6. CASE DeadLetter
  <2>1. /\ ingest'.from = ingest.from /\ ingest'.to = ingest.to /\ ingest'.pc = "record"
        /\ UNCHANGED <<topic, batches, progress, archive>>
        /\ dlq' = dlq \cup (Batch(ingest) \ Valid(Batch(ingest)))
    BY <1>0, <1>6 DEF DeadLetter, IngestQuery
  <2>2. Written'
    <3>1. Batch(ingest)' = Batch(ingest) /\ Valid(Batch(ingest))' = Valid(Batch(ingest))
      BY <2>1 DEF Batch, Valid
    <3> QED
      BY <1>6, <2>1, <3>1 DEF KeepInv, Written, DeadLetter
  <2> QED
    BY <1>1, <2>1, <2>2 DEF KeepInv
<1>7. CASE ingest.pc = "record" /\ Record(Reached)
  <2>1. /\ ingest'.from = ingest.from /\ ingest'.to = ingest.to /\ ingest'.pc = "count"
        /\ UNCHANGED <<topic, archive, dlq>>
        /\ batches' = [batches EXCEPT ![ingest.batch] = Batch(ingest)]
        /\ progress'.ingest = Reached
    BY <1>0, <1>7 DEF Record, IngestQuery, TypeOK
  <2>2. Written'
    BY <1>7, <2>1 DEF KeepInv, Written, Batch, Valid
  <2>3. \A o \in Batch(ingest) : IF topic[o] = Invalid THEN o \in dlq ELSE o \in archive
    BY <1>7 DEF KeepInv, Written, Valid
  <2>4. RecordedIsKept'
    BY <1>0, <2>1, <2>3 DEF KeepInv, RecordedIsKept
  <2>5. ProgressIsArchived'
    <3>1. Reached = progress.ingest \/ \E o \in Valid(Batch(ingest)) : Reached = Time(o)
      <4>1. Valid(Batch(ingest)) \in SUBSET (1..Len(topic)) /\ progress.ingest \in Nat
        BY <1>0 DEF Valid, TypeOK
      <4> QED
        BY <1>0, <4>1, LatestIs DEF Reached
    <3>2. CASE Reached = progress.ingest
      BY <2>1, <3>2 DEF KeepInv, ProgressIsArchived, Time, Valid
    <3>3. ASSUME NEW o \in Valid(Batch(ingest)), Reached = Time(o) PROVE ProgressIsArchived'
      <4>1. o \in archive /\ o \in Batch(ingest)
        BY <2>3 DEF Valid
      <4>2. ASSUME NEW p \in Valid(1..o) PROVE p \in archive
        <5>1. CASE p <= ingest.from
          <6>1. p \in DOMAIN topic /\ topic[p] # Invalid
            BY <1>0, <4>1, <4>2 DEF Valid
          <6> QED
            BY <5>1, <6>1 DEF KeepInv, RecordedIsKept
        <5>2. CASE p > ingest.from
          <6>1. p \in Batch(ingest) /\ topic[p] # Invalid
            BY <1>0, <4>1, <4>2, <5>2 DEF Valid, Batch
          <6> QED
            BY <2>3, <6>1
        <5>3. p \in Nat
          BY <1>0, <4>1, <4>2 DEF Valid
        <5> QED
          BY <1>0, <5>1, <5>2, <5>3
      <4> QED
        BY <2>1, <3>3, <4>1, <4>2 DEF ProgressIsArchived, Time, Valid
    <3> QED
      BY <3>1, <3>2, <3>3
  <2> QED
    BY <2>2, <2>4, <2>5 DEF KeepInv
<1>8. CASE (ingest.pc = "record" /\ AlreadyRecorded) \/ CountIngest
  <2>1. /\ ingest'.from = ingest.from /\ ingest'.to = ingest.to /\ ingest'.pc = "commit"
        /\ UNCHANGED <<topic, archive, dlq, batches, progress>>
        /\ ingest.pc \in {"record", "count"}
    BY <1>0, <1>8 DEF AlreadyRecorded, CountIngest, ingested, IngestQuery
  <2>2. Written'
    BY <2>1 DEF KeepInv, Written, Batch, Valid
  <2> QED
    BY <1>2, <2>1, <2>2
<1>9. CASE CommitIngest
  <2>1. /\ ingest'.from = ingest.to /\ ingest'.pc = "idle" /\ ingest.pc = "commit"
        /\ UNCHANGED <<topic, archive, dlq, batches, progress>>
    BY <1>0, <1>9 DEF CommitIngest, ingested, IngestQuery
  <2>2. Written' /\ ProgressIsArchived'
    BY <2>1 DEF KeepInv, Written, ProgressIsArchived, Time, Valid
  <2>3. RecordedIsKept'
    <3>1. ASSUME NEW o \in DOMAIN topic, o <= ingest.to
          PROVE  o <= ingest.from \/ o \in Batch(ingest)
      BY <1>0, <3>1 DEF Batch
    <3>2. \A o \in Batch(ingest) : IF topic[o] = Invalid THEN o \in dlq ELSE o \in archive
      BY <2>1 DEF KeepInv, Written, Valid
    <3> QED
      BY <2>1, <3>1, <3>2 DEF KeepInv, RecordedIsKept
  <2> QED
    BY <2>2, <2>3 DEF KeepInv
<1>10. CASE Crash
  <2>1. /\ ingest'.from = ingest.from /\ ingest'.pc \in {"archive", "idle"}
        /\ UNCHANGED <<topic, batches, progress>>
        /\ archive \subseteq archive' /\ dlq \subseteq dlq'
    BY <1>0, <1>10 DEF Crash, IngestQuery
  <2>2. archive' \subseteq 1..Len(topic)
    BY <1>0, <1>10 DEF Crash, KeepInv, Written, Valid
  <2>3. Written'
    BY <2>1, <2>2 DEF Written
  <2> QED
    BY <1>1, <2>1, <2>3 DEF KeepInv
<1>11. CASE UNCHANGED <<topic, ingest, archive, dlq, batches>> /\ progress'.ingest = progress.ingest
  <2>1. Written'
    BY <1>11 DEF KeepInv, Written, Batch, Valid
  <2> QED
    BY <1>1, <1>11, <2>1 DEF KeepInv
<1>12. CASE MetricsStep \/ IdleTrigger \/ UNCHANGED vars
  <2>1. UNCHANGED <<topic, ingest, archive, dlq, batches>>
    BY <1>12 DEF MetricsStep, PlanMetrics, Upsert, CommitMetrics, EvictMetrics, IdleTrigger,
                 ingested, vars
  <2>2. progress'.ingest = progress.ingest
    BY <1>0, <1>12 DEF MetricsStep, PlanMetrics, Upsert, CommitMetrics, EvictMetrics,
                       IdleTrigger, vars, TypeOK
  <2> QED
    BY <1>11, <2>1, <2>2
<1> QED
  BY <1>3, <1>4, <1>5, <1>6, <1>7, <1>8, <1>9, <1>10, <1>12
  DEF Next, IngestStep, RecordIngest

\* What the ingest query keeps, it keeps at all times.
LEMMA KeepHolds == Spec => []KeepInv
<1>1. Init => Types /\ BookInv /\ KeepInv
  BY TypesInit, BookInit, KeepInit
<1>2. Types /\ BookInv /\ KeepInv /\ [Next]_vars => (Types /\ BookInv /\ KeepInv)'
  BY TypesStep, BookStep, KeepStep
<1> QED
  BY <1>1, <1>2, PTL DEF Spec

\* What is on record as ingested is in the archive or with the dead letters,
\* whatever part of a write a crash leaves and wherever it comes.
THEOREM NothingRecordedIsLost == Spec => []RecordedIsKept
<1>1. KeepInv => RecordedIsKept
  BY DEF KeepInv
<1> QED
  BY <1>1, KeepHolds, PTL

\* Progress never passes a reading that is not archived, so the settlement that
\* waits for it finds every reading that was read before.
THEOREM ProgressIsHonest == Spec => []ProgressIsArchived
<1>1. KeepInv => ProgressIsArchived
  BY DEF KeepInv
<1> QED
  BY <1>1, KeepHolds, PTL

-----------------------------------------------------------------------------
(* zone_metrics.                                                           *)

\* The watermark is Delay behind a valid reading of an earlier batch, and what
\* is late now was evicted by the batch before.
Watermarks ==
  /\ metrics.late <= metrics.evict
  /\ metrics.evict > 0 =>
       \E p \in Valid(1..metrics.from) : metrics.evict + Delay <= Time(p)

\* An open window holds readings of its own, each once, and each of them is
\* remembered, or late by now, should it come again.
OpenOnce ==
  \A w \in Windows :
    /\ \A o \in metrics.open[w] :
         /\ o \in 1..metrics.from /\ topic[o] \in Readings /\ WindowOf(Time(o)) = w
         /\ topic[o] \in metrics.seen \/ Time(o) <= metrics.late
    /\ \A o, p \in metrics.open[w] : topic[o] = topic[p] => o = p

\* A window that can still change has not forgotten anything of its row.
RowInState ==
  \A w \in Windows :
    /\ table[w] \subseteq 1..metrics.to
    /\ WindowEnd(w) > metrics.late => table[w] \subseteq Aggregate(metrics, w)

\* What is remembered is in its row, and so is a batch that has been upserted.
FreshIsUpserted == \A o \in Fresh(metrics) : o \in table[WindowOf(Time(o))]
SeenIsUpserted  == \A r \in metrics.seen : \E o \in table[WindowOf(r.time)] : topic[o] = r

MetricsInv ==
  /\ Watermarks /\ OpenOnce /\ RowInState /\ SeenIsUpserted
  /\ metrics.pc = "commit" => FreshIsUpserted
  /\ AggregatedOnce /\ TimelyIsAggregated

LEMMA MetricsInit == Init => MetricsInv
<1> SUFFICES ASSUME Init PROVE MetricsInv
  OBVIOUS
<1>1. /\ \A w \in Windows : metrics.open[w] = {} /\ table[w] = {}
      /\ metrics.from = 0 /\ metrics.late = 0 /\ metrics.evict = 0 /\ metrics.seen = {}
      /\ metrics.pc = "idle"
  BY DEF Init, Empty
<1>2. Valid(1..0) = {}
  BY DEF Valid
<1> QED
  BY <1>1, <1>2
  DEF MetricsInv, Watermarks, OpenOnce, RowInState, SeenIsUpserted, AggregatedOnce,
      TimelyIsAggregated

LEMMA MetricsIs ==
  ASSUME Types
  PROVE  /\ metrics \in MetricsQuery /\ TypeOK
         /\ metrics.from \in Nat /\ metrics.to \in Nat /\ metrics.from <= metrics.to
         /\ metrics.to <= Len(topic) /\ Len(topic) \in Nat /\ DOMAIN topic = 1..Len(topic)
         /\ metrics.late \in Nat /\ metrics.evict \in Nat
         /\ metrics.seen \subseteq Readings /\ metrics.open \in [Windows -> SUBSET Offsets]
         /\ Batch(metrics) \subseteq 1..metrics.to
         /\ metrics.from = metrics.to => Fresh(metrics) = {}
         /\ table \in [Windows -> SUBSET Offsets]
<1>1. /\ metrics \in MetricsQuery /\ TypeOK
      /\ metrics.from \in Nat /\ metrics.to \in Nat /\ metrics.from <= metrics.to
      /\ metrics.to <= Len(topic) /\ Len(topic) \in Nat /\ DOMAIN topic = 1..Len(topic)
      /\ metrics.late \in Nat /\ metrics.evict \in Nat
      /\ metrics.seen \subseteq Readings /\ metrics.open \in [Windows -> SUBSET Offsets]
      /\ table \in [Windows -> SUBSET Offsets]
  BY DEF Types, TypeOK, MetricsQuery
<1>2. Batch(metrics) \subseteq 1..metrics.to
  BY <1>1 DEF Batch
<1>3. metrics.from = metrics.to => Fresh(metrics) = {}
  <2>1. metrics.from = metrics.to => Batch(metrics) = {}
    BY <1>1 DEF Batch
  <2> QED
    BY <2>1 DEF Fresh, Valid
<1> QED
  BY <1>1, <1>2, <1>3

\* A reading is in Times, and in a window that ends after it.
LEMMA ReadingIs ==
  ASSUME NEW r \in Readings
  PROVE  /\ r.time \in Times /\ r.time \in Nat /\ r.time > 0 /\ WindowOf(r.time) \in Windows
         /\ r.time < WindowEnd(WindowOf(r.time)) /\ r # Invalid
<1>1. r.time \in Times
  BY DEF Readings
<1>2. WindowOf(r.time) \in Windows /\ r.time < WindowEnd(WindowOf(r.time))
  BY <1>1, WindowFacts
<1> QED
  BY <1>1, <1>2, BoundsAssumption DEF Times, Invalid

\* With a batch, a window still holds each reading once.
LEMMA AggregateOnce ==
  ASSUME Types, OpenOnce, NEW w \in Windows
  PROVE  /\ \A o \in Aggregate(metrics, w) :
              /\ o \in 1..metrics.to /\ topic[o] \in Readings /\ WindowOf(Time(o)) = w
         /\ \A o, p \in Aggregate(metrics, w) : topic[o] = topic[p] => o = p
<1> DEFINE F == InWindow(w, Fresh(metrics))
<1>0. /\ metrics.from \in Nat /\ metrics.to \in Nat /\ metrics.from <= metrics.to
      /\ metrics.late \in Nat
  BY MetricsIs
<1>1. \A o \in F : /\ o \in Fresh(metrics) /\ o \in Batch(metrics) /\ o \in 1..metrics.to
                   /\ topic[o] \in Readings /\ WindowOf(Time(o)) = w
                   /\ Time(o) > metrics.late
  BY FreshIs, BatchIs, MetricsIs DEF InWindow, Types
<1>2. \A o \in metrics.open[w] : /\ o \in 1..metrics.from /\ topic[o] \in Readings
                                 /\ WindowOf(Time(o)) = w
                                 /\ topic[o] \in metrics.seen \/ Time(o) <= metrics.late
  BY DEF OpenOnce
<1>3. \A o \in Aggregate(metrics, w) : o \in metrics.open[w] \/ o \in F
  BY DEF Aggregate
<1>4. ASSUME NEW o \in metrics.open[w], NEW p \in F PROVE topic[o] # topic[p]
  <2>1. topic[p] \notin metrics.seen /\ Time(p) > metrics.late
    BY <1>1 DEF Fresh
  <2>2. Time(p) \in Nat
    BY <1>1, ReadingIs DEF Time
  <2> QED
    BY <1>0, <1>2, <2>1, <2>2 DEF Time
<1>5. ASSUME NEW o \in F, NEW p \in F, topic[o] = topic[p] PROVE o = p
  <2>1. o <= p /\ p <= o
    BY <1>1, <1>5 DEF Fresh
  <2>2. o \in Nat /\ p \in Nat
    BY <1>1
  <2> QED
    BY <2>1, <2>2
<1>6. \A o, p \in metrics.open[w] : topic[o] = topic[p] => o = p
  BY DEF OpenOnce
<1>7. \A o \in 1..metrics.from : o \in 1..metrics.to
  BY <1>0
<1> HIDE DEF F
<1>8. \A o \in Aggregate(metrics, w) :
        o \in 1..metrics.to /\ topic[o] \in Readings /\ WindowOf(Time(o)) = w
  BY <1>1, <1>2, <1>3, <1>7
<1>9. \A o, p \in Aggregate(metrics, w) : topic[o] = topic[p] => o = p
  BY <1>3, <1>4, <1>5, <1>6
<1> QED
  BY <1>8, <1>9

\* A reading that is not late is remembered or, in its first copy, fresh.
LEMMA FreshOrSeen ==
  ASSUME Types, NEW o \in Valid(Batch(metrics)), Time(o) > metrics.late
  PROVE  topic[o] \in metrics.seen \/ \E p \in Fresh(metrics) : topic[p] = topic[o]
<1> SUFFICES ASSUME topic[o] \notin metrics.seen
             PROVE  \E p \in Fresh(metrics) : topic[p] = topic[o]
  OBVIOUS
<1> DEFINE S == {p \in Valid(Batch(metrics)) : topic[p] = topic[o]}
<1>1. S \in SUBSET (1..metrics.to) /\ o \in S /\ metrics.to \in Nat
  BY MetricsIs DEF Valid
<1>2. PICK q \in S : \A p \in S : q <= p
  <2>1. S # {}
    BY <1>1
  <2> HIDE DEF S
  <2> QED
    BY <1>1, <2>1, LeastOffset
<1>3. q \in Valid(Batch(metrics)) /\ topic[q] = topic[o] /\ Time(q) > metrics.late
  BY <1>2 DEF Time
<1>4. q \in Fresh(metrics)
  BY <1>2, <1>3 DEF Fresh
<1> QED
  BY <1>3, <1>4

\* What a batch leaves, once its windows have been upserted.
LEMMA AfterStep ==
  ASSUME Types, MetricsInv, FreshIsUpserted,
         metrics' = After(metrics), UNCHANGED <<topic, table>>
  PROVE  MetricsInv'
<1>0. /\ TypeOK /\ metrics.from \in Nat /\ metrics.to \in Nat /\ metrics.from <= metrics.to
      /\ metrics.late \in Nat /\ metrics.evict \in Nat /\ Delay \in Nat
      /\ metrics.late <= metrics.evict
      /\ DOMAIN topic = 1..Len(topic) /\ metrics.to <= Len(topic) /\ Len(topic) \in Nat
      /\ metrics.seen \subseteq Readings
  BY MetricsIs, BoundsAssumption DEF MetricsInv, Watermarks
<1>1. /\ metrics'.pc = "idle" /\ metrics'.from = metrics.to /\ metrics'.to = metrics.to
      /\ metrics'.late = metrics.evict /\ metrics'.evict = Watermark(metrics)
      /\ metrics'.seen = {r \in metrics.seen \cup {topic[o] : o \in Fresh(metrics)} :
                            r.time + Delay > metrics.evict}
      /\ \A w \in Windows : metrics'.open[w] =
           IF WindowEnd(w) > metrics.evict THEN Aggregate(metrics, w) ELSE {}
  BY <1>0, AfterFields
<1>2. \A S : Valid(S)' = Valid(S) /\ (\A o : Time(o)' = Time(o))
  BY DEF Valid, Time
<1>3. Watermarks'
  <2>1. Watermark(metrics) \in Nat /\ metrics.evict <= Watermark(metrics)
        /\ (\/ Watermark(metrics) = metrics.evict
            \/ Watermark(metrics) = Latest(0, Valid(Batch(metrics))) - Delay)
    BY <1>0, WatermarkIs
  <2>2. ASSUME Watermark(metrics) > 0
        PROVE  \E p \in Valid(1..metrics.to) : Watermark(metrics) + Delay <= Time(p)
    <3>1. CASE Watermark(metrics) = metrics.evict
      <4>1. PICK p \in Valid(1..metrics.from) : metrics.evict + Delay <= Time(p)
        BY <2>2, <3>1 DEF MetricsInv, Watermarks
      <4> QED
        BY <1>0, <3>1, <4>1 DEF Valid
    <3>2. CASE Watermark(metrics) = Latest(0, Valid(Batch(metrics))) - Delay
      <4>1. Valid(Batch(metrics)) \in SUBSET (1..Len(topic))
        BY <1>0, BatchIs
      <4>2. /\ Latest(0, Valid(Batch(metrics))) \in Nat
            /\ \/ Latest(0, Valid(Batch(metrics))) = 0
               \/ \E p \in Valid(Batch(metrics)) : Latest(0, Valid(Batch(metrics))) = Time(p)
        BY <1>0, <4>1, LatestIs
      <4>3. PICK p \in Valid(Batch(metrics)) : Latest(0, Valid(Batch(metrics))) = Time(p)
        BY <1>0, <2>1, <2>2, <3>2, <4>2
      <4>4. p \in Valid(1..metrics.to)
        BY <4>3, MetricsIs DEF Valid
      <4> QED
        BY <1>0, <2>1, <3>2, <4>2, <4>3, <4>4
    <3> QED
      BY <2>1, <3>1, <3>2
  <2> QED
    BY <1>1, <1>2, <2>1, <2>2 DEF Watermarks
<1>4. \A w \in Windows : \A o \in Aggregate(metrics, w) :
        topic[o] \in metrics'.seen \/ Time(o) <= metrics.evict
  <2> SUFFICES ASSUME NEW w \in Windows, NEW o \in Aggregate(metrics, w),
                      topic[o] \notin metrics'.seen
               PROVE  Time(o) <= metrics.evict
    OBVIOUS
  <2>1. topic[o] \in Readings /\ Time(o) \in Nat
    BY AggregateOnce, ReadingIs DEF MetricsInv, Time
  <2>2. CASE topic[o] \in metrics.seen \cup {topic[p] : p \in Fresh(metrics)}
    <3>1. ~(topic[o].time + Delay > metrics.evict)
      BY <1>1, <2>2
    <3> QED
      BY <1>0, <2>1, <3>1 DEF Time
  <2>3. CASE o \in metrics.open[w] /\ Time(o) <= metrics.late
    BY <1>0, <2>1, <2>3
  <2>4. o \in metrics.open[w] \/ o \in Fresh(metrics)
    BY DEF Aggregate, InWindow
  <2> QED
    BY <2>2, <2>3, <2>4 DEF MetricsInv, OpenOnce
<1>5. OpenOnce'
  <2> SUFFICES ASSUME NEW w \in Windows
               PROVE  /\ \A o \in metrics'.open[w] :
                           /\ o \in 1..metrics.to /\ topic[o] \in Readings
                           /\ WindowOf(topic[o].time) = w
                           /\ topic[o] \in metrics'.seen \/ topic[o].time <= metrics.evict
                      /\ \A o, p \in metrics'.open[w] : topic[o] = topic[p] => o = p
    BY <1>1 DEF OpenOnce, Time
  <2>1. metrics'.open[w] \subseteq Aggregate(metrics, w)
    BY <1>1
  <2>2. OpenOnce
    BY DEF MetricsInv
  <2> QED
    BY <1>4, <2>1, <2>2, AggregateOnce DEF Time
<1>6. RowInState'
  <2> SUFFICES ASSUME NEW w \in Windows
               PROVE  /\ table[w] \subseteq 1..metrics.to
                      /\ WindowEnd(w) > metrics.evict => table[w] \subseteq metrics'.open[w]
    BY <1>1 DEF RowInState, Aggregate
  <2>1. table[w] \subseteq 1..metrics.to
        /\ (WindowEnd(w) > metrics.late => table[w] \subseteq Aggregate(metrics, w))
    BY DEF MetricsInv, RowInState
  <2>2. WindowEnd(w) > metrics.evict => WindowEnd(w) > metrics.late
    BY <1>0, WindowEndNat
  <2> QED
    BY <1>1, <2>1, <2>2
<1>7. SeenIsUpserted'
  <2> SUFFICES ASSUME NEW r \in metrics.seen \cup {topic[o] : o \in Fresh(metrics)}
               PROVE  \E o \in table[WindowOf(r.time)] : topic[o] = r
    BY <1>1 DEF SeenIsUpserted
  <2>1. CASE r \in metrics.seen
    BY <2>1 DEF MetricsInv, SeenIsUpserted
  <2>2. ASSUME NEW o \in Fresh(metrics), r = topic[o]
        PROVE  \E p \in table[WindowOf(r.time)] : topic[p] = r
    BY <2>2 DEF FreshIsUpserted, Time
  <2> QED
    BY <2>1, <2>2
<1>8. AggregatedOnce'
  BY <1>2 DEF MetricsInv, AggregatedOnce, Time
<1>9. TimelyIsAggregated'
  <2> SUFFICES ASSUME NEW o \in Valid(1..metrics.to),
                      \A p \in Valid(1..o) : Time(p) < Time(o) + Delay
               PROVE  \E p \in table[WindowOf(Time(o))] : topic[p] = topic[o]
    BY <1>1, <1>2 DEF TimelyIsAggregated, Time
  <2>0. o \in 1..metrics.to /\ o \in 1..Len(topic) /\ topic[o] # Invalid
    BY <1>0 DEF Valid
  <2>1. topic[o] \in Readings /\ Time(o) \in Nat /\ Time(o) > 0
    <3>1. topic[o] \in Readings
      BY <1>0, <2>0, MessageIs
    <3> QED
      BY <3>1, ReadingIs DEF Time
  <2>2. CASE o <= metrics.from
    <3>1. o \in Valid(1..metrics.from)
      BY <1>0, <2>0, <2>2 DEF Valid
    <3> QED
      BY <3>1 DEF MetricsInv, TimelyIsAggregated
  <2>3. CASE o > metrics.from
    <3>1. o \in Valid(Batch(metrics))
      BY <1>0, <2>0, <2>3 DEF Valid, Batch
    <3>2. Time(o) > metrics.late
      <4>1. CASE metrics.evict = 0
        BY <1>0, <2>1, <4>1
      <4>2. CASE metrics.evict > 0
        <5>1. PICK p \in Valid(1..metrics.from) : metrics.evict + Delay <= Time(p)
          BY <4>2 DEF MetricsInv, Watermarks
        <5>2. p \in Valid(1..o) /\ p \in 1..Len(topic)
          BY <1>0, <2>0, <2>3, <5>1 DEF Valid
        <5>3. Time(p) < Time(o) + Delay
          BY <5>2
        <5>4. Time(p) \in Nat
          <6>1. Time(p) \in 0..LastTime
            BY <1>0, <5>2, MessageIs
          <6> QED
            BY <6>1
        <5> QED
          BY <1>0, <2>1, <5>1, <5>3, <5>4
      <4> QED
        BY <1>0, <4>1, <4>2
    <3>3. CASE topic[o] \in metrics.seen
      BY <3>3 DEF MetricsInv, SeenIsUpserted, Time
    <3>4. ASSUME NEW p \in Fresh(metrics), topic[p] = topic[o]
          PROVE  \E u \in table[WindowOf(Time(o))] : topic[u] = topic[o]
      BY <3>4 DEF FreshIsUpserted, Time
    <3> QED
      BY <3>1, <3>2, <3>3, <3>4, FreshOrSeen
  <2> QED
    BY <1>0, <2>0, <2>2, <2>3
<1> QED
  BY <1>1, <1>3, <1>5, <1>6, <1>7, <1>8, <1>9 DEF MetricsInv

\* A reading that is fresh is in a window that has not been evicted.
LEMMA ChangedIsOpen ==
  ASSUME Types, NEW w \in Changed(metrics)
  PROVE  w \in Windows /\ WindowEnd(w) > metrics.late
<1>1. PICK o \in InWindow(w, Fresh(metrics)) : TRUE
  BY DEF Changed
<1>2. topic[o] \in Readings /\ Time(o) > metrics.late /\ WindowOf(Time(o)) = w
  BY <1>1, FreshIs DEF InWindow, Types
<1>3. Time(o) < WindowEnd(w) /\ Time(o) \in Nat
  BY <1>2, ReadingIs DEF Time
<1>4. w \in Windows /\ WindowEnd(w) \in Nat /\ metrics.late \in Nat
  BY WindowEndNat, MetricsIs DEF Changed
<1> QED
  BY <1>2, <1>3, <1>4

LEMMA UpsertGrows ==
  ASSUME Types, RowInState, Upsert
  PROVE  \A w \in Windows : table[w] \subseteq table'[w]
<1>1. SUFFICES ASSUME NEW w \in Windows PROVE table[w] \subseteq table'[w]
  OBVIOUS
<1>2. table'[w] = IF w \in Changed(metrics) THEN Aggregate(metrics, w) ELSE table[w]
  BY DEF Upsert
<1>3. CASE w \in Changed(metrics)
  BY <1>2, <1>3, ChangedIsOpen DEF RowInState
<1> QED
  BY <1>2, <1>3

LEMMA UpsertStep ==
  ASSUME Types, MetricsInv, Upsert
  PROVE  MetricsInv'
<1>1. /\ UNCHANGED topic /\ metrics' = [metrics EXCEPT !.pc = "commit"]
      /\ \A w \in Windows : table'[w] = IF w \in Changed(metrics)
                                        THEN Aggregate(metrics, w) ELSE table[w]
      /\ table' = [w \in Windows |-> IF w \in Changed(metrics)
                                     THEN Aggregate(metrics, w) ELSE table[w]]
  BY DEF Upsert
<1>2. /\ metrics'.from = metrics.from /\ metrics'.to = metrics.to
      /\ metrics'.late = metrics.late /\ metrics'.evict = metrics.evict
      /\ metrics'.seen = metrics.seen /\ metrics'.open = metrics.open
  BY <1>1, MetricsIs DEF MetricsQuery
<1>3. /\ Fresh(metrics)' = Fresh(metrics) /\ Changed(metrics)' = Changed(metrics)
      /\ \A w : Aggregate(metrics, w)' = Aggregate(metrics, w)
  BY <1>1, <1>2 DEF Fresh, Changed, Aggregate, InWindow, Valid, Batch, Time
<1>4. \A w \in Windows : table[w] \subseteq table'[w]
  BY UpsertGrows DEF MetricsInv
<1>5. Watermarks' /\ OpenOnce'
  BY <1>1, <1>2 DEF MetricsInv, Watermarks, OpenOnce, Valid, Time
<1>6. \A w \in Windows : table'[w] = Aggregate(metrics, w) \/ table'[w] = table[w]
  BY <1>1
<1>7. RowInState'
  <2> SUFFICES ASSUME NEW w \in Windows
               PROVE  /\ table'[w] \subseteq 1..metrics.to
                      /\ WindowEnd(w) > metrics.late => table'[w] \subseteq Aggregate(metrics, w)
    BY <1>2, <1>3 DEF RowInState
  <2>1. CASE table'[w] = Aggregate(metrics, w)
    BY <2>1, AggregateOnce DEF MetricsInv
  <2>2. CASE table'[w] = table[w]
    BY <2>2 DEF MetricsInv, RowInState
  <2> QED
    BY <1>6, <2>1, <2>2
<1>8. SeenIsUpserted'
  <2>1. \A r \in metrics.seen : WindowOf(r.time) \in Windows
    BY MetricsIs, ReadingIs
  <2> QED
    BY <1>1, <1>2, <1>4, <2>1 DEF MetricsInv, SeenIsUpserted
<1>9. FreshIsUpserted'
  <2> SUFFICES ASSUME NEW o \in Fresh(metrics)
               PROVE  o \in table'[WindowOf(Time(o))]
    BY <1>1, <1>3 DEF FreshIsUpserted, Time
  <2>1. WindowOf(Time(o)) \in Windows
    BY FreshIs, ReadingIs DEF Types, Time
  <2>2. o \in InWindow(WindowOf(Time(o)), Fresh(metrics))
    BY DEF InWindow
  <2> QED
    BY <1>1, <2>1, <2>2 DEF Changed, Aggregate
<1>10. AggregatedOnce'
  <2> SUFFICES ASSUME NEW w \in Windows
               PROVE  /\ \A o \in table'[w] : topic[o] # Invalid /\ WindowOf(Time(o)) = w
                      /\ \A o, p \in table'[w] : topic[o] = topic[p] => o = p
    BY <1>1 DEF AggregatedOnce, Time
  <2>1. CASE table'[w] = Aggregate(metrics, w)
    <3>1. OpenOnce
      BY DEF MetricsInv
    <3>2. \A r \in Readings : r # Invalid
      BY ReadingIs
    <3> QED
      BY <2>1, <3>1, <3>2, AggregateOnce
  <2>2. CASE table'[w] = table[w]
    BY <2>2 DEF MetricsInv, AggregatedOnce
  <2> QED
    BY <1>6, <2>1, <2>2
<1>11. TimelyIsAggregated'
  <2>1. \A o \in Valid(1..metrics.from) : WindowOf(Time(o)) \in Windows
    <3> SUFFICES ASSUME NEW o \in Valid(1..metrics.from) PROVE WindowOf(Time(o)) \in Windows
      OBVIOUS
    <3>1. o \in 1..Len(topic) /\ topic[o] # Invalid
      BY MetricsIs DEF Valid
    <3>2. topic[o] \in Readings
      BY <3>1, MessageIs DEF Types
    <3> QED
      BY <3>2, ReadingIs DEF Time
  <2> QED
    BY <1>1, <1>2, <1>4, <2>1 DEF MetricsInv, TimelyIsAggregated, Valid, Time
<1> QED
  BY <1>1, <1>5, <1>7, <1>8, <1>9, <1>10, <1>11 DEF MetricsInv

LEMMA MetricsStepHolds == Types /\ MetricsInv /\ [Next]_vars => MetricsInv'
<1> SUFFICES ASSUME Types, MetricsInv, [Next]_vars PROVE MetricsInv'
  OBVIOUS
<1>0. /\ TypeOK /\ metrics \in MetricsQuery /\ metrics.from \in Nat /\ metrics.to \in Nat
      /\ metrics.from <= metrics.to /\ metrics.to <= Len(topic) /\ Len(topic) \in Nat
      /\ Batch(metrics) \subseteq 1..metrics.to
  BY MetricsIs
<1>1. ASSUME NEW m \in Messages, Produce(m) PROVE MetricsInv'
  <2>1. /\ UNCHANGED <<metrics, table>>
        /\ \A o \in 1..metrics.to : topic'[o] = topic[o]
    BY <1>0, <1>1, Appended DEF Produce
  <2>2. /\ \A o \in 1..metrics.to : Time(o)' = Time(o)
        /\ Valid(1..metrics.from)' = Valid(1..metrics.from)
        /\ \A o \in 1..metrics.to : Valid(1..o)' = Valid(1..o)
        /\ Valid(Batch(metrics))' = Valid(Batch(metrics))
    BY <1>0, <2>1 DEF Time, Valid, Batch
  <2>3. Fresh(metrics)' = Fresh(metrics) /\ Fresh(metrics) \subseteq 1..metrics.to
    <3>1. Valid(Batch(metrics)) \subseteq 1..metrics.to
      BY <1>0 DEF Valid
    <3> QED
      BY <2>1, <2>2, <3>1 DEF Fresh, Time
  <2>4. \A w \in Windows : Aggregate(metrics, w)' = Aggregate(metrics, w)
    BY <2>1, <2>2, <2>3 DEF Aggregate, InWindow
  <2>5. \A w \in Windows : table[w] \subseteq 1..metrics.to
                           /\ metrics.open[w] \subseteq 1..metrics.from
                           /\ metrics.open[w] \subseteq 1..metrics.to
    BY <1>0 DEF MetricsInv, RowInState, OpenOnce
  <2>6. Watermarks'
    <3>1. Valid(1..metrics.from) \subseteq 1..metrics.to
      BY <1>0 DEF Valid
    <3> QED
      BY <2>1, <2>2, <3>1 DEF MetricsInv, Watermarks
  <2>7. OpenOnce'
    BY <2>1, <2>2, <2>5 DEF MetricsInv, OpenOnce
  <2>8. RowInState'
    BY <2>1, <2>4 DEF MetricsInv, RowInState
  <2>9. SeenIsUpserted'
    <3>1. \A r \in metrics.seen : WindowOf(r.time) \in Windows
      BY MetricsIs, ReadingIs
    <3> QED
      BY <2>1, <2>5, <3>1 DEF MetricsInv, SeenIsUpserted
  <2>10. (metrics.pc = "commit" => FreshIsUpserted)'
    BY <2>1, <2>2, <2>3 DEF MetricsInv, FreshIsUpserted
  <2>11. AggregatedOnce'
    BY <2>1, <2>2, <2>5 DEF MetricsInv, AggregatedOnce
  <2>12. TimelyIsAggregated'
    <3> SUFFICES ASSUME NEW o \in Valid(1..metrics.from),
                        \A p \in Valid(1..o) : Time(p)' < Time(o)' + Delay
                 PROVE  \E p \in table[WindowOf(Time(o))] : topic'[p] = topic'[o]
      BY SMTT(30), <1>0, <2>1, <2>2 DEF TimelyIsAggregated, Valid
    <3>1. o \in 1..metrics.to /\ o \in 1..Len(topic) /\ topic[o] # Invalid
          /\ Valid(1..o) \subseteq 1..metrics.to
      BY <1>0 DEF Valid
    <3>2. \A p \in Valid(1..o) : Time(p) < Time(o) + Delay
      BY <2>2, <3>1
    <3>3. PICK p \in table[WindowOf(Time(o))] : topic[p] = topic[o]
      BY <3>2 DEF MetricsInv, TimelyIsAggregated
    <3>4. WindowOf(Time(o)) \in Windows
      <4>1. topic[o] \in Readings
        BY <1>0, <3>1, MessageIs
      <4> QED
        BY <4>1, ReadingIs DEF Time
    <3> QED
      BY <2>1, <2>5, <3>1, <3>3, <3>4
  <2> QED
    BY <2>6, <2>7, <2>8, <2>9, <2>10, <2>11, <2>12 DEF MetricsInv
<1>2. CASE PlanMetrics
  <2>1. /\ metrics'.pc = "upsert" /\ metrics'.from = metrics.from /\ metrics.to = metrics.from
        /\ metrics'.late = metrics.late /\ metrics'.evict = metrics.evict
        /\ metrics'.seen = metrics.seen /\ metrics'.open = metrics.open
        /\ metrics'.to = Planned(metrics) /\ UNCHANGED <<topic, table>>
    BY <1>0, <1>2 DEF PlanMetrics, MetricsQuery, Types, QueryOK
  <2>2. metrics.to <= metrics'.to /\ metrics'.to \in Nat
    BY <1>0, <2>1, PlannedIs
  <2>3. Watermarks' /\ OpenOnce' /\ SeenIsUpserted' /\ AggregatedOnce' /\ TimelyIsAggregated'
    BY <2>1 DEF MetricsInv, Watermarks, OpenOnce, SeenIsUpserted, AggregatedOnce,
                TimelyIsAggregated, Valid, Time
  <2>4. RowInState'
    <3>1. \A w \in Windows : Aggregate(metrics, w) \subseteq Aggregate(metrics, w)'
      <4>1. Fresh(metrics) = {}
        BY <2>1, MetricsIs
      <4>2. \A w \in Windows : Aggregate(metrics, w) = metrics.open[w]
        BY <4>1 DEF Aggregate, InWindow
      <4> QED
        BY <2>1, <4>2 DEF Aggregate
    <3>2. 1..metrics.to \subseteq 1..metrics'.to
      BY <1>0, <2>2
    <3> QED
      BY <2>1, <3>1, <3>2 DEF MetricsInv, RowInState
  <2> QED
    BY <2>1, <2>3, <2>4 DEF MetricsInv
<1>3. CASE Upsert
  BY <1>3, UpsertStep
<1>4. CASE CommitMetrics
  BY <1>4, AfterStep DEF CommitMetrics, MetricsInv
<1>5. CASE EvictMetrics
  <2>1. metrics.from = metrics.to
    BY <1>5 DEF EvictMetrics, Types, QueryOK
  <2>2. FreshIsUpserted
    BY <2>1, MetricsIs DEF FreshIsUpserted
  <2> QED
    BY <1>5, <2>2, AfterStep DEF EvictMetrics
<1>6. ASSUME UNCHANGED <<topic, table>>,
             \/ UNCHANGED metrics
             \/ \E pc \in {"upsert", "idle"} : metrics' = [metrics EXCEPT !.pc = pc]
      PROVE  MetricsInv'
  <2>1. /\ metrics'.from = metrics.from /\ metrics'.to = metrics.to
        /\ metrics'.late = metrics.late /\ metrics'.evict = metrics.evict
        /\ metrics'.seen = metrics.seen /\ metrics'.open = metrics.open
        /\ metrics'.pc = "commit" => metrics.pc = "commit"
    BY <1>0, <1>6 DEF MetricsQuery
  <2>2. Fresh(metrics)' = Fresh(metrics) /\ \A w : Aggregate(metrics, w)' = Aggregate(metrics, w)
    BY <1>6, <2>1 DEF Fresh, Aggregate, InWindow, Valid, Batch, Time
  <2>3. Watermarks' /\ OpenOnce' /\ SeenIsUpserted' /\ AggregatedOnce' /\ TimelyIsAggregated'
    BY <1>6, <2>1 DEF MetricsInv, Watermarks, OpenOnce, SeenIsUpserted, AggregatedOnce,
                      TimelyIsAggregated, Valid, Time
  <2>4. RowInState' /\ (metrics'.pc = "commit" => FreshIsUpserted')
    BY <1>6, <2>1, <2>2 DEF MetricsInv, RowInState, FreshIsUpserted, Time
  <2> QED
    BY <2>3, <2>4 DEF MetricsInv
<1>7. CASE Crash
  BY <1>6, <1>7 DEF Crash
<1>8. CASE IngestStep \/ IdleTrigger \/ UNCHANGED vars
  <2>1. UNCHANGED <<topic, table, metrics>>
    BY <1>8 DEF IngestStep, PlanIngest, Archive, DeadLetter, RecordIngest, Record,
                AlreadyRecorded, CountIngest, CommitIngest, IdleTrigger, ingested, vars
  <2> QED
    BY <1>6, <2>1
<1> QED
  BY <1>1, <1>2, <1>3, <1>4, <1>5, <1>7, <1>8 DEF Next, MetricsStep

\* What zone_metrics has aggregated is right at all times.
LEMMA MetricsHold == Spec => []MetricsInv
<1>1. Init => Types /\ MetricsInv
  BY TypesInit, MetricsInit
<1>2. Types /\ MetricsInv /\ [Next]_vars => (Types /\ MetricsInv)'
  BY TypesStep, MetricsStepHolds
<1> QED
  BY <1>1, <1>2, PTL DEF Spec

\* No reading is aggregated twice, by a copy, a batch run again or state evicted
\* too early.
THEOREM NeverAggregatedTwice == Spec => []AggregatedOnce
<1>1. MetricsInv => AggregatedOnce
  BY DEF MetricsInv
<1> QED
  BY <1>1, MetricsHold, PTL

\* A reading that is not behind the watermark is in its window once the query has
\* passed it, the first copy or another.
THEOREM TimelyNeverMissing == Spec => []TimelyIsAggregated
<1>1. MetricsInv => TimelyIsAggregated
  BY DEF MetricsInv
<1> QED
  BY <1>1, MetricsHold, PTL

\* A window never loses a reading, whatever is replayed.
THEOREM WindowsNeverShrink == Spec => WindowsOnlyGrow
<1>1. Init => Types /\ MetricsInv
  BY TypesInit, MetricsInit
<1>2. Types /\ MetricsInv /\ [Next]_vars => (Types /\ MetricsInv)'
  BY TypesStep, MetricsStepHolds
<1>3. Types /\ MetricsInv /\ [Next]_vars
        => [\A w \in Windows : table[w] \subseteq table'[w]]_vars
  <2> SUFFICES ASSUME Types, MetricsInv, Next, vars' # vars
               PROVE  \A w \in Windows : table[w] \subseteq table'[w]
    OBVIOUS
  <2>1. CASE Upsert
    BY <2>1, UpsertGrows DEF MetricsInv
  <2>2. CASE ~Upsert
    <3>1. table' = table
      BY <2>2 DEF Next, Produce, IngestStep, PlanIngest, Archive, DeadLetter, RecordIngest,
                  Record, AlreadyRecorded, CountIngest, CommitIngest, MetricsStep, PlanMetrics,
                  CommitMetrics, EvictMetrics, IdleTrigger, Crash, vars
    <3> QED
      BY <3>1
  <2> QED
    BY <2>1, <2>2
<1> QED
  BY <1>1, <1>2, <1>3, PTL DEF Spec, WindowsOnlyGrow

-----------------------------------------------------------------------------
(* The settlement that follows.                                            *)

\* Every behaviour of the two queries with a settlement is one of the two queries
\* alone: neither waits for the settlement, and it writes nothing of theirs.
THEOREM HandOverIsSpeed == HandOverSpec => Spec
<1>1. HandOverInit => Init
  BY DEF HandOverInit
<1>2. [HandOver]_allVars => [Next]_vars
  BY DEF HandOver, SpeedSteps, SettleDay, Reconcile, RunEnds, allVars
<1>3. QED
  BY <1>1, <1>2, PTL DEF HandOverSpec, Spec

\* Only readings are archived.
ArchivedAreValid == \A o \in archive : topic[o] # Invalid

\* What has been read of the topic stays as it was.
TopicGrows ==
  /\ Len(topic) \in Nat /\ Len(topic') \in Nat /\ Len(topic) <= Len(topic')
  /\ \A o \in 1..Len(topic) : topic'[o] = topic[o]

LEMMA TopicStep == ASSUME TypeOK, [Next]_vars PROVE TopicGrows
<1>0. Len(topic) \in Nat
  BY DEF TypeOK
<1>1. ASSUME NEW m \in Messages, Produce(m) PROVE TopicGrows
  BY <1>0, <1>1, Appended DEF TopicGrows
<1>2. CASE topic' = topic
  BY <1>0, <1>2 DEF TopicGrows
<1>3. topic' = topic \/ \E m \in Messages : Produce(m)
  BY DEF Next, IngestStep, PlanIngest, Archive, DeadLetter, RecordIngest, Record,
         AlreadyRecorded, CountIngest, CommitIngest, MetricsStep, PlanMetrics, Upsert,
         CommitMetrics, EvictMetrics, IdleTrigger, Crash, vars
<1>4. QED
  BY <1>1, <1>2, <1>3

LEMMA ArchivedStep ==
  ASSUME Types, KeepInv, ArchivedAreValid, [Next]_vars PROVE ArchivedAreValid'
<1>1. archive \subseteq 1..Len(topic) /\ Batch(ingest) \subseteq 1..Len(topic) /\ TypeOK
  BY BatchIs DEF KeepInv, Written, Types
<1>2. TopicGrows
  BY <1>1, TopicStep
<1>3. \A o \in 1..Len(topic) : topic'[o] = topic[o]
  BY <1>2 DEF TopicGrows
<1>4. archive' \subseteq archive \cup Valid(Batch(ingest))
  <2>1. CASE Crash
    BY <2>1 DEF Crash, Valid
  <2>2. CASE Archive
    BY <2>2 DEF Archive
  <2>3. CASE ~Crash /\ ~Archive
    <3>1. archive' = archive
      BY <2>3 DEF Next, Produce, IngestStep, PlanIngest, DeadLetter, RecordIngest, Record,
         AlreadyRecorded, CountIngest, CommitIngest, MetricsStep, PlanMetrics, Upsert,
         CommitMetrics, EvictMetrics, IdleTrigger, vars, ingested
    <3>2. QED
      BY <3>1
  <2>4. QED
    BY <2>1, <2>2, <2>3
<1>5. \A o \in archive' : o \in 1..Len(topic) /\ topic[o] # Invalid
  BY <1>1, <1>4 DEF ArchivedAreValid, Valid
<1>6. QED
  BY <1>3, <1>5 DEF ArchivedAreValid

\* The windows that start on the day are those of its readings.
LEMMA WindowsOfDay ==
  ASSUME NEW t \in Times
  PROVE  WindowOf(t) * Window < DayEnd <=> t < DayEnd
<1> DEFINE w == t \div Window
           k == DayEnd \div Window
<1>1. t \in Nat /\ Window \in Nat \ {0} /\ DayEnd \in Nat
  BY BoundsAssumption, DayAssumption DEF Times
<1>2. w \in Nat /\ w * Window <= t /\ t < (w + 1) * Window
  BY <1>1, Division
<1>3. k \in Nat /\ DayEnd = k * Window
  <2>1. k \in Nat /\ DayEnd % Window = 0
    BY <1>1, Division, DayAssumption
  <2>2. DayEnd = (Window * k) + (DayEnd % Window)
    BY <1>1, SMT
  <2> HIDE DEF k
  <2>3. QED
    BY <1>1, <2>1, <2>2, SMT
<1>4. ASSUME w * Window < DayEnd PROVE t < DayEnd
  <2> HIDE DEF w, k
  <2>1. w + 1 <= k
    <3>1. SUFFICES ASSUME k <= w PROVE FALSE
      BY <1>2, <1>3
    <3>2. k * Window <= w * Window
      BY <1>1, <1>2, <1>3, <3>1, ProductGrows
    <3>3. k * Window \in Nat /\ w * Window \in Nat
      BY <1>1, <1>2, <1>3, SMT
    <3>4. QED
      BY <1>3, <1>4, <3>2, <3>3
  <2>2. (w + 1) * Window <= k * Window
    BY <1>1, <1>2, <1>3, <2>1, ProductGrows
  <2>3. (w + 1) * Window \in Nat
    BY <1>1, <1>2, SMT
  <2>4. QED
    BY <1>1, <1>2, <1>3, <2>2, <2>3
<1>5. ASSUME t < DayEnd PROVE w * Window < DayEnd
  <2>1. w * Window \in Nat
    BY <1>1, <1>2, SMT
  <2> HIDE DEF w
  <2>2. QED
    BY <1>1, <1>2, <1>5, <2>1
<1>6. QED
  BY <1>4, <1>5 DEF WindowOf

\* A run has read readings of the day, and all of them that came before a reading
\* the grace waits for.
SettledIs ==
  /\ IsFiniteSet(run.settled)
  /\ \A r \in run.settled :
       \E o \in 1..Len(topic) : topic[o] = r /\ r # Invalid /\ Time(o) < DayEnd
  /\ DayEnd > 0 =>
       \E o \in 1..Len(topic) :
         /\ topic[o] # Invalid /\ Time(o) >= DayEnd + Grace
         /\ \A p \in 1..o :
              topic[p] # Invalid /\ Time(p) < DayEnd => topic[p] \in run.settled

Timely(o) == \A p \in Valid(1..o) : Time(p) < Time(o) + Delay

\* It is compared with the day's windows, where each reading counts once and none
\* that was timely lacks.
ComparedIs ==
  /\ run.seen \subseteq 1..Len(topic)
  /\ \A o \in run.seen : topic[o] # Invalid /\ Time(o) < DayEnd
  /\ \A o, p \in run.seen : topic[o] = topic[p] => o = p
  /\ run.read \in Nat /\ run.read <= Len(topic)
  /\ \A o \in 1..run.read : topic[o] # Invalid /\ Time(o) < DayEnd /\ Timely(o)
                              => topic[o] \in SeenBySpeed
  /\ \A n \in run.missed : n = Cardinality(run.settled) - Cardinality(run.seen)

RunInv ==
  /\ DOMAIN run = {"status", "settled", "missed", "seen", "read"}
  /\ run.status \in {"none", "settled", "reconciled"}
  /\ run.status # "none" => SettledIs
  /\ run.status = "reconciled" => ComparedIs

SpeedInv == Types /\ BookInv /\ KeepInv /\ ArchivedAreValid /\ MetricsInv

LEMMA SpeedInvStep == SpeedInv /\ [Next]_vars => SpeedInv'
  BY TypesStep, BookStep, KeepStep, ArchivedStep, MetricsStepHolds DEF SpeedInv

LEMMA SpeedInvInit == Init => SpeedInv
<1>1. Init => ArchivedAreValid
  BY DEF Init, ArchivedAreValid
<1>2. QED
  BY <1>1, TypesInit, BookInit, KeepInit, MetricsInit DEF SpeedInv

\* A run keeps what it has found while the topic grows.
LEMMA RunWhileTopicGrows ==
  ASSUME TypeOK, RunInv, TopicGrows, run' = run
  PROVE  RunInv'
<1>1. /\ Len(topic) \in Nat /\ Len(topic') \in Nat /\ Len(topic) <= Len(topic')
      /\ \A o \in 1..Len(topic) : topic'[o] = topic[o]
  BY DEF TopicGrows
<1>2. 1..Len(topic) \subseteq 1..Len(topic')
  BY <1>1
<1>3. \A o \in 1..Len(topic) : Time(o)' = Time(o)
  BY <1>1 DEF Time
<1>4. \A o \in 1..Len(topic) : /\ 1..o \subseteq 1..Len(topic)
                               /\ Valid(1..o)' = Valid(1..o)
  <2>1. SUFFICES ASSUME NEW o \in 1..Len(topic)
                 PROVE  1..o \subseteq 1..Len(topic) /\ Valid(1..o)' = Valid(1..o)
    OBVIOUS
  <2>2. 1..o \subseteq 1..Len(topic)
    BY <1>1
  <2>3. \A p \in 1..o : topic'[p] = topic[p]
    BY <1>1, <2>2
  <2>4. QED
    BY <2>2, <2>3 DEF Valid
<1>5. \A o \in 1..Len(topic) : Timely(o)' = Timely(o)
  <2>1. \A o \in 1..Len(topic) : \A p \in Valid(1..o) : p \in 1..Len(topic)
    BY <1>4 DEF Valid
  <2>2. QED
    BY <1>3, <1>4, <2>1 DEF Timely
<1>6. ASSUME SettledIs PROVE SettledIs'
  <2>1. ASSUME NEW r \in run.settled
        PROVE  \E o \in 1..Len(topic') : topic'[o] = r /\ r # Invalid /\ Time(o)' < DayEnd
    <3>1. PICK o \in 1..Len(topic) : topic[o] = r /\ r # Invalid /\ Time(o) < DayEnd
      BY <1>6, <2>1 DEF SettledIs
    <3>2. QED
      BY <1>1, <1>2, <1>3, <3>1
  <2>2. ASSUME DayEnd > 0
        PROVE  \E o \in 1..Len(topic') :
                 /\ topic'[o] # Invalid /\ Time(o)' >= DayEnd + Grace
                 /\ \A p \in 1..o :
                      topic'[p] # Invalid /\ Time(p)' < DayEnd => topic'[p] \in run.settled
    <3>1. PICK o \in 1..Len(topic) :
                 /\ topic[o] # Invalid /\ Time(o) >= DayEnd + Grace
                 /\ \A p \in 1..o :
                      topic[p] # Invalid /\ Time(p) < DayEnd => topic[p] \in run.settled
      BY <1>6, <2>2 DEF SettledIs
    <3>2. \A p \in 1..o : topic'[p] = topic[p] /\ Time(p)' = Time(p)
      BY <1>1, <1>3, <1>4, <3>1
    <3>3. QED
      BY <1>1, <1>2, <1>3, <3>1, <3>2
  <2>3. IsFiniteSet(run.settled)
    BY <1>6 DEF SettledIs
  <2>4. QED
    BY <2>1, <2>2, <2>3 DEF SettledIs
<1>7. ASSUME ComparedIs PROVE ComparedIs'
  <2>1. /\ run.seen \subseteq 1..Len(topic)
        /\ run.read \in Nat /\ run.read <= Len(topic)
    BY <1>7 DEF ComparedIs
  <2>2. \A o \in run.seen : topic'[o] = topic[o] /\ Time(o)' = Time(o)
    BY <1>1, <1>3, <2>1
  <2>3. \A o \in 1..run.read : /\ o \in 1..Len(topic) /\ topic'[o] = topic[o]
                               /\ Time(o)' = Time(o) /\ Timely(o)' = Timely(o)
    BY <1>1, <1>3, <1>5, <2>1
  <2>4. SeenBySpeed' = SeenBySpeed
    BY <2>2 DEF SeenBySpeed
  <2>5. run'.seen \subseteq 1..Len(topic') /\ run'.read <= Len(topic')
    BY <1>1, <1>2, <2>1
  <2>6. \A o \in run.seen : topic'[o] # Invalid /\ Time(o)' < DayEnd
    BY <1>7, <2>2 DEF ComparedIs
  <2>7. \A o, p \in run.seen : topic'[o] = topic'[p] => o = p
    BY <1>7, <2>2 DEF ComparedIs
  <2>8. \A o \in 1..run.read : topic'[o] # Invalid /\ Time(o)' < DayEnd /\ Timely(o)'
                                 => topic'[o] \in SeenBySpeed'
    BY <1>7, <2>3, <2>4 DEF ComparedIs
  <2>9. \A n \in run.missed : n = Cardinality(run.settled) - Cardinality(run.seen)
    BY <1>7 DEF ComparedIs
  <2>10. QED
    BY <2>1, <2>5, <2>6, <2>7, <2>8, <2>9 DEF ComparedIs
<1>8. QED
  BY <1>6, <1>7 DEF RunInv

LEMMA FiniteImage ==
  ASSUME NEW S, IsFiniteSet(S), NEW f \in [S -> {topic[o] : o \in S}],
         \A o \in S : f[o] = topic[o]
  PROVE  IsFiniteSet({topic[o] : o \in S})
<1>1. f \in Surjection(S, {topic[o] : o \in S})
  BY DEF Surjection
<1>2. QED
  BY <1>1, FS_Surjection

\* What a run settles.
LEMMA SettleDayKeeps ==
  ASSUME SpeedInv, RunInv, SettleDay PROVE RunInv'
<1>1. /\ run' = [run EXCEPT !.status = "settled", !.settled = SettledReadings]
      /\ UNCHANGED vars /\ ArchiveHasPassed
  BY DEF SettleDay
<1>2. /\ DOMAIN run' = DOMAIN run /\ run'.status = "settled"
      /\ run'.settled = SettledReadings
  BY <1>1 DEF RunInv
<1>3. topic' = topic /\ \A o : Time(o)' = Time(o)
  BY <1>1 DEF vars, Time
<1>4. /\ archive \subseteq 1..Len(topic) /\ Len(topic) \in Nat
      /\ \A o \in archive : topic[o] # Invalid
  BY DEF SpeedInv, KeepInv, Written, ArchivedAreValid, Types, TypeOK
<1>5. IsFiniteSet(SettledReadings)
  <2> DEFINE S == {o \in archive : Time(o) < DayEnd}
  <2>1. IsFiniteSet(S)
    <3>1. IsFiniteSet(1..Len(topic))
      BY <1>4, FS_Interval
    <3>2. QED
      BY <1>4, <3>1, FS_Subset
  <2>2. [o \in S |-> topic[o]] \in [S -> {topic[o] : o \in S}]
    OBVIOUS
  <2> HIDE DEF S
  <2>3. IsFiniteSet({topic[o] : o \in S})
    BY <2>1, <2>2, FiniteImage
  <2>4. QED
    BY <2>3 DEF SettledReadings, S
<1>6. \A r \in SettledReadings :
        \E o \in 1..Len(topic) : topic[o] = r /\ r # Invalid /\ Time(o) < DayEnd
  BY <1>4 DEF SettledReadings
<1>7. ASSUME DayEnd > 0
      PROVE  \E o \in 1..Len(topic) :
               /\ topic[o] # Invalid /\ Time(o) >= DayEnd + Grace
               /\ \A p \in 1..o :
                    topic[p] # Invalid /\ Time(p) < DayEnd => topic[p] \in SettledReadings
  <2>1. progress.ingest >= DayEnd + Grace /\ progress.ingest > 0
    <3>1. progress.ingest \in Nat /\ DayEnd \in Nat /\ Grace \in Nat
      BY DayAssumption DEF SpeedInv, Types, TypeOK
    <3>2. QED
      BY <1>1, <1>7, <3>1 DEF ArchiveHasPassed
  <2>2. PICK o \in archive : /\ Time(o) = progress.ingest
                             /\ \A p \in Valid(1..o) : p \in archive
    BY <2>1 DEF SpeedInv, KeepInv, ProgressIsArchived
  <2>3. \A p \in 1..o : topic[p] # Invalid /\ Time(p) < DayEnd => topic[p] \in SettledReadings
    BY <2>2 DEF Valid, SettledReadings
  <2>4. QED
    BY <1>4, <2>1, <2>2, <2>3
<1>8. SettledIs'
  BY <1>2, <1>3, <1>5, <1>6, <1>7 DEF SettledIs
<1>9. QED
  BY <1>2, <1>8 DEF RunInv

\* The rows of the day: each reading of the day that was timely, once.
LEMMA DayInWindows ==
  ASSUME SpeedInv
  PROVE  /\ SpeedOfDay \subseteq 1..Len(topic)
         /\ \A o \in SpeedOfDay : topic[o] # Invalid /\ Time(o) < DayEnd
         /\ \A o, p \in SpeedOfDay : topic[o] = topic[p] => o = p
         /\ \A o \in 1..metrics.from :
              topic[o] # Invalid /\ Time(o) < DayEnd /\ Timely(o) =>
                \E p \in SpeedOfDay : topic[p] = topic[o]
<1>1. /\ metrics.from \in Nat /\ metrics.to \in Nat /\ metrics.from <= metrics.to
      /\ metrics.to <= Len(topic) /\ Len(topic) \in Nat /\ TypeOK
  BY MetricsIs DEF SpeedInv
<1>2. \A w \in Windows : table[w] \subseteq 1..Len(topic)
  <2>1. \A w \in Windows : table[w] \subseteq 1..metrics.to
    BY DEF SpeedInv, MetricsInv, RowInState
  <2>2. 1..metrics.to \subseteq 1..Len(topic)
    BY <1>1
  <2>3. QED
    BY <2>1, <2>2
<1>3. \A w \in Windows : \A o \in table[w] : topic[o] # Invalid /\ WindowOf(Time(o)) = w
  BY DEF SpeedInv, MetricsInv, AggregatedOnce
<1>4. ASSUME NEW o \in SpeedOfDay
      PROVE  /\ o \in 1..Len(topic) /\ topic[o] # Invalid /\ Time(o) < DayEnd
             /\ o \in table[WindowOf(Time(o))] /\ WindowOf(Time(o)) \in Windows
  <2>1. PICK w \in Windows : o \in table[w] /\ w * Window < DayEnd
    BY DEF SpeedOfDay
  <2>2. o \in 1..Len(topic) /\ topic[o] # Invalid /\ WindowOf(Time(o)) = w
    BY <1>2, <1>3, <2>1
  <2>3. Time(o) \in Times
    BY <1>1, <2>2, MessageIs
  <2>4. QED
    BY <2>1, <2>2, <2>3, WindowsOfDay
<1>5. ASSUME NEW o \in SpeedOfDay, NEW p \in SpeedOfDay, topic[o] = topic[p] PROVE o = p
  <2>1. Time(o) = Time(p)
    BY <1>5 DEF Time
  <2>2. PICK w \in Windows : o \in table[w] /\ p \in table[w]
    BY <1>4, <2>1
  <2>3. QED
    BY <1>5, <2>2 DEF SpeedInv, MetricsInv, AggregatedOnce
<1>6. ASSUME NEW o \in 1..metrics.from, topic[o] # Invalid, Time(o) < DayEnd, Timely(o)
      PROVE  \E p \in SpeedOfDay : topic[p] = topic[o]
  <2>1. o \in 1..Len(topic) /\ o \in Valid(1..metrics.from)
    BY <1>1, <1>6 DEF Valid
  <2>2. Time(o) \in Times
    BY <1>1, <1>6, <2>1, MessageIs
  <2>3. PICK p \in table[WindowOf(Time(o))] : topic[p] = topic[o]
    BY <1>6, <2>1 DEF SpeedInv, MetricsInv, TimelyIsAggregated, Timely
  <2>4. WindowOf(Time(o)) \in Windows /\ WindowOf(Time(o)) * Window < DayEnd
    BY <1>6, <2>2, WindowFacts, WindowsOfDay
  <2>5. p \in SpeedOfDay
    BY <2>3, <2>4 DEF SpeedOfDay
  <2>6. QED
    BY <2>3, <2>5
<1>7. QED
  BY <1>4, <1>5, <1>6

LEMMA ReconcileKeeps ==
  ASSUME SpeedInv, RunInv, Reconcile PROVE RunInv'
<1>1. /\ run.status = "settled"
      /\ run' = [run EXCEPT !.status = "reconciled", !.missed = MissedBySpeed,
                            !.seen = SpeedOfDay, !.read = metrics.from]
      /\ UNCHANGED vars
  BY DEF Reconcile
<1>2. /\ DOMAIN run' = DOMAIN run /\ run'.status = "reconciled"
      /\ run'.settled = run.settled /\ run'.missed = MissedBySpeed
      /\ run'.seen = SpeedOfDay /\ run'.read = metrics.from
  BY <1>1 DEF RunInv
<1>3. /\ topic' = topic /\ \A o : Time(o)' = Time(o) /\ Timely(o)' = Timely(o)
  BY <1>1 DEF vars, Time, Timely, Valid
<1>4. SettledIs'
  BY <1>1, <1>2, <1>3 DEF RunInv, SettledIs
<1>5. SeenBySpeed' = {topic[o] : o \in SpeedOfDay}
  BY <1>2, <1>3 DEF SeenBySpeed
<1>6. metrics.from \in Nat /\ metrics.from <= Len(topic)
  BY MetricsIs DEF SpeedInv
<1>7. \A n \in MissedBySpeed : n = Cardinality(run.settled) - Cardinality(SpeedOfDay)
  BY DEF MissedBySpeed
<1>8. ComparedIs'
  <2>1. /\ SpeedOfDay \subseteq 1..Len(topic)
        /\ \A o \in SpeedOfDay : topic[o] # Invalid /\ Time(o) < DayEnd
        /\ \A o, p \in SpeedOfDay : topic[o] = topic[p] => o = p
    BY DayInWindows
  <2>2. \A o \in 1..metrics.from :
          topic[o] # Invalid /\ Time(o) < DayEnd /\ Timely(o) =>
            topic[o] \in {topic[p] : p \in SpeedOfDay}
    BY DayInWindows
  <2> HIDE DEF SpeedOfDay, MissedBySpeed
  <2>3. QED
    BY <1>2, <1>3, <1>5, <1>6, <1>7, <2>1, <2>2 DEF ComparedIs
<1>9. QED
  BY <1>2, <1>4, <1>8 DEF RunInv

-----------------------------------------------------------------------------
(* What the difference is made of.                                         *)

LEMMA FirstIs ==
  ASSUME TypeOK, NEW o \in 1..Len(topic), NEW r, topic[o] = r
  PROVE  /\ FirstOf(r) \in 1..Len(topic) /\ topic[FirstOf(r)] = r
         /\ FirstOf(r) <= o
<1> DEFINE S == {p \in DOMAIN topic : topic[p] = r}
<1>1. Len(topic) \in Nat /\ DOMAIN topic = 1..Len(topic)
  BY DEF TypeOK
<1>2. S \in SUBSET (1..Len(topic)) /\ o \in S
  BY <1>1
<1>3. \E x \in S : \A y \in S : x <= y
  <2> HIDE DEF S
  <2>1. QED
    BY <1>1, <1>2, LeastOffset
<1>4. Min(S) \in S /\ \A y \in S : Min(S) <= y
  BY <1>3 DEF Min
<1>5. QED
  BY <1>1, <1>2, <1>4 DEF FirstOf

\* The rows on either side count what the other lacks.
LEMMA DifferenceOfSizes ==
  ASSUME NEW S, IsFiniteSet(S), NEW T, IsFiniteSet(T)
  PROVE  Cardinality(S) - Cardinality(T) = Cardinality(S \ T) - Cardinality(T \ S)
<1>1. /\ Cardinality(S) \in Nat /\ Cardinality(T) \in Nat
      /\ IsFiniteSet(S \cap T) /\ Cardinality(S \cap T) \in Nat
  BY FS_CardinalityType, FS_Intersection
<1>2. /\ Cardinality(S \ T) = Cardinality(S) - Cardinality(S \cap T)
      /\ Cardinality(T \ S) = Cardinality(T) - Cardinality(T \cap S)
  BY FS_Difference
<1>3. S \cap T = T \cap S
  OBVIOUS
<1>4. QED
  BY <1>1, <1>2, <1>3

LEMMA SeenOnce ==
  ASSUME TypeOK, ComparedIs
  PROVE  /\ IsFiniteSet(SeenBySpeed)
         /\ Cardinality(SeenBySpeed) = Cardinality(run.seen)
<1>1. Len(topic) \in Nat /\ run.seen \subseteq 1..Len(topic)
  BY DEF TypeOK, ComparedIs
<1>2. IsFiniteSet(run.seen)
  <2>1. IsFiniteSet(1..Len(topic))
    BY <1>1, FS_Interval
  <2>2. QED
    BY <1>1, <2>1, FS_Subset
<1> DEFINE f == [o \in run.seen |-> topic[o]]
<1>3. f \in Bijection(run.seen, SeenBySpeed)
  <2>1. \A o, p \in run.seen : topic[o] = topic[p] => o = p
    BY DEF ComparedIs
  <2>2. f \in [run.seen -> SeenBySpeed]
    BY DEF SeenBySpeed
  <2>3. f \in Injection(run.seen, SeenBySpeed)
    BY <2>1, <2>2 DEF Injection, IsInjective
  <2>4. f \in Surjection(run.seen, SeenBySpeed)
    BY <2>2 DEF Surjection, SeenBySpeed
  <2>5. QED
    BY <2>3, <2>4 DEF Bijection
<1>4. ExistsBijection(run.seen, SeenBySpeed)
  BY <1>3 DEF ExistsBijection
<1>5. QED
  BY <1>2, <1>4, FS_Bijection

LEMMA OnlyInBatch ==
  ASSUME TypeOK, SettledIs, ComparedIs, NEW r \in run.settled, r \notin SeenBySpeed
  PROVE  FirstOf(r) > run.read \/ LateBy(FirstOf(r), Delay)
<1>1. PICK o \in 1..Len(topic) : topic[o] = r /\ r # Invalid /\ Time(o) < DayEnd
  BY DEF SettledIs
<1> DEFINE first == FirstOf(r)
<1>2. first \in 1..Len(topic) /\ topic[first] = r
  BY <1>1, FirstIs
<1> HIDE DEF first
<1>3. topic[first] # Invalid /\ Time(first) < DayEnd
  BY <1>1, <1>2 DEF Time
<1>4. SUFFICES ASSUME ~(first > run.read) PROVE LateBy(first, Delay)
  BY DEF first
<1>5. first \in 1..run.read
  <2>1. first \in Nat /\ first >= 1 /\ run.read \in Nat
    BY <1>2 DEF TypeOK, ComparedIs
  <2>2. QED
    BY <1>4, <2>1
<1>6. ~Timely(first)
  BY <1>2, <1>3, <1>5 DEF ComparedIs
<1>7. PICK p \in Valid(1..first) : ~(Time(p) < Time(first) + Delay)
  BY <1>6 DEF Timely
<1>8. p \in 1..Len(topic)
  <2>1. Len(topic) \in Nat
    BY DEF TypeOK
  <2>2. QED
    BY <1>2, <1>7, <2>1 DEF Valid
<1>9. Time(p) \in Int /\ Time(first) \in Int /\ Delay \in Int
  BY <1>2, <1>8, MessageIs, BoundsAssumption
<1>10. Time(p) >= Time(first) + Delay
  BY <1>7, <1>9
<1>11. QED
  BY <1>10 DEF LateBy

LEMMA OnlyInSpeed ==
  ASSUME TypeOK, SettledIs, ComparedIs, NEW r \in SeenBySpeed, r \notin run.settled
  PROVE  \E p \in Valid(1..FirstOf(r)) : Time(p) >= DayEnd + Grace
<1>1. PICK o \in run.seen : topic[o] = r
  BY DEF SeenBySpeed
<1>2. o \in 1..Len(topic) /\ topic[o] # Invalid /\ Time(o) < DayEnd
  BY <1>1 DEF ComparedIs
<1>3. DayEnd > 0
  <2>1. Time(o) \in Times
    BY <1>2, MessageIs
  <2>2. QED
    BY <1>2, <2>1, DayAssumption, BoundsAssumption DEF Times
<1> DEFINE first == FirstOf(r)
<1>4. first \in 1..Len(topic) /\ topic[first] = r
  BY <1>1, <1>2, FirstIs
<1> HIDE DEF first
<1>5. topic[first] # Invalid /\ Time(first) < DayEnd
  BY <1>1, <1>2, <1>4 DEF Time
<1>6. PICK q \in 1..Len(topic) :
        /\ topic[q] # Invalid /\ Time(q) >= DayEnd + Grace
        /\ \A p \in 1..q : topic[p] # Invalid /\ Time(p) < DayEnd => topic[p] \in run.settled
  BY <1>3 DEF SettledIs
<1>7. first \notin 1..q
  BY <1>4, <1>5, <1>6
<1>8. q \in 1..first
  <2>1. Len(topic) \in Nat
    BY DEF TypeOK
  <2>2. QED
    BY <1>4, <1>6, <1>7, <2>1
<1>9. QED
  BY <1>6, <1>8 DEF Valid, first

LEMMA Explained ==
  ASSUME TypeOK, RunInv PROVE DifferenceIsExplained
<1> SUFFICES ASSUME run.status = "reconciled" PROVE DifferenceIsExplained
  BY DEF DifferenceIsExplained
<1>1. SettledIs /\ ComparedIs
  BY DEF RunInv
<1>2. \A n \in run.missed : n = Cardinality(run.settled \ SeenBySpeed)
                                  - Cardinality(SeenBySpeed \ run.settled)
  <2>1. \A n \in run.missed : n = Cardinality(run.settled) - Cardinality(run.seen)
    BY <1>1 DEF ComparedIs
  <2>2. IsFiniteSet(run.settled)
    BY <1>1 DEF SettledIs
  <2>3. IsFiniteSet(SeenBySpeed) /\ Cardinality(SeenBySpeed) = Cardinality(run.seen)
    BY <1>1, SeenOnce
  <2>4. Cardinality(run.settled) - Cardinality(SeenBySpeed)
          = Cardinality(run.settled \ SeenBySpeed) - Cardinality(SeenBySpeed \ run.settled)
    BY <2>2, <2>3, DifferenceOfSizes
  <2>5. QED
    BY <2>1, <2>3, <2>4
<1>3. \A r \in run.settled \ SeenBySpeed :
        FirstOf(r) > run.read \/ LateBy(FirstOf(r), Delay)
  BY <1>1, OnlyInBatch
<1>4. \A r \in SeenBySpeed \ run.settled :
        \E p \in Valid(1..FirstOf(r)) : Time(p) >= DayEnd + Grace
  BY <1>1, OnlyInSpeed
<1>5. QED
  BY <1>2, <1>3, <1>4 DEF DifferenceIsExplained

\* missed_by_speed counts readings on either side, and each has a reason: it was late
\* for the watermark or still to be read, or came after one the grace had waited for
\* (reconcile.py, daily_settlement_dag.py).
THEOREM DifferencesAreExplained == HandOverSpec => []DifferenceIsExplained
<1> DEFINE Inv == SpeedInv /\ RunInv
<1>1. HandOverInit => Inv
  <2>1. HandOverInit => RunInv
    BY DEF HandOverInit, RunInv, NoRun
  <2>2. QED
    BY <2>1, SpeedInvInit DEF HandOverInit
<1>2. ASSUME Inv, [HandOver]_allVars PROVE Inv'
  <2>1. [Next]_vars
    BY <1>2 DEF HandOver, SpeedSteps, SettleDay, Reconcile, RunEnds, allVars
  <2>2. SpeedInv'
    BY <1>2, <2>1, SpeedInvStep
  <2>3. TopicGrows /\ TypeOK
    BY <1>2, <2>1, TopicStep DEF SpeedInv, Types
  <2>4. CASE run' = run
    BY <1>2, <2>2, <2>3, <2>4, RunWhileTopicGrows
  <2>5. CASE SettleDay
    BY <1>2, <2>2, <2>5, SettleDayKeeps
  <2>6. CASE Reconcile
    BY <1>2, <2>2, <2>6, ReconcileKeeps
  <2>7. CASE RunEnds
    <3>1. run' = NoRun
      BY <2>7 DEF RunEnds
    <3>2. RunInv'
      BY <3>1 DEF RunInv, NoRun
    <3>3. QED
      BY <2>2, <3>2
  <2>8. QED
    BY <1>2, <2>4, <2>5, <2>6, <2>7 DEF HandOver, SpeedSteps, allVars
<1>3. Inv => DifferenceIsExplained
  BY Explained DEF SpeedInv, Types
<1>4. QED
  BY <1>1, <1>2, <1>3, PTL DEF HandOverSpec
=============================================================================
