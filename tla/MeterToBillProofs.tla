--------------------------- MODULE MeterToBillProofs ---------------------------
(***************************************************************************)
(* Proofs about the way from the meter to the bill: that the two           *)
(* validators decide alike where both decide, and that every reading is    *)
(* accounted for.                                                          *)
(***************************************************************************)
EXTENDS MeterToBill, SequenceLemmas

-----------------------------------------------------------------------------
(* The two validators.                                                     *)

Names == {"event_id", "meter_id", "household_id", "grid_zone", "power_consumption_kwh",
          "solar_generation_kwh", "voltage_v", "event_time", "ingest_time",
          "correlation_id", "schema_version"}
Specs == [name : Names, dtype : {"string", "double", "boolean", "timestamp"},
          required : BOOLEAN]

\* A table of fields.
IsSchema(specs) == specs \in Seq(Specs)

LEMMA SchemaType ==
  /\ MeterReadingFields \in Seq(Specs) /\ Len(MeterReadingFields) = 11
  /\ \A i \in 1..11 : MeterReadingFields[i] \in Specs
  /\ IsSchema(MeterReadingFields)
<1>2. /\ Field("event_id", "string", TRUE) \in Specs
      /\ Field("meter_id", "string", TRUE) \in Specs
      /\ Field("household_id", "string", TRUE) \in Specs
      /\ Field("grid_zone", "string", TRUE) \in Specs
      /\ Field("power_consumption_kwh", "double", TRUE) \in Specs
      /\ Field("solar_generation_kwh", "double", TRUE) \in Specs
      /\ Field("voltage_v", "double", FALSE) \in Specs
      /\ Field("event_time", "timestamp", TRUE) \in Specs
      /\ Field("ingest_time", "timestamp", FALSE) \in Specs
      /\ Field("correlation_id", "string", FALSE) \in Specs
      /\ Field("schema_version", "string", FALSE) \in Specs
  BY DEF Field, Specs, Names
<1>3. Len(MeterReadingFields) = 11
  BY DEF MeterReadingFields
<1>4. MeterReadingFields \in Seq(Specs)
  BY <1>2 DEF MeterReadingFields, Field
<1>5. ASSUME NEW i \in 1..11 PROVE MeterReadingFields[i] \in Specs
  <2>1. \A s \in Seq(Specs) : \A n \in 1..Len(s) : s[n] \in Specs
    OBVIOUS
  <2> QED
    BY <1>3, <1>4, <2>1
<1> QED
  BY <1>3, <1>4, <1>5 DEF IsSchema

\* What the columns may find, and the reason of a row that is not at fault.
Reasons == {"none", "missing_field", "wrong_type", "out_of_range"}

\* A column fails a row by what the record at a time would find in its field.
LEMMA ColumnIs ==
  ASSUME NEW batch, NEW reason \in [DOMAIN batch -> Reasons], NEW spec \in Specs
  PROVE  /\ FailColumn(reason, spec, batch) \in [DOMAIN batch -> Reasons]
         /\ \A r \in DOMAIN batch : ~Raises(spec, ClassOf(batch[r], spec.name)) =>
              /\ Fault(spec, ClassOf(batch[r], spec.name)) \in Reasons
              /\ FailColumn(reason, spec, batch)[r] =
                   IF reason[r] = "none" THEN Fault(spec, ClassOf(batch[r], spec.name))
                                         ELSE reason[r]
<1> DEFINE class(r) == ClassOf(batch[r], spec.name)
           missing == {r \in DOMAIN batch : class(r) = "absent"}
           bad     == {r \in DOMAIN batch : class(r) \in WrongType[spec.dtype]}
           outside == {r \in DOMAIN batch : OutOfRange(spec, class(r))}
           first   == IF spec.required THEN Fail(reason, "missing_field", missing) ELSE reason
           second  == Fail(first, "wrong_type", bad)
           third   == Fail(second, "out_of_range", outside)
<1>1. FailColumn(reason, spec, batch) = third
  BY DEF FailColumn
<1>2. ASSUME NEW f \in [DOMAIN batch -> Reasons], NEW why \in Reasons, NEW mask
      PROVE  /\ Fail(f, why, mask) \in [DOMAIN batch -> Reasons]
             /\ \A r \in DOMAIN batch :
                  Fail(f, why, mask)[r] = IF r \in mask /\ f[r] = "none" THEN why ELSE f[r]
  BY DEF Fail
<1>3. /\ first \in [DOMAIN batch -> Reasons]
      /\ \A r \in DOMAIN batch :
           first[r] = IF spec.required /\ r \in missing /\ reason[r] = "none"
                      THEN "missing_field" ELSE reason[r]
  <2>1. "missing_field" \in Reasons
    BY DEF Reasons
  <2> HIDE DEF missing
  <2> QED
    BY <1>2, <2>1
<1>4. /\ second \in [DOMAIN batch -> Reasons]
      /\ \A r \in DOMAIN batch :
           second[r] = IF r \in bad /\ first[r] = "none" THEN "wrong_type" ELSE first[r]
  <2>1. "wrong_type" \in Reasons
    BY DEF Reasons
  <2> HIDE DEF first, bad
  <2> QED
    BY <1>2, <1>3, <2>1
<1>5. /\ third \in [DOMAIN batch -> Reasons]
      /\ \A r \in DOMAIN batch :
           third[r] = IF r \in outside /\ second[r] = "none" THEN "out_of_range" ELSE second[r]
  <2>1. "out_of_range" \in Reasons
    BY DEF Reasons
  <2> HIDE DEF second, outside
  <2> QED
    BY <1>2, <1>4, <2>1
<1>6. ASSUME NEW r \in DOMAIN batch, ~Raises(spec, class(r))
      PROVE  /\ Fault(spec, class(r)) \in Reasons
             /\ third[r] = IF reason[r] = "none" THEN Fault(spec, class(r)) ELSE reason[r]
  <2> DEFINE c == class(r)
  <2>1. /\ r \in missing <=> c = "absent"
        /\ r \in bad <=> c \in WrongType[spec.dtype]
        /\ r \in outside <=> OutOfRange(spec, c)
    OBVIOUS
  <2>2. Fault(spec, c) = IF c = "absent" THEN IF spec.required THEN "missing_field" ELSE "none"
                         ELSE IF c \in WrongType[spec.dtype] THEN "wrong_type"
                         ELSE IF OutOfRange(spec, c) THEN "out_of_range" ELSE "none"
    <3> HIDE DEF c
    <3>1. ~Raises(spec, c)
      BY <1>6 DEF c
    <3>2. /\ c = "absent" => c \notin WrongType[spec.dtype]
          /\ OutOfRange(spec, c) => c # "absent" /\ c \notin WrongType[spec.dtype]
      BY DEF WrongType, OutOfRange, Specs
    <3>3. CASE c = "absent"
      BY <3>1, <3>2, <3>3 DEF Fault
    <3>4. CASE c # "absent" /\ c \in WrongType[spec.dtype]
      BY <3>1, <3>2, <3>4 DEF Fault
    <3>5. CASE c # "absent" /\ c \notin WrongType[spec.dtype]
      BY <3>1, <3>2, <3>5 DEF Fault
    <3> QED
      BY <3>3, <3>4, <3>5
  <2>3. /\ c = "absent" => c \notin WrongType[spec.dtype] /\ ~OutOfRange(spec, c)
        /\ spec.required \in BOOLEAN
    BY DEF WrongType, OutOfRange, Specs
  <2> HIDE DEF c, missing, bad, outside, first, second, third
  <2>4. third[r] = IF reason[r] = "none" THEN Fault(spec, c) ELSE reason[r]
    BY <1>3, <1>4, <1>5, <2>1, <2>2, <2>3
  <2>5. Fault(spec, c) \in Reasons
    BY <2>2 DEF Reasons
  <2> QED
    BY <2>4, <2>5 DEF c
<1> HIDE DEF third
<1> QED
  BY <1>1, <1>5, <1>6


\* The reasons after the columns of the first k fields.
AfterColumns(F, batch, specs) ==
  /\ F \in [0..Len(specs) -> [DOMAIN batch -> Reasons]]
  /\ F[0] = [r \in DOMAIN batch |-> "none"]
  /\ \A k \in 1..Len(specs) : F[k] = FailColumn(F[k - 1], specs[k], batch)

\* The reasons after all the columns: what FrameVerdicts folds.
Columns(batch, specs) ==
  FoldLeft(LAMBDA reason, spec : FailColumn(reason, spec, batch),
           [r \in DOMAIN batch |-> "none"], specs)

LEMMA ColumnsUnroll ==
  ASSUME NEW batch, NEW specs \in Seq(Specs)
  PROVE  \E F : AfterColumns(F, batch, specs) /\ F[Len(specs)] = Columns(batch, specs)
<1> DEFINE V == [DOMAIN batch -> Reasons]
           base == [r \in DOMAIN batch |-> "none"]
           n == Len(specs)
           G == [i \in 1..n |-> [v \in V |-> FailColumn(v, specs[i], batch)]]
           Equation(f) == f = [s \in SUBSET (1..n) |->
                                 IF s = {} THEN base
                                 ELSE FailColumn(f[s \ {Max(s)}], specs[Max(s)], batch)]
           h == CHOOSE f : Equation(f)
<1>1. /\ n \in Nat /\ DOMAIN specs = 1..n /\ base \in V
      /\ \A i \in 1..n : specs[i] \in Specs
  BY DEF Reasons
<1>2. \A i \in 1..n, v \in V : FailColumn(v, specs[i], batch) \in V
  BY <1>1, ColumnIs
<1>3. G \in [1..n -> [V -> V]] /\ \A i \in 1..n, v \in V : G[i][v] = FailColumn(v, specs[i], batch)
  <2> HIDE DEF V, n
  <2> QED
    BY <1>2
<1>4. Columns(batch, specs) = h[1..n]
  <2>1. Columns(batch, specs) =
          (CHOOSE f : f = [s \in SUBSET DOMAIN specs |->
             IF s = {} THEN base
             ELSE FailColumn(f[s \ {Max(s)}], specs[Max(s)], batch)])[DOMAIN specs]
    BY Zenon DEF Columns, FoldLeft, MapThenFoldSet
  <2> QED
    BY <1>1, <2>1, Zenon
<1> HIDE DEF V, base, n, G
<1>5. \A s \in SUBSET (1..n) : s # {} => Max(s) \in s /\ s \ {Max(s)} \in SUBSET (1..n)
  <2> TAKE s \in SUBSET (1..n)
  <2>1. s \subseteq Int /\ IsFiniteSet(s)
    <3>1. IsFiniteSet(1..n)
      BY <1>1, FS_Interval
    <3>2. IsFiniteSet(s)
      BY <3>1, FS_Subset
    <3> QED
      BY <3>2
  <2> QED
    BY <2>1, MaxIsGreatest
<1>6. AreSteps(G, n, V)
  BY <1>3 DEF AreSteps
<1>7. FoldsBy(h, n, V, base, G)
  <2>1. PICK g : g \in [SUBSET (1..n) -> V] /\ FoldsBy(g, n, V, base, G)
    BY <1>1, <1>6, FoldExists
  <2>2. ASSUME NEW s \in SUBSET (1..n), s # {}
        PROVE  g[s] = FailColumn(g[s \ {Max(s)}], specs[Max(s)], batch)
    <3>1. Max(s) \in 1..n /\ g[s \ {Max(s)}] \in V
      BY <1>5, <2>1, <2>2
    <3> QED
      BY <1>3, <2>1, <2>2, <3>1 DEF FoldsBy
  <2>3. Equation(g)
    BY <2>1, <2>2 DEF FoldsBy
  <2>4. Equation(h)
    <3> HIDE DEF Equation
    <3> QED
      BY <2>3
  <2> HIDE DEF h
  <2>5. /\ h[{}] = base
        /\ \A s \in SUBSET (1..n) : s # {} =>
             h[s] = FailColumn(h[s \ {Max(s)}], specs[Max(s)], batch)
    BY <2>4
  <2> HIDE DEF Equation
  <2>6. ASSUME NEW s \in SUBSET (1..n), s # {}, h[s \ {Max(s)}] \in V
        PROVE  h[s] = G[Max(s)][h[s \ {Max(s)}]]
    <3>1. Max(s) \in 1..n
      BY <1>5, <2>6
    <3> QED
      BY <1>3, <2>5, <2>6, <3>1
  <2> QED
    BY <2>5, <2>6 DEF FoldsBy
<1> HIDE DEF h, Equation
<1>8. PICK F : GoesThrough(F, n, V, base, G) /\ F[n] = h[1..n]
  BY <1>1, <1>6, <1>7, FoldUnrolls
<1>9. \A k \in 1..n : F[k] = FailColumn(F[k - 1], specs[k], batch)
  <2> TAKE k \in 1..n
  <2>1. k - 1 \in 0..n
    BY <1>1
  <2>2. F[k - 1] \in V
    BY <1>8, <2>1 DEF GoesThrough
  <2> QED
    BY <1>3, <1>8, <2>2 DEF GoesThrough
<1>10. AfterColumns(F, batch, specs)
  BY <1>8, <1>9 DEF AfterColumns, GoesThrough, V, base, n
<1>11. F[Len(specs)] = Columns(batch, specs)
  BY <1>4, <1>8 DEF n
<1> QED
  BY <1>10, <1>11


\* What the record at a time finds in the i-th field.
FaultAt(body, specs, i) == Fault(specs[i], ClassOf(body, specs[i].name))
Faulty(body, specs) == {i \in 1..Len(specs) : FaultAt(body, specs, i) # "none"}

NothingRaises(body, specs) ==
  \A i \in 1..Len(specs) : ~Raises(specs[i], ClassOf(body, specs[i].name))

\* The first k columns fail a row for the first of their fields at fault.
LEMMA FirstFaultDecides ==
  ASSUME NEW batch, NEW specs \in Seq(Specs), NEW F, AfterColumns(F, batch, specs),
         NEW r \in DOMAIN batch, NothingRaises(batch[r], specs)
  PROVE  F[Len(specs)][r] = IF Faulty(batch[r], specs) = {} THEN "none"
                            ELSE FaultAt(batch[r], specs, Min(Faulty(batch[r], specs)))
<1> DEFINE fault(i) == FaultAt(batch[r], specs, i)
           faulty == Faulty(batch[r], specs)
           n == Len(specs)
           First(k) == IF \A i \in 1..k : fault(i) = "none" THEN F[k][r] = "none"
                       ELSE \E i \in 1..k : /\ fault(i) # "none" /\ F[k][r] = fault(i)
                                            /\ \A j \in 1..(i - 1) : fault(j) = "none"
           S == {k \in Nat : k <= n => First(k)}
<1>1. n \in Nat /\ \A i \in 1..n : specs[i] \in Specs
  OBVIOUS
<1> HIDE DEF n
<1>2. /\ F[0][r] = "none"
      /\ \A k \in 1..n : F[k][r] = IF F[k - 1][r] = "none" THEN fault(k) ELSE F[k - 1][r]
  <2>1. F[0][r] = "none"
    BY DEF AfterColumns
  <2>2. ASSUME NEW k \in 1..n
        PROVE  F[k][r] = IF F[k - 1][r] = "none" THEN fault(k) ELSE F[k - 1][r]
    <3>1. k - 1 \in 0..n
      BY <1>1
    <3>2. F[k - 1] \in [DOMAIN batch -> Reasons] /\ F[k] = FailColumn(F[k - 1], specs[k], batch)
      BY <3>1 DEF AfterColumns, n
    <3>3. specs[k] \in Specs /\ ~Raises(specs[k], ClassOf(batch[r], specs[k].name))
      BY <1>1 DEF n, NothingRaises
    <3> DEFINE reason == F[k - 1]
    <3>4. reason \in [DOMAIN batch -> Reasons] /\ F[k] = FailColumn(reason, specs[k], batch)
      BY <3>2
    <3> HIDE DEF reason
    <3>5. FailColumn(reason, specs[k], batch)[r] =
            IF reason[r] = "none" THEN Fault(specs[k], ClassOf(batch[r], specs[k].name))
            ELSE reason[r]
      BY <3>3, <3>4, ColumnIs
    <3> QED
      BY <3>4, <3>5 DEF FaultAt, reason
  <2> QED
    BY <2>1, <2>2
<1> HIDE DEF fault
<1>3. 0 \in S
  BY <1>2
<1>4. ASSUME NEW k \in Nat, k \in S PROVE k + 1 \in S
  <2> SUFFICES ASSUME k + 1 <= n PROVE First(k + 1)
    <3> HIDE DEF First
    <3> QED
      OBVIOUS
  <2>1. First(k)
    <3>1. k <= n
      BY <1>1
    <3> HIDE DEF First
    <3> QED
      BY <1>4, <3>1
  <2>2. k + 1 \in 1..n /\ (k + 1) - 1 = k
    BY <1>1
  <2>3. F[k + 1][r] = IF F[k][r] = "none" THEN fault(k + 1) ELSE F[k][r]
    BY <1>2, <2>2
  <2>4. CASE \A i \in 1..k : fault(i) = "none"
    <3>1. F[k + 1][r] = fault(k + 1)
      BY <2>1, <2>3, <2>4
    <3>2. \A i \in 1..(k + 1) : i \in 1..k \/ i = k + 1
      OBVIOUS
    <3>3. CASE fault(k + 1) = "none"
      <4>1. \A i \in 1..(k + 1) : fault(i) = "none"
        BY <2>4, <3>2, <3>3
      <4> QED
        BY <3>1, <3>3, <4>1
    <3>4. CASE fault(k + 1) # "none"
      <4>1. k + 1 \in 1..(k + 1)
        OBVIOUS
      <4> QED
        BY <2>2, <2>4, <3>1, <3>4, <4>1
    <3> QED
      BY <3>3, <3>4
  <2>5. CASE ~(\A i \in 1..k : fault(i) = "none")
    <3>1. PICK i \in 1..k : /\ fault(i) # "none" /\ F[k][r] = fault(i)
                            /\ \A j \in 1..(i - 1) : fault(j) = "none"
      BY <2>1, <2>5
    <3>2. i \in 1..(k + 1) /\ F[k + 1][r] = fault(i)
      BY <2>3, <3>1
    <3> QED
      BY <3>1, <3>2
  <2> QED
    BY <2>4, <2>5
<1>5. First(n)
  <2>1. n \in S
    <3> HIDE DEF S
    <3> QED
      BY <1>1, <1>3, <1>4, CountingUp
  <2> HIDE DEF First
  <2> QED
    BY <1>1, <2>1
<1>6. faulty = {i \in 1..n : fault(i) # "none"}
  BY DEF n, fault, Faulty
<1> HIDE DEF faulty
<1>7. CASE faulty = {}
  BY <1>5, <1>6, <1>7 DEF n, faulty
<1>8. CASE faulty # {}
  <2>1. PICK i \in 1..n : /\ fault(i) # "none" /\ F[n][r] = fault(i)
                          /\ \A j \in 1..(i - 1) : fault(j) = "none"
    BY <1>5, <1>6, <1>8
  <2>2. i \in faulty /\ \A j \in faulty : i <= j
    BY <1>1, <1>6, <2>1
  <2>3. Min(faulty) \in faulty /\ \A j \in faulty : Min(faulty) <= j
    BY <2>2 DEF Min
  <2>4. Min(faulty) = i
    <3>1. i <= Min(faulty) /\ Min(faulty) <= i /\ Min(faulty) \in Int /\ i \in Int
      BY <1>1, <1>6, <2>2, <2>3
    <3> QED
      BY <3>1
  <2> QED
    BY <1>8, <2>1, <2>4 DEF fault, n, faulty
<1> QED
  BY <1>7, <1>8

\* A message is an object or it is not.
IsBody(body) == body.json \in BOOLEAN

\* The record at a time, said with the first field at fault.
FirstReason(body, specs) ==
  IF ~body.json THEN "malformed_json"
  ELSE IF Faulty(body, specs) # {} THEN FaultAt(body, specs, Min(Faulty(body, specs)))
  ELSE IF ClassOf(body, "household_id") # "valid" THEN "unknown_household"
  ELSE IF ClassOf(body, "event_time") = "future" THEN "future_timestamp"
  ELSE "none"

LEMMA RowVerdictIs ==
  ASSUME NEW body, IsBody(body), NEW specs, IsSchema(specs)
  PROVE  /\ Faulty(body, specs) # {} => Min(Faulty(body, specs)) \in Faulty(body, specs)
         /\ RowVerdict(body, specs, TRUE) = FirstReason(body, specs)
<1> DEFINE faulty == Faulty(body, specs)
<1>1. faulty # {} => Min(faulty) \in faulty
  <2>1. faulty \in SUBSET Nat
    BY DEF Faulty
  <2> HIDE DEF faulty
  <2>2. faulty # {} => \E i \in faulty : \A j \in faulty : i <= j
    BY <2>1, LeastNatural
  <2> QED
    BY <2>2 DEF Min
<1>2. faulty = {i \in DOMAIN specs : Fault(specs[i], ClassOf(body, specs[i].name)) # "none"}
  BY DEF Faulty, FaultAt, IsSchema
<1> HIDE DEF faulty
<1>3. RowVerdict(body, specs, TRUE) =
        IF ~body.json THEN "malformed_json"
        ELSE IF faulty # {} THEN FaultAt(body, specs, Min(faulty))
        ELSE IF ClassOf(body, "household_id") # "valid" THEN "unknown_household"
        ELSE IF ClassOf(body, "event_time") = "future" THEN "future_timestamp"
        ELSE "none"
  <2>1. CASE ~body.json
    BY <1>2, <2>1 DEF RowVerdict, IsBody
  <2>2. CASE body.json /\ faulty # {}
    BY <1>2, <2>2 DEF RowVerdict, FaultAt, IsBody
  <2>3. CASE body.json /\ faulty = {}
    BY <1>2, <2>3 DEF RowVerdict, IsBody
  <2> QED
    BY <2>1, <2>2, <2>3
<1> QED
  BY <1>1, <1>3 DEF faulty, FirstReason

\* Whatever shares the batch, a row gets the verdict of the record at a time.
LEMMA VerdictsAgree ==
  ASSUME NEW batch, NEW specs, IsSchema(specs), NEW r \in DOMAIN batch,
         IsBody(batch[r]), NothingRaises(batch[r], specs)
  PROVE  FrameVerdicts(batch, specs)[r] = RowVerdict(batch[r], specs, TRUE)
<1>0. specs \in Seq(Specs)
  BY DEF IsSchema
<1>1. PICK F : AfterColumns(F, batch, specs) /\ F[Len(specs)] = Columns(batch, specs)
  BY <1>0, ColumnsUnroll
<1> DEFINE body     == batch[r]
           faulty   == Faulty(body, specs)
           columns  == F[Len(specs)]
           stranger == {q \in DOMAIN batch : ClassOf(batch[q], "household_id") # "valid"}
           future   == {q \in DOMAIN batch : ClassOf(batch[q], "event_time") = "future"}
           known    == Fail(columns, "unknown_household", stranger)
           timely   == Fail(known, "future_timestamp", future)
<1>2. FrameVerdicts(batch, specs) = Malformed(timely, batch)
  BY <1>1, Zenon DEF Columns, FrameVerdicts
<1>3. DOMAIN specs = 1..Len(specs) /\ DOMAIN columns = DOMAIN batch
  <2>1. Len(specs) \in 0..Len(specs) /\ DOMAIN specs = 1..Len(specs)
    BY <1>0
  <2> QED
    BY <1>1, <2>1 DEF AfterColumns
<1>4. columns[r] = IF faulty = {} THEN "none" ELSE FaultAt(body, specs, Min(faulty))
  BY <1>0, <1>1, FirstFaultDecides
<1>5. /\ faulty # {} => FaultAt(body, specs, Min(faulty)) # "none"
      /\ RowVerdict(body, specs, TRUE) =
           IF ~body.json THEN "malformed_json"
           ELSE IF faulty # {} THEN FaultAt(body, specs, Min(faulty))
           ELSE IF ClassOf(body, "household_id") # "valid" THEN "unknown_household"
           ELSE IF ClassOf(body, "event_time") = "future" THEN "future_timestamp"
           ELSE "none"
  <2>1. \A i \in faulty : FaultAt(body, specs, i) # "none"
    BY DEF Faulty
  <2>2. IsBody(body)
    OBVIOUS
  <2> HIDE DEF body
  <2>3. RowVerdict(body, specs, TRUE) = FirstReason(body, specs)
        /\ (Faulty(body, specs) # {} => Min(Faulty(body, specs)) \in Faulty(body, specs))
    BY <2>2, RowVerdictIs
  <2> QED
    BY <2>1, <2>3 DEF FirstReason
<1> HIDE DEF columns
<1>6. /\ DOMAIN timely = DOMAIN batch
      /\ timely[r] = IF columns[r] # "none" THEN columns[r]
                     ELSE IF ClassOf(body, "household_id") # "valid" THEN "unknown_household"
                     ELSE IF ClassOf(body, "event_time") = "future" THEN "future_timestamp"
                     ELSE "none"
  BY <1>3 DEF Fail
<1> HIDE DEF timely
<1>7. FrameVerdicts(batch, specs)[r] = IF body.json THEN timely[r] ELSE "malformed_json"
  BY <1>2, <1>6 DEF Malformed
<1>8. FrameVerdicts(batch, specs)[r] = RowVerdict(body, specs, TRUE)
  <2> HIDE DEF body, faulty
  <2>1. CASE ~body.json
    BY <1>5, <1>7, <2>1
  <2>2. CASE body.json /\ faulty # {}
    <3>1. columns[r] # "none" /\ timely[r] = columns[r]
      BY <1>4, <1>5, <1>6, <2>2
    <3>2. FrameVerdicts(batch, specs)[r] = columns[r]
      BY <1>7, <2>2, <3>1
    <3> QED
      BY <1>4, <1>5, <2>2, <3>2
  <2>3. CASE body.json /\ faulty = {}
    <3>1. columns[r] = "none"
      BY <1>4, <2>3
    <3>2. FrameVerdicts(batch, specs)[r] =
            IF ClassOf(body, "household_id") # "valid" THEN "unknown_household"
            ELSE IF ClassOf(body, "event_time") = "future" THEN "future_timestamp"
            ELSE "none"
      BY <1>6, <1>7, <2>3, <3>1
    <3>3. RowVerdict(body, specs, TRUE) =
            IF ClassOf(body, "household_id") # "valid" THEN "unknown_household"
            ELSE IF ClassOf(body, "event_time") = "future" THEN "future_timestamp"
            ELSE "none"
      BY <1>5, <2>3
    <3> QED
      BY <3>2, <3>3
  <2> QED
    BY <2>1, <2>2, <2>3
<1> QED
  BY <1>8


-----------------------------------------------------------------------------
(* What the meters send.                                                   *)

\* The labels a reading may have.
Labels == {"none", "duplicate", "late", "backfill", "forgotten"} \cup Damages

\* Everything a meter may ever send or lose.
Mine(m) == UNION {Build(m, t, f) : t \in Rounds, f \in Labels}
Made    == UNION {Mine(m) : m \in Meters}

LEMMA SchemaIs ==
  /\ \A i \in 1..11 :
       /\ MeterReadingFields[i].name = "voltage_v" => ~MeterReadingFields[i].required
       /\ MeterReadingFields[i].name \in Droppable => MeterReadingFields[i].required
       /\ MeterReadingFields[i].name = "power_consumption_kwh" =>
            MeterReadingFields[i].dtype = "double"
       /\ MeterReadingFields[i].name = "household_id" =>
            MeterReadingFields[i].dtype = "string"
  /\ \A f \in Names : \E i \in 1..11 : MeterReadingFields[i].name = f
<1>1. \A i \in 1..11 : i \in {1, 2, 3, 4, 5, 6, 7, 8, 9, 10, 11}
  OBVIOUS
<1>2. \A i \in 1..11 :
       /\ MeterReadingFields[i].name = "voltage_v" => ~MeterReadingFields[i].required
       /\ MeterReadingFields[i].name \in Droppable => MeterReadingFields[i].required
       /\ MeterReadingFields[i].name = "power_consumption_kwh" =>
            MeterReadingFields[i].dtype = "double"
       /\ MeterReadingFields[i].name = "household_id" =>
            MeterReadingFields[i].dtype = "string"
  BY <1>1 DEF MeterReadingFields, Field, Droppable
<1>3. \A f \in Names : \E i \in 1..11 : MeterReadingFields[i].name = f
  BY DEF MeterReadingFields, Field, Names
<1> QED
  BY <1>2, <1>3

\* The only field that may be at fault, next to a voltage not reported.
OnlyFault(body, f, class) ==
  /\ body.json = TRUE /\ f \in Names \ {"voltage_v"} /\ ClassOf(body, f) = class
  /\ \A name \in Names \ {f} :
       ClassOf(body, name) = "valid"
       \/ (name = "voltage_v" /\ ClassOf(body, name) = "absent")

LEMMA OneFaultVerdict ==
  ASSUME NEW body, NEW f, NEW class, OnlyFault(body, f, class)
  PROVE  /\ class = "valid" => RowVerdict(body, MeterReadingFields, TRUE) = "none"
         /\ class = "absent" /\ f \in Droppable =>
              RowVerdict(body, MeterReadingFields, TRUE) = "missing_field"
         /\ class \in {"low", "high"} /\ f = "power_consumption_kwh" =>
              RowVerdict(body, MeterReadingFields, TRUE) = "out_of_range"
         /\ class = "text" /\ f = "household_id" =>
              RowVerdict(body, MeterReadingFields, TRUE) = "unknown_household"
<1> DEFINE spec(i) == MeterReadingFields[i]
           faulty == Faulty(body, MeterReadingFields)
           verdict == RowVerdict(body, MeterReadingFields, TRUE)
<1>1. /\ MeterReadingFields \in Seq(Specs) /\ Len(MeterReadingFields) = 11
      /\ \A i \in 1..11 : spec(i) \in Specs
      /\ IsSchema(MeterReadingFields)
  BY SchemaType
<1>2. /\ body.json = TRUE /\ f \in Names \ {"voltage_v"} /\ ClassOf(body, f) = class
      /\ \A name \in Names \ {f} :
           ClassOf(body, name) = "valid"
           \/ (name = "voltage_v" /\ ClassOf(body, name) = "absent")
  BY DEF OnlyFault
<1>3. /\ faulty # {} => Min(faulty) \in faulty
      /\ verdict = IF faulty # {} THEN FaultAt(body, MeterReadingFields, Min(faulty))
                   ELSE IF ClassOf(body, "household_id") # "valid" THEN "unknown_household"
                   ELSE IF ClassOf(body, "event_time") = "future" THEN "future_timestamp"
                   ELSE "none"
  <2>1. IsBody(body)
    BY <1>2 DEF IsBody
  <2>2. verdict = FirstReason(body, MeterReadingFields) /\ (faulty # {} => Min(faulty) \in faulty)
    BY <1>1, <2>1, RowVerdictIs
  <2> QED
    BY <1>2, <2>2 DEF FirstReason
<1>4. \A i \in 1..11 : i \in faulty <=> FaultAt(body, MeterReadingFields, i) # "none"
  BY <1>1 DEF Faulty
<1>5. faulty \subseteq 1..11
  BY <1>1 DEF Faulty
<1>6. ASSUME NEW i \in 1..11
      PROVE  FaultAt(body, MeterReadingFields, i) =
               IF spec(i).name = f THEN Fault(spec(i), class) ELSE "none"
  <2>1. spec(i) \in Specs /\ (spec(i).name = "voltage_v" => ~spec(i).required)
    BY <1>1, SchemaIs
  <2>2. spec(i).name \in Names /\ spec(i).dtype \in {"string", "double", "boolean", "timestamp"}
    BY <2>1 DEF Specs
  <2>3. Fault(spec(i), "valid") = "none"
    BY <2>2 DEF Fault, Raises, WrongType, OutOfRange
  <2>4. ~spec(i).required => Fault(spec(i), "absent") = "none"
    BY <2>2 DEF Fault, Raises, WrongType, OutOfRange
  <2> QED
    BY <1>2, <2>1, <2>2, <2>3, <2>4 DEF FaultAt
<1>7. PICK j \in 1..11 : spec(j).name = f
  BY <1>2, SchemaIs
<1>8. \A name \in {"household_id", "event_time"} :
        ClassOf(body, name) = IF name = f THEN class ELSE "valid"
  BY <1>2 DEF Names
<1> DEFINE fault(i) == FaultAt(body, MeterReadingFields, i)
<1>9. CASE class = "valid"
  <2>1. \A i \in 1..11 : fault(i) = "none"
    <3> TAKE i \in 1..11
    <3>1. spec(i).dtype \in {"string", "double", "boolean", "timestamp"}
      BY <1>1 DEF Specs
    <3>2. Fault(spec(i), "valid") = "none"
      BY <3>1 DEF Fault, Raises, WrongType, OutOfRange
    <3> QED
      BY <1>6, <1>9, <3>2
  <2>2. faulty = {}
    BY <1>4, <1>5, <2>1
  <2> QED
    BY <1>3, <1>8, <1>9, <2>2
<1>10. CASE class = "absent" /\ f \in Droppable
  <2>1. \A i \in 1..11 : fault(i) \in {"none", "missing_field"}
    <3> TAKE i \in 1..11
    <3>1. spec(i).dtype \in {"string", "double", "boolean", "timestamp"}
      BY <1>1 DEF Specs
    <3>2. Fault(spec(i), "absent") \in {"none", "missing_field"}
      BY <3>1 DEF Fault, Raises, WrongType, OutOfRange
    <3> QED
      BY <1>6, <1>10, <3>2
  <2>2. fault(j) # "none"
    BY <1>6, <1>7, <1>10, SchemaIs DEF Fault
  <2> QED
    BY <1>3, <1>4, <1>5, <1>10, <2>1, <2>2
<1>11. CASE class \in {"low", "high"} /\ f = "power_consumption_kwh"
  <2>1. \A i \in 1..11 : spec(i).name = f => Fault(spec(i), class) = "out_of_range"
    <3> TAKE i \in 1..11
    <3>1. spec(i).name = f => spec(i).dtype = "double"
      BY <1>11, SchemaIs
    <3> QED
      BY <1>11, <3>1 DEF Fault, Raises, WrongType, OutOfRange
  <2>2. \A i \in 1..11 : fault(i) \in {"none", "out_of_range"}
    BY <1>6, <2>1
  <2>3. fault(j) = "out_of_range"
    BY <1>6, <1>7, <2>1
  <2> QED
    BY <1>3, <1>4, <1>5, <1>11, <2>2, <2>3
<1>12. CASE class = "text" /\ f = "household_id"
  <2>1. \A i \in 1..11 : spec(i).name = f => Fault(spec(i), class) = "none"
    <3> TAKE i \in 1..11
    <3>1. spec(i).name = f => spec(i).dtype = "string"
      BY <1>12, SchemaIs
    <3> QED
      BY <1>12, <3>1 DEF Fault, Raises, WrongType, OutOfRange
  <2>2. faulty = {}
    BY <1>4, <1>5, <1>6, <2>1
  <2> QED
    BY <1>3, <1>8, <1>12, <2>2
<1> QED
  BY <1>9, <1>10, <1>11, <1>12


\* Old firmware leaves the voltage out, and otherwise changes nothing.
LEMMA FirmwareClass ==
  ASSUME NEW m, NEW damage, NEW name
  PROVE  /\ WithFirmware(m, Body(damage)).json = TRUE
         /\ ClassOf(WithFirmware(m, Body(damage)), name) =
              IF name \in DOMAIN damage THEN damage[name]
              ELSE IF name = "voltage_v" /\ m \in OldFirmware THEN "absent" ELSE "valid"
<1> DEFINE both == [f \in DOMAIN damage \cup {"voltage_v"} |->
                      IF f \in DOMAIN damage THEN damage[f] ELSE "absent"]
<1>1. CASE m \in OldFirmware
  <2>1. WithFirmware(m, Body(damage)) = [json |-> TRUE, damage |-> both]
    BY <1>1 DEF WithFirmware, Body
  <2>2. ClassOf([json |-> TRUE, damage |-> both], name) =
          IF name \in DOMAIN both THEN both[name] ELSE "valid"
    <3> HIDE DEF both
    <3> QED
      BY DEF ClassOf
  <2> QED
    BY <1>1, <2>1, <2>2
<1>2. CASE m \notin OldFirmware
  <2>1. WithFirmware(m, Body(damage)) = [json |-> TRUE, damage |-> damage]
    BY <1>2 DEF WithFirmware, Body
  <2> QED
    BY <1>2, <2>1 DEF ClassOf
<1> QED
  BY <1>1, <1>2

\* An undamaged reading says nothing wrong.
LEMMA UntouchedClass ==
  ASSUME NEW m, NEW name
  PROVE  /\ Untouched(m).json = TRUE
         /\ ClassOf(Untouched(m), name) = "valid"
            \/ (name = "voltage_v" /\ ClassOf(Untouched(m), name) = "absent")
<1>1. Untouched(m) = WithFirmware(m, Body(<<>>))
  BY DEF Untouched, Clean
<1>2. name \notin DOMAIN <<>>
  OBVIOUS
<1>3. /\ WithFirmware(m, Body(<<>>)).json = TRUE
      /\ ClassOf(WithFirmware(m, Body(<<>>)), name) =
           IF name \in DOMAIN <<>> THEN <<>>[name]
           ELSE IF name = "voltage_v" /\ m \in OldFirmware THEN "absent" ELSE "valid"
  BY FirmwareClass
<1> QED
  BY <1>1, <1>2, <1>3

\* The class of a field when one is at fault.
ClassWith(m, f, class, name) ==
  IF name = f THEN class
  ELSE IF name = "voltage_v" /\ m \in OldFirmware THEN "absent" ELSE "valid"

LEMMA DamagedClass ==
  ASSUME NEW m, NEW f, NEW class, NEW name
  PROVE  /\ WithFirmware(m, Damaged(f, class)).json = TRUE
         /\ ClassOf(WithFirmware(m, Damaged(f, class)), name) = ClassWith(m, f, class, name)
<1> DEFINE d == [x \in {f} |-> class]
<1>1. WithFirmware(m, Damaged(f, class)) = WithFirmware(m, Body(d))
  BY DEF Damaged
<1>2. DOMAIN d = {f} /\ d[f] = class
  OBVIOUS
<1> HIDE DEF d
<1>3. /\ WithFirmware(m, Body(d)).json = TRUE
      /\ ClassOf(WithFirmware(m, Body(d)), name) =
           IF name \in DOMAIN d THEN d[name]
           ELSE IF name = "voltage_v" /\ m \in OldFirmware THEN "absent" ELSE "valid"
  BY FirmwareClass
<1> QED
  BY <1>1, <1>2, <1>3 DEF ClassWith

\* What a message carries besides its body is what it was built for.
LEMMA BuildIs ==
  ASSUME NEW m, NEW t, NEW f \in Labels, NEW x \in Build(m, t, f)
  PROVE  /\ x.meter = m /\ x.time = t /\ x.fault = f
         /\ x.body = Untouched(m) \/ \E b \in Corrupted(f) : x.body = WithFirmware(m, b)
         /\ f \notin Damages => x = TheMessage(m, t, f)
<1>1. CASE f \in Damages
  BY <1>1 DEF Build, Message
<1>2. CASE f \notin Damages
  BY <1>2 DEF Build, Message, TheMessage
<1> QED
  BY <1>1, <1>2

LEMMA MadeVerdict ==
  ASSUME NEW x \in Made
  PROVE  /\ IsBody(x.body)
         /\ RowVerdict(x.body, MeterReadingFields, TRUE) = ExpectedQuarantine(x.fault)
<1>1. PICK m \in Meters, t \in Rounds, f \in Labels : x \in Build(m, t, f)
  BY DEF Made, Mine
<1>2. x.fault = f
  BY <1>1, BuildIs
<1>3. ASSUME NEW field \in Names \ {"voltage_v"}, NEW class,
             x.body = WithFirmware(m, Damaged(field, class))
      PROVE  OnlyFault(x.body, field, class) /\ IsBody(x.body)
  <2> DEFINE body == WithFirmware(m, Damaged(field, class))
  <2>a. \A name : ClassOf(body, name) = ClassWith(m, field, class, name)
    BY DamagedClass
  <2>1. x.body.json = TRUE
    <3>1. body.json = TRUE
      BY DamagedClass
    <3> QED
      BY <1>3, <3>1
  <2>2. ClassOf(x.body, field) = class
    <3>1. ClassOf(body, field) = class
      BY <2>a DEF ClassWith
    <3> QED
      BY <1>3, <3>1
  <2>3. \A name \in Names \ {field} :
          ClassOf(x.body, name) = "valid"
          \/ (name = "voltage_v" /\ ClassOf(x.body, name) = "absent")
    <3> TAKE name \in Names \ {field}
    <3>1. ClassOf(body, name) =
            IF name = field THEN class
            ELSE IF name = "voltage_v" /\ m \in OldFirmware THEN "absent" ELSE "valid"
      BY <2>a DEF ClassWith
    <3> QED
      BY <1>3, <3>1
  <2> QED
    BY <2>1, <2>2, <2>3 DEF OnlyFault, IsBody
<1>4. Droppable \subseteq Names \ {"voltage_v"} /\ Damages \subseteq ContentFaults
      /\ Dropped \subseteq Droppable
  BY FaultsAssumption DEF Droppable, Names
<1>5. {"power_consumption_kwh", "household_id"} \subseteq Names \ {"voltage_v"}
  BY DEF Names
<1>6. CASE f \notin Damages
  <2>1. x.body = Untouched(m)
    BY <1>1, <1>6, BuildIs DEF TheMessage, Message
  <2>2. "event_id" \in Names \ {"voltage_v"}
    BY DEF Names
  <2>4. \A name : /\ Untouched(m).json = TRUE
                  /\ ClassOf(Untouched(m), name) = "valid"
                     \/ (name = "voltage_v" /\ ClassOf(Untouched(m), name) = "absent")
    BY UntouchedClass
  <2>5. x.body.json = TRUE
    BY <2>1, <2>4
  <2>6. \A name \in Names \ {"event_id"} :
          ClassOf(x.body, name) = "valid"
          \/ (name = "voltage_v" /\ ClassOf(x.body, name) = "absent")
    BY <2>1, <2>4
  <2>7. ClassOf(x.body, "event_id") = "valid"
    BY <2>1, <2>4
  <2>3. OnlyFault(x.body, "event_id", "valid") /\ IsBody(x.body)
    BY <2>2, <2>5, <2>6, <2>7 DEF OnlyFault, IsBody
  <2>8. ExpectedQuarantine(f) = "none"
    BY <1>6 DEF ExpectedQuarantine, Labels
  <2> QED
    BY <1>2, <2>3, <2>8, OneFaultVerdict
<1>7. CASE f \in Damages
  <2>0. x.body \in {WithFirmware(m, b) : b \in Corrupted(f)}
    BY <1>1, <1>7 DEF Build, Message
  <2>1. CASE f = "missing_field"
    <3>1. PICK field \in Dropped : x.body = WithFirmware(m, Damaged(field, "absent"))
      BY <2>0, <2>1 DEF Corrupted
    <3>2. OnlyFault(x.body, field, "absent") /\ IsBody(x.body) /\ field \in Droppable
      BY <1>3, <1>4, <3>1
    <3> QED
      BY <1>2, <2>1, <3>2, OneFaultVerdict DEF ExpectedQuarantine
  <2>2. CASE f = "negative_value"
    <3>1. x.body = WithFirmware(m, Damaged("power_consumption_kwh", "low"))
      BY <2>0, <2>2 DEF Corrupted
    <3>2. OnlyFault(x.body, "power_consumption_kwh", "low") /\ IsBody(x.body)
      BY <1>3, <1>5, <3>1
    <3> QED
      BY <1>2, <2>2, <3>2, OneFaultVerdict DEF ExpectedQuarantine
  <2>3. CASE f = "spike"
    <3>1. x.body = WithFirmware(m, Damaged("power_consumption_kwh", "high"))
      BY <2>0, <2>3 DEF Corrupted
    <3>2. OnlyFault(x.body, "power_consumption_kwh", "high") /\ IsBody(x.body)
      BY <1>3, <1>5, <3>1
    <3> QED
      BY <1>2, <2>3, <3>2, OneFaultVerdict DEF ExpectedQuarantine
  <2>4. CASE f = "malformed_json"
    <3>1. x.body.json = FALSE
      BY <2>0, <2>4 DEF Corrupted, WithFirmware, NotJson
    <3>2. IsBody(x.body)
      BY <3>1 DEF IsBody
    <3>3. RowVerdict(x.body, MeterReadingFields, TRUE) = "malformed_json"
      BY <3>1, <3>2, RowVerdictIs, SchemaType DEF FirstReason
    <3> QED
      BY <1>2, <2>4, <3>2, <3>3 DEF ExpectedQuarantine
  <2>5. CASE f = "unknown_household"
    <3>1. x.body = WithFirmware(m, Damaged("household_id", "text"))
      BY <2>0, <2>5 DEF Corrupted
    <3>2. OnlyFault(x.body, "household_id", "text") /\ IsBody(x.body)
      BY <1>3, <1>5, <3>1
    <3> QED
      BY <1>2, <2>5, <3>2, OneFaultVerdict DEF ExpectedQuarantine
  <2> QED
    BY <1>4, <1>7, <2>1, <2>2, <2>3, <2>4, <2>5 DEF ContentFaults
<1> QED
  BY <1>6, <1>7


-----------------------------------------------------------------------------
(* One meter, one round.                                                   *)

MeterStates == [until : Int, backfill : BOOLEAN, missed : Seq(Rounds)]
Held(S) == [release : Int, message : S]
OutcomesOf(m) == [state : MeterStates, sent : Seq(Mine(m)), held : Seq(Held(Mine(m))),
                  forgotten : BOOLEAN]

LEMMA MineIs ==
  ASSUME NEW m \in Meters
  PROVE  /\ \A t \in Rounds, f \in Labels : \A x \in Build(m, t, f) : x \in Mine(m)
         /\ \A t \in Rounds, f \in Labels \ Damages : TheMessage(m, t, f) \in Mine(m)
         /\ Mine(m) \subseteq Made
         /\ \A x \in Mine(m) : x.meter = m /\ x.time \in Rounds /\ x.fault \in Labels
<1>1. \A t \in Rounds, f \in Labels : \A x \in Build(m, t, f) : x \in Mine(m)
  BY DEF Mine
<1>2. \A t \in Rounds, f \in Labels \ Damages : TheMessage(m, t, f) \in Mine(m)
  BY <1>1 DEF Build, TheMessage
<1>3. Mine(m) \subseteq Made
  BY DEF Made
<1>4. ASSUME NEW x \in Mine(m)
      PROVE  x.meter = m /\ x.time \in Rounds /\ x.fault \in Labels
  <2>1. PICK t \in Rounds, f \in Labels : x \in Build(m, t, f)
    BY DEF Mine
  <2> QED
    BY <2>1, BuildIs
<1> QED
  BY <1>1, <1>2, <1>3, <1>4

LEMMA PlainLabels ==
  {"none", "duplicate", "late", "backfill", "forgotten"} \subseteq Labels \ Damages
BY FaultsAssumption DEF Labels, ContentFaults

LEMMA OwedIs ==
  ASSUME NEW m \in Meters, NEW s \in MeterStates
  PROVE  /\ Owed(m, s) \in Seq(Mine(m)) /\ Len(Owed(m, s)) = Len(s.missed)
         /\ DOMAIN Owed(m, s) = DOMAIN s.missed
         /\ \A i \in DOMAIN s.missed : Owed(m, s)[i] = TheMessage(m, s.missed[i], "backfill")
<1>1. s.missed \in Seq(Rounds)
  BY DEF MeterStates
<1>2. \A i \in 1..Len(s.missed) : s.missed[i] \in Rounds
  BY <1>1
<1>3. \A i \in 1..Len(s.missed) : TheMessage(m, s.missed[i], "backfill") \in Mine(m)
  BY <1>2, MineIs, PlainLabels
<1>4. Owed(m, s) = [i \in 1..Len(s.missed) |-> TheMessage(m, s.missed[i], "backfill")]
  BY <1>1 DEF Owed
<1>5. Len(s.missed) \in Nat
  BY <1>1
<1>6. Owed(m, s) \in [1..Len(s.missed) -> Mine(m)]
  BY <1>3, <1>4
<1>7. Owed(m, s) \in Seq(Mine(m)) /\ Len(Owed(m, s)) = Len(s.missed)
  BY <1>5, <1>6
<1> QED
  BY <1>1, <1>4, <1>7

\* Everything that may come of a meter's round, by what it does with the reading.
Remembered(o, m, s, t) ==
  o.state.missed = Append(s.missed, t) /\ o.sent = <<>> /\ o.held = <<>> /\ o.forgotten = FALSE
Forgotten(o, m, s, t) ==
  o.state.missed = s.missed /\ o.sent = <<>> /\ o.held = <<>> /\ o.forgotten = TRUE
WentDown(o, m, s, t) ==
  /\ o.sent = Owed(m, s) /\ o.held = <<>>
  /\ \/ o.state.missed = <<t>> /\ o.forgotten = FALSE
     \/ o.state.missed = <<>> /\ o.forgotten = TRUE
Sent(o, m, s, t) ==
  /\ o.state.missed = <<>> /\ o.held = <<>> /\ o.forgotten = FALSE
  /\ \E f \in {"none"} \cup Damages : \E x \in Build(m, t, f) : o.sent = Owed(m, s) \o <<x>>
SentTwice(o, m, s, t) ==
  /\ o.state.missed = <<>> /\ o.held = <<>> /\ o.forgotten = FALSE
  /\ o.sent = Owed(m, s) \o <<TheMessage(m, t, "none"), TheMessage(m, t, "duplicate")>>
HeldBack(o, m, s, t) ==
  /\ o.state.missed = <<>> /\ o.sent = Owed(m, s) /\ o.forgotten = FALSE
  /\ \E n \in LateRounds : o.held = <<[release |-> t + n, message |-> TheMessage(m, t, "late")]>>

LEMMA TickIs ==
  ASSUME NEW m \in Meters, NEW s \in MeterStates, NEW t \in Rounds, NEW silence \in Silences,
         NEW o \in MeterTick(m, s, t, silence)
  PROVE  /\ o.state \in MeterStates
         /\ \/ Remembered(o, m, s, t) \/ Forgotten(o, m, s, t) \/ WentDown(o, m, s, t)
            \/ Sent(o, m, s, t) \/ SentTwice(o, m, s, t) \/ HeldBack(o, m, s, t)
<1>0. /\ s.missed \in Seq(Rounds) /\ s.until \in Int /\ s.backfill \in BOOLEAN
      /\ s = [until |-> s.until, backfill |-> s.backfill, missed |-> s.missed]
      /\ t \in Int /\ OutageRounds \subseteq Int /\ NoOutage \in Int
  BY RoundsAssumption DEF MeterStates, Rounds, NoOutage
<1>1. ASSUME NEW remembers \in BOOLEAN, o = Silent(s, t, remembers)
      PROVE  /\ o.state \in MeterStates
             /\ Remembered(o, m, s, t) \/ Forgotten(o, m, s, t)
  <2>1. CASE remembers
    <3>1. o = Outcome(Misses(s, t), <<>>, <<>>, FALSE)
      BY <1>1, <2>1 DEF Silent
    <3>2. Append(s.missed, t) \in Seq(Rounds)
      BY <1>0
    <3>3. Misses(s, t) \in MeterStates /\ Misses(s, t).missed = Append(s.missed, t)
      BY <3>2 DEF Misses, MeterStates
    <3> QED
      BY <3>1, <3>3 DEF Outcome, Remembered
  <2>2. CASE ~remembers
    BY <1>1, <2>2 DEF Silent, Outcome, Forgotten
  <2> QED
    BY <2>1, <2>2
<1>3. <<>> \in Seq(Rounds) /\ <<t>> \in Seq(Rounds)
  OBVIOUS
<1>4. Cleared(s) \in MeterStates /\ Cleared(s).missed = <<>>
  BY <1>0, <1>3 DEF Cleared, MeterStates
<1>5. ASSUME o \in OutageStarts(m, s, t)
      PROVE  o.state \in MeterStates /\ WentDown(o, m, s, t)
  <2>1. PICK n \in OutageRounds, b \in BOOLEAN :
          o = Outcome(Down(t, t + n, b), Owed(m, s), <<>>, ~b)
    BY <1>5 DEF OutageStarts
  <2>2. t + n \in Int
    BY <1>0
  <2>3. /\ Down(t, t + n, b) \in MeterStates
        /\ Down(t, t + n, b).missed = IF b THEN <<t>> ELSE <<>>
    BY <1>3, <2>2 DEF Down, MeterStates
  <2>4. /\ o.state = Down(t, t + n, b) /\ o.sent = Owed(m, s) /\ o.held = <<>>
        /\ o.forgotten = ~b
    BY <2>1 DEF Outcome
  <2>5. CASE b
    BY <2>3, <2>4, <2>5 DEF WentDown
  <2>6. CASE ~b
    BY <2>3, <2>4, <2>6 DEF WentDown
  <2> QED
    BY <2>5, <2>6
<1>6. ASSUME o \in Reports(m, s, t)
      PROVE  /\ o.state \in MeterStates
             /\ Sent(o, m, s, t) \/ SentTwice(o, m, s, t) \/ HeldBack(o, m, s, t)
  <2>1. \/ \E f \in {"none"} \cup Damages : \E x \in Build(m, t, f) :
             o = Outcome(Cleared(s), Owed(m, s) \o <<x>>, <<>>, FALSE)
        \/ o = Outcome(Cleared(s), Owed(m, s) \o
                         <<TheMessage(m, t, "none"), TheMessage(m, t, "duplicate")>>, <<>>, FALSE)
        \/ \E n \in LateRounds :
             o = Outcome(Cleared(s), Owed(m, s),
                         <<[release |-> t + n, message |-> TheMessage(m, t, "late")]>>, FALSE)
    BY <1>6 DEF Reports
  <2>2. CASE \E f \in {"none"} \cup Damages : \E x \in Build(m, t, f) :
               o = Outcome(Cleared(s), Owed(m, s) \o <<x>>, <<>>, FALSE)
    BY SMTT(30), <1>4, <2>2 DEF Outcome, Sent
  <2>3. CASE o = Outcome(Cleared(s), Owed(m, s) \o
                         <<TheMessage(m, t, "none"), TheMessage(m, t, "duplicate")>>, <<>>, FALSE)
    BY <1>4, <2>3 DEF Outcome, SentTwice
  <2>4. CASE \E n \in LateRounds :
               o = Outcome(Cleared(s), Owed(m, s),
                           <<[release |-> t + n, message |-> TheMessage(m, t, "late")]>>, FALSE)
    BY <1>4, <2>4 DEF Outcome, HeldBack
  <2> QED
    BY <2>1, <2>2, <2>3, <2>4
<1>7. \/ \E remembers \in BOOLEAN : o = Silent(s, t, remembers)
      \/ o \in OutageStarts(m, s, t) \/ o \in Reports(m, s, t)
  <2>1. CASE silence # "none"
    BY <2>1 DEF MeterTick
  <2>2. CASE silence = "none" /\ Offline(s, t)
    BY <1>0, <2>2 DEF MeterTick
  <2>3. CASE silence = "none" /\ ~Offline(s, t)
    BY <2>3 DEF MeterTick
  <2> QED
    BY <2>1, <2>2, <2>3
<1> QED
  BY <1>1, <1>5, <1>6, <1>7


\* The messages that place meter m's interval u.
About(m, u) == {x \in Made : x.meter = m /\ x.time = u /\ x.fault # "duplicate"}
HeldAbout(m, u) == {y \in Held(Made) : y.message \in About(m, u)}

LEMMA TickType ==
  ASSUME NEW m \in Meters, NEW s \in MeterStates, NEW t \in Rounds, NEW silence \in Silences,
         NEW o \in MeterTick(m, s, t, silence)
  PROVE  /\ o.state \in MeterStates /\ o.sent \in Seq(Mine(m))
         /\ o.held \in Seq(Held(Mine(m))) /\ o.forgotten \in BOOLEAN
<1>1. /\ o.state \in MeterStates
      /\ \/ Remembered(o, m, s, t) \/ Forgotten(o, m, s, t) \/ WentDown(o, m, s, t)
         \/ Sent(o, m, s, t) \/ SentTwice(o, m, s, t) \/ HeldBack(o, m, s, t)
  BY TickIs
<1>2. /\ Owed(m, s) \in Seq(Mine(m))
      /\ <<>> \in Seq(Mine(m)) /\ <<>> \in Seq(Held(Mine(m)))
  BY OwedIs
<1>3. CASE Remembered(o, m, s, t) \/ Forgotten(o, m, s, t) \/ WentDown(o, m, s, t)
  BY <1>1, <1>2, <1>3 DEF Remembered, Forgotten, WentDown
<1>4. CASE Sent(o, m, s, t)
  <2>1. PICK f \in {"none"} \cup Damages :
          \E x \in Build(m, t, f) : o.sent = Owed(m, s) \o <<x>>
    BY <1>4 DEF Sent
  <2>a. PICK x \in Build(m, t, f) : o.sent = Owed(m, s) \o <<x>>
    BY <2>1
  <2>2. x \in Mine(m)
    BY <2>1, MineIs DEF Labels
  <2>3. Owed(m, s) \o <<x>> \in Seq(Mine(m))
    BY <1>2, <2>2
  <2> QED
    BY <1>1, <1>2, <1>4, <2>a, <2>3 DEF Sent
<1>5. CASE SentTwice(o, m, s, t)
  <2>1. TheMessage(m, t, "none") \in Mine(m) /\ TheMessage(m, t, "duplicate") \in Mine(m)
    BY MineIs, PlainLabels
  <2>2. Owed(m, s) \o <<TheMessage(m, t, "none"), TheMessage(m, t, "duplicate")>> \in Seq(Mine(m))
    BY <1>2, <2>1
  <2> QED
    BY <1>1, <1>2, <1>5, <2>2 DEF SentTwice
<1>6. CASE HeldBack(o, m, s, t)
  <2>1. PICK n \in LateRounds :
          o.held = <<[release |-> t + n, message |-> TheMessage(m, t, "late")]>>
    BY <1>6 DEF HeldBack
  <2>2. TheMessage(m, t, "late") \in Mine(m) /\ t + n \in Int
    BY MineIs, PlainLabels, RoundsAssumption DEF Rounds
  <2>3. o.held \in Seq(Held(Mine(m)))
    BY <2>1, <2>2 DEF Held
  <2> QED
    BY <1>1, <1>2, <1>6, <2>3 DEF HeldBack
<1> QED
  BY <1>1, <1>3, <1>4, <1>5, <1>6

LEMMA AboutIs ==
  ASSUME NEW m \in Meters, NEW t \in Rounds, NEW u
  PROVE  /\ \A f \in (Labels \ {"duplicate"}) : \A x \in Build(m, t, f) : x \in About(m, u) <=> u = t
         /\ \A f \in (Labels \ {"duplicate"}) \ Damages : TheMessage(m, t, f) \in About(m, u) <=> u = t
         /\ TheMessage(m, t, "duplicate") \notin About(m, u)
<1>1. ASSUME NEW f \in (Labels \ {"duplicate"}), NEW x \in Build(m, t, f)
      PROVE  x \in About(m, u) <=> u = t
  <2>1. x \in Made
    BY MineIs
  <2>2. x.meter = m /\ x.time = t /\ x.fault = f
    BY BuildIs
  <2> QED
    BY <2>1, <2>2 DEF About
<1>2. \A f \in (Labels \ {"duplicate"}) \ Damages : TheMessage(m, t, f) \in Build(m, t, f)
  BY DEF Build, TheMessage
<1>3. TheMessage(m, t, "duplicate") \notin About(m, u)
  BY DEF About, TheMessage, Message
<1> QED
  BY <1>1, <1>2, <1>3

\* What comes of a round places what was owed and the interval it measures.
Balances(o, m, s, t, u) ==
  CountIn(o.sent, About(m, u)) + CountIn(o.held, HeldAbout(m, u))
    + CountIn(o.state.missed, {u}) + (IF o.forgotten /\ u = t THEN 1 ELSE 0)
  = CountIn(s.missed, {u}) + (IF u = t THEN 1 ELSE 0)

\* A meter's round places the interval it measures, once, and moves the ones
\* it owed from what it remembers to what it sends.
LEMMA TickAccounts ==
  ASSUME NEW m \in Meters, NEW s \in MeterStates, NEW t \in Rounds, NEW silence \in Silences,
         NEW o \in MeterTick(m, s, t, silence), NEW u \in Rounds
  PROVE  Balances(o, m, s, t, u)
<1> SUFFICES CountIn(o.sent, About(m, u)) + CountIn(o.held, HeldAbout(m, u))
               + CountIn(o.state.missed, {u}) + (IF o.forgotten /\ u = t THEN 1 ELSE 0)
             = CountIn(s.missed, {u}) + (IF u = t THEN 1 ELSE 0)
  BY DEF Balances
<1>1. /\ o.state \in MeterStates
      /\ \/ Remembered(o, m, s, t) \/ Forgotten(o, m, s, t) \/ WentDown(o, m, s, t)
         \/ Sent(o, m, s, t) \/ SentTwice(o, m, s, t) \/ HeldBack(o, m, s, t)
  BY TickIs
<1>2. /\ Owed(m, s) \in Seq(Mine(m)) /\ DOMAIN Owed(m, s) = DOMAIN s.missed
      /\ \A i \in DOMAIN s.missed : Owed(m, s)[i] = TheMessage(m, s.missed[i], "backfill")
      /\ s.missed \in Seq(Rounds)
  BY OwedIs DEF MeterStates
<1>3. CountIn(s.missed, {u}) \in Nat
  BY <1>2, CountInType
<1>4. CountIn(Owed(m, s), About(m, u)) = CountIn(s.missed, {u})
  <2>1. \A i \in DOMAIN s.missed : Owed(m, s)[i] \in About(m, u) <=> s.missed[i] \in {u}
    <3> TAKE i \in DOMAIN s.missed
    <3>1. s.missed[i] \in Rounds
      BY <1>2
    <3>2. TheMessage(m, s.missed[i], "backfill") \in About(m, u) <=> u = s.missed[i]
      BY <3>1, AboutIs, PlainLabels
    <3> QED
      BY <1>2, <3>2
  <2>2. {i \in DOMAIN Owed(m, s) : Owed(m, s)[i] \in About(m, u)}
          = {i \in DOMAIN s.missed : s.missed[i] \in {u}}
    BY <1>2, <2>1
  <2> QED
    BY <2>2 DEF CountIn
<1>5. /\ CountIn(<<>>, About(m, u)) = 0 /\ CountIn(<<>>, HeldAbout(m, u)) = 0
      /\ CountIn(<<>>, {u}) = 0 /\ CountIn(<<t>>, {u}) = IF u = t THEN 1 ELSE 0
  BY CountEmpty, CountOne
<1>6. CASE Remembered(o, m, s, t)
  <2>1. CountIn(Append(s.missed, t), {u}) = CountIn(s.missed, {u}) + (IF t \in {u} THEN 1 ELSE 0)
    BY <1>2, CountAppend
  <2> QED
    BY <1>3, <1>5, <1>6, <2>1 DEF Remembered
<1>7. CASE Forgotten(o, m, s, t)
  BY <1>3, <1>5, <1>7 DEF Forgotten
<1>8. CASE WentDown(o, m, s, t)
  BY <1>3, <1>4, <1>5, <1>8 DEF WentDown
<1>9. CASE Sent(o, m, s, t)
  <2>1. PICK f \in {"none"} \cup Damages :
          \E x \in Build(m, t, f) : o.sent = Owed(m, s) \o <<x>>
    BY <1>9 DEF Sent
  <2>a. PICK x \in Build(m, t, f) : o.sent = Owed(m, s) \o <<x>>
    BY <2>1
  <2>2. f \in Labels \ {"duplicate"}
    BY FaultsAssumption DEF Labels, ContentFaults
  <2>3. x \in Mine(m) /\ (x \in About(m, u) <=> u = t)
    BY <2>2, MineIs, AboutIs
  <2>4. CountIn(Owed(m, s) \o <<x>>, About(m, u))
          = CountIn(Owed(m, s), About(m, u)) + CountIn(<<x>>, About(m, u))
    <3>1. <<x>> \in Seq(Mine(m))
      BY <2>3
    <3> QED
      BY <1>2, <3>1, CountConcat
  <2>5. CountIn(<<x>>, About(m, u)) = IF u = t THEN 1 ELSE 0
    BY <2>3, CountOne
  <2> QED
    BY <1>3, <1>4, <1>5, <1>9, <2>a, <2>4, <2>5 DEF Sent
<1>10. CASE SentTwice(o, m, s, t)
  <2> DEFINE x == TheMessage(m, t, "none")
             y == TheMessage(m, t, "duplicate")
  <2>1. x \in Mine(m) /\ y \in Mine(m) /\ (x \in About(m, u) <=> u = t) /\ y \notin About(m, u)
    BY MineIs, AboutIs, PlainLabels
  <2>2. o.sent = Owed(m, s) \o <<x, y>>
    BY <1>10 DEF SentTwice
  <2> HIDE DEF x, y
  <2>3. <<x, y>> = Append(<<x>>, y) /\ <<x>> \in Seq(Mine(m)) /\ <<x, y>> \in Seq(Mine(m))
    BY <2>1
  <2>4. CountIn(<<x, y>>, About(m, u)) = IF u = t THEN 1 ELSE 0
    <3> DEFINE one == <<x>>
               A == About(m, u)
    <3>1. one \in Seq(Mine(m)) /\ <<x, y>> = Append(one, y)
      BY <2>3
    <3>2. CountIn(one, A) = IF x \in A THEN 1 ELSE 0
      BY CountOne
    <3>3. (x \in A <=> u = t) /\ y \notin A
      BY <2>1
    <3> HIDE DEF one, A
    <3>4. CountIn(Append(one, y), A) = CountIn(one, A) + (IF y \in A THEN 1 ELSE 0)
      BY <2>1, <3>1, CountAppend
    <3>5. CountIn(one, A) = IF u = t THEN 1 ELSE 0
      BY <3>2, <3>3
    <3>6. CountIn(Append(one, y), A) = IF u = t THEN 1 ELSE 0
      BY <3>3, <3>4, <3>5
    <3> QED
      BY <3>1, <3>6 DEF A
  <2>5. CountIn(Owed(m, s) \o <<x, y>>, About(m, u))
          = CountIn(Owed(m, s), About(m, u)) + CountIn(<<x, y>>, About(m, u))
    BY ZenonT(60), <1>2, <2>3, CountConcat
  <2>6. CountIn(o.sent, About(m, u)) = CountIn(s.missed, {u}) + (IF u = t THEN 1 ELSE 0)
    BY <1>4, <2>2, <2>4, <2>5
  <2>7. o.state.missed = <<>> /\ o.held = <<>> /\ ~o.forgotten
    BY <1>10 DEF SentTwice
  <2> QED
    BY <1>3, <1>5, <2>6, <2>7
<1>11. CASE HeldBack(o, m, s, t)
  <2>1. PICK n \in LateRounds :
          o.held = <<[release |-> t + n, message |-> TheMessage(m, t, "late")]>>
    BY <1>11 DEF HeldBack
  <2>2. /\ TheMessage(m, t, "late") \in Made /\ t + n \in Int
        /\ TheMessage(m, t, "late") \in About(m, u) <=> u = t
    BY MineIs, AboutIs, PlainLabels, RoundsAssumption DEF Rounds
  <2>3. [release |-> t + n, message |-> TheMessage(m, t, "late")] \in HeldAbout(m, u) <=> u = t
    BY <2>2 DEF HeldAbout, Held
  <2>4. CountIn(o.held, HeldAbout(m, u)) = IF u = t THEN 1 ELSE 0
    BY <2>1, <2>3, CountOne
  <2> QED
    BY <1>3, <1>4, <1>5, <1>11, <2>4 DEF HeldBack
<1> QED
  BY <1>1, <1>6, <1>7, <1>8, <1>9, <1>10, <1>11

-----------------------------------------------------------------------------
(* The readings held back.                                                 *)

\* Inserting a reading into the heap adds that one.
LEMMA HoldIs ==
  ASSUME NEW H, NEW heap \in Seq(H), NEW x \in H
  PROVE  /\ Hold(heap, x) \in Seq(H)
         /\ \A X : CountIn(Hold(heap, x), X) = CountIn(heap, X) + CountIn(<<x>>, X)
<1> DEFINE before == {i \in DOMAIN heap : heap[i].release <= x.release}
           b == At(heap, before)
           a == At(heap, DOMAIN heap \ before)
           one == <<x>>
<1>1. b \in Seq(H) /\ a \in Seq(H)
  BY AtIs
<1>2. one \in Seq(H)
  OBVIOUS
<1>3. \A X : CountIn(heap, X) = CountIn(b, X) + CountIn(a, X)
  BY CountSplit
<1>4. Hold(heap, x) = b \o one \o a
  BY DEF Hold
<1> HIDE DEF before, a, b, one
<1>5. b \o one \in Seq(H) /\ b \o one \o a \in Seq(H)
  BY <1>1, <1>2
<1>6. ASSUME NEW X
      PROVE  CountIn(b \o one \o a, X) = CountIn(heap, X) + CountIn(one, X)
  <2>1. CountIn(b \o one, X) = CountIn(b, X) + CountIn(one, X)
    BY <1>1, <1>2, CountConcat
  <2>2. CountIn(b \o one \o a, X) = CountIn(b \o one, X) + CountIn(a, X)
    BY <1>1, <1>5, CountConcat
  <2>3. CountIn(a, X) \in Nat /\ CountIn(b, X) \in Nat /\ CountIn(one, X) \in Nat
    BY <1>1, <1>2, CountInType
  <2> QED
    BY <1>3, <2>1, <2>2, <2>3
<1> QED
  BY <1>4, <1>5, <1>6 DEF one

\* The heap after the first k insertions.
AfterHolds(F, H, heap, xs) ==
  /\ F \in [0..Len(xs) -> Seq(H)] /\ F[0] = heap
  /\ \A k \in 1..Len(xs) : F[k] = Hold(F[k - 1], xs[k])

LEMMA HoldUnrolls ==
  ASSUME NEW H, NEW heap \in Seq(H), NEW xs \in Seq(H)
  PROVE  \E F : AfterHolds(F, H, heap, xs) /\ F[Len(xs)] = FoldLeft(Hold, heap, xs)
<1> DEFINE V == Seq(H)
           n == Len(xs)
           G == [i \in 1..n |-> [v \in V |-> Hold(v, xs[i])]]
           Equation(f) == f = [s \in SUBSET (1..n) |->
                                 IF s = {} THEN heap
                                 ELSE Hold(f[s \ {Max(s)}], xs[Max(s)])]
           h == CHOOSE f : Equation(f)
<1>1. /\ n \in Nat /\ DOMAIN xs = 1..n /\ heap \in V
      /\ \A i \in 1..n : xs[i] \in H
  OBVIOUS
<1>2. \A i \in 1..n, v \in V : Hold(v, xs[i]) \in V
  BY <1>1, HoldIs
<1>3. G \in [1..n -> [V -> V]] /\ \A i \in 1..n, v \in V : G[i][v] = Hold(v, xs[i])
  <2> HIDE DEF V, n
  <2> QED
    BY <1>2
<1>4. FoldLeft(Hold, heap, xs) = h[1..n]
  <2>1. FoldLeft(Hold, heap, xs) =
          (CHOOSE f : f = [s \in SUBSET DOMAIN xs |->
             IF s = {} THEN heap
             ELSE Hold(f[s \ {Max(s)}], xs[Max(s)])])[DOMAIN xs]
    BY Zenon DEF FoldLeft, MapThenFoldSet
  <2> QED
    BY <1>1, <2>1, Zenon
<1> HIDE DEF V, n, G
<1>5. \A s \in SUBSET (1..n) : s # {} => Max(s) \in s /\ s \ {Max(s)} \in SUBSET (1..n)
  <2> TAKE s \in SUBSET (1..n)
  <2>1. s \subseteq Int /\ IsFiniteSet(s)
    <3>1. IsFiniteSet(1..n)
      BY <1>1, FS_Interval
    <3>2. IsFiniteSet(s)
      BY <3>1, FS_Subset
    <3> QED
      BY <3>2
  <2> QED
    BY <2>1, MaxIsGreatest
<1>6. AreSteps(G, n, V)
  BY <1>3 DEF AreSteps
<1>7. FoldsBy(h, n, V, heap, G)
  <2>1. PICK g : g \in [SUBSET (1..n) -> V] /\ FoldsBy(g, n, V, heap, G)
    BY <1>1, <1>6, FoldExists
  <2>2. ASSUME NEW s \in SUBSET (1..n), s # {}
        PROVE  g[s] = Hold(g[s \ {Max(s)}], xs[Max(s)])
    <3>1. Max(s) \in 1..n /\ g[s \ {Max(s)}] \in V
      BY <1>5, <2>1, <2>2
    <3> QED
      BY <1>3, <2>1, <2>2, <3>1 DEF FoldsBy
  <2>3. Equation(g)
    BY <2>1, <2>2 DEF FoldsBy
  <2>4. Equation(h)
    <3> HIDE DEF Equation
    <3> QED
      BY <2>3
  <2> HIDE DEF h
  <2>5. /\ h[{}] = heap
        /\ \A s \in SUBSET (1..n) : s # {} =>
             h[s] = Hold(h[s \ {Max(s)}], xs[Max(s)])
    BY <2>4
  <2> HIDE DEF Equation
  <2>6. ASSUME NEW s \in SUBSET (1..n), s # {}, h[s \ {Max(s)}] \in V
        PROVE  h[s] = G[Max(s)][h[s \ {Max(s)}]]
    <3>1. Max(s) \in 1..n
      BY <1>5, <2>6
    <3> QED
      BY <1>3, <2>5, <2>6, <3>1
  <2> QED
    BY <2>5, <2>6 DEF FoldsBy
<1> HIDE DEF h, Equation
<1>8. PICK F : GoesThrough(F, n, V, heap, G) /\ F[n] = h[1..n]
  BY <1>1, <1>6, <1>7, FoldUnrolls
<1>9. \A k \in 1..n : F[k] = Hold(F[k - 1], xs[k])
  <2> TAKE k \in 1..n
  <2>1. k - 1 \in 0..n
    BY <1>1
  <2>2. F[k - 1] \in V
    BY <1>8, <2>1 DEF GoesThrough
  <2> QED
    BY <1>3, <1>8, <2>2 DEF GoesThrough
<1>10. AfterHolds(F, H, heap, xs)
  BY <1>8, <1>9 DEF AfterHolds, GoesThrough, V, n
<1>11. F[Len(xs)] = FoldLeft(Hold, heap, xs)
  BY <1>4, <1>8 DEF n
<1> QED
  BY <1>10, <1>11

\* Inserting one after the other adds them all.
LEMMA HoldAll ==
  ASSUME NEW H, NEW heap \in Seq(H), NEW xs \in Seq(H)
  PROVE  /\ FoldLeft(Hold, heap, xs) \in Seq(H)
         /\ \A X : CountIn(FoldLeft(Hold, heap, xs), X) = CountIn(heap, X) + CountIn(xs, X)
<1>1. PICK F : AfterHolds(F, H, heap, xs) /\ F[Len(xs)] = FoldLeft(Hold, heap, xs)
  BY HoldUnrolls
<1>0. Len(xs) \in Nat /\ DOMAIN xs = 1..Len(xs) /\ \A k \in 1..Len(xs) : xs[k] \in H
  OBVIOUS
<1>2. ASSUME NEW X PROVE CountIn(F[Len(xs)], X) = CountIn(heap, X) + CountIn(xs, X)
  <2> DEFINE upTo(k) == SubSeq(xs, 1, k)
             Right(k) == CountIn(F[k], X) = CountIn(heap, X) + CountIn(upTo(k), X)
             S == {k \in Nat : k <= Len(xs) => Right(k)}
  <2>1. 0 \in S
    <3>1. upTo(0) = <<>> /\ F[0] = heap
      BY <1>1 DEF AfterHolds
    <3>2. CountIn(<<>>, X) = 0 /\ CountIn(heap, X) \in Nat
      BY CountEmpty, CountInType
    <3> HIDE DEF upTo
    <3> QED
      BY <3>1, <3>2
  <2>2. ASSUME NEW k \in S PROVE k + 1 \in S
    <3>1. k \in Nat /\ (k <= Len(xs) => Right(k))
      <4> HIDE DEF Right
      <4> QED
        BY <2>2
    <3>2. SUFFICES ASSUME k + 1 <= Len(xs) PROVE Right(k + 1)
      <4> HIDE DEF Right
      <4> QED
        BY <3>1
    <3>3. k + 1 \in 1..Len(xs) /\ k \in 0..Len(xs) /\ (k + 1) - 1 = k
      BY <1>0, <3>1, <3>2
    <3>4. xs[k + 1] \in H /\ F[k] \in Seq(H) /\ F[k + 1] = Hold(F[k], xs[k + 1])
      BY <1>0, <1>1, <3>3 DEF AfterHolds
    <3> DEFINE one == <<xs[k + 1]>>
    <3>5. CountIn(F[k + 1], X) = CountIn(F[k], X) + CountIn(one, X)
      BY <3>4, HoldIs
    <3>6. upTo(k + 1) = upTo(k) \o one /\ upTo(k) \in Seq(H) /\ one \in Seq(H)
      BY <1>0, <3>1, <3>2, <3>3, <3>4
    <3> HIDE DEF one, upTo
    <3>a. CountIn(upTo(k) \o one, X) = CountIn(upTo(k), X) + CountIn(one, X)
      BY <3>6, CountConcat
    <3>7. CountIn(upTo(k + 1), X) = CountIn(upTo(k), X) + CountIn(one, X)
      BY <3>6, <3>a
    <3>8. /\ CountIn(heap, X) \in Nat /\ CountIn(upTo(k), X) \in Nat
          /\ CountIn(one, X) \in Nat
      BY <3>6, CountInType
    <3>9. CountIn(F[k], X) = CountIn(heap, X) + CountIn(upTo(k), X)
      BY <3>1, <3>2
    <3> QED
      BY <3>5, <3>7, <3>8, <3>9
  <2>3. S \subseteq Nat
    OBVIOUS
  <2> HIDE DEF S
  <2>4. Len(xs) \in S
    BY <1>0, <2>1, <2>2, <2>3, CountingUp
  <2>5. Right(Len(xs))
    <3> HIDE DEF Right
    <3> QED
      BY <2>4 DEF S
  <2>6. upTo(Len(xs)) = xs
    OBVIOUS
  <2> QED
    BY <2>5, <2>6
<1>3. F[Len(xs)] \in Seq(H)
  BY <1>0, <1>1 DEF AfterHolds
<1> QED
  BY <1>1, <1>2, <1>3

-----------------------------------------------------------------------------
(* Types.                                                                  *)

\* What no meter sent, and what a meter may hold back.
Strays   == {Message(0, LongAgo, "strange", b) : b \in Strange}
LateOnes == {y \in Held(Made) : y.message.fault = "late"
                                /\ \E n \in LateRounds : y.release = y.message.time + n}

MetersTypeOK ==
  /\ now \in Nat /\ meters \in [Meters -> MeterStates]
  /\ late \in Seq(LateOnes) /\ outbox \in Seq(Made) /\ topic \in Seq(Made \cup Strays)
  /\ measured \subseteq Rounds
  /\ lost \subseteq Made /\ IsFiniteSet(lost)

TypeOK == MetersTypeOK /\ ingested \in 0..Len(topic)

\* A meter's round holds back a reading that is not due before its time.
LEMMA HeldIs ==
  ASSUME NEW m \in Meters, NEW s \in MeterStates, NEW t \in Rounds, NEW silence \in Silences,
         NEW o \in MeterTick(m, s, t, silence)
  PROVE  o.held \in Seq(LateOnes)
<1>1. o.held = <<>> \/ HeldBack(o, m, s, t)
  BY TickIs DEF Remembered, Forgotten, WentDown, Sent, SentTwice
<1>2. CASE o.held = <<>>
  BY <1>2
<1>3. CASE HeldBack(o, m, s, t)
  <2>1. PICK n \in LateRounds :
          o.held = <<[release |-> t + n, message |-> TheMessage(m, t, "late")]>>
    BY <1>3 DEF HeldBack
  <2>2. TheMessage(m, t, "late") \in Made /\ t + n \in Int
    BY MineIs, PlainLabels, RoundsAssumption DEF Rounds
  <2>3. TheMessage(m, t, "late").fault = "late" /\ TheMessage(m, t, "late").time = t
    BY DEF TheMessage, Message
  <2>4. [release |-> t + n, message |-> TheMessage(m, t, "late")] \in LateOnes
    BY <2>2, <2>3 DEF LateOnes, Held
  <2> QED
    BY <2>1, <2>4
<1> QED
  BY <1>1, <1>2, <1>3

LEMMA MessagesType ==
  ASSUME NEW X, NEW held \in Seq(Held(X))
  PROVE  /\ Messages(held) \in Seq(X) /\ Len(Messages(held)) = Len(held)
         /\ \A i \in DOMAIN held : Messages(held)[i] = held[i].message
<1>0. Len(held) \in Nat /\ DOMAIN held = 1..Len(held) /\ \A i \in 1..Len(held) : held[i] \in Held(X)
  OBVIOUS
<1>1. Len(held) \in Nat /\ DOMAIN held = 1..Len(held)
      /\ \A i \in 1..Len(held) : held[i].message \in X
  BY <1>0 DEF Held
<1>2. Messages(held) \in [1..Len(held) -> X]
  BY <1>1 DEF Messages
<1> QED
  BY <1>1, <1>2 DEF Messages

\* What the meters send or hold in a round, one after the other.
SentBy(come) == FlattenSeq([m \in Meters |-> come[m].sent])
HeldBy(come) == FlattenSeq([m \in Meters |-> come[m].held])

\* What the meters do in a round.
Ticks(come, silence) ==
  \A m \in Meters : come[m] \in MeterTick(m, meters[m], now, silence)

LEMMA RoundIs ==
  ASSUME Round
  PROVE  \E silence \in Silences : \E come :
           /\ Ticks(come, silence) /\ now <= LastRound
           /\ meters' = [m \in Meters |-> come[m].state]
           /\ outbox' = outbox \o SentBy(come) \o Messages(Due(now))
           /\ late' = FoldLeft(Hold, At(late, DOMAIN late \ DueAt(now)), HeldBy(come))
           /\ lost' = lost \cup {TheMessage(m, now, "forgotten") :
                                   m \in {m \in Meters : come[m].forgotten}}
           /\ measured' = measured \cup {now} /\ now' = now + 1 /\ topic' = topic
<1>1. PICK silence \in Silences :
        \E come \in [Meters -> UNION {MeterTick(m, meters[m], now, silence) : m \in Meters}] :
          /\ \A m \in Meters : come[m] \in MeterTick(m, meters[m], now, silence)
          /\ meters' = [m \in Meters |-> come[m].state]
          /\ outbox' = outbox \o FlattenSeq([m \in Meters |-> come[m].sent])
                              \o Messages(Due(now))
          /\ late' = FoldLeft(Hold, At(late, DOMAIN late \ DueAt(now)),
                              FlattenSeq([m \in Meters |-> come[m].held]))
          /\ lost' = lost \cup {TheMessage(m, now, "forgotten") :
                                  m \in {m \in Meters : come[m].forgotten}}
  BY Zenon DEF Round
<1> QED
  BY <1>1, Zenon DEF Round, Ticks, SentBy, HeldBy

LEMMA SentHeldType ==
  ASSUME MetersTypeOK, NEW silence \in Silences, NEW come, Ticks(come, silence),
         now <= LastRound
  PROVE  /\ now \in Rounds
         /\ [m \in Meters |-> come[m].sent] \in Seq(Seq(Made))
         /\ [m \in Meters |-> come[m].held] \in Seq(Seq(LateOnes))
         /\ SentBy(come) \in Seq(Made) /\ HeldBy(come) \in Seq(LateOnes)
         /\ Len([m \in Meters |-> come[m].sent]) = NumMeters
         /\ Len([m \in Meters |-> come[m].held]) = NumMeters
         /\ \A m \in Meters : come[m].state \in MeterStates
<1>1. now \in Rounds
  BY RoundsAssumption DEF MetersTypeOK, Rounds
<1>2. ASSUME NEW m \in Meters
      PROVE  /\ come[m].state \in MeterStates /\ come[m].sent \in Seq(Made)
             /\ come[m].held \in Seq(LateOnes)
  <2>1. meters[m] \in MeterStates /\ come[m] \in MeterTick(m, meters[m], now, silence)
    BY DEF MetersTypeOK, Ticks
  <2>2. come[m].state \in MeterStates /\ come[m].sent \in Seq(Mine(m))
    BY <1>1, <2>1, TickType
  <2>3. come[m].held \in Seq(LateOnes)
    BY <1>1, <2>1, HeldIs
  <2>4. Mine(m) \subseteq Made
    BY MineIs
  <2> QED
    BY <2>2, <2>3, <2>4
<1>3. [m \in Meters |-> come[m].sent] \in [1..NumMeters -> Seq(Made)]
  BY <1>2 DEF Meters
<1>4. [m \in Meters |-> come[m].held] \in [1..NumMeters -> Seq(LateOnes)]
  BY <1>2 DEF Meters
<1>5. NumMeters \in Nat
  BY RoundsAssumption
<1>6. /\ [m \in Meters |-> come[m].sent] \in Seq(Seq(Made))
      /\ Len([m \in Meters |-> come[m].sent]) = NumMeters
  BY <1>3, <1>5
<1>7. /\ [m \in Meters |-> come[m].held] \in Seq(Seq(LateOnes))
      /\ Len([m \in Meters |-> come[m].held]) = NumMeters
  BY <1>4, <1>5
<1>8. SentBy(come) \in Seq(Made) /\ HeldBy(come) \in Seq(LateOnes)
  BY <1>6, <1>7, FlattenInOrder DEF SentBy, HeldBy
<1> QED
  BY <1>1, <1>2, <1>6, <1>7, <1>8

LEMMA DueType ==
  ASSUME MetersTypeOK
  PROVE  /\ DueAt(now) \in SUBSET DOMAIN late
         /\ Due(now) \in Seq(LateOnes)
         /\ At(late, DOMAIN late \ DueAt(now)) \in Seq(LateOnes)
         /\ Messages(Due(now)) \in Seq(Made)
         /\ \A S : S \in Seq(LateOnes) => S \in Seq(Held(Made))
<1>1. late \in Seq(LateOnes) /\ LateOnes \subseteq Held(Made)
  BY DEF MetersTypeOK, LateOnes
<1>2. DueAt(now) \in SUBSET DOMAIN late /\ DOMAIN late \ DueAt(now) \in SUBSET DOMAIN late
  BY DEF DueAt
<1>3. Due(now) \in Seq(LateOnes) /\ At(late, DOMAIN late \ DueAt(now)) \in Seq(LateOnes)
  BY <1>1, <1>2, AtIs DEF Due
<1>4. \A S : S \in Seq(LateOnes) => S \in Seq(Held(Made))
  BY <1>1
<1>5. Messages(Due(now)) \in Seq(Made)
  BY <1>3, <1>4, MessagesType
<1> QED
  BY <1>2, <1>3, <1>4, <1>5

LEMMA MetersTypeInit == MeterInit => MetersTypeOK
<1> SUFFICES ASSUME MeterInit PROVE MetersTypeOK
  OBVIOUS
<1>1. Online \in MeterStates
  BY DEF Online, MeterStates, NoOutage
<1>2. /\ <<>> \in Seq(LateOnes) /\ <<>> \in Seq(Made) /\ <<>> \in Seq(Made \cup Strays)
      /\ IsFiniteSet({})
  BY FS_EmptySet
<1> QED
  BY <1>1, <1>2 DEF MeterInit, MetersTypeOK

LEMMA RoundType == MetersTypeOK /\ Round => MetersTypeOK'
<1> SUFFICES ASSUME MetersTypeOK, Round PROVE MetersTypeOK'
  OBVIOUS
<1>1. PICK silence \in Silences :
        \E come :
           /\ Ticks(come, silence) /\ now <= LastRound
           /\ meters' = [m \in Meters |-> come[m].state]
           /\ outbox' = outbox \o SentBy(come) \o Messages(Due(now))
           /\ late' = FoldLeft(Hold, At(late, DOMAIN late \ DueAt(now)), HeldBy(come))
           /\ lost' = lost \cup {TheMessage(m, now, "forgotten") :
                                   m \in {m \in Meters : come[m].forgotten}}
           /\ measured' = measured \cup {now} /\ now' = now + 1 /\ topic' = topic
  BY RoundIs
<1>2. PICK come :
           /\ Ticks(come, silence) /\ now <= LastRound
           /\ meters' = [m \in Meters |-> come[m].state]
           /\ outbox' = outbox \o SentBy(come) \o Messages(Due(now))
           /\ late' = FoldLeft(Hold, At(late, DOMAIN late \ DueAt(now)), HeldBy(come))
           /\ lost' = lost \cup {TheMessage(m, now, "forgotten") :
                                   m \in {m \in Meters : come[m].forgotten}}
           /\ measured' = measured \cup {now} /\ now' = now + 1 /\ topic' = topic
  BY <1>1
<1>3. /\ now \in Rounds /\ SentBy(come) \in Seq(Made) /\ HeldBy(come) \in Seq(LateOnes)
      /\ \A m \in Meters : come[m].state \in MeterStates
  BY <1>2, SentHeldType
<1>4. /\ At(late, DOMAIN late \ DueAt(now)) \in Seq(LateOnes)
      /\ Messages(Due(now)) \in Seq(Made)
  BY DueType
<1>5. now' \in Nat /\ measured' \subseteq Rounds
  BY <1>2, <1>3 DEF MetersTypeOK
<1>6. meters' \in [Meters -> MeterStates]
  BY <1>2, <1>3
<1>7. late' \in Seq(LateOnes)
  BY <1>2, <1>3, <1>4, HoldAll
<1>8. outbox' \in Seq(Made)
  <2>1. outbox \in Seq(Made)
    BY DEF MetersTypeOK
  <2> QED
    BY <1>2, <1>3, <1>4, <2>1
<1>9. topic' \in Seq(Made \cup Strays)
  BY <1>2 DEF MetersTypeOK
<1>10. lost' \subseteq Made /\ IsFiniteSet(lost')
  <2> DEFINE M == {m \in Meters : come[m].forgotten}
             f == [m \in M |-> TheMessage(m, now, "forgotten")]
  <2>1. IsFiniteSet(M)
    <3>1. IsFiniteSet(1..NumMeters)
      BY RoundsAssumption, FS_Interval
    <3> QED
      BY <3>1, FS_Subset DEF Meters
  <2>2. IsFiniteSet({f[m] : m \in M})
    <3> HIDE DEF M
    <3>1. DOMAIN f = M
      OBVIOUS
    <3> HIDE DEF f
    <3> QED
      BY <2>1, <3>1, ImageFinite
  <2>3. {f[m] : m \in M} = {TheMessage(m, now, "forgotten") : m \in M}
    OBVIOUS
  <2>4. \A m \in M : TheMessage(m, now, "forgotten") \in Made
    BY <1>3, MineIs, PlainLabels
  <2>5. lost \subseteq Made /\ IsFiniteSet(lost)
    BY DEF MetersTypeOK
  <2> HIDE DEF M, f
  <2> QED
    BY <1>2, <2>2, <2>3, <2>4, <2>5, FS_Union DEF M
<1> QED
  BY <1>5, <1>6, <1>7, <1>8, <1>9, <1>10 DEF MetersTypeOK

LEMMA MetersTypeStep == MetersTypeOK /\ MeterNext => MetersTypeOK'
<1> SUFFICES ASSUME MetersTypeOK, MeterNext PROVE MetersTypeOK'
  OBVIOUS
<1>1. CASE Round
  BY <1>1, RoundType
<1>2. CASE FallsBehind \/ IsDown
  BY <1>2 DEF FallsBehind, IsDown, RoundPasses, MetersTypeOK
<1>3. ASSUME outbox # <<>> PROVE Head(outbox) \in Made /\ Tail(outbox) \in Seq(Made)
  BY <1>3 DEF MetersTypeOK
<1>4. CASE Send
  <2>1. topic \in Seq(Made \cup Strays) /\ Head(outbox) \in Made \cup Strays
    BY <1>3, <1>4 DEF Send, MetersTypeOK
  <2>2. Append(topic, Head(outbox)) \in Seq(Made \cup Strays)
    BY <2>1
  <2> QED
    BY <1>3, <1>4, <2>2 DEF Send, MetersTypeOK
<1>5. CASE DeliveryFails
  <2>1. IsFiniteSet(lost \cup {Head(outbox)})
    BY FS_AddElement DEF MetersTypeOK
  <2> QED
    BY <1>3, <1>5, <2>1 DEF DeliveryFails, MetersTypeOK
<1>6. CASE Stop
  <2>1. Online \in MeterStates
    BY DEF Online, MeterStates, NoOutage
  <2>2. IsFiniteSet(ToSet(outbox)) /\ ToSet(outbox) \subseteq Made
    BY ToSetIs DEF MetersTypeOK
  <2>3. Messages(late) \in Seq(Made)
    BY DueType, MessagesType DEF MetersTypeOK
  <2>4. IsFiniteSet(ToSet(Messages(late))) /\ ToSet(Messages(late)) \subseteq Made
    BY <2>3, ToSetIs
  <2> DEFINE f == [m \in Meters |-> ToSet(Owed(m, meters[m]))]
             U == UNION {ToSet(Owed(m, meters[m])) : m \in Meters}
  <2>5. ASSUME NEW m \in Meters PROVE IsFiniteSet(f[m]) /\ f[m] \subseteq Made
    <3>1. meters[m] \in MeterStates
      BY DEF MetersTypeOK
    <3>2. Owed(m, meters[m]) \in Seq(Mine(m)) /\ Mine(m) \subseteq Made
      BY <3>1, OwedIs, MineIs
    <3>3. IsFiniteSet(ToSet(Owed(m, meters[m]))) /\ ToSet(Owed(m, meters[m])) \subseteq Mine(m)
      BY <3>2, ToSetIs
    <3> QED
      BY <3>2, <3>3
  <2>6. IsFiniteSet({f[m] : m \in Meters})
    <3>1. IsFiniteSet(Meters)
      BY RoundsAssumption, FS_Interval DEF Meters
    <3>2. DOMAIN f = Meters
      OBVIOUS
    <3> HIDE DEF f
    <3> QED
      BY <3>1, <3>2, ImageFinite
  <2>7. U = UNION {f[m] : m \in Meters}
    OBVIOUS
  <2> HIDE DEF f
  <2>8. IsFiniteSet(U) /\ U \subseteq Made
    <3> HIDE DEF U
    <3>1. \A T \in {f[m] : m \in Meters} : IsFiniteSet(T)
      BY <2>5
    <3>2. IsFiniteSet(UNION {f[m] : m \in Meters})
      BY <2>6, <3>1, FS_UNION
    <3> QED
      BY <2>5, <2>7, <3>2
  <2> HIDE DEF U
  <2>9. lost' = lost \cup ToSet(outbox) \cup ToSet(Messages(late)) \cup U
    BY <1>6 DEF Stop, U
  <2>10. lost \subseteq Made /\ IsFiniteSet(lost)
    BY DEF MetersTypeOK
  <2>11. lost' \subseteq Made /\ IsFiniteSet(lost')
    BY <2>2, <2>4, <2>8, <2>9, <2>10, FS_Union
  <2>12. meters' \in [Meters -> MeterStates] /\ late' = <<>> /\ outbox' = <<>>
         /\ now' = now /\ topic' = topic /\ measured' = measured
    BY <1>6, <2>1 DEF Stop
  <2> QED
    BY <2>11, <2>12 DEF MetersTypeOK
<1>7. CASE Start
  BY <1>7 DEF Start, MetersTypeOK
<1> QED
  BY <1>1, <1>2, <1>4, <1>5, <1>6, <1>7 DEF MeterNext

\* The topic only grows.
TopicGrows ==
  /\ Len(topic) <= Len(topic')
  /\ \A o \in 1..Len(topic) : o \in DOMAIN topic' /\ topic'[o] = topic[o]

LEMMA TypeInit == Init => TypeOK
<1> SUFFICES ASSUME Init PROVE TypeOK
  OBVIOUS
<1>1. MetersTypeOK
  BY MetersTypeInit DEF Init
<1>2. ingested = 0 /\ topic = <<>>
  BY DEF Init, MeterInit
<1> QED
  BY <1>1, <1>2 DEF TypeOK

LEMMA TypeStep == TypeOK /\ [Next]_vars => TypeOK' /\ TopicGrows
<1> SUFFICES ASSUME TypeOK, [Next]_vars PROVE TypeOK' /\ TopicGrows
  OBVIOUS
<1>0. /\ MetersTypeOK /\ topic \in Seq(Made \cup Strays) /\ Len(topic) \in Nat
      /\ DOMAIN topic = 1..Len(topic) /\ ingested \in 0..Len(topic)
  BY DEF TypeOK, MetersTypeOK
<1>a. ASSUME topic' = topic, ingested' = ingested, MetersTypeOK'
      PROVE  TypeOK' /\ TopicGrows
  BY <1>0, <1>a DEF TypeOK, TopicGrows
<1>b. ASSUME NEW x \in Made \cup Strays, topic' = Append(topic, x), ingested' = ingested,
             MetersTypeOK'
      PROVE  TypeOK' /\ TopicGrows
  <2>1. /\ Len(topic') = Len(topic) + 1 /\ DOMAIN topic' = 1..(Len(topic) + 1)
        /\ \A o \in 1..Len(topic) : topic'[o] = topic[o]
    BY <1>0, <1>b
  <2> QED
    BY <1>0, <1>b, <2>1 DEF TypeOK, TopicGrows
<1>1. CASE Meter
  <2>1. MetersTypeOK' /\ ingested' = ingested
    BY <1>0, <1>1, MetersTypeStep DEF Meter
  <2>2. CASE Send
    <3>1. outbox # <<>> /\ outbox \in Seq(Made) /\ topic' = Append(topic, Head(outbox))
      BY <1>0, <2>2 DEF Send, MetersTypeOK
    <3>2. Head(outbox) \in Made
      BY <3>1
    <3> QED
      BY <1>b, <2>1, <3>1, <3>2
  <2>3. CASE ~Send
    <3>1. topic' = topic
      <4>1. CASE Round
        BY <4>1 DEF Round
      <4> QED
        BY <1>1, <2>3, <4>1 DEF Meter, MeterNext, FallsBehind, IsDown, RoundPasses, DeliveryFails,
                        Stop, Start
    <3> QED
      BY <1>a, <2>1, <3>1
  <2> QED
    BY <2>2, <2>3
<1>2. CASE SendStrange
  <2>1. PICK b \in Strange : topic' = Append(topic, Message(0, LongAgo, "strange", b))
    BY <1>2 DEF SendStrange
  <2>2. Message(0, LongAgo, "strange", b) \in Strays
    BY DEF Strays
  <2>3. topic' \in Seq(Made \cup Strays)
    BY <1>0, <2>1, <2>2
  <2>4. MetersTypeOK' /\ ingested' = ingested
    BY <1>0, <1>2, <2>3 DEF SendStrange, MetersTypeOK
  <2> QED
    BY <1>b, <2>1, <2>2, <2>4
<1>3. CASE Ingest
  <2>1. simulator' = simulator
    BY <1>3 DEF Ingest
  <2>2. MetersTypeOK' /\ topic' = topic
    BY <1>0, <2>1 DEF simulator, MetersTypeOK
  <2>3. ingested' \in 0..Len(topic)
    <3>1. PICK upTo \in (ingested + 1)..Least(Len(topic), ingested + MaxOffsets) :
            ingested' = ingested \/ ingested' = upTo
      BY <1>3, Zenon DEF Ingest
    <3>2. upTo \in 0..Len(topic)
      BY <1>0, TopicAssumption DEF Least
    <3> QED
      BY <1>0, <3>1, <3>2
  <2> QED
    BY <1>0, <2>2, <2>3 DEF TypeOK, TopicGrows
<1>4. CASE Publish \/ Revise \/ Settle \/ UNCHANGED vars
  <2>1. simulator' = simulator /\ ingested' = ingested
    <3>1. CASE Publish
      BY <3>1 DEF Publish
    <3>2. CASE Revise
      BY <3>2 DEF Revise
    <3>3. CASE Settle
      BY <3>3 DEF Settle
    <3>4. CASE UNCHANGED vars
      BY <3>4 DEF vars
    <3> QED
      BY <1>4, <3>1, <3>2, <3>3, <3>4
  <2>2. MetersTypeOK' /\ topic' = topic
    BY <1>0, <2>1 DEF simulator, MetersTypeOK
  <2> QED
    BY <1>a, <2>1, <2>2
<1> QED
  BY <1>1, <1>2, <1>3, <1>4 DEF Next

-----------------------------------------------------------------------------
(* What the ingest query decides.                                          *)

Judged ==
  /\ archive = {o \in 1..ingested : Reason(o) = "none"}
  /\ dead = 1..ingested \ archive
  /\ \A o \in 1..ingested : ~HasNoVerdict(topic[o].body)
  /\ poisoned => \E o \in (ingested + 1)..(ingested + MaxOffsets) :
                   o \in DOMAIN topic /\ HasNoVerdict(topic[o].body)

\* Every message of a meter has a verdict.
LEMMA MadeHasVerdict == ASSUME NEW x \in Made PROVE ~HasNoVerdict(x.body)
<1> DEFINE mild == {"valid", "absent", "text", "low", "high"}
<1>1. PICK m \in Meters, t \in Rounds, f \in Labels : x \in Build(m, t, f)
  BY DEF Made, Mine
<1>2. ASSUME NEW body, Readable(body),
             \A i \in DOMAIN MeterReadingFields :
               ClassOf(body, MeterReadingFields[i].name) \in mild
      PROVE  ~HasNoVerdict(body)
  BY <1>2 DEF HasNoVerdict
<1>3. ASSUME NEW damage, "raw_value" \notin DOMAIN damage,
             \A name \in DOMAIN damage : damage[name] \in mild
      PROVE  ~HasNoVerdict(WithFirmware(m, Body(damage)))
  <2>1. Readable(WithFirmware(m, Body(damage)))
    BY <1>3 DEF Readable, WithFirmware, Body
  <2>2. \A name : ClassOf(WithFirmware(m, Body(damage)), name) \in mild
    BY <1>3, FirmwareClass
  <2> QED
    BY <1>2, <2>1, <2>2
<1>4. ~HasNoVerdict(Untouched(m))
  BY <1>3 DEF Untouched, Clean
<1>5. ASSUME NEW field \in Names, NEW class \in mild
      PROVE  ~HasNoVerdict(WithFirmware(m, Damaged(field, class)))
  <2> DEFINE damage == [x_1 \in {field} |-> class]
  <2>1. /\ "raw_value" \notin DOMAIN damage
        /\ \A name \in DOMAIN damage : damage[name] \in mild
    BY DEF Names
  <2> HIDE DEF damage
  <2>2. ~HasNoVerdict(WithFirmware(m, Body(damage)))
    BY <1>3, <2>1
  <2> QED
    BY <2>2 DEF Damaged, damage
<1>6. ~HasNoVerdict(WithFirmware(m, NotJson))
  <2>1. WithFirmware(m, NotJson) = NotJson
    BY DEF WithFirmware, NotJson
  <2>2. Readable(NotJson) /\ \A name : ClassOf(NotJson, name) = "absent"
    BY DEF Readable, NotJson, ClassOf
  <2> QED
    BY <1>2, <2>1, <2>2
<1>7. CASE x.body = Untouched(m)
  BY <1>4, <1>7
<1>8. ASSUME f \in Damages, NEW b \in Corrupted(f), x.body = WithFirmware(m, b)
      PROVE  ~HasNoVerdict(x.body)
  <2>1. Dropped \subseteq Names /\ {"power_consumption_kwh", "household_id"} \subseteq Names
    BY FaultsAssumption DEF Droppable, Names
  <2>2. b = NotJson \/ \E field \in Names, class \in mild : b = Damaged(field, class)
    BY <1>8, <2>1, FaultsAssumption DEF Corrupted, ContentFaults
  <2> QED
    BY <1>5, <1>6, <1>8, <2>2
<1> QED
  <2>1. CASE f \in Damages
    <3>1. x.body \in {WithFirmware(m, b) : b \in Corrupted(f)}
      BY <1>1, <2>1 DEF Build, Message
    <3> QED
      BY <1>8, <2>1, <3>1
  <2>2. CASE f \notin Damages
    BY <1>1, <1>7, <2>2 DEF Build, Message
  <2> QED
    BY <2>1, <2>2

LEMMA BodiesAre ==
  ASSUME TypeOK, NEW o \in 1..Len(topic)
  PROVE  /\ IsBody(topic[o].body)
         /\ topic[o].fault # "strange" =>
              ~HasNoVerdict(topic[o].body) /\ Reason(o) = ExpectedQuarantine(topic[o].fault)
<1>1. topic[o] \in Made \cup Strays
  BY DEF TypeOK, MetersTypeOK
<1>2. CASE topic[o] \in Made
  BY <1>2, MadeVerdict, MadeHasVerdict DEF Reason
<1>3. CASE topic[o] \in Strays
  <2>1. PICK b \in Strange : topic[o] = Message(0, LongAgo, "strange", b)
    BY <1>3 DEF Strays
  <2>2. b.json \in BOOLEAN
    BY TopicAssumption
  <2> QED
    BY <2>1, <2>2 DEF Message, IsBody
<1> QED
  BY <1>1, <1>2, <1>3

\* A batch raises exactly if one of its messages has no verdict.
LEMMA RaisesWithoutVerdict ==
  ASSUME NEW batch
  PROVE  /\ FrameRaises(batch, MeterReadingFields)
              <=> \E r \in DOMAIN batch : HasNoVerdict(batch[r])
         /\ \A r \in DOMAIN batch :
              ~HasNoVerdict(batch[r]) => NothingRaises(batch[r], MeterReadingFields)
<1>1. DOMAIN MeterReadingFields = 1..Len(MeterReadingFields)
  BY SchemaType
<1> QED
  BY <1>1 DEF FrameRaises, NothingRaises, HasNoVerdict, Raises, Inconvertible

LEMMA JudgedStep == TypeOK /\ Judged /\ [Next]_vars => Judged'
<1> SUFFICES ASSUME TypeOK, Judged, [Next]_vars PROVE Judged'
  OBVIOUS
<1>0. /\ topic \in Seq(Made \cup Strays) /\ Len(topic) \in Nat
      /\ DOMAIN topic = 1..Len(topic) /\ ingested \in 0..Len(topic) /\ MaxOffsets \in Nat
  BY TopicAssumption DEF TypeOK, MetersTypeOK
<1>1. CASE Ingest
  <2>1. simulator' = simulator /\ ~poisoned
    BY <1>1 DEF Ingest
  <2>2. topic' = topic
    BY <2>1 DEF simulator
  <2>3. PICK upTo \in (ingested + 1)..Least(Len(topic), ingested + MaxOffsets) :
          LET batch    == Bodies((ingested + 1)..upTo)
              verdicts == FrameVerdicts(batch, MeterReadingFields)
              valid    == {o \in DOMAIN batch : verdicts[o] = "none"}
          IN IF FrameRaises(batch, MeterReadingFields)
             THEN poisoned' = TRUE /\ UNCHANGED <<ingested, archive, dead>>
             ELSE /\ archive' = archive \cup valid
                  /\ dead' = dead \cup (DOMAIN batch \ valid)
                  /\ ingested' = upTo
                  /\ UNCHANGED poisoned
    BY <1>1, Zenon DEF Ingest
  <2> DEFINE new == (ingested + 1)..upTo
             batch == Bodies(new)
             valid == {o \in DOMAIN batch : FrameVerdicts(batch, MeterReadingFields)[o] = "none"}
  <2>4. /\ upTo \in 0..Len(topic) /\ upTo <= ingested + MaxOffsets /\ ingested < upTo
        /\ new \subseteq 1..Len(topic)
    BY <1>0 DEF Least
  <2>5. DOMAIN batch = new /\ \A o \in new : batch[o] = topic[o].body
    BY DEF Bodies
  <2>6. CASE FrameRaises(batch, MeterReadingFields)
    <3>1. poisoned' = TRUE /\ UNCHANGED <<ingested, archive, dead>>
      BY <2>3, <2>6, Zenon
    <3>2. PICK o \in new : HasNoVerdict(batch[o])
      BY <2>5, <2>6, RaisesWithoutVerdict
    <3>3. HasNoVerdict(topic[o].body)
      BY <2>5, <3>2
    <3>4. o \in (ingested + 1)..(ingested + MaxOffsets) /\ o \in DOMAIN topic
      BY <1>0, <2>4
    <3> HIDE DEF batch, new
    <3>5. archive' = {o_1 \in 1..ingested' : Reason(o_1)' = "none"}
      BY <2>2, <3>1 DEF Judged, Reason
    <3> QED
      BY <2>2, <3>1, <3>3, <3>4, <3>5 DEF Judged
  <2>7. CASE ~FrameRaises(batch, MeterReadingFields)
    <3>1. /\ archive' = archive \cup valid /\ dead' = dead \cup (DOMAIN batch \ valid)
          /\ ingested' = upTo /\ poisoned' = poisoned
      BY <2>3, <2>7, Zenon
    <3>2. ASSUME NEW o \in new
          PROVE  /\ ~HasNoVerdict(topic[o].body)
                 /\ FrameVerdicts(batch, MeterReadingFields)[o] = Reason(o)
      <4>1. ~HasNoVerdict(batch[o])
        BY <2>5, <2>7, RaisesWithoutVerdict
      <4>2. IsBody(topic[o].body)
        BY <2>4, BodiesAre
      <4>3. NothingRaises(batch[o], MeterReadingFields) /\ IsBody(batch[o]) /\ o \in DOMAIN batch
        BY <2>5, <4>1, <4>2, RaisesWithoutVerdict
      <4> HIDE DEF batch
      <4>4. FrameVerdicts(batch, MeterReadingFields)[o]
              = RowVerdict(batch[o], MeterReadingFields, TRUE)
        BY <4>3, SchemaType, VerdictsAgree
      <4> QED
        BY <2>5, <4>1, <4>4 DEF Reason
    <3>3. valid = {o \in new : Reason(o) = "none"}
      BY <2>5, <3>2
    <3> HIDE DEF valid, batch
    <3>4. 1..upTo = (1..ingested) \cup new /\ (1..ingested) \cap new = {}
      BY <1>0, <2>4
    <3>5. archive' = {o \in 1..upTo : Reason(o) = "none"}
      BY <3>1, <3>3, <3>4 DEF Judged
    <3>6. dead' = 1..upTo \ archive'
      BY <2>5, <3>1, <3>3, <3>4 DEF Judged
    <3>7. \A o \in 1..upTo : ~HasNoVerdict(topic[o].body)
      BY <3>2, <3>4 DEF Judged
    <3> QED
      BY <2>1, <2>2, <3>1, <3>5, <3>6, <3>7 DEF Judged, Reason
  <2> QED
    BY <2>6, <2>7
<1>2. CASE ~Ingest
  <2>1. UNCHANGED <<ingested, archive, dead, poisoned>>
    <3>1. CASE Meter
      BY <3>1 DEF Meter
    <3>2. CASE SendStrange
      BY <3>2 DEF SendStrange
    <3>3. CASE Publish
      BY <3>3 DEF Publish
    <3>4. CASE Revise
      BY <3>4 DEF Revise
    <3>5. CASE Settle
      BY <3>5 DEF Settle
    <3>6. CASE UNCHANGED vars
      BY <3>6 DEF vars
    <3> QED
      BY <1>2, <3>1, <3>2, <3>3, <3>4, <3>5, <3>6 DEF Next
  <2>2. \A o \in 1..Len(topic) : o \in DOMAIN topic' /\ topic'[o] = topic[o]
    BY TypeStep DEF TopicGrows
  <2>3. \A o \in 1..ingested : Reason(o)' = Reason(o)
    <3> TAKE o \in 1..ingested
    <3>1. topic[o] = topic'[o]
      BY <1>0, <2>2
    <3> QED
      BY <3>1 DEF Reason
  <2>4. archive' = {o \in 1..ingested' : Reason(o)' = "none"}
    BY <2>1, <2>3 DEF Judged
  <2>6. \A o \in 1..ingested : ~HasNoVerdict(topic'[o].body)
    BY <1>0, <2>2 DEF Judged
  <2>5. poisoned' => \E o \in (ingested + 1)..(ingested + MaxOffsets) :
                       o \in DOMAIN topic' /\ HasNoVerdict(topic'[o].body)
    <3> SUFFICES ASSUME poisoned
                 PROVE  \E o \in (ingested + 1)..(ingested + MaxOffsets) :
                          o \in DOMAIN topic' /\ HasNoVerdict(topic'[o].body)
      BY <2>1
    <3>1. PICK o \in (ingested + 1)..(ingested + MaxOffsets) :
            o \in DOMAIN topic /\ HasNoVerdict(topic[o].body)
      BY DEF Judged
    <3> QED
      BY <1>0, <2>2, <3>1
  <2> QED
    BY <2>1, <2>4, <2>5, <2>6 DEF Judged
<1> QED
  BY <1>1, <1>2

\* The validation of each message is decided by itself, as a record at a time would.
LEMMA LastIsJudged ==
  ASSUME TypeOK, topic # <<>>
  PROVE  /\ ~HasNoVerdict(Last(topic).body) =>
              FrameVerdicts(<<Last(topic).body>>, MeterReadingFields)[1] = Reason(Len(topic))
         /\ Last(topic).fault # "strange" =>
              /\ ~HasNoVerdict(Last(topic).body)
              /\ Reason(Len(topic)) = ExpectedQuarantine(Last(topic).fault)
<1>1. Len(topic) \in 1..Len(topic) /\ Last(topic) = topic[Len(topic)]
  BY DEF TypeOK, MetersTypeOK, Last
<1>2. IsBody(Last(topic).body)
      /\ (Last(topic).fault # "strange" =>
            /\ ~HasNoVerdict(Last(topic).body)
            /\ Reason(Len(topic)) = ExpectedQuarantine(Last(topic).fault))
  BY <1>1, BodiesAre
<1>3. ASSUME ~HasNoVerdict(Last(topic).body)
      PROVE  FrameVerdicts(<<Last(topic).body>>, MeterReadingFields)[1] = Reason(Len(topic))
  <2> DEFINE batch == <<Last(topic).body>>
  <2>1. 1 \in DOMAIN batch /\ batch[1] = Last(topic).body
    OBVIOUS
  <2>2. IsBody(batch[1]) /\ NothingRaises(batch[1], MeterReadingFields)
    BY <1>2, <1>3, <2>1, RaisesWithoutVerdict
  <2> HIDE DEF batch
  <2>3. FrameVerdicts(batch, MeterReadingFields)[1]
          = RowVerdict(batch[1], MeterReadingFields, TRUE)
    BY <2>1, <2>2, SchemaType, VerdictsAgree
  <2>4. FrameVerdicts(batch, MeterReadingFields)[1] = Reason(Len(topic))
    BY <1>1, <2>1, <2>3 DEF Reason
  <2> QED
    BY <2>4 DEF batch
<1> QED
  BY <1>2, <1>3

\* Where the ingest query decides, it decides as validate_record does, whatever
\* shares a batch with a reading; a message nested too deep, with a number no
\* float holds or with half a surrogate pair it never gets past, nothing else
\* stops it, and no meter sends such a message (validate_json_frame and
\* mapInPandas against validate_record).
THEOREM ValidatorsDecideAlike == Spec => []ValidatorsAgree
<1>1. Init => TypeOK /\ Judged
  <2> SUFFICES ASSUME Init PROVE TypeOK /\ Judged
    OBVIOUS
  <2>1. ingested = 0 /\ archive = {} /\ dead = {} /\ poisoned = FALSE
    BY DEF Init
  <2> QED
    BY <2>1, TypeInit DEF Judged
<1>2. TypeOK /\ Judged /\ [Next]_vars => (TypeOK /\ Judged)'
  BY TypeStep, JudgedStep
<1>3. TypeOK /\ Judged => ValidatorsAgree
  <2> SUFFICES ASSUME TypeOK, Judged PROVE ValidatorsAgree
    OBVIOUS
  <2>1. topic # <<>> =>
          LET body == Last(topic).body IN
          /\ ~HasNoVerdict(body) =>
               FrameVerdicts(<<body>>, MeterReadingFields)[1] = Reason(Len(topic))
          /\ Last(topic).fault # "strange" =>
               /\ ~HasNoVerdict(body)
               /\ Reason(Len(topic)) = ExpectedQuarantine(Last(topic).fault)
    BY LastIsJudged, Zenon
  <2> QED
    BY <2>1, Zenon DEF ValidatorsAgree, Judged
<1> QED
  BY <1>1, <1>2, <1>3, PTL DEF Spec

-----------------------------------------------------------------------------
(* Every reading is in one place.                                          *)

\* Where interval u of meter m is, as Placed says it, by counting.
Places(m, u) ==
  CountIn(topic, About(m, u)) + CountIn(outbox, About(m, u))
  + CountIn(late, HeldAbout(m, u)) + CountIn(meters[m].missed, {u})
  + Cardinality(lost \cap About(m, u))

Accounted ==
  /\ \A u \in measured : u < now
  /\ \A m \in Meters, u \in Rounds : Places(m, u) = IF u \in measured THEN 1 ELSE 0

LEMMA CountMessages ==
  ASSUME NEW held \in Seq(LateOnes), NEW m, NEW u
  PROVE  CountIn(Messages(held), About(m, u)) = CountIn(held, HeldAbout(m, u))
<1>1. LateOnes \subseteq Held(Made)
  BY DEF LateOnes
<1>2. /\ DOMAIN held = 1..Len(held) /\ \A i \in DOMAIN held : held[i] \in Held(Made)
      /\ held \in Seq(Held(Made))
  BY <1>1
<1>3. /\ DOMAIN Messages(held) = DOMAIN held
      /\ \A i \in DOMAIN held : Messages(held)[i] = held[i].message
  BY DEF Messages
<1>4. {i \in DOMAIN Messages(held) : Messages(held)[i] \in About(m, u)}
        = {i \in DOMAIN held : held[i] \in HeldAbout(m, u)}
  BY <1>2, <1>3 DEF HeldAbout
<1> QED
  BY <1>4 DEF CountIn

\* Each of the counts, and that another meter's messages are about nothing of m.
LEMMA PlacesType ==
  ASSUME MetersTypeOK, NEW m \in Meters, NEW u
  PROVE  /\ CountIn(topic, About(m, u)) \in Nat /\ CountIn(outbox, About(m, u)) \in Nat
         /\ CountIn(late, HeldAbout(m, u)) \in Nat
         /\ CountIn(meters[m].missed, {u}) \in Nat
         /\ IsFiniteSet(lost \cap About(m, u)) /\ Cardinality(lost \cap About(m, u)) \in Nat
<1>1. CountIn(topic, About(m, u)) \in Nat /\ CountIn(outbox, About(m, u)) \in Nat
  BY CountInType DEF MetersTypeOK
<1>2. CountIn(late, HeldAbout(m, u)) \in Nat
  BY CountInType DEF MetersTypeOK
<1>3. meters[m].missed \in Seq(Rounds)
  BY DEF MetersTypeOK, MeterStates
<1>4. CountIn(meters[m].missed, {u}) \in Nat
  BY <1>3, CountInType
<1>5. IsFiniteSet(lost \cap About(m, u))
  BY FS_Subset DEF MetersTypeOK
<1> QED
  BY <1>1, <1>2, <1>4, <1>5, FS_CardinalityType

LEMMA PlacedIs ==
  ASSUME MetersTypeOK, NEW m \in Meters, NEW u \in Rounds
  PROVE  Placed(m, u) = Places(m, u)
<1> DEFINE about(s) == Cardinality({i \in DOMAIN s : /\ s[i].meter = m /\ s[i].time = u
                                                     /\ s[i].fault # "duplicate"})
<1>1. ASSUME NEW s \in Seq(Made \cup Strays)
      PROVE  about(s) = CountIn(s, About(m, u))
  <2>1. ASSUME NEW i \in DOMAIN s
        PROVE  s[i] \in About(m, u) <=>
                 s[i].meter = m /\ s[i].time = u /\ s[i].fault # "duplicate"
    <3>1. s[i] \in Made \cup Strays
      OBVIOUS
    <3>2. CASE s[i] \in Made
      BY <3>2 DEF About
    <3>3. CASE s[i] \in Strays
      <4>1. s[i].meter = 0
        BY <3>3 DEF Strays, Message
      <4>2. m # 0
        BY RoundsAssumption DEF Meters
      <4> QED
        BY <4>1, <4>2 DEF About
    <3> QED
      BY <3>1, <3>2, <3>3
  <2>2. {i \in DOMAIN s : s[i].meter = m /\ s[i].time = u /\ s[i].fault # "duplicate"}
          = {i \in DOMAIN s : s[i] \in About(m, u)}
    BY <2>1
  <2> QED
    BY <2>2 DEF CountIn
<1>2. /\ topic \in Seq(Made \cup Strays) /\ outbox \in Seq(Made \cup Strays)
      /\ Messages(late) \in Seq(Made \cup Strays)
  <2>1. late \in Seq(Held(Made))
    BY DueType DEF MetersTypeOK
  <2>2. outbox \in Seq(Made) /\ Messages(late) \in Seq(Made)
    BY <2>1, MessagesType DEF MetersTypeOK
  <2> QED
    BY <2>2 DEF MetersTypeOK
<1>3. /\ about(topic) = CountIn(topic, About(m, u))
      /\ about(outbox) = CountIn(outbox, About(m, u))
      /\ about(Messages(late)) = CountIn(Messages(late), About(m, u))
  BY <1>1, <1>2
<1>4. CountIn(Messages(late), About(m, u)) = CountIn(late, HeldAbout(m, u))
  BY CountMessages DEF MetersTypeOK
<1>5. {i \in DOMAIN meters[m].missed : meters[m].missed[i] = u}
        = {i \in DOMAIN meters[m].missed : meters[m].missed[i] \in {u}}
  OBVIOUS
<1>6. {x \in lost : x.meter = m /\ x.time = u /\ x.fault # "duplicate"} = lost \cap About(m, u)
  BY DEF MetersTypeOK, About
<1>7. Placed(m, u) = about(topic) + about(outbox) + about(Messages(late))
        + Cardinality({i \in DOMAIN meters[m].missed : meters[m].missed[i] = u})
        + Cardinality({x \in lost : x.meter = m /\ x.time = u /\ x.fault # "duplicate"})
  BY DEF Placed
<1> HIDE DEF about
<1> QED
  BY <1>3, <1>4, <1>5, <1>6, <1>7 DEF Places, CountIn

\* Of two finite sets that have at most one element between them, either or
\* none is empty.
LEMMA UnionOfOne ==
  ASSUME NEW P, IsFiniteSet(P), NEW Q, IsFiniteSet(Q), Cardinality(P) + Cardinality(Q) <= 1
  PROVE  IsFiniteSet(P \cup Q) /\ Cardinality(P \cup Q) = Cardinality(P) + Cardinality(Q)
<1>1. Cardinality(P) \in Nat /\ Cardinality(Q) \in Nat
  BY FS_CardinalityType
<1>2. Cardinality(P) = 0 \/ Cardinality(Q) = 0
  BY <1>1
<1>3. P = {} \/ Q = {}
  BY <1>2, FS_EmptySet
<1>4. P \cap Q = {}
  BY <1>3
<1>5. IsFiniteSet(P \cup Q)
      /\ Cardinality(P \cup Q) = Cardinality(P) + Cardinality(Q) - Cardinality(P \cap Q)
  BY FS_Union
<1> QED
  BY <1>1, <1>4, <1>5, FS_EmptySet

\* A sequence that has at most one element in Y has as many in its range.
LEMMA OneInRange ==
  ASSUME NEW X, NEW s \in Seq(X), NEW Y, CountIn(s, Y) <= 1
  PROVE  IsFiniteSet(ToSet(s) \cap Y) /\ Cardinality(ToSet(s) \cap Y) = CountIn(s, Y)
<1> DEFINE I == {i \in DOMAIN s : s[i] \in Y}
<1>1. IsFiniteSet(I) /\ CountIn(s, Y) = Cardinality(I) /\ Cardinality(I) \in Nat
  BY CountInType DEF CountIn
<1>2. ToSet(s) \cap Y = {s[i] : i \in I}
  BY DEF ToSet
<1>3. CASE Cardinality(I) = 0
  <2>1. I = {}
    <3> HIDE DEF I
    <3> QED
      BY <1>1, <1>3, FS_EmptySet
  <2> QED
    BY <1>1, <1>2, <1>3, <2>1, FS_EmptySet
<1>4. CASE Cardinality(I) # 0
  <2> HIDE DEF I
  <2>1. Cardinality(I) = 1
    BY <1>1, <1>4
  <2>2. PICK i : I = {i}
    BY <1>1, <2>1, FS_Singleton
  <2>3. ToSet(s) \cap Y = {s[i]}
    BY <1>2, <2>2
  <2>4. IsFiniteSet({s[i]}) /\ Cardinality({s[i]}) = 1
    BY FS_Singleton
  <2> QED
    BY <1>1, <2>1, <2>3, <2>4
<1> QED
  BY <1>3, <1>4

\* Of what all meters send and hold, the interval of one meter is in its own.
LEMMA OthersAreElsewhere ==
  ASSUME MetersTypeOK, NEW silence \in Silences, NEW come, Ticks(come, silence),
         now <= LastRound, NEW m \in Meters, NEW u
  PROVE  /\ CountIn(SentBy(come), About(m, u)) = CountIn(come[m].sent, About(m, u))
         /\ CountIn(HeldBy(come), HeldAbout(m, u)) = CountIn(come[m].held, HeldAbout(m, u))
<1> DEFINE ss == [a \in Meters |-> come[a].sent]
           hh == [a \in Meters |-> come[a].held]
<1>1. /\ now \in Rounds /\ ss \in Seq(Seq(Made)) /\ hh \in Seq(Seq(LateOnes))
      /\ Len(ss) = NumMeters /\ Len(hh) = NumMeters
  BY SentHeldType
<1>2. ASSUME NEW a \in Meters, a # m
      PROVE  CountIn(ss[a], About(m, u)) = 0 /\ CountIn(hh[a], HeldAbout(m, u)) = 0
  <2>1. meters[a] \in MeterStates /\ come[a] \in MeterTick(a, meters[a], now, silence)
    BY DEF MetersTypeOK, Ticks
  <2>2. come[a].sent \in Seq(Mine(a)) /\ come[a].held \in Seq(Held(Mine(a)))
    BY <1>1, <2>1, TickType
  <2>3. \A x \in Mine(a) : x.meter = a
    BY MineIs
  <2>4. \A i \in DOMAIN come[a].sent : come[a].sent[i] \notin About(m, u)
    <3> TAKE i \in DOMAIN come[a].sent
    <3>1. come[a].sent[i] \in Mine(a)
      BY <2>2
    <3> QED
      BY <1>2, <2>3, <3>1 DEF About
  <2>5. \A i \in DOMAIN come[a].held : come[a].held[i] \notin HeldAbout(m, u)
    <3> TAKE i \in DOMAIN come[a].held
    <3>1. come[a].held[i] \in Held(Mine(a))
      BY <2>2
    <3>2. come[a].held[i].message \in Mine(a)
      BY <3>1 DEF Held
    <3> QED
      BY <1>2, <2>3, <3>2 DEF HeldAbout, About
  <2>6. CountIn(come[a].sent, About(m, u)) = 0
    BY <2>2, <2>4, CountInType
  <2>7. CountIn(come[a].held, HeldAbout(m, u)) = 0
    BY <2>2, <2>5, CountInType
  <2> QED
    BY <2>6, <2>7
<1>3. m \in 1..Len(ss) /\ m \in 1..Len(hh) /\ Meters = 1..Len(ss) /\ Meters = 1..Len(hh)
  BY <1>1 DEF Meters
<1>4. ss[m] = come[m].sent /\ hh[m] = come[m].held
  OBVIOUS
<1>5. SentBy(come) = FlattenSeq(ss) /\ HeldBy(come) = FlattenSeq(hh)
  BY DEF SentBy, HeldBy
<1> HIDE DEF ss, hh
<1>6. CountIn(FlattenSeq(ss), About(m, u)) = CountIn(ss[m], About(m, u))
  BY <1>1, <1>2, <1>3, CountFlatten
<1>7. CountIn(FlattenSeq(hh), HeldAbout(m, u)) = CountIn(hh[m], HeldAbout(m, u))
  BY <1>1, <1>2, <1>3, CountFlatten
<1> QED
  BY <1>4, <1>5, <1>6, <1>7

\* What a round forgets of interval u of meter m.
LEMMA ForgottenIs ==
  ASSUME MetersTypeOK, now \in Rounds, NEW come, NEW m \in Meters, NEW u
  PROVE  LET F == {TheMessage(a, now, "forgotten") : a \in {a \in Meters : come[a].forgotten}}
         IN F \cap About(m, u) = IF come[m].forgotten /\ u = now
                                 THEN {TheMessage(m, now, "forgotten")} ELSE {}
<1> DEFINE F == {TheMessage(a, now, "forgotten") : a \in {a \in Meters : come[a].forgotten}}
<1>1. TheMessage(m, now, "forgotten") \in About(m, u) <=> u = now
  BY AboutIs, PlainLabels
<1>2. ASSUME NEW a \in Meters, TheMessage(a, now, "forgotten") \in About(m, u)
      PROVE  a = m
  BY <1>2 DEF About, TheMessage, Message
<1>3. F \cap About(m, u) = IF come[m].forgotten /\ u = now
                           THEN {TheMessage(m, now, "forgotten")} ELSE {}
  BY <1>1, <1>2
<1> QED
  BY <1>3

LEMMA RoundAccounts == MetersTypeOK /\ Accounted /\ Round => Accounted'
<1> SUFFICES ASSUME MetersTypeOK, Accounted, Round PROVE Accounted'
  OBVIOUS
<1>1. PICK silence \in Silences :
        \E come :
           /\ Ticks(come, silence) /\ now <= LastRound
           /\ meters' = [m \in Meters |-> come[m].state]
           /\ outbox' = outbox \o SentBy(come) \o Messages(Due(now))
           /\ late' = FoldLeft(Hold, At(late, DOMAIN late \ DueAt(now)), HeldBy(come))
           /\ lost' = lost \cup {TheMessage(m, now, "forgotten") :
                                   m \in {m \in Meters : come[m].forgotten}}
           /\ measured' = measured \cup {now} /\ now' = now + 1 /\ topic' = topic
  BY RoundIs
<1>2. PICK come :
           /\ Ticks(come, silence) /\ now <= LastRound
           /\ meters' = [m \in Meters |-> come[m].state]
           /\ outbox' = outbox \o SentBy(come) \o Messages(Due(now))
           /\ late' = FoldLeft(Hold, At(late, DOMAIN late \ DueAt(now)), HeldBy(come))
           /\ lost' = lost \cup {TheMessage(m, now, "forgotten") :
                                   m \in {m \in Meters : come[m].forgotten}}
           /\ measured' = measured \cup {now} /\ now' = now + 1 /\ topic' = topic
  BY <1>1
<1>a. now \in Rounds /\ SentBy(come) \in Seq(Made) /\ HeldBy(come) \in Seq(LateOnes)
  BY <1>2, SentHeldType
<1>b. now \in Nat /\ measured \subseteq Nat
  BY DEF MetersTypeOK, Rounds
<1>c. now \notin measured
  BY <1>b DEF Accounted
<1>3. /\ now \in Rounds /\ SentBy(come) \in Seq(Made) /\ HeldBy(come) \in Seq(LateOnes)
      /\ now \notin measured
  BY <1>a, <1>c
<1> DEFINE kept == At(late, DOMAIN late \ DueAt(now))
<1>4. /\ kept \in Seq(LateOnes) /\ Due(now) \in Seq(LateOnes)
      /\ Messages(Due(now)) \in Seq(Made) /\ DueAt(now) \in SUBSET DOMAIN late
  BY DueType
<1>5. \A u \in measured' : u < now'
  BY <1>2, <1>b DEF Accounted
<1>6. ASSUME NEW m \in Meters, NEW u \in Rounds
      PROVE  Places(m, u)' = IF u \in measured' THEN 1 ELSE 0
  <2> DEFINE A == About(m, u)
             H == HeldAbout(m, u)
             o == come[m]
             F == {TheMessage(a, now, "forgotten") : a \in {a \in Meters : come[a].forgotten}}
             new == IF o.forgotten /\ u = now THEN 1 ELSE 0
             one == IF u = now THEN 1 ELSE 0
  <2>1. meters[m] \in MeterStates /\ o \in MeterTick(m, meters[m], now, silence)
    BY <1>2 DEF MetersTypeOK, Ticks
  <2>2. /\ o.state \in MeterStates /\ o.sent \in Seq(Mine(m))
        /\ o.held \in Seq(Held(Mine(m))) /\ o.forgotten \in BOOLEAN
    BY <1>3, <2>1, TickType
  <2>3. CountIn(o.sent, A) + CountIn(o.held, H) + CountIn(o.state.missed, {u}) + new
          = CountIn(meters[m].missed, {u}) + one
    <3>1. Balances(o, m, meters[m], now, u)
      BY <1>3, <2>1, TickAccounts
    <3> QED
      BY <3>1 DEF Balances
  <2>4. CountIn(SentBy(come), A) = CountIn(o.sent, A) /\ CountIn(HeldBy(come), H) = CountIn(o.held, H)
    BY <1>2, OthersAreElsewhere
  <2>5. CountIn(outbox', A)
          = CountIn(outbox, A) + CountIn(o.sent, A) + CountIn(Due(now), H)
    <3>1. outbox \in Seq(Made) /\ outbox \o SentBy(come) \in Seq(Made)
      BY <1>3 DEF MetersTypeOK
    <3>2. CountIn(outbox \o SentBy(come), A) = CountIn(outbox, A) + CountIn(SentBy(come), A)
      BY <1>3, <3>1, CountConcat
    <3>3. CountIn(outbox \o SentBy(come) \o Messages(Due(now)), A)
            = CountIn(outbox \o SentBy(come), A) + CountIn(Messages(Due(now)), A)
      BY <1>4, <3>1, CountConcat
    <3>4. CountIn(Messages(Due(now)), A) = CountIn(Due(now), H)
      BY <1>4, CountMessages
    <3> QED
      BY <1>2, <2>4, <3>2, <3>3, <3>4
  <2>6. CountIn(late', H) = CountIn(kept, H) + CountIn(o.held, H)
    BY <1>2, <1>3, <1>4, <2>4, HoldAll
  <2>7. CountIn(late, H) = CountIn(Due(now), H) + CountIn(kept, H)
    <3>1. late \in Seq(LateOnes)
      BY DEF MetersTypeOK
    <3> QED
      BY <1>4, <3>1, CountSplit DEF Due
  <2>8. meters'[m].missed = o.state.missed
    BY <1>2
  <2>9. Places(m, u) = IF u \in measured THEN 1 ELSE 0
    BY DEF Accounted
  <2>10. /\ CountIn(topic, A) \in Nat /\ CountIn(outbox, A) \in Nat
         /\ CountIn(late, H) \in Nat /\ CountIn(meters[m].missed, {u}) \in Nat
         /\ IsFiniteSet(lost \cap A) /\ Cardinality(lost \cap A) \in Nat
    BY PlacesType
  <2>11. /\ CountIn(o.sent, A) \in Nat /\ CountIn(o.held, H) \in Nat
         /\ CountIn(o.state.missed, {u}) \in Nat
         /\ CountIn(Due(now), H) \in Nat /\ CountIn(kept, H) \in Nat
    <3>1. o.state.missed \in Seq(Rounds)
      BY <2>2 DEF MeterStates
    <3>2. CountIn(o.state.missed, {u}) \in Nat
      BY <3>1, CountInType
    <3>3. CountIn(o.sent, A) \in Nat /\ CountIn(o.held, H) \in Nat
      BY <2>2, CountInType
    <3>4. CountIn(Due(now), H) \in Nat /\ CountIn(kept, H) \in Nat
      BY <1>4, CountInType
    <3> QED
      BY <3>2, <3>3, <3>4
  <2> HIDE DEF A, H, kept
  <2>14. Places(m, u) = CountIn(topic, A) + CountIn(outbox, A) + CountIn(late, H)
                         + CountIn(meters[m].missed, {u}) + Cardinality(lost \cap A)
    BY DEF Places, A, H
  <2>12. Cardinality(lost' \cap A) = Cardinality(lost \cap A) + new
    <3>1. F \cap A = IF o.forgotten /\ u = now THEN {TheMessage(m, now, "forgotten")} ELSE {}
      BY <1>3, ForgottenIs DEF A
    <3>2. lost' \cap A = (lost \cap A) \cup (F \cap A)
      BY <1>2
    <3> HIDE DEF F
    <3>3. CASE o.forgotten /\ u = now
      <4>1. Places(m, u) = 0
        BY <1>3, <2>9, <3>3
      <4>2. Cardinality(lost \cap A) = 0
        <5>1. \A a, b, c, d, e \in Nat : a + b + c + d + e = 0 => e = 0
          OBVIOUS
        <5> QED
          BY <2>10, <2>14, <4>1, <5>1
      <4>3. lost \cap A = {}
        BY <2>10, <4>2, FS_EmptySet
      <4>4. lost' \cap A = {TheMessage(m, now, "forgotten")}
        BY <3>1, <3>2, <3>3, <4>3
      <4>5. Cardinality({TheMessage(m, now, "forgotten")}) = 1
        BY FS_Singleton
      <4> QED
        BY <3>3, <4>2, <4>4, <4>5
    <3>4. CASE ~(o.forgotten /\ u = now)
      BY SMTT(30), <2>10, <3>1, <3>2, <3>4
    <3> QED
      BY <3>3, <3>4
  <2>13. Places(m, u)' = CountIn(topic', A) + CountIn(outbox', A) + CountIn(late', H)
                          + CountIn(meters'[m].missed, {u}) + Cardinality(lost' \cap A)
    BY DEF Places, A, H
  <2>15. topic' = topic /\ measured' = measured \cup {now}
    BY <1>2
  <2>16. new \in Nat /\ one \in Nat
    OBVIOUS
  <2> HIDE DEF o, new
  <2>17. Places(m, u)' = Places(m, u) + one
    <3> HIDE DEF one
    <3> QED
      BY <2>3, <2>5, <2>6, <2>7, <2>8, <2>10, <2>11, <2>12, <2>13, <2>14, <2>15, <2>16
  <2> QED
    BY <1>3, <2>9, <2>15, <2>17
<1> QED
  BY <1>5, <1>6 DEF Accounted

LEMMA SendAccounts == MetersTypeOK /\ Accounted /\ Send => Accounted'
<1> SUFFICES ASSUME MetersTypeOK, Accounted, Send PROVE Accounted'
  OBVIOUS
<1>1. /\ outbox # <<>> /\ outbox \in Seq(Made) /\ topic \in Seq(Made \cup Strays)
      /\ topic' = Append(topic, Head(outbox)) /\ outbox' = Tail(outbox)
      /\ UNCHANGED <<now, meters, late, measured, lost>>
  BY DEF Send, MetersTypeOK
<1>2. Head(outbox) \in Made \cup Strays /\ Tail(outbox) \in Seq(Made)
  BY <1>1
<1>3. ASSUME NEW m \in Meters, NEW u \in Rounds PROVE Places(m, u)' = Places(m, u)
  <2> DEFINE A == About(m, u)
             x == Head(outbox)
             first == IF Head(outbox) \in A THEN 1 ELSE 0
  <2>1. CountIn(Append(topic, Head(outbox)), A) = CountIn(topic, A) + first
    <3>1. x \in Made \cup Strays /\ topic \in Seq(Made \cup Strays)
      BY <1>1, <1>2
    <3> HIDE DEF A, x
    <3>2. CountIn(Append(topic, x), A) = CountIn(topic, A) + (IF x \in A THEN 1 ELSE 0)
      BY <3>1, CountAppend
    <3> QED
      BY <3>2 DEF x
  <2>2. CountIn(outbox, A) = first + CountIn(Tail(outbox), A)
    BY <1>1, CountHeadTail
  <2>3. CountIn(topic, A) \in Nat /\ CountIn(Tail(outbox), A) \in Nat /\ first \in Nat
    <3>1. CountIn(Tail(outbox), A) \in Nat
      BY <1>2, CountInType
    <3> QED
      BY <3>1, PlacesType
  <2> HIDE DEF A, first
  <2>4. CountIn(topic', A) + CountIn(outbox', A) = CountIn(topic, A) + CountIn(outbox, A)
    BY <1>1, <2>1, <2>2, <2>3
  <2> QED
    BY <1>1, <2>4 DEF Places, A
<1> QED
  BY <1>1, <1>3 DEF Accounted

\* Steps of a meter after which everything is where it was.
LEMMA IdleAccounts ==
  MetersTypeOK /\ Accounted /\ (FallsBehind \/ IsDown \/ Start) => Accounted'
<1> SUFFICES ASSUME MetersTypeOK, Accounted, FallsBehind \/ IsDown \/ Start PROVE Accounted'
  OBVIOUS
<1>1. UNCHANGED <<meters, late, outbox, topic, measured, lost>> /\ now' \in {now, now + 1}
  BY DEF FallsBehind, IsDown, RoundPasses, Start
<1>2. \A m \in Meters, u \in Rounds : Places(m, u)' = Places(m, u)
  BY <1>1 DEF Places
<1>3. now \in Nat /\ measured \subseteq Nat
  BY DEF MetersTypeOK, Rounds
<1> QED
  BY <1>1, <1>2, <1>3 DEF Accounted

\* A message that could not be delivered is lost instead.
LEMMA FailureAccounts == MetersTypeOK /\ Accounted /\ DeliveryFails => Accounted'
<1> SUFFICES ASSUME MetersTypeOK, Accounted, DeliveryFails PROVE Accounted'
  OBVIOUS
<1>1. /\ outbox # <<>> /\ outbox \in Seq(Made) /\ lost' = lost \cup {Head(outbox)}
      /\ outbox' = Tail(outbox) /\ UNCHANGED <<now, meters, late, topic, measured>>
  BY DEF DeliveryFails, MetersTypeOK
<1>2. Tail(outbox) \in Seq(Made)
  BY <1>1
<1>3. ASSUME NEW m \in Meters, NEW u \in Rounds PROVE Places(m, u)' = Places(m, u)
  <2> DEFINE A == About(m, u)
             H == HeldAbout(m, u)
             first == IF Head(outbox) \in A THEN 1 ELSE 0
  <2>1. CountIn(outbox, A) = first + CountIn(Tail(outbox), A)
    BY <1>1, CountHeadTail
  <2>2. CountIn(Tail(outbox), A) \in Nat
    BY <1>2, CountInType
  <2>3. /\ CountIn(topic, A) \in Nat /\ CountIn(outbox, A) \in Nat
        /\ CountIn(late, H) \in Nat /\ CountIn(meters[m].missed, {u}) \in Nat
        /\ IsFiniteSet(lost \cap A) /\ Cardinality(lost \cap A) \in Nat
    BY PlacesType
  <2>4. Places(m, u) \in {0, 1}
    BY DEF Accounted
  <2> HIDE DEF A, H
  <2>5. Places(m, u) = CountIn(topic, A) + CountIn(outbox, A) + CountIn(late, H)
                         + CountIn(meters[m].missed, {u}) + Cardinality(lost \cap A)
    BY DEF Places, A, H
  <2>6. Places(m, u)' = CountIn(topic', A) + CountIn(outbox', A) + CountIn(late', H)
                         + CountIn(meters'[m].missed, {u}) + Cardinality(lost' \cap A)
    BY DEF Places, A, H
  <2>7. Cardinality(lost' \cap A) = Cardinality(lost \cap A) + first
    <3>1. CASE Head(outbox) \in A
      <4>2. first = 1
        BY <3>1
      <4> HIDE DEF first
      <4>1. CountIn(topic, A) + CountIn(outbox, A) + CountIn(late, H)
              + CountIn(meters[m].missed, {u}) + Cardinality(lost \cap A) \in {0, 1}
        BY <2>4, <2>5
      <4>a. CountIn(outbox, A) >= 1
        BY <2>1, <2>2, <4>2
      <4>b. \A a, b, c, d, e \in Nat :
              b >= 1 /\ a + b + c + d + e \in {0, 1} => e = 0
        OBVIOUS
      <4>3. Cardinality(lost \cap A) = 0
        BY <2>3, <4>1, <4>a, <4>b
      <4>4. lost \cap A = {}
        BY <2>3, <4>3, FS_EmptySet
      <4>5. lost' \cap A = {Head(outbox)}
        BY <1>1, <3>1, <4>4
      <4>6. Cardinality({Head(outbox)}) = 1
        BY FS_Singleton
      <4> QED
        BY <4>2, <4>3, <4>5, <4>6
    <3>2. CASE Head(outbox) \notin A
      <4>1. lost' \cap A = lost \cap A /\ first = 0
        BY <1>1, <3>2
      <4> HIDE DEF first
      <4>2. Cardinality(lost' \cap A) = Cardinality(lost \cap A)
        BY <4>1, Zenon
      <4> QED
        BY <2>3, <4>1, <4>2
    <3> QED
      BY <3>1, <3>2
  <2>8. first \in Nat
    OBVIOUS
  <2> HIDE DEF first
  <2>9. CountIn(outbox', A) = CountIn(Tail(outbox), A) /\ topic' = topic /\ late' = late /\ meters' = meters
    BY <1>1
  <2>10. \A a, b, c, d, e, f, h \in Nat :
           b = h + f => a + f + c + d + (e + h) = a + b + c + d + e
    OBVIOUS
  <2> QED
    BY <2>1, <2>2, <2>3, <2>5, <2>6, <2>7, <2>8, <2>9, <2>10
<1> QED
  BY <1>1, <1>3 DEF Accounted

\* A stop loses everything that is not in the topic, and loses it once.
LEMMA StopAccounts == MetersTypeOK /\ Accounted /\ Stop => Accounted'
<1> SUFFICES ASSUME MetersTypeOK, Accounted, Stop PROVE Accounted'
  OBVIOUS
<1>1. /\ lost' = lost \cup ToSet(outbox) \cup ToSet(Messages(late))
                      \cup UNION {ToSet(Owed(a, meters[a])) : a \in Meters}
      /\ meters' = [a \in Meters |-> Online] /\ late' = <<>> /\ outbox' = <<>>
      /\ UNCHANGED <<now, topic, measured>>
  BY DEF Stop
<1>2. outbox \in Seq(Made) /\ Messages(late) \in Seq(Made) /\ late \in Seq(LateOnes)
  <2>1. late \in Seq(Held(Made))
    BY DueType DEF MetersTypeOK
  <2> QED
    BY <2>1, MessagesType DEF MetersTypeOK
<1>3. ASSUME NEW m \in Meters, NEW u \in Rounds PROVE Places(m, u)' = Places(m, u)
  <2> DEFINE A == About(m, u)
             H == HeldAbout(m, u)
             owed == Owed(m, meters[m])
             T == CountIn(topic, A)
             O == CountIn(outbox, A)
             L == CountIn(late, H)
             M == CountIn(meters[m].missed, {u})
             N == Cardinality(lost \cap A)
  <2>0. meters[m] \in MeterStates
    BY DEF MetersTypeOK
  <2>1. owed \in Seq(Mine(m)) /\ CountIn(owed, A) = M
    <3>1. /\ owed \in Seq(Mine(m)) /\ DOMAIN owed = DOMAIN meters[m].missed
          /\ \A i \in DOMAIN meters[m].missed :
               owed[i] = TheMessage(m, meters[m].missed[i], "backfill")
      BY <2>0, OwedIs
    <3>2. ASSUME NEW i \in DOMAIN meters[m].missed
          PROVE  owed[i] \in A <=> meters[m].missed[i] \in {u}
      <4>1. meters[m].missed[i] \in Rounds
        BY <2>0 DEF MeterStates
      <4>2. TheMessage(m, meters[m].missed[i], "backfill") \in A <=> u = meters[m].missed[i]
        BY <4>1, AboutIs, PlainLabels
      <4> QED
        BY <3>1, <4>2
    <3>3. {i \in DOMAIN owed : owed[i] \in A}
            = {i \in DOMAIN meters[m].missed : meters[m].missed[i] \in {u}}
      BY <3>1, <3>2
    <3> QED
      BY <3>1, <3>3 DEF CountIn
  <2>2. (UNION {ToSet(Owed(a, meters[a])) : a \in Meters}) \cap A = ToSet(owed) \cap A
    <3>1. ASSUME NEW a \in Meters, NEW x \in ToSet(Owed(a, meters[a])), x \in A PROVE a = m
      <4>1. meters[a] \in MeterStates
        BY DEF MetersTypeOK
      <4>2. Owed(a, meters[a]) \in Seq(Mine(a))
        BY <4>1, OwedIs
      <4>3. x \in Mine(a)
        BY <4>2, ToSetIs
      <4>4. x.meter = a
        BY <4>3, MineIs
      <4> QED
        BY <3>1, <4>4 DEF About
    <3> QED
      BY <3>1
  <2>3. T \in Nat /\ O \in Nat /\ L \in Nat /\ M \in Nat /\ N \in Nat /\ IsFiniteSet(lost \cap A)
    BY PlacesType
  <2>4. Places(m, u) = T + O + L + M + N
    BY DEF Places
  <2>5. Places(m, u) \in {0, 1}
    BY DEF Accounted
  <2>6. CountIn(Messages(late), A) = L
    BY <1>2, CountMessages
  <2> HIDE DEF A, H, owed
  <2>7. Places(m, u)' = CountIn(topic', A) + CountIn(outbox', A) + CountIn(late', H)
                         + CountIn(meters'[m].missed, {u}) + Cardinality(lost' \cap A)
    BY DEF Places, A, H
  <2>8. /\ CountIn(topic', A) = T /\ CountIn(outbox', A) = 0 /\ CountIn(late', H) = 0
        /\ CountIn(meters'[m].missed, {u}) = 0
    <3>1. meters'[m].missed = <<>>
      BY <1>1 DEF Online
    <3> QED
      BY <1>1, <3>1, CountEmpty
  <2> HIDE DEF T, O, L, M, N
  <2>9. N + O + L + M <= 1 /\ O <= 1 /\ L <= 1 /\ M <= 1 /\ N + O <= 1 /\ N + O + L <= 1
    BY <2>3, <2>4, <2>5
  <2>10. /\ IsFiniteSet(ToSet(outbox) \cap A) /\ Cardinality(ToSet(outbox) \cap A) = O
    BY <1>2, <2>9, OneInRange DEF O
  <2>11. /\ IsFiniteSet(ToSet(Messages(late)) \cap A)
         /\ Cardinality(ToSet(Messages(late)) \cap A) = L
    BY <1>2, <2>6, <2>9, OneInRange
  <2>12. IsFiniteSet(ToSet(owed) \cap A) /\ Cardinality(ToSet(owed) \cap A) = M
    BY <2>1, <2>9, OneInRange
  <2> DEFINE P == lost \cap A
             Q == ToSet(outbox) \cap A
             R == ToSet(Messages(late)) \cap A
             S == ToSet(owed) \cap A
  <2>13. lost' \cap A = ((P \cup Q) \cup R) \cup S
    BY <1>1, <2>2
  <2>14. /\ IsFiniteSet(P) /\ Cardinality(P) = N /\ IsFiniteSet(Q) /\ Cardinality(Q) = O
         /\ IsFiniteSet(R) /\ Cardinality(R) = L /\ IsFiniteSet(S) /\ Cardinality(S) = M
    BY <2>3, <2>10, <2>11, <2>12 DEF N
  <2> HIDE DEF P, Q, R, S
  <2>15. IsFiniteSet(P \cup Q) /\ Cardinality(P \cup Q) = N + O
    BY <2>9, <2>14, UnionOfOne
  <2>16. IsFiniteSet((P \cup Q) \cup R) /\ Cardinality((P \cup Q) \cup R) = N + O + L
    BY <2>9, <2>14, <2>15, UnionOfOne
  <2>17. Cardinality(((P \cup Q) \cup R) \cup S) = N + O + L + M
    BY <2>9, <2>14, <2>16, UnionOfOne
  <2>18. Cardinality(lost' \cap A) = N + O + L + M
    BY <2>13, <2>17
  <2>19. Places(m, u)' = T + 0 + 0 + 0 + (N + O + L + M)
    BY <2>7, <2>8, <2>18
  <2> QED
    BY <2>3, <2>4, <2>19
<1> QED
  BY <1>1, <1>3 DEF Accounted

LEMMA StrangeAccounts == MetersTypeOK /\ Accounted /\ SendStrange => Accounted'
<1> SUFFICES ASSUME MetersTypeOK, Accounted, SendStrange PROVE Accounted'
  OBVIOUS
<1>1. PICK b \in Strange : topic' = Append(topic, Message(0, LongAgo, "strange", b))
  BY DEF SendStrange
<1>2. UNCHANGED <<now, meters, late, outbox, measured, lost>>
  BY DEF SendStrange
<1>3. ASSUME NEW m \in Meters, NEW u \in Rounds PROVE Places(m, u)' = Places(m, u)
  <2> DEFINE A == About(m, u)
             x == Message(0, LongAgo, "strange", b)
  <2>1. x \in Made \cup Strays
    BY DEF Strays
  <2>2. x \notin A
    <3>1. x.meter = 0 /\ m # 0
      BY RoundsAssumption DEF Message, Meters
    <3> QED
      BY <3>1 DEF About
  <2> HIDE DEF A, x
  <2>3. CountIn(Append(topic, x), A) = CountIn(topic, A) + (IF x \in A THEN 1 ELSE 0)
    BY <2>1, CountAppend DEF MetersTypeOK
  <2>4. CountIn(topic, A) \in Nat
    BY PlacesType DEF A
  <2>5. CountIn(topic', A) = CountIn(topic, A)
    BY <1>1, <2>2, <2>3, <2>4 DEF x
  <2> QED
    BY <1>2, <2>5 DEF Places, A
<1> QED
  BY <1>2, <1>3 DEF Accounted

-----------------------------------------------------------------------------
(* Readings go out in the order they were taken.                           *)

\* The messages of meter m that are neither held back nor sent a second time.
PromptLabels == {"none", "backfill"} \cup Damages
PromptOf(m)  == {x \in Made : x.meter = m /\ x.fault \in PromptLabels}

\* Of those in P, the times in s rise, and those in s come before those in t.
Ascending(s, P) ==
  \A i, j \in DOMAIN s : i < j /\ s[i] \in P /\ s[j] \in P => s[i].time < s[j].time
Precede(s, t, P) == \A x \in ToSet(s) \cap P, y \in ToSet(t) \cap P : x.time < y.time
EndBefore(s, P, t) == \A x \in ToSet(s) \cap P : x.time < t

LEMMA ToSetConcat ==
  ASSUME NEW X, NEW s \in Seq(X), NEW t \in Seq(X)
  PROVE  ToSet(s \o t) = ToSet(s) \cup ToSet(t)
<1>1. /\ Len(s) \in Nat /\ Len(t) \in Nat
      /\ DOMAIN s = 1..Len(s) /\ DOMAIN t = 1..Len(t)
      /\ DOMAIN (s \o t) = 1..(Len(s) + Len(t))
      /\ \A i \in 1..(Len(s) + Len(t)) :
           (s \o t)[i] = IF i <= Len(s) THEN s[i] ELSE t[i - Len(s)]
  BY ConcatIs
<1>2. ASSUME NEW x \in ToSet(s \o t) PROVE x \in ToSet(s) \cup ToSet(t)
  <2>1. PICK i \in 1..(Len(s) + Len(t)) : x = (s \o t)[i]
    BY <1>1, <1>2 DEF ToSet
  <2>2. CASE i <= Len(s)
    <3>1. i \in DOMAIN s /\ x = s[i]
      BY <1>1, <2>1, <2>2
    <3> QED
      BY <3>1 DEF ToSet
  <2>3. CASE ~(i <= Len(s))
    <3>1. i - Len(s) \in DOMAIN t /\ x = t[i - Len(s)]
      BY <1>1, <2>1, <2>3
    <3> QED
      BY <3>1 DEF ToSet
  <2> QED
    BY <2>2, <2>3
<1>3. ASSUME NEW x \in ToSet(s) PROVE x \in ToSet(s \o t)
  <2>1. PICK i \in DOMAIN s : x = s[i]
    BY <1>3 DEF ToSet
  <2>2. i \in DOMAIN (s \o t) /\ (s \o t)[i] = x
    BY <1>1, <2>1
  <2> QED
    BY <2>2 DEF ToSet
<1>4. ASSUME NEW x \in ToSet(t) PROVE x \in ToSet(s \o t)
  <2>1. PICK i \in DOMAIN t : x = t[i]
    BY <1>4 DEF ToSet
  <2>2. i + Len(s) \in DOMAIN (s \o t) /\ (s \o t)[i + Len(s)] = x
    BY <1>1, <2>1
  <2> QED
    BY <2>2 DEF ToSet
<1> QED
  BY <1>2, <1>3, <1>4

LEMMA AscendingConcat ==
  ASSUME NEW X, NEW s \in Seq(X), NEW t \in Seq(X), NEW P
  PROVE  Ascending(s \o t, P) <=> Ascending(s, P) /\ Ascending(t, P) /\ Precede(s, t, P)
<1>1. /\ Len(s) \in Nat /\ Len(t) \in Nat
      /\ DOMAIN s = 1..Len(s) /\ DOMAIN t = 1..Len(t)
      /\ DOMAIN (s \o t) = 1..(Len(s) + Len(t))
      /\ \A i \in 1..(Len(s) + Len(t)) :
           (s \o t)[i] = IF i <= Len(s) THEN s[i] ELSE t[i - Len(s)]
  BY ConcatIs
<1> DEFINE w == s \o t
<1>2. /\ DOMAIN w = 1..(Len(s) + Len(t))
      /\ \A i \in 1..(Len(s) + Len(t)) : w[i] = IF i <= Len(s) THEN s[i] ELSE t[i - Len(s)]
  BY <1>1
<1>3. \A i \in DOMAIN s : i \in DOMAIN w /\ w[i] = s[i]
  BY <1>1, <1>2
<1>4. \A i \in DOMAIN t : i + Len(s) \in DOMAIN w /\ w[i + Len(s)] = t[i]
  BY <1>1, <1>2
<1> HIDE DEF w
<1>5. ASSUME Ascending(w, P)
      PROVE  Ascending(s, P) /\ Ascending(t, P) /\ Precede(s, t, P)
  <2>1. Ascending(s, P)
    BY <1>3, <1>5 DEF Ascending
  <2>2. Ascending(t, P)
    <3> SUFFICES ASSUME NEW i \in DOMAIN t, NEW j \in DOMAIN t,
                        i < j, t[i] \in P, t[j] \in P
                 PROVE  t[i].time < t[j].time
      BY DEF Ascending
    <3>1. i + Len(s) < j + Len(s)
      BY <1>1
    <3> QED
      BY <1>4, <1>5, <3>1 DEF Ascending
  <2>3. Precede(s, t, P)
    <3> SUFFICES ASSUME NEW i \in DOMAIN s, NEW j \in DOMAIN t, s[i] \in P, t[j] \in P
                 PROVE  s[i].time < t[j].time
      BY DEF Precede, ToSet
    <3>1. i < j + Len(s)
      BY <1>1
    <3> QED
      BY <1>3, <1>4, <1>5, <3>1 DEF Ascending
  <2> QED
    BY <2>1, <2>2, <2>3
<1>6. ASSUME Ascending(s, P), Ascending(t, P), Precede(s, t, P)
      PROVE  Ascending(w, P)
  <2> SUFFICES ASSUME NEW i \in DOMAIN w, NEW j \in DOMAIN w, i < j, w[i] \in P, w[j] \in P
               PROVE  w[i].time < w[j].time
    BY DEF Ascending
  <2>1. CASE j <= Len(s)
    <3>1. i \in DOMAIN s /\ j \in DOMAIN s /\ w[i] = s[i] /\ w[j] = s[j]
      BY <1>1, <1>2, <2>1
    <3> QED
      BY <1>6, <3>1 DEF Ascending
  <2>2. CASE ~(j <= Len(s)) /\ i <= Len(s)
    <3>1. i \in DOMAIN s /\ j - Len(s) \in DOMAIN t /\ w[i] = s[i] /\ w[j] = t[j - Len(s)]
      BY <1>1, <1>2, <2>2
    <3>2. w[i] \in ToSet(s) /\ w[j] \in ToSet(t)
      BY <3>1 DEF ToSet
    <3> QED
      BY <1>6, <3>2 DEF Precede
  <2>3. CASE ~(i <= Len(s))
    <3>1. /\ i - Len(s) \in DOMAIN t /\ j - Len(s) \in DOMAIN t
          /\ w[i] = t[i - Len(s)] /\ w[j] = t[j - Len(s)] /\ i - Len(s) < j - Len(s)
      BY <1>1, <1>2, <2>3
    <3> QED
      BY <1>6, <3>1 DEF Ascending
  <2> QED
    BY <2>1, <2>2, <2>3
<1> QED
  BY <1>5, <1>6 DEF w

LEMMA ShortOnes ==
  ASSUME NEW x, NEW P
  PROVE  /\ ToSet(<<>>) = {} /\ ToSet(<<x>>) = {x}
         /\ Ascending(<<>>, P) /\ Ascending(<<x>>, P)
<1>1. ToSet(<<>>) = {}
  BY DEF ToSet
<1>2. DOMAIN <<x>> = {1} /\ <<x>>[1] = x
  OBVIOUS
<1>3. ToSet(<<x>>) = {x}
  BY <1>2 DEF ToSet
<1>4. Ascending(<<>>, P)
  BY DEF Ascending
<1>5. Ascending(<<x>>, P)
  BY <1>2 DEF Ascending
<1> QED
  BY <1>1, <1>3, <1>4, <1>5

\* A last one that is later than the others.
LEMMA AscendingMore ==
  ASSUME NEW X, NEW s \in Seq(X), NEW x \in X, NEW P, Ascending(s, P),
         x \in P => EndBefore(s, P, x.time)
  PROVE  Ascending(s \o <<x>>, P) /\ ToSet(s \o <<x>>) = ToSet(s) \cup {x}
<1> DEFINE one == <<x>>
<1>1. one \in Seq(X) /\ ToSet(one) = {x} /\ Ascending(one, P)
  BY ShortOnes
<1> HIDE DEF one
<1>2. Precede(s, one, P)
  BY <1>1 DEF Precede, EndBefore
<1>3. Ascending(s \o one, P)
  BY <1>1, <1>2, AscendingConcat
<1>4. ToSet(s \o one) = ToSet(s) \cup ToSet(one)
  BY <1>1, ToSetConcat
<1> QED
  BY <1>1, <1>3, <1>4 DEF one

\* What a meter owes is settled by what it remembers.
LEMMA OwedByMissed ==
  ASSUME NEW m \in Meters, NEW s \in MeterStates, NEW r \in MeterStates, NEW t \in Rounds
  PROVE  /\ s.missed = <<>> => Owed(m, s) = <<>>
         /\ s.missed = <<t>> => Owed(m, s) = <<TheMessage(m, t, "backfill")>>
         /\ r.missed = s.missed => Owed(m, r) = Owed(m, s)
         /\ r.missed = Append(s.missed, t) =>
              Owed(m, r) = Owed(m, s) \o <<TheMessage(m, t, "backfill")>>
<1> DEFINE b(u) == TheMessage(m, u, "backfill")
           w == Owed(m, s)
           v == Owed(m, r)
<1>1. /\ w \in Seq(Mine(m)) /\ Len(w) = Len(s.missed) /\ DOMAIN w = DOMAIN s.missed
      /\ \A i \in DOMAIN s.missed : w[i] = b(s.missed[i])
  BY OwedIs
<1>2. /\ v \in Seq(Mine(m)) /\ Len(v) = Len(r.missed) /\ DOMAIN v = DOMAIN r.missed
      /\ \A i \in DOMAIN r.missed : v[i] = b(r.missed[i])
  BY OwedIs
<1>3. s.missed \in Seq(Rounds) /\ r.missed \in Seq(Rounds)
  BY DEF MeterStates
<1>4. r.missed = s.missed => v = w
  BY DEF Owed
<1> HIDE DEF b, w, v
<1>5. s.missed = <<>> => w = <<>>
  BY <1>1
<1>6. ASSUME s.missed = <<t>> PROVE w = <<b(t)>>
  <2>1. Len(w) = 1 /\ w[1] = b(t)
    BY <1>1, <1>6
  <2> QED
    BY <1>1, <2>1
<1>7. ASSUME r.missed = Append(s.missed, t) PROVE v = w \o <<b(t)>>
  <2>1. /\ Len(s.missed) \in Nat /\ Len(r.missed) = Len(s.missed) + 1
        /\ \A i \in 1..Len(s.missed) : r.missed[i] = s.missed[i]
        /\ r.missed[Len(s.missed) + 1] = t
    BY <1>3, <1>7
  <2>2. DOMAIN s.missed = 1..Len(s.missed) /\ DOMAIN r.missed = 1..(Len(s.missed) + 1)
    BY <1>3, <2>1
  <2> DEFINE n == Len(s.missed)
             z == w \o <<b(t)>>
  <2>3. /\ Len(v) = n + 1 /\ Len(w) = n /\ DOMAIN v = 1..(n + 1) /\ DOMAIN w = 1..n
        /\ \A i \in 1..n : v[i] = w[i]
        /\ v[n + 1] = b(t)
    <3>1. Len(v) = n + 1 /\ Len(w) = n /\ DOMAIN v = 1..(n + 1) /\ DOMAIN w = 1..n
      BY <1>1, <1>2, <2>1, <2>2
    <3>2. \A i \in 1..n : v[i] = w[i]
      BY <1>1, <1>2, <2>1, <2>2
    <3>3. v[n + 1] = b(t)
      BY <1>2, <2>1, <2>2
    <3> QED
      BY <3>1, <3>2, <3>3
  <2>4. n \in Nat
    BY <2>1
  <2> HIDE DEF n
  <2>5. /\ Len(z) = n + 1 /\ DOMAIN z = 1..(n + 1)
        /\ \A i \in 1..n : z[i] = w[i]
        /\ z[n + 1] = b(t)
    BY <1>1, <2>3, <2>4
  <2>6. z \in Seq(Mine(m)) /\ v \in Seq(Mine(m))
    <3>1. b(t) \in Mine(m)
      BY MineIs, PlainLabels DEF b
    <3> QED
      BY <1>1, <1>2, <3>1
  <2> HIDE DEF z
  <2>7. \A i \in 1..(n + 1) : v[i] = z[i]
    BY <2>3, <2>4, <2>5
  <2>8. v = z
    BY <2>3, <2>5, <2>6, <2>7
  <2> QED
    BY <2>8 DEF z
<1> QED
  BY <1>4, <1>5, <1>6, <1>7 DEF b, w, v

\* What a meter sends in a round and then owes continues what it owed before.
Continues(o, m, s, t) ==
  LET P == PromptOf(m) IN
  /\ Ascending(o.sent, P) /\ Ascending(Owed(m, o.state), P)
  /\ Precede(o.sent, Owed(m, o.state), P)
  /\ \A x \in (ToSet(o.sent) \cup ToSet(Owed(m, o.state))) \cap P :
       x \in ToSet(Owed(m, s)) \/ x.time = t

LEMMA TickContinues ==
  ASSUME NEW m \in Meters, NEW s \in MeterStates, NEW t \in Rounds, NEW silence \in Silences,
         NEW o \in MeterTick(m, s, t, silence),
         Ascending(Owed(m, s), PromptOf(m)), EndBefore(Owed(m, s), PromptOf(m), t)
  PROVE  Continues(o, m, s, t)
<1> DEFINE P == PromptOf(m)
           w == Owed(m, s)
           v == Owed(m, o.state)
           b == TheMessage(m, t, "backfill")
<1>1. /\ o.state \in MeterStates
      /\ \/ Remembered(o, m, s, t) \/ Forgotten(o, m, s, t) \/ WentDown(o, m, s, t)
         \/ Sent(o, m, s, t) \/ SentTwice(o, m, s, t) \/ HeldBack(o, m, s, t)
  BY TickIs
<1>2. w \in Seq(Mine(m)) /\ Ascending(w, P) /\ EndBefore(w, P, t)
  BY OwedIs
<1>3. b \in Mine(m) /\ b.time = t
  BY MineIs, PlainLabels DEF TheMessage, Message
<1>4. /\ o.state.missed = <<>> => v = <<>>
      /\ o.state.missed = <<t>> => v = <<b>>
      /\ o.state.missed = s.missed => v = w
      /\ o.state.missed = Append(s.missed, t) => v = w \o <<b>>
  <2>1. o.state \in MeterStates
    BY <1>1
  <2>2. /\ o.state.missed = <<>> => v = <<>>
        /\ o.state.missed = <<t>> => v = <<b>>
    BY <2>1, OwedByMissed
  <2>3. /\ o.state.missed = s.missed => v = w
        /\ o.state.missed = Append(s.missed, t) => v = w \o <<b>>
    BY <2>1, OwedByMissed
  <2> QED
    BY <2>2, <2>3
<1> SUFFICES /\ Ascending(o.sent, P) /\ Ascending(v, P) /\ Precede(o.sent, v, P)
             /\ \A x \in (ToSet(o.sent) \cup ToSet(v)) \cap P : x \in ToSet(w) \/ x.time = t
  BY DEF Continues
<1>5. ToSet(<<>>) = {} /\ ToSet(<<b>>) = {b} /\ Ascending(<<>>, P) /\ Ascending(<<b>>, P)
  BY ShortOnes
<1> HIDE DEF P, w, v, b
<1>6. CASE Remembered(o, m, s, t)
  <2>1. o.sent = <<>> /\ v = w \o <<b>>
    BY <1>4, <1>6 DEF Remembered
  <2>2. Ascending(w \o <<b>>, P) /\ ToSet(w \o <<b>>) = ToSet(w) \cup {b}
    BY <1>2, <1>3, AscendingMore
  <2> QED
    BY <1>3, <1>5, <2>1, <2>2 DEF Precede
<1>7. CASE Forgotten(o, m, s, t)
  <2>1. o.sent = <<>> /\ v = w
    BY <1>4, <1>7 DEF Forgotten
  <2> QED
    BY <1>2, <1>5, <2>1 DEF Precede
<1>8. CASE WentDown(o, m, s, t)
  <2>1. o.sent = w /\ (v = <<b>> \/ v = <<>>)
    BY <1>4, <1>8 DEF WentDown, w
  <2> QED
    BY <1>2, <1>3, <1>5, <2>1 DEF Precede, EndBefore
<1>9. CASE Sent(o, m, s, t)
  <2>1. PICK f \in {"none"} \cup Damages :
          \E x \in Build(m, t, f) : o.sent = w \o <<x>>
    BY <1>9 DEF Sent, w
  <2>a. PICK x \in Build(m, t, f) : o.sent = w \o <<x>>
    BY <2>1
  <2>2. x \in Mine(m) /\ x.time = t
    <3>1. f \in Labels
      BY DEF Labels
    <3> QED
      BY <3>1, MineIs, BuildIs
  <2>3. Ascending(w \o <<x>>, P) /\ ToSet(w \o <<x>>) = ToSet(w) \cup {x}
    BY <1>2, <2>2, AscendingMore
  <2>4. v = <<>>
    BY <1>4, <1>9 DEF Sent
  <2> QED
    BY <1>5, <2>a, <2>2, <2>3, <2>4 DEF Precede
<1>10. CASE SentTwice(o, m, s, t)
  <2> DEFINE x == TheMessage(m, t, "none")
             y == TheMessage(m, t, "duplicate")
             u == <<x, y>>
  <2>1. x \in Mine(m) /\ y \in Mine(m) /\ x.time = t /\ y.time = t /\ y.fault = "duplicate"
    BY MineIs, PlainLabels DEF TheMessage, Message
  <2>2. y \notin P
    BY <2>1, FaultsAssumption DEF P, PromptOf, PromptLabels, ContentFaults
  <2>3. o.sent = w \o u
    BY <1>10 DEF SentTwice, w
  <2> HIDE DEF x, y
  <2>4. u \in Seq(Mine(m)) /\ DOMAIN u = {1, 2} /\ u[1] = x /\ u[2] = y
    BY <2>1
  <2> HIDE DEF u
  <2>5. ToSet(u) = {x, y} /\ Ascending(u, P)
    BY <2>2, <2>4 DEF ToSet, Ascending
  <2>6. Precede(w, u, P)
    BY <1>2, <2>1, <2>5 DEF Precede, EndBefore
  <2>7. Ascending(w \o u, P) /\ ToSet(w \o u) = ToSet(w) \cup ToSet(u)
    BY <1>2, <2>4, <2>5, <2>6, AscendingConcat, ToSetConcat
  <2>8. v = <<>>
    BY <1>4, <1>10 DEF SentTwice
  <2> QED
    BY <1>5, <2>1, <2>3, <2>5, <2>7, <2>8 DEF Precede
<1>11. CASE HeldBack(o, m, s, t)
  <2>1. o.sent = w /\ v = <<>>
    BY <1>4, <1>11 DEF HeldBack, w
  <2> QED
    BY <1>2, <1>5, <2>1 DEF Precede
<1> QED
  BY <1>1, <1>6, <1>7, <1>8, <1>9, <1>10, <1>11

\* Nothing that a meter sends in a round is labelled late.
LEMMA NoneSentLate ==
  ASSUME NEW m \in Meters, NEW s \in MeterStates, NEW t \in Rounds, NEW silence \in Silences,
         NEW o \in MeterTick(m, s, t, silence)
  PROVE  \A x \in ToSet(o.sent) : x.fault # "late"
<1> DEFINE w == Owed(m, s)
<1>1. /\ \/ Remembered(o, m, s, t) \/ Forgotten(o, m, s, t) \/ WentDown(o, m, s, t)
         \/ Sent(o, m, s, t) \/ SentTwice(o, m, s, t) \/ HeldBack(o, m, s, t)
  BY TickIs
<1>2. w \in Seq(Mine(m)) /\ \A x \in ToSet(w) : x.fault # "late"
  <2>1. /\ w \in Seq(Mine(m)) /\ DOMAIN w = DOMAIN s.missed
        /\ \A i \in DOMAIN s.missed : w[i] = TheMessage(m, s.missed[i], "backfill")
    BY OwedIs
  <2>a. \A u : TheMessage(m, u, "backfill").fault = "backfill"
    BY DEF TheMessage, Message
  <2> HIDE DEF w
  <2>2. \A i \in DOMAIN w : w[i].fault = "backfill"
    BY <2>1, <2>a
  <2> QED
    BY <2>1, <2>2 DEF ToSet
<1>3. \A u \in Seq(Mine(m)) : ToSet(w \o u) = ToSet(w) \cup ToSet(u)
  BY <1>2, ToSetConcat
<1>4. CASE o.sent = <<>> \/ o.sent = w
  BY <1>2, <1>4, ShortOnes
<1>5. CASE Sent(o, m, s, t)
  <2>1. PICK f \in {"none"} \cup Damages : \E x \in Build(m, t, f) : o.sent = w \o <<x>>
    BY <1>5 DEF Sent
  <2>a. PICK x \in Build(m, t, f) : o.sent = w \o <<x>>
    BY <2>1
  <2>2. f \in Labels /\ f # "late"
    BY FaultsAssumption DEF Labels, ContentFaults
  <2>3. x \in Mine(m) /\ x.fault # "late"
    BY <2>2, MineIs, BuildIs
  <2>4. <<x>> \in Seq(Mine(m)) /\ ToSet(<<x>>) = {x}
    BY <2>3, ShortOnes
  <2> HIDE DEF w
  <2> QED
    BY <1>2, <1>3, <2>a, <2>3, <2>4
<1>6. CASE SentTwice(o, m, s, t)
  <2> DEFINE x == TheMessage(m, t, "none")
             y == TheMessage(m, t, "duplicate")
  <2>1. x \in Mine(m) /\ y \in Mine(m) /\ x.fault # "late" /\ y.fault # "late"
    BY MineIs, PlainLabels DEF TheMessage, Message
  <2>2. o.sent = w \o <<x, y>>
    BY <1>6 DEF SentTwice
  <2> HIDE DEF x, y
  <2>3. <<x, y>> \in Seq(Mine(m)) /\ DOMAIN <<x, y>> = {1, 2}
    BY <2>1
  <2>4. ToSet(<<x, y>>) = {x, y}
    BY <2>3 DEF ToSet
  <2> HIDE DEF w
  <2> QED
    BY <1>2, <1>3, <2>1, <2>2, <2>3, <2>4
<1> QED
  BY <1>1, <1>4, <1>5, <1>6 DEF Remembered, Forgotten, WentDown, HeldBack

\* What a meter has sent, what of it waits in the outbox, and what it owes are
\* in this order, and all of it is of the past.
InLine(m, sent, waiting, owed, t) ==
  LET P == PromptOf(m) IN
  /\ Ascending(sent, P) /\ Ascending(waiting, P) /\ Ascending(owed, P)
  /\ Precede(sent, waiting, P) /\ Precede(sent, owed, P) /\ Precede(waiting, owed, P)
  /\ EndBefore(sent, P, t) /\ EndBefore(waiting, P, t) /\ EndBefore(owed, P, t)

Ordered ==
  /\ \A m \in Meters : InLine(m, topic, outbox, Owed(m, meters[m]), now)
  /\ \A x \in ToSet(outbox) :
       x.fault = "late" => \E n \in LateRounds : x.time + n < now

\* One meter's messages stay in order among those of the others.
LEMMA SentInOrder ==
  ASSUME MetersTypeOK, NEW silence \in Silences, NEW come, Ticks(come, silence),
         now <= LastRound
  PROVE  /\ \A x \in ToSet(SentBy(come)) : \E a \in Meters : x \in ToSet(come[a].sent)
         /\ \A m \in Meters : Ascending(come[m].sent, PromptOf(m)) =>
              /\ Ascending(SentBy(come), PromptOf(m))
              /\ ToSet(SentBy(come)) \cap PromptOf(m) \subseteq ToSet(come[m].sent)
<1> DEFINE ss == [a \in Meters |-> come[a].sent]
           S == FlattenSeq(ss)
<1>1. now \in Rounds /\ ss \in Seq(Seq(Made)) /\ Len(ss) = NumMeters /\ Meters = 1..Len(ss)
  BY SentHeldType DEF Meters
<1>2. S \in Seq(Made) /\ InOrder(S, ss, Len(ss))
  BY <1>1, FlattenInOrder
<1>3. SentBy(come) = S
  BY DEF SentBy
<1>4. \A a \in Meters : ss[a] = come[a].sent
  OBVIOUS
<1>5. ASSUME NEW a \in Meters, NEW p \in DOMAIN come[a].sent
      PROVE  come[a].sent[p].meter = a /\ come[a].sent[p] \in ToSet(come[a].sent)
  <2>1. meters[a] \in MeterStates /\ come[a] \in MeterTick(a, meters[a], now, silence)
    BY DEF MetersTypeOK, Ticks
  <2>2. come[a].sent \in Seq(Mine(a))
    BY <1>1, <2>1, TickType
  <2>3. come[a].sent[p] \in Mine(a)
    BY <2>2
  <2>4. come[a].sent[p].meter = a
    BY <2>3, MineIs
  <2> QED
    BY <2>4 DEF ToSet
<1> HIDE DEF ss, S
<1>6. ASSUME NEW j \in DOMAIN S
      PROVE  \E a \in Meters : \E p \in DOMAIN come[a].sent : S[j] = come[a].sent[p]
  <2>1. PICK a \in 1..Len(ss) : \E p \in DOMAIN ss[a] : S[j] = ss[a][p]
    BY <1>2 DEF InOrder
  <2> QED
    BY <1>1, <1>4, <2>1
<1>7. ASSUME NEW m \in Meters, Ascending(come[m].sent, PromptOf(m))
      PROVE  Ascending(S, PromptOf(m))
  <2> SUFFICES ASSUME NEW i \in DOMAIN S, NEW j \in DOMAIN S, i < j,
                      S[i] \in PromptOf(m), S[j] \in PromptOf(m)
               PROVE  S[i].time < S[j].time
    BY DEF Ascending
  <2>1. PICK a \in 1..Len(ss), b \in 1..Len(ss) :
          \E p \in DOMAIN ss[a], q \in DOMAIN ss[b] :
            S[i] = ss[a][p] /\ S[j] = ss[b][q] /\ (a < b \/ (a = b /\ p < q))
    BY <1>2 DEF InOrder
  <2>2. PICK p \in DOMAIN ss[a], q \in DOMAIN ss[b] :
          S[i] = ss[a][p] /\ S[j] = ss[b][q] /\ (a < b \/ (a = b /\ p < q))
    BY <2>1
  <2>3. S[i].meter = m /\ S[j].meter = m
    BY DEF PromptOf
  <2>4. a \in Meters /\ b \in Meters /\ ss[a] = come[a].sent /\ ss[b] = come[b].sent
    BY <1>1, <1>4
  <2>5. a = m /\ b = m
    BY <1>5, <2>2, <2>3, <2>4
  <2>6. /\ p \in DOMAIN come[m].sent /\ q \in DOMAIN come[m].sent
        /\ S[i] = come[m].sent[p] /\ S[j] = come[m].sent[q] /\ p < q
    BY <1>1, <2>2, <2>4, <2>5
  <2> QED
    BY <1>7, <2>6 DEF Ascending
<1>8. \A x \in ToSet(S) : \E a \in Meters : \E p \in DOMAIN come[a].sent : x = come[a].sent[p]
  BY <1>6 DEF ToSet
<1>9. \A x \in ToSet(S) : \E a \in Meters : x \in ToSet(come[a].sent) /\ x.meter = a
  BY <1>5, <1>8
<1>10. \A m \in Meters : ToSet(S) \cap PromptOf(m) \subseteq ToSet(come[m].sent)
  BY <1>9 DEF PromptOf
<1> QED
  BY <1>3, <1>7, <1>9, <1>10

\* What is released was held back until its time and is not among the prompt ones.
LEMMA ReleasedIsLate ==
  ASSUME MetersTypeOK
  PROVE  \A x \in ToSet(Messages(Due(now))) :
           /\ x.fault = "late" /\ \E n \in LateRounds : x.time + n < now + 1
           /\ \A m : x \notin PromptOf(m)
<1> DEFINE d == Due(now)
<1>1. /\ DueAt(now) \in SUBSET DOMAIN late /\ d \in Seq(LateOnes) /\ late \in Seq(LateOnes)
      /\ d = At(late, DueAt(now))
  BY DueType DEF MetersTypeOK, Due
<1>2. /\ DOMAIN Messages(d) = DOMAIN d /\ \A i \in DOMAIN d : Messages(d)[i] = d[i].message
  BY DEF Messages
<1>3. \A i \in DOMAIN d : d[i] \in LateOnes /\ d[i].release <= now
  <2>1. /\ Len(d) = Cardinality(DueAt(now))
        /\ \A n \in 1..Cardinality(DueAt(now)) :
             Nth(DueAt(now), n) \in DueAt(now) /\ d[n] = late[Nth(DueAt(now), n)]
    BY <1>1, AtIs
  <2>2. DOMAIN d = 1..Len(d)
    BY <1>1
  <2>3. \A i \in DOMAIN d : d[i] \in LateOnes
    BY <1>1
  <2> HIDE DEF d
  <2> QED
    BY <2>1, <2>2, <2>3 DEF DueAt
<1> HIDE DEF d
<1>4. ASSUME NEW i \in DOMAIN d
      PROVE  /\ d[i].message.fault = "late"
             /\ \E n \in LateRounds : d[i].message.time + n < now + 1
             /\ \A m : d[i].message \notin PromptOf(m)
  <2>1. /\ d[i] \in Held(Made) /\ d[i].message.fault = "late" /\ d[i].release <= now
        /\ \E n \in LateRounds : d[i].release = d[i].message.time + n
    BY <1>3 DEF LateOnes
  <2>2. d[i].release \in Int /\ now \in Nat
    BY <2>1 DEF Held, MetersTypeOK
  <2>3. \E n \in LateRounds : d[i].message.time + n < now + 1
    BY <2>1, <2>2
  <2>4. "late" \notin PromptLabels
    BY FaultsAssumption DEF PromptLabels, ContentFaults
  <2> QED
    BY <2>1, <2>3, <2>4 DEF PromptOf
<1>5. \A x \in ToSet(Messages(d)) : \E i \in DOMAIN d : x = d[i].message
  BY <1>2 DEF ToSet
<1> QED
  BY <1>4, <1>5 DEF d

\* After a round: S is what the meters sent, of which s is from the one, D what
\* was released, and V what it owes now.
LEMMA InLineGoesOn ==
  ASSUME NEW m, NEW T, NEW W, NEW O, NEW now1 \in Nat, InLine(m, T, W, O, now1),
         NEW s, NEW V, NEW S, NEW D, NEW P, P = PromptOf(m),
         Ascending(S, P), Ascending(V, P), Precede(s, V, P),
         \A x \in (ToSet(s) \cup ToSet(V)) \cap P : x \in ToSet(O) \/ x.time = now1,
         ToSet(S) \cap P \subseteq ToSet(s), ToSet(D) \cap P = {},
         NEW U, Ascending(U, P), ToSet(U) = ToSet(W) \cup ToSet(S) \cup ToSet(D),
         \A x \in P : x.time \in Nat
  PROVE  InLine(m, T, U, V, now1 + 1)
<1>1. /\ Ascending(T, P) /\ Ascending(W, P) /\ Ascending(O, P)
      /\ Precede(T, W, P) /\ Precede(T, O, P) /\ Precede(W, O, P)
      /\ EndBefore(T, P, now1) /\ EndBefore(W, P, now1) /\ EndBefore(O, P, now1)
  BY DEF InLine
<1>2. ASSUME NEW x \in (ToSet(T) \cup ToSet(W)) \cap P,
             NEW y \in (ToSet(S) \cup ToSet(V)) \cap P
      PROVE  x.time < y.time
  <2>1. y \in ToSet(O) \/ y.time = now1
    OBVIOUS
  <2> QED
    BY <1>1, <2>1 DEF Precede, EndBefore
<1>3. Precede(T, U, P) /\ Precede(T, V, P) /\ Precede(U, V, P)
  BY <1>1, <1>2 DEF Precede
<1>4. \A x \in (ToSet(T) \cup ToSet(W) \cup ToSet(S) \cup ToSet(V)) \cap P : x.time < now1 + 1
  <2> TAKE x \in (ToSet(T) \cup ToSet(W) \cup ToSet(S) \cup ToSet(V)) \cap P
  <2>1. x.time \in Nat
    OBVIOUS
  <2>2. x.time < now1 \/ x.time = now1
    BY <1>1 DEF EndBefore
  <2> QED
    BY <2>1, <2>2
<1>5. EndBefore(T, P, now1 + 1) /\ EndBefore(U, P, now1 + 1) /\ EndBefore(V, P, now1 + 1)
  BY <1>4 DEF EndBefore
<1> QED
  BY <1>1, <1>3, <1>5 DEF InLine

LEMMA RoundInOrder == MetersTypeOK /\ Ordered /\ Round => Ordered'
<1> SUFFICES ASSUME MetersTypeOK, Ordered, Round PROVE Ordered'
  OBVIOUS
<1>1. PICK silence \in Silences :
        \E come :
           /\ Ticks(come, silence) /\ now <= LastRound
           /\ meters' = [m \in Meters |-> come[m].state]
           /\ outbox' = outbox \o SentBy(come) \o Messages(Due(now))
           /\ late' = FoldLeft(Hold, At(late, DOMAIN late \ DueAt(now)), HeldBy(come))
           /\ lost' = lost \cup {TheMessage(m, now, "forgotten") :
                                   m \in {m \in Meters : come[m].forgotten}}
           /\ measured' = measured \cup {now} /\ now' = now + 1 /\ topic' = topic
  BY RoundIs
<1>2. PICK come :
           /\ Ticks(come, silence) /\ now <= LastRound
           /\ meters' = [m \in Meters |-> come[m].state]
           /\ outbox' = outbox \o SentBy(come) \o Messages(Due(now))
           /\ measured' = measured \cup {now} /\ now' = now + 1 /\ topic' = topic
  BY <1>1
<1> DEFINE S == SentBy(come)
           D == Messages(Due(now))
           U == outbox \o S \o D
<1>3. now \in Rounds /\ now \in Nat /\ S \in Seq(Made) /\ D \in Seq(Made) /\ outbox \in Seq(Made)
  BY <1>2, SentHeldType, DueType DEF MetersTypeOK
<1>4. /\ outbox \o S \in Seq(Made)
      /\ ToSet(U) = ToSet(outbox) \cup ToSet(S) \cup ToSet(D)
  <2>1. outbox \o S \in Seq(Made)
    BY <1>3
  <2>2. ToSet(outbox \o S) = ToSet(outbox) \cup ToSet(S)
    BY <1>3, ToSetConcat
  <2>3. ToSet((outbox \o S) \o D) = ToSet(outbox \o S) \cup ToSet(D)
    BY ZenonT(60), <1>3, <2>1, ToSetConcat
  <2> QED
    BY <2>1, <2>2, <2>3
<1>5. \A x \in ToSet(D) : /\ x.fault = "late" /\ \E n \in LateRounds : x.time + n < now + 1
                          /\ \A m : x \notin PromptOf(m)
  BY ReleasedIsLate
<1>6. ASSUME NEW m \in Meters
      PROVE  InLine(m, topic', outbox', Owed(m, meters'[m]), now')
  <2> DEFINE P == PromptOf(m)
             O == Owed(m, meters[m])
             o == come[m]
             V == Owed(m, o.state)
  <2>1. meters[m] \in MeterStates /\ o \in MeterTick(m, meters[m], now, silence)
    BY <1>2 DEF MetersTypeOK, Ticks
  <2>2. InLine(m, topic, outbox, O, now)
    BY DEF Ordered
  <2>3. Ascending(O, P) /\ EndBefore(O, P, now)
    BY <2>2 DEF InLine
  <2>4. Continues(o, m, meters[m], now)
    BY <1>3, <2>1, <2>3, TickContinues
  <2>5. /\ Ascending(o.sent, P) /\ Ascending(V, P) /\ Precede(o.sent, V, P)
        /\ \A x \in (ToSet(o.sent) \cup ToSet(V)) \cap P : x \in ToSet(O) \/ x.time = now
    BY <2>4 DEF Continues
  <2>6. Ascending(S, P) /\ ToSet(S) \cap P \subseteq ToSet(o.sent)
    BY <1>2, <2>5, SentInOrder
  <2>7. ToSet(D) \cap P = {}
    BY <1>5
  <2>8. \A x \in P : x.time \in Nat
    <3>1. \A x \in Made : x.time \in Rounds
      BY MineIs DEF Made
    <3> QED
      BY <3>1 DEF PromptOf, Rounds
  <2> HIDE DEF P, O, o, V, S, D
  <2>9. Ascending(U, P)
    <3>1. Ascending(outbox, P)
      BY <2>2 DEF InLine, P
    <3>2. Precede(outbox, S, P)
      <4> SUFFICES ASSUME NEW x \in ToSet(outbox) \cap P, NEW y \in ToSet(S) \cap P
                   PROVE  x.time < y.time
        BY DEF Precede
      <4>1. y \in ToSet(O) \/ y.time = now
        BY <2>5, <2>6
      <4>2. Precede(outbox, O, P) /\ EndBefore(outbox, P, now)
        BY <2>2 DEF InLine, P
      <4> QED
        BY <4>1, <4>2 DEF Precede, EndBefore
    <3>3. Ascending(outbox \o S, P)
      BY <1>3, <2>6, <3>1, <3>2, AscendingConcat
    <3>4. Ascending(D, P) /\ Precede(outbox \o S, D, P)
      BY <2>7 DEF Ascending, Precede, ToSet
    <3> QED
      BY <1>3, <1>4, <3>3, <3>4, AscendingConcat
  <2> HIDE DEF U
  <2>10. InLine(m, topic, U, V, now + 1)
    BY <1>3, <1>4, <2>2, <2>5, <2>6, <2>7, <2>8, <2>9, InLineGoesOn DEF P
  <2>11. meters'[m] = o.state
    BY <1>2 DEF o
  <2> QED
    BY <1>2, <2>10, <2>11 DEF U, V, S, D
<1>7. ASSUME NEW x \in ToSet(outbox'), x.fault = "late"
      PROVE  \E n \in LateRounds : x.time + n < now'
  <2>1. x \in ToSet(outbox) \/ x \in ToSet(S) \/ x \in ToSet(D)
    BY <1>2, <1>4, <1>7
  <2>2. x \notin ToSet(S)
    <3> SUFFICES ASSUME x \in ToSet(S) PROVE FALSE
      OBVIOUS
    <3>1. PICK a \in Meters : x \in ToSet(come[a].sent)
      BY <1>2, SentInOrder
    <3>2. meters[a] \in MeterStates /\ come[a] \in MeterTick(a, meters[a], now, silence)
      BY <1>2 DEF MetersTypeOK, Ticks
    <3> QED
      BY <1>3, <1>7, <3>1, <3>2, NoneSentLate
  <2>3. CASE x \in ToSet(outbox)
    <3>1. PICK n \in LateRounds : x.time + n < now
      BY <1>7, <2>3 DEF Ordered
    <3>2. x.time \in Nat /\ n \in Nat
      <4>1. x \in Made
        BY <1>3, <2>3, ToSetIs
      <4> QED
        BY <4>1, MineIs, RoundsAssumption DEF Made, Rounds
    <3> QED
      BY <1>2, <1>3, <3>1, <3>2
  <2>4. CASE x \in ToSet(D)
    BY <1>2, <1>5, <2>4
  <2> QED
    BY <2>1, <2>2, <2>3, <2>4
<1> QED
  BY <1>6, <1>7 DEF Ordered

\* Handing the first of the waiting messages on keeps the line, and so does
\* dropping it.
LEMMA HeadGoes ==
  ASSUME NEW m, NEW X, NEW T \in Seq(X), NEW W \in Seq(X), W # <<>>, NEW O, NEW t,
         InLine(m, T, W, O, t)
  PROVE  /\ InLine(m, Append(T, Head(W)), Tail(W), O, t)
         /\ InLine(m, T, Tail(W), O, t)
         /\ ToSet(Tail(W)) \subseteq ToSet(W)
<1> DEFINE P == PromptOf(m)
           one == <<Head(W)>>
           rest == Tail(W)
           longer == T \o one
<1>1. one \in Seq(X) /\ rest \in Seq(X) /\ W = one \o rest /\ Append(T, Head(W)) = longer
  OBVIOUS
<1>2. /\ Ascending(T, P) /\ Ascending(W, P) /\ Ascending(O, P)
      /\ Precede(T, W, P) /\ Precede(T, O, P) /\ Precede(W, O, P)
      /\ EndBefore(T, P, t) /\ EndBefore(W, P, t) /\ EndBefore(O, P, t)
  BY DEF InLine
<1> HIDE DEF P, one, rest
<1>3. ToSet(W) = ToSet(one) \cup ToSet(rest)
  <2>1. ToSet(one \o rest) = ToSet(one) \cup ToSet(rest)
    BY <1>1, ToSetConcat
  <2> QED
    BY <1>1, <2>1
<1>4. Ascending(one, P) /\ Ascending(rest, P) /\ Precede(one, rest, P)
  <2>1. Ascending(one \o rest, P)
    BY <1>1, <1>2
  <2> QED
    BY <1>1, <2>1, AscendingConcat
<1>5. Precede(T, one, P) /\ Precede(T, rest, P) /\ Precede(rest, O, P) /\ Precede(one, O, P)
  BY <1>2, <1>3 DEF Precede
<1>6. Ascending(longer, P) /\ ToSet(longer) = ToSet(T) \cup ToSet(one)
  <2>1. Ascending(T \o one, P)
    BY <1>1, <1>2, <1>4, <1>5, AscendingConcat
  <2>2. ToSet(T \o one) = ToSet(T) \cup ToSet(one)
    BY <1>1, ToSetConcat
  <2> QED
    BY <2>1, <2>2
<1> HIDE DEF longer
<1>7. /\ Precede(longer, rest, P) /\ Precede(longer, O, P) /\ EndBefore(longer, P, t)
      /\ EndBefore(rest, P, t)
  BY <1>2, <1>3, <1>4, <1>5, <1>6 DEF Precede, EndBefore
<1>8. InLine(m, longer, rest, O, t) /\ InLine(m, T, rest, O, t)
  BY <1>2, <1>4, <1>5, <1>6, <1>7 DEF InLine, P
<1> QED
  BY <1>1, <1>3, <1>8 DEF rest

LEMMA OrderedStep == MetersTypeOK /\ Ordered /\ MeterNext => Ordered'
<1> SUFFICES ASSUME MetersTypeOK, Ordered, MeterNext PROVE Ordered'
  OBVIOUS
<1>0. /\ topic \in Seq(Made \cup Strays) /\ outbox \in Seq(Made \cup Strays) /\ now \in Nat
      /\ \A m \in Meters : InLine(m, topic, outbox, Owed(m, meters[m]), now)
  BY DEF MetersTypeOK, Ordered
<1>1. CASE Round
  BY <1>1, RoundInOrder
<1>2. CASE FallsBehind \/ IsDown \/ Start
  <2>1. UNCHANGED <<meters, outbox, topic>> /\ now' \in {now, now + 1}
    BY <1>2 DEF FallsBehind, IsDown, RoundPasses, Start
  <2>2. ASSUME NEW m \in Meters PROVE InLine(m, topic', outbox', Owed(m, meters'[m]), now')
    <3> DEFINE P == PromptOf(m)
               O == Owed(m, meters[m])
    <3>1. \A x \in P : x.time \in Nat
      <4>1. \A x \in Made : x.time \in Rounds
        BY MineIs DEF Made
      <4> QED
        BY <4>1 DEF PromptOf, Rounds
    <3>2. InLine(m, topic, outbox, O, now)
      BY <1>0
    <3> HIDE DEF O
    <3>3. InLine(m, topic, outbox, O, now + 1)
      BY <1>0, <3>1, <3>2 DEF InLine, EndBefore
    <3> QED
      BY <2>1, <3>2, <3>3 DEF O
  <2>3. ASSUME NEW x \in ToSet(outbox'), x.fault = "late"
        PROVE  \E n \in LateRounds : x.time + n < now'
    <3>1. PICK n \in LateRounds : x.time + n < now
      BY <2>1, <2>3 DEF Ordered
    <3>2. x.time \in Nat /\ n \in Nat
      <4>1. x \in Made
        BY <2>1, <2>3, ToSetIs DEF MetersTypeOK
      <4> QED
        BY <4>1, MineIs, RoundsAssumption DEF Made, Rounds
    <3> QED
      BY <1>0, <2>1, <3>1, <3>2
  <2> QED
    BY <2>2, <2>3 DEF Ordered
<1>3. CASE Send \/ DeliveryFails
  <2>1. /\ outbox # <<>> /\ outbox' = Tail(outbox) /\ UNCHANGED <<now, meters>>
        /\ topic' = Append(topic, Head(outbox)) \/ topic' = topic
    BY <1>3 DEF Send, DeliveryFails
  <2>2. ASSUME NEW m \in Meters
        PROVE  /\ InLine(m, topic', outbox', Owed(m, meters'[m]), now')
               /\ ToSet(Tail(outbox)) \subseteq ToSet(outbox)
    <3> DEFINE O == Owed(m, meters[m])
    <3>1. InLine(m, topic, outbox, O, now)
      BY <1>0
    <3> HIDE DEF O
    <3>2. /\ InLine(m, Append(topic, Head(outbox)), Tail(outbox), O, now)
          /\ InLine(m, topic, Tail(outbox), O, now)
          /\ ToSet(Tail(outbox)) \subseteq ToSet(outbox)
      BY <1>0, <2>1, <3>1, HeadGoes
    <3> QED
      BY <2>1, <3>2 DEF O
  <2>3. ToSet(Tail(outbox)) \subseteq ToSet(outbox)
    <3>1. Head(outbox) \in Made /\ Tail(outbox) \in Seq(Made) /\ <<Head(outbox)>> \in Seq(Made)
      BY <2>1 DEF MetersTypeOK
    <3>2. outbox = <<Head(outbox)>> \o Tail(outbox)
      BY <2>1 DEF MetersTypeOK
    <3>3. ToSet(<<Head(outbox)>> \o Tail(outbox)) = ToSet(<<Head(outbox)>>) \cup ToSet(Tail(outbox))
      BY ZenonT(60), <3>1, ToSetConcat
    <3> QED
      BY <3>2, <3>3
  <2> QED
    BY <2>1, <2>2, <2>3 DEF Ordered
<1>4. CASE Stop
  <2>1. meters' = [m \in Meters |-> Online] /\ outbox' = <<>> /\ topic' = topic /\ now' = now
    BY <1>4 DEF Stop
  <2>2. ASSUME NEW m \in Meters PROVE InLine(m, topic', outbox', Owed(m, meters'[m]), now')
    <3>1. Owed(m, meters'[m]) = <<>>
      <4>1. Online \in MeterStates /\ Online.missed = <<>> /\ meters'[m] = Online
        BY <2>1 DEF Online, MeterStates, NoOutage
      <4>2. Owed(m, Online) \in Seq(Mine(m)) /\ Len(Owed(m, Online)) = 0
        BY <4>1, OwedIs
      <4> QED
        BY <4>1, <4>2
    <3>2. InLine(m, topic, outbox, Owed(m, meters[m]), now)
      BY <1>0
    <3>3. ToSet(<<>>) = {} /\ Ascending(<<>>, PromptOf(m))
      BY ShortOnes
    <3>4. InLine(m, topic, <<>>, <<>>, now)
      BY <3>2, <3>3 DEF InLine, Precede, EndBefore
    <3> QED
      BY <2>1, <3>1, <3>4
  <2>3. ToSet(outbox') = {}
    BY <2>1, ShortOnes
  <2> QED
    BY <2>2, <2>3 DEF Ordered
<1> QED
  BY <1>1, <1>2, <1>3, <1>4 DEF MeterNext

LEMMA StrangeInOrder == MetersTypeOK /\ Ordered /\ SendStrange => Ordered'
<1> SUFFICES ASSUME MetersTypeOK, Ordered, SendStrange PROVE Ordered'
  OBVIOUS
<1>1. PICK b \in Strange : topic' = Append(topic, Message(0, LongAgo, "strange", b))
  BY DEF SendStrange
<1>2. UNCHANGED <<now, meters, outbox>>
  BY DEF SendStrange
<1> DEFINE x == Message(0, LongAgo, "strange", b)
           one == <<x>>
<1>3. /\ topic \in Seq(Made \cup Strays) /\ one \in Seq(Made \cup Strays)
      /\ topic' = topic \o one
  <2>1. x \in Made \cup Strays
    BY DEF Strays
  <2> HIDE DEF x
  <2> QED
    BY <1>1, <2>1 DEF MetersTypeOK, x
<1>4. ToSet(one) = {x} /\ \A m \in Meters : x \notin PromptOf(m) /\ Ascending(one, PromptOf(m))
  <2>1. \A m \in Meters : x \notin PromptOf(m)
    BY RoundsAssumption DEF PromptOf, Message, Meters
  <2> HIDE DEF x
  <2> QED
    BY <2>1, ShortOnes
<1> HIDE DEF x, one
<1>5. ASSUME NEW m \in Meters PROVE InLine(m, topic', outbox', Owed(m, meters'[m]), now')
  <2> DEFINE P == PromptOf(m)
             O == Owed(m, meters[m])
             longer == topic \o one
  <2>1. InLine(m, topic, outbox, O, now)
    BY DEF Ordered
  <2>2. ToSet(longer) = ToSet(topic) \cup {x}
    <3>1. ToSet(topic \o one) = ToSet(topic) \cup ToSet(one)
      BY <1>3, ToSetConcat
    <3> QED
      BY <1>4, <3>1
  <2>3. x \notin P /\ Ascending(one, P)
    BY <1>4
  <2> HIDE DEF P, O
  <2>4. Ascending(longer, P)
    <3>1. Ascending(topic, P)
      BY <2>1 DEF InLine, P
    <3>2. Precede(topic, one, P)
      BY <1>4, <2>3 DEF Precede
    <3>3. Ascending(topic \o one, P)
      BY <1>3, <2>3, <3>1, <3>2, AscendingConcat
    <3> QED
      BY <3>3
  <2> HIDE DEF longer
  <2>5. InLine(m, longer, outbox, O, now)
    BY <2>1, <2>2, <2>3, <2>4 DEF InLine, Precede, EndBefore, P
  <2> QED
    BY <1>2, <1>3, <2>5 DEF longer, O
<1> QED
  BY <1>2, <1>5 DEF Ordered

\* What is in the topic or waits: the strange messages are not prompt.
LEMMA PromptInOrder ==
  ASSUME MetersTypeOK, Ordered, NEW i \in DOMAIN Prompt, NEW j \in DOMAIN Prompt,
         i < j, Prompt[i].meter = Prompt[j].meter
  PROVE  Prompt[i].time < Prompt[j].time
<1> DEFINE sent == topic \o outbox
           I == {k \in DOMAIN sent : sent[k].fault \in PromptLabels}
<1>1. /\ topic \in Seq(Made \cup Strays) /\ outbox \in Seq(Made \cup Strays)
      /\ sent \in Seq(Made \cup Strays)
  <2>1. topic \in Seq(Made \cup Strays) /\ outbox \in Seq(Made \cup Strays)
    BY DEF MetersTypeOK
  <2> QED
    BY <2>1
<1>2. Prompt = At(sent, I)
  BY DEF Prompt, PromptLabels
<1>3. I \in SUBSET DOMAIN sent /\ \A k \in I : sent[k].fault \in PromptLabels
  OBVIOUS
<1> HIDE DEF I
<1>4. /\ Cardinality(I) \in Nat /\ Len(Prompt) = Cardinality(I) /\ Prompt \in Seq(Made \cup Strays)
      /\ \A n \in 1..Cardinality(I) : Nth(I, n) \in I /\ Prompt[n] = sent[Nth(I, n)]
      /\ \A n, k \in 1..Cardinality(I) : n < k => Nth(I, n) < Nth(I, k)
  <2> HIDE DEF sent
  <2> QED
    BY ZenonT(60), <1>1, <1>2, <1>3, AtIs
<1>5. i \in 1..Cardinality(I) /\ j \in 1..Cardinality(I)
  BY <1>4
<1> DEFINE p == Nth(I, i)
           q == Nth(I, j)
           m == Prompt[i].meter
<1>6. p \in I /\ q \in I /\ p < q /\ Prompt[i] = sent[p] /\ Prompt[j] = sent[q]
  BY <1>4, <1>5
<1> HIDE DEF p, q
<1>7. ASSUME NEW k \in I PROVE sent[k] \in Made /\ sent[k].meter \in Meters
  <2>1. sent[k] \in Made \cup Strays /\ sent[k].fault \in PromptLabels
    <3> HIDE DEF sent
    <3> QED
      BY <1>1, <1>3
  <2>2. \A y \in Strays : y.fault = "strange"
    BY DEF Strays, Message
  <2>3. "strange" \notin PromptLabels
    BY FaultsAssumption DEF PromptLabels, ContentFaults
  <2>4. \A y \in Made : y.meter \in Meters
    BY MineIs DEF Made
  <2> HIDE DEF sent
  <2> QED
    BY <2>1, <2>2, <2>3, <2>4
<1>8. m \in Meters /\ sent[p] \in PromptOf(m) /\ sent[q] \in PromptOf(m)
  <2>1. sent[p] \in Made /\ sent[p].meter \in Meters /\ sent[q] \in Made
        /\ sent[p].fault \in PromptLabels /\ sent[q].fault \in PromptLabels
    BY <1>3, <1>6, <1>7
  <2> HIDE DEF sent
  <2> QED
    BY <1>6, <2>1 DEF PromptOf
<1> HIDE DEF m
<1>9. Ascending(sent, PromptOf(m))
  <2>1. InLine(m, topic, outbox, Owed(m, meters[m]), now)
    BY <1>8 DEF Ordered
  <2>2. /\ Ascending(topic, PromptOf(m)) /\ Ascending(outbox, PromptOf(m))
        /\ Precede(topic, outbox, PromptOf(m))
    BY <2>1 DEF InLine
  <2> QED
    BY <1>1, <2>2, AscendingConcat
<1>10. p \in DOMAIN sent /\ q \in DOMAIN sent
  BY <1>3, <1>6
<1> HIDE DEF sent
<1> QED
  BY <1>6, <1>8, <1>9, <1>10 DEF Ascending

LEMMA AccountsStep ==
  TypeOK /\ Accounted /\ Ordered /\ [Next]_vars => Accounted' /\ Ordered'
<1> SUFFICES ASSUME TypeOK, Accounted, Ordered, [Next]_vars PROVE Accounted' /\ Ordered'
  OBVIOUS
<1>0. MetersTypeOK
  BY DEF TypeOK
<1>1. CASE Meter
  <2>1. Ordered'
    BY <1>0, <1>1, OrderedStep DEF Meter
  <2>2. Accounted'
    BY <1>0, <1>1, RoundAccounts, SendAccounts, IdleAccounts, FailureAccounts, StopAccounts
       DEF Meter, MeterNext
  <2> QED
    BY <2>1, <2>2
<1>2. CASE SendStrange
  BY <1>0, <1>2, StrangeAccounts, StrangeInOrder
<1>3. CASE Ingest \/ Publish \/ Revise \/ Settle \/ UNCHANGED vars
  <2>1. simulator' = simulator
    <3>1. CASE Ingest
      BY <3>1 DEF Ingest
    <3>2. CASE Publish
      BY <3>2 DEF Publish
    <3>3. CASE Revise
      BY <3>3 DEF Revise
    <3>4. CASE Settle
      BY <3>4 DEF Settle
    <3>5. CASE UNCHANGED vars
      BY <3>5 DEF vars
    <3> QED
      BY <1>3, <3>1, <3>2, <3>3, <3>4, <3>5
  <2>2. UNCHANGED <<now, meters, late, outbox, topic, measured, lost>>
    BY <2>1 DEF simulator
  <2>3. \A m \in Meters, u \in Rounds : Places(m, u)' = Places(m, u)
    BY <2>2 DEF Places
  <2> QED
    BY <2>2, <2>3 DEF Accounted, Ordered
<1> QED
  BY <1>1, <1>2, <1>3 DEF Next

LEMMA AccountsInit == Init => Accounted /\ Ordered
<1> SUFFICES ASSUME Init PROVE Accounted /\ Ordered
  OBVIOUS
<1>1. /\ meters = [m \in Meters |-> Online] /\ late = <<>> /\ outbox = <<>> /\ topic = <<>>
      /\ measured = {} /\ lost = {} /\ now = 0
  BY DEF Init, MeterInit
<1>2. ASSUME NEW m \in Meters
      PROVE  meters[m].missed = <<>> /\ Owed(m, meters[m]) = <<>>
  <2>1. Online \in MeterStates /\ Online.missed = <<>> /\ meters[m] = Online
    BY <1>1 DEF Online, MeterStates, NoOutage
  <2>2. Owed(m, Online) \in Seq(Mine(m)) /\ Len(Owed(m, Online)) = 0
    BY <2>1, OwedIs
  <2> QED
    BY <2>1, <2>2
<1>3. ASSUME NEW m \in Meters, NEW u \in Rounds PROVE Places(m, u) = 0
  <2>1. /\ CountIn(topic, About(m, u)) = 0 /\ CountIn(outbox, About(m, u)) = 0
        /\ CountIn(late, HeldAbout(m, u)) = 0 /\ CountIn(meters[m].missed, {u}) = 0
    BY <1>1, <1>2, CountEmpty
  <2>2. lost \cap About(m, u) = {} /\ Cardinality({}) = 0
    BY <1>1, FS_EmptySet
  <2>3. Cardinality(lost \cap About(m, u)) = 0
    BY <2>2
  <2> QED
    BY <2>1, <2>3 DEF Places
<1>4. Accounted
  BY <1>1, <1>3 DEF Accounted
<1>5. \A P : Ascending(<<>>, P) /\ ToSet(<<>>) = {}
  BY ShortOnes
<1>6. ASSUME NEW m \in Meters PROVE InLine(m, topic, outbox, Owed(m, meters[m]), now)
  <2>1. InLine(m, <<>>, <<>>, <<>>, now)
    BY <1>5 DEF InLine, Precede, EndBefore
  <2> QED
    BY <1>1, <1>2, <2>1
<1> QED
  BY <1>1, <1>4, <1>5, <1>6 DEF Ordered

\* However silences, outages, late readings, failed deliveries and stops
\* overlap: every interval measured is sent once, still owed, held back, or
\* knowingly lost, a meter's readings go out in the order they were taken, and
\* a late one not before its time (MeterSimulator.tick, on_delivery and run).
THEOREM NoReadingGoesMissing == Spec => []EveryReadingIsAccountedFor
<1>1. Init => TypeOK /\ Accounted /\ Ordered
  BY TypeInit, AccountsInit
<1>2. TypeOK /\ Accounted /\ Ordered /\ [Next]_vars => (TypeOK /\ Accounted /\ Ordered)'
  BY TypeStep, AccountsStep
<1>3. TypeOK /\ Accounted /\ Ordered => EveryReadingIsAccountedFor
  <2> SUFFICES ASSUME TypeOK, Accounted, Ordered PROVE EveryReadingIsAccountedFor
    OBVIOUS
  <2>0. MetersTypeOK
    BY DEF TypeOK
  <2>1. \A m \in Meters, t \in Rounds : Placed(m, t) = IF t \in measured THEN 1 ELSE 0
    <3> TAKE m \in Meters, t \in Rounds
    <3>1. Placed(m, t) = Places(m, t)
      BY <2>0, PlacedIs
    <3> QED
      BY <3>1 DEF Accounted
  <2>2. \A i, j \in DOMAIN Prompt :
          i < j /\ Prompt[i].meter = Prompt[j].meter => Prompt[i].time < Prompt[j].time
    BY <2>0, PromptInOrder
  <2>3. \A i \in DOMAIN outbox :
          outbox[i].fault = "late" => \E n \in LateRounds : outbox[i].time + n < now
    BY DEF Ordered, ToSet
  <2> QED
    BY <2>1, <2>2, <2>3 DEF EveryReadingIsAccountedFor
<1> QED
  BY <1>1, <1>2, <1>3, PTL DEF Spec
=============================================================================
