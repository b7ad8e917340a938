------------------------------ MODULE Validation ------------------------------
(***************************************************************************)
(* The rules every reading and every reference record must pass, declared  *)
(* once as a table of fields and applied by two validators: one record at  *)
(* a time (validate_record) and a whole batch, column by column            *)
(* (validate_frame, validate_json_frame).                                  *)
(*                                                                         *)
(* Data: a message is JSON or not; the value of a field is its class, that *)
(* is, what the rules tell apart.  `damage` maps fields to classes, and a  *)
(* field it does not mention is as it should be.                           *)
(***************************************************************************)
EXTENDS Integers, FiniteSetsExt, SequencesExt

\* absent: no key, null, "" or NaN.   text: some other string.
\* low, high: numbers outside every range.   huge: an integer no float holds.
\* future: a timestamp beyond the tolerance.
\* surrogate: a string with half of a surrogate pair, which JSON has an escape
\* for and UTF-8 has not.
Classes == {"valid", "absent", "text", "bool", "list", "low", "high", "huge", "future",
            "surrogate"}

Field(name, dtype, required) == [name |-> name, dtype |-> dtype, required |-> required]

MeterReadingFields == <<
  Field("event_id", "string", TRUE), Field("meter_id", "string", TRUE),
  Field("household_id", "string", TRUE), Field("grid_zone", "string", TRUE),
  Field("power_consumption_kwh", "double", TRUE),
  Field("solar_generation_kwh", "double", TRUE),
  Field("voltage_v", "double", FALSE), Field("event_time", "timestamp", TRUE),
  Field("ingest_time", "timestamp", FALSE), Field("correlation_id", "string", FALSE),
  Field("schema_version", "string", FALSE) >>

TariffRecordFields == <<
  Field("household_id", "string", TRUE), Field("tariff_rate", "double", TRUE),
  Field("billing_tier", "string", TRUE), Field("subsidy_flag", "boolean", TRUE),
  Field("fixed_charge", "double", TRUE), Field("effective_date", "timestamp", TRUE) >>

WeatherRecordFields == <<
  Field("grid_zone", "string", TRUE), Field("forecast_date", "timestamp", TRUE),
  Field("cloud_cover_pct", "double", TRUE), Field("temperature_c", "double", TRUE),
  Field("irradiance_index", "double", TRUE) >>

NotJson     == [json |-> FALSE, damage |-> <<>>]
Body(damage) == [json |-> TRUE, damage |-> damage]
Clean       == Body(<<>>)

\* The whole message is at fault: nested deeper than json.loads recurses.
Unreadable     == [json |-> FALSE, damage |-> [raw_value |-> "unreadable"]]
Readable(body) == "raw_value" \notin DOMAIN body.damage

\* A message that is not an object has no field at all.
ClassOf(body, name) ==
  CASE ~body.json                      -> "absent"
    [] name \in DOMAIN body.damage     -> body.damage[name]
    [] OTHER                           -> "valid"

-----------------------------------------------------------------------------
(* Coercion.                                                               *)

\* A boolean is no number, but it is epoch seconds to _parse_timestamp.
WrongType ==
  [string    |-> {"bool", "list"},
   double    |-> {"text", "surrogate", "future", "bool", "list"},
   boolean   |-> {"text", "surrogate", "future", "low", "high", "huge", "list"},
   timestamp |-> {"text", "surrogate", "huge", "list"}]

\* Mutant of Raises: an epoch out of range is raised, not rejected.
RaisesOnEpoch(spec, class) == spec.dtype \in {"double", "timestamp"} /\ class = "huge"

\* What escapes `except (TypeError, ValueError)`: float() of an integer it
\* cannot hold is an OverflowError.
Raises(spec, class) == spec.dtype = "double" /\ class = "huge"

\* Every field of type double has both a minimum and a maximum.
OutOfRange(spec, class) == spec.dtype = "double" /\ class \in {"low", "high"}

Fault(spec, class) ==
  CASE class = "absent"                   -> IF spec.required THEN "missing_field" ELSE "none"
    [] Raises(spec, class)                -> "raises"
    [] class \in WrongType[spec.dtype]    -> "wrong_type"
    [] OutOfRange(spec, class)            -> "out_of_range"
    [] OTHER                              -> "none"

-----------------------------------------------------------------------------
(* The two validators.  A verdict is the reason to quarantine, or "none".  *)

\* validate_record: the first field at fault decides.  `known` says whether
\* the household is looked up; only "valid" is one of the fleet's.
RowVerdict(body, specs, known) ==
  LET faultAt(i) == Fault(specs[i], ClassOf(body, specs[i].name))
      faulty     == {i \in DOMAIN specs : faultAt(i) # "none"}
  IN CASE ~body.json                                            -> "malformed_json"
       [] body.json /\ faulty # {}                              -> faultAt(Min(faulty))
       [] body.json /\ faulty = {} /\ known
            /\ ClassOf(body, "household_id") # "valid"          -> "unknown_household"
       [] body.json /\ faulty = {} /\ ClassOf(body, "event_time") = "future"
            /\ ~(known /\ ClassOf(body, "household_id") # "valid") -> "future_timestamp"
       [] OTHER                                                 -> "none"

\* Strings are handed to Arrow as they are, those of rejected rows too.
Inconvertible(spec, class) == spec.dtype = "string" /\ class = "surrogate"

\* What makes a batch raise, whatever else is in it: a RecursionError, which is
\* neither of the errors caught around json.loads; a value whose coercion raises,
\* every column being coerced whatever the row already failed on; and a string
\* that mapInPandas cannot return.
FrameRaises(batch, specs) ==
  \E r \in DOMAIN batch :
    \/ ~Readable(batch[r])
    \/ \E i \in DOMAIN specs :
         LET class == ClassOf(batch[r], specs[i].name)
         IN Raises(specs[i], class) \/ Inconvertible(specs[i], class)

\* Fails the rows of a mask that have not failed yet.
Fail(reason, why, mask) ==
  [r \in DOMAIN reason |-> IF r \in mask /\ reason[r] = "none" THEN why ELSE reason[r]]

\* One column: missing, then of the wrong type, then out of range.
FailColumn(reason, spec, batch) ==
  LET rows(Test(_)) == {r \in DOMAIN batch : Test(ClassOf(batch[r], spec.name))}
      missing == rows(LAMBDA c : c = "absent")
      bad     == rows(LAMBDA c : c \in WrongType[spec.dtype])
      outside == rows(LAMBDA c : OutOfRange(spec, c))
      checked == IF spec.required THEN Fail(reason, "missing_field", missing) ELSE reason
  IN Fail(Fail(checked, "wrong_type", bad), "out_of_range", outside)

\* Rows that are no object went through the columns as empty ones.
Malformed(reason, batch) ==
  [r \in DOMAIN reason |-> IF batch[r].json THEN reason[r] ELSE "malformed_json"]

FrameVerdicts(batch, specs) ==
  LET clear    == [r \in DOMAIN batch |-> "none"]
      columns  == FoldLeft(LAMBDA reason, spec : FailColumn(reason, spec, batch),
                           clear, specs)
      stranger == {r \in DOMAIN batch : ClassOf(batch[r], "household_id") # "valid"}
      future   == {r \in DOMAIN batch : ClassOf(batch[r], "event_time") = "future"}
  IN Malformed(Fail(Fail(columns, "unknown_household", stranger),
                    "future_timestamp", future), batch)

\* A valid reading as it is archived: every value typed, or still absent.
Typed(body) ==
  Body([f \in {f \in DOMAIN body.damage : body.damage[f] = "absent"} |-> "absent"])
=============================================================================
