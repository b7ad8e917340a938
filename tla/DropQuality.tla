----------------------------- MODULE DropQuality ------------------------------
(***************************************************************************)
(* The daily drop: what the publisher renders, the ways it is damaged on   *)
(* purpose, and the gate that judges it before a day is settled.           *)
(*                                                                         *)
(* Data: a file is what it contains, and its checksum is itself.  A line   *)
(* of household_tariffs is a tariff record; a line cut short is one that   *)
(* is not JSON.  Findings are the set of checks that found something.      *)
(***************************************************************************)
EXTENDS Validation, Billing, Subsequences

CONSTANTS
  Households,  \* the fleet
  TierOf,      \* a household's tariff tier
  Subsidised,  \* the households with a subsidy
  Zones

\* build_fleet refuses a fleet without households.
ASSUME FleetAssumption ==
  /\ TierOf \in [Households -> DOMAIN DefaultSchedule.tiers]
  /\ Subsidised \subseteq Households
  /\ IsFiniteSet(Households) /\ Households # {} /\ IsFiniteSet(Zones)

DataFiles == {"schedule", "households", "weather"}

TariffRecord(h, day, schedule) ==
  [json |-> TRUE, id |-> h, tier |-> TierOf[h], rate |-> HeadlineRate(schedule, TierOf[h]),
   subsidised |-> h \in Subsidised, fixed |-> schedule.tiers[TierOf[h]].fixed, date |-> day]

RateLimit  == 50000
FixedLimit == 1000000

AsBody(record) ==
  LET bound(v, limit) == CASE v < 0 -> "low" [] v > limit -> "high" [] OTHER -> "valid"
  IN IF ~record.json THEN NotJson
     ELSE Body([tariff_rate  |-> bound(record.rate, RateLimit),
                fixed_charge |-> bound(record.fixed, FixedLimit)])

RecordOk(record) == RowVerdict(AsBody(record), TariffRecordFields, FALSE) = "none"

HouseholdTariffs(day, schedule) ==
  SetToSeq({TariffRecord(h, day, schedule) : h \in Households})

\* build_household_tariffs refuses to render what its own schema rejects.
CanRender(day, schedule) ==
  \A h \in Households : RecordOk(TariffRecord(h, day, schedule))

RenderDrop(day, schedule) ==
  [schedule |-> schedule, households |-> HouseholdTariffs(day, schedule),
   weather |-> SetToSeq({[zone |-> z, date |-> day] : z \in Zones})]

-----------------------------------------------------------------------------
(* Damage.  Each operator is the set of ways to do it.                     *)

Corruptions == {"negative_rate", "unknown_tier", "missing_households",
                "duplicate_household", "invalid_record", "truncated_file"}

\* What the publisher says the gate must find, among others.
ExpectedCheck ==
  [negative_rate |-> "schedule_invalid", unknown_tier |-> "unknown_tier",
   missing_households |-> "household_missing", duplicate_household |-> "household_duplicated",
   invalid_record |-> "record_invalid", truncated_file |-> "checksum_mismatch"]

\* pick: some of the records, at least one.
Picks(s) == (SUBSET DOMAIN s) \ {{}}

Edit(record, kind) ==
  CASE kind = "unknown_tier"   -> [record EXCEPT !.tier = "DOMESTIC_PREMIUM"]
    [] kind = "invalid_record" -> [record EXCEPT !.rate = -@]

Edited(s, picked, kind) ==
  [i \in DOMAIN s |-> IF i \in picked THEN Edit(s[i], kind) ELSE s[i]]

NegativeRates(schedule) ==
  UNION {{[schedule EXCEPT !.tiers[t].blocks[i].rate = -@] :
            i \in DOMAIN schedule.tiers[t].blocks} : t \in DOMAIN schedule.tiers}

CorruptHouseholds(s, kind) ==
  CASE kind \in {"unknown_tier", "invalid_record"} -> {Edited(s, p, kind) : p \in Picks(s)}
    [] kind = "missing_households" -> {At(s, DOMAIN s \ p) : p \in Picks(s)}
    [] kind = "duplicate_household" -> {s \o At(s, p) : p \in Picks(s)}

\* The first 60% of the bytes of a file of equal lines.
Truncated(s) ==
  LET whole == (6 * Len(s)) \div 10
  IN SubSeq(s, 1, whole) \o
     IF (6 * Len(s)) % 10 = 0 THEN <<>> ELSE <<[s[whole + 1] EXCEPT !.json = FALSE]>>

\* corrupt_files: pairs of what the manifest describes and what is uploaded.
Corrupt(files, kind) ==
  CASE kind = "none" -> {<<files, files>>}
    [] kind = "negative_rate" ->
         {<<f, f>> : f \in {[files EXCEPT !.schedule = s] : s \in NegativeRates(files.schedule)}}
    [] kind = "truncated_file" -> {<<files, [files EXCEPT !.households = Truncated(@)]>>}
    [] OTHER ->
         {<<f, f>> : f \in {[files EXCEPT !.households = s] :
                              s \in CorruptHouseholds(files.households, kind)}}

CountRecords(name, content) == IF name = "schedule" THEN 1 ELSE Len(content)

BuildManifest(day, described) ==
  [date |-> day,
   files |-> [f \in DataFiles |-> [sum |-> described[f],
                                   records |-> CountRecords(f, described[f])]]]

\* The versions a publication may upload: kind is a corruption or "none".
Uploads(day, schedule, kind) ==
  {[manifest |-> BuildManifest(day, c[1]), files |-> c[2]] :
     c \in Corrupt(RenderDrop(day, schedule), kind)}

-----------------------------------------------------------------------------
(* The gate.                                                               *)

FindIf(found, check) == IF found THEN {check} ELSE {}

Integrity(drop, day) ==
  FindIf(drop.manifest.date # day, "wrong_date") \cup
  FindIf(\E f \in DataFiles : drop.files[f] # drop.manifest.files[f].sum,
         "checksum_mismatch") \cup
  FindIf(\E f \in DataFiles :
           CountRecords(f, drop.files[f]) # drop.manifest.files[f].records,
         "record_count_mismatch")

\* Mutant of CountedIds: a household counts once however often it is listed.
CountedIdsAsSet(records) ==
  [h \in {records[i].id : i \in DOMAIN records} |-> 1]

\* households: how often each household is listed, valid records only.
CountedIds(records) ==
  LET valid == {i \in DOMAIN records : RecordOk(records[i])}
  IN [h \in {records[i].id : i \in valid} |-> Cardinality({i \in valid : records[i].id = h})]

HouseholdFindings(records, schedule, day) ==
  LET valid == {i \in DOMAIN records : RecordOk(records[i])}
      known == {i \in valid : records[i].tier \in DOMAIN schedule.tiers}
      listed == CountedIds(records)
  IN FindIf(valid # DOMAIN records, "record_invalid") \cup
     FindIf(\E i \in valid : records[i].date # day, "wrong_date") \cup
     FindIf(known # valid, "unknown_tier") \cup
     FindIf(\E i \in known : records[i].rate # HeadlineRate(schedule, records[i].tier),
            "headline_rate_mismatch") \cup
     FindIf(Households \ DOMAIN listed # {}, "household_missing") \cup
     FindIf(\E h \in DOMAIN listed : listed[h] > 1, "household_duplicated") \cup
     FindIf(DOMAIN listed \ Households # {}, "unknown_household")

WeatherFindings(forecast, day) ==
  FindIf(\E i \in DOMAIN forecast : forecast[i].date # day, "wrong_date") \cup
  FindIf(Zones \ {forecast[i].zone : i \in DOMAIN forecast} # {}, "zone_missing")

\* check_drop for a drop whose manifest is there.
CheckDrop(drop, day) ==
  IF Integrity(drop, day) # {} THEN Integrity(drop, day)
  ELSE FindIf(Problems(drop.files.schedule), "schedule_invalid") \cup
       HouseholdFindings(drop.files.households, drop.files.schedule, day) \cup
       WeatherFindings(drop.files.weather, day)

-----------------------------------------------------------------------------
(* Bills from a drop that has passed.                                      *)

\* One bill for each household in the drop, readings or not.
SettleHouseholds(day, usage, files) ==
  LET records == ToSet(files.households)
      used(h) == IF h \in DOMAIN usage THEN usage[h] ELSE [readings |-> 0, use |-> 0, gen |-> 0]
  IN [h \in {r.id : r \in records} |->
        LET r == CHOOSE r \in records : r.id = h
        IN CalculateBill(used(h).use, used(h).gen, r.tier, r.subsidised, r.fixed,
                         files.schedule)]
=============================================================================
