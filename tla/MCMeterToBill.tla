---------------------------- MODULE MCMeterToBill -----------------------------
(***************************************************************************)
(* A meter, two households, a day of two rounds.  What a day may amount to *)
(* is an import of 28 units, beyond the last cap of DOMESTIC_LOW, of 16,   *)
(* exactly at one of its caps, and an export of 12.                        *)
(***************************************************************************)
EXTENDS MeterToBill

MCTierOf == <<"DOMESTIC_LOW", "DOMESTIC_STD">>
MCLoad   == [t \in Rounds |-> IF t = 0 THEN 28 ELSE 4]
MCSolar  == [t \in Rounds |-> IF t = 0 THEN 0 ELSE 16]

\* Two fields at fault, a field in each way it can be, what is accepted
\* although no meter would send it, and each message that has no verdict.
MCStrange == {
  Body([meter_id |-> "absent", power_consumption_kwh |-> "huge"]),
  Body([household_id |-> "text", event_time |-> "future"]),
  Body([voltage_v |-> "high", event_time |-> "huge"]),
  Body([event_time |-> "bool", ingest_time |-> "absent"]),
  Body([grid_zone |-> "surrogate", event_id |-> "absent"]),
  Body([solar_generation_kwh |-> "surrogate"]),
  Unreadable }
=============================================================================
