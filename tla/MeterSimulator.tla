---------------------------- MODULE MeterSimulator ----------------------------
(***************************************************************************)
(* The simulated meters.  In each round every meter takes one reading and  *)
(* sends it, sends it twice, damages it, holds it back, or is silent and   *)
(* remembers the interval or forgets it; what it owes from before goes     *)
(* first.  The messages of a round are handed to Kafka one by one.  All    *)
(* that is not sent lives in memory, and a stop loses it.                  *)
(*                                                                         *)
(* Time is counted in rounds: the clock is fixed, so real and simulated    *)
(* durations are the same number of rounds.  The offset of some seconds    *)
(* between meters is left out.  The meters are in one zone.                *)
(***************************************************************************)
EXTENDS Validation, Subsequences

CONSTANTS
  NumMeters,
  OldFirmware,   \* the meters that report no voltage
  LastRound,     \* bound: rounds are numbered 0..LastRound
  OutageRounds,  \* how long an outage may last
  LateRounds,    \* how long a late reading may be held back
  Damages,       \* the content faults injected
  Dropped,       \* bound: the fields a missing_field fault drops
  MaxIncidents   \* bound: how often it is stopped, falls behind or fails to deliver

ASSUME RoundsAssumption ==
  /\ NumMeters \in Nat /\ LastRound \in Nat
  /\ OutageRounds \subseteq Nat /\ LateRounds \subseteq Nat

VARIABLES
  now,       \* the next round
  running,   \* whether the process is up
  meters,    \* _MeterState of each meter
  late,      \* readings held back, by release time
  outbox,    \* messages of past rounds Kafka has not taken yet
  topic,     \* meter.readings
  measured,  \* the rounds that took place
  lost,      \* intervals that will never be sent, and why
  incidents  \* counts what MaxIncidents bounds

simulator == <<now, running, meters, late, outbox, topic, measured, lost, incidents>>

Meters == 1..NumMeters
Rounds == 0..LastRound

NoOutage == -1
Online   == [until |-> NoOutage, backfill |-> FALSE, missed |-> <<>>]
Message(m, t, fault, body) == [meter |-> m, time |-> t, fault |-> fault, body |-> body]

MeterInit ==
  /\ now = 0 /\ running = TRUE
  /\ meters = [m \in Meters |-> Online]
  /\ late = <<>> /\ outbox = <<>> /\ topic = <<>>
  /\ measured = {} /\ lost = {} /\ incidents = 0

-----------------------------------------------------------------------------
(* Building a message.                                                     *)

Droppable == {"meter_id", "household_id", "grid_zone", "power_consumption_kwh", "event_time"}

ContentFaults ==
  {"missing_field", "negative_value", "spike", "malformed_json", "unknown_household"}

ASSUME FaultsAssumption == Damages \subseteq ContentFaults /\ Dropped \subseteq Droppable

\* A payload with one field at fault.
Damaged(field, class) == Body([f \in {field} |-> class])

\* Per content fault: what corrupt may do to the payload.
Corrupted(fault) ==
  CASE fault = "missing_field"     -> {Damaged(f, "absent") : f \in Dropped}
    [] fault = "negative_value"    -> {Damaged("power_consumption_kwh", "low")}
    [] fault = "spike"             -> {Damaged("power_consumption_kwh", "high")}
    [] fault = "malformed_json"    -> {NotJson}
    [] fault = "unknown_household" -> {Damaged("household_id", "text")}

ExpectedQuarantine(fault) ==
  CASE fault \in {"missing_field", "malformed_json", "unknown_household"} -> fault
    [] fault \in {"negative_value", "spike"} -> "out_of_range"
    [] OTHER -> "none"

\* The firmware leaves voltage out before the payload is damaged.
WithFirmware(m, body) ==
  IF body.json /\ m \in OldFirmware
  THEN Body([f \in DOMAIN body.damage \cup {"voltage_v"} |->
               IF f \in DOMAIN body.damage THEN body.damage[f] ELSE "absent"])
  ELSE body

Untouched(m) == WithFirmware(m, Clean)

\* _build: the messages that may come of a reading and a fault.
Build(m, t, fault) ==
  IF fault \in Damages THEN {Message(m, t, fault, WithFirmware(m, b)) : b \in Corrupted(fault)}
  ELSE {Message(m, t, fault, Untouched(m))}

TheMessage(m, t, fault) == Message(m, t, fault, Untouched(m))

-----------------------------------------------------------------------------
(* One meter, one round: what may come of it.                              *)

Outcome(state, sent, held, forgotten) ==
  [state |-> state, sent |-> sent, held |-> held, forgotten |-> forgotten]

Misses(s, t) == [s EXCEPT !.missed = Append(@, t)]

\* The meter does not report in this round, and remembers it or not.
Silent(s, t, remembers) ==
  IF remembers THEN Outcome(Misses(s, t), <<>>, <<>>, FALSE)
  ELSE Outcome(s, <<>>, <<>>, TRUE)

Offline(s, t) == s.until # NoOutage /\ t < s.until

\* Mutant of Owed: it uploads only the latest of the missed readings.
OwedLatest(m, s) ==
  IF s.missed = <<>> THEN <<>> ELSE <<TheMessage(m, Last(s.missed), "backfill")>>

\* What a meter that is back uploads, with the original times.
Owed(m, s) == [i \in DOMAIN s.missed |-> TheMessage(m, s.missed[i], "backfill")]

Cleared(s) == [s EXCEPT !.until = NoOutage, !.missed = <<>>]

Down(t, until, backfill) ==
  [until |-> until, backfill |-> backfill, missed |-> IF backfill THEN <<t>> ELSE <<>>]

\* An outage begins after the upload; the reading of this round is its first.
OutageStarts(m, s, t) ==
  {Outcome(Down(t, t + n, b), Owed(m, s), <<>>, ~b) : n \in OutageRounds, b \in BOOLEAN}

\* A late one is held; a duplicate is sent twice, only the second so labelled.
Reports(m, s, t) ==
  LET owed == Owed(m, s)
      sent(x) == Outcome(Cleared(s), owed \o x, <<>>, FALSE)
  IN {sent(<<x>>) : x \in UNION {Build(m, t, f) : f \in {"none"} \cup Damages}}
     \cup {sent(<<TheMessage(m, t, "none"), TheMessage(m, t, "duplicate")>>)}
     \cup {Outcome(Cleared(s), owed,
                   <<[release |-> t + n, message |-> TheMessage(m, t, "late")]>>, FALSE) :
             n \in LateRounds}

\* No silence over the zone, or one with or without backfill.
Silences == {"none", "backfill", "forget"}

MeterTick(m, s, t, silence) ==
  CASE silence # "none" -> {Silent(s, t, silence = "backfill")}
    [] silence = "none" /\ Offline(s, t) -> {Silent(s, t, s.backfill)}
    [] OTHER -> OutageStarts(m, s, t) \cup Reports(m, s, t)

-----------------------------------------------------------------------------
(* The process.                                                            *)

DueAt(t) == {i \in DOMAIN late : late[i].release <= t}
Due(t)   == At(late, DueAt(t))

\* The heap: by release time, then in the order of arrival.
Hold(heap, x) ==
  LET before == {i \in DOMAIN heap : heap[i].release <= x.release}
  IN At(heap, before) \o <<x>> \o At(heap, DOMAIN heap \ before)

Messages(held) == [i \in DOMAIN held |-> held[i].message]

Incident == incidents < MaxIncidents /\ incidents' = incidents + 1

\* tick: each meter in turn, then the late readings that are due.
Round ==
  /\ running /\ now <= LastRound
  /\ \E silence \in Silences :
     \E come \in [Meters -> UNION {MeterTick(m, meters[m], now, silence) : m \in Meters}] :
       /\ \A m \in Meters : come[m] \in MeterTick(m, meters[m], now, silence)
       /\ meters' = [m \in Meters |-> come[m].state]
       /\ outbox' = outbox \o FlattenSeq([m \in Meters |-> come[m].sent])
                           \o Messages(Due(now))
       /\ late' = FoldLeft(Hold, At(late, DOMAIN late \ DueAt(now)),
                           FlattenSeq([m \in Meters |-> come[m].held]))
       /\ lost' = lost \cup {TheMessage(m, now, "forgotten") :
                               m \in {m \in Meters : come[m].forgotten}}
  /\ measured' = measured \cup {now}
  /\ now' = now + 1
  /\ UNCHANGED <<running, topic, incidents>>

\* The rounds that passed are not made up for.
RoundPasses ==
  /\ now <= LastRound
  /\ now' = now + 1
  /\ UNCHANGED <<running, meters, late, outbox, topic, measured, lost>>

FallsBehind == running /\ RoundPasses /\ Incident
IsDown      == ~running /\ RoundPasses /\ UNCHANGED incidents

Send ==
  /\ outbox # <<>>
  /\ topic' = Append(topic, Head(outbox))
  /\ outbox' = Tail(outbox)
  /\ UNCHANGED <<now, running, meters, late, measured, lost, incidents>>

\* on_delivery with an error: counted, logged and not sent again.
DeliveryFails ==
  /\ outbox # <<>>
  /\ lost' = lost \cup {Head(outbox)}
  /\ outbox' = Tail(outbox)
  /\ Incident
  /\ UNCHANGED <<now, running, meters, late, topic, measured>>

\* SIGTERM, or a crash; what flush could still deliver was sent before.
Stop ==
  /\ running /\ Incident
  /\ running' = FALSE
  /\ lost' = lost \cup ToSet(outbox) \cup ToSet(Messages(late))
                  \cup UNION {ToSet(Owed(m, meters[m])) : m \in Meters}
  /\ meters' = [m \in Meters |-> Online] /\ late' = <<>> /\ outbox' = <<>>
  /\ UNCHANGED <<now, topic, measured>>

Start ==
  /\ ~running
  /\ running' = TRUE
  /\ UNCHANGED <<now, meters, late, outbox, topic, measured, lost, incidents>>

MeterNext == Round \/ FallsBehind \/ IsDown \/ Send \/ DeliveryFails \/ Stop \/ Start

-----------------------------------------------------------------------------
(* Properties.                                                             *)

\* Where the interval of meter m that ended at t is: every message about it,
\* labelled duplicates aside, counted wherever it may be.
Placed(m, t) ==
  LET about(s) == Cardinality({i \in DOMAIN s : /\ s[i].meter = m /\ s[i].time = t
                                                /\ s[i].fault # "duplicate"})
  IN about(topic) + about(outbox) + about(Messages(late))
     + Cardinality({i \in DOMAIN meters[m].missed : meters[m].missed[i] = t})
     + Cardinality({x \in lost : x.meter = m /\ x.time = t /\ x.fault # "duplicate"})

\* Messages that are neither held back nor sent a second time.
Prompt ==
  LET sent == topic \o outbox
  IN At(sent, {i \in DOMAIN sent : sent[i].fault \in {"none", "backfill"} \cup Damages})

\* However silences, outages, late readings and stops overlap, each interval
\* that was measured is sent once, still owed, held back, or knowingly lost;
\* a meter's readings go out in the order they were taken, and a late one not
\* before its time.
EveryReadingIsAccountedFor ==
  /\ \A m \in Meters, t \in Rounds : Placed(m, t) = IF t \in measured THEN 1 ELSE 0
  /\ \A i, j \in DOMAIN Prompt :
       i < j /\ Prompt[i].meter = Prompt[j].meter => Prompt[i].time < Prompt[j].time
  /\ \A i \in DOMAIN outbox :
       outbox[i].fault = "late" => \E n \in LateRounds : outbox[i].time + n < now
=============================================================================
