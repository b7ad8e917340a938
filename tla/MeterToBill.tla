------------------------------ MODULE MeterToBill -----------------------------
(***************************************************************************)
(* The way of a reading from the meter to the bill: what the simulator     *)
(* sends and whatever else is in the topic, the validation that archives   *)
(* or dead-letters it, the settlement that validates it again, removes the *)
(* copies and bills the day from the drop in force, and the drops, damaged *)
(* or revised, that the gate lets through or not.                          *)
(*                                                                         *)
(* The steps inside a micro-batch, a publication and a settlement are the  *)
(* subject of SpeedLayer, Drops and Settlement; here each is one step, and *)
(* what they do to the data is what counts.  The meters are those of one   *)
(* zone; the meters of the other households are silent.                    *)
(***************************************************************************)
EXTENDS MeterSimulator, DropQuality

CONSTANTS
  LastOfDay,    \* the day is rounds 0..LastOfDay
  Load, Solar,  \* what a meter draws and generates in a round
  Strange,      \* bodies of messages that no meter sent
  MaxStrange,   \* bound: how many of them
  StrangeTime,  \* bound: when they come
  MaxOffsets,   \* speed_max_offsets_per_trigger
  Percents,     \* the revisions of the tariff there may be
  MaxVersions,  \* bound: versions of the drop
  MaxBills      \* bound: settlements

ASSUME DayAssumption ==
  /\ LastOfDay \in Rounds /\ Meters \subseteq Households
  /\ Load \in [Rounds -> Nat] /\ Solar \in [Rounds -> Nat]

ASSUME TopicAssumption == MaxOffsets \in Nat /\ \A b \in Strange : b.json \in BOOLEAN

ASSUME RevisionsAssumption == Percents \subseteq Int

VARIABLES
  ingested,  \* offsets the ingest query has committed
  archive,   \* the archived offsets
  dead,      \* the dead-lettered ones
  poisoned,  \* whether its next batch raises, whenever it is run
  versions,  \* the complete versions of the day's drop
  bills      \* the settlements of the day, first to last

vars == <<simulator, ingested, archive, dead, poisoned, versions, bills>>

Init ==
  /\ MeterInit
  /\ ingested = 0 /\ archive = {} /\ dead = {} /\ poisoned = FALSE
  /\ versions = <<>> /\ bills = <<>>

Day == 1

-----------------------------------------------------------------------------
(* The speed layer.                                                        *)

\* Bound: no message but plain readings, every meter up, nothing held or lost.
\* What does not depend on how readings come is added to such behaviours only:
\* strange messages, damaged drops, which no reading meets at the gate, second
\* versions and second settlements.
Undisturbed ==
  /\ \A o \in DOMAIN topic : topic[o].fault = "none"
  /\ lost = {} /\ late = <<>> /\ outbox = <<>>
  /\ meters = [m \in Meters |-> Online]

\* Not from a meter: a tool, a test, another client of the topic.  What it
\* says is rejected, or dated long before the day.
LongAgo == -1
SendStrange ==
  /\ now \in StrangeTime /\ Undisturbed
  /\ Cardinality({o \in DOMAIN topic : topic[o].fault = "strange"}) < MaxStrange
  /\ \E b \in Strange : topic' = Append(topic, Message(0, LongAgo, "strange", b))
  /\ UNCHANGED <<now, running, meters, late, outbox, measured, lost, incidents>>
  /\ UNCHANGED <<ingested, archive, dead, poisoned, versions, bills>>

\* Bound: what does not depend on one another is taken in one order, the meters
\* first, then the day's first drop, then the ingest query.  The meters see neither,
\* and how far the query has come when the day is settled is left open.
MetersAreDone == now > LastRound /\ outbox = <<>>
IngestsNow    == MetersAreDone /\ versions # <<>> /\ (bills # <<>> => Undisturbed)

Bodies(offsets) == [o \in offsets |-> topic[o].body]

\* The batch is planned once: one that raises is run again, and raises again.
\* It may have been planned before the latest messages came.
Ingest ==
  /\ IngestsNow /\ ~poisoned
  /\ \E upTo \in (ingested + 1)..Least(Len(topic), ingested + MaxOffsets) :
     LET batch    == Bodies((ingested + 1)..upTo)
         verdicts == FrameVerdicts(batch, MeterReadingFields)
         valid    == {o \in DOMAIN batch : verdicts[o] = "none"}
     IN IF FrameRaises(batch, MeterReadingFields)
        THEN poisoned' = TRUE /\ UNCHANGED <<ingested, archive, dead>>
        ELSE /\ archive' = archive \cup valid
             /\ dead' = dead \cup (DOMAIN batch \ valid)
             /\ ingested' = upTo
             /\ UNCHANGED poisoned
  /\ UNCHANGED <<simulator, versions, bills>>

-----------------------------------------------------------------------------
(* The drops and the settlements of the day.  Neither touches the meters,  *)
(* and of those a settlement sees only how far the ingest query has come.  *)

DayIsOver == now > LastOfDay

Version(upload, corruption, base, percent) ==
  [upload |-> upload, corruption |-> corruption, base |-> base, percent |-> percent]

\* publish renders the default schedule, whatever was revised before.
Publish ==
  /\ MetersAreDone /\ Len(versions) < MaxVersions
  /\ versions # <<>> => Undisturbed
  /\ \E kind \in Corruptions \cup {"none"} :
     /\ kind # "none" => Undisturbed /\ topic = <<>>
     /\ \E upload \in Uploads(Day, DefaultSchedule, kind) :
          versions' = Append(versions, Version(upload, kind, 0, Percent))
  /\ UNCHANGED <<simulator, ingested, archive, dead, poisoned, bills>>

\* One tier or all of them.
OneOrAll(tiers) == {{t} : t \in tiers} \cup {tiers}

\* revise scales the rates of the latest complete version, bad records or not.
Revise ==
  /\ MetersAreDone /\ Len(versions) \in 1..(MaxVersions - 1) /\ Undisturbed
  /\ LET base == Last(versions).upload.files.schedule IN
     /\ ~Problems(base)
     /\ \E p \in Percents, tiers \in OneOrAll(DOMAIN base.tiers) :
        LET revised == WithRateChange(base, p, tiers) IN
        /\ CanRender(Day, revised)
        /\ \E upload \in Uploads(Day, revised, "none") :
             versions' = Append(versions, Version(upload, "none", Len(versions), p))
  /\ UNCHANGED <<simulator, ingested, archive, dead, poisoned, bills>>

-----------------------------------------------------------------------------
(* Settlement of the day.                                                  *)

EventId(o) == <<topic[o].meter, topic[o].time>>

OfDay(t) == t \in 0..LastOfDay

\* Archived readings of the day that pass today's rules.
Revalidated ==
  LET batch    == [o \in {o \in archive : OfDay(topic[o].time)} |-> Typed(topic[o].body)]
      verdicts == FrameVerdicts(batch, MeterReadingFields)
  IN {o \in DOMAIN batch : verdicts[o] = "none"}

\* Mutant of Deduplicated: all of them.
AllOfThem(offsets) == offsets

\* dropDuplicates: one reading of each event_id.
Deduplicated(offsets) ==
  {o \in offsets : \A p \in offsets : EventId(p) = EventId(o) => o <= p}

Sum(f, offsets) == MapThenSumSet(LAMBDA o : f[topic[o].time], offsets)

\* What each household with readings used, from these readings.
Usage(offsets) ==
  [h \in {topic[o].meter : o \in offsets} |->
     LET own == {o \in offsets : topic[o].meter = h}
     IN [readings |-> Cardinality(own), use |-> Sum(Load, own), gen |-> Sum(Solar, own)]]

Settle ==
  /\ DayIsOver /\ MetersAreDone /\ versions # <<>>
  /\ Len(bills) < IF Undisturbed THEN MaxBills ELSE 1
  /\ CheckDrop(Last(versions).upload, Day) = {}
  /\ LET usage == Usage(Deduplicated(Revalidated)) IN
     bills' = Append(bills,
       [version |-> Len(versions), upTo |-> ingested, usage |-> usage,
        of |-> SettleHouseholds(Day, usage, Last(versions).upload.files)])
  /\ UNCHANGED <<simulator, ingested, archive, dead, poisoned, versions>>

Meter == MeterNext /\ UNCHANGED <<ingested, archive, dead, poisoned, versions, bills>>

Next == Meter \/ SendStrange \/ Ingest \/ Publish \/ Revise \/ Settle

Spec == Init /\ [][Next]_vars

-----------------------------------------------------------------------------
(* Properties.                                                             *)

Reason(o) == RowVerdict(topic[o].body, MeterReadingFields, TRUE)

\* The messages with no verdict: nested too deep, or with a number that no
\* float holds where one is due, or with half a surrogate pair in a string.
HasNoVerdict(body) ==
  \/ ~Readable(body)
  \/ \E i \in DOMAIN MeterReadingFields :
       LET class == ClassOf(body, MeterReadingFields[i].name) IN
       \/ MeterReadingFields[i].dtype = "double" /\ class = "huge"
       \/ MeterReadingFields[i].dtype = "string" /\ class = "surrogate"

\* Where the ingest query decides at all, it decides as validate_record does,
\* whatever shares a batch with a reading: what a record at a time would accept
\* is archived and the rest dead-lettered.  Whatever a meter sends has a verdict,
\* and a fault the simulator injects is rejected for the reason it names.  Of
\* the others, the query never gets past one that has none, whether or not
\* validate_record would have rejected it, and nothing else ever stops it.
\* (A message is looked at when it is the last one, which each has been.)
ValidatorsAgree ==
  /\ archive = {o \in 1..ingested : Reason(o) = "none"}
  /\ dead = 1..ingested \ archive
  /\ topic # <<>> =>
       LET body == Last(topic).body IN
       /\ ~HasNoVerdict(body) =>
            FrameVerdicts(<<body>>, MeterReadingFields)[1] = Reason(Len(topic))
       /\ Last(topic).fault # "strange" =>
            /\ ~HasNoVerdict(body)
            /\ Reason(Len(topic)) = ExpectedQuarantine(Last(topic).fault)
  /\ \A o \in 1..ingested : ~HasNoVerdict(topic[o].body)
  /\ poisoned => \E o \in (ingested + 1)..(ingested + MaxOffsets) :
                   o \in DOMAIN topic /\ HasNoVerdict(topic[o].body)

RatesArePositive(schedule) ==
  \A t \in DOMAIN schedule.tiers : \A i \in DOMAIN schedule.tiers[t].blocks :
    schedule.tiers[t].blocks[i].rate > 0

\* The gate rejects every damaged drop for the reason its publisher announces
\* and passes every undamaged one, revised or not, whose rates are positive; what
\* it passes lists each household of the fleet once, so that each gets one bill.
GateIsRight ==
  \A i \in DOMAIN versions :
    LET v     == versions[i]
        found == CheckDrop(v.upload, Day)
        files == v.upload.files
    IN /\ v.corruption # "none" => ExpectedCheck[v.corruption] \in found
       /\ v.corruption = "none" /\ RatesArePositive(files.schedule) => found = {}
       /\ found = {} =>
            \A h \in Households :
              Cardinality({n \in DOMAIN files.households : files.households[n].id = h}) = 1

\* Intervals of meter m among the first upTo messages that are fit to bill.
Fit(m, upTo) ==
  {t \in 0..LastOfDay : \E o \in 1..upTo :
     topic[o].meter = m /\ topic[o].time = t /\ topic[o].fault \notin Damages}

\* Every household is billed whenever the day is settled, for each interval
\* whose reading has arrived intact exactly once: duplicates, late and uploaded
\* readings, damaged and strange messages change nothing.
EachReadingBilledOnce ==
  \A i \in DOMAIN bills :
    /\ DOMAIN bills[i].of = Households
    /\ \A h \in Households :
         LET of(f) == MapThenSumSet(LAMBDA t : f[t], Fit(h, bills[i].upTo))
         IN bills[i].of[h].import - bills[i].of[h].export = of(Load) - of(Solar)

\* The schedule and tariff tier a household was billed by.
ScheduleOf(i) == versions[bills[i].version].upload.files.schedule

\* A bill charges every unit at the rate of the block it falls in, as if the
\* units were priced one by one; only the rounding of its lines can differ, by
\* half a cent each.  It never both charges and credits energy, and a subsidy
\* is never more than what it subsidises.
BillIsMarginal ==
  \A i \in DOMAIN bills : \A h \in DOMAIN bills[i].of :
    LET bill   == bills[i].of[h]
        blocks == ScheduleOf(i).tiers[TierOf[h]].blocks
    IN /\ 2 * Distance(PerKwh * bill.energy, MarginalCost(bill.import, blocks))
            <= PerKwh * Len(bill.lines)
       /\ bill.import = 0 \/ bill.export = 0
       /\ bill.subsidy \in 0..bill.energy

\* Two settlements of the same usage: after a revision that raises rates, or
\* leaves them, no household pays less, and after one that lowers them none pays
\* more, across blocks, subsidies and rounding.
RevisionMovesBillsItsWay ==
  \A i, j \in DOMAIN bills :
    LET revision == versions[bills[j].version] IN
    revision.base = bills[i].version /\ bills[i].usage = bills[j].usage =>
      \A h \in Households :
        /\ revision.percent >= Percent => bills[j].of[h].total >= bills[i].of[h].total
        /\ revision.percent <= Percent => bills[j].of[h].total <= bills[i].of[h].total
=============================================================================
