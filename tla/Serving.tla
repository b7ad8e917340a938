-------------------------------- MODULE Serving -------------------------------
(***************************************************************************)
(* The serving API beside what it reads.  An answer is put together from   *)
(* several reads of the store, each a statement of its own: the clock's    *)
(* anchor, the settled runs, then figures of the layer chosen for each day *)
(* (merge.py).  Between them days end, windows fill, days are settled and  *)
(* restated, reports appear, and a reset may replace the anchor and, if it *)
(* gets that far, clear the report objects and then the tables.            *)
(*                                                                         *)
(* What settlement does to the tables is BillLedger, which the settlement  *)
(* modelled in detail implements.  Requests only read, so one at a time is *)
(* enough.  A scrape of the metrics is a request too, for the gauges the   *)
(* alert on overdue days is made of.  Endpoints that make one statement    *)
(* are left out: their answer is a view of one state.                      *)
(***************************************************************************)
EXTENDS Integers, Sequences

CONSTANTS
  NumDays,  \* bound: a simulation is followed for days 1..NumDays
  MaxSims,  \* bound: anchors, i.e. resets + 1
  MaxRuns   \* bound: settlements

ASSUME ServingAssumption == NumDays \in Nat /\ MaxSims \in Nat \ {0} /\ MaxRuns \in Nat

VARIABLES
  clock,       \* ops.sim_clock: whose anchor is stored
  age,         \* per anchor, the day it is by that anchor; 0 before there is one
  simulation,  \* whose rows the tables hold
  ledger,      \* ops.settlement_runs: the runs that succeeded, per day
  objects,     \* runs with a report in MinIO
  reports,     \* ops.daily_reports
  request,     \* the request in flight
  during       \* history: what has been true since it began

tables == <<simulation, ledger, reports>>
store  == <<clock, age, tables, objects>>
vars   == <<store, request, during>>

Days == 1..NumDays
Sims == 1..MaxSims
Ids  == 1..MaxRuns

\* A run is its number here; what it was based on is the ledger's own affair.
Books == INSTANCE BillLedger WITH Versions <- {1}, Readings <- {0}

Ranged == {"zone_windows", "household_bills"}
Kinds  == Ranged \cup {"zones_daily", "day_bills", "report_html", "metrics"}

NoRequest == [todo |-> <<>>, kind |-> "none", sim |-> 0, from |-> 0, named |-> 0, to |-> 0,
              first |-> 0, today |-> 0, settled |-> <<>>, rows |-> {}, runs |-> <<>>,
              why |-> "none"]

Quiet == [began |-> {}, current |-> {}, cleared |-> FALSE]

Init ==
  /\ Books!Init
  /\ clock = 1 /\ age = [s \in Sims |-> IF s = 1 THEN 1 ELSE 0]
  /\ objects = {} /\ reports = {}
  /\ request = NoRequest
  /\ during = Quiet

-----------------------------------------------------------------------------
(* The store.                                                              *)

\* Mutant of Latest: the view orders by run_id, but not DESC.
Earliest(runs) == (CHOOSE r \in runs : \A q \in runs : r.id <= q.id).id

\* batch.current_runs: of a day's succeeded runs, the highest run_id.
Latest(runs) == (CHOOSE r \in runs : \A q \in runs : q.id <= r.id).id

Settled == {d \in Days : ledger[d] # {}}
CurrentRuns(days) == [d \in days \cap Settled |-> Latest(ledger[d])]

\* For the history: days with the run that counts, by the order of settlement.
CurrentPairs(books) ==
  {p \in Days \X Ids : /\ \E r \in books[p[1]] : r.id = p[2]
                       /\ \A r \in books[p[1]] : r.id <= p[2]}

Idle == request.kind = "none"

\* What a step of the store makes true while a request is in flight.
Noted(clears) ==
  during' = IF Idle THEN during
            ELSE [during EXCEPT !.current = @ \cup CurrentPairs(ledger'),
                                !.cleared = @ \/ clears]

Midnight ==
  /\ age[clock] < NumDays
  /\ age' = [s \in Sims |-> IF age[s] \in 1..NumDays THEN age[s] + 1 ELSE age[s]]
  /\ UNCHANGED <<clock, tables, objects, request>> /\ Noted(FALSE)

\* run_id comes from a sequence that no reset restarts.
AllRuns == UNION {ledger[d] : d \in Days}

Settle(d) ==
  /\ d < age[clock]
  /\ \E i \in Ids :
       /\ \A r \in AllRuns : r.id < i
       /\ Books!Settle(d, [id |-> i, version |-> 1, readings |-> 0])
  /\ UNCHANGED <<clock, age, objects, reports, request>> /\ Noted(FALSE)

PutReport(r) ==
  /\ objects' = objects \cup {r.id}
  /\ UNCHANGED <<clock, age, tables, request>> /\ Noted(FALSE)

RecordReport(r) ==
  /\ r.id \in objects
  /\ reports' = reports \cup {r.id}
  /\ UNCHANGED <<clock, age, simulation, ledger, objects, request>> /\ Noted(FALSE)

\* A reset begins, or is all there is to it: clock_store reset.
ReplaceAnchor ==
  /\ clock < MaxSims
  /\ clock' = clock + 1
  /\ age' = [age EXCEPT ![clock + 1] = 1]
  /\ UNCHANGED <<tables, objects, request>> /\ Noted(FALSE)

ClearObjects ==
  /\ simulation < clock
  /\ objects' = {}
  /\ UNCHANGED <<clock, age, tables, request>> /\ Noted(FALSE)

\* One TRUNCATE.
ClearTables ==
  /\ simulation < clock /\ objects = {}
  /\ Books!NewSimulation
  /\ reports' = {}
  /\ UNCHANGED <<clock, age, objects, request>> /\ Noted(TRUE)

\* Bound: there are reports only when one is asked for; no other request looks.
ReportsMatter == request.kind \in {"none", "report_html"}

StoreSteps ==
  \/ Midnight \/ ReplaceAnchor \/ ClearObjects \/ ClearTables
  \/ \E d \in Days : Settle(d)
  \/ ReportsMatter /\ \E r \in AllRuns : PutReport(r) \/ RecordReport(r)

-----------------------------------------------------------------------------
(* The merge rule, for a day that is not in the future.                    *)

Layer(day, today, settled) ==
  IF day # today /\ day \in DOMAIN settled THEN "batch" ELSE "speed"

BillAvailability(day, today, settled) ==
  CASE day \in DOMAIN settled -> "settled"
    [] day \notin DOMAIN settled /\ day = today -> "in progress"
    [] OTHER -> "awaiting settlement"

-----------------------------------------------------------------------------
(* Requests.                                                               *)

\* Mutant of HouseholdReads: the bills first, what has been settled afterwards.
HouseholdReadsSwapped == <<"look", "bills", "settled", "unbilled">>

HouseholdReads == <<"look", "settled", "bills", "unbilled">>

\* What is read, in this order, after the anchor.
Reads ==
  [zones_daily     |-> <<"look", "settled", "figures">>,
   zone_windows    |-> <<"look", "settled", "batch", "speed">>,
   household_bills |-> HouseholdReads,
   day_bills       |-> <<"look", "settled", "totals", "page">>,
   report_html     |-> <<"report", "object">>,
   metrics         |-> <<"today", "settled", "count">>]

Default == 0

\* get_clock, and the first look at the date.  A day the caller names may be
\* any; one that is left out is today.
Begin(kind, from, to) ==
  /\ Idle
  /\ from <= to \/ to = Default
  /\ request' = [NoRequest EXCEPT !.kind = kind, !.todo = Reads[kind], !.sim = clock,
                                  !.from = from, !.named = to, !.to = to,
                                  !.first = age[clock]]
  /\ during' = [began |-> CurrentPairs(ledger), current |-> CurrentPairs(ledger),
                cleared |-> FALSE]
  /\ UNCHANGED store

Reading(step) == request.todo # <<>> /\ Head(request.todo) = step

Goes(r)    == request' = [r EXCEPT !.todo = Tail(@)] /\ UNCHANGED <<store, during>>
Fails(why) == /\ request' = [request EXCEPT !.todo = <<>>, !.why = why]
              /\ UNCHANGED <<store, during>>

\* Mutant of LastAsked: a day left out is the day it has become.
LastAskedLater(r, later) == IF r.named = Default THEN later ELSE r.named

LastAsked(r, later) == IF r.named = Default THEN r.first ELSE r.named

\* The second look at the date: a range is checked against it and merged by the
\* first, a single day was checked against the first and is merged by the second.
Look ==
  /\ Reading("look")
  /\ LET later  == age[request.sim]
         ranged == request.kind \in Ranged
         to     == LastAsked(request, later)
         from   == IF ranged THEN request.from ELSE to
         limit  == IF ranged THEN later ELSE request.first
     IN IF to > limit \/ from > limit THEN Fails("in the future")
        ELSE IF from > to THEN Fails("reversed")
        ELSE Goes([request EXCEPT !.from = from, !.to = to,
                                  !.today = IF ranged THEN request.first ELSE later])

Asked == request.from..request.to

\* settled_runs: a range is merged at once, and a bill needs a settled day.
ReadSettled ==
  /\ Reading("settled")
  /\ LET settled == CurrentRuns(Asked) IN
     IF request.kind = "zone_windows" /\ request.to > request.today THEN Fails("in the future")
     ELSE IF request.kind = "day_bills" /\ request.to \notin DOMAIN settled
     THEN Fails("unsettled")
     ELSE Goes([request EXCEPT !.settled = settled,
                  !.runs = IF request.kind = "day_bills" THEN <<settled[request.to]>> ELSE <<>>])

Row(day, layer, run) == [day |-> day, layer |-> layer, run |-> run]

SpeedDays == {d \in Asked : Layer(d, request.today, request.settled) = "speed"}

\* batch_daily, batch_windows: rows of the runs that were read, by their numbers.
BatchRows ==
  {Row(d, "batch", request.settled[d]) :
     d \in {d \in Asked \ SpeedDays : \E r \in ledger[d] : r.id = request.settled[d]}}

\* speed_windows is asked for one range, from the first of them to the last.
Between == {d \in Asked : \E a, b \in SpeedDays : a <= d /\ d <= b}

\* Mutant of SpeedRows: the days in between are not filtered.
SpeedRowsUnfiltered == {Row(d, "speed", 0) : d \in Between}

\* Every day is taken to have windows, so that none is left out by chance.
SpeedRows == {Row(d, "speed", 0) : d \in Between \cap SpeedDays}

\* zones_daily asks one layer only; zone_windows asks both, if there is reason to.
ReadFigures ==
  /\ Reading("figures")
  /\ Goes([request EXCEPT !.rows = IF SpeedDays = {} THEN BatchRows ELSE SpeedRows])

ReadBatch == Reading("batch") /\ Goes([request EXCEPT !.rows = BatchRows])
ReadSpeed == Reading("speed") /\ Goes([request EXCEPT !.rows = @ \cup SpeedRows])

\* household_bills, from batch.current_bills.
ReadBills ==
  /\ Reading("bills")
  /\ LET current == CurrentRuns(Asked)
     IN Goes([request EXCEPT !.rows = {Row(d, "batch", current[d]) : d \in DOMAIN current}])

Unbilled == Asked \ {x.day : x \in request.rows}

\* The days without a bill are explained by what was read before.  A day in the
\* future raises here, and nothing catches it: the answer is a server error.
Explain ==
  /\ Reading("unbilled")
  /\ IF \E d \in Unbilled : d > request.today THEN Fails("unhandled") ELSE Goes(request)

\* day_bill_totals and day_bills, each from batch.current_bills; 0 for no rows.
CurrentOf(day) == IF day \in Settled THEN Latest(ledger[day]) ELSE 0

ReadTotals == Reading("totals") /\ Goes([request EXCEPT !.runs = Append(@, CurrentOf(request.to))])
ReadPage   == Reading("page")   /\ Goes([request EXCEPT !.runs = Append(@, CurrentOf(request.to))])

\* current_report, then the object it names.
ReadReport ==
  /\ Reading("report")
  /\ LET run == CurrentOf(request.named) IN
     IF run \in reports THEN Goes([request EXCEPT !.runs = <<run>>]) ELSE Fails("no report")

ReadObject ==
  /\ Reading("object")
  /\ IF request.runs[1] \in objects THEN Goes(request) ELSE Fails("missing")

-----------------------------------------------------------------------------
(* A scrape: the anchor and the first look are those of any request.       *)

LookAgain ==
  /\ Reading("today")
  /\ Goes([request EXCEPT !.to = age[request.sim], !.today = age[request.sim]])

\* Mutant of Due: whatever is over by the second look.
DueByNow(r, wait) == 1..(r.today - wait)

\* The days that were due at the first look: the one before it only after a
\* grace of less than a day.
Due(r, wait) == 1..(r.first - wait)

\* Rows of the batch layer are the days counted as settled, the others those
\* counted as unsettled.
CountDays ==
  /\ Reading("count")
  /\ \E wait \in 1..2 :
     LET settled   == DOMAIN request.settled
         unsettled == Due(request, wait) \ settled
     IN Goes([request EXCEPT !.rows = {Row(d, "batch", request.settled[d]) : d \in settled}
                                      \cup {Row(d, "none", 0) : d \in unsettled}])

\* The answer is sent.
Reply ==
  /\ ~Idle /\ request.todo = <<>>
  /\ request' = NoRequest /\ during' = Quiet
  /\ UNCHANGED store

RequestSteps ==
  \/ \E kind \in Kinds, from \in Days, to \in Days \cup {Default} :
       /\ kind \notin Ranged => from = 1
       /\ kind \in {"day_bills", "report_html"} => to # Default
       /\ kind = "metrics" => to = Default
       /\ kind # "report_html" => objects = {}
       /\ Begin(kind, from, to)
  \/ Look \/ ReadSettled \/ ReadFigures \/ ReadBatch \/ ReadSpeed \/ ReadBills \/ Explain
  \/ ReadTotals \/ ReadPage \/ ReadReport \/ ReadObject \/ LookAgain \/ CountDays \/ Reply

Next == StoreSteps \/ RequestSteps

Spec == Init /\ [][Next]_vars

-----------------------------------------------------------------------------
(* Properties.                                                             *)

Answers(kinds) == request.kind \in kinds /\ request.todo = <<>> /\ request.why = "none"

SettledAtStart(day) == \E p \in during.began : p[1] = day

\* Zone figures of a day come from one layer and, when settled, from one
\* settlement, that was current while the request ran.  A day that was over and
\* settled when it began is served settled, whatever happens meanwhile; only a
\* reset that clears the tables under the request may take rows from the answer.
EachDayFromOneLayer ==
  Answers({"zones_daily", "zone_windows"}) /\ ~during.cleared =>
    \A d \in Asked :
      LET rows == {x \in request.rows : x.day = d} IN
      /\ \A x, y \in rows : x = y
      /\ \A x \in rows : x.layer = "batch" => <<d, x.run>> \in during.current
      /\ SettledAtStart(d) /\ d < request.first => \E x \in rows : x.layer = "batch"

\* The run id, the totals and the page of a day's bills are read one after the
\* other.  They may be of different settlements, but each was current while the
\* request ran and none is older than the part before it.
DayBillsMoveForward ==
  request.kind = "day_bills" /\ ~during.cleared =>
    /\ \A i \in DOMAIN request.runs : <<request.to, request.runs[i]>> \in during.current
    /\ \A i, j \in DOMAIN request.runs : i < j => request.runs[i] <= request.runs[j]

\* A household's answer gives each day one bill or a true reason why there is
\* none: never that it is settled, and never for a day that was settled when the
\* request began.  While tables and clock are of one simulation a bill is of a
\* day that is over, even though a settled day is billed before today is looked at.
BilledOrSaysWhy ==
  Answers({"household_bills"}) /\ ~during.cleared =>
    /\ \A x \in request.rows : <<x.day, x.run>> \in during.current
    /\ \A x, y \in request.rows : x.day = y.day => x = y
    /\ \A d \in Unbilled :
         /\ BillAvailability(d, request.today, request.settled) # "settled"
         /\ ~SettledAtStart(d)
    /\ request.sim = simulation => \A x \in request.rows : x.day < age[request.sim]

\* The gauges are read at two looks at the clock and one at the settled days.  No
\* day is reported overdue that was settled when the scrape began or was not over
\* yet, and no day that was due is left out without having been settled.
OverdueIsTrue ==
  Answers({"metrics"}) /\ ~during.cleared =>
    LET unsettled == {x.day : x \in {x \in request.rows : x.layer = "none"}} IN
    /\ \A d \in unsettled : ~SettledAtStart(d) /\ d < request.first
    /\ \A d \in 1..(request.first - 2) \ unsettled : \E p \in during.current : p[1] = d

\* A request fails only over a day that was in the future when it began, which a
\* midnight between two looks at the date lets through the check; over bills that
\* were not there; or, for a report that is listed, during a reset.  Only a
\* household's bills end in an error nobody handles, and only if a day that was in
\* the future when the request began has begun before its range is checked.
FailuresAreExplained ==
  /\ request.why \in {"in the future", "reversed"} =>
       request.named > request.first \/ request.from > request.first
  /\ request.why = "unhandled" =>
       /\ request.kind = "household_bills"
       /\ request.named \in (request.first + 1)..age[request.sim]
  /\ request.why = "unsettled" => during.cleared \/ ~SettledAtStart(request.to)
  /\ request.why = "missing" => during.cleared \/ simulation < clock
=============================================================================
