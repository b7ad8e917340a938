----------------------------- MODULE ServingProofs -----------------------------
(***************************************************************************)
(* What is proved of the serving API: its answers, put together from       *)
(* several reads, are right although the store changes between them.       *)
(*                                                                         *)
(* The invariant has three parts: what holds of the store at all times,    *)
(* how the history of a request is related to the store, and what each     *)
(* read has established, by the next read to be made.                      *)
(***************************************************************************)
EXTENDS Serving, TLAPS

Entry == Books!Entry

RowType == [day : Nat, layer : {"batch", "speed", "none"}, run : Nat]

Fields == {"todo", "kind", "sim", "from", "named", "to", "first", "today",
           "settled", "rows", "runs", "why"}

\* The settled runs of a request are described below.
RequestType ==
  /\ DOMAIN request = Fields
  /\ request = [f \in Fields |-> request[f]]
  /\ request.sim \in Nat /\ request.from \in Nat /\ request.named \in Nat
  /\ request.to \in Nat /\ request.first \in Nat /\ request.today \in Nat
  /\ request.rows \subseteq RowType /\ request.runs \in Seq(Nat)

HistoryType ==
  during \in [began : SUBSET (Days \X Ids), current : SUBSET (Days \X Ids),
              cleared : BOOLEAN]

StoreType ==
  /\ clock \in Sims /\ simulation \in Sims /\ age \in [Sims -> Nat]
  /\ ledger \in [Days -> SUBSET Entry]
  /\ objects \subseteq Ids /\ reports \subseteq Ids

TypeOK == StoreType /\ HistoryType /\ RequestType

-----------------------------------------------------------------------------
(* The store.                                                              *)

\* It is never earlier by an older anchor.
AgesOrdered ==
  /\ \A s \in Sims : s <= clock => age[s] >= 1 /\ age[s] <= NumDays + 1
  /\ \A s, t \in Sims : s <= t /\ t <= clock => age[t] <= age[s]

\* The latest of these runs.
Last(runs, r) == r \in runs /\ \A q \in runs : q.id <= r.id

BooksHaveLast == \A d \in Days : ledger[d] # {} => \E r \in ledger[d] : Last(ledger[d], r)

\* What is settled is over, by the anchor the tables belong to.
SettledIsOver == \A d \in Settled : d < age[simulation]

\* A listed report lacks its object only in the middle of a reset.
ListedAreThere == simulation <= clock /\ (simulation = clock => reports \subseteq objects)

StoreInv == AgesOrdered /\ BooksHaveLast /\ SettledIsOver /\ ListedAreThere

-----------------------------------------------------------------------------
(* The history.                                                            *)

\* All that was current since the request began is still on the books, unless
\* they were cleared.
HistoryInv ==
  ~Idle =>
    /\ CurrentPairs(ledger) \subseteq during.current
    /\ during.began \subseteq during.current
    /\ ~during.cleared => \A p \in during.current : \E r \in ledger[p[1]] : r.id = p[2]

-----------------------------------------------------------------------------
(* The request.                                                            *)

\* What a request of this kind may still have to read.
Course(kind, todo) ==
  \/ todo = <<>>
  \/ kind = "zones_daily" /\ todo \in
       {<<"look", "settled", "figures">>, <<"settled", "figures">>, <<"figures">>}
  \/ kind = "zone_windows" /\ todo \in
       {<<"look", "settled", "batch", "speed">>, <<"settled", "batch", "speed">>,
        <<"batch", "speed">>, <<"speed">>}
  \/ kind = "household_bills" /\ todo \in
       {<<"look", "settled", "bills", "unbilled">>, <<"settled", "bills", "unbilled">>,
        <<"bills", "unbilled">>, <<"unbilled">>}
  \/ kind = "day_bills" /\ todo \in
       {<<"look", "settled", "totals", "page">>, <<"settled", "totals", "page">>,
        <<"totals", "page">>, <<"page">>}
  \/ kind = "report_html" /\ todo \in {<<"report", "object">>, <<"object">>}
  \/ kind = "metrics" /\ todo \in
       {<<"today", "settled", "count">>, <<"settled", "count">>, <<"count">>}

OnCourse == request.kind \in Kinds \cup {"none"} /\ Course(request.kind, request.todo)

\* The next read, or "reply".
At == IF request.todo = <<>> THEN "reply" ELSE Head(request.todo)

Whys == {"none", "in the future", "unhandled", "reversed", "unsettled", "no report", "missing"}

\* A request that has failed reads no more.
FailedIsOver ==
  /\ request.why \in Whys
  /\ request.why # "none" => request.todo = <<>> /\ ~Idle

Going == ~Idle /\ request.why = "none"

AnchorKnown ==
  ~Idle => request.sim \in Sims /\ request.sim <= clock /\ request.first <= age[request.sim]

\* The range that is asked for, and what is taken for today.
RangeKnown ==
  Going =>
    /\ request.kind \notin {"metrics", "report_html"} /\ At = "look" =>
         request.to = request.named /\ (request.from <= request.to \/ request.named = Default)
    /\ request.kind \notin {"metrics", "report_html"} /\ At # "look" =>
         /\ request.to = LastAsked(request, 0)
         /\ IF request.kind \in Ranged
            THEN request.today = request.first /\ request.to <= age[request.sim]
            ELSE request.first <= request.today /\ request.from = request.to
    /\ request.kind = "metrics" => request.from = 1
    /\ request.kind = "metrics" /\ At # "today" => request.first <= request.to

\* What was read as settled was current, and nothing is missing that was settled
\* when the request began.
SettledKnown ==
  Going /\ request.kind \notin {"day_bills", "report_html"}
        /\ At \notin {"look", "today", "settled"} =>
    /\ DOMAIN request.settled \subseteq Asked \cap Days
    /\ \A d \in DOMAIN request.settled : <<d, request.settled[d]>> \in during.current
    /\ ~during.cleared => \A d \in Asked : SettledAtStart(d) => d \in DOMAIN request.settled

BatchRow(d) == Row(d, "batch", request.settled[d])

\* Between the two reads of figures.
BatchKnown ==
  Going /\ request.kind = "zone_windows" /\ At = "speed" =>
    /\ request.rows \subseteq {BatchRow(d) : d \in Asked \ SpeedDays}
    /\ ~during.cleared => \A d \in Asked \ SpeedDays : BatchRow(d) \in request.rows

\* Once the bills are read; a failure over a day in the future changes nothing.
BillsKnown ==
  request.kind = "household_bills" /\ request.why = "none"
      /\ At \in {"unbilled", "reply"} /\ ~during.cleared =>
    /\ \A x \in request.rows : <<x.day, x.run>> \in during.current
    /\ \A x, y \in request.rows : x.day = y.day => x = y
    /\ \A d \in Unbilled : d \notin DOMAIN request.settled /\ ~SettledAtStart(d)
    /\ request.sim = simulation => \A x \in request.rows : x.day < age[request.sim]

RunsKnown ==
  request.kind = "day_bills" =>
    /\ At \in {"look", "settled"} => request.runs = <<>>
    /\ At \in {"totals", "page"} => request.runs # <<>>

ReportKnown ==
  request.kind = "report_html" /\ At = "object" =>
    during.cleared \/ simulation < clock \/ request.runs[1] \in objects

RequestInv ==
  /\ OnCourse /\ FailedIsOver /\ AnchorKnown /\ RangeKnown /\ SettledKnown
  /\ BatchKnown /\ BillsKnown /\ RunsKnown /\ ReportKnown
  /\ EachDayFromOneLayer /\ DayBillsMoveForward /\ OverdueIsTrue /\ FailuresAreExplained

ServingInv == TypeOK /\ StoreInv /\ HistoryInv /\ RequestInv

-----------------------------------------------------------------------------
(* Which read comes after which.                                           *)

Follows(kind, step, next) ==
  \/ kind = "zones_daily" /\ \/ step = "look" /\ next = "settled"
                             \/ step = "settled" /\ next = "figures"
                             \/ step = "figures" /\ next = "reply"
  \/ kind = "zone_windows" /\ \/ step = "look" /\ next = "settled"
                              \/ step = "settled" /\ next = "batch"
                              \/ step = "batch" /\ next = "speed"
                              \/ step = "speed" /\ next = "reply"
  \/ kind = "household_bills" /\ \/ step = "look" /\ next = "settled"
                                 \/ step = "settled" /\ next = "bills"
                                 \/ step = "bills" /\ next = "unbilled"
                                 \/ step = "unbilled" /\ next = "reply"
  \/ kind = "day_bills" /\ \/ step = "look" /\ next = "settled"
                           \/ step = "settled" /\ next = "totals"
                           \/ step = "totals" /\ next = "page"
                           \/ step = "page" /\ next = "reply"
  \/ kind = "report_html" /\ \/ step = "report" /\ next = "object"
                             \/ step = "object" /\ next = "reply"
  \/ kind = "metrics" /\ \/ step = "today" /\ next = "settled"
                         \/ step = "settled" /\ next = "count"
                         \/ step = "count" /\ next = "reply"

LEMMA TailsAndHeads ==
  ASSUME NEW s
  PROVE  /\ \A a : s = <<a>> => Head(s) = a /\ Tail(s) = <<>>
         /\ \A a, b : s = <<a, b>> => Head(s) = a /\ Tail(s) = <<b>>
         /\ \A a, b, c : s = <<a, b, c>> => Head(s) = a /\ Tail(s) = <<b, c>>
         /\ \A a, b, c, d : s = <<a, b, c, d>> => Head(s) = a /\ Tail(s) = <<b, c, d>>
<1>1. ASSUME NEW a, s = <<a>> PROVE Head(s) = a /\ Tail(s) = <<>>
  BY <1>1
<1>2. ASSUME NEW a, NEW b, s = <<a, b>> PROVE Head(s) = a /\ Tail(s) = <<b>>
  BY <1>2
<1>3. ASSUME NEW a, NEW b, NEW c, s = <<a, b, c>>
      PROVE  Head(s) = a /\ Tail(s) = <<b, c>>
  BY <1>3
<1>4. ASSUME NEW a, NEW b, NEW c, NEW d, s = <<a, b, c, d>>
      PROVE  Head(s) = a /\ Tail(s) = <<b, c, d>>
  BY <1>4
<1>5. QED
  BY <1>1, <1>2, <1>3, <1>4

LEMMA CoursesGoOn ==
  ASSUME NEW kind, NEW todo, Course(kind, todo), todo # <<>>
  PROVE  /\ Course(kind, Tail(todo))
         /\ Follows(kind, Head(todo),
                    IF Tail(todo) = <<>> THEN "reply" ELSE Head(Tail(todo)))
<1>1. CASE kind = "zones_daily"
  BY SMTT(30), <1>1, TailsAndHeads DEF Course, Follows
<1>2. CASE kind = "zone_windows"
  <2>1. CASE todo = <<"look", "settled", "batch", "speed">>
    BY SMTT(30), <1>2, <2>1, TailsAndHeads DEF Course, Follows
  <2>2. CASE todo # <<"look", "settled", "batch", "speed">>
    BY SMTT(30), <1>2, <2>2, TailsAndHeads DEF Course, Follows
  <2>3. QED
    BY SMTT(30), <2>1, <2>2
<1>3. CASE kind = "household_bills"
  BY SMTT(30), <1>3, TailsAndHeads DEF Course, Follows
<1>4. CASE kind = "day_bills"
  <2>1. CASE todo = <<"look", "settled", "totals", "page">>
    BY SMTT(30), <1>4, <2>1, TailsAndHeads DEF Course, Follows
  <2>2. CASE todo = <<"settled", "totals", "page">>
    BY SMTT(30), <1>4, <2>2, TailsAndHeads DEF Course, Follows
  <2>3. CASE todo \in {<<"totals", "page">>, <<"page">>}
    BY SMTT(30), <1>4, <2>3, TailsAndHeads DEF Course, Follows
  <2>4. QED
    BY <1>4, <2>1, <2>2, <2>3 DEF Course
<1>5. CASE kind = "report_html"
  BY SMTT(30), <1>5, TailsAndHeads DEF Course, Follows
<1>6. CASE kind = "metrics"
  BY SMTT(30), <1>6, TailsAndHeads DEF Course, Follows
<1>7. QED
  BY <1>1, <1>2, <1>3, <1>4, <1>5, <1>6 DEF Course

LEMMA CourseGoesOn ==
  ASSUME OnCourse, NEW step, Reading(step),
         request'.kind = request.kind, request'.todo = Tail(request.todo)
  PROVE  /\ OnCourse' /\ At = step
         /\ Follows(request.kind, step, At')
BY CoursesGoOn DEF OnCourse, At, Reading

LEMMA EndOfCourse ==
  ASSUME OnCourse, request'.kind = request.kind, request'.todo = <<>>
  PROVE  OnCourse' /\ At' = "reply"
BY DEF OnCourse, Course, At

LEMMA StartOfCourse ==
  ASSUME NEW kind \in Kinds, request'.kind = kind, request'.todo = Reads[kind]
  PROVE  /\ OnCourse'
         /\ At' = CASE kind = "report_html" -> "report"
                    [] kind = "metrics" -> "today"
                    [] OTHER -> "look"
<1>1. CASE kind = "zones_daily"
  BY <1>1, TailsAndHeads DEF OnCourse, Course, At, Kinds, Ranged, Reads, HouseholdReads
<1>2. CASE kind = "zone_windows"
  BY <1>2, TailsAndHeads DEF OnCourse, Course, At, Kinds, Ranged, Reads, HouseholdReads
<1>3. CASE kind = "household_bills"
  BY <1>3, TailsAndHeads DEF OnCourse, Course, At, Kinds, Ranged, Reads, HouseholdReads
<1>4. CASE kind = "day_bills"
  BY <1>4, TailsAndHeads DEF OnCourse, Course, At, Kinds, Ranged, Reads, HouseholdReads
<1>5. CASE kind = "report_html"
  BY <1>5, TailsAndHeads DEF OnCourse, Course, At, Kinds, Ranged, Reads, HouseholdReads
<1>6. CASE kind = "metrics"
  BY <1>6, TailsAndHeads DEF OnCourse, Course, At, Kinds, Ranged, Reads, HouseholdReads
<1>7. QED
  BY <1>1, <1>2, <1>3, <1>4, <1>5, <1>6 DEF Kinds, Ranged

-----------------------------------------------------------------------------
(* The store at all times.                                                 *)

LEMMA LatestIsLast ==
  ASSUME StoreType, BooksHaveLast, NEW d \in Settled
  PROVE  /\ d \in Days /\ Latest(ledger[d]) \in Ids
         /\ \E r \in ledger[d] : r.id = Latest(ledger[d])
         /\ \A q \in ledger[d] : q.id <= Latest(ledger[d])
         /\ <<d, Latest(ledger[d])>> \in CurrentPairs(ledger)
<1>1. d \in Days /\ ledger[d] # {} /\ ledger[d] \subseteq Entry
  BY DEF Settled, StoreType
<1>2. \E r \in ledger[d] : \A q \in ledger[d] : q.id <= r.id
  BY <1>1 DEF BooksHaveLast, Last
<1>3. PICK r \in ledger[d] : r.id = Latest(ledger[d]) /\ \A q \in ledger[d] : q.id <= r.id
  BY <1>2 DEF Latest
<1>4. r.id \in Ids
  BY <1>1, <1>3 DEF Entry, Books!Entry
<1>5. QED
  BY <1>1, <1>3, <1>4 DEF CurrentPairs

LEMMA CurrentIsLatest ==
  ASSUME StoreType, BooksHaveLast, NEW p \in CurrentPairs(ledger)
  PROVE  p[1] \in Settled /\ p[2] = Latest(ledger[p[1]])
<1>1. /\ p[1] \in Days /\ p[2] \in Ids
      /\ \E r \in ledger[p[1]] : r.id = p[2]
      /\ \A r \in ledger[p[1]] : r.id <= p[2]
  BY DEF CurrentPairs
<1>2. p[1] \in Settled
  BY <1>1 DEF Settled
<1>3. Latest(ledger[p[1]]) \in Ids /\ Latest(ledger[p[1]]) <= p[2] /\ p[2] <= Latest(ledger[p[1]])
  BY <1>1, <1>2, LatestIsLast
<1>4. QED
  BY <1>1, <1>2, <1>3 DEF Ids

LEMMA InitServing == Init => ServingInv
<1> SUFFICES ASSUME Init PROVE ServingInv
  OBVIOUS
<1>1. StoreType /\ HistoryType
  BY ServingAssumption DEF Init, StoreType, HistoryType, Books!Init, Books!NoEntries,
                           Sims, Quiet
<1>2. RequestType
  BY DEF Init, RequestType, NoRequest, Fields
<1>3. StoreInv
  BY ServingAssumption DEF Init, StoreInv, AgesOrdered, BooksHaveLast, SettledIsOver,
     Settled, ListedAreThere, Books!Init, Books!NoEntries, Sims
<1>4. Idle /\ request.kind = "none" /\ request.todo = <<>> /\ request.why = "none"
  BY DEF Init, NoRequest, Idle
<1>5. HistoryInv /\ RequestInv
  BY <1>4 DEF HistoryInv, RequestInv, OnCourse, Course, FailedIsOver, Whys, AnchorKnown,
     RangeKnown, SettledKnown, BatchKnown, BillsKnown, RunsKnown, ReportKnown, Going,
     EachDayFromOneLayer, DayBillsMoveForward, OverdueIsTrue, FailuresAreExplained, Answers
<1>6. QED
  BY <1>1, <1>2, <1>3, <1>5 DEF ServingInv, TypeOK

\* What a step of the store notes.
NotedAs(clears) ==
  IF Idle THEN during' = during
  ELSE /\ during'.began = during.began
       /\ during'.current = during.current \cup CurrentPairs(ledger)'
       /\ during'.cleared = (during.cleared \/ clears)

LEMMA NotedKeeps ==
  ASSUME HistoryType, NEW clears \in BOOLEAN, Noted(clears)
  PROVE  HistoryType' /\ NotedAs(clears)
<1>1. CurrentPairs(ledger') \subseteq Days \X Ids
  BY DEF CurrentPairs
<1>2. CurrentPairs(ledger') = CurrentPairs(ledger)'
  BY DEF CurrentPairs
<1>3. QED
  BY <1>1, <1>2 DEF HistoryType, Noted, NotedAs

\* What a step of the store does to the books: it clears them, or leaves all
\* runs where they are and adds at most one, after all others.
BooksGrow ==
  /\ simulation' = simulation
  /\ \A d \in Days : ledger[d] \subseteq ledger'[d]
  /\ objects \subseteq objects' \/ simulation < clock

LEMMA StoreStepsNote ==
  ASSUME HistoryType, StoreSteps
  PROVE  /\ HistoryType'
         /\ IF ClearTables THEN NotedAs(TRUE) ELSE NotedAs(FALSE)
<1>1. CASE ClearTables
  BY <1>1, NotedKeeps DEF ClearTables
<1>2. CASE StoreSteps /\ ~ClearTables
  <2>1. Noted(FALSE)
    BY <1>2 DEF StoreSteps, Midnight, ReplaceAnchor, ClearObjects, Settle, PutReport,
                RecordReport
  <2>2. QED
    BY <1>2, <2>1, NotedKeeps
<1>3. QED
  BY <1>1, <1>2

LEMMA StoreStepsKeep ==
  ASSUME StoreType, StoreInv, StoreSteps
  PROVE  /\ StoreType' /\ StoreInv'
         /\ request' = request /\ clock <= clock'
         /\ \A s \in Sims : s <= clock => age[s] <= age'[s]
         /\ BooksGrow \/ ClearTables
<1>t. /\ clock \in Nat /\ simulation \in Nat /\ clock \in Sims /\ simulation \in Sims
      /\ age \in [Sims -> Nat] /\ ledger \in [Days -> SUBSET Entry] /\ NumDays \in Nat
      /\ MaxSims \in Nat
      /\ objects \subseteq Ids /\ reports \subseteq Ids
      /\ simulation <= clock
  BY ServingAssumption DEF StoreType, StoreInv, ListedAreThere, Sims
<1>s. \A s \in Sims : s \in Nat /\ age[s] \in Nat
  BY <1>t DEF Sims
<1> USE DEF StoreInv, tables, store
<1>1. ASSUME UNCHANGED <<clock, age>>
      PROVE  AgesOrdered' /\ clock <= clock' /\ \A s \in Sims : age[s] <= age'[s]
  BY <1>1, <1>t, <1>s DEF AgesOrdered
<1>2. ASSUME UNCHANGED <<simulation, ledger>>
      PROVE  BooksHaveLast' /\ Settled' = Settled
  BY <1>2 DEF BooksHaveLast, Last, Settled
<1>3. CASE Midnight
  <2>1. UNCHANGED <<clock, simulation, ledger, reports, objects, request>> /\ age[clock] < NumDays
    BY <1>3 DEF Midnight
  <2>2. age' = [s \in Sims |-> IF age[s] \in 1..NumDays THEN age[s] + 1 ELSE age[s]]
    BY <1>3 DEF Midnight
  <2>3. /\ age' \in [Sims -> Nat]
        /\ \A s \in Sims : age'[s] = IF age[s] \in 1..NumDays THEN age[s] + 1 ELSE age[s]
    BY <1>t, <2>2
  <2>4. StoreType'
    BY <2>1, <2>3 DEF StoreType
  <2>5. AgesOrdered'
    BY <1>t, <1>s, <2>1, <2>3 DEF AgesOrdered
  <2>6. \A s \in Sims : age[s] <= age'[s]
    BY <1>t, <1>s, <2>3
  <2>7. SettledIsOver'
    BY <1>t, <1>s, <1>2, <2>1, <2>3, <2>6 DEF SettledIsOver, Settled, Days
  <2>8. BooksHaveLast' /\ ListedAreThere' /\ BooksGrow
    BY <1>2, <2>1 DEF ListedAreThere, BooksGrow
  <2>9. QED
    BY <1>t, <2>1, <2>4, <2>5, <2>6, <2>7, <2>8
<1>4. CASE ReplaceAnchor
  <2>1. /\ UNCHANGED <<simulation, ledger, reports, objects, request>>
        /\ clock < MaxSims /\ clock' = clock + 1
        /\ age' = [age EXCEPT ![clock + 1] = 1]
    BY <1>4 DEF ReplaceAnchor
  <2>2. clock + 1 \in Sims
    BY <1>t, <2>1 DEF Sims
  <2>3. /\ age' \in [Sims -> Nat] /\ age'[clock + 1] = 1
        /\ \A s \in Sims : s # clock + 1 => age'[s] = age[s]
    BY <1>t, <2>1, <2>2
  <2>4. StoreType'
    BY <2>1, <2>2, <2>3 DEF StoreType
  <2>5. AgesOrdered'
    BY <1>t, <1>s, <2>1, <2>2, <2>3 DEF AgesOrdered
  <2>6. SettledIsOver'
    BY <1>t, <1>2, <2>1, <2>3 DEF SettledIsOver, Settled
  <2>7. BooksHaveLast' /\ ListedAreThere' /\ BooksGrow
    BY <1>t, <1>2, <2>1 DEF ListedAreThere, BooksGrow
  <2>8. QED
    BY <1>t, <1>s, <2>1, <2>3, <2>4, <2>5, <2>6, <2>7
<1>5. CASE ClearObjects
  <2>1. /\ UNCHANGED <<clock, age, simulation, ledger, reports, request>>
        /\ simulation < clock /\ objects' = {}
    BY <1>5 DEF ClearObjects
  <2>2. StoreType'
    BY <2>1 DEF StoreType
  <2>3. SettledIsOver' /\ BooksHaveLast' /\ ListedAreThere' /\ BooksGrow
    BY <1>t, <1>2, <2>1 DEF SettledIsOver, ListedAreThere, BooksGrow
  <2>4. QED
    BY <1>1, <2>1, <2>2, <2>3
<1>6. CASE ClearTables
  <2>1. /\ UNCHANGED <<clock, age, objects, request>>
        /\ simulation < clock /\ simulation' = simulation + 1 /\ reports' = {}
        /\ ledger' = [d \in Days |-> {}]
    BY <1>6 DEF ClearTables, Books!NewSimulation, Books!NoEntries
  <2>2. StoreType'
    BY <1>t, <2>1 DEF StoreType, Sims
  <2>3. Settled' = {} /\ BooksHaveLast'
    BY <2>1 DEF Settled, BooksHaveLast
  <2>4. SettledIsOver' /\ ListedAreThere'
    BY <1>t, <2>1, <2>3 DEF SettledIsOver, ListedAreThere
  <2>5. QED
    BY <1>1, <1>6, <2>1, <2>2, <2>3, <2>4
<1>7. ASSUME NEW d \in Days, Settle(d)
      PROVE  /\ StoreType' /\ StoreInv' /\ UNCHANGED <<clock, age, request>> /\ BooksGrow
  <2> PICK i \in Ids : /\ \A r \in AllRuns : r.id < i
                       /\ Books!Settle(d, [id |-> i, version |-> 1, readings |-> 0])
    BY <1>7 DEF Settle
  <2> DEFINE e == [id |-> i, version |-> 1, readings |-> 0]
  <2>1. /\ UNCHANGED <<clock, age, simulation, objects, reports, request>>
        /\ d < age[clock]
        /\ ledger' = [ledger EXCEPT ![d] = @ \cup {e}]
    BY <1>7 DEF Settle, Books!Settle
  <2>2. e \in Entry
    BY DEF Entry, Books!Entry
  <2>3. /\ ledger'[d] = ledger[d] \cup {e}
        /\ \A c \in Days : c # d => ledger'[c] = ledger[c]
        /\ ledger' \in [Days -> SUBSET Entry]
    BY <1>t, <2>1, <2>2
  <2>4. StoreType'
    BY <2>1, <2>3 DEF StoreType
  <2>5. BooksHaveLast'
    <3> SUFFICES ASSUME NEW c \in Days, ledger'[c] # {}
                 PROVE  \E r \in ledger'[c] : \A q \in ledger'[c] : q.id <= r.id
      BY DEF BooksHaveLast, Last
    <3>1. CASE c # d
      BY <2>3, <3>1 DEF BooksHaveLast, Last
    <3>2. CASE c = d
      <4>1. \A q \in ledger[d] : q.id < i /\ q.id \in Nat
        BY <1>t DEF AllRuns, Entry, Books!Entry, Ids
      <4>2. \A q \in ledger'[d] : q.id <= e.id
        BY <2>3, <4>1 DEF Ids
      <4>3. QED
        BY <2>3, <3>2, <4>2
    <3>3. QED
      BY <3>1, <3>2
  <2>6. SettledIsOver'
    <3>1. d < age[simulation]
      <4>1. age[clock] <= age[simulation]
        BY <1>t DEF AgesOrdered
      <4>2. d \in Nat /\ age[clock] \in Nat /\ age[simulation] \in Nat
        BY <1>t DEF Days
      <4>3. QED
        BY <2>1, <4>1, <4>2
    <3>2. Settled' \subseteq Settled \cup {d}
      BY <2>3 DEF Settled
    <3>3. QED
      BY <2>1, <3>1, <3>2 DEF SettledIsOver
  <2>7. AgesOrdered' /\ ListedAreThere' /\ BooksGrow
    BY <1>1, <2>1, <2>3 DEF ListedAreThere, BooksGrow
  <2>8. QED
    BY <2>1, <2>4, <2>5, <2>6, <2>7
<1>8. ASSUME NEW r \in AllRuns, PutReport(r) \/ RecordReport(r)
      PROVE  /\ StoreType' /\ StoreInv' /\ UNCHANGED <<clock, age, request>> /\ BooksGrow
  <2>1. UNCHANGED <<clock, age, simulation, ledger, request>>
    BY <1>8 DEF PutReport, RecordReport
  <2>r. r.id \in Ids
    BY <1>t DEF AllRuns, Entry, Books!Entry
  <2>2. \/ objects' = objects \cup {r.id} /\ reports' = reports
        \/ objects' = objects /\ r.id \in objects /\ reports' = reports \cup {r.id}
    BY <1>8 DEF PutReport, RecordReport
  <2>3. StoreType'
    BY <2>1, <2>2, <2>r DEF StoreType
  <2>4. SettledIsOver' /\ BooksHaveLast' /\ ListedAreThere' /\ BooksGrow
    BY <1>2, <2>1, <2>2 DEF SettledIsOver, ListedAreThere, BooksGrow
  <2>5. QED
    BY <1>1, <2>1, <2>3, <2>4
<1>9. QED
  BY <1>t, <1>s, <1>1, <1>3, <1>4, <1>5, <1>6, <1>7, <1>8 DEF StoreSteps

-----------------------------------------------------------------------------
(* A request while the store changes.                                      *)

\* What a step of the store is to a request in flight.
Meanwhile ==
  /\ request' = request
  /\ clock <= clock' /\ \A s \in Sims : s <= clock => age[s] <= age'[s]
  /\ ~Idle => /\ during'.began = during.began /\ during.current \subseteq during'.current
              /\ during.cleared => during'.cleared
              /\ ~during'.cleared => ~during.cleared /\ BooksGrow

LEMMA StoreStepsMeanwhile ==
  ASSUME TypeOK, StoreInv, HistoryInv, StoreSteps
  PROVE  TypeOK' /\ StoreInv' /\ HistoryInv' /\ Meanwhile
<1>1. /\ StoreType' /\ StoreInv' /\ request' = request /\ clock <= clock'
      /\ \A s \in Sims : s <= clock => age[s] <= age'[s]
      /\ BooksGrow \/ ClearTables
  BY StoreStepsKeep DEF TypeOK
<1>2. HistoryType' /\ IF ClearTables THEN NotedAs(TRUE) ELSE NotedAs(FALSE)
  BY StoreStepsNote DEF TypeOK
<1>3. TypeOK'
  BY <1>1, <1>2 DEF TypeOK, RequestType
<1>4. Meanwhile
  BY <1>1, <1>2 DEF Meanwhile, NotedAs, TypeOK, HistoryType
<1>5. HistoryInv'
  <2> SUFFICES ASSUME ~Idle
               PROVE  /\ CurrentPairs(ledger)' \subseteq during'.current
                      /\ during'.began \subseteq during'.current
                      /\ ~during'.cleared => \A p \in during'.current :
                                               \E r \in ledger'[p[1]] : r.id = p[2]
    BY <1>1 DEF HistoryInv, Idle
  <2>1. /\ during'.current = during.current \cup CurrentPairs(ledger)'
        /\ during'.began = during.began
    BY <1>2 DEF NotedAs
  <2>2. ASSUME ~during'.cleared, NEW p \in during'.current
        PROVE  \E r \in ledger'[p[1]] : r.id = p[2]
    <3>1. CASE p \in during.current
      <4>1. \E r \in ledger[p[1]] : r.id = p[2]
        BY <1>4, <2>2, <3>1 DEF Meanwhile, HistoryInv
      <4>2. p[1] \in Days
        BY <3>1 DEF TypeOK, HistoryType
      <4>3. ledger[p[1]] \subseteq ledger'[p[1]]
        BY <1>4, <2>2, <4>2 DEF Meanwhile, BooksGrow
      <4>4. QED
        BY <4>1, <4>3
    <3>2. CASE p \in CurrentPairs(ledger)'
      BY <3>2 DEF CurrentPairs
    <3>3. QED
      BY <2>1, <2>2, <3>1, <3>2
  <2>3. QED
    BY <2>1, <2>2 DEF HistoryInv
<1>6. QED
  BY <1>1, <1>3, <1>4, <1>5

LEMMA MeanwhileKeepsRequest ==
  ASSUME TypeOK, TypeOK', StoreInv, HistoryInv, HistoryInv', RequestInv, Meanwhile
  PROVE  RequestInv'
<1> USE DEF RequestInv
<1>t. /\ clock \in Nat /\ clock' \in Nat /\ simulation \in Nat
      /\ \A s \in Sims : age[s] \in Nat /\ age'[s] \in Nat
      /\ \A x \in request.rows : x.day \in Nat
      /\ request.first \in Nat /\ request.to \in Nat /\ request.named \in Nat
  <2>1. clock \in Sims /\ clock' \in Sims /\ simulation \in Sims
    BY DEF TypeOK, StoreType, Sims
  <2>2. age \in [Sims -> Nat] /\ age' \in [Sims -> Nat]
    BY DEF TypeOK, StoreType, Sims
  <2>3. /\ request.rows \subseteq RowType /\ request.first \in Nat
        /\ request.to \in Nat /\ request.named \in Nat
    BY DEF TypeOK, RequestType
  <2>4. QED
    BY <2>1, <2>2, <2>3 DEF Sims, RowType
<1>1. CASE Idle
  <2>1. request' = request /\ request.kind = "none" /\ OnCourse /\ FailedIsOver
    BY <1>1 DEF Meanwhile, Idle
  <2>2. QED
    BY <2>1 DEF OnCourse, FailedIsOver, Whys, AnchorKnown, Idle, Going,
     RangeKnown, SettledKnown, BatchKnown, BillsKnown, RunsKnown, ReportKnown,
     EachDayFromOneLayer, DayBillsMoveForward, OverdueIsTrue, FailuresAreExplained, Answers
<1>2. CASE ~Idle
  <2>1. /\ request' = request /\ during'.began = during.began
        /\ during.current \subseteq during'.current
        /\ during.cleared => during'.cleared
        /\ ~during'.cleared => ~during.cleared /\ BooksGrow
        /\ clock <= clock' /\ \A s \in Sims : s <= clock => age[s] <= age'[s]
    BY <1>2 DEF Meanwhile
  <2>2. /\ At' = At /\ Going' = Going /\ Asked' = Asked /\ SpeedDays' = SpeedDays
        /\ \A d : SettledAtStart(d)' = SettledAtStart(d) /\ BatchRow(d)' = BatchRow(d)
        /\ Unbilled' = Unbilled
    BY <2>1 DEF At, Going, Idle, Asked, SpeedDays, SettledAtStart, BatchRow, Unbilled
  <2>3. OnCourse' /\ FailedIsOver'
    BY <2>1 DEF OnCourse, FailedIsOver, Idle
  <2>0. /\ request.sim \in Sims /\ request.sim <= clock
        /\ request.first <= age[request.sim] /\ age[request.sim] <= age'[request.sim]
        /\ age[request.sim] \in Nat /\ age'[request.sim] \in Nat
    BY <1>2, <1>t, <2>1 DEF AnchorKnown
  <2>4. AnchorKnown'
    <3>1. /\ request.sim \in Sims /\ request.sim <= clock
          /\ request.first <= age[request.sim] /\ age[request.sim] <= age'[request.sim]
      BY <2>0
    <3>2. request.sim \in Nat
      BY <3>1 DEF Sims
    <3>3. QED
      BY <1>t, <2>1, <3>1, <3>2 DEF AnchorKnown
  <2>5. RangeKnown'
    <3>1. request.to <= age[request.sim] => request.to <= age'[request.sim]
      BY <1>t, <2>0
    <3>2. QED
      BY <2>1, <2>2, <3>1 DEF RangeKnown, LastAsked
  <2>6. SettledKnown'
    BY <2>1, <2>2 DEF SettledKnown
  <2>7. BatchKnown'
    BY <2>1, <2>2 DEF BatchKnown
  <2>8. RunsKnown' /\ DayBillsMoveForward'
    BY <2>1, <2>2 DEF RunsKnown, DayBillsMoveForward
  <2>9. EachDayFromOneLayer'
    BY <2>1, <2>2 DEF EachDayFromOneLayer, Answers
  <2>10. OverdueIsTrue'
    BY <2>1, <2>2 DEF OverdueIsTrue, Answers
  <2>11. BillsKnown'
    <3> SUFFICES ASSUME ~during'.cleared, BillsKnown,
                        request.kind = "household_bills", request.why = "none",
                        At \in {"unbilled", "reply"}
                 PROVE  /\ \A x \in request.rows : <<x.day, x.run>> \in during'.current
                        /\ request.sim = simulation' =>
                             \A x \in request.rows : x.day < age'[request.sim]
      BY <2>1, <2>2 DEF BillsKnown
    <3>1. request.sim \in Sims /\ age[request.sim] <= age'[request.sim]
      BY <1>2, <2>1 DEF AnchorKnown
    <3>2. simulation' = simulation
      BY <2>1 DEF BooksGrow
    <3>3. QED
      BY <1>t, <2>1, <3>1, <3>2 DEF BillsKnown
  <2>12. ~during'.cleared => /\ objects \subseteq objects' \/ simulation < clock
                             /\ simulation < clock => simulation' < clock'
    BY <1>t, <2>1 DEF BooksGrow
  <2>13. ReportKnown'
    BY <2>1, <2>2, <2>12 DEF ReportKnown
  <2>14. FailuresAreExplained'
    <3>1. request.named <= age[request.sim] => request.named <= age'[request.sim]
      BY <1>t, <2>0
    <3>2. request.named \in (request.first + 1)..age[request.sim] =>
            request.named \in (request.first + 1)..age'[request.sim]
      BY <1>t, <2>0, <3>1
    <3>3. QED
      BY <2>1, <2>2, <2>12, <3>2 DEF FailuresAreExplained
  <2>15. QED
    BY <2>3, <2>4, <2>5, <2>6, <2>7, <2>8, <2>9, <2>10, <2>11, <2>13, <2>14
<1>3. QED
  BY <1>1, <1>2

-----------------------------------------------------------------------------
(* The reads.                                                              *)

\* Neither the store nor the history changes.
LEMMA ReadsLeaveStore ==
  ASSUME TypeOK, StoreInv, HistoryInv, UNCHANGED <<store, during>>,
         request'.kind = request.kind
  PROVE  StoreType' /\ HistoryType' /\ StoreInv' /\ HistoryInv'
<1> USE DEF store, tables
<1>1. StoreType' /\ HistoryType'
  BY DEF TypeOK, StoreType, HistoryType
<1>2. StoreInv'
  BY DEF StoreInv, AgesOrdered, BooksHaveLast, Last, SettledIsOver, Settled, ListedAreThere
<1>3. HistoryInv'
  BY DEF HistoryInv, Idle, CurrentPairs
<1>4. QED
  BY <1>1, <1>2, <1>3

\* A read that finds what it needs.
LEMMA GoesOn ==
  ASSUME TypeOK, RequestInv, NEW step, Reading(step), NEW r, Goes(r),
         DOMAIN r = Fields, r.todo = request.todo, r.kind = request.kind
  PROVE  /\ At = step /\ Follows(request.kind, step, At') /\ OnCourse'
         /\ Going /\ ~Idle /\ request.why = "none"
         /\ UNCHANGED <<store, during>>
         /\ DOMAIN request' = Fields /\ request' = [f \in Fields |-> request'[f]]
         /\ \A f \in Fields \ {"todo"} : request'[f] = r[f]
<1>1. request' = [r EXCEPT !.todo = Tail(r.todo)]
  BY DEF Goes
<1>2. /\ DOMAIN request' = Fields
      /\ request'.todo = Tail(request.todo) /\ request'.kind = request.kind
      /\ \A f \in Fields \ {"todo"} : request'[f] = r[f]
  BY <1>1 DEF Fields
<1>3. request' = [f \in Fields |-> request'[f]]
  BY <1>1
<1>4. /\ At = step /\ Follows(request.kind, step, At') /\ OnCourse'
  BY <1>2, CourseGoesOn DEF RequestInv
<1>5. request.why = "none" /\ ~Idle
  <2>1. request.todo # <<>>
    BY DEF Reading
  <2>2. request.kind # "none"
    BY <1>4 DEF Follows
  <2>3. QED
    BY <2>1, <2>2 DEF RequestInv, FailedIsOver, Idle
<1>6. QED
  BY <1>2, <1>3, <1>4, <1>5 DEF Going, Goes

\* A read that does not.
LEMMA FailsKeeps ==
  ASSUME TypeOK, StoreInv, HistoryInv, RequestInv, NEW step, Reading(step),
         NEW why \in Whys \ {"none"}, Fails(why), FailuresAreExplained'
  PROVE  TypeOK' /\ StoreInv' /\ HistoryInv' /\ RequestInv'
<1> USE DEF store, tables
<1>1. /\ UNCHANGED <<store, during>> /\ DOMAIN request' = Fields
      /\ request'.todo = <<>> /\ request'.why = why
      /\ \A f \in Fields \ {"todo", "why"} : request'[f] = request[f]
  BY DEF Fails, TypeOK, RequestType, Fields
<1>2. request' = [f \in Fields |-> request'[f]]
  BY DEF Fails, TypeOK, RequestType
<1>3. /\ request'.kind = request.kind /\ request'.sim = request.sim
      /\ request'.first = request.first /\ request'.runs = request.runs
      /\ request'.to = request.to
  BY <1>1 DEF Fields
<1>4. RequestType'
  BY <1>1, <1>2, <1>3 DEF TypeOK, RequestType, Fields
<1>5. OnCourse' /\ At' = "reply"
  BY <1>1, <1>3, EndOfCourse DEF RequestInv
<1>6. ~Idle
  BY TailsAndHeads DEF Reading, RequestInv, OnCourse, Course, Idle
<1>7. FailedIsOver' /\ AnchorKnown' /\ ~Going'
  BY <1>1, <1>3, <1>6 DEF RequestInv, FailedIsOver, AnchorKnown, Idle, Going
<1>8. RunsKnown' /\ ReportKnown' /\ DayBillsMoveForward'
  BY <1>1, <1>3, <1>5 DEF RequestInv, RunsKnown, ReportKnown, DayBillsMoveForward
<1>9. /\ RangeKnown' /\ SettledKnown' /\ BatchKnown' /\ BillsKnown'
      /\ EachDayFromOneLayer' /\ OverdueIsTrue'
  BY <1>1, <1>7 DEF RangeKnown, SettledKnown, BatchKnown, BillsKnown, EachDayFromOneLayer,
                    OverdueIsTrue, Answers
<1>10. QED
  BY <1>1, <1>3, <1>4, <1>5, <1>7, <1>8, <1>9, ReadsLeaveStore DEF RequestInv, TypeOK

\* What a read leaves to show: how the fields it sets relate to the store.
LEMMA GoesKeeps ==
  ASSUME ServingInv, NEW step, Reading(step), NEW r, Goes(r),
         DOMAIN r = Fields, r.todo = request.todo, r.kind = request.kind,
         r.why = request.why, r.sim = request.sim, r.first = request.first,
         r.named = request.named
  PROVE  /\ StoreType' /\ HistoryType' /\ StoreInv' /\ HistoryInv'
         /\ OnCourse' /\ FailedIsOver' /\ AnchorKnown' /\ FailuresAreExplained'
         /\ At = step /\ Follows(request.kind, step, At') /\ Going /\ Going' /\ ~Idle
         /\ request'.kind = request.kind /\ request'.why = "none"
         /\ request'.sim = request.sim /\ request'.first = request.first
         /\ request'.named = request.named
         /\ request'.from = r.from /\ request'.to = r.to /\ request'.today = r.today
         /\ request'.settled = r.settled /\ request'.rows = r.rows /\ request'.runs = r.runs
         /\ UNCHANGED <<store, during>>
         /\ At' # "reply" => \A kinds : ~Answers(kinds)'
         /\ (/\ r.from \in Nat /\ r.to \in Nat /\ r.today \in Nat
             /\ r.rows \subseteq RowType /\ r.runs \in Seq(Nat)) => RequestType'
<1> USE DEF ServingInv
<1>1. /\ At = step /\ Follows(request.kind, step, At') /\ OnCourse'
      /\ Going /\ ~Idle /\ request.why = "none" /\ UNCHANGED <<store, during>>
      /\ DOMAIN request' = Fields /\ request' = [f \in Fields |-> request'[f]]
      /\ \A f \in Fields \ {"todo"} : request'[f] = r[f]
  BY GoesOn
<1>2. /\ request'.kind = request.kind /\ request'.why = "none"
      /\ request'.sim = request.sim /\ request'.first = request.first
      /\ request'.named = request.named
      /\ request'.from = r.from /\ request'.to = r.to /\ request'.today = r.today
      /\ request'.settled = r.settled /\ request'.rows = r.rows /\ request'.runs = r.runs
  BY <1>1 DEF Fields
<1>3. StoreType' /\ HistoryType' /\ StoreInv' /\ HistoryInv'
  BY <1>1, <1>2, ReadsLeaveStore
<1>4. Going' /\ FailedIsOver'
  BY <1>1, <1>2 DEF Going, Idle, FailedIsOver, Whys
<1>5. AnchorKnown'
  BY <1>1, <1>2 DEF RequestInv, AnchorKnown, store
<1>6. FailuresAreExplained'
  BY <1>2 DEF FailuresAreExplained
<1>7. At' # "reply" => \A kinds : ~Answers(kinds)'
  BY DEF Answers, At
<1>8. ASSUME r.from \in Nat, r.to \in Nat, r.today \in Nat,
             r.rows \subseteq RowType, r.runs \in Seq(Nat)
      PROVE  RequestType'
  BY <1>1, <1>2, <1>8 DEF TypeOK, RequestType
<1>9. QED
  BY <1>1, <1>2, <1>3, <1>4, <1>5, <1>6, <1>7, <1>8

LEMMA LookKeeps == ASSUME ServingInv, Look PROVE ServingInv'
<1> USE DEF ServingInv, Default
<1> DEFINE later  == age[request.sim]
           to     == LastAsked(request, later)
           ranged == request.kind \in Ranged
           from   == IF ranged THEN request.from ELSE to
           limit  == IF ranged THEN later ELSE request.first
           r      == [request EXCEPT !.from = from, !.to = to,
                                     !.today = IF ranged THEN request.first ELSE later]
<1>1. Reading("look")
  BY DEF Look
<1>2. /\ ~Idle /\ Going /\ At = "look"
      /\ request.kind \in {"zones_daily", "zone_windows", "household_bills", "day_bills"}
  <2>1. At = "look" /\ request.todo # <<>>
    BY <1>1 DEF Reading, At
  <2>2. request.kind \in {"zones_daily", "zone_windows", "household_bills", "day_bills"}
    BY <1>1, CoursesGoOn DEF Reading, RequestInv, OnCourse, Follows
  <2>3. QED
    BY <2>1, <2>2 DEF Going, Idle, RequestInv, FailedIsOver
<1>3. /\ request.sim \in Sims /\ later \in Nat /\ request.first \in Nat
      /\ request.named \in Nat /\ request.from \in Nat
      /\ request.first <= later
      /\ request.from <= request.named \/ request.named = 0
  BY <1>2 DEF RequestInv, AnchorKnown, RangeKnown, TypeOK, StoreType, RequestType
<1>4. to = IF request.named = 0 THEN request.first ELSE request.named
  BY DEF LastAsked
<1>5. ASSUME Fails("in the future"), to > limit \/ from > limit PROVE ServingInv'
  <2>1. request.named > request.first \/ request.from > request.first
    <3> HIDE DEF to, later
    <3>1. CASE ranged
      <4>1. to > later \/ request.from > later
        BY <1>5, <3>1
      <4>2. QED
        BY <1>3, <1>4, <4>1
    <3>2. CASE ~ranged
      <4>1. to > request.first
        BY <1>5, <3>2
      <4>2. QED
        BY <1>3, <1>4, <4>1
    <3>3. QED
      BY <3>1, <3>2
  <2>2. /\ request'.why = "in the future" /\ request'.named = request.named
        /\ request'.first = request.first /\ request'.from = request.from
    BY <1>5 DEF Fails, TypeOK, RequestType, Fields
  <2>3. FailuresAreExplained'
    BY <2>1, <2>2 DEF FailuresAreExplained
  <2>4. QED
    BY <1>1, <1>5, <2>3, FailsKeeps DEF Whys
<1>6. ASSUME Fails("reversed"), from > to PROVE ServingInv'
  <2>1. request.from > request.first
    BY <1>3, <1>4, <1>6
  <2>2. /\ request'.why = "reversed" /\ request'.named = request.named
        /\ request'.first = request.first /\ request'.from = request.from
    BY <1>6 DEF Fails, TypeOK, RequestType, Fields
  <2>3. FailuresAreExplained'
    BY <2>1, <2>2 DEF FailuresAreExplained
  <2>4. QED
    BY <1>1, <1>6, <2>3, FailsKeeps DEF Whys
<1>7. ASSUME Goes(r), ~(to > limit) PROVE ServingInv'
  <2>1. /\ DOMAIN r = Fields /\ r.todo = request.todo /\ r.kind = request.kind
        /\ r.why = request.why /\ r.sim = request.sim /\ r.first = request.first
        /\ r.named = request.named /\ r.from = from /\ r.to = to
        /\ r.today = (IF ranged THEN request.first ELSE later)
        /\ r.settled = request.settled /\ r.rows = request.rows /\ r.runs = request.runs
    BY DEF TypeOK, RequestType, Fields
  <2> HIDE DEF r
  <2>2. At' = "settled"
    BY <1>1, <1>2, <1>7, <2>1, GoesKeeps DEF Follows
  <2>3. RequestType'
    <3>1. request.rows \subseteq RowType /\ request.runs \in Seq(Nat) /\ to \in Nat
      BY <1>3, <1>4 DEF TypeOK, RequestType
    <3>2. /\ r.from \in Nat /\ r.to \in Nat /\ r.today \in Nat
          /\ r.rows \subseteq RowType /\ r.runs \in Seq(Nat)
      BY <1>3, <2>1, <3>1
    <3> HIDE DEF to, later, limit
    <3>3. QED
      BY <1>1, <1>7, <2>1, <3>2, GoesKeeps
  <2>4. RangeKnown'
    <3>1. /\ request'.kind = request.kind /\ request'.first = request.first
          /\ request'.named = request.named /\ request'.from = from /\ request'.to = to
          /\ request'.today = IF ranged THEN request.first ELSE later
      BY <1>1, <1>7, <2>1, GoesKeeps
    <3>2. request'.to = LastAsked(request, 0)'
      BY <1>4, <3>1 DEF LastAsked
    <3>3. ranged => request'.to <= age'[request'.sim]
      <4>1. age' = age /\ request'.sim = request.sim
        BY <1>1, <1>7, <2>1, GoesKeeps DEF store
      <4> HIDE DEF to, later
      <4>2. to \in Nat /\ (ranged => to <= later)
        BY <1>3, <1>4, <1>7
      <4>3. QED
        BY <3>1, <4>1, <4>2 DEF later
    <3>4. QED
      BY <1>2, <1>3, <2>2, <3>1, <3>2, <3>3 DEF RangeKnown
  <2>5. RunsKnown' /\ DayBillsMoveForward'
    <3>1. request'.kind = request.kind /\ request'.runs = request.runs
      BY <1>1, <1>7, <2>1, GoesKeeps
    <3>2. request.kind = "day_bills" => request.runs = <<>>
      BY <1>2 DEF RequestInv, RunsKnown
    <3>3. QED
      BY <2>2, <3>1, <3>2 DEF RunsKnown, DayBillsMoveForward
  <2>6. SettledKnown' /\ BatchKnown' /\ BillsKnown' /\ ReportKnown'
    BY <2>2 DEF SettledKnown, BatchKnown, BillsKnown, ReportKnown
  <2>7. EachDayFromOneLayer' /\ OverdueIsTrue'
    BY <1>1, <1>7, <2>1, <2>2, GoesKeeps DEF EachDayFromOneLayer, OverdueIsTrue
  <2>8. QED
    BY <1>1, <1>7, <2>1, <2>3, <2>4, <2>5, <2>6, <2>7, GoesKeeps DEF RequestInv, TypeOK
<1>8. QED
  BY <1>5, <1>6, <1>7 DEF Look

\* What was current since the request began is settled still, by that run or a
\* later one.
LEMMA CurrentIsSettled ==
  ASSUME ServingInv, ~Idle, ~during.cleared, NEW p \in during.current
  PROVE  p[1] \in Settled /\ p[2] <= Latest(ledger[p[1]])
<1>1. p[1] \in Days /\ \E r \in ledger[p[1]] : r.id = p[2]
  BY DEF ServingInv, HistoryInv, TypeOK, HistoryType
<1>2. p[1] \in Settled
  BY <1>1 DEF Settled
<1>3. QED
  BY <1>1, <1>2, LatestIsLast DEF ServingInv, TypeOK, StoreInv

LEMMA StartedIsSettled ==
  ASSUME ServingInv, ~Idle, ~during.cleared, NEW d, SettledAtStart(d)
  PROVE  d \in Settled /\ d \in Days
<1>1. PICK p \in during.began : p[1] = d
  BY DEF SettledAtStart
<1>2. p \in during.current
  BY <1>1 DEF ServingInv, HistoryInv
<1>3. QED
  BY <1>1, <1>2, CurrentIsSettled DEF Settled

\* What is read as settled is current at that moment.
LEMMA ReadRunsAreCurrent ==
  ASSUME ServingInv, ~Idle, NEW days, NEW d \in DOMAIN CurrentRuns(days)
  PROVE  /\ d \in days /\ d \in Settled /\ d \in Days
         /\ CurrentRuns(days)[d] = Latest(ledger[d])
         /\ CurrentRuns(days)[d] \in Ids
         /\ <<d, CurrentRuns(days)[d]>> \in during.current
<1>1. d \in days /\ d \in Settled /\ CurrentRuns(days)[d] = Latest(ledger[d])
  BY DEF CurrentRuns
<1>2. QED
  BY <1>1, LatestIsLast DEF ServingInv, TypeOK, StoreInv, HistoryInv

LEMMA ReadSettledKeeps == ASSUME ServingInv, ReadSettled PROVE ServingInv'
<1> USE DEF ServingInv
<1> DEFINE settled == CurrentRuns(Asked)
           runs == IF request.kind = "day_bills" THEN <<settled[request.to]>> ELSE <<>>
           r == [request EXCEPT !.settled = settled, !.runs = runs]
<1>1. Reading("settled")
  BY DEF ReadSettled
<1>2. /\ ~Idle /\ Going /\ At = "settled"
      /\ request.kind \in {"zones_daily", "zone_windows", "household_bills", "day_bills",
                           "metrics"}
  <2>1. At = "settled" /\ request.todo # <<>>
    BY <1>1 DEF Reading, At
  <2>2. request.kind \in {"zones_daily", "zone_windows", "household_bills", "day_bills",
                          "metrics"}
    BY <1>1, CoursesGoOn DEF Reading, RequestInv, OnCourse, Follows
  <2>3. QED
    BY <2>1, <2>2 DEF Going, Idle, RequestInv, FailedIsOver
<1>3. /\ request.from \in Nat /\ request.to \in Nat /\ request.today \in Nat
      /\ request.first \in Nat /\ request.named \in Nat
      /\ request.rows \subseteq RowType
  BY DEF TypeOK, RequestType
<1>4. DOMAIN settled = Asked \cap Settled
  BY DEF CurrentRuns
<1>5. ASSUME Fails("in the future"), request.kind = "zone_windows", request.to > request.today
      PROVE  ServingInv'
  <2>1. /\ request.to = (IF request.named = 0 THEN request.first ELSE request.named)
        /\ request.today = request.first
    BY <1>2, <1>5 DEF RequestInv, RangeKnown, LastAsked, Default, Ranged
  <2>2. request.named > request.first
    <3>1. request.to > request.first
      BY <1>5, <2>1
    <3> HIDE DEF settled, runs, r
    <3>2. QED
      BY <1>3, <2>1, <3>1
  <2>3. /\ request'.why = "in the future" /\ request'.named = request.named
        /\ request'.first = request.first
    BY <1>5 DEF Fails, TypeOK, RequestType, Fields
  <2>4. FailuresAreExplained'
    BY <2>2, <2>3 DEF FailuresAreExplained
  <2>5. QED
    BY <1>1, <1>5, <2>4, FailsKeeps DEF Whys
<1>6. ASSUME Fails("unsettled"), request.kind = "day_bills", request.to \notin DOMAIN settled
      PROVE  ServingInv'
  <2>1. request.to \in Asked
    BY <1>2, <1>3, <1>6 DEF RequestInv, RangeKnown, Ranged, Asked
  <2>2. during.cleared \/ ~SettledAtStart(request.to)
    BY <1>2, <1>4, <1>6, <2>1, StartedIsSettled
  <2>3. request'.why = "unsettled" /\ request'.to = request.to /\ during' = during
    BY <1>6 DEF Fails, TypeOK, RequestType, Fields
  <2>4. FailuresAreExplained'
    BY <2>2, <2>3 DEF FailuresAreExplained, SettledAtStart
  <2>5. QED
    BY <1>1, <1>6, <2>4, FailsKeeps DEF Whys
<1>7. ASSUME Goes(r), request.kind = "day_bills" => request.to \in DOMAIN settled
      PROVE  ServingInv'
  <2>1. /\ DOMAIN r = Fields /\ r.todo = request.todo /\ r.kind = request.kind
        /\ r.why = request.why /\ r.sim = request.sim /\ r.first = request.first
        /\ r.named = request.named /\ r.from = request.from /\ r.to = request.to
        /\ r.today = request.today /\ r.rows = request.rows
        /\ r.settled = settled /\ r.runs = runs
    BY DEF TypeOK, RequestType, Fields
  <2> HIDE DEF r
  <2>2. /\ Follows(request.kind, "settled", At')
        /\ request'.kind = request.kind /\ request'.first = request.first
        /\ request'.named = request.named /\ request'.from = request.from
        /\ request'.to = request.to /\ request'.today = request.today
        /\ request'.settled = settled /\ request'.runs = runs
        /\ request'.sim = request.sim /\ UNCHANGED <<store, during>>
    BY <1>1, <1>7, <2>1, GoesKeeps
  <2>3. At' \in {"figures", "batch", "bills", "totals", "count"}
    BY <2>2 DEF Follows
  <2>4. request.kind = "day_bills" =>
          /\ settled[request.to] \in Ids /\ <<request.to, settled[request.to]>> \in during.current
    BY <1>2, <1>7, ReadRunsAreCurrent
  <2>5. RequestType'
    <3>1. runs \in Seq(Nat)
      BY <2>4 DEF Ids
    <3>2. QED
      BY <1>1, <1>3, <1>7, <2>1, <3>1, GoesKeeps
  <2>6. RangeKnown'
    BY <1>2, <2>2, <2>3 DEF RequestInv, RangeKnown, Going, Idle, LastAsked, store
  <2>7. SettledKnown'
    <3> DEFINE asked == request.from..request.to
    <3>1. Asked' = Asked
      BY <2>2 DEF Asked
    <3>2. DOMAIN settled \subseteq Asked \cap Days
      BY <1>4 DEF Settled
    <3>3. \A d \in DOMAIN settled : <<d, settled[d]>> \in during.current
      BY <1>2, ReadRunsAreCurrent
    <3>4. ~during.cleared => \A d \in Asked : SettledAtStart(d) => d \in DOMAIN settled
      BY <1>2, <1>4, StartedIsSettled
    <3>5. \A d : SettledAtStart(d)' = SettledAtStart(d)
      BY <2>2 DEF SettledAtStart
    <3>6. during' = during /\ request'.settled = settled
      BY <2>2
    <3> HIDE DEF settled
    <3>7. QED
      BY <3>1, <3>2, <3>3, <3>4, <3>5, <3>6 DEF SettledKnown
  <2>8. RunsKnown' /\ DayBillsMoveForward'
    <3>1. CASE request.kind # "day_bills"
      BY <2>2, <3>1 DEF RunsKnown, DayBillsMoveForward
    <3>2. CASE request.kind = "day_bills"
      <4>1. request'.runs = <<settled[request.to]>> /\ At' = "totals"
        BY <2>2, <3>2 DEF Follows
      <4>2. RunsKnown'
        BY <4>1 DEF RunsKnown
      <4>3. DayBillsMoveForward'
        BY <2>2, <2>4, <3>2, <4>1 DEF DayBillsMoveForward, Ids
      <4>4. QED
        BY <4>2, <4>3
    <3>3. QED
      BY <3>1, <3>2
  <2>9. BatchKnown' /\ BillsKnown' /\ ReportKnown'
    BY <2>3 DEF BatchKnown, BillsKnown, ReportKnown
  <2>10. EachDayFromOneLayer' /\ OverdueIsTrue'
    BY <1>1, <1>7, <2>1, <2>3, GoesKeeps DEF EachDayFromOneLayer, OverdueIsTrue
  <2>11. QED
    BY <1>1, <1>7, <2>1, <2>5, <2>6, <2>7, <2>8, <2>9, <2>10, GoesKeeps
       DEF RequestInv, TypeOK
<1>8. QED
  BY <1>5, <1>6, <1>7 DEF ReadSettled

\* A read of rows: of what is known only what is about the rows is left to show.
LEMMA RowsKeep ==
  ASSUME ServingInv, NEW step \in {"figures", "batch", "speed", "bills", "unbilled", "count"},
         Reading(step), NEW rows, rows \subseteq RowType,
         Goes([request EXCEPT !.rows = rows])
  PROVE  /\ At = step /\ Follows(request.kind, step, At') /\ Going /\ Going' /\ ~Idle
         /\ request'.kind = request.kind /\ request'.why = "none"
         /\ request'.sim = request.sim /\ request'.first = request.first
         /\ request'.from = request.from /\ request'.to = request.to
         /\ request'.today = request.today /\ request'.settled = request.settled
         /\ request'.rows = rows
         /\ Asked' = Asked /\ SpeedDays' = SpeedDays /\ \A d : BatchRow(d)' = BatchRow(d)
         /\ \A d : SettledAtStart(d)' = SettledAtStart(d)
         /\ UNCHANGED <<store, during>>
         /\ At' # "reply" => EachDayFromOneLayer' /\ OverdueIsTrue'
         /\ BatchKnown' /\ BillsKnown' /\ EachDayFromOneLayer' /\ OverdueIsTrue'
              => ServingInv'
<1> USE DEF ServingInv
<1> DEFINE r == [request EXCEPT !.rows = rows]
<1>1. /\ DOMAIN r = Fields /\ r.todo = request.todo /\ r.kind = request.kind
      /\ r.why = request.why /\ r.sim = request.sim /\ r.first = request.first
      /\ r.named = request.named /\ r.from = request.from /\ r.to = request.to
      /\ r.today = request.today /\ r.rows = rows
      /\ r.settled = request.settled /\ r.runs = request.runs
  BY DEF TypeOK, RequestType, Fields
<1>2. Goes(r)
  OBVIOUS
<1> HIDE DEF r
<1>3. /\ StoreType' /\ HistoryType' /\ StoreInv' /\ HistoryInv'
      /\ OnCourse' /\ FailedIsOver' /\ AnchorKnown' /\ FailuresAreExplained'
      /\ At = step /\ Follows(request.kind, step, At') /\ Going /\ Going' /\ ~Idle
      /\ request'.kind = request.kind /\ request'.why = "none"
      /\ request'.sim = request.sim /\ request'.first = request.first
      /\ request'.named = request.named /\ request'.from = request.from
      /\ request'.to = request.to /\ request'.today = request.today
      /\ request'.settled = request.settled /\ request'.rows = rows
      /\ request'.runs = request.runs
      /\ UNCHANGED <<store, during>>
      /\ At' # "reply" => \A kinds : ~Answers(kinds)'
  BY <1>1, <1>2, GoesKeeps
<1>4. RequestType'
  BY <1>1, <1>2, GoesKeeps DEF TypeOK, RequestType
<1>5. /\ Asked' = Asked /\ SpeedDays' = SpeedDays /\ \A d : BatchRow(d)' = BatchRow(d)
      /\ \A d : SettledAtStart(d)' = SettledAtStart(d)
  BY <1>3 DEF Asked, SpeedDays, BatchRow, SettledAtStart
<1>6. /\ request.kind \in {"zones_daily", "zone_windows", "household_bills", "metrics"}
      /\ At' \in {"reply", "speed", "unbilled"}
  BY <1>3 DEF Follows
<1>7. RangeKnown'
  BY <1>3, <1>6 DEF RequestInv, RangeKnown, LastAsked, store
<1>8. SettledKnown'
  BY <1>3, <1>5 DEF RequestInv, SettledKnown
<1>9. RunsKnown' /\ ReportKnown' /\ DayBillsMoveForward'
  BY <1>3, <1>6 DEF RunsKnown, ReportKnown, DayBillsMoveForward
<1>10. At' # "reply" => EachDayFromOneLayer' /\ OverdueIsTrue'
  BY <1>3 DEF EachDayFromOneLayer, OverdueIsTrue
<1>11. QED
  BY <1>3, <1>4, <1>5, <1>7, <1>8, <1>9, <1>10 DEF RequestInv, TypeOK

\* What is read of the batch layer: rows of the runs read as settled, all of
\* them unless the tables were cleared.
LEMMA BatchRowsAreThere ==
  ASSUME ServingInv, Going, request.kind \in {"zones_daily", "zone_windows"},
         At \in {"figures", "batch"}
  PROVE  /\ BatchRows \subseteq RowType
         /\ BatchRows \subseteq {BatchRow(d) : d \in Asked \ SpeedDays}
         /\ ~during.cleared => \A d \in Asked \ SpeedDays : BatchRow(d) \in BatchRows
<1> USE DEF ServingInv
<1>1. /\ DOMAIN request.settled \subseteq Asked \cap Days
      /\ \A d \in DOMAIN request.settled : <<d, request.settled[d]>> \in during.current
  BY DEF RequestInv, SettledKnown
<1>2. \A d \in Asked \ SpeedDays : d \in DOMAIN request.settled
  BY DEF SpeedDays, Layer
<1>3. during.current \subseteq Days \X Ids
  BY DEF TypeOK, HistoryType
<1>4. \A d \in Asked \ SpeedDays : d \in Nat /\ request.settled[d] \in Nat
  <2>1. \A d \in Asked \ SpeedDays : d \in Days /\ request.settled[d] \in Ids
    BY <1>1, <1>2, <1>3
  <2>2. QED
    BY <2>1 DEF Days, Ids
<1>5. BatchRows \subseteq RowType
  <2>1. \A d \in Asked \ SpeedDays : Row(d, "batch", request.settled[d]) \in RowType
    BY <1>4 DEF Row, RowType
  <2>2. QED
    BY <2>1 DEF BatchRows
<1>6. BatchRows \subseteq {BatchRow(d) : d \in Asked \ SpeedDays}
  BY DEF BatchRows, BatchRow
<1>7. ASSUME ~during.cleared, NEW d \in Asked \ SpeedDays
      PROVE  BatchRow(d) \in BatchRows
  <2>1. \E r \in ledger[d] : r.id = request.settled[d]
    <3> DEFINE p == <<d, request.settled[d]>>
    <3>1. p \in during.current
      BY <1>1, <1>2
    <3>2. \E r \in ledger[p[1]] : r.id = p[2]
      BY <1>7, <3>1 DEF HistoryInv, Going
    <3>3. QED
      BY <3>2
  <2>2. QED
    BY <2>1 DEF BatchRows, BatchRow
<1>8. QED
  BY <1>5, <1>6, <1>7

\* An answer that has a row of the settled run for each day not left to the speed
\* layer, and else only rows of the speed layer for the others.
LEMMA OneLayer ==
  ASSUME ServingInv, Going, request.kind \in {"zones_daily", "zone_windows"},
         At \in {"figures", "speed"}, NEW rows, ~during.cleared,
         rows \subseteq {BatchRow(d) : d \in Asked \ SpeedDays}
                          \cup {Row(d, "speed", 0) : d \in SpeedDays},
         \A d \in Asked \ SpeedDays : BatchRow(d) \in rows,
         NEW d \in Asked
  PROVE  /\ \A x, y \in rows : x.day = d /\ y.day = d => x = y
         /\ \A x \in rows : x.day = d /\ x.layer = "batch" => <<d, x.run>> \in during.current
         /\ SettledAtStart(d) /\ d < request.first =>
              \E x \in rows : x.day = d /\ x.layer = "batch"
<1> USE DEF ServingInv
<1>r. /\ \A c \in Asked : BatchRow(c).day = c
      /\ \A c \in SpeedDays : Row(c, "speed", 0).day = c
  BY DEF BatchRow, Row
<1>1. \A x \in rows : \/ x.day \in Asked \ SpeedDays /\ x = BatchRow(x.day)
                      \/ x.day \in SpeedDays /\ x = Row(x.day, "speed", 0)
  BY <1>r
<1>2. \A x, y \in rows : x.day = d /\ y.day = d => x = y
  BY <1>1
<1>3. \A c \in Asked \ SpeedDays : c \in DOMAIN request.settled
  BY DEF SpeedDays, Layer
<1>4. \A c \in DOMAIN request.settled : <<c, request.settled[c]>> \in during.current
  BY DEF RequestInv, SettledKnown
<1>5. ASSUME NEW x \in rows, x.day = d, x.layer = "batch"
      PROVE  <<d, x.run>> \in during.current
  <2>1. d \notin SpeedDays /\ x = BatchRow(d)
    BY <1>1, <1>5 DEF Row
  <2>2. x.run = request.settled[d]
    BY <2>1 DEF BatchRow, Row
  <2>3. QED
    BY <1>3, <1>4, <2>1, <2>2
<1>6. ASSUME SettledAtStart(d), d < request.first
      PROVE  \E x \in rows : x.day = d /\ x.layer = "batch"
  <2>1. d \in DOMAIN request.settled
    BY <1>6 DEF RequestInv, SettledKnown
  <2>2. d # request.today
    <3>1. request.first <= request.today /\ request.first \in Nat /\ request.today \in Nat
      BY DEF RequestInv, RangeKnown, TypeOK, RequestType, Ranged
    <3>2. d \in Nat
      BY DEF Asked, TypeOK, RequestType
    <3>3. QED
      BY <1>6, <3>1, <3>2
  <2>3. d \notin SpeedDays
    BY <2>1, <2>2 DEF SpeedDays, Layer
  <2>4. BatchRow(d) \in rows /\ BatchRow(d).day = d /\ BatchRow(d).layer = "batch"
    BY <2>3 DEF BatchRow, Row
  <2>5. QED
    BY <2>4
<1>7. QED
  BY <1>2, <1>5, <1>6

LEMMA SpeedRowsAreOfSpeedDays ==
  ASSUME TypeOK
  PROVE  /\ SpeedRows \subseteq RowType
         /\ SpeedRows \subseteq {Row(d, "speed", 0) : d \in SpeedDays}
<1>1. \A d \in SpeedDays : d \in Nat
  BY DEF SpeedDays, Asked, TypeOK, RequestType
<1>2. \A d \in SpeedDays : Row(d, "speed", 0) \in RowType
  BY <1>1 DEF Row, RowType
<1>3. QED
  BY <1>2 DEF SpeedRows

\* The last read of figures, if the rows are as they should be.
LEMMA FiguresKeep ==
  ASSUME ServingInv, NEW step \in {"figures", "speed"}, Reading(step),
         NEW rows, rows \subseteq RowType, Goes([request EXCEPT !.rows = rows]),
         ~during.cleared =>
           /\ rows \subseteq {BatchRow(d) : d \in Asked \ SpeedDays}
                               \cup {Row(d, "speed", 0) : d \in SpeedDays}
           /\ \A d \in Asked \ SpeedDays : BatchRow(d) \in rows
  PROVE  ServingInv'
<1>1. /\ At = step /\ Follows(request.kind, step, At') /\ Going /\ Going'
      /\ request'.kind = request.kind /\ request'.rows = rows
      /\ request'.first = request.first /\ Asked' = Asked
      /\ \A d : SettledAtStart(d)' = SettledAtStart(d)
      /\ UNCHANGED <<store, during>>
      /\ BatchKnown' /\ BillsKnown' /\ EachDayFromOneLayer' /\ OverdueIsTrue'
           => ServingInv'
  BY RowsKeep
<1>2. request.kind \in {"zones_daily", "zone_windows"} /\ At' = "reply"
  BY <1>1 DEF Follows
<1>3. BatchKnown' /\ BillsKnown' /\ OverdueIsTrue'
  BY <1>1, <1>2 DEF BatchKnown, BillsKnown, OverdueIsTrue, Answers
<1>4. EachDayFromOneLayer'
  <2>1. ASSUME ~during.cleared, NEW d \in Asked
        PROVE  /\ \A x, y \in rows : x.day = d /\ y.day = d => x = y
               /\ \A x \in rows : x.day = d /\ x.layer = "batch" => <<d, x.run>> \in during.current
               /\ SettledAtStart(d) /\ d < request.first =>
                    \E x \in rows : x.day = d /\ x.layer = "batch"
    <3>1. Going /\ At \in {"figures", "speed"}
      BY <1>1
    <3>2. rows \subseteq {BatchRow(c) : c \in Asked \ SpeedDays}
                           \cup {Row(c, "speed", 0) : c \in SpeedDays}
      BY <2>1
    <3>3. \A c \in Asked \ SpeedDays : BatchRow(c) \in rows
      BY <2>1
    <3>4. QED
      BY ZenonT(30), <1>2, <2>1, <3>1, <3>2, <3>3, OneLayer
  <2>2. QED
    BY <1>1, <2>1 DEF EachDayFromOneLayer
<1>5. QED
  BY <1>1, <1>3, <1>4

LEMMA ReadFiguresKeeps == ASSUME ServingInv, ReadFigures PROVE ServingInv'
<1> DEFINE rows == IF SpeedDays = {} THEN BatchRows ELSE SpeedRows
<1>1. Reading("figures") /\ Goes([request EXCEPT !.rows = rows])
  BY DEF ReadFigures
<1>2. At = "figures" /\ Going /\ request.kind = "zones_daily"
  <2>1. At = "figures" /\ request.todo # <<>>
    BY <1>1 DEF Reading, At
  <2>2. request.kind = "zones_daily"
    BY <1>1, CoursesGoOn DEF Reading, ServingInv, RequestInv, OnCourse, Follows
  <2>3. QED
    BY <2>1, <2>2 DEF Going, Idle, ServingInv, RequestInv, FailedIsOver
<1>3. Asked = {request.to}
  <2>1. request.from = request.to
    BY <1>2 DEF ServingInv, RequestInv, RangeKnown, Ranged
  <2>2. request.to \in Nat
    BY DEF ServingInv, TypeOK, RequestType
  <2>3. QED
    BY <2>1, <2>2 DEF Asked
<1>4. SpeedDays # {} => Asked \ SpeedDays = {}
  BY <1>3 DEF SpeedDays
<1>5. rows \subseteq RowType
  BY <1>2, BatchRowsAreThere, SpeedRowsAreOfSpeedDays DEF ServingInv
<1>6. ~during.cleared =>
        /\ rows \subseteq {BatchRow(d) : d \in Asked \ SpeedDays}
                            \cup {Row(d, "speed", 0) : d \in SpeedDays}
        /\ \A d \in Asked \ SpeedDays : BatchRow(d) \in rows
  <2>1. CASE SpeedDays = {}
    BY <1>2, <2>1, BatchRowsAreThere
  <2>2. CASE SpeedDays # {}
    BY <1>4, <2>2, SpeedRowsAreOfSpeedDays DEF ServingInv
  <2>3. QED
    BY <2>1, <2>2
<1> HIDE DEF rows
<1>7. QED
  BY <1>1, <1>5, <1>6, FiguresKeep

LEMMA ReadBatchKeeps == ASSUME ServingInv, ReadBatch PROVE ServingInv'
<1>1. Reading("batch") /\ Goes([request EXCEPT !.rows = BatchRows])
  BY DEF ReadBatch
<1>2. At = "batch" /\ Going /\ request.kind = "zone_windows"
  <2>1. At = "batch" /\ request.todo # <<>>
    BY <1>1 DEF Reading, At
  <2>2. request.kind = "zone_windows"
    BY <1>1, CoursesGoOn DEF Reading, ServingInv, RequestInv, OnCourse, Follows
  <2>3. QED
    BY <2>1, <2>2 DEF Going, Idle, ServingInv, RequestInv, FailedIsOver
<1>3. /\ BatchRows \subseteq RowType
      /\ BatchRows \subseteq {BatchRow(d) : d \in Asked \ SpeedDays}
      /\ ~during.cleared => \A d \in Asked \ SpeedDays : BatchRow(d) \in BatchRows
  BY <1>2, BatchRowsAreThere
<1>4. PICK rows : rows = BatchRows
  OBVIOUS
<1>5. /\ Follows(request.kind, "batch", At') /\ request'.kind = request.kind
      /\ request'.rows = rows /\ Asked' = Asked /\ SpeedDays' = SpeedDays
      /\ \A d : BatchRow(d)' = BatchRow(d)
      /\ UNCHANGED <<store, during>>
      /\ At' # "reply" => EachDayFromOneLayer' /\ OverdueIsTrue'
      /\ BatchKnown' /\ BillsKnown' /\ EachDayFromOneLayer' /\ OverdueIsTrue'
           => ServingInv'
  BY <1>1, <1>3, <1>4, RowsKeep
<1>6. At' = "speed"
  BY <1>2, <1>5 DEF Follows
<1>7. BatchKnown'
  BY <1>3, <1>4, <1>5 DEF BatchKnown
<1>8. BillsKnown'
  BY <1>2, <1>5 DEF BillsKnown
<1>9. QED
  BY <1>5, <1>6, <1>7, <1>8

LEMMA ReadSpeedKeeps == ASSUME ServingInv, ReadSpeed PROVE ServingInv'
<1> DEFINE rows == request.rows \cup SpeedRows
<1>1. Reading("speed") /\ Goes([request EXCEPT !.rows = rows])
  BY DEF ReadSpeed, ServingInv, TypeOK, RequestType, Fields
<1>2. At = "speed" /\ Going /\ request.kind = "zone_windows"
  <2>1. At = "speed" /\ request.todo # <<>>
    BY <1>1 DEF Reading, At
  <2>2. request.kind = "zone_windows"
    BY <1>1, CoursesGoOn DEF Reading, ServingInv, RequestInv, OnCourse, Follows
  <2>3. QED
    BY <2>1, <2>2 DEF Going, Idle, ServingInv, RequestInv, FailedIsOver
<1>3. /\ request.rows \subseteq {BatchRow(d) : d \in Asked \ SpeedDays}
      /\ ~during.cleared => \A d \in Asked \ SpeedDays : BatchRow(d) \in request.rows
  BY <1>2 DEF ServingInv, RequestInv, BatchKnown
<1>4. rows \subseteq RowType
  BY SpeedRowsAreOfSpeedDays DEF ServingInv, TypeOK, RequestType
<1>5. ~during.cleared =>
        /\ rows \subseteq {BatchRow(d) : d \in Asked \ SpeedDays}
                            \cup {Row(d, "speed", 0) : d \in SpeedDays}
        /\ \A d \in Asked \ SpeedDays : BatchRow(d) \in rows
  BY <1>3, SpeedRowsAreOfSpeedDays DEF ServingInv
<1> HIDE DEF rows
<1>6. QED
  BY <1>1, <1>4, <1>5, FiguresKeep

LEMMA ReadBillsKeeps == ASSUME ServingInv, ReadBills PROVE ServingInv'
<1> USE DEF ServingInv
<1> DEFINE current == CurrentRuns(Asked)
           rows    == {Row(d, "batch", current[d]) : d \in DOMAIN current}
<1>1. Reading("bills") /\ Goes([request EXCEPT !.rows = rows])
  BY DEF ReadBills
<1>2. At = "bills" /\ ~Idle /\ Going /\ request.kind = "household_bills"
  <2>1. At = "bills" /\ request.todo # <<>>
    BY <1>1 DEF Reading, At
  <2>2. request.kind = "household_bills"
    BY <1>1, CoursesGoOn DEF Reading, RequestInv, OnCourse, Follows
  <2>3. QED
    BY <2>1, <2>2 DEF Going, Idle, RequestInv, FailedIsOver
<1>3. \A d \in DOMAIN current :
        /\ d \in Asked /\ d \in Settled /\ d \in Days
        /\ current[d] \in Ids /\ <<d, current[d]>> \in during.current
  BY <1>2, ReadRunsAreCurrent
<1>4. DOMAIN current = Asked \cap Settled
  BY DEF CurrentRuns
<1> HIDE DEF current
<1>5. \A d \in DOMAIN current : /\ Row(d, "batch", current[d]).day = d
                                /\ Row(d, "batch", current[d]).run = current[d]
                                /\ Row(d, "batch", current[d]) \in RowType
  <2>i. Days \subseteq Nat /\ Ids \subseteq Nat
    BY DEF Days, Ids
  <2>1. \A d \in DOMAIN current : d \in Nat /\ current[d] \in Nat
    BY <1>3, <2>i
  <2>2. QED
    BY <2>1 DEF Row, RowType
<1>6. rows \subseteq RowType
  BY <1>5
<1>7. /\ \A x \in rows : x.day \in Settled /\ <<x.day, x.run>> \in during.current
      /\ \A x, y \in rows : x.day = y.day => x = y
      /\ \A d \in Asked \ {x.day : x \in rows} : d \notin Settled
  <2>1. \A x \in rows : x.day \in DOMAIN current /\ x = Row(x.day, "batch", current[x.day])
    BY <1>5
  <2>2. \A x \in rows : x.day \in Settled /\ <<x.day, x.run>> \in during.current
    BY <1>3, <1>5, <2>1
  <2>3. \A x, y \in rows : x.day = y.day => x = y
    BY <2>1
  <2>4. \A d \in Asked \ {x.day : x \in rows} : d \notin Settled
    BY <1>4, <1>5
  <2>5. QED
    BY <2>2, <2>3, <2>4
<1> HIDE DEF rows
<1>8. /\ At = "bills" /\ Follows(request.kind, "bills", At')
      /\ request'.kind = request.kind /\ request'.sim = request.sim
      /\ request'.settled = request.settled /\ request'.rows = rows /\ Asked' = Asked
      /\ \A d : SettledAtStart(d)' = SettledAtStart(d)
      /\ UNCHANGED <<store, during>>
      /\ At' # "reply" => EachDayFromOneLayer' /\ OverdueIsTrue'
      /\ BatchKnown' /\ BillsKnown' /\ EachDayFromOneLayer' /\ OverdueIsTrue'
           => ServingInv'
  BY <1>1, <1>6, RowsKeep
<1>9. At' = "unbilled"
  BY <1>2, <1>8 DEF Follows
<1>10. BatchKnown'
  BY <1>9 DEF BatchKnown
<1>11. BillsKnown'
  <2>1. ASSUME ~during.cleared, NEW d \in Asked \ {x.day : x \in rows}
        PROVE  d \notin DOMAIN request.settled /\ ~SettledAtStart(d)
    <3>1. d \notin Settled
      BY <1>7, <2>1
    <3>2. ~SettledAtStart(d)
      BY <1>2, <2>1, <3>1, StartedIsSettled
    <3>3. d \notin DOMAIN request.settled
      <4>1. SUFFICES ASSUME d \in DOMAIN request.settled PROVE FALSE
        OBVIOUS
      <4>2. PICK p : p = <<d, request.settled[d]>>
        OBVIOUS
      <4>3. p \in during.current
        BY <1>2, <4>1, <4>2 DEF RequestInv, SettledKnown
      <4>4. p[1] \in Settled
        BY <1>2, <2>1, <4>3, CurrentIsSettled
      <4>5. QED
        BY <3>1, <4>2, <4>4
    <3>4. QED
      BY <3>2, <3>3
  <2>2. ASSUME request.sim = simulation, NEW x \in rows PROVE x.day < age[request.sim]
    BY <1>7, <2>2 DEF StoreInv, SettledIsOver
  <2>3. Unbilled' = Asked \ {x.day : x \in rows}
    BY <1>8 DEF Unbilled
  <2>4. QED
    BY <1>7, <1>8, <2>1, <2>2, <2>3 DEF BillsKnown, store, tables
<1>12. QED
  BY <1>8, <1>9, <1>10, <1>11

LEMMA ExplainKeeps == ASSUME ServingInv, Explain PROVE ServingInv'
<1> USE DEF ServingInv
<1>1. Reading("unbilled")
  BY DEF Explain
<1>2. At = "unbilled" /\ ~Idle /\ Going /\ request.kind = "household_bills"
  <2>1. At = "unbilled" /\ request.todo # <<>>
    BY <1>1 DEF Reading, At
  <2>2. request.kind = "household_bills"
    BY <1>1, CoursesGoOn DEF Reading, RequestInv, OnCourse, Follows
  <2>3. QED
    BY <2>1, <2>2 DEF Going, Idle, RequestInv, FailedIsOver
<1>3. ASSUME Fails("unhandled"), NEW d \in Unbilled, d > request.today
      PROVE  ServingInv'
  <2>1. /\ request.to = (IF request.named = 0 THEN request.first ELSE request.named)
        /\ request.today = request.first /\ request.to <= age[request.sim]
    BY <1>2 DEF RequestInv, RangeKnown, LastAsked, Default, Ranged
  <2>2. /\ request.to \in Nat /\ request.first \in Nat /\ request.named \in Nat
        /\ request.sim \in Sims /\ age[request.sim] \in Nat
    BY <1>2 DEF TypeOK, RequestType, StoreType, RequestInv, AnchorKnown
  <2>3. d \in Int /\ d <= request.to
    BY <2>2 DEF Unbilled, Asked
  <2>4. request.named \in (request.first + 1)..age[request.sim]
    <3>1. d > request.first
      BY <1>3, <2>1
    <3>2. request.to > request.first
      BY <2>2, <2>3, <3>1
    <3>3. QED
      BY <2>1, <2>2, <3>2
  <2>5. /\ request'.why = "unhandled" /\ request'.named = request.named
        /\ request'.first = request.first /\ request'.sim = request.sim
        /\ request'.kind = request.kind /\ age' = age
    BY <1>3 DEF Fails, TypeOK, RequestType, Fields, store
  <2>6. FailuresAreExplained'
    BY <1>2, <2>4, <2>5 DEF FailuresAreExplained
  <2>7. QED
    BY <1>1, <1>3, <2>6, FailsKeeps DEF Whys
<1>4. ASSUME Goes(request) PROVE ServingInv'
  <2>1. request = [request EXCEPT !.rows = request.rows] /\ request.rows \subseteq RowType
    BY DEF TypeOK, RequestType
  <2>2. /\ Follows(request.kind, "unbilled", At')
        /\ request'.kind = request.kind /\ request'.sim = request.sim
        /\ request'.settled = request.settled /\ request'.rows = request.rows
        /\ Asked' = Asked
        /\ \A d : SettledAtStart(d)' = SettledAtStart(d)
        /\ UNCHANGED <<store, during>>
        /\ BatchKnown' /\ BillsKnown' /\ EachDayFromOneLayer' /\ OverdueIsTrue'
             => ServingInv'
    BY <1>1, <1>4, <2>1, RowsKeep
  <2>3. BatchKnown' /\ EachDayFromOneLayer' /\ OverdueIsTrue'
    BY <1>2, <2>2 DEF BatchKnown, EachDayFromOneLayer, OverdueIsTrue, Answers
  <2>4. Unbilled' = Unbilled
    BY <2>2 DEF Unbilled
  <2>5. BillsKnown'
    BY <1>2, <2>2, <2>4 DEF RequestInv, BillsKnown, Going, store, tables
  <2>6. QED
    BY <2>2, <2>3, <2>5
<1>5. QED
  BY <1>1, <1>3, <1>4 DEF Explain

\* A read of a run, for the bills of a day or for its report.
LEMMA RunsKeep ==
  ASSUME ServingInv, NEW step \in {"totals", "page", "report", "object"}, Reading(step),
         NEW runs \in Seq(Nat), Goes([request EXCEPT !.runs = runs])
  PROVE  /\ At = step /\ Follows(request.kind, step, At') /\ Going /\ ~Idle
         /\ request.kind \in {"day_bills", "report_html"}
         /\ request'.kind = request.kind
         /\ request'.to = request.to /\ request'.runs = runs
         /\ UNCHANGED <<store, during>>
         /\ RunsKnown' /\ ReportKnown' /\ DayBillsMoveForward' => ServingInv'
<1> USE DEF ServingInv
<1> DEFINE r == [request EXCEPT !.runs = runs]
<1>1. /\ DOMAIN r = Fields /\ r.todo = request.todo /\ r.kind = request.kind
      /\ r.why = request.why /\ r.sim = request.sim /\ r.first = request.first
      /\ r.named = request.named /\ r.from = request.from /\ r.to = request.to
      /\ r.today = request.today /\ r.rows = request.rows
      /\ r.settled = request.settled /\ r.runs = runs
  BY DEF TypeOK, RequestType, Fields
<1>2. Goes(r)
  OBVIOUS
<1> HIDE DEF r
<1>3. /\ StoreType' /\ HistoryType' /\ StoreInv' /\ HistoryInv'
      /\ OnCourse' /\ FailedIsOver' /\ AnchorKnown' /\ FailuresAreExplained'
      /\ At = step /\ Follows(request.kind, step, At') /\ Going /\ ~Idle
      /\ request'.kind = request.kind /\ request'.sim = request.sim
      /\ request'.first = request.first
      /\ request'.named = request.named /\ request'.from = request.from
      /\ request'.to = request.to /\ request'.today = request.today
      /\ request'.runs = runs
      /\ UNCHANGED <<store, during>>
  BY <1>1, <1>2, GoesKeeps
<1>4. RequestType'
  BY <1>1, <1>2, GoesKeeps DEF TypeOK, RequestType
<1>5. /\ request.kind \in {"day_bills", "report_html"}
      /\ At' \in {"reply", "page", "object"}
  BY <1>3 DEF Follows
<1>6. RangeKnown'
  BY <1>3, <1>5 DEF RequestInv, RangeKnown, LastAsked, store
<1>7. /\ SettledKnown' /\ BatchKnown' /\ BillsKnown' /\ EachDayFromOneLayer'
      /\ OverdueIsTrue'
  BY <1>3, <1>5 DEF SettledKnown, BatchKnown, BillsKnown, EachDayFromOneLayer,
                    OverdueIsTrue, Answers
<1>8. QED
  BY <1>3, <1>4, <1>5, <1>6, <1>7 DEF RequestInv, TypeOK

LEMMA CurrentOfIsRun ==
  ASSUME StoreType, BooksHaveLast, NEW d PROVE CurrentOf(d) \in Nat
<1>1. Ids \subseteq Nat
  BY DEF Ids
<1>2. QED
  BY <1>1, LatestIsLast DEF CurrentOf

\* The totals and the page of a day's bills.
LEMMA ReadRunKeeps ==
  ASSUME ServingInv, NEW step \in {"totals", "page"}, Reading(step),
         Goes([request EXCEPT !.runs = Append(@, CurrentOf(request.to))])
  PROVE  ServingInv'
<1> USE DEF ServingInv
<1> DEFINE run == CurrentOf(request.to)
<1>1. run \in Nat /\ request.runs \in Seq(Nat) /\ request.to \in Nat
  BY CurrentOfIsRun DEF TypeOK, StoreInv, RequestType
<1> HIDE DEF run
<1>s. Append(request.runs, run) \in Seq(Nat)
  BY <1>1
<1>2. PICK runs \in Seq(Nat) : runs = Append(request.runs, run)
  BY <1>s, Zenon
<1>3. Goes([request EXCEPT !.runs = runs])
  BY <1>2 DEF run, TypeOK, RequestType, Fields
<1>4. /\ At = step /\ Follows(request.kind, step, At') /\ ~Idle
      /\ request'.kind = request.kind
      /\ request'.to = request.to /\ request'.runs = runs
      /\ UNCHANGED <<store, during>>
      /\ RunsKnown' /\ ReportKnown' /\ DayBillsMoveForward' => ServingInv'
  BY <1>3, RunsKeep
<1>5. request.kind = "day_bills" /\ At' \in {"page", "reply"}
  BY <1>4 DEF Follows
<1>6. request.runs # <<>>
  BY <1>4, <1>5 DEF RequestInv, RunsKnown
<1>7. /\ Len(request.runs) \in Nat \ {0} /\ Len(runs) = Len(request.runs) + 1
      /\ DOMAIN runs = 1..Len(runs) /\ DOMAIN request.runs = 1..Len(request.runs)
      /\ \A i \in DOMAIN request.runs : runs[i] = request.runs[i] /\ runs[i] \in Nat
      /\ runs[Len(runs)] = run
  BY SMTT(30), <1>1, <1>2, <1>6
<1>8. RunsKnown' /\ ReportKnown'
  BY <1>4, <1>5, <1>7 DEF RunsKnown, ReportKnown
<1>9. ASSUME ~during.cleared
      PROVE  /\ <<request.to, run>> \in during.current
             /\ \A i \in DOMAIN request.runs : /\ <<request.to, request.runs[i]>> \in during.current
                                               /\ request.runs[i] <= run
  <2>1. \A i \in DOMAIN request.runs : <<request.to, request.runs[i]>> \in during.current
    BY <1>5, <1>9 DEF RequestInv, DayBillsMoveForward
  <2>2. \A i \in DOMAIN request.runs :
          request.to \in Settled /\ request.runs[i] <= Latest(ledger[request.to])
    <3> SUFFICES ASSUME NEW i \in DOMAIN request.runs
                 PROVE  request.to \in Settled /\ request.runs[i] <= Latest(ledger[request.to])
      OBVIOUS
    <3>1. PICK p : p = <<request.to, request.runs[i]>>
      OBVIOUS
    <3>2. p[1] \in Settled /\ p[2] <= Latest(ledger[p[1]])
      BY <1>4, <1>9, <2>1, <3>1, CurrentIsSettled
    <3>3. QED
      BY <3>1, <3>2
  <2>3. request.to \in Settled
    BY <1>7, <2>2
  <2>4. run = Latest(ledger[request.to])
    BY <2>3 DEF run, CurrentOf
  <2>5. <<request.to, run>> \in during.current
    BY <1>4, <2>3, <2>4, LatestIsLast DEF TypeOK, StoreInv, HistoryInv
  <2>6. QED
    BY <2>1, <2>2, <2>4, <2>5
<1>10. DayBillsMoveForward'
  <2> SUFFICES ASSUME ~during.cleared
               PROVE  /\ \A i \in DOMAIN runs : <<request.to, runs[i]>> \in during.current
                      /\ \A i, j \in DOMAIN runs : i < j => runs[i] <= runs[j]
    BY <1>4 DEF DayBillsMoveForward
  <2>1. \A i \in DOMAIN runs : i \in DOMAIN request.runs \/ i = Len(runs)
    BY <1>7
  <2>2. \A i \in DOMAIN runs : <<request.to, runs[i]>> \in during.current
    BY <1>7, <1>9, <2>1
  <2>3. \A i, j \in DOMAIN request.runs : i < j => request.runs[i] <= request.runs[j]
    BY <1>5 DEF RequestInv, DayBillsMoveForward
  <2>4. ASSUME NEW i \in DOMAIN runs, NEW j \in DOMAIN runs, i < j PROVE runs[i] <= runs[j]
    <3>1. i \in DOMAIN request.runs
      BY <1>7, <2>4
    <3>2. CASE j \in DOMAIN request.runs
      BY <1>7, <2>3, <2>4, <3>1, <3>2
    <3>3. CASE j = Len(runs)
      BY <1>7, <1>9, <3>1, <3>3
    <3>4. QED
      BY <2>1, <3>2, <3>3
  <2>5. QED
    BY <2>2, <2>4
<1>11. QED
  BY <1>4, <1>8, <1>10

LEMMA ReadReportKeeps == ASSUME ServingInv, ReadReport PROVE ServingInv'
<1> USE DEF ServingInv
<1> DEFINE run == CurrentOf(request.named)
<1>1. Reading("report")
  BY DEF ReadReport
<1>2. run \in Nat
  BY CurrentOfIsRun DEF TypeOK, StoreInv
<1>3. ASSUME Fails("no report") PROVE ServingInv'
  <2>1. request'.why = "no report"
    BY <1>3 DEF Fails, TypeOK, RequestType, Fields
  <2>2. FailuresAreExplained'
    BY <2>1 DEF FailuresAreExplained
  <2>3. QED
    BY <1>1, <1>3, <2>2, FailsKeeps DEF Whys
<1>4. ASSUME run \in reports, Goes([request EXCEPT !.runs = <<run>>]) PROVE ServingInv'
  <2> HIDE DEF run
  <2>s. <<run>> \in Seq(Nat)
    BY <1>2
  <2>1. PICK runs \in Seq(Nat) : runs = <<run>>
    BY <2>s, Zenon
  <2>2. /\ At = "report" /\ Follows(request.kind, "report", At') /\ Going /\ ~Idle
        /\ request'.kind = request.kind /\ request'.runs = runs
        /\ UNCHANGED <<store, during>>
        /\ RunsKnown' /\ ReportKnown' /\ DayBillsMoveForward' => ServingInv'
    BY <1>1, <1>4, <2>1, RunsKeep
  <2>3. request.kind = "report_html"
    BY <2>2 DEF Follows
  <2>4. RunsKnown' /\ DayBillsMoveForward'
    BY <2>2, <2>3 DEF RunsKnown, DayBillsMoveForward
  <2>5. simulation < clock \/ run \in objects
    BY <1>4 DEF StoreInv, ListedAreThere, TypeOK, StoreType, Sims
  <2>6. runs[1] = run
    BY <2>1
  <2>7. ReportKnown'
    BY <2>2, <2>5, <2>6 DEF ReportKnown, store, tables
  <2>8. QED
    BY <2>2, <2>4, <2>7
<1>5. QED
  BY <1>1, <1>3, <1>4 DEF ReadReport

LEMMA ReadObjectKeeps == ASSUME ServingInv, ReadObject PROVE ServingInv'
<1> USE DEF ServingInv
<1>1. Reading("object")
  BY DEF ReadObject
<1>2. At = "object" /\ request.kind = "report_html"
  <2>1. At = "object" /\ request.todo # <<>>
    BY <1>1 DEF Reading, At
  <2>2. request.kind = "report_html"
    BY <1>1, CoursesGoOn DEF Reading, RequestInv, OnCourse, Follows
  <2>3. QED
    BY <2>1, <2>2
<1>3. ASSUME Fails("missing"), request.runs[1] \notin objects PROVE ServingInv'
  <2>1. during.cleared \/ simulation < clock
    BY <1>2, <1>3 DEF RequestInv, ReportKnown
  <2>2. request'.why = "missing" /\ UNCHANGED <<store, during>>
    BY <1>3 DEF Fails, TypeOK, RequestType, Fields
  <2>3. FailuresAreExplained'
    BY <2>1, <2>2 DEF FailuresAreExplained, store, tables
  <2>4. QED
    BY <1>1, <1>3, <2>3, FailsKeeps DEF Whys
<1>4. ASSUME Goes(request) PROVE ServingInv'
  <2>1. request = [request EXCEPT !.runs = request.runs] /\ request.runs \in Seq(Nat)
    BY DEF TypeOK, RequestType
  <2>2. /\ Follows(request.kind, "object", At')
        /\ request'.kind = request.kind
        /\ RunsKnown' /\ ReportKnown' /\ DayBillsMoveForward' => ServingInv'
    BY <1>1, <1>4, <2>1, RunsKeep
  <2>3. At' = "reply"
    BY <1>2, <2>2 DEF Follows
  <2>4. RunsKnown' /\ ReportKnown' /\ DayBillsMoveForward'
    BY <1>2, <2>2, <2>3 DEF RunsKnown, ReportKnown, DayBillsMoveForward
  <2>5. QED
    BY <2>2, <2>4
<1>5. QED
  BY <1>1, <1>3, <1>4 DEF ReadObject

LEMMA LookAgainKeeps == ASSUME ServingInv, LookAgain PROVE ServingInv'
<1> USE DEF ServingInv
<1> DEFINE later == age[request.sim]
           r     == [request EXCEPT !.to = later, !.today = later]
<1>1. Reading("today") /\ Goes(r)
  BY DEF LookAgain
<1>2. At = "today" /\ ~Idle /\ Going /\ request.kind = "metrics"
  <2>1. At = "today" /\ request.todo # <<>>
    BY <1>1 DEF Reading, At
  <2>2. request.kind = "metrics"
    BY <1>1, CoursesGoOn DEF Reading, RequestInv, OnCourse, Follows
  <2>3. QED
    BY <2>1, <2>2 DEF Going, Idle, RequestInv, FailedIsOver
<1>3. later \in Nat /\ request.first <= later
  BY <1>2 DEF RequestInv, AnchorKnown, TypeOK, StoreType
<1>4. /\ DOMAIN r = Fields /\ r.todo = request.todo /\ r.kind = request.kind
      /\ r.why = request.why /\ r.sim = request.sim /\ r.first = request.first
      /\ r.named = request.named /\ r.from = request.from /\ r.to = later
      /\ r.today = later /\ r.rows = request.rows
      /\ r.settled = request.settled /\ r.runs = request.runs
  BY DEF TypeOK, RequestType, Fields
<1> HIDE DEF r, later
<1>5. /\ StoreType' /\ HistoryType' /\ StoreInv' /\ HistoryInv'
      /\ OnCourse' /\ FailedIsOver' /\ AnchorKnown' /\ FailuresAreExplained'
      /\ Follows(request.kind, "today", At')
      /\ request'.kind = request.kind /\ request'.first = request.first
      /\ request'.from = request.from /\ request'.to = later
  BY <1>1, <1>4, GoesKeeps
<1>6. RequestType'
  BY <1>1, <1>3, <1>4, GoesKeeps DEF TypeOK, RequestType
<1>7. At' = "settled" /\ request'.kind = "metrics"
  BY <1>2, <1>5 DEF Follows
<1>8. RangeKnown'
  BY <1>2, <1>3, <1>5, <1>7 DEF RequestInv, RangeKnown
<1>9. /\ SettledKnown' /\ BatchKnown' /\ BillsKnown' /\ RunsKnown' /\ ReportKnown'
      /\ EachDayFromOneLayer' /\ DayBillsMoveForward'
  BY <1>7 DEF SettledKnown, BatchKnown, BillsKnown, RunsKnown, ReportKnown,
              EachDayFromOneLayer, DayBillsMoveForward, Answers
<1>10. OverdueIsTrue'
  BY <1>7 DEF OverdueIsTrue, Answers, At
<1>11. QED
  BY <1>5, <1>6, <1>8, <1>9, <1>10 DEF RequestInv, TypeOK

LEMMA CountDaysKeeps == ASSUME ServingInv, CountDays PROVE ServingInv'
<1> USE DEF ServingInv
<1>1. Reading("count")
  BY DEF CountDays
<1>2. At = "count" /\ ~Idle /\ Going /\ request.kind = "metrics"
  <2>1. At = "count" /\ request.todo # <<>>
    BY <1>1 DEF Reading, At
  <2>2. request.kind = "metrics"
    BY <1>1, CoursesGoOn DEF Reading, RequestInv, OnCourse, Follows
  <2>3. QED
    BY <2>1, <2>2 DEF Going, Idle, RequestInv, FailedIsOver
<1> PICK wait \in 1..2 :
      Goes([request EXCEPT !.rows =
              {Row(d, "batch", request.settled[d]) : d \in DOMAIN request.settled}
              \cup {Row(d, "none", 0) : d \in Due(request, wait) \ DOMAIN request.settled}])
  BY DEF CountDays
<1> DEFINE settled   == DOMAIN request.settled
           unsettled == Due(request, wait) \ settled
           rows      == {Row(d, "batch", request.settled[d]) : d \in settled}
                          \cup {Row(d, "none", 0) : d \in unsettled}
<1>3. request.first \in Nat /\ request.from = 1 /\ request.first <= request.to /\ request.to \in Nat
  BY <1>2 DEF RequestInv, RangeKnown, TypeOK, RequestType
<1>4. /\ \A d \in settled : d \in Days /\ request.settled[d] \in Ids
                            /\ <<d, request.settled[d]>> \in during.current
  <2>1. /\ settled \subseteq Days
        /\ \A d \in settled : <<d, request.settled[d]>> \in during.current
    BY <1>2 DEF RequestInv, SettledKnown
  <2>2. during.current \subseteq Days \X Ids
    BY DEF TypeOK, HistoryType
  <2>3. QED
    BY <2>1, <2>2
<1>5. /\ unsettled \subseteq Nat
      /\ \A d \in unsettled : d < request.first /\ d \in Asked /\ d \notin settled
      /\ \A d \in 1..(request.first - 2) : d \in unsettled \/ d \in settled
  BY <1>3 DEF Due, Asked
<1>6. rows \subseteq RowType
  <2>i. Days \subseteq Nat /\ Ids \subseteq Nat
    BY DEF Days, Ids
  <2>1. \A d \in settled : d \in Nat /\ request.settled[d] \in Nat
    BY <1>4, <2>i
  <2>2. \A d \in settled : Row(d, "batch", request.settled[d]) \in RowType
    BY <2>1 DEF Row, RowType
  <2> HIDE DEF unsettled
  <2>3. \A d \in unsettled : Row(d, "none", 0) \in RowType
    BY <1>5 DEF Row, RowType
  <2>4. QED
    BY <2>2, <2>3
<1>7. {x.day : x \in {x \in rows : x.layer = "none"}} = unsettled
  <2> HIDE DEF unsettled, settled
  <2>1. \A d : Row(d, "none", 0).day = d /\ Row(d, "none", 0).layer = "none"
    BY DEF Row
  <2>2. \A d : Row(d, "batch", request.settled[d]).layer # "none"
    BY DEF Row
  <2>3. \A x \in rows : x.layer = "none" => x.day \in unsettled
    BY <2>1, <2>2
  <2>4. \A d \in unsettled : \E x \in {x \in rows : x.layer = "none"} : x.day = d
    BY <2>1
  <2> HIDE DEF rows
  <2>5. QED
    BY <2>3, <2>4
<1>8. Goes([request EXCEPT !.rows = rows])
  OBVIOUS
<1> HIDE DEF rows
<1>9. /\ Going' /\ request'.kind = request.kind /\ request'.rows = rows
      /\ request'.first = request.first
      /\ \A d : SettledAtStart(d)' = SettledAtStart(d)
      /\ UNCHANGED <<store, during>>
      /\ BatchKnown' /\ BillsKnown' /\ EachDayFromOneLayer' /\ OverdueIsTrue'
           => ServingInv'
  BY <1>1, <1>6, <1>8, RowsKeep
<1>10. BatchKnown' /\ BillsKnown' /\ EachDayFromOneLayer'
  BY <1>2, <1>9 DEF BatchKnown, BillsKnown, EachDayFromOneLayer, Answers
<1>11. OverdueIsTrue'
  <2> SUFFICES ASSUME ~during.cleared
               PROVE  /\ \A d \in unsettled : ~SettledAtStart(d) /\ d < request.first
                      /\ \A d \in 1..(request.first - 2) \ unsettled :
                           \E p \in during.current : p[1] = d
    BY <1>7, <1>9 DEF OverdueIsTrue
  <2>1. \A d \in unsettled : ~SettledAtStart(d)
    BY <1>2, <1>5 DEF RequestInv, SettledKnown
  <2>2. ASSUME NEW d \in 1..(request.first - 2) \ unsettled
        PROVE  \E p \in during.current : p[1] = d
    <3>1. d \in settled
      BY <1>5, <2>2
    <3>2. PICK p : p = <<d, request.settled[d]>>
      OBVIOUS
    <3>3. p \in during.current /\ p[1] = d
      BY <1>4, <3>1, <3>2
    <3>4. QED
      BY <3>3
  <2>3. QED
    BY <1>5, <2>1, <2>2
<1>12. QED
  BY <1>9, <1>10, <1>11

-----------------------------------------------------------------------------
(* The beginning and the end of a request.                                 *)

LEMMA BeginKeeps ==
  ASSUME ServingInv, NEW kind \in Kinds, NEW from \in Days, NEW to \in Days \cup {Default},
         kind \notin Ranged => from = 1,
         Begin(kind, from, to)
  PROVE  ServingInv'
<1> USE DEF ServingInv
<1>t. /\ clock \in Sims /\ age[clock] \in Nat /\ Days \subseteq Nat /\ Default \in Nat
  BY DEF TypeOK, StoreType, Days, Default
<1>1. /\ from <= to \/ to = Default
      /\ request' = [NoRequest EXCEPT !.kind = kind, !.todo = Reads[kind], !.sim = clock,
                                      !.from = from, !.named = to, !.to = to,
                                      !.first = age[clock]]
      /\ during' = [began |-> CurrentPairs(ledger), current |-> CurrentPairs(ledger),
                    cleared |-> FALSE]
      /\ UNCHANGED store
  BY DEF Begin
<1>2. /\ DOMAIN request' = Fields /\ request' = [f \in Fields |-> request'[f]]
      /\ request'.kind = kind /\ request'.todo = Reads[kind] /\ request'.sim = clock
      /\ request'.from = from /\ request'.named = to /\ request'.to = to
      /\ request'.first = age[clock] /\ request'.today = 0
      /\ request'.rows = {} /\ request'.runs = <<>> /\ request'.why = "none"
  BY <1>1 DEF NoRequest, Fields
<1>3. /\ OnCourse'
      /\ At' = CASE kind = "report_html" -> "report"
                 [] kind = "metrics" -> "today"
                 [] OTHER -> "look"
  BY <1>2, StartOfCourse
<1>4. RequestType'
  <2>1. clock \in Nat /\ from \in Nat /\ to \in Nat
    BY <1>t DEF Sims
  <2>2. request'.rows \subseteq RowType /\ request'.runs \in Seq(Nat)
    BY <1>2
  <2>3. QED
    BY <1>t, <1>2, <2>1, <2>2 DEF RequestType
<1>5. StoreType' /\ StoreInv'
  BY <1>1 DEF TypeOK, StoreType, StoreInv, store, tables, AgesOrdered, BooksHaveLast, Last,
              SettledIsOver, Settled, ListedAreThere
<1>6. HistoryType' /\ HistoryInv'
  <2>1. CurrentPairs(ledger) \subseteq Days \X Ids
    BY DEF CurrentPairs
  <2>2. CurrentPairs(ledger)' = CurrentPairs(ledger) /\ ledger' = ledger
    BY <1>1 DEF CurrentPairs, store, tables
  <2>3. \A p \in CurrentPairs(ledger) : \E r \in ledger[p[1]] : r.id = p[2]
    BY DEF CurrentPairs
  <2>4. QED
    BY <1>1, <2>1, <2>2, <2>3 DEF HistoryType, HistoryInv
<1>7. FailedIsOver' /\ FailuresAreExplained'
  BY <1>2 DEF FailedIsOver, Whys, FailuresAreExplained
<1>8. AnchorKnown'
  BY <1>t, <1>1, <1>2 DEF AnchorKnown, store, Sims
<1>9. RangeKnown'
  BY <1>1, <1>2, <1>3 DEF RangeKnown, Ranged, Default
<1>10. At' \in {"report", "today", "look"} /\ ("report_html" # kind => At' # "report")
  BY <1>3
<1>11. /\ SettledKnown' /\ BatchKnown' /\ BillsKnown' /\ ReportKnown' /\ RunsKnown'
  BY <1>2, <1>10 DEF SettledKnown, BatchKnown, BillsKnown, ReportKnown, RunsKnown
<1>12. EachDayFromOneLayer' /\ OverdueIsTrue'
  BY <1>10 DEF EachDayFromOneLayer, OverdueIsTrue, Answers, At
<1>13. DayBillsMoveForward'
  BY <1>2 DEF DayBillsMoveForward
<1>14. QED
  BY <1>3, <1>4, <1>5, <1>6, <1>7, <1>8, <1>9, <1>11, <1>12, <1>13 DEF RequestInv, TypeOK

LEMMA ReplyKeeps == ASSUME ServingInv, Reply PROVE ServingInv'
<1> USE DEF ServingInv
<1>1. request' = NoRequest /\ during' = Quiet /\ UNCHANGED store
  BY DEF Reply
<1>2. StoreType' /\ StoreInv'
  BY <1>1 DEF TypeOK, StoreType, StoreInv, store, tables, AgesOrdered, BooksHaveLast, Last,
              SettledIsOver, Settled, ListedAreThere
<1>3. HistoryType' /\ RequestType'
  BY <1>1 DEF HistoryType, RequestType, Quiet, NoRequest, Fields
<1>4. Idle' /\ request'.kind = "none" /\ request'.todo = <<>> /\ request'.why = "none"
  BY <1>1 DEF NoRequest, Idle
<1>5. HistoryInv' /\ RequestInv'
  BY <1>4 DEF HistoryInv, RequestInv, OnCourse, Course, FailedIsOver, Whys, AnchorKnown,
     RangeKnown, SettledKnown, BatchKnown, BillsKnown, RunsKnown, ReportKnown, Going,
     EachDayFromOneLayer, DayBillsMoveForward, OverdueIsTrue, FailuresAreExplained, Answers
<1>6. QED
  BY <1>2, <1>3, <1>5 DEF TypeOK

-----------------------------------------------------------------------------
(* The theorems.                                                           *)

LEMMA NextKeeps == ASSUME ServingInv, Next PROVE ServingInv'
<1>1. CASE StoreSteps
  BY <1>1, StoreStepsMeanwhile, MeanwhileKeepsRequest DEF ServingInv
<1>2. ASSUME NEW kind \in Kinds, NEW from \in Days, NEW to \in Days \cup {Default},
             kind \notin Ranged => from = 1, Begin(kind, from, to)
      PROVE  ServingInv'
  BY <1>2, BeginKeeps
<1>3. CASE Look
  BY <1>3, LookKeeps
<1>4. CASE ReadSettled
  BY <1>4, ReadSettledKeeps
<1>5. CASE ReadFigures
  BY <1>5, ReadFiguresKeeps
<1>6. CASE ReadBatch
  BY <1>6, ReadBatchKeeps
<1>7. CASE ReadSpeed
  BY <1>7, ReadSpeedKeeps
<1>8. CASE ReadBills
  BY <1>8, ReadBillsKeeps
<1>9. CASE Explain
  BY <1>9, ExplainKeeps
<1>10. CASE ReadTotals
  BY <1>10, ReadRunKeeps DEF ReadTotals
<1>11. CASE ReadPage
  BY <1>11, ReadRunKeeps DEF ReadPage
<1>12. CASE ReadReport
  BY <1>12, ReadReportKeeps
<1>13. CASE ReadObject
  BY <1>13, ReadObjectKeeps
<1>14. CASE LookAgain
  BY <1>14, LookAgainKeeps
<1>15. CASE CountDays
  BY <1>15, CountDaysKeeps
<1>16. CASE Reply
  BY <1>16, ReplyKeeps
<1>17. QED
  BY <1>1, <1>2, <1>3, <1>4, <1>5, <1>6, <1>7, <1>8, <1>9, <1>10, <1>11, <1>12, <1>13,
     <1>14, <1>15, <1>16 DEF Next, RequestSteps

LEMMA StutterKeeps == ASSUME ServingInv, UNCHANGED vars PROVE ServingInv'
<1> USE DEF ServingInv
<1>1. UNCHANGED <<store, during, request>>
  BY DEF vars
<1>2. StoreType' /\ HistoryType' /\ StoreInv' /\ HistoryInv'
  BY <1>1, ReadsLeaveStore
<1>3. RequestType'
  BY <1>1 DEF TypeOK, RequestType
<1>4. Meanwhile
  BY <1>1 DEF Meanwhile, BooksGrow, store, tables, TypeOK, StoreType, Sims
<1>5. QED
  BY <1>2, <1>3, <1>4, MeanwhileKeepsRequest DEF TypeOK

THEOREM ServingInvariant == Spec => []ServingInv
<1>1. ServingInv /\ [Next]_vars => ServingInv'
  BY NextKeeps, StutterKeeps
<1>2. QED
  BY InitServing, <1>1, PTL DEF Spec

\* Zone figures of a day come from one layer and one settlement, and a day that
\* was settled when the request began is served settled, for any number of days,
\* settlements and resets during the request (merge.py, app.py).
THEOREM ZonesOfADayAgree == Spec => []EachDayFromOneLayer
<1>1. ServingInv => EachDayFromOneLayer
  BY DEF ServingInv, RequestInv
<1>2. QED
  BY <1>1, ServingInvariant, PTL

\* The run id, the totals and the page of a day's bills were each current while the
\* request ran, and none is older than the part read before it.
THEOREM PartsOfADayMoveForward == Spec => []DayBillsMoveForward
<1>1. ServingInv => DayBillsMoveForward
  BY DEF ServingInv, RequestInv
<1>2. QED
  BY <1>1, ServingInvariant, PTL

\* A household's answer gives each day one bill, of a run that was current, or a
\* true reason why there is none.
THEOREM HouseholdsGetABillOrAReason == Spec => []BilledOrSaysWhy
<1>1. ASSUME ServingInv, Answers({"household_bills"}), ~during.cleared PROVE BilledOrSaysWhy
  <2>1. BillsKnown /\ request.kind = "household_bills" /\ request.why = "none" /\ At = "reply"
    BY <1>1 DEF ServingInv, RequestInv, Answers, At
  <2>2. /\ \A x \in request.rows : <<x.day, x.run>> \in during.current
        /\ \A x, y \in request.rows : x.day = y.day => x = y
        /\ \A d \in Unbilled : d \notin DOMAIN request.settled /\ ~SettledAtStart(d)
        /\ request.sim = simulation => \A x \in request.rows : x.day < age[request.sim]
    BY <1>1, <2>1 DEF BillsKnown
  <2>3. \A d \in Unbilled : BillAvailability(d, request.today, request.settled) # "settled"
    BY <2>2 DEF BillAvailability
  <2>4. QED
    BY <2>2, <2>3 DEF BilledOrSaysWhy
<1>2. ServingInv => BilledOrSaysWhy
  BY <1>1 DEF BilledOrSaysWhy
<1>3. QED
  BY <1>2, ServingInvariant, PTL

\* No day is reported overdue that was settled when the scrape began or was not
\* over yet, and no day that was due is left out without having been settled.
THEOREM OverdueDaysAreOverdue == Spec => []OverdueIsTrue
<1>1. ServingInv => OverdueIsTrue
  BY DEF ServingInv, RequestInv
<1>2. QED
  BY <1>1, ServingInvariant, PTL

\* A request fails only over a day that was in the future when it began, over bills
\* that were not there, or, for a report that is listed, during a reset; only a
\* household's bills end in an error nobody handles, over a day that has begun
\* since (household_bills in api.py catches no FutureDate).
THEOREM EveryFailureHasItsReason == Spec => []FailuresAreExplained
<1>1. ServingInv => FailuresAreExplained
  BY DEF ServingInv, RequestInv
<1>2. QED
  BY <1>1, ServingInvariant, PTL
=============================================================================
