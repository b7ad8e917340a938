---------------------------- MODULE ClockTickProofs ---------------------------
(***************************************************************************)
(* What holds of the clock tick for any number of days, simulations,       *)
(* failures and any MAX_TRIGGERS_PER_TICK.                                 *)
(***************************************************************************)
EXTENDS ClockTick, TLAPS

LEMMA DueHaveEnded == DueDates \subseteq 1..ended
BY DEF DueDates, Unrecorded

LEMMA TypeInit == Init => TypeOK
BY BoundsAssumption DEF Init, TypeOK, Sims, Days, RunIds, Tick, NoTick

\* Nothing but the bounds and the shape of the actions is needed: the days a
\* tick maps over have ended, so the run ids it makes are run ids.
LEMMA TypeStep == TypeOK /\ [Next]_vars => TypeOK'
<1> SUFFICES ASSUME TypeOK, [Next]_vars PROVE TypeOK'
  OBVIOUS
<1> USE BoundsAssumption DEF TypeOK
<1>1. CASE DayEnds
  BY <1>1 DEF DayEnds
<1>2. CASE DueSettlements
  <2>1. {RunId(sim, d) : d \in DueDates} \subseteq RunIds
    BY DueHaveEnded DEF RunId, RunIds, Days, Sims
  <2> QED
    BY <1>2, <2>1 DEF DueSettlements, Tick
<1>3. CASE NothingDue \/ UNCHANGED vars
  BY <1>3 DEF NothingDue, vars
<1>4. ASSUME NEW id \in RunIds, TriggerSettlement(id) PROVE TypeOK'
  <2>1. (tick.spoiled \/ id \in dagRuns) \in BOOLEAN
    BY DEF Tick
  <2>2. tick' \in Tick /\ tick'.pending \subseteq tick'.specs
    BY <1>4, <2>1 DEF TriggerSettlement, Tick
  <2> QED
    BY <1>4, <2>2 DEF TriggerSettlement
<1>5. ASSUME NEW id \in RunIds, TriggerFails(id) PROVE TypeOK'
  <2>1. tick' \in Tick /\ tick'.pending \subseteq tick'.specs
    BY <1>5 DEF TriggerFails, Tick
  <2>2. failures' \in 0..MaxFailures
    BY <1>5 DEF TriggerFails
  <2>3. dagRuns' \subseteq RunIds
    BY <1>5 DEF TriggerFails
  <2> QED
    BY <1>5, <2>1, <2>2, <2>3 DEF TriggerFails
<1>6. CASE RecordTriggers
  <2>1. {RunId(sim, id.day) : id \in tick.specs} \subseteq RunIds
    BY DEF RunId, RunIds, Tick
  <2> QED
    BY <1>6, <2>1 DEF RecordTriggers, Tick, NoTick
<1>7. CASE RecordNotRun
  BY <1>7 DEF RecordNotRun, Tick, NoTick
<1>8. CASE RecordFails
  BY <1>8 DEF RecordFails, Tick, NoTick
<1>9. CASE Reset
  BY <1>9 DEF Reset, Sims
<1> QED
  BY <1>1, <1>2, <1>3, <1>4, <1>5, <1>6, <1>7, <1>8, <1>9
     DEF Next, TickStep, Failure

\* Every variable keeps to its type, whatever tasks fail.
THEOREM TickTypeCorrect == Spec => []TypeOK
BY TypeInit, TypeStep, PTL DEF Spec

-----------------------------------------------------------------------------
(* Days are triggered when they are over.                                  *)

Over(id) == id.sim <= sim /\ (id.sim = sim => id.day <= ended)

\* What a tick is about to trigger is over as well, also when the simulation
\* has changed since it asked which days were due.
OverInv == TypeOK /\ \A id \in dagRuns \cup tick.specs : Over(id)

LEMMA OverStep == OverInv /\ [Next]_vars => OverInv'
<1> SUFFICES ASSUME OverInv, [Next]_vars PROVE OverInv'
  OBVIOUS
<1>0. TypeOK'
  BY TypeStep DEF OverInv
<1> USE BoundsAssumption, <1>0 DEF OverInv, TypeOK, Over
<1>1. CASE DayEnds
  BY <1>1 DEF DayEnds, RunIds, Days, Tick
<1>2. CASE DueSettlements
  <2>1. \A d \in DueDates : Over(RunId(sim, d))
    <3>1. ended \in Int /\ sim \in Int
      BY DEF Sims
    <3>2. \A d \in DueDates : d <= ended
      BY <3>1, DueHaveEnded
    <3> QED
      BY <3>1, <3>2 DEF RunId
  <2> QED
    BY <1>2, <2>1 DEF DueSettlements
<1>3. CASE NothingDue \/ UNCHANGED vars
  BY <1>3 DEF NothingDue, vars
<1>4. ASSUME NEW id \in RunIds, TriggerSettlement(id) PROVE OverInv'
  BY <1>4 DEF TriggerSettlement
<1>5. ASSUME NEW id \in RunIds, TriggerFails(id) PROVE OverInv'
  BY <1>5 DEF TriggerFails
<1>6. CASE RecordTriggers
  BY <1>6 DEF RecordTriggers, NoTick
<1>7. CASE RecordNotRun
  BY <1>7 DEF RecordNotRun, NoTick
<1>8. CASE RecordFails
  BY <1>8 DEF RecordFails, NoTick
<1>9. CASE Reset
  BY <1>9 DEF Reset, RunIds, Sims, Tick
<1> QED
  BY <1>1, <1>2, <1>3, <1>4, <1>5, <1>6, <1>7, <1>8, <1>9
     DEF Next, TickStep, Failure

\* No run of daily_settlement is triggered before its day is over, and none
\* is made out to a simulation still to come, resets in the middle of a tick
\* included.
THEOREM TriggersOnlyEndedDays == Spec => []TriggeredDaysAreOver
<1>1. Init => OverInv
  BY TypeInit DEF Init, OverInv, NoTick
<1>2. OverInv => TriggeredDaysAreOver
  BY DEF OverInv, Over, TriggeredDaysAreOver
<1> QED
  BY <1>1, <1>2, OverStep, PTL DEF Spec

-----------------------------------------------------------------------------
(* What is on record was triggered.                                        *)

\* An active tick belongs to the current simulation, and as long as none of
\* its tasks was skipped or failed, those that have run have triggered.
RecordInv ==
  /\ TypeOK
  /\ recorded \subseteq dagRuns
  /\ ~tick.active => tick.specs = {}
  /\ \A id \in tick.specs : id.sim = sim
  /\ ~tick.spoiled => tick.specs \ tick.pending \subseteq dagRuns

LEMMA RecordStep ==
  ASSUME ~ResetMidTick
  PROVE  RecordInv /\ [Next]_vars => RecordInv'
<1> SUFFICES ASSUME RecordInv, [Next]_vars PROVE RecordInv'
  OBVIOUS
<1>0. TypeOK'
  BY TypeStep DEF RecordInv
<1> USE BoundsAssumption, <1>0 DEF RecordInv, TypeOK
<1>1. CASE DayEnds
  BY <1>1 DEF DayEnds
<1>2. CASE DueSettlements
  BY <1>2 DEF DueSettlements, RunId
<1>3. CASE NothingDue \/ UNCHANGED vars
  BY <1>3 DEF NothingDue, vars
<1>4. ASSUME NEW id \in RunIds, TriggerSettlement(id) PROVE RecordInv'
  BY <1>4 DEF TriggerSettlement, Tick
<1>5. ASSUME NEW id \in RunIds, TriggerFails(id) PROVE RecordInv'
  BY <1>5 DEF TriggerFails, Tick
<1>6. CASE RecordTriggers
  <2>1. \A id \in tick.specs : RunId(sim, id.day) = id
    BY DEF RunId, RunIds, Tick
  <2>2. tick.specs \subseteq dagRuns
    BY <1>6 DEF RecordTriggers
  <2> QED
    BY <1>6, <2>1, <2>2 DEF RecordTriggers, NoTick
<1>7. CASE RecordNotRun
  BY <1>7 DEF RecordNotRun, NoTick
<1>8. CASE RecordFails
  BY <1>8 DEF RecordFails, NoTick
<1>9. CASE Reset
  BY <1>9 DEF Reset
<1> QED
  BY <1>1, <1>2, <1>3, <1>4, <1>5, <1>6, <1>7, <1>8, <1>9
     DEF Next, TickStep, Failure

\* A day on record as triggered has been triggered, whatever tasks fail or are
\* killed in between, unless a reset comes in the middle of a tick.
THEOREM RecordsOnlyTriggered ==
  ASSUME ~ResetMidTick
  PROVE  Spec => []RecordedWasTriggered
<1>1. Init => RecordInv
  BY TypeInit DEF Init, RecordInv, NoTick
<1>2. RecordInv => RecordedWasTriggered
  BY DEF RecordInv, RecordedWasTriggered
<1>3. RecordInv /\ [Next]_vars => RecordInv'
  BY RecordStep
<1> QED
  BY <1>1, <1>2, <1>3, PTL DEF Spec
=============================================================================
