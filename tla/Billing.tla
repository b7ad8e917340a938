------------------------------- MODULE Billing --------------------------------
(***************************************************************************)
(* Tiered block tariffs: a household pays for the units of each block at   *)
(* the rate of that block, a fixed charge, less its subsidy and a credit   *)
(* for what it exports.  Amounts are in cents and rounded half up where    *)
(* the code rounds; energy is in eighths of a kWh, so that what a block    *)
(* costs may end in half a cent.  A day is settled at a time.              *)
(***************************************************************************)
EXTENDS Integers, FiniteSetsExt, SequencesExt

PerKwh  == 8     \* units of energy in a kWh
Percent == 100
DaysPerBillingMonth == 30

\* Half up; a >= 0, b > 0.
Rounded(a, b) == (2 * a + b) \div (2 * b)
Least(a, b)   == IF a < b THEN a ELSE b
Positive(a)   == IF a > 0 THEN a ELSE 0

Unbounded == -1
Block(kwh, rate) == [cap |-> kwh * PerKwh, rate |-> rate]
LastBlock(rate)  == [cap |-> Unbounded, rate |-> rate]

DefaultSchedule ==
  [tiers |->
    [DOMESTIC_LOW |->
       [blocks |-> <<Block(30, 800), Block(60, 1000), Block(90, 1600), LastBlock(5000)>>,
        fixed |-> 15000],
     DOMESTIC_STD |->
       [blocks |-> <<Block(60, 1200), Block(120, 2775), Block(180, 3200), LastBlock(4500)>>,
        fixed |-> 30000],
     DOMESTIC_HIGH |->
       [blocks |-> <<Block(120, 3000), LastBlock(5500)>>, fixed |-> 60000],
     INDUSTRIAL |->
       [blocks |-> <<LastBlock(4500)>>, fixed |-> 150000]],
   credit |-> 2200, subsidy |-> 25]

HeadlineRate(schedule, tier) == schedule.tiers[tier].blocks[1].rate

\* TariffSchedule.problems: whether there is any.
BlocksAtFault(blocks) ==
  \/ blocks = <<>>
  \/ \E i \in DOMAIN blocks :
       \/ blocks[i].rate <= 0
       \/ blocks[i].cap = Unbounded /\ i # Len(blocks)
       \/ blocks[i].cap # Unbounded /\ i = Len(blocks)
       \/ /\ blocks[i].cap # Unbounded /\ i # Len(blocks)
          /\ blocks[i].cap <= Max({0} \cup {blocks[j].cap : j \in 1..(i - 1)})

Problems(schedule) ==
  \/ DOMAIN schedule.tiers = {}
  \/ \E t \in DOMAIN schedule.tiers :
       BlocksAtFault(schedule.tiers[t].blocks) \/ schedule.tiers[t].fixed < 0
  \/ schedule.credit < 0
  \/ schedule.subsidy \notin 0..(Percent - 1)

\* Mutant of Reprice: the caps are scaled with the rates.
RepriceAndWiden(block, percent) ==
  [cap |-> IF block.cap = Unbounded THEN Unbounded
           ELSE DaysPerBillingMonth * Rounded(block.cap * percent,
                                              Percent * DaysPerBillingMonth),
   rate |-> Rounded(block.rate * percent, Percent)]

Reprice(block, percent) == [block EXCEPT !.rate = Rounded(@ * percent, Percent)]

\* A revision of the chosen tiers; percent = 100 leaves rates alone.
WithRateChange(schedule, percent, chosen) ==
  [schedule EXCEPT !.tiers =
     [t \in DOMAIN schedule.tiers |->
        IF t \in chosen
        THEN [schedule.tiers[t] EXCEPT !.blocks =
                [i \in DOMAIN @ |-> Reprice(@[i], percent)]]
        ELSE schedule.tiers[t]]]

\* Monthly caps for one day; every cap here is divisible.
ProrateBlocks(blocks) ==
  [i \in DOMAIN blocks |->
     IF blocks[i].cap = Unbounded THEN blocks[i]
     ELSE [blocks[i] EXCEPT !.cap = @ \div DaysPerBillingMonth]]

\* Mutant of Charge: the width of a block is taken from zero.
ChargeFromZero(acc, block) ==
  LET width == IF block.cap = Unbounded THEN acc.remaining ELSE block.cap
      units == Least(acc.remaining, width)
  IN IF acc.remaining <= 0 \/ width <= 0 THEN acc
     ELSE [remaining |-> acc.remaining - units,
           lower |-> IF block.cap = Unbounded THEN acc.lower ELSE block.cap,
           lines |-> Append(acc.lines, [units |-> units, rate |-> block.rate,
                                        amount |-> Rounded(units * block.rate, PerKwh)])]

\* One turn of the loop in block_energy_charge.
Charge(acc, block) ==
  LET width == IF block.cap = Unbounded THEN acc.remaining ELSE block.cap - acc.lower
      units == Least(acc.remaining, width)
  IN IF acc.remaining <= 0 \/ width <= 0 THEN acc
     ELSE [remaining |-> acc.remaining - units,
           lower |-> IF block.cap = Unbounded THEN acc.lower ELSE block.cap,
           lines |-> Append(acc.lines, [units |-> units, rate |-> block.rate,
                                        amount |-> Rounded(units * block.rate, PerKwh)])]

BlockLines(import, blocks) ==
  FoldLeft(Charge, [remaining |-> import, lower |-> 0, lines |-> <<>>], blocks).lines

Total(lines) == FoldLeft(LAMBDA sum, line : sum + line.amount, 0, lines)

\* fixed is the monthly charge the household's own tariff record quotes.
CalculateBill(use, gen, tier, subsidised, fixed, schedule) ==
  LET import  == Positive(use - gen)
      export  == Positive(gen - use)
      lines   == BlockLines(import, ProrateBlocks(schedule.tiers[tier].blocks))
      energy  == Total(lines)
      subsidy == IF subsidised THEN Rounded(energy * schedule.subsidy, Percent) ELSE 0
      daily   == Rounded(fixed, DaysPerBillingMonth)
      credit  == Rounded(export * schedule.credit, PerKwh)
  IN [import |-> import, export |-> export, lines |-> lines, energy |-> energy,
      subsidy |-> subsidy, total |-> energy - subsidy + daily - credit]

-----------------------------------------------------------------------------
(* What a bill should be, said without the blocks' arithmetic.             *)

\* The rate of the n-th unit of the day: that of the first block reaching it.
RateOfUnit(n, blocks) ==
  blocks[Min({i \in DOMAIN blocks :
                blocks[i].cap = Unbounded \/ n * DaysPerBillingMonth <= blocks[i].cap})].rate

\* Every unit priced on its own, in PerKwh-ths of a cent.
MarginalCost(import, blocks) ==
  FoldLeft(+, 0, [n \in 1..import |-> RateOfUnit(n, blocks)])

Distance(a, b) == IF a < b THEN b - a ELSE a - b
=============================================================================
