----------------------------- MODULE BillingProofs ----------------------------
(***************************************************************************)
(* Proofs about drops and bills: that the gate judges every drop rightly,  *)
(* that each reading is billed once, that a bill charges each unit at the  *)
(* rate of its block, and that a revision moves bills its way.             *)
(***************************************************************************)
EXTENDS MeterToBillProofs

-----------------------------------------------------------------------------
(* The lines of a bill.                                                    *)

Lines == [units : Nat, rate : Nat, amount : Nat]
Accs  == [remaining : Nat, lower : Nat, lines : Seq(Lines)]

\* Total adds the amounts of its lines, one after another.
LEMMA TotalSums ==
  ASSUME NEW lines \in Seq(Lines)
  PROVE  \E F : /\ PartialSums(F, Len(lines), [i \in 1..Len(lines) |-> lines[i].amount])
                /\ F[Len(lines)] = Total(lines)
<1> DEFINE n == Len(lines)
           w == [i \in 1..n |-> lines[i].amount]
           Equation(f) == f = [s \in SUBSET (1..n) |->
                                 IF s = {} THEN 0 ELSE f[s \ {Max(s)}] + lines[Max(s)].amount]
           h == CHOOSE f : Equation(f)
<1>0. n \in Nat /\ DOMAIN lines = 1..n /\ \A i \in 1..n : w[i] \in Int
  <2>1. \A i \in 1..n : lines[i] \in Lines
    OBVIOUS
  <2>2. \A line \in Lines : line.amount \in Int
    BY DEF Lines
  <2> QED
    BY <2>1, <2>2
<1>1. Total(lines) = h[1..n]
  <2>1. Total(lines) =
          (CHOOSE f : f = [s \in SUBSET DOMAIN lines |->
             IF s = {} THEN 0 ELSE f[s \ {Max(s)}] + lines[Max(s)].amount])[DOMAIN lines]
    BY Zenon DEF Total, FoldLeft, MapThenFoldSet
  <2> QED
    BY <1>0, <2>1, Zenon
<1>2. \A f : Equation(f) <=> Adds(f, n, w)
  <2>1. \A s \in SUBSET (1..n) : s # {} => w[Max(s)] = lines[Max(s)].amount
    <3> TAKE s \in SUBSET (1..n)
    <3> HAVE s # {}
    <3>1. Max(s) \in 1..n
      BY <1>0, MaxOfPart
    <3> QED
      BY <3>1
  <2> HIDE DEF w, n
  <2> QED
    BY <2>1 DEF Adds
<1> HIDE DEF Equation, w, n
<1>3. Adds(h, n, w)
  <2>1. \E f : Equation(f)
    BY <1>0, <1>2, AddsOneByOne
  <2> QED
    BY <1>2, <2>1
<1> HIDE DEF h
<1>4. PICK F : PartialSums(F, n, w) /\ F[n] = h[1..n]
  BY <1>0, <1>3, AddsOneByOne
<1> QED
  BY <1>1, <1>4 DEF n, w

\* A line more adds its amount.
LEMMA TotalIs ==
  /\ Total(<<>>) = 0
  /\ \A lines \in Seq(Lines) : Total(lines) \in Int
  /\ \A lines \in Seq(Lines), line \in Lines :
       Total(Append(lines, line)) = Total(lines) + line.amount
<1>1. Total(<<>>) = 0
  <2>1. <<>> \in Seq(Lines) /\ Len(<<>>) = 0
    OBVIOUS
  <2>2. PICK F : /\ PartialSums(F, Len(<<>>), [i \in 1..Len(<<>>) |-> <<>>[i].amount])
                 /\ F[Len(<<>>)] = Total(<<>>)
    BY <2>1, TotalSums
  <2> QED
    BY <2>1, <2>2 DEF PartialSums
<1>2. ASSUME NEW lines \in Seq(Lines) PROVE Total(lines) \in Int
  <2>1. PICK F : /\ PartialSums(F, Len(lines), [i \in 1..Len(lines) |-> lines[i].amount])
                 /\ F[Len(lines)] = Total(lines)
    BY TotalSums
  <2>2. Len(lines) \in 0..Len(lines)
    OBVIOUS
  <2> QED
    BY <2>1, <2>2 DEF PartialSums
<1>3. ASSUME NEW lines \in Seq(Lines), NEW line \in Lines
      PROVE  Total(Append(lines, line)) = Total(lines) + line.amount
  <2> DEFINE more == Append(lines, line)
             n == Len(lines)
             w == [i \in 1..n |-> lines[i].amount]
             v == [i \in 1..(n + 1) |-> more[i].amount]
  <2>1. /\ more \in Seq(Lines) /\ Len(more) = n + 1 /\ n \in Nat
        /\ \A i \in 1..n : more[i] = lines[i] /\ more[n + 1] = line
    OBVIOUS
  <2>2. PICK F : PartialSums(F, n, w) /\ F[n] = Total(lines)
    BY TotalSums
  <2>3. PICK H : PartialSums(H, n + 1, v) /\ H[n + 1] = Total(more)
    <3> HIDE DEF more
    <3> QED
      BY <2>1, TotalSums
  <2>4. \A i \in 1..n : v[i] = w[i]
    BY <2>1
  <2>5. v[n + 1] = line.amount
    OBVIOUS
  <2> HIDE DEF v, w, n, more
  <2>6. \A k \in 0..n : F[k] = H[k]
    BY <2>1, <2>2, <2>3, <2>4, PartialSumsAreUnique
  <2>7. H[n + 1] = H[n] + v[n + 1]
    <3>1. n + 1 \in 1..(n + 1) /\ (n + 1) - 1 = n
      BY <2>1
    <3> QED
      BY <2>3, <3>1 DEF PartialSums
  <2> QED
    BY <2>1, <2>2, <2>3, <2>5, <2>6, <2>7 DEF more
<1> QED
  BY <1>1, <1>2, <1>3

\* Half up is off by no more than half, and what is more stays more.
LEMMA RoundedEighths ==
  /\ \A a \in Nat : /\ Rounded(a, PerKwh) \in Nat
                    /\ PerKwh * Rounded(a, PerKwh) - a <= 4
                    /\ a - PerKwh * Rounded(a, PerKwh) <= 4
  /\ \A a, b \in Nat : a <= b => Rounded(a, PerKwh) <= Rounded(b, PerKwh)
  BY DEF Rounded, PerKwh

\* Units cost more at a higher rate.
LEMMA Products ==
  /\ \A u, r \in Nat : u * r \in Nat
  /\ \A u, r, q \in Nat : r <= q => u * r <= u * q
<1>1. \A u, r \in Nat : u * r \in Nat
  OBVIOUS
<1>2. \A u, r, q \in Nat : r <= q => u * r <= u * q
  OBVIOUS
<1> QED
  BY <1>1, <1>2

-----------------------------------------------------------------------------
(* The blocks of a day.                                                    *)

\* The caps increase and the last block has none.
DayBlocks == [cap : Nat \cup {Unbounded}, rate : Nat]
OfADay(blocks) ==
  /\ blocks \in Seq(DayBlocks) /\ Len(blocks) # 0
  /\ \A i \in 1..Len(blocks) : blocks[i].cap = Unbounded <=> i = Len(blocks)
  /\ \A i \in 1..(Len(blocks) - 1) : blocks[i].cap > 0
  /\ \A i, j \in 1..(Len(blocks) - 1) : i < j => blocks[i].cap < blocks[j].cap

Width(acc, block) ==
  IF block.cap = Unbounded THEN acc.remaining ELSE block.cap - acc.lower
Units(acc, block) == Least(acc.remaining, Width(acc, block))
LineOf(acc, block) == [units |-> Units(acc, block), rate |-> block.rate,
                       amount |-> Rounded(Units(acc, block) * block.rate, PerKwh)]

\* A turn of the loop takes units while there are any and the block has room.
LEMMA ChargeIs ==
  ASSUME NEW acc \in Accs, NEW block \in DayBlocks
  PROVE  /\ Charge(acc, block) \in Accs
         /\ acc.remaining = 0 => Charge(acc, block) = acc
         /\ acc.remaining # 0 /\ Width(acc, block) > 0 =>
              /\ Units(acc, block) \in 1..acc.remaining
              /\ LineOf(acc, block) \in Lines
              /\ Charge(acc, block) =
                   [remaining |-> acc.remaining - Units(acc, block),
                    lower |-> IF block.cap = Unbounded THEN acc.lower ELSE block.cap,
                    lines |-> Append(acc.lines, LineOf(acc, block))]
<1> DEFINE u == Units(acc, block)
<1>1. /\ acc.remaining \in Nat /\ acc.lower \in Nat /\ acc.lines \in Seq(Lines)
      /\ block.rate \in Nat /\ (block.cap = Unbounded \/ block.cap \in Nat)
  BY DEF Accs, DayBlocks
<1>2. CASE acc.remaining = 0 \/ Width(acc, block) <= 0
  <2>1. Charge(acc, block) = acc
    BY <1>1, <1>2 DEF Charge, Width
  <2> QED
    BY <1>1, <1>2, <2>1 DEF Width
<1>3. CASE acc.remaining # 0 /\ Width(acc, block) > 0
  <2>1. u \in 1..acc.remaining
    BY <1>1, <1>3 DEF Units, Width, Least
  <2>2. Charge(acc, block) =
          [remaining |-> acc.remaining - u,
           lower |-> IF block.cap = Unbounded THEN acc.lower ELSE block.cap,
           lines |-> Append(acc.lines, LineOf(acc, block))]
    BY <1>1, <1>3 DEF Charge, Width, Units, LineOf
  <2>3. LineOf(acc, block) \in Lines
    <3> HIDE DEF u
    <3>1. u \in Nat /\ u * block.rate \in Nat
      BY <1>1, <2>1, Products
    <3>2. Rounded(u * block.rate, PerKwh) \in Nat
      BY <3>1, RoundedEighths
    <3> QED
      BY <1>1, <3>1, <3>2 DEF LineOf, Lines, u
  <2>4. Append(acc.lines, LineOf(acc, block)) \in Seq(Lines)
    BY <1>1, <2>3
  <2>5. acc.remaining - u \in Nat
    BY <1>1, <2>1
  <2> HIDE DEF u
  <2>6. (IF block.cap = Unbounded THEN acc.lower ELSE block.cap) \in Nat
    BY <1>1
  <2>7. Charge(acc, block) \in Accs
    BY <2>2, <2>4, <2>5, <2>6 DEF Accs
  <2> QED
    BY <1>3, <2>1, <2>2, <2>3, <2>7 DEF u
<1>4. \/ acc.remaining = 0 \/ Width(acc, block) <= 0
      \/ acc.remaining # 0 /\ Width(acc, block) > 0
  BY <1>1 DEF Width
<1> QED
  BY <1>2, <1>3, <1>4

\* The loop of block_energy_charge, turn by turn.
Turns(F, import, blocks) ==
  /\ F \in [0..Len(blocks) -> Accs]
  /\ F[0] = [remaining |-> import, lower |-> 0, lines |-> <<>>]
  /\ \A k \in 1..Len(blocks) : F[k] = Charge(F[k - 1], blocks[k])

\* block_energy_charge is those turns, in order.
LEMMA ChargesUnroll ==
  ASSUME NEW import \in Nat, NEW blocks \in Seq(DayBlocks)
  PROVE  \E F : Turns(F, import, blocks) /\ F[Len(blocks)].lines = BlockLines(import, blocks)
<1> DEFINE n == Len(blocks)
           V == Accs
           base == [remaining |-> import, lower |-> 0, lines |-> <<>>]
           G == [i \in 1..n |-> [v \in V |-> Charge(v, blocks[i])]]
           Equation(f) == f = [s \in SUBSET (1..n) |->
                                 IF s = {} THEN base
                                 ELSE Charge(f[s \ {Max(s)}], blocks[Max(s)])]
           h == CHOOSE f : Equation(f)
<1>1. /\ n \in Nat /\ DOMAIN blocks = 1..n /\ base \in V
      /\ \A i \in 1..n : blocks[i] \in DayBlocks
  <2>1. base \in V
    BY DEF Accs
  <2> QED
    BY <2>1
<1>2. \A i \in 1..n, v \in V : Charge(v, blocks[i]) \in V
  BY <1>1, ChargeIs
<1>3. /\ AreSteps(G, n, V)
      /\ \A i \in 1..n, v \in V : G[i][v] = Charge(v, blocks[i])
  <2> HIDE DEF V, n
  <2> QED
    BY <1>2 DEF AreSteps
<1>4. BlockLines(import, blocks) = h[1..n].lines
  <2>1. BlockLines(import, blocks) =
          (CHOOSE f : f = [s \in SUBSET DOMAIN blocks |->
             IF s = {} THEN base
             ELSE Charge(f[s \ {Max(s)}], blocks[Max(s)])])[DOMAIN blocks].lines
    BY Zenon DEF BlockLines, FoldLeft, MapThenFoldSet
  <2> QED
    BY <1>1, <2>1, Zenon
<1> HIDE DEF V, base, n, G
<1>5. \A s \in SUBSET (1..n) : s # {} => Max(s) \in s /\ s \ {Max(s)} \in SUBSET (1..n)
  BY <1>1, MaxOfPart
<1>6. FoldsBy(h, n, V, base, G)
  <2>1. PICK g : g \in [SUBSET (1..n) -> V] /\ FoldsBy(g, n, V, base, G)
    BY <1>1, <1>3, FoldExists
  <2>2. ASSUME NEW s \in SUBSET (1..n), s # {}
        PROVE  g[s] = Charge(g[s \ {Max(s)}], blocks[Max(s)])
    <3>1. Max(s) \in 1..n /\ g[s \ {Max(s)}] \in V
      BY <1>5, <2>1, <2>2
    <3> QED
      BY <1>3, <2>1, <2>2, <3>1 DEF FoldsBy
  <2>3. Equation(g)
    BY <2>1, <2>2 DEF FoldsBy
  <2>4. Equation(h)
    <3> HIDE DEF Equation
    <3> QED
      BY <2>3
  <2> HIDE DEF h
  <2>5. /\ h[{}] = base
        /\ \A s \in SUBSET (1..n) : s # {} =>
             h[s] = Charge(h[s \ {Max(s)}], blocks[Max(s)])
    BY <2>4
  <2> HIDE DEF Equation
  <2>6. ASSUME NEW s \in SUBSET (1..n), s # {}, h[s \ {Max(s)}] \in V
        PROVE  h[s] = G[Max(s)][h[s \ {Max(s)}]]
    BY <1>3, <1>5, <2>5, <2>6
  <2> QED
    BY <2>5, <2>6 DEF FoldsBy
<1> HIDE DEF h, Equation
<1>7. PICK F : GoesThrough(F, n, V, base, G) /\ F[n] = h[1..n]
  BY <1>1, <1>3, <1>6, FoldUnrolls
<1>8. \A k \in 1..n : F[k] = Charge(F[k - 1], blocks[k])
  <2> TAKE k \in 1..n
  <2>1. k - 1 \in 0..n
    BY <1>1
  <2>2. F[k - 1] \in V
    BY <1>7, <2>1 DEF GoesThrough
  <2> QED
    BY <1>3, <1>7, <2>2 DEF GoesThrough
<1>9. Turns(F, import, blocks)
  BY <1>7, <1>8 DEF Turns, GoesThrough, V, base, n
<1> QED
  BY <1>4, <1>7, <1>9 DEF n

\* How many units the blocks before the next one take.
CapBefore(blocks, k) == IF k = 0 THEN 0 ELSE blocks[k].cap

\* After k turns either all is charged or all that those blocks take is.
Ahead(acc, import, blocks, k) ==
  /\ acc.remaining <= import
  /\ acc.remaining # 0 => /\ k < Len(blocks) /\ acc.lower = CapBefore(blocks, k)
                          /\ acc.remaining = import - CapBefore(blocks, k)

\* One turn, when the blocks before are used up or nothing is left.
LEMMA TurnGoesAhead ==
  ASSUME NEW import \in Nat, NEW blocks, OfADay(blocks), NEW k \in 1..Len(blocks),
         NEW acc \in Accs, Ahead(acc, import, blocks, k - 1)
  PROVE  /\ Ahead(Charge(acc, blocks[k]), import, blocks, k)
         /\ acc.remaining # 0 =>
              /\ Width(acc, blocks[k]) > 0
              /\ CapBefore(blocks, k - 1) \in Nat
              /\ import - acc.remaining = CapBefore(blocks, k - 1)
              /\ k # Len(blocks) =>
                   CapBefore(blocks, k - 1) + Units(acc, blocks[k]) <= blocks[k].cap
<1> DEFINE n == Len(blocks)
           block == blocks[k]
           lower == CapBefore(blocks, k - 1)
           next == Charge(acc, block)
<1>1. /\ n \in Nat /\ k \in Nat /\ k - 1 \in Nat /\ k <= n /\ block \in DayBlocks
      /\ block.cap = Unbounded <=> k = n
      /\ block.cap # Unbounded => block.cap \in Nat
  <2>1. block \in DayBlocks /\ n \in Nat /\ k \in Nat /\ k - 1 \in Nat /\ k <= n
    BY DEF OfADay
  <2>2. block.cap = Unbounded <=> k = n
    BY DEF OfADay
  <2>3. block.cap # Unbounded => block.cap \in Nat
    BY <2>1 DEF DayBlocks
  <2> QED
    BY <2>1, <2>2, <2>3
<1>2. /\ acc.remaining \in Nat /\ acc.lower \in Nat /\ acc.remaining <= import
      /\ acc.remaining # 0 => acc.lower = lower /\ acc.remaining = import - lower
  BY DEF Accs, Ahead
<1>3. k < n => block.cap > lower
  <2> HAVE k < n
  <2>1. CASE k = 1
    <3>1. lower = 0
      BY <2>1 DEF CapBefore
    <3> QED
      BY <1>1, <2>1, <3>1 DEF OfADay
  <2>2. CASE k # 1
    <3>1. lower = blocks[k - 1].cap
      BY <1>1, <2>2 DEF CapBefore
    <3>2. k - 1 \in 1..(n - 1) /\ k \in 1..(n - 1) /\ k - 1 < k
      BY <1>1, <2>2
    <3> QED
      BY <3>1, <3>2 DEF OfADay
  <2> QED
    BY <2>1, <2>2
<1>4. CASE acc.remaining = 0
  <2>1. next = acc
    BY <1>1, <1>4, ChargeIs
  <2> QED
    BY <1>2, <1>4, <2>1 DEF Ahead
<1>5. CASE acc.remaining # 0
  <2> DEFINE u == Units(acc, block)
  <2>1. acc.lower = lower /\ acc.remaining = import - lower
    BY <1>2, <1>5
  <2>2. /\ Width(acc, block) > 0 
        /\ u = IF k = n THEN acc.remaining ELSE Least(acc.remaining, block.cap - lower)
    BY <1>1, <1>2, <1>3, <1>5, <2>1 DEF Width, Units, Least
  <2>3. /\ u \in 1..acc.remaining
        /\ next.remaining = acc.remaining - u
        /\ next.lower = IF k = n THEN acc.lower ELSE block.cap
    BY <1>1, <1>5, <2>2, ChargeIs
  <2>4. CapBefore(blocks, k) = block.cap
    BY <1>1 DEF CapBefore
  <2> HIDE DEF next, u, block, n, lower
  <2>5. next.remaining <= import /\ next.remaining \in Nat
    BY <1>2, <2>3
  <2>6. k # n => lower + u <= block.cap /\ (next.remaining # 0 => u = block.cap - lower)
    BY SMTT(30), <1>1, <1>2, <1>3, <2>1, <2>2, <2>3 DEF Least
  <2>7. next.remaining # 0 => k # n
    BY <1>2, <2>2, <2>3
  <2>8. next.remaining # 0 =>
          k < n /\ next.lower = block.cap /\ next.remaining = import - block.cap
    BY <1>1, <1>2, <2>1, <2>3, <2>6, <2>7
  <2>9. Ahead(next, import, blocks, k)
    BY <2>4, <2>5, <2>8 DEF Ahead, n
  <2> QED
    BY <1>2, <2>1, <2>2, <2>6, <2>9 DEF next, u, block, n, lower
<1> QED
  BY <1>4, <1>5

\* After the last block, which has no cap, nothing is left.
LEMMA TurnsGoAhead ==
  ASSUME NEW import \in Nat, NEW blocks, OfADay(blocks), NEW F, Turns(F, import, blocks)
  PROVE  /\ \A k \in 0..Len(blocks) : F[k] \in Accs /\ Ahead(F[k], import, blocks, k)
         /\ F[Len(blocks)].remaining = 0
<1> DEFINE n == Len(blocks)
           S == {k \in Nat : k <= n => Ahead(F[k], import, blocks, k)}
<1>0. n \in Nat /\ n # 0 /\ F \in [0..n -> Accs]
  BY DEF OfADay, Turns
<1>1. 0 \in S
  <2>1. F[0].remaining = import /\ F[0].lower = 0
    BY DEF Turns
  <2> QED
    BY <1>0, <2>1 DEF Ahead, CapBefore
<1>2. ASSUME NEW k \in Nat, k \in S PROVE k + 1 \in S
  <2> SUFFICES ASSUME k + 1 <= n PROVE Ahead(F[k + 1], import, blocks, k + 1)
    OBVIOUS
  <2>1. k + 1 \in 1..n /\ (k + 1) - 1 = k /\ F[k] \in Accs
    BY <1>0
  <2>2. Ahead(F[k], import, blocks, k)
    BY <1>0, <1>2, <2>1
  <2>3. F[k + 1] = Charge(F[k], blocks[k + 1])
    BY <2>1 DEF Turns
  <2>4. Ahead(F[k], import, blocks, (k + 1) - 1)
    BY <2>1, <2>2
  <2> QED
    BY <2>1, <2>3, <2>4, TurnGoesAhead
<1>3. \A k \in 0..n : Ahead(F[k], import, blocks, k)
  <2>1. Nat \subseteq S
    <3> HIDE DEF S
    <3> QED
      BY <1>1, <1>2, CountingUp
  <2> QED
    BY <2>1
<1>4. F[n].remaining = 0
  <2>1. Ahead(F[n], import, blocks, n)
    BY <1>0, <1>3
  <2> QED
    BY <1>0, <2>1 DEF Ahead
<1> QED
  BY <1>0, <1>3, <1>4

-----------------------------------------------------------------------------
(* A bill is marginal.                                                     *)

\* The blocks of a month: whole days' caps, increasing, the last without one.
Schedulable(blocks) ==
  /\ blocks \in Seq([cap : Int, rate : Nat]) /\ Len(blocks) # 0
  /\ blocks[Len(blocks)].cap = Unbounded
  /\ \A i \in 1..(Len(blocks) - 1) :
       \E c \in Nat \ {0} : blocks[i].cap = DaysPerBillingMonth * c
  /\ \A i, j \in 1..(Len(blocks) - 1) : i < j => blocks[i].cap < blocks[j].cap

\* What a block of a sound schedule is.
LEMMA ScheduledBlocks ==
  ASSUME NEW blocks, Schedulable(blocks)
  PROVE  /\ Len(blocks) \in Nat /\ Len(blocks) # 0 /\ DOMAIN blocks = 1..Len(blocks)
         /\ \A i \in 1..Len(blocks) : /\ blocks[i] \in [cap : Int, rate : Nat]
                                      /\ blocks[i].cap \in Int /\ blocks[i].rate \in Nat
<1> DEFINE R == [cap : Int, rate : Nat]
<1>1. blocks \in Seq(R) /\ Len(blocks) # 0
  BY DEF Schedulable
<1>2. \A r \in R : r.cap \in Int /\ r.rate \in Nat
  OBVIOUS
<1> HIDE DEF R
<1>3. \A i \in 1..Len(blocks) : blocks[i] \in R
  BY <1>1
<1> QED
  BY <1>1, <1>2, <1>3 DEF R

\* The blocks of a day: a thirtieth of each cap, exactly, at the same rates.
LEMMA ProrateIs ==
  ASSUME NEW blocks, Schedulable(blocks)
  PROVE  /\ OfADay(ProrateBlocks(blocks)) /\ Len(ProrateBlocks(blocks)) = Len(blocks)
         /\ \A i \in 1..Len(blocks) : ProrateBlocks(blocks)[i].rate = blocks[i].rate
         /\ \A i \in 1..(Len(blocks) - 1), n \in Nat :
              /\ blocks[i].cap # Unbounded
              /\ n * DaysPerBillingMonth <= blocks[i].cap
                   <=> n <= ProrateBlocks(blocks)[i].cap
<1> DEFINE day == ProrateBlocks(blocks)
           n == Len(blocks)
<1>1. /\ n \in Nat /\ n # 0 /\ DOMAIN blocks = 1..n
      /\ \A i \in 1..n : blocks[i] \in [cap : Int, rate : Nat]
      /\ n \in 1..n /\ \A i \in 1..(n - 1) : i \in 1..n /\ i # n
      /\ \A i \in 1..n : i = n \/ i \in 1..(n - 1)
  <2>1. /\ n \in Nat /\ n # 0 /\ DOMAIN blocks = 1..n
        /\ \A i \in 1..n : blocks[i] \in [cap : Int, rate : Nat]
    BY ScheduledBlocks
  <2> HIDE DEF n
  <2> QED
    BY <2>1
<1>2. \A i \in 1..(n - 1) :
        /\ blocks[i].cap # Unbounded /\ blocks[i].cap \div DaysPerBillingMonth \in Nat \ {0}
        /\ blocks[i].cap = DaysPerBillingMonth * (blocks[i].cap \div DaysPerBillingMonth)
  <2> TAKE i \in 1..(n - 1)
  <2>1. PICK c \in Nat \ {0} : blocks[i].cap = DaysPerBillingMonth * c
    BY DEF Schedulable
  <2>2. \A e \in Nat \ {0} : 30 * e # -1 /\ (30 * e) \div 30 = e
    OBVIOUS
  <2> QED
    BY <2>1, <2>2 DEF DaysPerBillingMonth, Unbounded
<1> HIDE DEF n
<1>3. /\ day[n] = blocks[n] /\ blocks[n].cap = Unbounded
      /\ \A i \in 1..(n - 1) : /\ day[i].cap = blocks[i].cap \div DaysPerBillingMonth
                               /\ day[i].rate = blocks[i].rate /\ day[i] \in DayBlocks
  <2>1. blocks[n].cap = Unbounded
    BY DEF Schedulable, n
  <2>2. day[n] = blocks[n]
    BY <1>1, <2>1 DEF ProrateBlocks
  <2>3. ASSUME NEW i \in 1..(n - 1)
        PROVE  /\ day[i].cap = blocks[i].cap \div DaysPerBillingMonth
               /\ day[i].rate = blocks[i].rate /\ day[i] \in DayBlocks
    <3>1. day[i] = [blocks[i] EXCEPT !.cap = @ \div DaysPerBillingMonth]
      BY <1>1, <1>2 DEF ProrateBlocks
    <3>2. blocks[i] \in [cap : Int, rate : Nat] /\ blocks[i].cap \div DaysPerBillingMonth \in Nat
      BY <1>1, <1>2
    <3> QED
      BY <3>1, <3>2 DEF DayBlocks
  <2> QED
    BY <2>1, <2>2, <2>3
<1>4. DOMAIN day = 1..n
  BY <1>1 DEF ProrateBlocks
<1> HIDE DEF day
<1>6. \A i \in 1..n : day[i] \in DayBlocks
  <2> TAKE i \in 1..n
  <2>1. CASE i = n
    BY <1>1, <1>3, <2>1 DEF DayBlocks
  <2>2. CASE i \in 1..(n - 1)
    BY <1>3, <2>2
  <2> QED
    BY <1>1, <2>1, <2>2
<1>7. day \in Seq(DayBlocks) /\ Len(day) = n
  <2>1. day = [i \in 1..n |-> day[i]]
    BY <1>1, <1>4 DEF day, ProrateBlocks
  <2>2. day \in [1..n -> DayBlocks]
    BY <1>6, <2>1
  <2> QED
    BY <1>1, <2>2
<1>8. ASSUME NEW i \in 1..(n - 1)
      PROVE  /\ day[i].cap \in Nat \ {0} /\ day[i].cap # Unbounded
             /\ blocks[i].cap = DaysPerBillingMonth * day[i].cap
  <2>1. day[i].cap = blocks[i].cap \div DaysPerBillingMonth
    BY <1>1, <1>3
  <2> QED
    BY <1>1, <1>2, <2>1 DEF Unbounded
<1>9. \A i, j \in 1..(n - 1) : i < j => day[i].cap < day[j].cap
  <2> TAKE i, j \in 1..(n - 1)
  <2> HAVE i < j
  <2>1. blocks[i].cap < blocks[j].cap
    BY DEF Schedulable, n
  <2>2. \A c, d \in Nat : 30 * c < 30 * d => c < d
    OBVIOUS
  <2> QED
    BY <1>8, <2>1, <2>2 DEF DaysPerBillingMonth
<1>10. OfADay(day)
  <2>1. \A i \in 1..n : day[i].cap = Unbounded <=> i = n
    BY <1>1, <1>3, <1>8
  <2>2. \A i \in 1..(n - 1) : day[i].cap > 0
    BY <1>8
  <2> QED
    BY <1>1, <1>7, <1>9, <2>1, <2>2 DEF OfADay
<1>11. \A i \in 1..(n - 1), m \in Nat :
         m * DaysPerBillingMonth <= blocks[i].cap <=> m <= day[i].cap
  <2> TAKE i \in 1..(n - 1), m \in Nat
  <2>1. \A c, d \in Nat : c * 30 <= 30 * d <=> c <= d
    OBVIOUS
  <2> QED
    BY <1>8, <2>1 DEF DaysPerBillingMonth
<1>12. \A i \in 1..n : day[i].rate = blocks[i].rate
  <2> TAKE i \in 1..n
  <2>1. CASE i = n
    BY <1>3, <2>1
  <2>2. CASE i \in 1..(n - 1)
    BY <1>1, <1>3, <2>2
  <2> QED
    BY <1>1, <2>1, <2>2
<1> QED
  BY <1>2, <1>7, <1>10, <1>11, <1>12 DEF day, n

\* A unit is priced at the rate of the block that it falls in.
LEMMA RateOfUnitIs ==
  ASSUME NEW blocks, Schedulable(blocks), NEW k \in 1..Len(blocks), NEW m \in Nat,
         CapBefore(ProrateBlocks(blocks), k - 1) < m,
         k # Len(blocks) => m <= ProrateBlocks(blocks)[k].cap
  PROVE  RateOfUnit(m, blocks) = blocks[k].rate
<1> DEFINE day == ProrateBlocks(blocks)
           n == Len(blocks)
           A == {i \in DOMAIN blocks :
                   blocks[i].cap = Unbounded \/ m * DaysPerBillingMonth <= blocks[i].cap}
<1>1. /\ n \in Nat /\ DOMAIN blocks = 1..n /\ blocks[n].cap = Unbounded
      /\ OfADay(day) /\ Len(day) = n /\ k \in 1..n
      /\ \A i \in 1..(n - 1) : /\ blocks[i].cap # Unbounded
                               /\ m * DaysPerBillingMonth <= blocks[i].cap <=> m <= day[i].cap
  <2>1. DOMAIN blocks = 1..n /\ n \in Nat /\ blocks[n].cap = Unbounded
    BY DEF Schedulable
  <2> QED
    BY <2>1, ProrateIs
<1> HIDE DEF day, n
<1>2. k \in A
  <2>1. CASE k = n
    BY <1>1, <2>1
  <2>2. CASE k # n
    <3>1. k \in 1..(n - 1)
      BY <1>1, <2>2
    <3>2. m <= day[k].cap
      BY <2>2 DEF day, n
    <3> QED
      BY <1>1, <3>1, <3>2
  <2> QED
    BY <2>1, <2>2
<1>3. ASSUME NEW i \in A PROVE k <= i
  <2> SUFFICES ASSUME i < k PROVE FALSE
    BY <1>1
  <2>1. /\ i \in 1..(n - 1) /\ k - 1 \in 1..(n - 1) /\ i <= k - 1 /\ k - 1 # 0
    BY <1>1
  <2>2. m <= day[i].cap
    BY <1>1, <2>1
  <2>3. day[k - 1].cap < m
    BY <2>1 DEF CapBefore, day
  <2>4. i # k - 1 => day[i].cap < day[k - 1].cap
    BY <1>1, <2>1 DEF OfADay
  <2>5. day[i].cap \in Int /\ day[k - 1].cap \in Int
    <3>1. day[i] \in DayBlocks /\ day[k - 1] \in DayBlocks
      BY <1>1, <2>1 DEF OfADay
    <3> QED
      BY <3>1 DEF DayBlocks, Unbounded
  <2> QED
    BY <2>1, <2>2, <2>3, <2>4, <2>5
<1>4. Min(A) = k
  <2>1. A \subseteq Int
    BY <1>1
  <2>2. Min(A) \in A /\ \A i \in A : Min(A) <= i
    <3>1. \E x \in A : \A y \in A : x <= y
      BY <1>2, <1>3
    <3> HIDE DEF A
    <3> QED
      BY <3>1 DEF Min
  <2>3. Min(A) <= k /\ k <= Min(A) /\ Min(A) \in Int /\ k \in Int
    <3> HIDE DEF A
    <3> QED
      BY <1>2, <1>3, <2>1, <2>2
  <2> QED
    BY <2>3
<1> QED
  BY <1>4 DEF RateOfUnit

\* Units at one price after others.
LEMMA OnePrice ==
  ASSUME NEW n \in Nat, NEW w, NEW M, PartialSums(M, n, w), NEW r \in Nat,
         NEW a \in Nat, NEW b \in Nat, a + b <= n, \A m \in (a + 1)..(a + b) : w[m] = r
  PROVE  M[a + b] = M[a] + b * r
<1> DEFINE S == {u \in Nat : u <= b => M[a + u] = M[a] + u * r}
<1>1. 0 \in S
  <2>1. a + 0 = a /\ 0 * r = 0 /\ a \in 0..n
    OBVIOUS
  <2>2. M[a] \in Int
    BY <2>1 DEF PartialSums
  <2> QED
    BY <2>1, <2>2
<1>2. ASSUME NEW u \in Nat, u \in S PROVE u + 1 \in S
  <2> SUFFICES ASSUME u + 1 <= b PROVE M[a + (u + 1)] = M[a] + (u + 1) * r
    OBVIOUS
  <2>1. M[a + u] = M[a] + u * r
    BY <1>2
  <2>2. /\ a + (u + 1) \in 1..n /\ (a + (u + 1)) - 1 = a + u
        /\ a + (u + 1) \in (a + 1)..(a + b)
    OBVIOUS
  <2>3. M[a + (u + 1)] = M[a + u] + r
    BY <2>2 DEF PartialSums
  <2>4. (u + 1) * r = u * r + r /\ u * r \in Int
    OBVIOUS
  <2>5. M[a] \in Int
    BY DEF PartialSums
  <2>6. \A x, y \in Int : (x + y) + r = x + (y + r)
    OBVIOUS
  <2> QED
    BY <2>1, <2>3, <2>4, <2>5, <2>6
<1>3. Nat \subseteq S
  <2> HIDE DEF S
  <2> QED
    BY <1>1, <1>2, CountingUp
<1>4. b \in S
  BY <1>3
<1> QED
  BY <1>4

\* The units charged cost what they would one by one, up to the rounding.
Priced(acc, import, M) ==
  /\ Total(acc.lines) \in Nat
  /\ 2 * Distance(PerKwh * Total(acc.lines), M[import - acc.remaining])
       <= PerKwh * Len(acc.lines)

\* A turn's line differs from the prices of its units by half a cent at most.
LEMMA TurnIsPriced ==
  ASSUME NEW import \in Nat, NEW blocks, Schedulable(blocks), NEW k \in 1..Len(blocks),
         NEW acc \in Accs, Ahead(acc, import, ProrateBlocks(blocks), k - 1),
         NEW w, \A m \in 1..import : w[m] = RateOfUnit(m, blocks),
         NEW M, PartialSums(M, import, w), Priced(acc, import, M)
  PROVE  Priced(Charge(acc, ProrateBlocks(blocks)[k]), import, M)
<1> DEFINE day == ProrateBlocks(blocks)
           block == day[k]
           next == Charge(acc, block)
           u == Units(acc, block)
           r == block.rate
           line == LineOf(acc, block)
           done == import - acc.remaining
<1>1. /\ OfADay(day) /\ k \in 1..Len(day) /\ block \in DayBlocks /\ r = blocks[k].rate
      /\ r \in Nat /\ Len(day) = Len(blocks) /\ k \in Nat
  <2>1. OfADay(day) /\ Len(day) = Len(blocks) /\ r = blocks[k].rate
    BY ProrateIs
  <2>2. Len(blocks) \in Nat
    BY DEF Schedulable
  <2>3. block \in DayBlocks
    BY <2>1 DEF OfADay
  <2>4. r \in Nat
    BY <2>3 DEF DayBlocks
  <2> QED
    BY <2>1, <2>2, <2>3, <2>4
<1>2. /\ acc.remaining \in Nat /\ acc.remaining <= import /\ acc.lines \in Seq(Lines)
      /\ done \in 0..import
  <2>1. acc.remaining \in Nat /\ acc.remaining <= import /\ acc.lines \in Seq(Lines)
    BY DEF Accs, Ahead
  <2> QED
    BY <2>1
<1> HIDE DEF day, block, next, u, r, line, done
<1>3. CASE acc.remaining = 0
  <2>1. next = acc
    BY <1>1, <1>3, ChargeIs DEF next
  <2> QED
    BY <2>1 DEF next, block, day
<1>4. CASE acc.remaining # 0
  <2>1. /\ Width(acc, block) > 0 /\ CapBefore(day, k - 1) \in Nat
        /\ done = CapBefore(day, k - 1)
        /\ k # Len(day) => CapBefore(day, k - 1) + u <= block.cap
    BY <1>1, <1>4, TurnGoesAhead DEF day, block, done, u
  <2>2. /\ u \in 1..acc.remaining /\ line \in Lines
        /\ next.remaining = acc.remaining - u /\ next.lines = Append(acc.lines, line)
    BY <1>1, <1>4, <2>1, ChargeIs DEF u, line, next
  <2>3. /\ u \in Nat /\ done \in Nat /\ done + u <= import
        /\ import - next.remaining = done + u
    BY <1>2, <2>2 DEF done
  <2>4. \A m \in (done + 1)..(done + u) : w[m] = r
    <3> TAKE m \in (done + 1)..(done + u)
    <3>1. m \in 1..import /\ m \in Nat /\ done < m /\ m <= done + u
      BY <2>3
    <3>2. k # Len(blocks) => m <= block.cap
      <4> HAVE k # Len(blocks)
      <4>1. done + u <= block.cap /\ block.cap \in Int
        BY <1>1, <2>1 DEF DayBlocks, Unbounded
      <4> QED
        BY <2>3, <3>1, <4>1
    <3>3. CapBefore(ProrateBlocks(blocks), k - 1) < m
          /\ (k # Len(blocks) => m <= ProrateBlocks(blocks)[k].cap)
      BY <2>1, <3>1, <3>2 DEF block, day
    <3>4. RateOfUnit(m, blocks) = blocks[k].rate
      BY <3>1, <3>3, RateOfUnitIs
    <3> QED
      BY <1>1, <3>1, <3>4
  <2>5. M[done + u] = M[done] + u * r
    BY SMTT(30), <1>1, <2>3, <2>4, OnePrice
  <2>6. Total(next.lines) = Total(acc.lines) + Rounded(u * r, PerKwh)
    <3>1. line.amount = Rounded(u * r, PerKwh)
      BY DEF line, LineOf, u, r
    <3> QED
      BY <1>2, <2>2, <3>1, TotalIs
  <2>7. Len(next.lines) = Len(acc.lines) + 1 /\ Len(acc.lines) \in Nat
    BY <1>2, <2>2
  <2>8. u * r \in Nat
    BY <1>1, <2>3, Products
  <2>9. M[done] \in Int
    BY <1>2, <2>3 DEF PartialSums
  <2>10. Total(acc.lines) \in Nat
         /\ 2 * Distance(PerKwh * Total(acc.lines), M[done]) <= PerKwh * Len(acc.lines)
    BY DEF Priced, done
  <2>11. /\ Rounded(u * r, PerKwh) \in Nat
         /\ PerKwh * Rounded(u * r, PerKwh) - u * r <= 4
         /\ u * r - PerKwh * Rounded(u * r, PerKwh) <= 4
    BY <2>8, RoundedEighths
  <2>12. \A t, x, y, c \in Nat, s \in Int :
           /\ 2 * Distance(8 * t, s) <= 8 * c /\ 8 * x - y <= 4 /\ y - 8 * x <= 4
           => 2 * Distance(8 * (t + x), s + y) <= 8 * (c + 1)
    BY DEF Distance
  <2>13. 2 * Distance(8 * (Total(acc.lines) + Rounded(u * r, PerKwh)), M[done] + u * r)
           <= 8 * (Len(acc.lines) + 1)
    BY <2>7, <2>8, <2>9, <2>10, <2>11, <2>12 DEF PerKwh
  <2>14. Priced(next, import, M)
    <3>1. Total(next.lines) \in Nat
      BY <2>6, <2>10, <2>11
    <3>2. 2 * Distance(PerKwh * Total(next.lines), M[import - next.remaining])
            <= PerKwh * Len(next.lines)
      BY <2>3, <2>5, <2>6, <2>7, <2>13, Zenon DEF PerKwh
    <3> QED
      BY <3>1, <3>2 DEF Priced
  <2> QED
    BY <2>14 DEF next, block, day
<1> QED
  BY <1>3, <1>4

\* All lines together differ from the prices of the units by half a cent each.
LEMMA EnergyIsMarginal ==
  ASSUME NEW import \in Nat, NEW blocks, Schedulable(blocks)
  PROVE  LET lines == BlockLines(import, ProrateBlocks(blocks))
         IN /\ lines \in Seq(Lines) /\ Total(lines) \in Nat
            /\ 2 * Distance(PerKwh * Total(lines), MarginalCost(import, blocks))
                 <= PerKwh * Len(lines)
<1> DEFINE day == ProrateBlocks(blocks)
           n == Len(blocks)
           w == [m \in 1..import |-> RateOfUnit(m, blocks)]
<1>1. /\ OfADay(day) /\ Len(day) = n /\ n \in Nat /\ day \in Seq(DayBlocks)
      /\ \A k \in 1..n : day[k].rate = blocks[k].rate
  <2>1. OfADay(day) /\ Len(day) = n /\ \A k \in 1..n : day[k].rate = blocks[k].rate
    BY ProrateIs
  <2>2. n \in Nat
    BY DEF Schedulable
  <2>3. day \in Seq(DayBlocks)
    BY <2>1 DEF OfADay
  <2> QED
    BY <2>1, <2>2, <2>3
<1>2. PICK F : Turns(F, import, day) /\ F[n].lines = BlockLines(import, day)
  <2> HIDE DEF day, n
  <2>1. PICK F : Turns(F, import, day) /\ F[Len(day)].lines = BlockLines(import, day)
    BY <1>1, ChargesUnroll
  <2> QED
    BY <1>1, <2>1
<1>3. /\ \A k \in 0..n : F[k] \in Accs /\ Ahead(F[k], import, day, k)
      /\ F[n].remaining = 0
  BY <1>1, <1>2, TurnsGoAhead
<1>4. ASSUME NEW m \in 1..import PROVE RateOfUnit(m, blocks) \in Int
  <2> DEFINE A == {i \in DOMAIN blocks :
                     blocks[i].cap = Unbounded \/ m * DaysPerBillingMonth <= blocks[i].cap}
  <2>1. A \in SUBSET (1..n) /\ n \in A
    BY <1>1 DEF Schedulable
  <2>2. Min(A) \in A
    <3>1. A \in SUBSET Nat /\ A # {}
      BY <1>1, <2>1
    <3> HIDE DEF A
    <3>2. \E i \in A : \A j \in A : i <= j
      BY <3>1, LeastNatural
    <3> QED
      BY <3>2 DEF Min
  <2>3. Min(A) \in 1..n /\ RateOfUnit(m, blocks) = blocks[Min(A)].rate
    BY <2>1, <2>2 DEF RateOfUnit
  <2> HIDE DEF A, day
  <2>4. day[Min(A)] \in DayBlocks /\ day[Min(A)].rate = blocks[Min(A)].rate
    BY <1>1, <2>3
  <2> QED
    BY <2>3, <2>4 DEF DayBlocks
<1>5. w \in [1..import -> Int]
  BY <1>4
<1>6. PICK M : PartialSums(M, import, w) /\ M[import] = FoldLeft(+, 0, w)
  <2> HIDE DEF w
  <2> QED
    BY <1>5, FoldLeftAdds
<1>7. M[import] = MarginalCost(import, blocks)
  BY <1>6 DEF MarginalCost
<1>8. \A m \in 1..import : w[m] = RateOfUnit(m, blocks)
  OBVIOUS
<1> DEFINE S == {k \in Nat : k <= n => Priced(F[k], import, M)}
<1> HIDE DEF w
<1>9. 0 \in S
  <2>1. F[0].remaining = import /\ F[0].lines = <<>>
    BY <1>2 DEF Turns
  <2>2. M[0] = 0
    BY <1>6 DEF PartialSums
  <2>3. Priced(F[0], import, M)
    <3>1. import - F[0].remaining = 0 /\ Total(F[0].lines) = 0 /\ Len(F[0].lines) = 0
      BY <2>1, TotalIs
    <3> QED
      BY <2>2, <3>1 DEF Priced, Distance, PerKwh
  <2> QED
    BY <2>3
<1> HIDE DEF day, n
<1>10. ASSUME NEW k \in Nat, k \in S PROVE k + 1 \in S
  <2> SUFFICES ASSUME k + 1 <= n PROVE Priced(F[k + 1], import, M)
    OBVIOUS
  <2>1. k + 1 \in 1..n /\ (k + 1) - 1 = k /\ k \in 0..n
    BY <1>1
  <2>2. Priced(F[k], import, M)
    BY <1>1, <1>10, <2>1
  <2>3. F[k] \in Accs /\ Ahead(F[k], import, ProrateBlocks(blocks), (k + 1) - 1)
    BY <1>3, <2>1 DEF day
  <2>4. F[k + 1] = Charge(F[k], ProrateBlocks(blocks)[k + 1])
    BY <1>1, <1>2, <2>1 DEF Turns, day
  <2>5. k + 1 \in 1..Len(blocks)
    BY <2>1 DEF n
  <2> QED
    BY <1>6, <1>8, <2>2, <2>3, <2>4, <2>5, TurnIsPriced
<1>11. Priced(F[n], import, M)
  <2>1. Nat \subseteq S
    <3> HIDE DEF S
    <3> QED
      BY <1>9, <1>10, CountingUp
  <2> QED
    BY <1>1, <2>1
<1>12. F[n].lines \in Seq(Lines) /\ import - F[n].remaining = import
  BY <1>1, <1>3 DEF Accs
<1> QED
  BY <1>2, <1>7, <1>11, <1>12 DEF Priced, day

-----------------------------------------------------------------------------
(* Dearer blocks.                                                          *)

\* The same caps, and no rate that is lower.
Dearer(blocks, others) ==
  /\ Len(others) = Len(blocks)
  /\ \A i \in 1..Len(blocks) : /\ others[i].cap = blocks[i].cap
                               /\ blocks[i].rate <= others[i].rate

\* The same units charged so far, for no less.
CostsMore(acc, other) ==
  /\ other.remaining = acc.remaining /\ other.lower = acc.lower
  /\ Total(acc.lines) <= Total(other.lines)

\* Side by side, two schedules with the same caps take the same units in each turn.
LEMMA DearerTurn ==
  ASSUME NEW acc \in Accs, NEW other \in Accs, CostsMore(acc, other),
         NEW block \in DayBlocks, NEW dearer \in DayBlocks,
         dearer.cap = block.cap, block.rate <= dearer.rate,
         acc.remaining # 0 => Width(acc, block) > 0
  PROVE  CostsMore(Charge(acc, block), Charge(other, dearer))
<1> DEFINE u == Units(acc, block)
<1>1. /\ acc.remaining \in Nat /\ acc.lines \in Seq(Lines) /\ other.lines \in Seq(Lines)
      /\ other.remaining = acc.remaining /\ other.lower = acc.lower
      /\ Total(acc.lines) \in Int /\ Total(other.lines) \in Int
      /\ block.rate \in Nat /\ dearer.rate \in Nat
  <2>1. acc.remaining \in Nat /\ acc.lines \in Seq(Lines) /\ other.lines \in Seq(Lines)
    BY DEF Accs
  <2>2. other.remaining = acc.remaining /\ other.lower = acc.lower
    BY DEF CostsMore
  <2>3. Total(acc.lines) \in Int /\ Total(other.lines) \in Int
    BY <2>1, TotalIs
  <2>4. block.rate \in Nat /\ dearer.rate \in Nat
    BY DEF DayBlocks
  <2> QED
    BY <2>1, <2>2, <2>3, <2>4
<1>2. CASE acc.remaining = 0
  <2>1. Charge(acc, block) = acc /\ Charge(other, dearer) = other
    BY <1>1, <1>2, ChargeIs
  <2> QED
    BY <2>1
<1>3. CASE acc.remaining # 0
  <2>1. /\ Width(acc, block) > 0 /\ Width(other, dearer) = Width(acc, block)
        /\ Units(other, dearer) = u
    BY <1>1, <1>3 DEF Width, Units
  <2>2. /\ u \in 1..acc.remaining /\ LineOf(acc, block) \in Lines
        /\ Charge(acc, block) =
             [remaining |-> acc.remaining - u,
              lower |-> IF block.cap = Unbounded THEN acc.lower ELSE block.cap,
              lines |-> Append(acc.lines, LineOf(acc, block))]
    BY <1>3, <2>1, ChargeIs
  <2>3. /\ LineOf(other, dearer) \in Lines
        /\ Charge(other, dearer) =
             [remaining |-> other.remaining - u,
              lower |-> IF dearer.cap = Unbounded THEN other.lower ELSE dearer.cap,
              lines |-> Append(other.lines, LineOf(other, dearer))]
    BY <1>1, <1>3, <2>1, ChargeIs
  <2> HIDE DEF u
  <2>4. /\ LineOf(acc, block).amount = Rounded(u * block.rate, PerKwh)
        /\ LineOf(other, dearer).amount = Rounded(u * dearer.rate, PerKwh)
    BY <2>1 DEF LineOf, u
  <2>5. Rounded(u * block.rate, PerKwh) <= Rounded(u * dearer.rate, PerKwh)
        /\ Rounded(u * block.rate, PerKwh) \in Nat /\ Rounded(u * dearer.rate, PerKwh) \in Nat
    <3>1. u \in Nat
      BY <1>1, <2>2
    <3>2. u * block.rate \in Nat /\ u * dearer.rate \in Nat
          /\ u * block.rate <= u * dearer.rate
      BY <1>1, <3>1, Products
    <3> QED
      BY <3>2, RoundedEighths
  <2>6. /\ Total(Charge(acc, block).lines) = Total(acc.lines) + Rounded(u * block.rate, PerKwh)
        /\ Total(Charge(other, dearer).lines)
             = Total(other.lines) + Rounded(u * dearer.rate, PerKwh)
    BY SMTT(30), <1>1, <2>2, <2>3, <2>4, TotalIs
  <2>7. Total(acc.lines) <= Total(other.lines)
    BY DEF CostsMore
  <2>8. \A a, b, c, d \in Int : a <= b /\ c <= d => a + c <= b + d
    OBVIOUS
  <2>9. Total(Charge(acc, block).lines) <= Total(Charge(other, dearer).lines)
    BY <1>1, <2>5, <2>6, <2>7, <2>8
  <2> QED
    BY <1>1, <2>2, <2>3, <2>9 DEF CostsMore
<1> QED
  BY <1>2, <1>3

\* So the dearer one never costs less.
LEMMA DearerCostsMore ==
  ASSUME NEW import \in Nat, NEW blocks, NEW others, Schedulable(blocks),
         Schedulable(others), Dearer(blocks, others)
  PROVE  Total(BlockLines(import, ProrateBlocks(blocks)))
           <= Total(BlockLines(import, ProrateBlocks(others)))
<1> DEFINE day == ProrateBlocks(blocks)
           dear == ProrateBlocks(others)
           n == Len(blocks)
<1>1. /\ OfADay(day) /\ OfADay(dear) /\ Len(day) = n /\ Len(dear) = n /\ n \in Nat
      /\ day \in Seq(DayBlocks) /\ dear \in Seq(DayBlocks)
  <2>1. OfADay(day) /\ Len(day) = n
    BY ProrateIs
  <2>2. OfADay(dear) /\ Len(dear) = n
    BY ProrateIs DEF Dearer
  <2>3. n \in Nat
    BY DEF Schedulable
  <2> QED
    BY <2>1, <2>2, <2>3 DEF OfADay
<1>2. ASSUME NEW k \in 1..n
      PROVE  /\ day[k] \in DayBlocks /\ dear[k] \in DayBlocks
             /\ dear[k].cap = day[k].cap /\ day[k].rate <= dear[k].rate
  <2>1. day[k] \in DayBlocks /\ dear[k] \in DayBlocks
    BY <1>1
  <2>2. day[k].rate = blocks[k].rate /\ dear[k].rate = others[k].rate
    BY ProrateIs DEF Dearer
  <2>3. others[k].cap = blocks[k].cap /\ blocks[k].rate <= others[k].rate
    BY DEF Dearer
  <2>4. /\ blocks[k] \in [cap : Int, rate : Nat] /\ others[k] \in [cap : Int, rate : Nat]
        /\ k \in DOMAIN blocks /\ k \in DOMAIN others
    <3>1. k \in 1..Len(others)
      BY DEF Dearer
    <3> QED
      BY <3>1, ScheduledBlocks
  <2>5. dear[k].cap = day[k].cap
    <3>1. day[k] = IF blocks[k].cap = Unbounded THEN blocks[k]
                   ELSE [blocks[k] EXCEPT !.cap = @ \div DaysPerBillingMonth]
      BY <2>4 DEF ProrateBlocks
    <3>2. dear[k] = IF others[k].cap = Unbounded THEN others[k]
                    ELSE [others[k] EXCEPT !.cap = @ \div DaysPerBillingMonth]
      BY <2>4 DEF ProrateBlocks
    <3> HIDE DEF day, dear
    <3> QED
      BY <2>3, <2>4, <3>1, <3>2
  <2> QED
    BY <2>1, <2>2, <2>3, <2>5
<1> HIDE DEF day, dear, n
<1>3. PICK F : Turns(F, import, day) /\ F[Len(day)].lines = BlockLines(import, day)
  BY <1>1, ChargesUnroll
<1>4. PICK H : Turns(H, import, dear) /\ H[Len(dear)].lines = BlockLines(import, dear)
  BY <1>1, ChargesUnroll
<1>5. \A k \in 0..n : F[k] \in Accs /\ Ahead(F[k], import, day, k)
  BY <1>1, <1>3, TurnsGoAhead
<1>6. \A k \in 0..n : H[k] \in Accs
  BY <1>1, <1>4, TurnsGoAhead
<1> DEFINE S == {k \in Nat : k <= n => CostsMore(F[k], H[k])}
<1>7. 0 \in S
  <2>1. F[0] = H[0] /\ F[0].lines = <<>>
    BY <1>3, <1>4 DEF Turns
  <2>2. CostsMore(F[0], H[0])
    BY <2>1, TotalIs DEF CostsMore
  <2> QED
    BY <2>2
<1>8. ASSUME NEW k \in Nat, k \in S PROVE k + 1 \in S
  <2> SUFFICES ASSUME k + 1 <= n PROVE CostsMore(F[k + 1], H[k + 1])
    OBVIOUS
  <2>1. k + 1 \in 1..n /\ (k + 1) - 1 = k /\ k \in 0..n
    BY <1>1
  <2>2. CostsMore(F[k], H[k])
    BY <1>1, <1>8, <2>1
  <2>3. F[k] \in Accs /\ H[k] \in Accs /\ Ahead(F[k], import, day, (k + 1) - 1)
    BY <1>5, <1>6, <2>1
  <2>4. F[k + 1] = Charge(F[k], day[k + 1]) /\ H[k + 1] = Charge(H[k], dear[k + 1])
    BY <1>1, <1>3, <1>4, <2>1 DEF Turns
  <2>5. k + 1 \in 1..Len(day)
    BY <1>1, <2>1
  <2>6. F[k].remaining # 0 => Width(F[k], day[k + 1]) > 0
    BY <1>1, <2>3, <2>5, TurnGoesAhead
  <2> QED
    BY <1>2, <2>1, <2>2, <2>3, <2>4, <2>6, DearerTurn
<1>9. CostsMore(F[n], H[n])
  <2>1. Nat \subseteq S
    <3> HIDE DEF S
    <3> QED
      BY <1>7, <1>8, CountingUp
  <2> QED
    BY <1>1, <2>1
<1> QED
  BY <1>1, <1>3, <1>4, <1>9 DEF CostsMore, day, dear

-----------------------------------------------------------------------------
(* Whole bills.                                                            *)

\* What the default schedule has and no revision touches.
SubsidyRate == 25
CreditRate  == 2200

\* A subsidy is a part of the energy, and what is left of it grows with it.
LEMMA SubsidyIs ==
  /\ \A e \in Nat : Rounded(e * SubsidyRate, Percent) \in 0..e
  /\ \A e, f \in Nat : e <= f =>
       e - Rounded(e * SubsidyRate, Percent) <= f - Rounded(f * SubsidyRate, Percent)
<1>1. \A e \in Nat : (2 * (e * 25) + 100) \div 200 \in 0..e
  OBVIOUS
<1>2. \A e, f \in Nat : e <= f =>
        e - ((2 * (e * 25) + 100) \div 200) <= f - ((2 * (f * 25) + 100) \div 200)
  OBVIOUS
<1> QED
  BY <1>1, <1>2 DEF Rounded, SubsidyRate, Percent

\* What calculate_bill returns, for any household and any sound schedule.
LEMMA BillIs ==
  ASSUME NEW use \in Int, NEW gen \in Int, NEW tier, NEW subsidised \in BOOLEAN,
         NEW fixed \in Int, NEW schedule, Schedulable(schedule.tiers[tier].blocks),
         schedule.subsidy = SubsidyRate
  PROVE  LET bill   == CalculateBill(use, gen, tier, subsidised, fixed, schedule)
             blocks == schedule.tiers[tier].blocks
         IN /\ bill.import - bill.export = use - gen
            /\ 2 * Distance(PerKwh * bill.energy, MarginalCost(bill.import, blocks))
                 <= PerKwh * Len(bill.lines)
            /\ bill.import = 0 \/ bill.export = 0
            /\ bill.subsidy \in 0..bill.energy
<1> DEFINE bill   == CalculateBill(use, gen, tier, subsidised, fixed, schedule)
           blocks == schedule.tiers[tier].blocks
           lines  == BlockLines(Positive(use - gen), ProrateBlocks(blocks))
<1>1. /\ bill.import = Positive(use - gen) /\ bill.export = Positive(gen - use)
      /\ bill.lines = lines /\ bill.energy = Total(lines)
      /\ bill.subsidy = IF subsidised THEN Rounded(Total(lines) * SubsidyRate, Percent) ELSE 0
  BY DEF CalculateBill
<1>2. /\ Positive(use - gen) \in Nat
      /\ Positive(use - gen) - Positive(gen - use) = use - gen
      /\ Positive(use - gen) = 0 \/ Positive(gen - use) = 0
  BY DEF Positive
<1>3. /\ Total(lines) \in Nat
      /\ 2 * Distance(PerKwh * Total(lines), MarginalCost(Positive(use - gen), blocks))
           <= PerKwh * Len(lines)
  <2> DEFINE import == Positive(use - gen)
  <2>1. import \in Nat
    BY <1>2
  <2> HIDE DEF import
  <2>2. /\ Total(BlockLines(import, ProrateBlocks(blocks))) \in Nat
        /\ 2 * Distance(PerKwh * Total(BlockLines(import, ProrateBlocks(blocks))),
                        MarginalCost(import, blocks))
             <= PerKwh * Len(BlockLines(import, ProrateBlocks(blocks)))
    BY <2>1, EnergyIsMarginal, Zenon
  <2> QED
    BY <2>2 DEF import
<1> HIDE DEF lines, bill
<1>4. bill.subsidy \in 0..bill.energy
  BY <1>1, <1>3, SubsidyIs
<1> QED
  BY <1>1, <1>2, <1>3, <1>4 DEF bill

\* A schedule that is dearer for a tier bills no household of that tier less.
LEMMA DearerBill ==
  ASSUME NEW use \in Int, NEW gen \in Int, NEW tier, NEW subsidised \in BOOLEAN,
         NEW fixed \in Int, NEW schedule, NEW other,
         Schedulable(schedule.tiers[tier].blocks), Schedulable(other.tiers[tier].blocks),
         Dearer(schedule.tiers[tier].blocks, other.tiers[tier].blocks),
         schedule.subsidy = SubsidyRate, other.subsidy = SubsidyRate,
         schedule.credit = CreditRate, other.credit = CreditRate
  PROVE  CalculateBill(use, gen, tier, subsidised, fixed, schedule).total
           <= CalculateBill(use, gen, tier, subsidised, fixed, other).total
<1> DEFINE import == Positive(use - gen)
           e == Total(BlockLines(import, ProrateBlocks(schedule.tiers[tier].blocks)))
           f == Total(BlockLines(import, ProrateBlocks(other.tiers[tier].blocks)))
           less(x) == IF subsidised THEN Rounded(x * SubsidyRate, Percent) ELSE 0
           daily  == Rounded(fixed, DaysPerBillingMonth)
           credit == Rounded(Positive(gen - use) * CreditRate, PerKwh)
<1>1. /\ CalculateBill(use, gen, tier, subsidised, fixed, schedule).total
           = e - less(e) + daily - credit
      /\ CalculateBill(use, gen, tier, subsidised, fixed, other).total
           = f - less(f) + daily - credit
  BY DEF CalculateBill
<1>2. import \in Nat
  BY DEF Positive
<1> HIDE DEF import
<1>3. e \in Nat /\ f \in Nat
  BY <1>2, EnergyIsMarginal, Zenon
<1>4. e <= f
  BY <1>2, DearerCostsMore
<1>5. daily \in Int /\ credit \in Int
  <2>1. \A a \in Int : (2 * a + 30) \div 60 \in Int
    OBVIOUS
  <2>2. daily \in Int
    BY <2>1 DEF Rounded, DaysPerBillingMonth
  <2>3. Positive(gen - use) \in Nat
    BY DEF Positive
  <2>4. \A a \in Nat : (2 * (a * 2200) + 8) \div 16 \in Int
    OBVIOUS
  <2>5. credit \in Int
    BY <2>3, <2>4 DEF Rounded, CreditRate, PerKwh
  <2> QED
    BY <2>2, <2>5
<1> HIDE DEF e, f, daily, credit
<1>6. less(e) \in Int /\ less(f) \in Int /\ e - less(e) <= f - less(f)
  BY <1>3, <1>4, SubsidyIs
<1> HIDE DEF less
<1>7. e - less(e) + daily - credit <= f - less(f) + daily - credit
  BY <1>3, <1>5, <1>6
<1> QED
  BY <1>1, <1>7

-----------------------------------------------------------------------------
(* The records of a drop.                                                  *)

\* SetToSeq lists each element once.
LEMMA SetToSeqIs ==
  ASSUME NEW S, IsFiniteSet(S)
  PROVE  /\ SetToSeq(S) \in Seq(S) /\ Len(SetToSeq(S)) = Cardinality(S)
         /\ Cardinality(S) \in Nat
         /\ \A x \in S : \E i \in 1..Cardinality(S) : SetToSeq(S)[i] = x
         /\ \A i, j \in 1..Cardinality(S) : SetToSeq(S)[i] = SetToSeq(S)[j] => i = j
<1> DEFINE n == Cardinality(S)
           f == SetToSeq(S)
<1>1. n \in Nat /\ ExistsBijection(1..n, S)
  BY FS_CardinalityType
<1>2. \E g \in [1..n -> S] : IsInjective(g)
  BY <1>1 DEF ExistsBijection, Bijection, Injection
<1>3. f \in [1..n -> S] /\ IsInjective(f)
  BY <1>2 DEF SetToSeq
<1> HIDE DEF f
<1>4. f \in Injection(1..n, S)
  BY <1>3 DEF Injection
<1>5. f \in Surjection(1..n, S)
  <2>1. Cardinality(1..n) = n
    BY <1>1, FS_Interval
  <2> HIDE DEF n
  <2>2. Cardinality(1..n) = Cardinality(S)
    BY <2>1 DEF n
  <2> QED
    BY <1>4, <2>2, FS_Injection
<1>6. f \in Seq(S) /\ Len(f) = n
  BY <1>1, <1>3
<1>7. \A x \in S : \E i \in 1..n : f[i] = x
  BY <1>5 DEF Surjection
<1>8. \A i, j \in 1..n : f[i] = f[j] => i = j
  BY <1>3 DEF IsInjective
<1> QED
  BY <1>1, <1>6, <1>7, <1>8 DEF f

\* What the schema of household_tariffs accepts.
Bounds(record) == /\ record.json = TRUE
                  /\ record.rate \in 0..RateLimit /\ record.fixed \in 0..FixedLimit

\* A tariff record is accepted within the bounds of its two amounts.
LEMMA RecordOkIs ==
  ASSUME NEW record, record.json \in BOOLEAN, record.rate \in Int, record.fixed \in Int
  PROVE  RecordOk(record) <=> Bounds(record)
<1> DEFINE specs == TariffRecordFields
           bound(v, limit) == CASE v < 0 -> "low" [] v > limit -> "high" [] OTHER -> "valid"
           rate == bound(record.rate, RateLimit)
           fixed == bound(record.fixed, FixedLimit)
           body == AsBody(record)
           faulty == {i \in DOMAIN specs : Fault(specs[i], ClassOf(body, specs[i].name)) # "none"}
<1>1. CASE ~record.json
  <2>1. body = NotJson
    BY <1>1 DEF AsBody
  <2>2. ~body.json
    BY <2>1 DEF NotJson
  <2>3. RowVerdict(body, specs, FALSE) = "malformed_json"
    <3> HIDE DEF body, specs
    <3> QED
      BY <2>2 DEF RowVerdict
  <2> QED
    BY <1>1, <2>3 DEF RecordOk, Bounds
<1>2. CASE record.json = TRUE
  <2>1. body = Body([tariff_rate |-> rate, fixed_charge |-> fixed])
    BY <1>2 DEF AsBody
  <2>2. /\ body.json = TRUE
        /\ \A name : ClassOf(body, name) = IF name = "tariff_rate" THEN rate
                                           ELSE IF name = "fixed_charge" THEN fixed
                                           ELSE "valid"
    <3> HIDE DEF rate, fixed
    <3> QED
      BY <2>1 DEF Body, ClassOf
  <2>3. /\ DOMAIN specs = 1..6
        /\ specs[1] = Field("household_id", "string", TRUE)
        /\ specs[2] = Field("tariff_rate", "double", TRUE)
        /\ specs[3] = Field("billing_tier", "string", TRUE)
        /\ specs[4] = Field("subsidy_flag", "boolean", TRUE)
        /\ specs[5] = Field("fixed_charge", "double", TRUE)
        /\ specs[6] = Field("effective_date", "timestamp", TRUE)
    BY DEF TariffRecordFields
  <2>4. /\ rate \in {"low", "high", "valid"} /\ fixed \in {"low", "high", "valid"}
        /\ rate = "valid" <=> record.rate \in 0..RateLimit
        /\ fixed = "valid" <=> record.fixed \in 0..FixedLimit
    <3>1. \A v, limit \in Int : /\ bound(v, limit) \in {"low", "high", "valid"}
                                /\ bound(v, limit) = "valid" <=> 0 <= v /\ v <= limit
      <4> TAKE v, limit \in Int
      <4>1. CASE v < 0
        BY <4>1
      <4>2. CASE v > limit /\ ~(v < 0)
        BY <4>2
      <4>3. CASE 0 <= v /\ v <= limit
        <5>1. ~(v < 0) /\ ~(v > limit)
          BY <4>3
        <5> QED
          BY <4>3, <5>1
      <4> QED
        BY <4>1, <4>2, <4>3
    <3>2. RateLimit \in Int /\ FixedLimit \in Int
      BY DEF RateLimit, FixedLimit
    <3> HIDE DEF bound
    <3> QED
      BY <3>1, <3>2
  <2> HIDE DEF rate, fixed, body, specs
  <2>5. \A d \in {"string", "boolean", "double", "timestamp"} : \A name :
          /\ Fault(Field(name, d, TRUE), "valid") = "none"
          /\ d = "double" => /\ Fault(Field(name, d, TRUE), "low") # "none"
                             /\ Fault(Field(name, d, TRUE), "high") # "none"
    BY DEF Fault, Field, Raises, OutOfRange, WrongType
  <2>6. /\ \A i \in {1, 3, 4, 6} : Fault(specs[i], ClassOf(body, specs[i].name)) = "none"
        /\ Fault(specs[2], ClassOf(body, specs[2].name)) = "none" <=> rate = "valid"
        /\ Fault(specs[5], ClassOf(body, specs[5].name)) = "none" <=> fixed = "valid"
    <3>1. /\ specs[1].name = "household_id" /\ specs[2].name = "tariff_rate"
          /\ specs[3].name = "billing_tier" /\ specs[4].name = "subsidy_flag"
          /\ specs[5].name = "fixed_charge" /\ specs[6].name = "effective_date"
      BY <2>3 DEF Field
    <3>2. /\ ClassOf(body, specs[2].name) = rate /\ ClassOf(body, specs[5].name) = fixed
          /\ \A i \in {1, 3, 4, 6} : ClassOf(body, specs[i].name) = "valid"
      BY <2>2, <3>1
    <3>3. Fault(specs[2], ClassOf(body, specs[2].name)) = "none" <=> rate = "valid"
      BY <2>3, <2>4, <2>5, <3>2
    <3>4. Fault(specs[5], ClassOf(body, specs[5].name)) = "none" <=> fixed = "valid"
      BY <2>3, <2>4, <2>5, <3>2
    <3>5. \A i \in {1, 3, 4, 6} : Fault(specs[i], ClassOf(body, specs[i].name)) = "none"
      BY <2>3, <2>5, <3>2
    <3> QED
      BY <3>3, <3>4, <3>5
  <2>7. faulty = {} <=> rate = "valid" /\ fixed = "valid"
    <3>1. \A i \in 1..6 : i \in {1, 3, 4, 6} \/ i = 2 \/ i = 5
      OBVIOUS
    <3>2. faulty = {} <=>
            \A i \in 1..6 : Fault(specs[i], ClassOf(body, specs[i].name)) = "none"
      BY <2>3
    <3>3. 2 \in 1..6 /\ 5 \in 1..6
      OBVIOUS
    <3> QED
      BY <2>6, <3>1, <3>2, <3>3
  <2>8. ClassOf(body, "event_time") = "valid"
    BY <2>2
  <2>9. RowVerdict(body, specs, FALSE) = "none" <=> faulty = {}
    <3>1. CASE faulty = {}
      <4>1. RowVerdict(body, specs, FALSE) = "none"
        BY <2>2, <2>8, <3>1 DEF RowVerdict
      <4> QED
        BY <3>1, <4>1
    <3>2. CASE faulty # {}
      <4>1. RowVerdict(body, specs, FALSE) =
              Fault(specs[Min(faulty)], ClassOf(body, specs[Min(faulty)].name))
        BY <2>2, <3>2 DEF RowVerdict
      <4>2. Min(faulty) \in faulty
        <5>1. faulty \in SUBSET Nat
          BY <2>3
        <5> HIDE DEF faulty
        <5>2. \E i \in faulty : \A j \in faulty : i <= j
          BY <3>2, <5>1, LeastNatural
        <5> QED
          BY <5>2 DEF Min
      <4> QED
        BY <3>2, <4>1, <4>2
    <3> QED
      BY <3>1, <3>2
  <2> QED
    BY <1>2, <2>4, <2>7, <2>9 DEF RecordOk, Bounds, body, specs
<1> QED
  BY <1>1, <1>2

-----------------------------------------------------------------------------
(* Schedules.                                                              *)

Tiers     == {"DOMESTIC_LOW", "DOMESTIC_STD", "DOMESTIC_HIGH", "INDUSTRIAL"}
AnyBlock  == [cap : Int, rate : Int]
AnyTier   == [blocks : Seq(AnyBlock), fixed : Int]
Schedules == [tiers : [Tiers -> AnyTier], credit : {CreditRate}, subsidy : {SubsidyRate}]

\* The same charges and caps; the rates may be others.
Alike(tier, other) ==
  /\ tier.fixed = other.fixed /\ Len(tier.blocks) = Len(other.blocks)
  /\ \A i \in 1..Len(other.blocks) : tier.blocks[i].cap = other.blocks[i].cap

\* What publish renders and whatever revise makes of it.
LikeDefault(schedule) ==
  schedule \in Schedules /\ \A t \in Tiers : Alike(schedule.tiers[t], DefaultSchedule.tiers[t])

\* The default schedule, tier by tier.
LEMMA DefaultIs ==
  /\ DefaultSchedule \in Schedules
  /\ \A t \in Tiers :
       /\ DefaultSchedule.tiers[t].fixed \in 0..FixedLimit
       /\ Schedulable(DefaultSchedule.tiers[t].blocks)
       /\ \A i \in DOMAIN DefaultSchedule.tiers[t].blocks :
            DefaultSchedule.tiers[t].blocks[i].rate \in 1..RateLimit
<1> DEFINE low   == <<[cap |-> 240, rate |-> 800], [cap |-> 480, rate |-> 1000],
                      [cap |-> 720, rate |-> 1600], [cap |-> -1, rate |-> 5000]>>
           std   == <<[cap |-> 480, rate |-> 1200], [cap |-> 960, rate |-> 2775],
                      [cap |-> 1440, rate |-> 3200], [cap |-> -1, rate |-> 4500]>>
           high  == <<[cap |-> 960, rate |-> 3000], [cap |-> -1, rate |-> 5500]>>
           plant == <<[cap |-> -1, rate |-> 4500]>>
           tiers == DefaultSchedule.tiers
<1>1. /\ tiers["DOMESTIC_LOW"] = [blocks |-> low, fixed |-> 15000]
      /\ tiers["DOMESTIC_STD"] = [blocks |-> std, fixed |-> 30000]
      /\ tiers["DOMESTIC_HIGH"] = [blocks |-> high, fixed |-> 60000]
      /\ tiers["INDUSTRIAL"] = [blocks |-> plant, fixed |-> 150000]
  BY DEF DefaultSchedule, Block, LastBlock, PerKwh, Unbounded
<1>2. /\ low \in Seq(AnyBlock) /\ std \in Seq(AnyBlock)
      /\ high \in Seq(AnyBlock) /\ plant \in Seq(AnyBlock)
  <2>1. \A c, r \in Int : [cap |-> c, rate |-> r] \in AnyBlock
    BY DEF AnyBlock
  <2> HIDE DEF AnyBlock
  <2> QED
    BY <2>1
<1>3. DefaultSchedule = [tiers |-> tiers, credit |-> CreditRate, subsidy |-> SubsidyRate]
  BY DEF DefaultSchedule, CreditRate, SubsidyRate
<1>4. tiers \in [Tiers -> AnyTier]
  <2> HIDE DEF low, std, high, plant
  <2>1. \A t \in Tiers : tiers[t] \in AnyTier
    BY <1>1, <1>2 DEF Tiers, AnyTier
  <2>2. tiers = [t \in Tiers |-> tiers[t]]
    BY DEF DefaultSchedule, Tiers
  <2> HIDE DEF tiers
  <2> QED
    BY <2>1, <2>2
<1>5. DefaultSchedule \in Schedules
  <2> HIDE DEF tiers
  <2> QED
    BY <1>3, <1>4 DEF Schedules
<1>6. /\ Schedulable(low) /\ Schedulable(std) /\ Schedulable(high) /\ Schedulable(plant)
  <2>1. \A c, r \in Nat : /\ [cap |-> c, rate |-> r] \in [cap : Int, rate : Nat]
                          /\ [cap |-> -1, rate |-> r] \in [cap : Int, rate : Nat]
    OBVIOUS
  <2>2. /\ 240 = 30 * 8 /\ 480 = 30 * 16 /\ 720 = 30 * 24 /\ 960 = 30 * 32 /\ 1440 = 30 * 48
    OBVIOUS
  <2>3. Schedulable(low)
    <3>1. /\ Len(low) = 4 /\ low[1].cap = 240 /\ low[2].cap = 480 /\ low[3].cap = 720
          /\ low[4].cap = -1
      OBVIOUS
    <3>2. low \in Seq([cap : Int, rate : Nat])
      BY <2>1
    <3> HIDE DEF low
    <3>3. \A i \in 1..3 : i = 1 \/ i = 2 \/ i = 3
      OBVIOUS
    <3>4. \A i \in 1..(4 - 1) : \E c \in Nat \ {0} : low[i].cap = 30 * c
      BY <2>2, <3>1, <3>3
    <3>5. \A i, j \in 1..(4 - 1) : i < j => low[i].cap < low[j].cap
      BY <3>1, <3>3
    <3> QED
      BY <3>1, <3>2, <3>4, <3>5 DEF Schedulable, Unbounded, DaysPerBillingMonth
  <2>4. Schedulable(std)
    <3>1. /\ Len(std) = 4 /\ std[1].cap = 480 /\ std[2].cap = 960 /\ std[3].cap = 1440
          /\ std[4].cap = -1
      OBVIOUS
    <3>2. std \in Seq([cap : Int, rate : Nat])
      BY <2>1
    <3> HIDE DEF std
    <3>3. \A i \in 1..3 : i = 1 \/ i = 2 \/ i = 3
      OBVIOUS
    <3>4. \A i \in 1..(4 - 1) : \E c \in Nat \ {0} : std[i].cap = 30 * c
      BY <2>2, <3>1, <3>3
    <3>5. \A i, j \in 1..(4 - 1) : i < j => std[i].cap < std[j].cap
      BY <3>1, <3>3
    <3> QED
      BY <3>1, <3>2, <3>4, <3>5 DEF Schedulable, Unbounded, DaysPerBillingMonth
  <2>5. Schedulable(high)
    <3>1. Len(high) = 2 /\ high[1].cap = 960 /\ high[2].cap = -1
      OBVIOUS
    <3>2. high \in Seq([cap : Int, rate : Nat])
      BY <2>1
    <3> HIDE DEF high
    <3>3. \A i \in 1..(2 - 1) : i = 1
      OBVIOUS
    <3>4. \A i \in 1..(2 - 1) : \E c \in Nat \ {0} : high[i].cap = 30 * c
      BY <2>2, <3>1, <3>3
    <3>5. \A i, j \in 1..(2 - 1) : i < j => high[i].cap < high[j].cap
      BY <3>3
    <3> QED
      BY <3>1, <3>2, <3>4, <3>5 DEF Schedulable, Unbounded, DaysPerBillingMonth
  <2>6. Schedulable(plant)
    <3>1. Len(plant) = 1 /\ plant[1].cap = -1
      OBVIOUS
    <3>2. plant \in Seq([cap : Int, rate : Nat])
      BY <2>1
    <3> HIDE DEF plant
    <3> QED
      BY <3>1, <3>2 DEF Schedulable, Unbounded, DaysPerBillingMonth
  <2> QED
    BY <2>3, <2>4, <2>5, <2>6
<1>7. /\ \A i \in DOMAIN low : low[i].rate \in 1..RateLimit
      /\ \A i \in DOMAIN std : std[i].rate \in 1..RateLimit
      /\ \A i \in DOMAIN high : high[i].rate \in 1..RateLimit
      /\ \A i \in DOMAIN plant : plant[i].rate \in 1..RateLimit
  <2>0. RateLimit \in Nat /\ 5500 <= RateLimit
    BY DEF RateLimit
  <2>1. \A i \in DOMAIN low : low[i].rate \in 1..RateLimit
    <3>1. /\ DOMAIN low = 1..4 /\ low[1].rate = 800 /\ low[2].rate = 1000
          /\ low[3].rate = 1600 /\ low[4].rate = 5000
      OBVIOUS
    <3>2. \A i \in 1..4 : i = 1 \/ i = 2 \/ i = 3 \/ i = 4
      OBVIOUS
    <3> HIDE DEF low
    <3> QED
      BY <2>0, <3>1, <3>2
  <2>2. \A i \in DOMAIN std : std[i].rate \in 1..RateLimit
    <3>1. /\ DOMAIN std = 1..4 /\ std[1].rate = 1200 /\ std[2].rate = 2775
          /\ std[3].rate = 3200 /\ std[4].rate = 4500
      OBVIOUS
    <3>2. \A i \in 1..4 : i = 1 \/ i = 2 \/ i = 3 \/ i = 4
      OBVIOUS
    <3> HIDE DEF std
    <3> QED
      BY <2>0, <3>1, <3>2
  <2>3. \A i \in DOMAIN high : high[i].rate \in 1..RateLimit
    <3>1. DOMAIN high = 1..2 /\ high[1].rate = 3000 /\ high[2].rate = 5500
      OBVIOUS
    <3>2. \A i \in 1..2 : i = 1 \/ i = 2
      OBVIOUS
    <3> HIDE DEF high
    <3> QED
      BY <2>0, <3>1, <3>2
  <2>4. \A i \in DOMAIN plant : plant[i].rate \in 1..RateLimit
    <3>1. Len(plant) = 1 /\ plant[1].rate = 4500
      OBVIOUS
    <3> HIDE DEF plant
    <3>2. \A i \in DOMAIN plant : i = 1
      BY <1>2, <3>1
    <3> QED
      BY <2>0, <3>1, <3>2
  <2> QED
    BY <2>1, <2>2, <2>3, <2>4
<1> HIDE DEF low, std, high, plant, tiers
<1>8. ASSUME NEW t \in Tiers
      PROVE  /\ tiers[t].fixed \in 0..FixedLimit /\ Schedulable(tiers[t].blocks)
             /\ \A i \in DOMAIN tiers[t].blocks : tiers[t].blocks[i].rate \in 1..RateLimit
  <2>0. FixedLimit \in Nat /\ 150000 <= FixedLimit
    BY DEF FixedLimit
  <2>1. CASE t = "DOMESTIC_LOW"
    <3>1. tiers[t].blocks = low /\ tiers[t].fixed = 15000
      BY <1>1, <2>1
    <3> QED
      BY <1>6, <1>7, <2>0, <3>1
  <2>2. CASE t = "DOMESTIC_STD"
    <3>1. tiers[t].blocks = std /\ tiers[t].fixed = 30000
      BY <1>1, <2>2
    <3> QED
      BY <1>6, <1>7, <2>0, <3>1
  <2>3. CASE t = "DOMESTIC_HIGH"
    <3>1. tiers[t].blocks = high /\ tiers[t].fixed = 60000
      BY <1>1, <2>3
    <3> QED
      BY <1>6, <1>7, <2>0, <3>1
  <2>4. CASE t = "INDUSTRIAL"
    <3>1. tiers[t].blocks = plant /\ tiers[t].fixed = 150000
      BY <1>1, <2>4
    <3> QED
      BY <1>6, <1>7, <2>0, <3>1
  <2> QED
    BY <2>1, <2>2, <2>3, <2>4 DEF Tiers
<1> QED
  BY <1>5, <1>8 DEF tiers

\* What is to be known of such a schedule.
LEMMA LikeDefaultIs ==
  ASSUME NEW schedule, LikeDefault(schedule)
  PROVE  /\ DOMAIN schedule.tiers = Tiers /\ schedule \in Schedules
         /\ schedule.credit = CreditRate /\ schedule.subsidy = SubsidyRate
         /\ \A t \in Tiers :
              /\ schedule.tiers[t] \in AnyTier
              /\ schedule.tiers[t].fixed \in 0..FixedLimit
              /\ schedule.tiers[t].blocks \in Seq(AnyBlock)
              /\ Len(schedule.tiers[t].blocks) \in Nat \ {0}
              /\ DOMAIN schedule.tiers[t].blocks = 1..Len(schedule.tiers[t].blocks)
              /\ \A i \in 1..Len(schedule.tiers[t].blocks) :
                   /\ schedule.tiers[t].blocks[i] \in AnyBlock
                   /\ schedule.tiers[t].blocks[i].rate \in Int
              /\ (\A i \in 1..Len(schedule.tiers[t].blocks) :
                    schedule.tiers[t].blocks[i].rate >= 0)
                 => Schedulable(schedule.tiers[t].blocks)
<1>1. /\ schedule.tiers \in [Tiers -> AnyTier]
      /\ schedule.credit = CreditRate /\ schedule.subsidy = SubsidyRate
      /\ schedule \in Schedules
  <2>1. \A s \in Schedules : /\ s.tiers \in [Tiers -> AnyTier]
                             /\ s.credit = CreditRate /\ s.subsidy = SubsidyRate
    <3> HIDE DEF CreditRate, SubsidyRate, Tiers, AnyTier
    <3> QED
      BY DEF Schedules
  <2> QED
    BY <2>1 DEF LikeDefault
<1>2. ASSUME NEW t \in Tiers
      PROVE  /\ schedule.tiers[t] \in AnyTier
             /\ schedule.tiers[t].fixed \in 0..FixedLimit
             /\ schedule.tiers[t].blocks \in Seq(AnyBlock)
             /\ Len(schedule.tiers[t].blocks) \in Nat \ {0}
             /\ DOMAIN schedule.tiers[t].blocks = 1..Len(schedule.tiers[t].blocks)
             /\ \A i \in 1..Len(schedule.tiers[t].blocks) :
                  /\ schedule.tiers[t].blocks[i] \in AnyBlock
                  /\ schedule.tiers[t].blocks[i].rate \in Int
             /\ (\A i \in 1..Len(schedule.tiers[t].blocks) :
                   schedule.tiers[t].blocks[i].rate >= 0)
                => Schedulable(schedule.tiers[t].blocks)
  <2> DEFINE blocks == schedule.tiers[t].blocks
             mine   == DefaultSchedule.tiers[t].blocks
             n      == Len(blocks)
             R      == [cap : Int, rate : Nat]
  <2>1. /\ schedule.tiers[t] \in AnyTier
        /\ schedule.tiers[t].fixed = DefaultSchedule.tiers[t].fixed
        /\ Len(blocks) = Len(mine)
        /\ \A i \in 1..Len(mine) : blocks[i].cap = mine[i].cap
        /\ DefaultSchedule.tiers[t].fixed \in 0..FixedLimit /\ Schedulable(mine)
    BY <1>1, DefaultIs DEF LikeDefault, Alike
  <2>2. blocks \in Seq(AnyBlock)
    BY <2>1 DEF AnyTier
  <2>3. n \in Nat /\ n # 0 /\ n = Len(mine)
    BY <2>1, <2>2 DEF Schedulable
  <2>4. /\ DOMAIN blocks = 1..n
        /\ \A i \in 1..n : blocks[i] \in AnyBlock
    <3> HIDE DEF AnyBlock
    <3> QED
      BY <2>2
  <2>5. \A i \in 1..n : /\ blocks[i] = [cap |-> blocks[i].cap, rate |-> blocks[i].rate]
                        /\ blocks[i].cap \in Int /\ blocks[i].rate \in Int
    BY <2>4 DEF AnyBlock
  <2>6. ASSUME \A i \in 1..n : blocks[i].rate >= 0
        PROVE  Schedulable(blocks)
    <3>a. \A r \in AnyBlock : r.rate >= 0 => r \in R
      BY DEF AnyBlock
    <3>b. \A i \in 1..n : blocks[i] \in AnyBlock /\ blocks[i].rate >= 0
      BY <2>4, <2>6
    <3>c. blocks \in Seq(AnyBlock) /\ n = Len(blocks)
      BY <2>2
    <3> HIDE DEF R, AnyBlock, blocks, n
    <3>1. \A i \in 1..n : blocks[i] \in R
      BY <3>a, <3>b
    <3>2. blocks \in Seq(R)
      BY <3>1, <3>c
    <3> USE DEF blocks, n
    <3>3. /\ mine[n].cap = Unbounded
          /\ \A i \in 1..(n - 1) : \E c \in Nat \ {0} : mine[i].cap = DaysPerBillingMonth * c
          /\ \A i, j \in 1..(n - 1) : i < j => mine[i].cap < mine[j].cap
      BY <2>1, <2>3 DEF Schedulable
    <3>4. \A i \in 1..n : blocks[i].cap = mine[i].cap
      BY <2>1, <2>3
    <3> HIDE DEF blocks, mine
    <3>5. n \in 1..n /\ \A i \in 1..(n - 1) : i \in 1..n
      BY <2>3
    <3> HIDE DEF n
    <3>6. /\ blocks[n].cap = Unbounded
          /\ \A i \in 1..(n - 1) : \E c \in Nat \ {0} : blocks[i].cap = DaysPerBillingMonth * c
          /\ \A i, j \in 1..(n - 1) : i < j => blocks[i].cap < blocks[j].cap
      BY <3>3, <3>4, <3>5
    <3> QED
      BY <2>3, <3>2, <3>6 DEF Schedulable, R, n
  <2> QED
    BY <2>1, <2>2, <2>3, <2>4, <2>5, <2>6
<1>3. DOMAIN schedule.tiers = Tiers
  BY <1>1
<1> QED
  BY <1>1, <1>2, <1>3

\* Of a schedule with caps like these, problems finds rates that are not positive.
LEMMA SchedulableIsSound ==
  ASSUME NEW blocks, Schedulable(blocks)
  PROVE  BlocksAtFault(blocks) <=> \E i \in DOMAIN blocks : blocks[i].rate <= 0
<1> DEFINE n == Len(blocks)
<1>1. /\ n \in Nat /\ n # 0 /\ DOMAIN blocks = 1..n
      /\ \A i \in 1..n : blocks[i].cap \in Int /\ blocks[i].rate \in Nat
  BY ScheduledBlocks
<1>2. /\ blocks[n].cap = Unbounded
      /\ \A i \in 1..(n - 1) : \E c \in Nat \ {0} : blocks[i].cap = DaysPerBillingMonth * c
      /\ \A i, j \in 1..(n - 1) : i < j => blocks[i].cap < blocks[j].cap
  BY DEF Schedulable
<1>3. blocks # <<>>
  BY <1>1
<1> HIDE DEF n
<1>4. \A i \in 1..n : i # n => i \in 1..(n - 1) /\ blocks[i].cap > 0
  BY <1>1, <1>2 DEF DaysPerBillingMonth
<1>5. \A i \in 1..n : /\ ~(blocks[i].cap = Unbounded /\ i # n)
                      /\ ~(blocks[i].cap # Unbounded /\ i = n)
  BY <1>2, <1>4 DEF Unbounded
<1>6. ASSUME NEW i \in 1..n, i # n
      PROVE  ~(blocks[i].cap <= Max({0} \cup {blocks[j].cap : j \in 1..(i - 1)}))
  <2> DEFINE cap  == [j \in 1..(i - 1) |-> blocks[j].cap]
             caps == {0} \cup {blocks[j].cap : j \in 1..(i - 1)}
  <2>1. IsFiniteSet({cap[j] : j \in 1..(i - 1)})
    <3>1. IsFiniteSet(1..(i - 1)) /\ DOMAIN cap = 1..(i - 1)
      BY <1>1, FS_Interval
    <3> HIDE DEF cap
    <3> QED
      BY <3>1, ImageFinite
  <2>2. caps = {0} \cup {cap[j] : j \in 1..(i - 1)}
    OBVIOUS
  <2>3. IsFiniteSet(caps)
    <3> HIDE DEF caps
    <3> QED
      BY <2>1, <2>2, FS_Union, FS_Singleton
  <2>4. \A j \in 1..(i - 1) : j \in 1..(n - 1) /\ j < i /\ j \in 1..n /\ i \in 1..(n - 1)
    BY <1>1, <1>6
  <2>5. \A x \in caps : x \in Int /\ x < blocks[i].cap
    BY <1>1, <1>2, <1>4, <1>6, <2>4
  <2>6. 0 \in caps
    OBVIOUS
  <2> HIDE DEF caps
  <2>7. Max(caps) \in caps
    BY <2>3, <2>5, <2>6, MaxIsGreatest
  <2>8. Max(caps) < blocks[i].cap /\ Max(caps) \in Int /\ blocks[i].cap \in Int
    BY <1>1, <1>6, <2>5, <2>7
  <2>9. ~(blocks[i].cap <= Max(caps))
    BY <2>8
  <2> QED
    BY <2>9 DEF caps
<1>7. \A i \in 1..n : ~(blocks[i].cap # Unbounded /\ i # n
                        /\ blocks[i].cap <= Max({0} \cup {blocks[j].cap : j \in 1..(i - 1)}))
  BY <1>6
<1>8. BlocksAtFault(blocks) <=>
        \E i \in 1..n :
          \/ blocks[i].rate <= 0
          \/ blocks[i].cap = Unbounded /\ i # n
          \/ blocks[i].cap # Unbounded /\ i = n
          \/ /\ blocks[i].cap # Unbounded /\ i # n
             /\ blocks[i].cap <= Max({0} \cup {blocks[j].cap : j \in 1..(i - 1)})
  BY <1>1, <1>3, Zenon DEF BlocksAtFault, n
<1> QED
  BY <1>1, <1>5, <1>7, <1>8, Zenon

\* Of the things problems looks for, only a rate can be wrong.
LEMMA ProblemsIs ==
  ASSUME NEW schedule, LikeDefault(schedule)
  PROVE  Problems(schedule) <=> ~RatesArePositive(schedule)
<1>1. /\ DOMAIN schedule.tiers = Tiers
      /\ ~(schedule.credit < 0) /\ ~(schedule.subsidy \notin 0..(Percent - 1))
  BY LikeDefaultIs DEF CreditRate, SubsidyRate, Percent
<1>2. DOMAIN schedule.tiers # {}
  BY <1>1 DEF Tiers
<1>3. ASSUME NEW t \in Tiers
      PROVE  /\ ~(schedule.tiers[t].fixed < 0)
             /\ BlocksAtFault(schedule.tiers[t].blocks) <=>
                  ~ \A i \in DOMAIN schedule.tiers[t].blocks :
                      schedule.tiers[t].blocks[i].rate > 0
  <2> DEFINE blocks == schedule.tiers[t].blocks
             n == Len(blocks)
  <2>1. /\ schedule.tiers[t].fixed \in 0..FixedLimit
        /\ n \in Nat /\ n # 0 /\ DOMAIN blocks = 1..n
        /\ \A i \in 1..n : blocks[i].rate \in Int
        /\ (\A i \in 1..n : blocks[i].rate >= 0) => Schedulable(blocks)
    BY LikeDefaultIs
  <2>2. ~(schedule.tiers[t].fixed < 0)
    BY <2>1
  <2> HIDE DEF blocks, n
  <2>3. BlocksAtFault(blocks) <=> ~ \A i \in DOMAIN blocks : blocks[i].rate > 0
    <3>1. CASE \A i \in 1..n : blocks[i].rate >= 0
      <4>1. BlocksAtFault(blocks) <=> \E i \in DOMAIN blocks : blocks[i].rate <= 0
        BY <2>1, <3>1, SchedulableIsSound
      <4> QED
        BY <2>1, <4>1
    <3>2. CASE ~ \A i \in 1..n : blocks[i].rate >= 0
      <4>1. PICK i \in 1..n : ~(blocks[i].rate >= 0)
        BY <3>2
      <4>2. blocks[i].rate <= 0 /\ ~(blocks[i].rate > 0) /\ i \in DOMAIN blocks
        BY <2>1, <4>1
      <4> QED
        BY <4>2 DEF BlocksAtFault
    <3> QED
      BY <3>1, <3>2
  <2> QED
    BY <2>2, <2>3 DEF blocks
<1> QED
  BY <1>1, <1>2, <1>3 DEF Problems, RatesArePositive

\* A revision keeps the caps and rounds the rates of the tiers it chose.
LEMMA RevisionIs ==
  ASSUME NEW schedule, LikeDefault(schedule), NEW percent \in Int, NEW chosen
  PROVE  /\ LikeDefault(WithRateChange(schedule, percent, chosen))
         /\ \A t \in Tiers :
              /\ Alike(WithRateChange(schedule, percent, chosen).tiers[t], schedule.tiers[t])
              /\ \A i \in 1..Len(schedule.tiers[t].blocks) :
                   WithRateChange(schedule, percent, chosen).tiers[t].blocks[i].rate
                     = IF t \in chosen
                       THEN Rounded(schedule.tiers[t].blocks[i].rate * percent, Percent)
                       ELSE schedule.tiers[t].blocks[i].rate
<1> DEFINE new(tier) == [tier EXCEPT !.blocks = [i \in DOMAIN @ |-> Reprice(@[i], percent)]]
           tiers == [t \in Tiers |-> IF t \in chosen THEN new(schedule.tiers[t])
                                                     ELSE schedule.tiers[t]]
           revised == WithRateChange(schedule, percent, chosen)
<1>1. \A r \in Int : Rounded(r * percent, Percent) \in Int
  <2>1. \A r \in Int : r * percent \in Int
    OBVIOUS
  <2>2. \A a \in Int : (2 * a + 100) \div (2 * 100) \in Int
    OBVIOUS
  <2> QED
    BY <2>1, <2>2 DEF Rounded, Percent
<1>2. ASSUME NEW tier \in AnyTier
      PROVE  /\ new(tier) \in AnyTier /\ Alike(new(tier), tier)
             /\ \A i \in 1..Len(tier.blocks) :
                  new(tier).blocks[i].rate = Rounded(tier.blocks[i].rate * percent, Percent)
  <2> DEFINE blocks == tier.blocks
             n == Len(blocks)
             scaled == [i \in DOMAIN blocks |-> Reprice(blocks[i], percent)]
  <2>1. blocks \in Seq(AnyBlock) /\ tier.fixed \in Int
        /\ tier = [blocks |-> blocks, fixed |-> tier.fixed]
    BY DEF AnyTier
  <2>2. new(tier) = [blocks |-> scaled, fixed |-> tier.fixed]
    BY <2>1
  <2>3. \A b \in AnyBlock : /\ Reprice(b, percent) \in AnyBlock
                            /\ Reprice(b, percent).cap = b.cap
                            /\ Reprice(b, percent).rate = Rounded(b.rate * percent, Percent)
    <3>1. \A b \in AnyBlock : b.rate \in Int
      BY DEF AnyBlock
    <3>2. \A b \in AnyBlock : Rounded(b.rate * percent, Percent) \in Int
      BY <1>1, <3>1
    <3> QED
      BY <3>2 DEF AnyBlock, Reprice
  <2>4. /\ scaled \in Seq(AnyBlock) /\ Len(scaled) = n
        /\ \A i \in 1..n : scaled[i] = Reprice(blocks[i], percent) /\ blocks[i] \in AnyBlock
    <3>1. n \in Nat /\ DOMAIN blocks = 1..n /\ \A i \in 1..n : blocks[i] \in AnyBlock
      BY <2>1
    <3>2. \A i \in 1..n : scaled[i] = Reprice(blocks[i], percent)
      BY <3>1
    <3>3. scaled \in [1..n -> AnyBlock]
      BY <2>3, <3>1
    <3> HIDE DEF scaled, n
    <3> QED
      BY <3>1, <3>2, <3>3
  <2> HIDE DEF scaled
  <2>5. new(tier) \in AnyTier
    BY <2>1, <2>2, <2>4 DEF AnyTier
  <2>6. new(tier).blocks = scaled /\ new(tier).fixed = tier.fixed
    BY <2>2
  <2> HIDE DEF new
  <2> QED
    BY <2>3, <2>4, <2>5, <2>6 DEF Alike
<1>3. /\ schedule \in Schedules /\ DOMAIN schedule.tiers = Tiers
      /\ schedule.credit = CreditRate /\ schedule.subsidy = SubsidyRate
      /\ \A t \in Tiers : schedule.tiers[t] \in AnyTier
  BY LikeDefaultIs
<1>4. revised = [schedule EXCEPT !.tiers = tiers]
  BY <1>3 DEF WithRateChange
<1>5. /\ \A t \in Tiers : tiers[t] \in AnyTier /\ Alike(tiers[t], schedule.tiers[t])
      /\ \A t \in Tiers : \A i \in 1..Len(schedule.tiers[t].blocks) :
           tiers[t].blocks[i].rate = IF t \in chosen
             THEN Rounded(schedule.tiers[t].blocks[i].rate * percent, Percent)
             ELSE schedule.tiers[t].blocks[i].rate
  <2> SUFFICES ASSUME NEW t \in Tiers
               PROVE  /\ tiers[t] \in AnyTier /\ Alike(tiers[t], schedule.tiers[t])
                      /\ \A i \in 1..Len(schedule.tiers[t].blocks) :
                           tiers[t].blocks[i].rate = IF t \in chosen
                             THEN Rounded(schedule.tiers[t].blocks[i].rate * percent, Percent)
                             ELSE schedule.tiers[t].blocks[i].rate
    OBVIOUS
  <2>1. tiers[t] = IF t \in chosen THEN new(schedule.tiers[t]) ELSE schedule.tiers[t]
    OBVIOUS
  <2> HIDE DEF tiers, new
  <2>2. CASE t \in chosen
    BY <1>2, <1>3, <2>1, <2>2
  <2>3. CASE t \notin chosen
    BY <1>3, <2>1, <2>3 DEF Alike
  <2> QED
    BY <2>2, <2>3
<1>6. tiers \in [Tiers -> AnyTier]
  <2>1. tiers = [t \in Tiers |-> tiers[t]]
    OBVIOUS
  <2> HIDE DEF tiers
  <2> QED
    BY <1>5, <2>1
<1> HIDE DEF tiers, new, revised
<1>7. revised \in Schedules /\ revised.tiers = tiers
  BY <1>3, <1>4, <1>6 DEF Schedules
<1>8. \A t \in Tiers : Alike(revised.tiers[t], DefaultSchedule.tiers[t])
  BY <1>5, <1>7 DEF LikeDefault, Alike
<1>9. LikeDefault(revised)
  BY <1>7, <1>8 DEF LikeDefault
<1>10. /\ \A t \in Tiers : Alike(revised.tiers[t], schedule.tiers[t])
       /\ \A t \in Tiers : \A i \in 1..Len(schedule.tiers[t].blocks) :
            revised.tiers[t].blocks[i].rate = IF t \in chosen
              THEN Rounded(schedule.tiers[t].blocks[i].rate * percent, Percent)
              ELSE schedule.tiers[t].blocks[i].rate
  BY <1>5, <1>7
<1> QED
  BY <1>9, <1>10 DEF revised

\* It is dearer than what it was made from or cheaper, as the percentage says.
LEMMA RevisionGoesItsWay ==
  ASSUME NEW schedule, LikeDefault(schedule), RatesArePositive(schedule),
         NEW percent \in Int, NEW chosen, NEW t \in Tiers
  PROVE  LET before == schedule.tiers[t].blocks
             after  == WithRateChange(schedule, percent, chosen).tiers[t].blocks
         IN /\ percent >= Percent => Dearer(before, after)
            /\ percent <= Percent => Dearer(after, before)
<1> DEFINE before == schedule.tiers[t].blocks
           after  == WithRateChange(schedule, percent, chosen).tiers[t].blocks
           n == Len(before)
<1>1. /\ Len(after) = n
      /\ \A i \in 1..n : after[i].cap = before[i].cap
      /\ \A i \in 1..n : after[i].rate = IF t \in chosen
                           THEN Rounded(before[i].rate * percent, Percent)
                           ELSE before[i].rate
  BY RevisionIs DEF Alike
<1>2. \A i \in 1..n : before[i].rate \in Int /\ before[i].rate > 0
  BY LikeDefaultIs DEF RatesArePositive
<1>3. \A r \in Int : r > 0 =>
        /\ percent >= 100 => r <= Rounded(r * percent, Percent)
        /\ percent <= 100 => Rounded(r * percent, Percent) <= r
  <2> SUFFICES ASSUME NEW r \in Int, r > 0
               PROVE  /\ percent >= 100 => r <= Rounded(r * percent, Percent)
                      /\ percent <= 100 => Rounded(r * percent, Percent) <= r
    OBVIOUS
  <2> DEFINE a == r * percent
  <2>1. /\ a \in Int /\ percent >= 100 => r * 100 <= a
        /\ percent <= 100 => a <= r * 100
    OBVIOUS
  <2> HIDE DEF a
  <2>2. \A b \in Int : /\ r * 100 <= b => r <= (2 * b + 100) \div 200
                       /\ b <= r * 100 => (2 * b + 100) \div 200 <= r
    OBVIOUS
  <2>3. Rounded(a, Percent) = (2 * a + 100) \div 200
    BY DEF Rounded, Percent
  <2> QED
    BY <2>1, <2>2, <2>3 DEF a
<1> HIDE DEF before, after, n
<1>4. percent >= 100 => Dearer(before, after)
  <2> SUFFICES ASSUME percent >= 100 PROVE Dearer(before, after)
    OBVIOUS
  <2>1. ASSUME NEW i \in 1..n PROVE before[i].rate <= after[i].rate
    <3>1. /\ before[i].rate <= before[i].rate
          /\ before[i].rate <= Rounded(before[i].rate * percent, Percent)
      BY <1>2, <1>3
    <3>2. CASE t \in chosen
      BY <1>1, <3>1, <3>2, Zenon
    <3>3. CASE t \notin chosen
      BY <1>1, <3>1, <3>3, Zenon
    <3> QED
      BY <3>2, <3>3
  <2> QED
    BY <1>1, <2>1 DEF Dearer, n
<1>5. percent <= 100 => Dearer(after, before)
  <2> SUFFICES ASSUME percent <= 100 PROVE Dearer(after, before)
    OBVIOUS
  <2>1. ASSUME NEW i \in 1..n PROVE after[i].rate <= before[i].rate
    <3>1. /\ before[i].rate <= before[i].rate
          /\ Rounded(before[i].rate * percent, Percent) <= before[i].rate
      BY <1>2, <1>3
    <3>2. CASE t \in chosen
      BY <1>1, <3>1, <3>2, Zenon
    <3>3. CASE t \notin chosen
      BY <1>1, <3>1, <3>3, Zenon
    <3> QED
      BY <3>2, <3>3
  <2> QED
    BY <1>1, <2>1 DEF Dearer, n
<1> QED
  BY <1>4, <1>5 DEF Percent, before, after

-----------------------------------------------------------------------------
(* What is rendered.                                                       *)

Records == [json : BOOLEAN, id : Households, tier : Tiers, rate : Int,
            subsidised : BOOLEAN, fixed : Int, date : {Day}]

Describes(r, h, schedule) ==
  /\ r \in Records
  /\ r.json = TRUE /\ r.id = h /\ r.tier = TierOf[h] /\ r.tier \in Tiers /\ r.date = Day
  /\ r.rate = HeadlineRate(schedule, r.tier) /\ r.fixed = schedule.tiers[r.tier].fixed
  /\ r.rate \in Int /\ r.fixed \in Int /\ r.fixed \in 0..FixedLimit
  /\ r.subsidised = (h \in Subsidised) /\ r.subsidised \in BOOLEAN

\* The record rendered for a household.
LEMMA RecordIs ==
  ASSUME NEW schedule, LikeDefault(schedule), NEW h \in Households
  PROVE  Describes(TariffRecord(h, Day, schedule), h, schedule)
<1> DEFINE tier == TierOf[h]
           rate == HeadlineRate(schedule, tier)
           fixed == schedule.tiers[tier].fixed
           mine == h \in Subsidised
<1>1. tier \in Tiers
  <2>1. DOMAIN DefaultSchedule.tiers = Tiers
    BY DEF DefaultSchedule, Tiers
  <2> QED
    BY <2>1, FleetAssumption
<1> HIDE DEF tier
<1>2. rate \in Int /\ fixed \in 0..FixedLimit
  <2>1. 1 \in 1..Len(schedule.tiers[tier].blocks)
    BY <1>1, LikeDefaultIs
  <2> QED
    BY <1>1, <2>1, LikeDefaultIs DEF HeadlineRate
<1>3. mine \in BOOLEAN
  OBVIOUS
<1>4. TariffRecord(h, Day, schedule) =
        [json |-> TRUE, id |-> h, tier |-> tier, rate |-> rate, subsidised |-> mine,
         fixed |-> fixed, date |-> Day]
  BY DEF TariffRecord, tier
<1>5. rate = HeadlineRate(schedule, tier) /\ fixed = schedule.tiers[tier].fixed
      /\ tier = TierOf[h] /\ mine = (h \in Subsidised)
  BY DEF tier
<1>6. fixed \in Int
  BY <1>2
<1> HIDE DEF rate, fixed, mine, tier
<1>7. TariffRecord(h, Day, schedule) \in Records
  BY <1>1, <1>2, <1>3, <1>4, <1>6 DEF Records
<1> QED
  BY <1>1, <1>2, <1>3, <1>4, <1>5, <1>6, <1>7 DEF Describes

\* A household's record is accepted when its rate is.
LEMMA RecordIsOk ==
  ASSUME NEW schedule, LikeDefault(schedule), NEW h \in Households
  PROVE  RecordOk(TariffRecord(h, Day, schedule))
           <=> HeadlineRate(schedule, TierOf[h]) \in 0..RateLimit
<1> DEFINE r == TariffRecord(h, Day, schedule)
<1>1. /\ r.json = TRUE /\ r.rate \in Int /\ r.fixed \in Int /\ r.fixed \in 0..FixedLimit
      /\ r.rate = HeadlineRate(schedule, TierOf[h])
  <2>1. Describes(r, h, schedule)
    BY RecordIs
  <2> HIDE DEF r
  <2> QED
    BY <2>1 DEF Describes
<1> HIDE DEF r
<1>a. r.json \in BOOLEAN
  BY <1>1
<1>2. RecordOk(r) <=> Bounds(r)
  BY <1>1, <1>a, RecordOkIs
<1> QED
  BY <1>1, <1>2 DEF Bounds, r

\* One line for each household.
Lists(s, schedule) ==
  /\ s \in Seq(Records) /\ Len(s) # 0
  /\ \A i \in 1..Len(s) : s[i] = TariffRecord(s[i].id, Day, schedule)
  /\ \A h \in Households : \E i \in 1..Len(s) : s[i].id = h
  /\ \A i, j \in 1..Len(s) : s[i].id = s[j].id => i = j

\* The rendered file lists the fleet, whatever order SetToSeq picks.
LEMMA HouseholdsAreListed ==
  ASSUME NEW schedule, LikeDefault(schedule)
  PROVE  Lists(HouseholdTariffs(Day, schedule), schedule)
<1> DEFINE rec == [h \in Households |-> TariffRecord(h, Day, schedule)]
           all == {TariffRecord(h, Day, schedule) : h \in Households}
           s == SetToSeq(all)
<1>1. \A h \in Households : rec[h] \in Records /\ rec[h].id = h
                            /\ rec[h] = TariffRecord(h, Day, schedule)
  <2> TAKE h \in Households
  <2>1. Describes(TariffRecord(h, Day, schedule), h, schedule)
    BY RecordIs
  <2>2. rec[h] = TariffRecord(h, Day, schedule)
    OBVIOUS
  <2> HIDE DEF rec
  <2> QED
    BY <2>1, <2>2 DEF Describes
<1>2. IsFiniteSet(all)
  <2>1. IsFiniteSet({rec[h] : h \in Households})
    <3>1. DOMAIN rec = Households
      OBVIOUS
    <3> HIDE DEF rec
    <3> QED
      BY <3>1, ImageFinite, FleetAssumption
  <2>2. all = {rec[h] : h \in Households}
    OBVIOUS
  <2> HIDE DEF all, rec
  <2> QED
    BY <2>1, <2>2
<1>3. /\ all \subseteq Records
      /\ \A r \in all : r.id \in Households /\ r = TariffRecord(r.id, Day, schedule)
  BY <1>1
<1>4. \A h \in Households : TariffRecord(h, Day, schedule) \in all
  OBVIOUS
<1> HIDE DEF all, rec
<1>5. /\ s \in Seq(all) /\ Len(s) = Cardinality(all) /\ Cardinality(all) \in Nat
      /\ \A x \in all : \E i \in 1..Cardinality(all) : s[i] = x
      /\ \A i, j \in 1..Cardinality(all) : s[i] = s[j] => i = j
  BY <1>2, SetToSeqIs
<1> HIDE DEF s
<1>6. \A i \in 1..Len(s) : s[i] \in all
  BY <1>5
<1>7. s \in Seq(Records)
  BY <1>3, <1>5
<1>8. \A i \in 1..Len(s) : s[i] = TariffRecord(s[i].id, Day, schedule)
  BY <1>3, <1>6
<1>9. \A h \in Households : \E i \in 1..Len(s) : s[i].id = h
  <2> TAKE h \in Households
  <2>1. PICK i \in 1..Len(s) : s[i] = TariffRecord(h, Day, schedule)
    BY <1>4, <1>5
  <2>2. s[i].id = h
    BY <2>1, <1>1
  <2> QED
    BY <2>2
<1>10. \A i, j \in 1..Len(s) : s[i].id = s[j].id => i = j
  <2> SUFFICES ASSUME NEW i \in 1..Len(s), NEW j \in 1..Len(s), s[i].id = s[j].id
               PROVE  i = j
    OBVIOUS
  <2>1. s[i] = s[j]
    <3>1. s[i] = TariffRecord(s[i].id, Day, schedule)
      BY <1>8
    <3>2. s[j] = TariffRecord(s[j].id, Day, schedule)
      BY <1>8
    <3> QED
      BY <3>1, <3>2
  <2> QED
    BY <1>5, <2>1
<1>11. Len(s) # 0
  <2>1. PICK h \in Households : TRUE
    BY FleetAssumption
  <2> QED
    BY <1>5, <1>9, <2>1
<1>12. Lists(s, schedule)
  BY <1>7, <1>8, <1>9, <1>10, <1>11 DEF Lists
<1> QED
  BY <1>12 DEF HouseholdTariffs, s, all

\* The forecast has every zone for the day.
LEMMA WeatherIsRight ==
  ASSUME NEW schedule
  PROVE  WeatherFindings(RenderDrop(Day, schedule).weather, Day) = {}
<1> DEFINE rec == [z \in Zones |-> [zone |-> z, date |-> Day]]
           all == {[zone |-> z, date |-> Day] : z \in Zones}
           w == SetToSeq(all)
<1>1. IsFiniteSet(all)
  <2>1. IsFiniteSet({rec[z] : z \in Zones})
    <3>1. DOMAIN rec = Zones
      OBVIOUS
    <3> HIDE DEF rec
    <3> QED
      BY <3>1, ImageFinite, FleetAssumption
  <2>2. all = {rec[z] : z \in Zones}
    OBVIOUS
  <2> HIDE DEF all, rec
  <2> QED
    BY <2>1, <2>2
<1>2. /\ \A r \in all : r.date = Day
      /\ \A z \in Zones : \E r \in all : r.zone = z
  <2>1. \A z \in Zones : /\ [zone |-> z, date |-> Day] \in all
                         /\ [zone |-> z, date |-> Day].zone = z
    OBVIOUS
  <2>2. \A r \in all : r.date = Day
    OBVIOUS
  <2> HIDE DEF all
  <2> QED
    BY <2>1, <2>2, Zenon
<1> HIDE DEF all
<1>3. /\ w \in Seq(all) /\ Len(w) = Cardinality(all)
      /\ \A x \in all : \E i \in 1..Cardinality(all) : w[i] = x
  BY <1>1, SetToSeqIs
<1> HIDE DEF w
<1>4. DOMAIN w = 1..Len(w) /\ \A i \in 1..Len(w) : w[i] \in all
  BY <1>3
<1>5. \A i \in DOMAIN w : w[i].date = Day
  BY <1>2, <1>4
<1>6. Zones \subseteq {w[i].zone : i \in DOMAIN w}
  BY <1>2, <1>3, <1>4
<1>7. WeatherFindings(w, Day) = {}
  BY <1>5, <1>6 DEF WeatherFindings, FindIf
<1>8. RenderDrop(Day, schedule).weather = w
  BY DEF RenderDrop, w, all
<1> QED
  BY <1>7, <1>8

-----------------------------------------------------------------------------
(* The gate.                                                               *)

Upload(described, files) == [manifest |-> BuildManifest(Day, described), files |-> files]

\* A drop that its manifest describes is judged by its contents.
Findings(files) ==
  FindIf(Problems(files.schedule), "schedule_invalid") \cup
  HouseholdFindings(files.households, files.schedule, Day) \cup
  WeatherFindings(files.weather, Day)

\* Where the files are those of the manifest, only their contents count.
LEMMA GateIs ==
  ASSUME NEW files
  PROVE  CheckDrop(Upload(files, files), Day) = Findings(files)
<1> DEFINE drop == Upload(files, files)
<1>1. /\ drop.files = files /\ drop.manifest.date = Day
      /\ \A f \in DataFiles :
           /\ drop.manifest.files[f].sum = files[f]
           /\ drop.manifest.files[f].records = CountRecords(f, files[f])
  BY DEF Upload, BuildManifest
<1> HIDE DEF drop
<1>2. Integrity(drop, Day) = {}
  BY <1>1, Zenon DEF Integrity, FindIf
<1>3. CheckDrop(drop, Day) = FindIf(Problems(drop.files.schedule), "schedule_invalid") \cup
       HouseholdFindings(drop.files.households, drop.files.schedule, Day) \cup
       WeatherFindings(drop.files.weather, Day)
  BY <1>2, Zenon DEF CheckDrop
<1> QED
  BY <1>1, <1>3 DEF drop, Findings

\* What the records that pass say.
Good(records) == {i \in DOMAIN records : RecordOk(records[i])}

\* When each check of the household file finds something.
LEMMA HouseholdFindingsAre ==
  ASSUME NEW records, NEW schedule
  PROVE  LET found == HouseholdFindings(records, schedule, Day)
             good  == Good(records)
         IN /\ "record_invalid" \in found <=> \E i \in DOMAIN records : ~RecordOk(records[i])
            /\ "unknown_tier" \in found
                 <=> \E i \in good : records[i].tier \notin DOMAIN schedule.tiers
            /\ "household_missing" \in found
                 <=> \E h \in Households : \A i \in good : records[i].id # h
            /\ (\E i \in good : Cardinality({j \in good : records[j].id = records[i].id}) > 1)
                 => "household_duplicated" \in found
<1> DEFINE good == Good(records)
           listed == CountedIds(records)
           known == {i \in good : records[i].tier \in DOMAIN schedule.tiers}
           found == HouseholdFindings(records, schedule, Day)
<1>1. listed = [h \in {records[i].id : i \in good} |->
                  Cardinality({i \in good : records[i].id = h})]
  BY DEF CountedIds, Good
<1>2. found =
        FindIf(good # DOMAIN records, "record_invalid") \cup
        FindIf(\E i \in good : records[i].date # Day, "wrong_date") \cup
        FindIf(known # good, "unknown_tier") \cup
        FindIf(\E i \in known : records[i].rate # HeadlineRate(schedule, records[i].tier),
               "headline_rate_mismatch") \cup
        FindIf(Households \ DOMAIN listed # {}, "household_missing") \cup
        FindIf(\E h \in DOMAIN listed : listed[h] > 1, "household_duplicated") \cup
        FindIf(DOMAIN listed \ Households # {}, "unknown_household")
  BY Zenon DEF HouseholdFindings, Good
<1>3. good = {i \in DOMAIN records : RecordOk(records[i])}
  BY DEF Good
<1>4. /\ DOMAIN listed = {records[i].id : i \in good}
      /\ \A i \in good : /\ records[i].id \in DOMAIN listed
                         /\ listed[records[i].id]
                              = Cardinality({j \in good : records[j].id = records[i].id})
  BY <1>1
<1> HIDE DEF good, listed, found
<1>5. /\ "record_invalid" \in found <=> good # DOMAIN records
      /\ "unknown_tier" \in found <=> known # good
      /\ "household_missing" \in found <=> Households \ DOMAIN listed # {}
      /\ "household_duplicated" \in found <=> \E h \in DOMAIN listed : listed[h] > 1
  BY <1>2 DEF FindIf
<1>6. good # DOMAIN records <=> \E i \in DOMAIN records : ~RecordOk(records[i])
  BY <1>3
<1>7. known # good <=> \E i \in good : records[i].tier \notin DOMAIN schedule.tiers
  OBVIOUS
<1>8. Households \ DOMAIN listed # {}
        <=> \E h \in Households : \A i \in good : records[i].id # h
  BY <1>4
<1>9. (\E i \in good : Cardinality({j \in good : records[j].id = records[i].id}) > 1)
        => \E h \in DOMAIN listed : listed[h] > 1
  BY <1>4
<1> QED
  BY <1>5, <1>6, <1>7, <1>8, <1>9 DEF good, found

\* Records that are what they should be are found nothing wrong with.
LEMMA NothingToFind ==
  ASSUME NEW records, NEW schedule, \A i \in DOMAIN records : RecordOk(records[i]),
         \A i \in DOMAIN records :
           /\ records[i].date = Day /\ records[i].tier \in DOMAIN schedule.tiers
           /\ records[i].rate = HeadlineRate(schedule, records[i].tier)
           /\ records[i].id \in Households
           /\ Cardinality({j \in DOMAIN records : records[j].id = records[i].id}) = 1,
         \A h \in Households : \E i \in DOMAIN records : records[i].id = h
  PROVE  HouseholdFindings(records, schedule, Day) = {}
<1> DEFINE good == DOMAIN records
           listed == CountedIds(records)
           known == {i \in good : records[i].tier \in DOMAIN schedule.tiers}
<1>0. {i \in DOMAIN records : RecordOk(records[i])} = good
  OBVIOUS
<1>1. listed = [h \in {records[i].id : i \in good} |->
                  Cardinality({i \in good : records[i].id = h})]
  BY <1>0, Zenon DEF CountedIds
<1>2. HouseholdFindings(records, schedule, Day) =
        FindIf(good # DOMAIN records, "record_invalid") \cup
        FindIf(\E i \in good : records[i].date # Day, "wrong_date") \cup
        FindIf(known # good, "unknown_tier") \cup
        FindIf(\E i \in known : records[i].rate # HeadlineRate(schedule, records[i].tier),
               "headline_rate_mismatch") \cup
        FindIf(Households \ DOMAIN listed # {}, "household_missing") \cup
        FindIf(\E h \in DOMAIN listed : listed[h] > 1, "household_duplicated") \cup
        FindIf(DOMAIN listed \ Households # {}, "unknown_household")
  BY <1>0, Zenon DEF HouseholdFindings
<1>3. DOMAIN listed = Households
  BY <1>1
<1>4. \A h \in DOMAIN listed : ~(listed[h] > 1)
  <2> TAKE h \in DOMAIN listed
  <2>1. PICK i \in good : records[i].id = h
    BY <1>3
  <2>2. listed[h] = Cardinality({j \in good : records[j].id = h})
    BY <1>1, <2>1
  <2>3. listed[h] = 1
    BY <2>1, <2>2
  <2> QED
    BY <2>3
<1>5. known = good
  OBVIOUS
<1>6. \A b, c : ~b => FindIf(b, c) = {}
  BY DEF FindIf
<1>7. /\ ~(good # DOMAIN records) /\ ~(\E i \in good : records[i].date # Day)
      /\ ~(known # good) /\ ~(Households \ DOMAIN listed # {})
      /\ ~(\E i \in known : records[i].rate # HeadlineRate(schedule, records[i].tier))
      /\ ~(\E h \in DOMAIN listed : listed[h] > 1) /\ ~(DOMAIN listed \ Households # {})
  BY <1>3, <1>4, <1>5
<1> HIDE DEF good, listed, known
<1> QED
  BY <1>2, <1>7 DEF FindIf

\* The default schedule is what revisions start from.
LEMMA DefaultIsLikeItself == LikeDefault(DefaultSchedule) /\ RatesArePositive(DefaultSchedule)
<1>1. LikeDefault(DefaultSchedule)
  BY DefaultIs DEF LikeDefault, Alike
<1>2. DOMAIN DefaultSchedule.tiers = Tiers
  BY <1>1, LikeDefaultIs
<1>3. \A r \in 1..RateLimit : r > 0
  OBVIOUS
<1>4. RatesArePositive(DefaultSchedule)
  BY <1>2, <1>3, DefaultIs DEF RatesArePositive
<1> QED
  BY <1>1, <1>4

\* The lines of a listing.
LEMMA ListIs ==
  ASSUME NEW schedule, LikeDefault(schedule), NEW s, Lists(s, schedule), NEW i \in 1..Len(s)
  PROVE  /\ s \in Seq(Records) /\ Len(s) \in Nat \ {0} /\ DOMAIN s = 1..Len(s)
         /\ s[i] \in Records /\ s[i].id \in Households
         /\ Describes(s[i], s[i].id, schedule)
         /\ RecordOk(s[i]) <=> RecordOk(TariffRecord(s[i].id, Day, schedule))
         /\ Cardinality({j \in DOMAIN s : s[j].id = s[i].id}) = 1
<1>1. s \in Seq(Records) /\ Len(s) \in Nat \ {0} /\ DOMAIN s = 1..Len(s)
  BY DEF Lists
<1>2. s[i] \in Records
  BY <1>1
<1>3. s[i].id \in Households
  BY <1>2 DEF Records
<1>4. s[i] = TariffRecord(s[i].id, Day, schedule)
  BY DEF Lists
<1>5. Describes(s[i], s[i].id, schedule)
  <2>1. Describes(TariffRecord(s[i].id, Day, schedule), s[i].id, schedule)
    BY <1>3, RecordIs
  <2> QED
    BY <1>4, <2>1
<1>6. RecordOk(s[i]) <=> RecordOk(TariffRecord(s[i].id, Day, schedule))
  BY <1>4
<1>7. {j \in DOMAIN s : s[j].id = s[i].id} = {i}
  BY <1>1 DEF Lists
<1>8. Cardinality({j \in DOMAIN s : s[j].id = s[i].id}) = 1
  BY <1>7, FS_Singleton
<1> QED
  BY <1>1, <1>2, <1>3, <1>5, <1>6, <1>8

\* Of the default schedule every record is accepted.
LEMMA DefaultRecords ==
  ASSUME NEW s, Lists(s, DefaultSchedule), NEW i \in 1..Len(s)
  PROVE  RecordOk(s[i]) /\ s[i].rate > 0
<1>1. /\ s[i].id \in Households /\ Describes(s[i], s[i].id, DefaultSchedule)
      /\ RecordOk(s[i]) <=> RecordOk(TariffRecord(s[i].id, Day, DefaultSchedule))
  BY DefaultIsLikeItself, ListIs
<1> DEFINE h == s[i].id
           rate == HeadlineRate(DefaultSchedule, TierOf[h])
<1>2. TierOf[h] \in Tiers /\ s[i].rate = rate
  BY <1>1 DEF Describes
<1>3. rate \in 1..RateLimit
  <2>1. 1 \in DOMAIN DefaultSchedule.tiers[TierOf[h]].blocks
    BY <1>2, DefaultIsLikeItself, LikeDefaultIs
  <2> QED
    BY <1>2, <2>1, DefaultIs DEF HeadlineRate
<1> HIDE DEF rate, h
<1>4. rate \in 0..RateLimit /\ rate > 0
  BY <1>3
<1>5. h \in Households
  BY <1>1 DEF h
<1>6. RecordOk(TariffRecord(h, Day, DefaultSchedule))
  <2>1. RecordOk(TariffRecord(h, Day, DefaultSchedule))
          <=> HeadlineRate(DefaultSchedule, TierOf[h]) \in 0..RateLimit
    BY <1>5, DefaultIsLikeItself, RecordIsOk
  <2> QED
    BY <1>4, <2>1 DEF rate
<1> QED
  BY <1>1, <1>2, <1>4, <1>6 DEF h

\* A set with two elements has more than one.
LEMMA CountsTwo ==
  ASSUME NEW S, IsFiniteSet(S), NEW a \in S, NEW b \in S, a # b
  PROVE  Cardinality(S) > 1
<1>1. Cardinality(S \ {a}) = Cardinality(S) - 1 /\ IsFiniteSet(S \ {a})
  BY FS_RemoveElement
<1>2. Cardinality(S) \in Nat /\ Cardinality(S \ {a}) \in Nat /\ Cardinality(S \ {a}) # 0
  BY <1>1, FS_CardinalityType, FS_EmptySet
<1> QED
  BY <1>1, <1>2

-----------------------------------------------------------------------------
(* Each damage is found.                                                   *)

\* A negative rate anywhere in the schedule is found.
LEMMA NegativeRateIsFound ==
  ASSUME NEW schedule \in NegativeRates(DefaultSchedule)
  PROVE  Problems(schedule)
<1>a. PICK t \in Tiers : \E i \in DOMAIN DefaultSchedule.tiers[t].blocks :
        schedule = [DefaultSchedule EXCEPT !.tiers[t].blocks[i].rate = -@]
  BY DefaultIsLikeItself, LikeDefaultIs DEF NegativeRates
<1>1. PICK i \in DOMAIN DefaultSchedule.tiers[t].blocks :
        schedule = [DefaultSchedule EXCEPT !.tiers[t].blocks[i].rate = -@]
  BY <1>a
<1> DEFINE tiers == DefaultSchedule.tiers
           blocks == tiers[t].blocks
           block == blocks[i]
           worse == [block EXCEPT !.rate = -@]
<1>2. /\ DefaultSchedule = [tiers |-> tiers, credit |-> CreditRate, subsidy |-> SubsidyRate]
      /\ tiers \in [Tiers -> AnyTier] /\ tiers[t] \in AnyTier /\ block \in AnyBlock
      /\ block.rate \in Int /\ block.rate > 0
  <2>1. tiers[t] \in AnyTier /\ block \in AnyBlock /\ block.rate \in Int /\ block.rate > 0
        /\ DOMAIN tiers = Tiers /\ \A u \in Tiers : tiers[u] \in AnyTier
    BY DefaultIsLikeItself, LikeDefaultIs DEF RatesArePositive
  <2>2. tiers = [u \in Tiers |-> tiers[u]]
    BY DEF DefaultSchedule, Tiers
  <2> HIDE DEF tiers
  <2>3. tiers \in [Tiers -> AnyTier]
    BY <2>1, <2>2
  <2>4. DefaultSchedule = [tiers |-> tiers, credit |-> CreditRate, subsidy |-> SubsidyRate]
    BY DEF DefaultSchedule, CreditRate, SubsidyRate, tiers
  <2> QED
    BY <2>1, <2>3, <2>4
<1>3. worse.rate = -block.rate
  BY <1>2 DEF AnyBlock
<1>4. worse.rate <= 0
  BY <1>2, <1>3
<1>5. /\ schedule.tiers = [tiers EXCEPT ![t].blocks[i].rate = -@]
      /\ DOMAIN schedule.tiers = Tiers /\ DOMAIN schedule.tiers[t].blocks = DOMAIN blocks
      /\ schedule.tiers[t].blocks[i] = worse
  <2> HIDE DEF tiers
  <2>1. schedule = [tiers |-> [tiers EXCEPT ![t].blocks[i].rate = -@],
                    credit |-> CreditRate, subsidy |-> SubsidyRate]
    BY <1>1, <1>2
  <2>2. schedule.tiers = [tiers EXCEPT ![t].blocks[i].rate = -@]
    BY <2>1
  <2>3. schedule.tiers[t] = [tiers[t] EXCEPT !.blocks[i].rate = -@]
    BY <1>2, <2>2
  <2>4. schedule.tiers[t].blocks = [blocks EXCEPT ![i].rate = -@]
    BY <1>2, <2>3 DEF AnyTier
  <2>5. /\ DOMAIN schedule.tiers[t].blocks = DOMAIN blocks
        /\ schedule.tiers[t].blocks[i] = worse
    BY <1>1, <2>4 DEF tiers
  <2>6. DOMAIN schedule.tiers = Tiers
    BY <1>2, <2>2
  <2> QED
    BY <2>2, <2>5, <2>6
<1>6. BlocksAtFault(schedule.tiers[t].blocks)
  <2>1. schedule.tiers[t].blocks[i].rate <= 0 /\ i \in DOMAIN schedule.tiers[t].blocks
    BY <1>1, <1>4, <1>5
  <2> QED
    BY <2>1 DEF BlocksAtFault
<1> QED
  BY <1>5, <1>6 DEF Problems

\* A tier outside the schedule is found, in any of the records.
LEMMA UnknownTierIsFound ==
  ASSUME NEW s, Lists(s, DefaultSchedule), NEW p \in Picks(s)
  PROVE  "unknown_tier" \in
           HouseholdFindings(Edited(s, p, "unknown_tier"), DefaultSchedule, Day)
<1> DEFINE edited == Edited(s, p, "unknown_tier")
<1>1. PICK i \in p : i \in DOMAIN s
  BY DEF Picks
<1>2. i \in 1..Len(s) /\ DOMAIN s = 1..Len(s)
  BY <1>1 DEF Lists
<1>3. /\ s[i] \in Records /\ RecordOk(s[i])
      /\ s[i].json = TRUE /\ s[i].rate \in Int /\ s[i].fixed \in Int
  BY <1>2, DefaultIsLikeItself, DefaultRecords, ListIs DEF Describes
<1>4. edited[i] = [s[i] EXCEPT !.tier = "DOMESTIC_PREMIUM"] /\ DOMAIN edited = DOMAIN s
  BY <1>1 DEF Edited, Edit
<1>5. /\ edited[i].json = TRUE /\ edited[i].rate = s[i].rate /\ edited[i].fixed = s[i].fixed
      /\ edited[i].tier = "DOMESTIC_PREMIUM"
  BY <1>3, <1>4 DEF Records
<1> HIDE DEF edited
<1>6. RecordOk(edited[i])
  <2>a. edited[i].json \in BOOLEAN /\ s[i].json \in BOOLEAN
    BY <1>3, <1>5, Zenon
  <2>b. edited[i].rate \in Int /\ edited[i].fixed \in Int
    BY <1>3, <1>5
  <2>1. RecordOk(edited[i]) <=> Bounds(edited[i])
    BY <2>a, <2>b, RecordOkIs
  <2>2. RecordOk(s[i]) <=> Bounds(s[i])
    BY <1>3, <2>a, RecordOkIs
  <2> QED
    BY <1>3, <1>5, <2>1, <2>2 DEF Bounds
<1>7. i \in Good(edited)
  BY <1>1, <1>4, <1>6 DEF Good
<1>8. edited[i].tier \notin DOMAIN DefaultSchedule.tiers
  BY <1>5, DefaultIsLikeItself, LikeDefaultIs DEF Tiers
<1>9. \E j \in Good(edited) : edited[j].tier \notin DOMAIN DefaultSchedule.tiers
  BY <1>7, <1>8
<1>10. "unknown_tier" \in HouseholdFindings(edited, DefaultSchedule, Day)
  BY <1>9, HouseholdFindingsAre
<1> QED
  BY <1>10 DEF edited

\* A negative rate in any of the records is found.
LEMMA InvalidRecordIsFound ==
  ASSUME NEW s, Lists(s, DefaultSchedule), NEW p \in Picks(s), NEW schedule
  PROVE  "record_invalid" \in HouseholdFindings(Edited(s, p, "invalid_record"), schedule, Day)
<1> DEFINE edited == Edited(s, p, "invalid_record")
<1>1. PICK i \in p : i \in DOMAIN s
  BY DEF Picks
<1>2. i \in 1..Len(s) /\ DOMAIN s = 1..Len(s)
  BY <1>1 DEF Lists
<1>3. /\ s[i] \in Records /\ s[i].rate > 0
      /\ s[i].json = TRUE /\ s[i].rate \in Int /\ s[i].fixed \in Int
  BY <1>2, DefaultIsLikeItself, DefaultRecords, ListIs DEF Describes
<1>4. edited[i] = [s[i] EXCEPT !.rate = -@] /\ DOMAIN edited = DOMAIN s
  BY <1>1 DEF Edited, Edit
<1>5. /\ edited[i].json = TRUE /\ edited[i].rate = -s[i].rate /\ edited[i].fixed = s[i].fixed
  BY <1>3, <1>4 DEF Records
<1> HIDE DEF edited
<1>6. ~RecordOk(edited[i])
  <2>1. RecordOk(edited[i]) <=> Bounds(edited[i])
    <3>1. edited[i].json \in BOOLEAN
      BY <1>5, Zenon
    <3>2. edited[i].rate \in Int /\ edited[i].fixed \in Int
      BY <1>3, <1>5
    <3> QED
      BY <3>1, <3>2, RecordOkIs
  <2>2. ~(-s[i].rate \in 0..RateLimit)
    BY <1>3
  <2> QED
    BY <1>5, <2>1, <2>2 DEF Bounds
<1>7. "record_invalid" \in HouseholdFindings(edited, schedule, Day)
  <2>1. \E j \in DOMAIN edited : ~RecordOk(edited[j])
    BY <1>1, <1>4, <1>6
  <2> QED
    BY <2>1, HouseholdFindingsAre
<1> QED
  BY <1>7 DEF edited

\* Any household left out is missed.
LEMMA MissingHouseholdIsFound ==
  ASSUME NEW s, Lists(s, DefaultSchedule), NEW p \in Picks(s), NEW schedule
  PROVE  "household_missing" \in HouseholdFindings(At(s, DOMAIN s \ p), schedule, Day)
<1> DEFINE left == DOMAIN s \ p
           rest == At(s, left)
<1>1. PICK i \in p : i \in DOMAIN s
  BY DEF Picks
<1>2. /\ i \in 1..Len(s) /\ DOMAIN s = 1..Len(s) /\ s \in Seq(Records)
      /\ \A j, k \in 1..Len(s) : s[j].id = s[k].id => j = k
  BY <1>1 DEF Lists
<1>3. s[i].id \in Households
  BY <1>2, DefaultIsLikeItself, ListIs
<1>4. /\ left \in SUBSET DOMAIN s /\ i \notin left
  BY <1>1
<1> HIDE DEF left
<1>5. /\ Len(rest) = Cardinality(left) /\ Cardinality(left) \in Nat /\ rest \in Seq(Records)
      /\ \A n \in 1..Cardinality(left) : Nth(left, n) \in left /\ rest[n] = s[Nth(left, n)]
  BY <1>2, <1>4, AtIs
<1>6. DOMAIN rest = 1..Cardinality(left)
  BY <1>5
<1> HIDE DEF rest
<1>7. \A n \in DOMAIN rest : rest[n].id # s[i].id
  BY <1>2, <1>4, <1>5, <1>6
<1>8. \E h \in Households : \A n \in Good(rest) : rest[n].id # h
  BY <1>3, <1>7 DEF Good
<1>9. "household_missing" \in HouseholdFindings(rest, schedule, Day)
  BY <1>8, HouseholdFindingsAre
<1> QED
  BY <1>9 DEF rest, left

\* Any household listed twice is counted twice.
LEMMA DuplicateIsFound ==
  ASSUME NEW s, Lists(s, DefaultSchedule), NEW p \in Picks(s), NEW schedule
  PROVE  "household_duplicated" \in HouseholdFindings(s \o At(s, p), schedule, Day)
<1> DEFINE more == At(s, p)
           all == s \o more
           n == Len(s)
<1>1. PICK i \in p : i \in DOMAIN s
  BY DEF Picks
<1>2. /\ i \in 1..n /\ n \in Nat /\ DOMAIN s = 1..n /\ s \in Seq(Records)
      /\ p \in SUBSET DOMAIN s
  BY <1>1 DEF Lists, Picks
<1>3. /\ more \in Seq(Records) /\ Len(more) = Cardinality(p) /\ Cardinality(p) \in Nat
      /\ \A k \in 1..Cardinality(p) : more[k] = s[Nth(p, k)]
      /\ \E k \in 1..Cardinality(p) : Nth(p, k) = i
  BY <1>2, AtIs
<1>4. PICK k \in 1..Cardinality(p) : Nth(p, k) = i /\ more[k] = s[i]
  BY <1>3
<1> HIDE DEF more
<1>5. /\ DOMAIN all = 1..(n + Cardinality(p))
      /\ all[i] = s[i] /\ all[n + k] = more[k] /\ n + k # i /\ n + k \in DOMAIN all
      /\ i \in DOMAIN all
  <2>a. s \in Seq(Records) /\ more \in Seq(Records)
    BY <1>2, <1>3
  <2>1. /\ DOMAIN (s \o more) = 1..(Len(s) + Len(more))
        /\ \A j \in 1..(Len(s) + Len(more)) :
             (s \o more)[j] = IF j <= Len(s) THEN s[j] ELSE more[j - Len(s)]
    BY <2>a, ConcatIs
  <2>2. /\ i \in 1..(n + Cardinality(p)) /\ n + k \in 1..(n + Cardinality(p))
        /\ i <= n /\ ~(n + k <= n) /\ (n + k) - n = k /\ n + k # i
    BY <1>2, <1>3, <1>4
  <2> HIDE DEF n
  <2> QED
    BY <1>3, <2>1, <2>2 DEF n
<1>6. RecordOk(s[i])
  BY <1>2, DefaultRecords
<1> HIDE DEF all
<1>7. i \in Good(all) /\ n + k \in Good(all) /\ all[n + k] = all[i]
  BY <1>4, <1>5, <1>6 DEF Good
<1> DEFINE same == {j \in Good(all) : all[j].id = all[i].id}
<1>8. IsFiniteSet(same) /\ i \in same /\ n + k \in same
  <2>1. IsFiniteSet(1..(n + Cardinality(p)))
    BY <1>2, <1>3, FS_Interval
  <2>2. same \subseteq 1..(n + Cardinality(p))
    BY <1>5 DEF Good
  <2>3. i \in same /\ n + k \in same
    BY <1>7
  <2> QED
    BY <2>1, <2>2, <2>3, FS_Subset
<1>9. Cardinality(same) > 1
  <2> HIDE DEF same
  <2> QED
    BY <1>5, <1>8, CountsTwo
<1>10. "household_duplicated" \in HouseholdFindings(all, schedule, Day)
  BY <1>7, <1>9, HouseholdFindingsAre
<1> QED
  BY <1>10 DEF all, more

\* A file cut short is not what the manifest describes.
LEMMA TruncationShows ==
  ASSUME NEW s, Lists(s, DefaultSchedule)
  PROVE  Truncated(s) # s
<1> DEFINE n == Len(s)
           whole == (6 * n) \div 10
           head == SubSeq(s, 1, whole)
           cut == [s[whole + 1] EXCEPT !.json = FALSE]
<1>1. n \in Nat \ {0} /\ DOMAIN s = 1..n /\ s \in Seq(Records)
  BY DEF Lists
<1>2. whole \in Nat /\ whole < n
  BY <1>1
<1>3. (6 * n) % 10 = 0 \/ (6 * n) % 10 # 0
  OBVIOUS
<1>4. Truncated(s) = head \o IF (6 * n) % 10 = 0 THEN <<>> ELSE <<cut>>
  BY DEF Truncated
<1> HIDE DEF whole
<1>5. head \in Seq(Records) /\ Len(head) = whole
  <2> HIDE DEF n
  <2>1. n = Len(s)
    BY DEF n
  <2>2. 1..whole \subseteq 1..Len(s)
    BY <1>1, <1>2, <2>1
  <2> QED
    BY <1>1, <1>2, <2>1, <2>2
<1>6. CASE (6 * n) % 10 = 0
  <2>1. Truncated(s) = head
    BY <1>4, <1>5, <1>6
  <2>2. Len(Truncated(s)) # n
    BY <1>2, <1>5, <2>1
  <2> QED
    BY <2>2
<1>7. CASE (6 * n) % 10 # 0
  <2>1. Truncated(s) = head \o <<cut>>
    BY <1>4, <1>7
  <2>2. whole + 1 \in 1..n
    BY <1>1, <1>2
  <2>3. s[whole + 1] \in Records
    BY <1>1, <2>2
  <2>4. cut \in Records /\ cut.json = FALSE
    BY <2>3 DEF Records
  <2> HIDE DEF cut, head
  <2>5. (head \o <<cut>>)[whole + 1] = cut
    BY <1>2, <1>5, <2>4
  <2>6. s[whole + 1].json = TRUE
    <3> HIDE DEF n
    <3>1. whole + 1 \in 1..Len(s)
      BY <2>2 DEF n
    <3>2. Describes(s[whole + 1], s[whole + 1].id, DefaultSchedule)
      BY <3>1, DefaultIsLikeItself, ListIs
    <3> QED
      BY <3>2 DEF Describes
  <2>7. cut.json # TRUE
    BY <2>4, Zenon
  <2> QED
    BY <2>1, <2>5, <2>6, <2>7
<1> QED
  BY <1>6, <1>7

\* Damage to the records leaves the manifest true: it describes what is uploaded.
LEMMA DamagedDrop ==
  ASSUME NEW kind \in Corruptions, NEW upload \in Uploads(Day, DefaultSchedule, kind)
  PROVE  ExpectedCheck[kind] \in CheckDrop(upload, Day)
<1> DEFINE files == RenderDrop(Day, DefaultSchedule)
           s == HouseholdTariffs(Day, DefaultSchedule)
           w == SetToSeq({[zone |-> z, date |-> Day] : z \in Zones})
<1>1. /\ files = [schedule |-> DefaultSchedule, households |-> s, weather |-> w]
      /\ Lists(s, DefaultSchedule)
  BY DefaultIsLikeItself, HouseholdsAreListed DEF RenderDrop
<1>2. PICK c \in Corrupt(files, kind) :
        upload = [manifest |-> BuildManifest(Day, c[1]), files |-> c[2]]
  BY Zenon DEF Uploads
<1> HIDE DEF files, s, w
<1>3. ASSUME NEW f, c = <<f, f>>
      PROVE  CheckDrop(upload, Day) = Findings(f)
  <2>1. upload = Upload(f, f)
    BY <1>2, <1>3 DEF Upload
  <2> QED
    BY <2>1, GateIs
<1>4. CASE kind = "negative_rate"
  <2>1. PICK bad \in NegativeRates(files.schedule) :
          c = <<[files EXCEPT !.schedule = bad], [files EXCEPT !.schedule = bad]>>
    BY <1>2, <1>4 DEF Corrupt
  <2>2. bad \in NegativeRates(DefaultSchedule) /\ [files EXCEPT !.schedule = bad].schedule = bad
    BY <1>1, <2>1
  <2>3. Problems(bad)
    BY <2>2, NegativeRateIsFound
  <2>4. "schedule_invalid" \in Findings([files EXCEPT !.schedule = bad])
    BY <2>2, <2>3 DEF Findings, FindIf
  <2>5. CheckDrop(upload, Day) = Findings([files EXCEPT !.schedule = bad])
    BY <1>3, <2>1
  <2> QED
    BY <1>4, <2>4, <2>5 DEF ExpectedCheck
<1>5. CASE kind = "truncated_file"
  <2>1. c = <<files, [files EXCEPT !.households = Truncated(@)]>>
    BY <1>2, <1>5 DEF Corrupt
  <2>2. /\ c[1]["households"] = s /\ c[2]["households"] = Truncated(s)
    BY <1>1, <2>1
  <2>3. Truncated(s) # s
    BY <1>1, TruncationShows
  <2>4. /\ upload.files["households"] = Truncated(s)
        /\ upload.manifest.files["households"].sum = s
    BY <1>2, <2>2 DEF BuildManifest, DataFiles
  <2>5. \E f \in DataFiles : upload.files[f] # upload.manifest.files[f].sum
    BY <2>3, <2>4 DEF DataFiles
  <2>6. "checksum_mismatch" \in Integrity(upload, Day)
    BY <2>5 DEF Integrity, FindIf
  <2>7. CheckDrop(upload, Day) = Integrity(upload, Day)
    BY <2>6 DEF CheckDrop
  <2> QED
    BY <1>5, <2>6, <2>7 DEF ExpectedCheck
<1>6. CASE kind \notin {"negative_rate", "truncated_file"}
  <2>1. PICK bad \in CorruptHouseholds(files.households, kind) :
          c = <<[files EXCEPT !.households = bad], [files EXCEPT !.households = bad]>>
    <3>1. kind # "none" /\ kind # "negative_rate" /\ kind # "truncated_file"
      BY <1>6 DEF Corruptions
    <3>2. Corrupt(files, kind) =
            {<<f, f>> : f \in {[files EXCEPT !.households = b] :
                                 b \in CorruptHouseholds(files.households, kind)}}
      BY <3>1 DEF Corrupt
    <3> QED
      BY <1>2, <3>2
  <2> DEFINE f == [files EXCEPT !.households = bad]
  <2>2. f.households = bad /\ f.schedule = DefaultSchedule /\ files.households = s
    BY <1>1
  <2> HIDE DEF f
  <2>3. CheckDrop(upload, Day) = Findings(f)
    BY <1>3, <2>1 DEF f
  <2>4. \A x : x \in HouseholdFindings(bad, DefaultSchedule, Day) => x \in Findings(f)
    BY <2>2 DEF Findings
  <2>5. CASE kind = "unknown_tier"
    <3>1. PICK p \in Picks(s) : bad = Edited(s, p, "unknown_tier")
      BY <2>1, <2>2, <2>5 DEF CorruptHouseholds
    <3> QED
      BY <1>1, <2>3, <2>4, <2>5, <3>1, UnknownTierIsFound DEF ExpectedCheck
  <2>6. CASE kind = "invalid_record"
    <3>1. PICK p \in Picks(s) : bad = Edited(s, p, "invalid_record")
      BY <2>1, <2>2, <2>6 DEF CorruptHouseholds
    <3> QED
      BY <1>1, <2>3, <2>4, <2>6, <3>1, InvalidRecordIsFound DEF ExpectedCheck
  <2>7. CASE kind = "missing_households"
    <3>1. PICK p \in Picks(s) : bad = At(s, DOMAIN s \ p)
      BY <2>1, <2>2, <2>7 DEF CorruptHouseholds
    <3> QED
      BY <1>1, <2>3, <2>4, <2>7, <3>1, MissingHouseholdIsFound DEF ExpectedCheck
  <2>8. CASE kind = "duplicate_household"
    <3>1. PICK p \in Picks(s) : bad = s \o At(s, p)
      BY <2>1, <2>2, <2>8 DEF CorruptHouseholds
    <3> QED
      BY <1>1, <2>3, <2>4, <2>8, <3>1, DuplicateIsFound DEF ExpectedCheck
  <2> QED
    BY <1>6, <2>5, <2>6, <2>7, <2>8 DEF Corruptions
<1> QED
  BY <1>4, <1>5, <1>6

\* An undamaged drop passes exactly when its rates are positive.
LEMMA PlainDrop ==
  ASSUME NEW schedule, LikeDefault(schedule), CanRender(Day, schedule),
         NEW upload \in Uploads(Day, schedule, "none")
  PROVE  /\ upload.files = RenderDrop(Day, schedule)
         /\ upload.files.schedule = schedule
         /\ Lists(upload.files.households, schedule)
         /\ RatesArePositive(schedule) => CheckDrop(upload, Day) = {}
         /\ ~RatesArePositive(schedule) => CheckDrop(upload, Day) # {}
<1> DEFINE files == RenderDrop(Day, schedule)
           s == HouseholdTariffs(Day, schedule)
           w == SetToSeq({[zone |-> z, date |-> Day] : z \in Zones})
<1>1. files = [schedule |-> schedule, households |-> s, weather |-> w]
  BY DEF RenderDrop
<1>2. Lists(s, schedule)
  BY HouseholdsAreListed
<1>3. upload = Upload(files, files)
  BY DEF Uploads, Corrupt, Upload
<1>4. /\ files.schedule = schedule /\ files.households = s
      /\ WeatherFindings(files.weather, Day) = {}
  BY <1>1, WeatherIsRight
<1> HIDE DEF files, s, w
<1>5. upload.files = files /\ CheckDrop(upload, Day) = Findings(files)
  BY <1>3, GateIs DEF Upload
<1>6. HouseholdFindings(s, schedule, Day) = {}
  <2>1. DOMAIN s = 1..Len(s)
    BY <1>2 DEF Lists
  <2>2. ASSUME NEW i \in DOMAIN s
        PROVE  /\ RecordOk(s[i]) /\ s[i].date = Day /\ s[i].tier \in DOMAIN schedule.tiers
               /\ s[i].rate = HeadlineRate(schedule, s[i].tier)
               /\ s[i].id \in Households
               /\ Cardinality({j \in DOMAIN s : s[j].id = s[i].id}) = 1
    <3>1. i \in 1..Len(s)
      BY <2>1
    <3>2. /\ s[i].id \in Households /\ Describes(s[i], s[i].id, schedule)
          /\ RecordOk(s[i]) <=> RecordOk(TariffRecord(s[i].id, Day, schedule))
          /\ Cardinality({j \in DOMAIN s : s[j].id = s[i].id}) = 1
      BY <1>2, <3>1, ListIs
    <3>3. RecordOk(s[i])
      BY <3>2 DEF CanRender
    <3> QED
      BY <3>2, <3>3, LikeDefaultIs DEF Describes
  <2>3. \A h \in Households : \E i \in DOMAIN s : s[i].id = h
    BY <1>2, <2>1 DEF Lists
  <2> QED
    BY <2>2, <2>3, NothingToFind
<1>7. RatesArePositive(schedule) => Findings(files) = {}
  BY <1>4, <1>6, ProblemsIs DEF Findings, FindIf
<1>8. ~RatesArePositive(schedule) => "schedule_invalid" \in Findings(files)
  BY <1>4, ProblemsIs DEF Findings, FindIf
<1> QED
  BY <1>2, <1>4, <1>5, <1>7, <1>8 DEF files

\* Damage leaves the default schedule alone, or a schedule with problems.
LEMMA DamagedSchedule ==
  ASSUME NEW kind \in Corruptions, NEW upload \in Uploads(Day, DefaultSchedule, kind),
         ~Problems(upload.files.schedule)
  PROVE  upload.files.schedule = DefaultSchedule
<1> DEFINE files == RenderDrop(Day, DefaultSchedule)
           s == HouseholdTariffs(Day, DefaultSchedule)
           w == SetToSeq({[zone |-> z, date |-> Day] : z \in Zones})
<1>1. files = [schedule |-> DefaultSchedule, households |-> s, weather |-> w]
  BY DEF RenderDrop
<1>2. PICK c \in Corrupt(files, kind) :
        upload = [manifest |-> BuildManifest(Day, c[1]), files |-> c[2]]
  BY Zenon DEF Uploads
<1> HIDE DEF files, s, w
<1>3. \A x : [files EXCEPT !.households = x].schedule = DefaultSchedule
  BY <1>1
<1>4. kind # "none"
  BY DEF Corruptions
<1>5. CASE kind = "negative_rate"
  <2>1. PICK bad \in NegativeRates(files.schedule) : c[2] = [files EXCEPT !.schedule = bad]
    BY <1>2, <1>5 DEF Corrupt
  <2>2. bad \in NegativeRates(DefaultSchedule) /\ upload.files.schedule = bad
    BY <1>1, <1>2, <2>1
  <2>3. Problems(upload.files.schedule)
    BY <2>2, NegativeRateIsFound
  <2> QED
    BY <2>3
<1>6. CASE kind # "negative_rate"
  <2>1. \E x : c[2] = [files EXCEPT !.households = x]
    <3>1. CASE kind = "truncated_file"
      BY <1>2, <3>1 DEF Corrupt
    <3>2. CASE kind # "truncated_file"
      <4>1. Corrupt(files, kind) =
              {<<f, f>> : f \in {[files EXCEPT !.households = b] :
                                   b \in CorruptHouseholds(files.households, kind)}}
        BY <1>4, <1>6, <3>2 DEF Corrupt
      <4>2. PICK f \in {[files EXCEPT !.households = b] :
                          b \in CorruptHouseholds(files.households, kind)} : c = <<f, f>>
        BY <1>2, <4>1
      <4> QED
        BY <4>2
    <3> QED
      BY <3>1, <3>2
  <2>2. c[2].schedule = DefaultSchedule
    BY <1>3, <2>1
  <2> QED
    BY <1>2, <2>2
<1> QED
  BY <1>5, <1>6

\* publish can render the default schedule.
LEMMA DefaultRenders == CanRender(Day, DefaultSchedule)
<1> SUFFICES ASSUME NEW h \in Households
             PROVE  RecordOk(TariffRecord(h, Day, DefaultSchedule))
  BY DEF CanRender
<1> DEFINE s == HouseholdTariffs(Day, DefaultSchedule)
<1>1. Lists(s, DefaultSchedule)
  BY DefaultIsLikeItself, HouseholdsAreListed
<1> HIDE DEF s
<1>2. PICK i \in 1..Len(s) : s[i].id = h
  BY <1>1 DEF Lists
<1>3. RecordOk(s[i]) /\ (RecordOk(s[i]) <=> RecordOk(TariffRecord(s[i].id, Day, DefaultSchedule)))
  BY <1>1, DefaultIsLikeItself, DefaultRecords, ListIs
<1> QED
  BY <1>2, <1>3

-----------------------------------------------------------------------------
(* The versions of the drop.                                               *)

Sequential(s) == \E S : s \in Seq(S)

\* What appending to a sequence of anything does.
LEMMA AppendIs ==
  ASSUME NEW s, Sequential(s), NEW x
  PROVE  /\ Len(s) \in Nat /\ DOMAIN s = 1..Len(s)
         /\ Sequential(Append(s, x)) /\ Len(Append(s, x)) = Len(s) + 1
         /\ DOMAIN Append(s, x) = 1..(Len(s) + 1)
         /\ \A i \in 1..Len(s) : Append(s, x)[i] = s[i]
         /\ Append(s, x)[Len(s) + 1] = x
<1>1. PICK S : s \in Seq(S)
  BY DEF Sequential
<1>2. s \in Seq(S \cup {x})
  BY <1>1
<1>3. Append(s, x) \in Seq(S \cup {x})
  BY <1>2
<1> QED
  BY <1>2, <1>3 DEF Sequential

ScheduleIn(v) == v.upload.files.schedule

\* The i-th of these versions was published, damaged or not, or revised.
MadeFrom(v, base) ==
  /\ v.percent \in Int /\ LikeDefault(ScheduleIn(base)) /\ RatesArePositive(ScheduleIn(base))
  /\ \E tiers : ScheduleIn(v) = WithRateChange(ScheduleIn(base), v.percent, tiers)

Damage(v) == v.upload \in Uploads(Day, DefaultSchedule, v.corruption) /\ v.base = 0

Undamaged(v) == /\ LikeDefault(ScheduleIn(v)) /\ CanRender(Day, ScheduleIn(v))
                /\ v.upload \in Uploads(Day, ScheduleIn(v), "none")

VersionIsRight(vs, i) ==
  /\ vs[i].corruption \in Corruptions \cup {"none"}
  /\ vs[i].corruption # "none" => Damage(vs[i])
  /\ vs[i].corruption = "none" => Undamaged(vs[i])
  /\ vs[i].base # 0 => vs[i].base \in 1..(i - 1) /\ MadeFrom(vs[i], vs[vs[i].base])

VersionsInv == Sequential(versions) /\ \A i \in 1..Len(versions) : VersionIsRight(versions, i)

\* With one more version that is right, all are still right.
LEMMA NewVersion ==
  ASSUME VersionsInv, NEW v, versions' = Append(versions, v),
         v.corruption \in Corruptions \cup {"none"},
         v.corruption # "none" => Damage(v), v.corruption = "none" => Undamaged(v),
         v.base # 0 => v.base \in 1..Len(versions) /\ MadeFrom(v, versions[v.base])
  PROVE  VersionsInv'
<1> DEFINE n == Len(versions)
<1>1. /\ n \in Nat /\ Sequential(versions') /\ Len(versions') = n + 1
      /\ \A i \in 1..n : versions'[i] = versions[i]
      /\ versions'[n + 1] = v
  BY AppendIs DEF VersionsInv
<1>2. ASSUME NEW i \in 1..n PROVE VersionIsRight(versions', i)
  <2>1. versions'[i] = versions[i] /\ VersionIsRight(versions, i)
    BY <1>1 DEF VersionsInv
  <2>2. ASSUME versions[i].base # 0
        PROVE  /\ versions[i].base \in 1..(i - 1)
               /\ versions'[versions[i].base] = versions[versions[i].base]
    <3>1. versions[i].base \in 1..(i - 1)
      BY <2>1, <2>2 DEF VersionIsRight
    <3>2. versions[i].base \in 1..n
      BY <1>1, <3>1
    <3> QED
      BY <1>1, <3>1, <3>2
  <2> QED
    BY <2>1, <2>2 DEF VersionIsRight
<1>3. VersionIsRight(versions', n + 1)
  <2>1. v.base # 0 => v.base \in 1..((n + 1) - 1) /\ versions'[v.base] = versions[v.base]
    BY <1>1
  <2> QED
    BY <1>1, <2>1 DEF VersionIsRight
<1>4. \A i \in 1..(n + 1) : i \in 1..n \/ i = n + 1
  BY <1>1
<1> QED
  BY <1>1, <1>2, <1>3, <1>4 DEF VersionsInv

\* Publish and Revise are the steps that add a version.
LEMMA VersionsStep == VersionsInv /\ [Next]_vars => VersionsInv'
<1> SUFFICES ASSUME VersionsInv, [Next]_vars PROVE VersionsInv'
  OBVIOUS
<1>1. CASE Publish
  <2>1. PICK kind \in Corruptions \cup {"none"} :
          \E upload \in Uploads(Day, DefaultSchedule, kind) :
            versions' = Append(versions, Version(upload, kind, 0, Percent))
    BY <1>1, Zenon DEF Publish
  <2>2. PICK upload \in Uploads(Day, DefaultSchedule, kind) :
          versions' = Append(versions, Version(upload, kind, 0, Percent))
    BY <2>1
  <2> DEFINE v == Version(upload, kind, 0, Percent)
  <2>3. v.upload = upload /\ v.corruption = kind /\ v.base = 0
    BY DEF Version
  <2> HIDE DEF v
  <2>4. v.corruption # "none" => Damage(v)
    BY <2>3 DEF Damage
  <2>5. ASSUME v.corruption = "none" PROVE Undamaged(v)
    <3>1. upload \in Uploads(Day, DefaultSchedule, "none")
      BY <2>3, <2>5
    <3>2. upload.files.schedule = DefaultSchedule
      BY <3>1, DefaultIsLikeItself, DefaultRenders, PlainDrop
    <3> QED
      BY <2>3, <3>1, <3>2, DefaultIsLikeItself, DefaultRenders DEF Undamaged, ScheduleIn
  <2>6. versions' = Append(versions, v)
    BY <2>2 DEF v
  <2> QED
    BY <2>3, <2>4, <2>5, <2>6, NewVersion
<1>2. CASE Revise
  <2> DEFINE n == Len(versions)
             base == ScheduleIn(versions[n])
  <2>0. n \in 1..n /\ Last(versions) = versions[n]
    BY <1>2, AppendIs DEF Revise, VersionsInv, Last
  <2>1. /\ ~Problems(base)
        /\ \E p \in Percents, tiers \in OneOrAll(DOMAIN base.tiers) :
             /\ CanRender(Day, WithRateChange(base, p, tiers))
             /\ \E upload \in Uploads(Day, WithRateChange(base, p, tiers), "none") :
                  versions' = Append(versions, Version(upload, "none", n, p))
    BY <1>2, <2>0, Zenon DEF Revise, ScheduleIn
  <2>2. PICK p \in Percents, tiers \in OneOrAll(DOMAIN base.tiers) :
          /\ CanRender(Day, WithRateChange(base, p, tiers))
          /\ \E upload \in Uploads(Day, WithRateChange(base, p, tiers), "none") :
               versions' = Append(versions, Version(upload, "none", n, p))
    BY <2>1
  <2> DEFINE revised == WithRateChange(base, p, tiers)
  <2>3. PICK upload \in Uploads(Day, revised, "none") :
          versions' = Append(versions, Version(upload, "none", n, p))
    BY <2>2
  <2>4. p \in Int
    BY RevisionsAssumption
  <2>5. LikeDefault(base) /\ RatesArePositive(base)
    <3>1. VersionIsRight(versions, n)
      BY <2>0 DEF VersionsInv
    <3>2. CASE versions[n].corruption = "none"
      <4>1. LikeDefault(base)
        BY <3>1, <3>2 DEF VersionIsRight, Undamaged
      <4> HIDE DEF base
      <4> QED
        BY <2>1, <4>1, ProblemsIs
    <3>3. CASE versions[n].corruption # "none"
      <4>1. /\ versions[n].upload \in Uploads(Day, DefaultSchedule, versions[n].corruption)
            /\ versions[n].corruption \in Corruptions
        BY <3>1, <3>3 DEF VersionIsRight, Damage
      <4>2. base = DefaultSchedule
        BY <2>1, <4>1, DamagedSchedule DEF ScheduleIn
      <4> HIDE DEF base
      <4> QED
        BY <4>2, DefaultIsLikeItself
    <3> QED
      BY <3>2, <3>3
  <2>6. LikeDefault(revised) /\ CanRender(Day, revised)
    <3> HIDE DEF base
    <3> QED
      BY <2>2, <2>4, <2>5, RevisionIs
  <2> DEFINE v == Version(upload, "none", n, p)
  <2>7. v.upload = upload /\ v.corruption = "none" /\ v.base = n /\ v.percent = p
    BY DEF Version
  <2> HIDE DEF v, revised, base
  <2>8. ScheduleIn(v) = revised
    BY <2>3, <2>6, <2>7, PlainDrop DEF ScheduleIn
  <2>9. Undamaged(v)
    BY <2>3, <2>6, <2>7, <2>8 DEF Undamaged
  <2>10. MadeFrom(v, versions[n])
    BY <2>4, <2>5, <2>7, <2>8 DEF MadeFrom, revised, base
  <2>11. versions' = Append(versions, v)
    BY <2>3 DEF v
  <2> QED
    BY <2>0, <2>7, <2>9, <2>10, <2>11, NewVersion
<1>3. CASE ~Publish /\ ~Revise
  <2>1. versions' = versions
    <3>1. CASE Meter
      BY <3>1 DEF Meter
    <3>2. CASE SendStrange
      BY <3>2 DEF SendStrange
    <3>3. CASE Ingest
      BY <3>3 DEF Ingest
    <3>4. CASE Settle
      BY <3>4 DEF Settle
    <3>5. CASE UNCHANGED vars
      BY <3>5 DEF vars
    <3> QED
      BY <1>3, <3>1, <3>2, <3>3, <3>4, <3>5 DEF Next
  <2> QED
    BY <2>1 DEF VersionsInv
<1> QED
  BY <1>1, <1>2, <1>3

\* The gate rejects every drop that was damaged on purpose, for the reason its
\* publisher announces; it passes every other one with positive rates, revised
\* or not, and what it passes lists each household of the fleet exactly once
\* (corrupt_files and build_household_tariffs against check_drop).
THEOREM GateJudgesRightly == Spec => []GateIsRight
<1>1. Init => VersionsInv
  <2> SUFFICES ASSUME Init PROVE VersionsInv
    OBVIOUS
  <2>1. versions = <<>>
    BY DEF Init
  <2>2. versions \in Seq({}) /\ Len(versions) = 0
    BY <2>1
  <2> QED
    BY <2>2 DEF VersionsInv, Sequential
<1>2. VersionsInv => GateIsRight
  <2> SUFFICES ASSUME VersionsInv, NEW i \in DOMAIN versions
               PROVE  LET v     == versions[i]
                          found == CheckDrop(v.upload, Day)
                          files == v.upload.files
                      IN /\ v.corruption # "none" => ExpectedCheck[v.corruption] \in found
                         /\ v.corruption = "none" /\ RatesArePositive(files.schedule) => found = {}
                         /\ found = {} =>
                              \A h \in Households :
                                Cardinality({n \in DOMAIN files.households :
                                               files.households[n].id = h}) = 1
    BY Zenon DEF GateIsRight
  <2> DEFINE v     == versions[i]
             found == CheckDrop(v.upload, Day)
             s     == v.upload.files.households
  <2>1. VersionIsRight(versions, i)
    <3>1. i \in 1..Len(versions)
      BY AppendIs DEF VersionsInv
    <3> QED
      BY <3>1 DEF VersionsInv
  <2>2. CASE v.corruption # "none"
    <3>1. /\ v.corruption \in Corruptions
          /\ v.upload \in Uploads(Day, DefaultSchedule, v.corruption)
      BY <2>1, <2>2 DEF VersionIsRight, Damage
    <3>2. ExpectedCheck[v.corruption] \in found
      BY <3>1, DamagedDrop
    <3> QED
      BY <2>2, <3>2
  <2>3. CASE v.corruption = "none"
    <3>1. /\ LikeDefault(ScheduleIn(v)) /\ CanRender(Day, ScheduleIn(v))
          /\ v.upload \in Uploads(Day, ScheduleIn(v), "none")
      BY <2>1, <2>3 DEF VersionIsRight, Undamaged
    <3>2. /\ RatesArePositive(ScheduleIn(v)) => found = {}
          /\ Lists(s, ScheduleIn(v))
      BY <3>1, PlainDrop
    <3> HIDE DEF found, s
    <3>3. ASSUME NEW h \in Households PROVE Cardinality({n \in DOMAIN s : s[n].id = h}) = 1
      <4>1. PICK n \in 1..Len(s) : s[n].id = h
        BY <3>2 DEF Lists
      <4>2. Cardinality({j \in DOMAIN s : s[j].id = s[n].id}) = 1
        BY <3>1, <3>2, ListIs
      <4> QED
        BY <4>1, <4>2
    <3> QED
      BY <2>3, <3>2, <3>3 DEF ScheduleIn, found, s
  <2> QED
    BY <2>2, <2>3
<1> QED
  BY <1>1, <1>2, VersionsStep, PTL DEF Spec

-----------------------------------------------------------------------------
(* Sums of what readings say.                                              *)

\* The recursion by which a sum over a set is defined.
TakesAny(h, S, w) ==
  h = [s \in SUBSET S |-> IF s = {} THEN 0 ELSE w[AnyOf(s)] + h[s \ {AnyOf(s)}]]

\* What it defines is a function that sums.
LEMMA WhatTakesAnySums ==
  ASSUME NEW S, NEW w, Weights(w, S)
  PROVE  /\ \E h : TakesAny(h, S, w)
         /\ \A h : TakesAny(h, S, w) => Sums(h, S, w)
<1>0. PICK g : Sums(g, S, w)
  BY SumExists
<1>1. /\ g \in [SUBSET S -> Int] /\ g[{}] = 0
      /\ \A s \in SUBSET S : s # {} => g[s] = w[AnyOf(s)] + g[s \ {AnyOf(s)}]
  BY <1>0 DEF Sums
<1>2. TakesAny(g, S, w)
  <2>1. \A s \in SUBSET S : g[s] = IF s = {} THEN 0 ELSE w[AnyOf(s)] + g[s \ {AnyOf(s)}]
    BY <1>1
  <2> QED
    BY <1>1, <2>1 DEF TakesAny
<1>3. ASSUME NEW h, TakesAny(h, S, w)
      PROVE  Sums(h, S, w)
  <2>1. /\ \A s \in SUBSET S : h[s] = IF s = {} THEN 0 ELSE w[AnyOf(s)] + h[s \ {AnyOf(s)}]
        /\ DOMAIN h = SUBSET S /\ h = [s \in SUBSET S |-> h[s]]
    BY <1>3 DEF TakesAny
  <2>2. \A s \in SUBSET S : /\ IsFiniteSet(s) /\ Cardinality(s) \in Nat
                            /\ Cardinality(s) = 0 <=> s = {}
    BY FS_Subset, FS_CardinalityType, FS_EmptySet DEF Weights
  <2> DEFINE Same(k) == \A s \in SUBSET S : Cardinality(s) = k => h[s] = g[s]
             U == {k \in Nat : Same(k)}
  <2>3. 0 \in U
    BY <1>1, <2>1, <2>2
  <2>4. ASSUME NEW k \in Nat, k \in U PROVE k + 1 \in U
    <3> SUFFICES ASSUME NEW s \in SUBSET S, Cardinality(s) = k + 1 PROVE h[s] = g[s]
      OBVIOUS
    <3>1. s # {}
      BY <2>2
    <3>2. AnyOf(s) \in s
      BY <3>1 DEF AnyOf
    <3>3. s \ {AnyOf(s)} \in SUBSET S /\ Cardinality(s \ {AnyOf(s)}) = k
      <4>1. Cardinality(s \ {AnyOf(s)}) = Cardinality(s) - 1
        BY <2>2, <3>2, FS_RemoveElement
      <4> QED
        BY <4>1
    <3>4. h[s \ {AnyOf(s)}] = g[s \ {AnyOf(s)}]
      BY <2>4, <3>3
    <3> QED
      BY <1>1, <2>1, <3>1, <3>4
  <2>5. \A s \in SUBSET S : h[s] = g[s]
    <3>1. Nat \subseteq U
      <4> HIDE DEF U
      <4> QED
        BY <2>3, <2>4, CountingUp
    <3> QED
      BY <2>2, <3>1
  <2>6. h = g
    BY <1>1, <2>1, <2>5
  <2> QED
    BY <1>0, <2>6
<1> QED
  BY <1>2, <1>3

SumOver(f, S) == MapThenSumSet(LAMBDA t : f[t], S)

\* A sum over a set is the value of a function that sums.
LEMMA SumSetSums ==
  ASSUME NEW w, NEW S, Weights(w, S)
  PROVE  \E g : Sums(g, S, w) /\ SumOver(w, S) = g[S]
<1> DEFINE By(g) == g = [s \in SUBSET S |-> IF s = {} THEN 0
                                            ELSE w[AnyOf(s)] + g[s \ {AnyOf(s)}]]
           h == CHOOSE g : By(g)
<1>1. SumOver(w, S) = h[S]
  BY Zenon DEF SumOver, MapThenSumSet, MapThenFoldSet, AnyOf
<1>2. \A g : By(g) <=> TakesAny(g, S, w)
  BY DEF TakesAny
<1> HIDE DEF By
<1>3. TakesAny(h, S, w)
  <2>1. \E g : By(g)
    BY <1>2, WhatTakesAnySums
  <2> QED
    BY <1>2, <2>1
<1> HIDE DEF h
<1>4. Sums(h, S, w)
  BY <1>3, WhatTakesAnySums
<1> QED
  BY <1>1, <1>4

\* The same of what the readings at these offsets say.
LEMMA SumOfReadings ==
  ASSUME NEW f, NEW S, NEW w, Weights(w, S), \A o \in S : w[o] = f[topic[o].time]
  PROVE  \E g : Sums(g, S, w) /\ Sum(f, S) = g[S]
<1> DEFINE By(g) == g = [s \in SUBSET S |-> IF s = {} THEN 0
                                            ELSE f[topic[AnyOf(s)].time] + g[s \ {AnyOf(s)}]]
           h == CHOOSE g : By(g)
<1>1. Sum(f, S) = h[S]
  BY Zenon DEF Sum, MapThenSumSet, MapThenFoldSet, AnyOf
<1>2. ASSUME NEW g PROVE By(g) <=> TakesAny(g, S, w)
  <2>1. \A s \in SUBSET S : s # {} => f[topic[AnyOf(s)].time] = w[AnyOf(s)]
    BY DEF AnyOf
  <2>2. \A s \in SUBSET S :
          (IF s = {} THEN 0 ELSE f[topic[AnyOf(s)].time] + g[s \ {AnyOf(s)}])
            = (IF s = {} THEN 0 ELSE w[AnyOf(s)] + g[s \ {AnyOf(s)}])
    BY <2>1
  <2>3. [s \in SUBSET S |-> IF s = {} THEN 0
                            ELSE f[topic[AnyOf(s)].time] + g[s \ {AnyOf(s)}]]
          = [s \in SUBSET S |-> IF s = {} THEN 0 ELSE w[AnyOf(s)] + g[s \ {AnyOf(s)}]]
    BY <2>2
  <2> QED
    BY <2>3, Zenon DEF TakesAny
<1> HIDE DEF By
<1>3. TakesAny(h, S, w)
  <2>1. \E g : By(g)
    BY <1>2, WhatTakesAnySums
  <2> QED
    BY <1>2, <2>1
<1> HIDE DEF h
<1>4. Sums(h, S, w)
  BY <1>3, WhatTakesAnySums
<1> QED
  BY <1>1, <1>4

-----------------------------------------------------------------------------
(* Which readings are billed.                                              *)

\* A reading that was accepted is accepted again as it is archived.
LEMMA AcceptedAgain ==
  ASSUME NEW m
  PROVE  LET body == Typed(Untouched(m)) IN
         /\ IsBody(body) /\ NothingRaises(body, MeterReadingFields)
         /\ RowVerdict(body, MeterReadingFields, TRUE) = "none"
<1> DEFINE b == Untouched(m)
           body == Typed(b)
           absent == {f \in DOMAIN b.damage : b.damage[f] = "absent"}
<1>1. b.json = TRUE /\ \A name : ClassOf(b, name) = "valid"
                                 \/ (name = "voltage_v" /\ ClassOf(b, name) = "absent")
  BY UntouchedClass
<1>2. body = [json |-> TRUE, damage |-> [f \in absent |-> "absent"]]
  BY DEF Typed, Body
<1>3. body.json = TRUE /\ \A name : ClassOf(body, name) = IF name \in absent THEN "absent"
                                                          ELSE "valid"
  <2> HIDE DEF absent, body
  <2> QED
    BY <1>2 DEF ClassOf
<1>4. \A name \in absent : name = "voltage_v"
  <2> TAKE name \in absent
  <2>1. ClassOf(b, name) = b.damage[name] /\ b.damage[name] = "absent"
    <3> HIDE DEF b
    <3> QED
      BY <1>1 DEF ClassOf
  <2> HIDE DEF b
  <2>2. ClassOf(b, name) = "absent"
    BY <2>1
  <2> QED
    BY <1>1, <2>2
<1> HIDE DEF body, absent, b
<1>5. OnlyFault(body, "event_id", "valid")
  <2>1. "event_id" \in Names \ {"voltage_v"}
    BY DEF Names
  <2>2. ClassOf(body, "event_id") = "valid"
    BY <1>3, <1>4
  <2> QED
    BY <1>3, <1>4, <2>1, <2>2 DEF OnlyFault
<1>6. NothingRaises(body, MeterReadingFields)
  BY <1>3 DEF NothingRaises, Raises
<1>7. IsBody(body)
  BY <1>3 DEF IsBody
<1>8. RowVerdict(body, MeterReadingFields, TRUE) = "none"
  BY <1>5, OneFaultVerdict
<1> QED
  BY <1>6, <1>7, <1>8 DEF body, b

\* What a reading of the day is, and when it was archived.
LEMMA ReadingIs ==
  ASSUME TypeOK, NEW o \in 1..Len(topic), OfDay(topic[o].time)
  PROVE  /\ topic[o].meter \in Meters /\ topic[o].time \in Rounds
         /\ Reason(o) = "none" <=> topic[o].fault \notin Damages
         /\ topic[o].fault \notin Damages => topic[o].body = Untouched(topic[o].meter)
<1> DEFINE x == topic[o]
<1>1. x \in Made
  <2>1. x \in Made \cup Strays
    BY DEF TypeOK, MetersTypeOK
  <2>2. x \notin Strays
    <3>1. \A b : Message(0, LongAgo, "strange", b).time = -1
      BY DEF Message, LongAgo
    <3>2. x.time # -1
      BY DEF OfDay
    <3> HIDE DEF x
    <3> QED
      BY <3>1, <3>2 DEF Strays
  <2> QED
    BY <2>1, <2>2
<1>2. PICK m \in Meters, t \in Rounds, f \in Labels : x \in Build(m, t, f)
  BY <1>1 DEF Made, Mine
<1> HIDE DEF x
<1>3. /\ x.meter = m /\ x.time = t /\ x.fault = f
      /\ f \notin Damages => x = TheMessage(m, t, f)
  BY <1>2, BuildIs
<1>4. RowVerdict(x.body, MeterReadingFields, TRUE) = ExpectedQuarantine(x.fault)
  BY <1>1, MadeVerdict
<1>5. ExpectedQuarantine(f) = "none" <=> f \notin Damages
  BY FaultsAssumption DEF ExpectedQuarantine, Labels, ContentFaults
<1>6. f \notin Damages => x.body = Untouched(m)
  BY <1>3 DEF TheMessage, Message
<1> QED
  BY <1>2, <1>3, <1>4, <1>5, <1>6 DEF Reason, x

\* Readings of the day that have arrived intact.
Intact == {o \in 1..ingested : OfDay(topic[o].time) /\ topic[o].fault \notin Damages}

\* Settlement bills from the readings that arrived intact, and from no others.
LEMMA RevalidatedIs ==
  ASSUME TypeOK, Judged
  PROVE  Revalidated = Intact
<1> DEFINE mine  == {o \in archive : OfDay(topic[o].time)}
           batch == [o \in mine |-> Typed(topic[o].body)]
<1>0. \A o \in 1..ingested : o \in 1..Len(topic)
  BY DEF TypeOK, MetersTypeOK
<1>1. mine = Intact
  BY <1>0, ReadingIs DEF Judged, Intact
<1>2. ASSUME NEW o \in mine
      PROVE  FrameVerdicts(batch, MeterReadingFields)[o] = "none"
  <2>1. topic[o].body = Untouched(topic[o].meter)
    BY <1>0, <1>1, ReadingIs DEF Intact
  <2>2. batch[o] = Typed(Untouched(topic[o].meter)) /\ o \in DOMAIN batch
    BY <2>1
  <2> HIDE DEF batch
  <2>3. /\ IsBody(batch[o]) /\ NothingRaises(batch[o], MeterReadingFields)
        /\ RowVerdict(batch[o], MeterReadingFields, TRUE) = "none"
    BY <2>2, AcceptedAgain
  <2>4. FrameVerdicts(batch, MeterReadingFields)[o]
          = RowVerdict(batch[o], MeterReadingFields, TRUE)
    BY <2>2, <2>3, SchemaType, VerdictsAgree
  <2> QED
    BY <2>3, <2>4
<1>3. Revalidated = {o \in DOMAIN batch : FrameVerdicts(batch, MeterReadingFields)[o] = "none"}
  BY Zenon DEF Revalidated
<1>4. DOMAIN batch = mine
  OBVIOUS
<1> HIDE DEF batch, mine
<1> QED
  BY <1>1, <1>2, <1>3, <1>4

-----------------------------------------------------------------------------
(* What a household used.                                                  *)

Own(h) == {o \in Deduplicated(Intact) : topic[o].meter = h}

\* One reading of each interval that is fit to bill.
LEMMA OneReadingEach ==
  ASSUME TypeOK, NEW h
  PROVE  /\ [o \in Own(h) |-> topic[o].time] \in Bijection(Own(h), Fit(h, ingested))
         /\ IsFiniteSet(Own(h)) /\ IsFiniteSet(Fit(h, ingested))
         /\ Fit(h, ingested) \subseteq Rounds
<1> DEFINE D == Deduplicated(Intact)
           S == Own(h)
           T == Fit(h, ingested)
           f == [o \in S |-> topic[o].time]
<1>0. ingested \in Nat /\ LastOfDay \in Nat /\ 0..LastOfDay \subseteq Rounds
  BY DayAssumption, RoundsAssumption DEF TypeOK, MetersTypeOK, Rounds
<1>1. \A o : o \in Intact <=> /\ o \in 1..ingested /\ topic[o].time \in 0..LastOfDay
                              /\ topic[o].fault \notin Damages
  BY DEF Intact, OfDay
<1>2. \A o, p : EventId(p) = EventId(o)
                  <=> topic[p].meter = topic[o].meter /\ topic[p].time = topic[o].time
  BY DEF EventId
<1>3. \A o : o \in S <=> /\ o \in Intact /\ topic[o].meter = h
                         /\ \A p \in Intact : EventId(p) = EventId(o) => o <= p
  BY DEF Own, Deduplicated
<1>4. \A t : t \in T <=> /\ t \in 0..LastOfDay
                         /\ \E o \in 1..ingested : topic[o].meter = h /\ topic[o].time = t
                                                   /\ topic[o].fault \notin Damages
  BY DEF Fit
<1> HIDE DEF S, T
<1>5. f \in [S -> T]
  BY <1>1, <1>3, <1>4
<1>6. ASSUME NEW o \in S, NEW p \in S, f[o] = f[p] PROVE o = p
  <2>1. EventId(o) = EventId(p) /\ EventId(p) = EventId(o)
    BY <1>2, <1>3, <1>6
  <2>2. o <= p /\ p <= o /\ o \in Int /\ p \in Int
    BY <1>0, <1>1, <1>3, <2>1
  <2> QED
    BY <2>2
<1>7. ASSUME NEW t \in T PROVE \E o \in S : f[o] = t
  <2> DEFINE A == {o \in Intact : topic[o].meter = h /\ topic[o].time = t}
  <2>1. A # {} /\ A \in SUBSET Nat
    BY <1>0, <1>1, <1>4
  <2> HIDE DEF A
  <2>2. PICK o \in A : \A p \in A : o <= p
    BY <2>1, LeastNatural
  <2> USE DEF A
  <2>3. \A p \in Intact : EventId(p) = EventId(o) => o <= p
    BY <1>2, <2>2
  <2>4. o \in S /\ topic[o].time = t
    BY <1>3, <2>2, <2>3
  <2> QED
    BY <2>4
<1>8. f \in Bijection(S, T)
  <2> HIDE DEF f
  <2> QED
    BY <1>5, <1>6, <1>7 DEF Bijection, Injection, Surjection, IsInjective
<1>9. IsFiniteSet(S) /\ IsFiniteSet(T) /\ T \subseteq Rounds
  <2>1. IsFiniteSet(1..ingested) /\ IsFiniteSet(0..LastOfDay)
    BY <1>0, FS_Interval
  <2>2. S \subseteq 1..ingested /\ T \subseteq 0..LastOfDay
    BY <1>1, <1>3, <1>4
  <2> QED
    BY <1>0, <2>1, <2>2, FS_Subset
<1> QED
  BY <1>8, <1>9 DEF S, T

\* The sum over a household's offsets is the sum over its intervals.
LEMMA ReadingsAddUp ==
  ASSUME TypeOK, NEW h, NEW f \in [Rounds -> Nat]
  PROVE  /\ Sum(f, Own(h)) = SumOver(f, Fit(h, ingested))
         /\ SumOver(f, Fit(h, ingested)) \in Int
         /\ Own(h) = {} => SumOver(f, Fit(h, ingested)) = 0
<1> DEFINE S == Own(h)
           T == Fit(h, ingested)
           b == [o \in S |-> topic[o].time]
           w == [o \in S |-> f[topic[o].time]]
<1>1. b \in Bijection(S, T) /\ IsFiniteSet(S) /\ IsFiniteSet(T) /\ T \subseteq Rounds
  BY OneReadingEach
<1>2. \A o \in S : b[o] = topic[o].time /\ w[o] = f[topic[o].time]
  OBVIOUS
<1> HIDE DEF b, w, S, T
<1>3. \A o \in S : b[o] \in T /\ w[o] = f[b[o]]
  BY <1>1, <1>2 DEF Bijection, Injection
<1>4. Weights(w, S) /\ Weights(f, T)
  BY <1>1, <1>3 DEF Weights
<1>5. PICK g : Sums(g, S, w) /\ Sum(f, S) = g[S]
  BY <1>2, <1>4, SumOfReadings
<1>6. PICK k : Sums(k, T, f) /\ SumOver(f, T) = k[T]
  BY <1>4, SumSetSums
<1>7. g[S] = k[T] /\ g[S] \in Int
  BY <1>1, <1>3, <1>4, <1>5, <1>6, SumsMatch
<1>8. S = {} => g[S] = 0
  BY <1>5 DEF Sums
<1> QED
  BY <1>5, <1>6, <1>7, <1>8 DEF S, T

\* What a household is billed for, whether it has readings or not.
UsedBy(usage, h) ==
  IF h \in DOMAIN usage THEN usage[h] ELSE [readings |-> 0, use |-> 0, gen |-> 0]

\* What a settlement takes a household to have used and generated.
LEMMA UsageIs ==
  ASSUME TypeOK, Judged, NEW h
  PROVE  LET used == UsedBy(Usage(Deduplicated(Revalidated)), h) IN
         /\ used.use = SumOver(Load, Fit(h, ingested)) /\ used.use \in Int
         /\ used.gen = SumOver(Solar, Fit(h, ingested)) /\ used.gen \in Int
<1> DEFINE D == Deduplicated(Intact)
           usage == Usage(D)
<1>1. Deduplicated(Revalidated) = D
  BY RevalidatedIs
<1>2. usage = [k \in {topic[o].meter : o \in D} |->
                 [readings |-> Cardinality(Own(k)), use |-> Sum(Load, Own(k)),
                  gen |-> Sum(Solar, Own(k))]]
  BY Zenon DEF Usage, Own
<1>3. /\ Sum(Load, Own(h)) = SumOver(Load, Fit(h, ingested))
      /\ SumOver(Load, Fit(h, ingested)) \in Int
      /\ Own(h) = {} => SumOver(Load, Fit(h, ingested)) = 0
  BY DayAssumption, ReadingsAddUp
<1>4. /\ Sum(Solar, Own(h)) = SumOver(Solar, Fit(h, ingested))
      /\ SumOver(Solar, Fit(h, ingested)) \in Int
      /\ Own(h) = {} => SumOver(Solar, Fit(h, ingested)) = 0
  BY DayAssumption, ReadingsAddUp
<1>5. h \in DOMAIN usage <=> Own(h) # {}
  BY <1>2 DEF Own
<1>6. CASE Own(h) # {}
  <2>1. UsedBy(usage, h) = [readings |-> Cardinality(Own(h)), use |-> Sum(Load, Own(h)),
                            gen |-> Sum(Solar, Own(h))]
    BY <1>2, <1>5, <1>6 DEF UsedBy
  <2> QED
    BY <1>1, <1>3, <1>4, <2>1
<1>7. CASE Own(h) = {}
  <2>1. UsedBy(usage, h) = [readings |-> 0, use |-> 0, gen |-> 0]
    BY <1>5, <1>7 DEF UsedBy
  <2> QED
    BY <1>1, <1>3, <1>4, <1>7, <2>1
<1> QED
  BY <1>6, <1>7

-----------------------------------------------------------------------------
(* What a settlement bills.                                                *)

BillOf(usage, h, schedule) ==
  CalculateBill(UsedBy(usage, h).use, UsedBy(usage, h).gen, TierOf[h], h \in Subsidised,
                schedule.tiers[TierOf[h]].fixed, schedule)

\* Each household of the fleet gets the bill of its own record.
LEMMA SettleIs ==
  ASSUME NEW schedule, LikeDefault(schedule), NEW files, files.schedule = schedule,
         Lists(files.households, schedule), NEW usage
  PROVE  SettleHouseholds(Day, usage, files)
           = [h \in Households |-> BillOf(usage, h, schedule)]
<1> DEFINE s == files.households
           records == ToSet(s)
           ids == {r.id : r \in records}
           the(h) == CHOOSE r \in records : r.id = h
           used(h) == IF h \in DOMAIN usage THEN usage[h]
                      ELSE [readings |-> 0, use |-> 0, gen |-> 0]
           bill(h) == CalculateBill(used(h).use, used(h).gen, the(h).tier, the(h).subsidised,
                                    the(h).fixed, files.schedule)
<1>1. SettleHouseholds(Day, usage, files) = [h \in ids |-> bill(h)]
  BY Zenon DEF SettleHouseholds
<1>2. /\ s \in Seq(Records) /\ Len(s) \in Nat
      /\ \A i \in 1..Len(s) : s[i] \in Records /\ s[i].id \in Households
                              /\ s[i] = TariffRecord(s[i].id, Day, schedule)
      /\ \A h \in Households : \E i \in 1..Len(s) : s[i].id = h
      /\ \A r : r \in records <=> \E i \in 1..Len(s) : r = s[i]
  <2>1. s \in Seq(Records)
    BY DEF Lists
  <2>2. \A r \in Records : r.id \in Households
    BY DEF Records
  <2>3. \A i \in 1..Len(s) : s[i] \in Records
    BY <2>1
  <2>4. \A r : r \in records <=> \E i \in 1..Len(s) : r = s[i]
    BY <2>1 DEF ToSet
  <2> HIDE DEF s, records
  <2> QED
    BY <2>1, <2>2, <2>3, <2>4 DEF Lists, s
<1> HIDE DEF s, records
<1>3. ids = Households
  <2>1. \A h \in ids : h \in Households
    BY <1>2
  <2>2. \A h \in Households : h \in ids
    BY <1>2
  <2> QED
    BY <2>1, <2>2
<1>4. ASSUME NEW h \in Households PROVE bill(h) = BillOf(usage, h, schedule)
  <2>1. the(h) \in records /\ the(h).id = h
    <3>1. \E r \in records : r.id = h
      BY <1>2
    <3> QED
      BY <3>1, Zenon
  <2> HIDE DEF the
  <2>2. the(h) = TariffRecord(h, Day, schedule)
    BY <1>2, <2>1
  <2>3. /\ the(h).tier = TierOf[h] /\ the(h).subsidised = (h \in Subsidised)
        /\ the(h).fixed = schedule.tiers[TierOf[h]].fixed
    <3>1. Describes(the(h), h, schedule)
      BY <2>2, RecordIs
    <3> QED
      BY <3>1, Zenon DEF Describes
  <2>4. used(h) = UsedBy(usage, h)
    BY DEF UsedBy
  <2> HIDE DEF used
  <2> QED
    BY <2>3, <2>4, Zenon DEF BillOf
<1> HIDE DEF bill, ids
<1>5. [h \in Households |-> bill(h)] = [h \in Households |-> BillOf(usage, h, schedule)]
  BY <1>4
<1> QED
  BY <1>1, <1>3, <1>5

\* A schedule that can be billed by.
Sound(schedule) ==
  /\ schedule.subsidy = SubsidyRate /\ schedule.credit = CreditRate
  /\ \A t \in Tiers :
       /\ Schedulable(schedule.tiers[t].blocks)
       /\ schedule.tiers[t].fixed = DefaultSchedule.tiers[t].fixed
       /\ schedule.tiers[t].fixed \in Int

\* Every revision with positive rates can be billed by.
LEMMA SchedulesAreSound ==
  ASSUME NEW schedule, LikeDefault(schedule), RatesArePositive(schedule)
  PROVE  Sound(schedule)
<1>1. /\ DOMAIN schedule.tiers = Tiers
      /\ schedule.credit = CreditRate /\ schedule.subsidy = SubsidyRate
  BY LikeDefaultIs
<1>2. ASSUME NEW t \in Tiers
      PROVE  /\ Schedulable(schedule.tiers[t].blocks)
             /\ schedule.tiers[t].fixed = DefaultSchedule.tiers[t].fixed
             /\ schedule.tiers[t].fixed \in Int
  <2> DEFINE blocks == schedule.tiers[t].blocks
             fixed == schedule.tiers[t].fixed
  <2>1. /\ DOMAIN blocks = 1..Len(blocks) /\ fixed \in 0..FixedLimit
        /\ \A i \in 1..Len(blocks) : blocks[i].rate \in Int
        /\ (\A i \in 1..Len(blocks) : blocks[i].rate >= 0) => Schedulable(blocks)
    BY LikeDefaultIs
  <2>2. \A i \in 1..Len(blocks) : blocks[i].rate > 0
    BY <1>1, <2>1 DEF RatesArePositive
  <2>3. fixed = DefaultSchedule.tiers[t].fixed
    BY DEF LikeDefault, Alike
  <2> HIDE DEF blocks, fixed
  <2>4. fixed \in Int
    BY <2>1
  <2>5. Schedulable(blocks)
    BY <2>1, <2>2
  <2> QED
    BY <2>3, <2>4, <2>5 DEF blocks, fixed
<1> QED
  BY <1>1, <1>2 DEF Sound

\* What a bill is, whatever was used.
LEMMA BillIsSound ==
  ASSUME NEW schedule, LikeDefault(schedule), RatesArePositive(schedule),
         NEW h \in Households, NEW usage,
         UsedBy(usage, h).use \in Int, UsedBy(usage, h).gen \in Int
  PROVE  LET bill   == BillOf(usage, h, schedule)
             blocks == schedule.tiers[TierOf[h]].blocks
         IN /\ bill.import - bill.export = UsedBy(usage, h).use - UsedBy(usage, h).gen
            /\ 2 * Distance(PerKwh * bill.energy, MarginalCost(bill.import, blocks))
                 <= PerKwh * Len(bill.lines)
            /\ bill.import = 0 \/ bill.export = 0
            /\ bill.subsidy \in 0..bill.energy
<1> DEFINE use == UsedBy(usage, h).use
           gen == UsedBy(usage, h).gen
           tier == TierOf[h]
           mine == h \in Subsidised
           fixed == schedule.tiers[tier].fixed
           blocks == schedule.tiers[tier].blocks
<1>1. tier \in Tiers
  BY FleetAssumption, DefaultIsLikeItself, LikeDefaultIs
<1>2. Schedulable(blocks) /\ fixed \in Int /\ schedule.subsidy = SubsidyRate
  BY <1>1, SchedulesAreSound DEF Sound
<1>3. use \in Int /\ gen \in Int /\ mine \in BOOLEAN
  OBVIOUS
<1>4. BillOf(usage, h, schedule) = CalculateBill(use, gen, tier, mine, fixed, schedule)
  BY DEF BillOf
<1> HIDE DEF use, gen, tier, mine, fixed
<1>5. LET bill == CalculateBill(use, gen, tier, mine, fixed, schedule)
      IN /\ bill.import - bill.export = use - gen
         /\ 2 * Distance(PerKwh * bill.energy,
                         MarginalCost(bill.import, schedule.tiers[tier].blocks))
              <= PerKwh * Len(bill.lines)
         /\ bill.import = 0 \/ bill.export = 0
         /\ bill.subsidy \in 0..bill.energy
  BY <1>2, <1>3, BillIs
<1> DEFINE bill == BillOf(usage, h, schedule)
<1>6. /\ bill.import - bill.export = use - gen
      /\ 2 * Distance(PerKwh * bill.energy,
                      MarginalCost(bill.import, schedule.tiers[tier].blocks))
           <= PerKwh * Len(bill.lines)
      /\ bill.import = 0 \/ bill.export = 0
      /\ bill.subsidy \in 0..bill.energy
  BY <1>4, <1>5, Zenon
<1> HIDE DEF bill
<1>7. /\ bill.import - bill.export = UsedBy(usage, h).use - UsedBy(usage, h).gen
      /\ 2 * Distance(PerKwh * bill.energy,
                      MarginalCost(bill.import, schedule.tiers[TierOf[h]].blocks))
           <= PerKwh * Len(bill.lines)
      /\ bill.import = 0 \/ bill.export = 0
      /\ bill.subsidy \in 0..bill.energy
  BY <1>6, Zenon DEF use, gen, tier
<1> QED
  BY <1>7, Zenon DEF bill

-----------------------------------------------------------------------------
(* The bills of the day.                                                   *)

\* A settlement billed the readings that had come by then, from a version of the
\* drop that the gate passed.
BillIsRight(b) ==
  /\ b.version \in 1..Len(versions) /\ b.upTo \in 0..Len(topic)
  /\ LikeDefault(ScheduleIn(versions[b.version]))
  /\ RatesArePositive(ScheduleIn(versions[b.version]))
  /\ b.of = [h \in Households |-> BillOf(b.usage, h, ScheduleIn(versions[b.version]))]
  /\ \A h \in Households :
       LET used == UsedBy(b.usage, h) IN
       /\ used.use = SumOver(Load, Fit(h, b.upTo)) /\ used.use \in Int
       /\ used.gen = SumOver(Solar, Fit(h, b.upTo)) /\ used.gen \in Int

BillsInv == Sequential(bills) /\ \A i \in 1..Len(bills) : BillIsRight(bills[i])

VersionsGrow ==
  /\ Len(versions) \in Nat /\ Len(versions') \in Nat /\ Len(versions) <= Len(versions')
  /\ \A i \in 1..Len(versions) : versions'[i] = versions[i]

\* No version is changed or removed.
LEMMA VersionsStay == VersionsInv /\ [Next]_vars => VersionsGrow
<1> SUFFICES ASSUME VersionsInv, [Next]_vars PROVE VersionsGrow
  OBVIOUS
<1>0. Sequential(versions) /\ Len(versions) \in Nat
  BY AppendIs DEF VersionsInv
<1>1. ASSUME NEW x, versions' = Append(versions, x) PROVE VersionsGrow
  <2>1. Len(versions') = Len(versions) + 1 /\ \A i \in 1..Len(versions) : versions'[i] = versions[i]
    BY <1>0, <1>1, AppendIs
  <2> QED
    BY <1>0, <2>1 DEF VersionsGrow
<1>2. CASE Publish
  <2>1. \E x : versions' = Append(versions, x)
    BY <1>2, Zenon DEF Publish
  <2> QED
    BY <1>1, <2>1
<1>3. CASE Revise
  <2>1. \E x : versions' = Append(versions, x)
    BY <1>3, Zenon DEF Revise
  <2> QED
    BY <1>1, <2>1
<1>4. CASE ~Publish /\ ~Revise
  <2>1. versions' = versions
    BY <1>4 DEF Next, Meter, SendStrange, Ingest, Settle, vars
  <2> QED
    BY <1>0, <2>1 DEF VersionsGrow
<1> QED
  BY <1>2, <1>3, <1>4

\* What has been billed stays billed from the same readings and the same schedule.
LEMMA BillStays ==
  ASSUME TypeOK, TopicGrows, Len(topic') \in Nat, VersionsGrow, NEW b, BillIsRight(b)
  PROVE  BillIsRight(b)'
<1>0. Len(topic) \in Nat /\ Len(topic) <= Len(topic') /\ b.upTo \in 0..Len(topic)
  BY DEF TypeOK, MetersTypeOK, TopicGrows, BillIsRight
<1>1. \A h : Fit(h, b.upTo)' = Fit(h, b.upTo)
  <2>1. \A o \in 1..b.upTo : topic'[o] = topic[o]
    BY <1>0 DEF TopicGrows
  <2> QED
    BY <2>1 DEF Fit
<1>2. versions'[b.version] = versions[b.version] /\ b.version \in 1..Len(versions')
      /\ b.upTo \in 0..Len(topic')
  BY <1>0 DEF VersionsGrow, BillIsRight
<1> QED
  BY <1>1, <1>2 DEF BillIsRight

\* Settle adds a right bill; no other step touches any.
LEMMA BillsStep ==
  TypeOK /\ Judged /\ VersionsInv /\ BillsInv /\ [Next]_vars => BillsInv'
<1> SUFFICES ASSUME TypeOK, Judged, VersionsInv, BillsInv, [Next]_vars PROVE BillsInv'
  OBVIOUS
<1>1. TypeOK' /\ TopicGrows /\ VersionsGrow
  BY TypeStep, VersionsStay
<1>2. Len(topic') \in Nat
  BY <1>1 DEF TypeOK, MetersTypeOK
<1>3. \A b : BillIsRight(b) => BillIsRight(b)'
  BY <1>1, <1>2, BillStays
<1>4. CASE Settle
  <2> DEFINE n == Len(versions)
             upload == versions[n].upload
             usage == Usage(Deduplicated(Revalidated))
             schedule == ScheduleIn(versions[n])
  <2>1. n \in 1..n /\ Last(versions) = versions[n]
    BY <1>4, AppendIs DEF Settle, VersionsInv, Last
  <2>2. /\ CheckDrop(upload, Day) = {}
        /\ bills' = Append(bills, [version |-> n, upTo |-> ingested, usage |-> usage,
                                   of |-> SettleHouseholds(Day, usage, upload.files)])
    BY <1>4, <2>1, Zenon DEF Settle
  <2>3. PICK b : b = [version |-> n, upTo |-> ingested, usage |-> usage,
                      of |-> SettleHouseholds(Day, usage, upload.files)]
    OBVIOUS
  <2>4. b.version = n /\ b.upTo = ingested /\ b.usage = usage
        /\ b.of = SettleHouseholds(Day, usage, upload.files)
    BY <2>3
  <2>5. bills' = Append(bills, b)
    BY <2>2, <2>3, Zenon
  <2>6. /\ LikeDefault(schedule) /\ RatesArePositive(schedule)
        /\ upload.files.schedule = schedule /\ Lists(upload.files.households, schedule)
    <3>1. VersionIsRight(versions, n)
      BY <2>1 DEF VersionsInv
    <3>2. versions[n].corruption = "none"
      <4> SUFFICES ASSUME versions[n].corruption # "none" PROVE FALSE
        OBVIOUS
      <4>1. /\ versions[n].corruption \in Corruptions
            /\ upload \in Uploads(Day, DefaultSchedule, versions[n].corruption)
        BY <3>1 DEF VersionIsRight, Damage
      <4>2. ExpectedCheck[versions[n].corruption] \in CheckDrop(upload, Day)
        BY <4>1, DamagedDrop
      <4> QED
        BY <2>2, <4>2
    <3>3. /\ LikeDefault(schedule) /\ CanRender(Day, schedule)
          /\ upload \in Uploads(Day, schedule, "none")
      BY <3>1, <3>2 DEF VersionIsRight, Undamaged
    <3> HIDE DEF schedule, upload
    <3> QED
      BY <2>2, <3>3, PlainDrop
  <2>7. SettleHouseholds(Day, usage, upload.files)
          = [h \in Households |-> BillOf(usage, h, schedule)]
    <3> HIDE DEF schedule, upload, usage
    <3> QED
      BY <2>6, SettleIs
  <2>8. \A h : /\ UsedBy(usage, h).use = SumOver(Load, Fit(h, ingested))
               /\ UsedBy(usage, h).use \in Int
               /\ UsedBy(usage, h).gen = SumOver(Solar, Fit(h, ingested))
               /\ UsedBy(usage, h).gen \in Int
    BY UsageIs
  <2>9. ingested \in 0..Len(topic)
    BY DEF TypeOK
  <2>10. BillIsRight(b)
    <3> HIDE DEF usage, upload
    <3> QED
      BY <2>1, <2>4, <2>6, <2>7, <2>8, <2>9 DEF BillIsRight
  <2>11. BillIsRight(b)'
    BY <1>3, <2>10
  <2>12. /\ Sequential(bills') /\ Len(bills) \in Nat /\ Len(bills') = Len(bills) + 1
         /\ \A i \in 1..Len(bills) : bills'[i] = bills[i]
         /\ bills'[Len(bills) + 1] = b
    BY <2>5, AppendIs DEF BillsInv
  <2>13. \A i \in 1..Len(bills) : BillIsRight(bills[i])'
    BY <1>3, <2>12 DEF BillsInv
  <2> QED
    BY <2>11, <2>12, <2>13 DEF BillsInv
<1>5. CASE ~Settle
  <2>1. bills' = bills
    BY <1>5 DEF Next, Meter, SendStrange, Ingest, Publish, Revise, vars
  <2> QED
    BY <1>3, <2>1 DEF BillsInv
<1> QED
  BY <1>4, <1>5

\* Everything the bills rest on.
BilledRight == TypeOK /\ Judged /\ VersionsInv /\ BillsInv

\* There is nothing to bill at first.
LEMMA BilledInit == Init => BilledRight
<1> SUFFICES ASSUME Init PROVE BilledRight
  OBVIOUS
<1>1. TypeOK
  BY TypeInit
<1>2. Judged
  <2>1. ingested = 0 /\ archive = {} /\ dead = {} /\ poisoned = FALSE
    BY DEF Init
  <2> QED
    BY <2>1 DEF Judged
<1>3. /\ versions \in Seq({}) /\ Len(versions) = 0
      /\ bills \in Seq({}) /\ Len(bills) = 0
  BY DEF Init
<1> QED
  BY <1>1, <1>2, <1>3 DEF BilledRight, VersionsInv, BillsInv, Sequential

\* Every step keeps it.
LEMMA BilledStep == BilledRight /\ [Next]_vars => BilledRight'
  BY TypeStep, JudgedStep, VersionsStep, BillsStep DEF BilledRight

\* So every settlement is right at every moment.
LEMMA BilledIs ==
  ASSUME BilledRight, NEW i \in DOMAIN bills
  PROVE  BillIsRight(bills[i])
<1>1. i \in 1..Len(bills)
  BY AppendIs DEF BilledRight, BillsInv
<1> QED
  BY <1>1 DEF BilledRight, BillsInv

\* Each settlement bills every household of the fleet, for each interval whose
\* reading arrived intact by then and for each just once: whatever the copies,
\* the late and uploaded readings, the damaged and strange messages, what a
\* household imports less what it exports is what its meter drew less what it
\* generated (read_archive, dropDuplicates and the aggregation of settle_day).
THEOREM EveryIntervalIsBilledOnce == Spec => []EachReadingBilledOnce
<1>1. BilledRight => EachReadingBilledOnce
  <2> SUFFICES ASSUME BilledRight, NEW i \in DOMAIN bills
               PROVE  /\ DOMAIN bills[i].of = Households
                      /\ \A h \in Households :
                           LET of(f) == MapThenSumSet(LAMBDA t : f[t], Fit(h, bills[i].upTo))
                           IN bills[i].of[h].import - bills[i].of[h].export
                                = of(Load) - of(Solar)
    BY Zenon DEF EachReadingBilledOnce
  <2> DEFINE b == bills[i]
             schedule == ScheduleIn(versions[b.version])
  <2>1. BillIsRight(b)
    BY BilledIs
  <2> HIDE DEF b
  <2>2. /\ LikeDefault(schedule) /\ RatesArePositive(schedule)
        /\ b.of = [h \in Households |-> BillOf(b.usage, h, schedule)]
        /\ \A h \in Households :
             /\ UsedBy(b.usage, h).use = SumOver(Load, Fit(h, b.upTo))
             /\ UsedBy(b.usage, h).use \in Int
             /\ UsedBy(b.usage, h).gen = SumOver(Solar, Fit(h, b.upTo))
             /\ UsedBy(b.usage, h).gen \in Int
    BY <2>1 DEF BillIsRight
  <2> HIDE DEF schedule
  <2>3. DOMAIN b.of = Households
    BY <2>2
  <2>4. ASSUME NEW h \in Households
        PROVE  b.of[h].import - b.of[h].export
                 = SumOver(Load, Fit(h, b.upTo)) - SumOver(Solar, Fit(h, b.upTo))
    <3>1. LET bill == BillOf(b.usage, h, schedule)
          IN bill.import - bill.export = UsedBy(b.usage, h).use - UsedBy(b.usage, h).gen
      BY <2>2, BillIsSound
    <3>2. b.of[h] = BillOf(b.usage, h, schedule)
      BY <2>2
    <3> QED
      BY <2>2, <3>1, <3>2, Zenon
  <2> QED
    BY <2>3, <2>4, Zenon DEF SumOver, b
<1> QED
  BY <1>1, BilledInit, BilledStep, PTL DEF Spec

\* Every bill charges each unit at the rate of the block it falls in, give or
\* take half a cent for each of its lines, never both charges and credits energy,
\* and subsidises no more than the energy costs (calculate_bill,
\* block_energy_charge, prorate_blocks), by the default schedule and by every
\* schedule that revisions make of it.
THEOREM EveryBillIsMarginal == Spec => []BillIsMarginal
<1>1. BilledRight => BillIsMarginal
  <2> SUFFICES ASSUME BilledRight, NEW i \in DOMAIN bills, NEW h \in DOMAIN bills[i].of
               PROVE  LET bill   == bills[i].of[h]
                          blocks == ScheduleOf(i).tiers[TierOf[h]].blocks
                      IN /\ 2 * Distance(PerKwh * bill.energy,
                                         MarginalCost(bill.import, blocks))
                              <= PerKwh * Len(bill.lines)
                         /\ bill.import = 0 \/ bill.export = 0
                         /\ bill.subsidy \in 0..bill.energy
    BY Zenon DEF BillIsMarginal
  <2> DEFINE b == bills[i]
             schedule == ScheduleIn(versions[b.version])
             bill == b.of[h]
  <2>1. BillIsRight(b)
    BY BilledIs
  <2>2. h \in DOMAIN b.of /\ ScheduleOf(i) = schedule
    BY DEF ScheduleOf, ScheduleIn
  <2> HIDE DEF b
  <2>3. /\ LikeDefault(schedule) /\ RatesArePositive(schedule)
        /\ b.of = [g \in Households |-> BillOf(b.usage, g, schedule)]
        /\ \A g \in Households : /\ UsedBy(b.usage, g).use \in Int
                                 /\ UsedBy(b.usage, g).gen \in Int
    BY <2>1 DEF BillIsRight
  <2> HIDE DEF schedule
  <2>4. h \in Households /\ bill = BillOf(b.usage, h, schedule)
    BY <2>2, <2>3
  <2> HIDE DEF bill
  <2>5. LET made   == BillOf(b.usage, h, schedule)
            blocks == schedule.tiers[TierOf[h]].blocks
        IN /\ 2 * Distance(PerKwh * made.energy, MarginalCost(made.import, blocks))
                <= PerKwh * Len(made.lines)
           /\ made.import = 0 \/ made.export = 0
           /\ made.subsidy \in 0..made.energy
    BY <2>3, <2>4, BillIsSound
  <2>6. LET blocks == ScheduleOf(i).tiers[TierOf[h]].blocks
        IN /\ 2 * Distance(PerKwh * bill.energy, MarginalCost(bill.import, blocks))
                <= PerKwh * Len(bill.lines)
           /\ bill.import = 0 \/ bill.export = 0
           /\ bill.subsidy \in 0..bill.energy
    BY <2>2, <2>4, <2>5, Zenon
  <2> QED
    BY <2>6, Zenon DEF bill, b
<1> QED
  BY <1>1, BilledInit, BilledStep, PTL DEF Spec

\* However the blocks, the subsidy and the roundings fall: of two settlements of
\* the same usage, the second by a revision of the first one's schedule, no
\* household pays less where the revision raises rates or leaves them, and none
\* pays more where it lowers them (with_rate_change and calculate_bill).
THEOREM RevisionsGoTheirWay == Spec => []RevisionMovesBillsItsWay
<1>1. BilledRight => RevisionMovesBillsItsWay
  <2> SUFFICES ASSUME BilledRight, NEW i \in DOMAIN bills, NEW j \in DOMAIN bills,
                      versions[bills[j].version].base = bills[i].version,
                      bills[i].usage = bills[j].usage, NEW h \in Households
               PROVE  LET revision == versions[bills[j].version]
                      IN /\ revision.percent >= Percent =>
                              bills[j].of[h].total >= bills[i].of[h].total
                         /\ revision.percent <= Percent =>
                              bills[j].of[h].total <= bills[i].of[h].total
    BY Zenon DEF RevisionMovesBillsItsWay
  <2> DEFINE a == bills[i]
             b == bills[j]
             v == versions[b.version]
             old == ScheduleIn(versions[a.version])
             new == ScheduleIn(v)
             use == UsedBy(a.usage, h).use
             gen == UsedBy(a.usage, h).gen
             tier == TierOf[h]
             mine == h \in Subsidised
             fixed == old.tiers[tier].fixed
  <2>1. BillIsRight(a) /\ BillIsRight(b)
    BY BilledIs
  <2>2. v.base = a.version /\ a.usage = b.usage
    OBVIOUS
  <2> HIDE DEF a, b
  <2>3. a.version # 0 /\ b.version \in 1..Len(versions)
    BY <2>1 DEF BillIsRight
  <2>4. VersionIsRight(versions, b.version)
    BY <2>3 DEF BilledRight, VersionsInv
  <2>5. MadeFrom(v, versions[a.version])
    BY <2>2, <2>3, <2>4 DEF VersionIsRight
  <2>6. /\ LikeDefault(old) /\ RatesArePositive(old)
        /\ LikeDefault(new) /\ RatesArePositive(new)
        /\ a.of[h] = BillOf(a.usage, h, old) /\ b.of[h] = BillOf(b.usage, h, new)
        /\ use \in Int /\ gen \in Int
    BY <2>1 DEF BillIsRight
  <2>7. v.percent \in Int /\ \E tiers : new = WithRateChange(old, v.percent, tiers)
    BY <2>5 DEF MadeFrom
  <2> HIDE DEF old, new, v
  <2>8. PICK tiers : new = WithRateChange(old, v.percent, tiers)
    BY <2>7
  <2>9. tier \in Tiers
    BY FleetAssumption, DefaultIsLikeItself, LikeDefaultIs
  <2> HIDE DEF tier
  <2>10. /\ Schedulable(old.tiers[tier].blocks) /\ Schedulable(new.tiers[tier].blocks)
         /\ old.subsidy = SubsidyRate /\ new.subsidy = SubsidyRate
         /\ old.credit = CreditRate /\ new.credit = CreditRate
         /\ fixed \in Int /\ new.tiers[tier].fixed = fixed
    BY <2>6, <2>9, SchedulesAreSound DEF Sound
  <2>11. /\ v.percent >= Percent => Dearer(old.tiers[tier].blocks, new.tiers[tier].blocks)
         /\ v.percent <= Percent => Dearer(new.tiers[tier].blocks, old.tiers[tier].blocks)
    BY <2>6, <2>7, <2>8, <2>9, RevisionGoesItsWay
  <2>12. /\ a.of[h] = CalculateBill(use, gen, tier, mine, fixed, old)
         /\ b.of[h] = CalculateBill(use, gen, tier, mine, fixed, new)
    BY <2>2, <2>6, <2>10, Zenon DEF BillOf, tier
  <2>13. mine \in BOOLEAN
    OBVIOUS
  <2> HIDE DEF use, gen, mine, fixed
  <2>14. v.percent >= Percent => CalculateBill(use, gen, tier, mine, fixed, old).total
                                   <= CalculateBill(use, gen, tier, mine, fixed, new).total
    BY <2>6, <2>10, <2>11, <2>13, DearerBill
  <2>15. v.percent <= Percent => CalculateBill(use, gen, tier, mine, fixed, new).total
                                   <= CalculateBill(use, gen, tier, mine, fixed, old).total
    BY <2>6, <2>10, <2>11, <2>13, DearerBill
  <2>16. /\ v.percent >= Percent => a.of[h].total <= b.of[h].total
         /\ v.percent <= Percent => b.of[h].total <= a.of[h].total
    BY <2>12, <2>14, <2>15, Zenon
  <2>17. \A x, y : x <= y <=> y >= x
    OBVIOUS
  <2> QED
    BY <2>16, <2>17, Zenon DEF a, b, v
<1> QED
  BY <1>1, BilledInit, BilledStep, PTL DEF Spec
=============================================================================
