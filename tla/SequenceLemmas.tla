---------------------------- MODULE SequenceLemmas ----------------------------
(***************************************************************************)
(* Facts about numbers, folds, sequences and sums that the proofs about    *)
(* several components need.                                                *)
(*                                                                         *)
(* The provers cannot use an induction theorem whose parameter is an       *)
(* operator.  Induction is done over sets instead: a set of naturals that  *)
(* is not empty has a least element, so one that contains 0 and the        *)
(* successor of each of its elements contains all of them.                 *)
(***************************************************************************)
EXTENDS Subsequences, SequencesExt, FiniteSetTheorems, SequenceTheorems, TLAPS

-----------------------------------------------------------------------------
(* Numbers.                                                                *)

LEMMA LeastNatural ==
  ASSUME NEW S \in SUBSET Nat, S # {}
  PROVE  \E n \in S : \A m \in S : n <= m
<1> DEFINE R == OpToRel(<, Nat)
<1>1. IsWellFoundedOn(R, Nat)
  BY NatLessThanWellFounded
<1>2. \A m, n \in Nat : m < n => <<m, n>> \in R
  BY DEF OpToRel
<1> HIDE DEF R
<1>3. \E n \in S : \A m \in S : <<m, n>> \notin R
  BY <1>1, WFMin
<1>4. PICK n \in S : \A m \in S : <<m, n>> \notin R
  BY <1>3
<1>5. \A m \in S : ~(m < n)
  BY <1>2, <1>4
<1>6. \A m \in S : n <= m
  BY <1>5
<1> QED
  BY <1>6

LEMMA CountingUp ==
  ASSUME NEW S, 0 \in S, \A n \in Nat : n \in S => n + 1 \in S
  PROVE  Nat \subseteq S
<1> DEFINE T == Nat \ S
<1> SUFFICES ASSUME T # {} PROVE FALSE
  OBVIOUS
<1>1. PICK n \in T : \A m \in T : n <= m
  BY LeastNatural
<1>2. n # 0 /\ n - 1 \in Nat /\ ~(n <= n - 1) /\ (n - 1) + 1 = n
  BY <1>1
<1>3. n - 1 \in S
  BY <1>1, <1>2
<1> QED
  BY <1>1, <1>2, <1>3

LEMMA MaxIsGreatest ==
  ASSUME NEW S \in SUBSET Int, IsFiniteSet(S), S # {}
  PROVE  Max(S) \in S /\ \A x \in S : x <= Max(S)
<1> DEFINE Above(x) == {y \in S : y > x}
           T == {Above(x) : x \in S}
<1>1. T \subseteq FiniteSubsetsOf(S) /\ T # {}
  <2>1. \A x \in S : Above(x) \subseteq S /\ IsFiniteSet(Above(x))
    BY FS_Subset
  <2> QED
    BY <2>1 DEF FiniteSubsetsOf
<1>2. PICK A \in T : \A B \in T : <<B, A>> \notin StrictSubsetOrdering(S)
  <2>1. IsWellFoundedOn(StrictSubsetOrdering(S), FiniteSubsetsOf(S))
    BY FS_StrictSubsetOrderingWellFounded
  <2> HIDE DEF T
  <2> QED
    BY <1>1, <2>1, WFMin
<1>3. PICK x \in S : A = Above(x)
  BY <1>2
<1>4. A = {}
  <2>1. SUFFICES ASSUME NEW y \in A PROVE FALSE
    OBVIOUS
  <2>2. y \in S /\ y > x
    BY <2>1, <1>3
  <2>3. Above(y) \subseteq A /\ y \notin Above(y)
    <3>1. ~(y > y) /\ \A z \in S : z > y => z > x
      BY <2>2
    <3> QED
      BY <1>3, <3>1
  <2>4. <<Above(y), A>> \in StrictSubsetOrdering(S)
    <3>1. Above(y) \in SUBSET S /\ A \in SUBSET S /\ Above(y) # A
      BY <2>1, <2>3, <1>3
    <3> QED
      BY <3>1, <2>3 DEF StrictSubsetOrdering
  <2> QED
    BY <2>2, <2>4, <1>2
<1>5. \A y \in S : x >= y
  BY <1>3, <1>4
<1> QED
  BY <1>5 DEF Max

-----------------------------------------------------------------------------
(* Folds.  A fold over a sequence goes through the sets 1..k; that there   *)
(* is a function defined by such a recursion at all is what must be shown. *)

\* The steps of a fold, one for each index.
AreSteps(G, n, V) == G \in [1..n -> [V -> V]]

\* The recursion by which MapThenFoldSet folds over 1..n; g has to say what it
\* does only where the fold of the smaller set is in V.
FoldsBy(g, n, V, base, G) ==
  /\ g[{}] = base
  /\ \A s \in SUBSET (1..n) : s # {} /\ g[s \ {Max(s)}] \in V =>
       g[s] = G[Max(s)][g[s \ {Max(s)}]]

\* The fold as a function of how many elements it has taken.
GoesThrough(F, n, V, base, G) ==
  F \in [0..n -> V] /\ F[0] = base /\ \A k \in 1..n : F[k] = G[k][F[k - 1]]

LEMMA FoldExists ==
  ASSUME NEW V, NEW n \in Nat, NEW base \in V, NEW G, AreSteps(G, n, V)
  PROVE  \E g : g \in [SUBSET (1..n) -> V] /\ FoldsBy(g, n, V, base, G)
<1>a. G \in [1..n -> [V -> V]]
  BY DEF AreSteps
<1> DEFINE Folds(k, g) == \A s \in SUBSET (1..k) :
                            g[s] = IF s = {} THEN base ELSE G[Max(s)][g[s \ {Max(s)}]]
           Exists(k) == \E g \in [SUBSET (1..k) -> V] : Folds(k, g)
           S == {k \in Nat : k <= n => Exists(k)}
<1>0. \A s \in SUBSET (1..n) : s # {} => Max(s) \in s /\ \A i \in s : i <= Max(s)
  <2> TAKE s \in SUBSET (1..n)
  <2>1. s \in SUBSET Int /\ IsFiniteSet(s)
    <3>1. IsFiniteSet(1..n)
      BY FS_Interval
    <3>2. IsFiniteSet(s)
      BY <3>1, FS_Subset
    <3>3. s \subseteq Int
      OBVIOUS
    <3> QED
      BY <3>2, <3>3
  <2> QED
    BY <2>1, MaxIsGreatest
<1>1. 0 \in S
  <2> DEFINE g == [s \in SUBSET (1..0) |-> base]
  <2>1. g \in [SUBSET (1..0) -> V] /\ Folds(0, g)
    OBVIOUS
  <2> QED
    BY <2>1
<1>2. ASSUME NEW k \in Nat, k \in S PROVE k + 1 \in S
  <2> SUFFICES ASSUME k + 1 <= n PROVE Exists(k + 1)
    <3> HIDE DEF Exists
    <3> QED
      OBVIOUS
  <2>0. k <= n
    OBVIOUS
  <2>1. PICK g \in [SUBSET (1..k) -> V] : Folds(k, g)
    <3>1. Exists(k)
      <4> HIDE DEF Exists
      <4> QED
        BY <1>2, <2>0
    <3> QED
      BY <3>1
  <2> DEFINE h == [s \in SUBSET (1..(k + 1)) |->
                     IF k + 1 \in s THEN G[k + 1][g[s \ {k + 1}]] ELSE g[s]]
  <2>2. \A s \in SUBSET (1..(k + 1)) : s \ {k + 1} \in SUBSET (1..k)
    OBVIOUS
  <2>3. G[k + 1] \in [V -> V]
    BY <1>a
  <2>4. h \in [SUBSET (1..(k + 1)) -> V]
    BY <2>2, <2>3
  <2>5. ASSUME NEW s \in SUBSET (1..(k + 1))
        PROVE  h[s] = IF s = {} THEN base ELSE G[Max(s)][h[s \ {Max(s)}]]
    <3>0. s \in SUBSET (1..n)
      OBVIOUS
    <3>1. CASE k + 1 \in s
      <4>1. Max(s) = k + 1
        <5>1. Max(s) \in s /\ k + 1 <= Max(s) /\ Max(s) \in 1..(k + 1)
          BY <1>0, <3>0, <3>1
        <5>2. Max(s) \in Int /\ Max(s) <= k + 1
          BY <5>1
        <5> QED
          BY <5>1, <5>2
      <4>2. h[s \ {k + 1}] = g[s \ {k + 1}] /\ h[s] = G[k + 1][g[s \ {k + 1}]]
        BY <2>2, <3>1
      <4> QED
        BY <3>1, <4>1, <4>2
    <3>2. CASE k + 1 \notin s
      <4>1. s \in SUBSET (1..k) /\ h[s] = g[s]
        BY <2>2, <3>2
      <4>2. CASE s = {}
        BY <2>1, <4>1, <4>2
      <4>3. CASE s # {}
        <5>1. Max(s) \in s /\ s \ {Max(s)} \in SUBSET (1..k)
          BY <1>0, <3>0, <4>1, <4>3
        <5>2. h[s \ {Max(s)}] = g[s \ {Max(s)}]
          BY <5>1
        <5> QED
          BY <2>1, <4>1, <4>3, <5>2
      <4> QED
        BY <4>2, <4>3
    <3> QED
      BY <3>1, <3>2
  <2> QED
    BY <2>4, <2>5
<1>3. n \in S
  <2> HIDE DEF S
  <2> QED
    BY <1>1, <1>2, CountingUp
<1>4. Exists(n)
  <2> HIDE DEF Exists
  <2> QED
    BY <1>3
<1>5. PICK g \in [SUBSET (1..n) -> V] : Folds(n, g)
  BY <1>4
<1>6. FoldsBy(g, n, V, base, G)
  BY <1>5 DEF FoldsBy
<1> QED
  BY <1>6

\* A function that folds goes through the elements one by one.
LEMMA FoldUnrolls ==
  ASSUME NEW V, NEW n \in Nat, NEW base \in V, NEW G, AreSteps(G, n, V),
         NEW h, FoldsBy(h, n, V, base, G)
  PROVE  \E F : GoesThrough(F, n, V, base, G) /\ F[n] = h[1..n]
<1>a. /\ G \in [1..n -> [V -> V]] /\ h[{}] = base
      /\ \A s \in SUBSET (1..n) : s # {} /\ h[s \ {Max(s)}] \in V =>
           h[s] = G[Max(s)][h[s \ {Max(s)}]]
  BY DEF AreSteps, FoldsBy
<1> DEFINE F == [k \in 0..n |-> h[1..k]]
           Right(k) == h[1..k] \in V /\ (k # 0 => h[1..k] = G[k][h[1..(k - 1)]])
           S == {k \in Nat : k <= n => Right(k)}
<1>1. 0 \in S
  <2>1. 1..0 = {}
    OBVIOUS
  <2>2. Right(0)
    BY <1>a, <2>1
  <2> HIDE DEF Right
  <2> QED
    BY <2>2
<1>2. ASSUME NEW k \in Nat, k \in S PROVE k + 1 \in S
  <2> SUFFICES ASSUME k + 1 <= n PROVE Right(k + 1)
    <3> HIDE DEF Right
    <3> QED
      OBVIOUS
  <2>1. Right(k)
    <3>1. k <= n
      OBVIOUS
    <3> HIDE DEF Right
    <3> QED
      BY <1>2, <3>1
  <2>2. /\ 1..(k + 1) \in SUBSET (1..n) /\ 1..(k + 1) # {} /\ k + 1 \in 1..(k + 1)
        /\ 1..(k + 1) \ {k + 1} = 1..k /\ (k + 1) - 1 = k /\ k + 1 \in 1..n
    <3>1. k + 1 \in 1..(k + 1) /\ (k + 1) - 1 = k /\ k + 1 \in 1..n
      OBVIOUS
    <3>2. 1..(k + 1) \ {k + 1} = 1..k
      OBVIOUS
    <3>3. 1..(k + 1) \subseteq 1..n
      OBVIOUS
    <3> QED
      BY <3>1, <3>2, <3>3
  <2>3. Max(1..(k + 1)) = k + 1
    <3>1. 1..(k + 1) \in SUBSET Int /\ IsFiniteSet(1..(k + 1))
      BY FS_Interval
    <3>2. Max(1..(k + 1)) \in 1..(k + 1) /\ \A x \in 1..(k + 1) : x <= Max(1..(k + 1))
      BY <2>2, <3>1, MaxIsGreatest
    <3>3. k + 1 <= Max(1..(k + 1)) /\ Max(1..(k + 1)) <= k + 1 /\ Max(1..(k + 1)) \in Int
      BY <2>2, <3>2
    <3> QED
      BY <3>3
  <2>4. h[1..(k + 1)] = G[k + 1][h[1..k]]
    BY <1>a, <2>1, <2>2, <2>3
  <2>5. G[k + 1][h[1..k]] \in V
    BY <1>a, <2>1, <2>2
  <2> QED
    BY <2>2, <2>4, <2>5
<1>3. \A k \in 0..n : Right(k)
  <2>1. Nat \subseteq S
    <3> HIDE DEF S
    <3> QED
      BY <1>1, <1>2, CountingUp
  <2> HIDE DEF Right
  <2> QED
    BY <2>1
<1>4. F \in [0..n -> V] /\ F[n] = h[1..n] /\ F[0] = base
  <2>1. 1..0 = {} /\ n \in 0..n /\ 0 \in 0..n
    OBVIOUS
  <2> QED
    BY <1>a, <1>3, <2>1
<1>5. \A k \in 1..n : F[k] = G[k][F[k - 1]]
  <2> TAKE k \in 1..n
  <2>1. k \in 0..n /\ k - 1 \in 0..n /\ k # 0
    OBVIOUS
  <2> QED
    BY <1>3, <2>1
<1> HIDE DEF F
<1> QED
  BY <1>4, <1>5 DEF GoesThrough

-----------------------------------------------------------------------------
(* Parts of a sequence.                                                    *)

\* The indices before one of them.
Below(indices, i) == {j \in indices : j < i}

\* Nth counts through a finite set in order and leaves nothing out.
LEMMA NthIs ==
  ASSUME NEW S \in SUBSET Nat, IsFiniteSet(S)
  PROVE  /\ Cardinality(S) \in Nat
         /\ \A n \in 1..Cardinality(S) : Nth(S, n) \in S
         /\ \A m, n \in 1..Cardinality(S) : m < n => Nth(S, m) < Nth(S, n)
         /\ \A i \in S : \E n \in 1..Cardinality(S) : Nth(S, n) = i
<1> DEFINE Rank == [i \in S |-> Cardinality(Below(S, i)) + 1]
<1>0. Cardinality(S) \in Nat
  BY FS_CardinalityType
<1>1. ASSUME NEW i \in S
      PROVE  /\ IsFiniteSet(Below(S, i)) /\ Cardinality(Below(S, i)) \in Nat
             /\ IsFiniteSet(Below(S, i) \cup {i})
             /\ Cardinality(Below(S, i) \cup {i}) = Cardinality(Below(S, i)) + 1
             /\ Below(S, i) \cup {i} \subseteq S
  <2>1. Below(S, i) \subseteq S /\ i \notin Below(S, i)
    BY DEF Below
  <2>2. IsFiniteSet(Below(S, i)) /\ Cardinality(Below(S, i)) \in Nat
    BY <2>1, FS_Subset, FS_CardinalityType
  <2> QED
    BY <2>1, <2>2, FS_AddElement
<1>2. ASSUME NEW i \in S PROVE Rank[i] \in 1..Cardinality(S)
  <2>1. Cardinality(Below(S, i) \cup {i}) <= Cardinality(S)
    BY <1>1, FS_Subset
  <2> QED
    BY <1>0, <1>1, <2>1
<1>3. ASSUME NEW i \in S, NEW j \in S, i < j PROVE Rank[i] < Rank[j]
  <2>1. Below(S, i) \cup {i} \subseteq Below(S, j)
    <3>1. \A k \in S : k < i => k < j
      BY <1>3
    <3> QED
      BY <1>3, <3>1 DEF Below
  <2>2. Cardinality(Below(S, i) \cup {i}) <= Cardinality(Below(S, j))
    BY <1>1, <2>1, FS_Subset
  <2>3. /\ Cardinality(Below(S, i)) \in Nat /\ Cardinality(Below(S, j)) \in Nat
        /\ Cardinality(Below(S, i)) + 1 <= Cardinality(Below(S, j))
    BY <1>1, <2>2
  <2>4. /\ Rank[i] = Cardinality(Below(S, i)) + 1
        /\ Rank[j] = Cardinality(Below(S, j)) + 1
    OBVIOUS
  <2> HIDE DEF Rank
  <2> QED
    BY <2>3, <2>4
<1>4. Rank \in Injection(S, 1..Cardinality(S))
  <2>1. \A i, j \in S : Rank[i] = Rank[j] => i = j
    <3> HIDE DEF Rank
    <3>1. \A i \in S : Rank[i] \in Nat
      BY <1>0, <1>2
    <3> QED
      BY <1>3, <3>1
  <2>2. Rank \in [S -> 1..Cardinality(S)]
    BY <1>2
  <2> HIDE DEF Rank
  <2> QED
    BY <2>1, <2>2 DEF Injection, IsInjective
<1>5. Rank \in Surjection(S, 1..Cardinality(S))
  <2>1. IsFiniteSet(1..Cardinality(S)) /\ Cardinality(1..Cardinality(S)) = Cardinality(S)
    BY <1>0, FS_Interval
  <2> HIDE DEF Rank
  <2> QED
    BY <1>4, <2>1, FS_Injection
<1>6. ASSUME NEW n \in 1..Cardinality(S) PROVE Nth(S, n) \in S /\ Rank[Nth(S, n)] = n
  <2>1. PICK i \in S : Rank[i] = n
    <3> HIDE DEF Rank
    <3> QED
      BY <1>5 DEF Surjection
  <2>2. Cardinality(Below(S, i)) = n - 1
    <3>1. Rank[i] = Cardinality(Below(S, i)) + 1 /\ Cardinality(Below(S, i)) \in Nat
      BY <1>1
    <3> HIDE DEF Rank
    <3> QED
      BY <1>0, <2>1, <3>1
  <2>3. Nth(S, n) \in S /\ Cardinality(Below(S, Nth(S, n))) = n - 1
    BY <2>2 DEF Nth, Below
  <2> QED
    BY <1>0, <2>3
<1>7. ASSUME NEW m \in 1..Cardinality(S), NEW n \in 1..Cardinality(S), m < n
      PROVE  Nth(S, m) < Nth(S, n)
  <2> HIDE DEF Rank
  <2>1. /\ Nth(S, n) \in S /\ Rank[Nth(S, n)] = n
        /\ Nth(S, m) \in S /\ Rank[Nth(S, m)] = m
    BY <1>6
  <2>2. m \in Int /\ n \in Int
    BY <1>0
  <2>3. Nth(S, n) \in Nat /\ Nth(S, m) \in Nat
    BY <2>1
  <2>4. Nth(S, n) # Nth(S, m)
    BY <1>7, <2>1, <2>2
  <2>5. ASSUME Nth(S, n) < Nth(S, m) PROVE FALSE
    <3>1. Rank[Nth(S, n)] < Rank[Nth(S, m)]
      BY <1>3, <2>1, <2>5
    <3> QED
      BY <1>7, <2>1, <2>2, <3>1
  <2> QED
    BY <2>3, <2>4, <2>5
<1>8. ASSUME NEW i \in S PROVE \E n \in 1..Cardinality(S) : Nth(S, n) = i
  <2> DEFINE n == Rank[i]
  <2>1. n \in 1..Cardinality(S)
    BY <1>2
  <2> HIDE DEF n
  <2>2. Nth(S, n) \in S /\ Rank[Nth(S, n)] = n
    BY <1>6, <2>1
  <2>3. Nth(S, n) = i
    <3> USE DEF n
    <3> HIDE DEF Rank
    <3> QED
      BY <1>4, <2>2 DEF Injection, IsInjective
  <2> QED
    BY <2>1, <2>3
<1> QED
  BY <1>0, <1>6, <1>7, <1>8

LEMMA AtIs ==
  ASSUME NEW X, NEW s \in Seq(X), NEW S \in SUBSET DOMAIN s
  PROVE  /\ IsFiniteSet(S) /\ Cardinality(S) \in Nat
         /\ At(s, S) \in Seq(X) /\ Len(At(s, S)) = Cardinality(S)
         /\ \A n \in 1..Cardinality(S) : Nth(S, n) \in S /\ At(s, S)[n] = s[Nth(S, n)]
         /\ \A m, n \in 1..Cardinality(S) : m < n => Nth(S, m) < Nth(S, n)
         /\ \A i \in S : \E n \in 1..Cardinality(S) : Nth(S, n) = i
<1>1. DOMAIN s = 1..Len(s) /\ Len(s) \in Nat /\ IsFiniteSet(1..Len(s))
  BY FS_Interval
<1>2. S \in SUBSET Nat /\ IsFiniteSet(S)
  <2>1. IsFiniteSet(S)
    BY <1>1, FS_Subset
  <2>2. S \subseteq Nat
    BY <1>1
  <2> QED
    BY <2>1, <2>2
<1>3. /\ Cardinality(S) \in Nat
      /\ \A n \in 1..Cardinality(S) : Nth(S, n) \in S
      /\ \A m, n \in 1..Cardinality(S) : m < n => Nth(S, m) < Nth(S, n)
      /\ \A i \in S : \E n \in 1..Cardinality(S) : Nth(S, n) = i
  BY <1>2, NthIs
<1>4. \A i \in S : s[i] \in X
  OBVIOUS
<1>5. \A n \in 1..Cardinality(S) : s[Nth(S, n)] \in X
  BY <1>3, <1>4
<1>6. At(s, S) \in [1..Cardinality(S) -> X]
  BY <1>5 DEF At
<1>7. At(s, S) \in Seq(X) /\ Len(At(s, S)) = Cardinality(S)
  BY <1>3, <1>6
<1>8. \A n \in 1..Cardinality(S) : At(s, S)[n] = s[Nth(S, n)]
  BY DEF At
<1> QED
  BY <1>2, <1>3, <1>7, <1>8

\* How many elements of s are in X.
CountIn(s, X) == Cardinality({i \in DOMAIN s : s[i] \in X})

LEMMA CountInType ==
  ASSUME NEW M, NEW s \in Seq(M), NEW X
  PROVE  /\ CountIn(s, X) \in Nat
         /\ IsFiniteSet({i \in DOMAIN s : s[i] \in X})
         /\ CountIn(s, X) = 0 <=> \A i \in DOMAIN s : s[i] \notin X
<1> DEFINE S == {i \in DOMAIN s : s[i] \in X}
<1>1. IsFiniteSet(1..Len(s)) /\ DOMAIN s = 1..Len(s)
  BY FS_Interval
<1>2. IsFiniteSet(S)
  BY <1>1, FS_Subset
<1>3. Cardinality(S) \in Nat /\ (Cardinality(S) = 0 <=> S = {})
  <2> HIDE DEF S
  <2> QED
    BY <1>2, FS_CardinalityType, FS_EmptySet
<1> QED
  BY <1>2, <1>3 DEF CountIn

LEMMA CountEmpty == ASSUME NEW X PROVE CountIn(<<>>, X) = 0
<1>1. {i \in DOMAIN <<>> : <<>>[i] \in X} = {}
  OBVIOUS
<1> QED
  BY <1>1, FS_EmptySet DEF CountIn

LEMMA CountAt ==
  ASSUME NEW M, NEW s \in Seq(M), NEW S \in SUBSET DOMAIN s, NEW X
  PROVE  CountIn(At(s, S), X) = Cardinality({i \in S : s[i] \in X})
<1> DEFINE A == {n \in DOMAIN At(s, S) : At(s, S)[n] \in X}
           B == {i \in S : s[i] \in X}
           f == [n \in A |-> Nth(S, n)]
<1>1. /\ IsFiniteSet(S) /\ Cardinality(S) \in Nat
      /\ At(s, S) \in Seq(M) /\ DOMAIN At(s, S) = 1..Cardinality(S)
      /\ \A n \in 1..Cardinality(S) : Nth(S, n) \in S /\ At(s, S)[n] = s[Nth(S, n)]
      /\ \A m, n \in 1..Cardinality(S) : m < n => Nth(S, m) < Nth(S, n)
      /\ \A i \in S : \E n \in 1..Cardinality(S) : Nth(S, n) = i
  BY AtIs
<1>2. A \subseteq 1..Cardinality(S) /\ \A n \in A : Nth(S, n) \in B
  BY <1>1
<1>3. \A i \in B : \E n \in A : Nth(S, n) = i
  BY <1>1
<1>4. \A m, n \in A : Nth(S, m) = Nth(S, n) => m = n
  <2> SUFFICES ASSUME NEW m \in A, NEW n \in A, m # n PROVE Nth(S, m) # Nth(S, n)
    OBVIOUS
  <2> HIDE DEF A
  <2>1. m \in 1..Cardinality(S) /\ n \in 1..Cardinality(S)
    BY <1>2
  <2>2. m < n \/ n < m
    BY <1>1, <2>1
  <2>3. Nth(S, m) < Nth(S, n) \/ Nth(S, n) < Nth(S, m)
    BY <1>1, <2>1, <2>2
  <2>4. Nth(S, m) \in Nat /\ Nth(S, n) \in Nat
    BY <1>1, <2>1
  <2> QED
    BY <2>3, <2>4
<1>5. f \in Bijection(A, B)
  <2> HIDE DEF A, B
  <2> QED
    BY <1>2, <1>3, <1>4 DEF Bijection, Injection, IsInjective, Surjection
<1>6. IsFiniteSet(A)
  <2>1. IsFiniteSet(1..Cardinality(S))
    BY <1>1, FS_Interval
  <2> HIDE DEF A
  <2> QED
    BY <1>2, <2>1, FS_Subset
<1>7. Cardinality(A) = Cardinality(B)
  <2> HIDE DEF A, B, f
  <2> QED
    BY <1>5, <1>6, FS_Bijection DEF ExistsBijection
<1> QED
  BY <1>7 DEF CountIn

LEMMA CountConcat ==
  ASSUME NEW M, NEW s \in Seq(M), NEW t \in Seq(M), NEW X
  PROVE  CountIn(s \o t, X) = CountIn(s, X) + CountIn(t, X)
<1> DEFINE A == {i \in 1..Len(s) : s[i] \in X}
           B == {i \in 1..Len(t) : t[i] \in X}
           C == {i \in (Len(s) + 1)..(Len(s) + Len(t)) : t[i - Len(s)] \in X}
           f == [i \in C |-> i - Len(s)]
<1>1. /\ DOMAIN s = 1..Len(s) /\ DOMAIN t = 1..Len(t) /\ Len(s) \in Nat /\ Len(t) \in Nat
      /\ DOMAIN (s \o t) = 1..(Len(s) + Len(t))
      /\ \A i \in 1..(Len(s) + Len(t)) :
           (s \o t)[i] = IF i <= Len(s) THEN s[i] ELSE t[i - Len(s)]
  OBVIOUS
<1>2. {i \in DOMAIN (s \o t) : (s \o t)[i] \in X} = A \cup C
  BY <1>1
<1>3. A \cap C = {}
  BY <1>1
<1>4. IsFiniteSet(A) /\ IsFiniteSet(B) /\ IsFiniteSet(C)
  <2>1. /\ IsFiniteSet(1..Len(s)) /\ IsFiniteSet(1..Len(t))
        /\ IsFiniteSet((Len(s) + 1)..(Len(s) + Len(t)))
    BY <1>1, FS_Interval
  <2>2. A \subseteq 1..Len(s) /\ B \subseteq 1..Len(t)
        /\ C \subseteq (Len(s) + 1)..(Len(s) + Len(t))
    OBVIOUS
  <2> HIDE DEF A, B, C
  <2> QED
    BY <2>1, <2>2, FS_Subset
<1>5. f \in Bijection(C, B)
  <2>1. f \in [C -> B] /\ \A i, j \in C : f[i] = f[j] => i = j
    BY <1>1
  <2>2. \A i \in B : i + Len(s) \in C /\ f[i + Len(s)] = i
    BY <1>1
  <2> HIDE DEF B, C, f
  <2> QED
    BY <2>1, <2>2 DEF Bijection, Injection, IsInjective, Surjection
<1>6. Cardinality(C) = Cardinality(B)
  <2> HIDE DEF B, C, f
  <2> QED
    BY <1>4, <1>5, FS_Bijection DEF ExistsBijection
<1>7. Cardinality(A \cup C) = Cardinality(A) + Cardinality(C)
  <2>1. Cardinality(A) \in Nat /\ Cardinality(C) \in Nat
    <3> HIDE DEF A, C
    <3> QED
      BY <1>4, FS_CardinalityType
  <2>2. Cardinality(A \cap C) = 0
    BY <1>3, FS_EmptySet
  <2>3. Cardinality(A \cup C) = Cardinality(A) + Cardinality(C) - Cardinality(A \cap C)
    <3> HIDE DEF A, C
    <3> QED
      BY <1>4, FS_Union
  <2> HIDE DEF A, C
  <2> QED
    BY <2>1, <2>2, <2>3
<1>8. /\ CountIn(s, X) = Cardinality(A) /\ CountIn(t, X) = Cardinality(B)
      /\ CountIn(s \o t, X) = Cardinality(A \cup C)
  <2>1. CountIn(s, X) = Cardinality(A) /\ CountIn(t, X) = Cardinality(B)
    BY <1>1 DEF CountIn
  <2> HIDE DEF A, B, C
  <2> QED
    BY <1>2, <2>1 DEF CountIn
<1> HIDE DEF A, B, C
<1> QED
  BY <1>6, <1>7, <1>8

LEMMA CountOne ==
  ASSUME NEW x, NEW X PROVE CountIn(<<x>>, X) = IF x \in X THEN 1 ELSE 0
<1>1. {i \in DOMAIN <<x>> : <<x>>[i] \in X} = IF x \in X THEN {1} ELSE {}
  OBVIOUS
<1> QED
  BY <1>1, FS_EmptySet, FS_Singleton DEF CountIn

LEMMA CountHeadTail ==
  ASSUME NEW M, NEW s \in Seq(M), s # <<>>, NEW X
  PROVE  CountIn(s, X) = (IF Head(s) \in X THEN 1 ELSE 0) + CountIn(Tail(s), X)
<1>1. Head(s) \in M /\ Tail(s) \in Seq(M) /\ <<Head(s)>> \in Seq(M)
  OBVIOUS
<1>2. s = <<Head(s)>> \o Tail(s)
  OBVIOUS
<1>3. CountIn(<<Head(s)>> \o Tail(s), X) = CountIn(<<Head(s)>>, X) + CountIn(Tail(s), X)
  BY <1>1, CountConcat
<1> QED
  BY <1>2, <1>3, CountOne

LEMMA CountSplit ==
  ASSUME NEW M, NEW s \in Seq(M), NEW S \in SUBSET DOMAIN s, NEW X
  PROVE  CountIn(s, X) = CountIn(At(s, S), X) + CountIn(At(s, DOMAIN s \ S), X)
<1> DEFINE A == {i \in S : s[i] \in X}
           B == {i \in DOMAIN s \ S : s[i] \in X}
           C == {i \in DOMAIN s : s[i] \in X}
<1>1. C = A \cup B /\ A \cap B = {}
  OBVIOUS
<1>2. IsFiniteSet(C)
  BY CountInType
<1>3. /\ IsFiniteSet(A) /\ IsFiniteSet(B)
      /\ Cardinality(A) \in Nat /\ Cardinality(B) \in Nat
  <2> HIDE DEF A, B, C
  <2> QED
    BY <1>1, <1>2, FS_Subset, FS_CardinalityType
<1>4. Cardinality(C) = Cardinality(A) + Cardinality(B)
  <2> HIDE DEF A, B, C
  <2>1. Cardinality(A \cap B) = 0
    BY <1>1, FS_EmptySet
  <2>2. Cardinality(C) = Cardinality(A) + Cardinality(B) - Cardinality(A \cap B)
    BY <1>1, <1>3, FS_Union
  <2> QED
    BY <1>3, <2>1, <2>2
<1>5. CountIn(At(s, S), X) = Cardinality(A)
  BY CountAt
<1>6. CountIn(At(s, DOMAIN s \ S), X) = Cardinality(B)
  BY CountAt
<1> QED
  BY <1>4, <1>5, <1>6 DEF CountIn

-----------------------------------------------------------------------------
(* A sequence of sequences, flattened.                                     *)

\* What FlattenSeq has put together after each sequence.
IsFlattening(F, ss, X) ==
  /\ F \in [1..Len(ss) -> Seq(X)]
  /\ \A i \in 1..Len(ss) : F[i] = IF i = 1 THEN ss[i] ELSE F[i - 1] \o ss[i]

LEMMA FlatteningExists ==
  ASSUME NEW X, NEW ss \in Seq(Seq(X))
  PROVE  \E F : IsFlattening(F, ss, X)
<1> DEFINE Is(k, F) == /\ F \in [1..k -> Seq(X)]
                       /\ \A i \in 1..k : F[i] = IF i = 1 THEN ss[i] ELSE F[i - 1] \o ss[i]
           Exists(k) == \E F : Is(k, F)
           S == {k \in Nat : k <= Len(ss) => Exists(k)}
<1>0. Len(ss) \in Nat /\ \A i \in 1..Len(ss) : ss[i] \in Seq(X)
  OBVIOUS
<1>1. 0 \in S
  <2>1. Is(0, [i \in 1..0 |-> <<>>])
    OBVIOUS
  <2>2. Exists(0)
    BY <2>1
  <2> HIDE DEF Exists
  <2> QED
    BY <2>2
<1>2. ASSUME NEW k \in Nat, k \in S PROVE k + 1 \in S
  <2> SUFFICES ASSUME k + 1 <= Len(ss) PROVE Exists(k + 1)
    <3> HIDE DEF Exists
    <3> QED
      OBVIOUS
  <2>1. PICK F : Is(k, F)
    <3>1. k <= Len(ss)
      BY <1>0
    <3>2. Exists(k)
      <4> HIDE DEF Exists
      <4> QED
        BY <1>2, <3>1
    <3> QED
      BY <3>2
  <2> DEFINE e == IF k + 1 = 1 THEN ss[1] ELSE F[k] \o ss[k + 1]
             E == [i \in 1..(k + 1) |-> IF i = k + 1 THEN e ELSE F[i]]
  <2>2. e \in Seq(X)
    <3>1. CASE k = 0
      BY <1>0, <3>1
    <3>2. CASE k # 0
      <4>1. F[k] \in Seq(X) /\ ss[k + 1] \in Seq(X)
        BY <1>0, <2>1, <3>2
      <4> QED
        BY <3>2, <4>1
    <3> QED
      BY <3>1, <3>2
  <2>3. E \in [1..(k + 1) -> Seq(X)]
    <3> HIDE DEF e
    <3> QED
      BY <2>1, <2>2
  <2>4. ASSUME NEW i \in 1..(k + 1)
        PROVE  E[i] = IF i = 1 THEN ss[i] ELSE E[i - 1] \o ss[i]
    <3>1. CASE i = k + 1
      <4>1. E[i] = e
        BY <3>1
      <4>2. i # 1 => E[i - 1] = F[k]
        BY <3>1
      <4> HIDE DEF E
      <4> QED
        BY <3>1, <4>1, <4>2
    <3>2. CASE i # k + 1
      <4>1. i \in 1..k /\ E[i] = F[i]
        BY <3>2
      <4>2. i # 1 => E[i - 1] = F[i - 1]
        BY <3>2
      <4> HIDE DEF E
      <4> QED
        BY <2>1, <4>1, <4>2
    <3> QED
      BY <3>1, <3>2
  <2>5. Is(k + 1, E)
    <3> HIDE DEF E
    <3> QED
      BY <2>3, <2>4
  <2> HIDE DEF Is
  <2> QED
    BY <2>5
<1>3. Exists(Len(ss))
  <2>1. Len(ss) \in S
    <3> HIDE DEF S
    <3> QED
      BY <1>0, <1>1, <1>2, CountingUp
  <2> HIDE DEF Exists
  <2> QED
    BY <1>0, <2>1
<1> QED
  BY <1>3 DEF IsFlattening

LEMMA FlattenIs ==
  ASSUME NEW X, NEW ss \in Seq(Seq(X))
  PROVE  \E F : /\ IsFlattening(F, ss, X)
                /\ FlattenSeq(ss) = IF ss = <<>> THEN <<>> ELSE F[Len(ss)]
<1> DEFINE Equation(F) ==
             F = [i \in 1..Len(ss) |-> IF i = 1 THEN ss[i] ELSE F[i - 1] \o ss[i]]
           C == CHOOSE F : Equation(F)
<1>1. PICK F : IsFlattening(F, ss, X)
  BY FlatteningExists
<1>2. Equation(F)
  BY <1>1 DEF IsFlattening
<1>3. Equation(C)
  <2> HIDE DEF Equation
  <2> QED
    BY <1>2
<1>4. FlattenSeq(ss) = IF Len(ss) = 0 THEN ss ELSE C[Len(ss)]
  BY DEF FlattenSeq
<1>5. \A k \in 0..Len(ss) : \A i \in 1..k : C[i] = F[i]
  <2> DEFINE Same(k) == \A i \in 1..k : C[i] = F[i]
             S == {k \in Nat : k <= Len(ss) => Same(k)}
  <2> HIDE DEF C
  <2>0. Len(ss) \in Nat
    OBVIOUS
  <2>1. 0 \in S
    OBVIOUS
  <2>2. ASSUME NEW k \in Nat, k \in S PROVE k + 1 \in S
    <3> SUFFICES ASSUME k + 1 <= Len(ss) PROVE Same(k + 1)
      <4> HIDE DEF Same
      <4> QED
        OBVIOUS
    <3>0. Same(k)
      <4>1. k <= Len(ss)
        BY <2>0
      <4> HIDE DEF Same
      <4> QED
        BY <2>2, <4>1
    <3>1. k + 1 \in 1..Len(ss) /\ (k + 1) - 1 = k
      BY <2>0
    <3>2. C[k + 1] = IF k + 1 = 1 THEN ss[k + 1] ELSE C[k] \o ss[k + 1]
      BY <1>3, <3>1
    <3>3. F[k + 1] = IF k + 1 = 1 THEN ss[k + 1] ELSE F[k] \o ss[k + 1]
      BY <1>1, <3>1 DEF IsFlattening
    <3>4. k # 0 => C[k] = F[k]
      BY <3>0
    <3>5. C[k + 1] = F[k + 1]
      BY <3>2, <3>3, <3>4
    <3>6. \A i \in 1..(k + 1) : i \in 1..k \/ i = k + 1
      OBVIOUS
    <3> QED
      BY <3>0, <3>5, <3>6
  <2>3. Nat \subseteq S
    <3> HIDE DEF S
    <3> QED
      BY <2>1, <2>2, CountingUp
  <2> QED
    BY <2>0, <2>3
<1>6. ss # <<>> => C[Len(ss)] = F[Len(ss)]
  <2> HIDE DEF C
  <2>1. ss # <<>> => Len(ss) \in 1..Len(ss) /\ Len(ss) \in 0..Len(ss)
    OBVIOUS
  <2> QED
    BY <1>5, <2>1
<1>7. Len(ss) = 0 <=> ss = <<>>
  OBVIOUS
<1> HIDE DEF C
<1> QED
  BY <1>1, <1>4, <1>6, <1>7

LEMMA FlatteningGoesOn ==
  ASSUME NEW X, NEW ss \in Seq(Seq(X)), NEW F, IsFlattening(F, ss, X),
         NEW k \in Nat, k + 1 <= Len(ss)
  PROVE  /\ ss[k + 1] \in Seq(X)
         /\ k = 0 => F[k + 1] = ss[k + 1]
         /\ k # 0 => F[k] \in Seq(X) /\ F[k + 1] = F[k] \o ss[k + 1]
<1>1. /\ F \in [1..Len(ss) -> Seq(X)]
      /\ \A i \in 1..Len(ss) : F[i] = IF i = 1 THEN ss[i] ELSE F[i - 1] \o ss[i]
  BY DEF IsFlattening
<1>2. /\ k + 1 \in 1..Len(ss) /\ (k + 1) - 1 = k /\ (k = 0 <=> k + 1 = 1)
      /\ k # 0 => k \in 1..Len(ss)
  OBVIOUS
<1>3. F[k + 1] = IF k + 1 = 1 THEN ss[k + 1] ELSE F[k] \o ss[k + 1]
  BY <1>1, <1>2
<1>4. ss[k + 1] \in Seq(X)
  BY <1>2
<1>5. k # 0 => F[k] \in Seq(X)
  BY <1>1, <1>2
<1> QED
  BY <1>2, <1>3, <1>4, <1>5

LEMMA ConcatIs ==
  ASSUME NEW X, NEW s \in Seq(X), NEW t \in Seq(X)
  PROVE  /\ Len(s) \in Nat /\ Len(t) \in Nat
         /\ DOMAIN s = 1..Len(s) /\ DOMAIN t = 1..Len(t)
         /\ DOMAIN (s \o t) = 1..(Len(s) + Len(t))
         /\ \A i \in 1..(Len(s) + Len(t)) :
              (s \o t)[i] = IF i <= Len(s) THEN s[i] ELSE t[i - Len(s)]
OBVIOUS

\* Of one sequence that alone has elements in Y, flattening loses and adds none.
LEMMA CountFlatten ==
  ASSUME NEW X, NEW ss \in Seq(Seq(X)), NEW Y, NEW b \in 1..Len(ss),
         \A a \in 1..Len(ss) : a # b => CountIn(ss[a], Y) = 0
  PROVE  CountIn(FlattenSeq(ss), Y) = CountIn(ss[b], Y)
<1>1. PICK F : /\ IsFlattening(F, ss, X)
               /\ FlattenSeq(ss) = IF ss = <<>> THEN <<>> ELSE F[Len(ss)]
  BY FlattenIs
<1> DEFINE Right(k) == k # 0 => CountIn(F[k], Y) = IF b <= k THEN CountIn(ss[b], Y) ELSE 0
           S == {k \in Nat : k <= Len(ss) => Right(k)}
<1>0. Len(ss) \in Nat /\ \A i \in 1..Len(ss) : ss[i] \in Seq(X)
  OBVIOUS
<1>2. 0 \in S
  OBVIOUS
<1>3. ASSUME NEW k \in Nat, k \in S PROVE k + 1 \in S
  <2> SUFFICES ASSUME k + 1 <= Len(ss) PROVE Right(k + 1)
    <3> HIDE DEF Right
    <3> QED
      OBVIOUS
  <2>0. Right(k)
    <3>1. k <= Len(ss)
      BY <1>0
    <3> HIDE DEF Right
    <3> QED
      BY <1>3, <3>1
  <2>1. k + 1 \in 1..Len(ss) /\ (k + 1) - 1 = k
    BY <1>0
  <2>2. /\ ss[k + 1] \in Seq(X)
        /\ k = 0 => F[k + 1] = ss[k + 1]
        /\ k # 0 => F[k] \in Seq(X) /\ F[k + 1] = F[k] \o ss[k + 1]
    BY <1>1, FlatteningGoesOn
  <2>3. k + 1 # b => CountIn(ss[k + 1], Y) = 0
    BY <2>1
  <2>4. CASE k = 0
    <3>1. F[k + 1] = ss[k + 1] /\ (b <= k + 1 <=> b = k + 1)
      BY <1>0, <2>2, <2>4
    <3> QED
      BY <2>3, <3>1
  <2>5. CASE k # 0
    <3>1. F[k] \in Seq(X) /\ ss[k + 1] \in Seq(X)
      BY <2>2, <2>5
    <3>2. CountIn(F[k] \o ss[k + 1], Y) = CountIn(F[k], Y) + CountIn(ss[k + 1], Y)
      BY <3>1, CountConcat
    <3>3. CountIn(ss[b], Y) \in Nat
      BY <1>0, CountInType
    <3>4. CountIn(F[k], Y) = IF b <= k THEN CountIn(ss[b], Y) ELSE 0
      BY <2>0, <2>5
    <3>5. b \in Nat /\ (b <= k + 1 <=> b <= k \/ b = k + 1) /\ ~(b <= k /\ b = k + 1)
      BY <1>0
    <3>6. F[k + 1] = F[k] \o ss[k + 1]
      BY <2>2, <2>5
    <3> QED
      BY <2>3, <3>2, <3>3, <3>4, <3>5, <3>6
  <2> QED
    BY <2>4, <2>5
<1>4. Right(Len(ss))
  <2>1. Len(ss) \in S
    <3> HIDE DEF S
    <3> QED
      BY <1>0, <1>2, <1>3, CountingUp
  <2> HIDE DEF Right
  <2> QED
    BY <1>0, <2>1
<1>5. Len(ss) # 0 /\ b <= Len(ss) /\ ss # <<>>
  BY <1>0
<1> QED
  BY <1>1, <1>4, <1>5

\* The elements of one come before those of the next, each in its own order.
InOrder(s, ss, k) ==
  /\ \A j \in DOMAIN s : \E a \in 1..k : \E p \in DOMAIN ss[a] : s[j] = ss[a][p]
  /\ \A i, j \in DOMAIN s : i < j =>
       \E a, b \in 1..k : \E p \in DOMAIN ss[a], q \in DOMAIN ss[b] :
         s[i] = ss[a][p] /\ s[j] = ss[b][q] /\ (a < b \/ (a = b /\ p < q))

LEMMA FlattenInOrder ==
  ASSUME NEW X, NEW ss \in Seq(Seq(X))
  PROVE  FlattenSeq(ss) \in Seq(X) /\ InOrder(FlattenSeq(ss), ss, Len(ss))
<1>1. PICK F : /\ IsFlattening(F, ss, X)
               /\ FlattenSeq(ss) = IF ss = <<>> THEN <<>> ELSE F[Len(ss)]
  BY FlattenIs
<1> DEFINE Right(k) == k # 0 => InOrder(F[k], ss, k)
           S == {k \in Nat : k <= Len(ss) => Right(k)}
<1>0. Len(ss) \in Nat /\ \A i \in 1..Len(ss) : ss[i] \in Seq(X)
  OBVIOUS
<1>2. 0 \in S
  OBVIOUS
<1>3. ASSUME NEW k \in Nat, k \in S PROVE k + 1 \in S
  <2> SUFFICES ASSUME k + 1 <= Len(ss) PROVE Right(k + 1)
    <3> HIDE DEF Right
    <3> QED
      OBVIOUS
  <2>0. Right(k)
    <3>1. k <= Len(ss)
      BY <1>0
    <3> HIDE DEF Right
    <3> QED
      BY <1>3, <3>1
  <2>2. /\ ss[k + 1] \in Seq(X)
        /\ k = 0 => F[k + 1] = ss[k + 1]
        /\ k # 0 => F[k] \in Seq(X) /\ F[k + 1] = F[k] \o ss[k + 1]
    BY <1>1, FlatteningGoesOn
  <2>3. CASE k = 0
    <3>1. F[k + 1] = ss[k + 1] /\ k + 1 = 1
      BY <2>2, <2>3
    <3>2. InOrder(ss[1], ss, 1)
      BY <1>0 DEF InOrder
    <3>3. InOrder(F[k + 1], ss, k + 1)
      BY <3>1, <3>2
    <3> QED
      BY <3>3
  <2>4. CASE k # 0
    <3> DEFINE s == F[k]
               t == ss[k + 1]
    <3>1. s \in Seq(X) /\ t \in Seq(X)
      BY <2>2, <2>4
    <3> HIDE DEF s, t
    <3>2. /\ Len(s) \in Nat /\ Len(t) \in Nat
          /\ DOMAIN s = 1..Len(s) /\ DOMAIN t = 1..Len(t)
          /\ DOMAIN (s \o t) = 1..(Len(s) + Len(t))
          /\ \A i \in 1..(Len(s) + Len(t)) :
               (s \o t)[i] = IF i <= Len(s) THEN s[i] ELSE t[i - Len(s)]
      BY <3>1, ConcatIs
    <3>3. InOrder(s, ss, k) /\ F[k + 1] = s \o t /\ t = ss[k + 1]
      BY <2>0, <2>2, <2>4 DEF s, t
    <3>4. 1..k \subseteq 1..(k + 1) /\ k + 1 \in 1..(k + 1) /\ \A a \in 1..k : a < k + 1
      OBVIOUS
    <3>5. ASSUME NEW j \in DOMAIN (s \o t)
          PROVE  \E a \in 1..(k + 1) : \E p \in DOMAIN ss[a] : (s \o t)[j] = ss[a][p]
      <4>1. CASE j <= Len(s)
        <5>1. j \in DOMAIN s /\ (s \o t)[j] = s[j]
          BY <3>2, <4>1
        <5>2. PICK a \in 1..k : \E p \in DOMAIN ss[a] : s[j] = ss[a][p]
          BY <3>3, <5>1, Zenon DEF InOrder
        <5>3. a \in 1..(k + 1)
          BY <3>4
        <5> QED
          BY <5>1, <5>2, <5>3, Zenon
      <4>2. CASE ~(j <= Len(s))
        <5>1. j - Len(s) \in DOMAIN t /\ (s \o t)[j] = t[j - Len(s)]
          BY <3>2, <4>2
        <5> QED
          BY <3>3, <3>4, <5>1
      <4> QED
        BY <4>1, <4>2
    <3>6. ASSUME NEW i \in DOMAIN (s \o t), NEW j \in DOMAIN (s \o t), i < j
          PROVE  \E a, b \in 1..(k + 1) : \E p \in DOMAIN ss[a], q \in DOMAIN ss[b] :
                   /\ (s \o t)[i] = ss[a][p] /\ (s \o t)[j] = ss[b][q]
                   /\ a < b \/ (a = b /\ p < q)
      <4>1. CASE j <= Len(s)
        <5>1. /\ i \in DOMAIN s /\ j \in DOMAIN s
              /\ (s \o t)[i] = s[i] /\ (s \o t)[j] = s[j]
          BY <3>2, <3>6, <4>1
        <5> DEFINE Before(x, y) ==
              \E a, b \in 1..k : \E p \in DOMAIN ss[a], q \in DOMAIN ss[b] :
                s[x] = ss[a][p] /\ s[y] = ss[b][q] /\ (a < b \/ (a = b /\ p < q))
        <5>3. \A x, y \in DOMAIN s : x < y => Before(x, y)
          BY <3>3, Zenon DEF InOrder
        <5>4. Before(i, j)
          <6> HIDE DEF Before
          <6> QED
            BY <3>6, <5>1, <5>3
        <5>2. PICK a \in 1..k, b \in 1..k :
                \E p \in DOMAIN ss[a], q \in DOMAIN ss[b] :
                  s[i] = ss[a][p] /\ s[j] = ss[b][q] /\ (a < b \/ (a = b /\ p < q))
          BY <5>4, Zenon
        <5> QED
          BY <3>4, <5>1, <5>2
      <4>2. CASE ~(j <= Len(s)) /\ i <= Len(s)
        <5>1. /\ i \in DOMAIN s /\ j - Len(s) \in DOMAIN t
              /\ (s \o t)[i] = s[i] /\ (s \o t)[j] = t[j - Len(s)]
          BY <3>2, <4>2
        <5>2. PICK a \in 1..k : \E p \in DOMAIN ss[a] : s[i] = ss[a][p]
          BY <3>3, <5>1 DEF InOrder
        <5> QED
          BY <3>3, <3>4, <5>1, <5>2
      <4>3. CASE ~(i <= Len(s))
        <5>1. /\ i - Len(s) \in DOMAIN t /\ j - Len(s) \in DOMAIN t
              /\ i - Len(s) < j - Len(s)
              /\ (s \o t)[i] = t[i - Len(s)] /\ (s \o t)[j] = t[j - Len(s)]
          BY SMTT(30), <3>2, <3>6, <4>3
        <5> QED
          BY <3>3, <3>4, <5>1
      <4> QED
        BY <4>1, <4>2, <4>3
    <3>7. InOrder(s \o t, ss, k + 1)
      BY <3>5, <3>6 DEF InOrder
    <3> QED
      BY <3>3, <3>7
  <2> QED
    BY <2>3, <2>4
<1>4. Right(Len(ss))
  <2>1. Len(ss) \in S
    <3> HIDE DEF S
    <3> QED
      BY <1>0, <1>2, <1>3, CountingUp
  <2> HIDE DEF Right
  <2> QED
    BY <1>0, <2>1
<1>5. CASE ss = <<>>
  <2>1. FlattenSeq(ss) = <<>>
    BY <1>1, <1>5
  <2> QED
    BY <2>1 DEF InOrder
<1>6. CASE ss # <<>>
  <2>1. Len(ss) # 0 /\ Len(ss) \in 1..Len(ss) /\ FlattenSeq(ss) = F[Len(ss)]
    BY <1>0, <1>1, <1>6
  <2> QED
    BY <1>1, <1>4, <2>1 DEF IsFlattening
<1> QED
  BY <1>5, <1>6


LEMMA CountAppend ==
  ASSUME NEW M, NEW s \in Seq(M), NEW x \in M, NEW X
  PROVE  CountIn(Append(s, x), X) = CountIn(s, X) + (IF x \in X THEN 1 ELSE 0)
<1>1. Append(s, x) = s \o <<x>> /\ <<x>> \in Seq(M)
  OBVIOUS
<1>2. CountIn(s \o <<x>>, X) = CountIn(s, X) + CountIn(<<x>>, X)
  BY <1>1, CountConcat
<1> QED
  BY <1>1, <1>2, CountOne

LEMMA ImageFinite ==
  ASSUME NEW S, IsFiniteSet(S), NEW f, DOMAIN f = S
  PROVE  IsFiniteSet({f[x] : x \in S})
<1> DEFINE T == {f[x] : x \in S}
           g == [x \in S |-> f[x]]
<1>1. g \in Surjection(S, T)
  BY DEF Surjection
<1> HIDE DEF T, g
<1>2. IsFiniteSet(T)
  BY <1>1, FS_Surjection
<1> QED
  BY <1>2 DEF T

LEMMA ToSetIs ==
  ASSUME NEW X, NEW s \in Seq(X)
  PROVE  /\ IsFiniteSet(ToSet(s)) /\ ToSet(s) \subseteq X
         /\ \A Y : CountIn(s, Y) = 0 <=> ToSet(s) \cap Y = {}
<1>1. IsFiniteSet(DOMAIN s)
  BY FS_Interval
<1>2. IsFiniteSet({s[i] : i \in DOMAIN s})
  BY <1>1, ImageFinite
<1>3. \A Y : CountIn(s, Y) = 0 <=> \A i \in DOMAIN s : s[i] \notin Y
  BY CountInType
<1> QED
  BY <1>2, <1>3 DEF ToSet

-----------------------------------------------------------------------------
(* Sums over a finite set.  A function that sums says, for each part of    *)
(* the set, what the elements of that part weigh together.                 *)

Weights(w, S) == IsFiniteSet(S) /\ \A x \in S : w[x] \in Int

AnyOf(s) == CHOOSE x \in s : TRUE

Sums(g, S, w) ==
  /\ g \in [SUBSET S -> Int] /\ g[{}] = 0
  /\ \A s \in SUBSET S : s # {} => g[s] = w[AnyOf(s)] + g[s \ {AnyOf(s)}]

LEMMA SumExists ==
  ASSUME NEW S, NEW w, Weights(w, S)
  PROVE  \E g : Sums(g, S, w)
<1>a. IsFiniteSet(S) /\ \A x \in S : w[x] \in Int
  BY DEF Weights
<1> DEFINE UpTo(k, g) == \A s \in SUBSET S : Cardinality(s) <= k =>
                           g[s] = IF s = {} THEN 0 ELSE w[AnyOf(s)] + g[s \ {AnyOf(s)}]
           Exists(k) == \E g \in [SUBSET S -> Int] : UpTo(k, g)
           T == {k \in Nat : Exists(k)}
<1>0. \A s \in SUBSET S : /\ IsFiniteSet(s) /\ Cardinality(s) \in Nat
                          /\ Cardinality(s) <= Cardinality(S)
                          /\ Cardinality(s) = 0 <=> s = {}
  BY <1>a, FS_Subset, FS_CardinalityType, FS_EmptySet
<1>1. \A s \in SUBSET S : s # {} =>
        /\ AnyOf(s) \in s /\ s \ {AnyOf(s)} \in SUBSET S
        /\ Cardinality(s \ {AnyOf(s)}) = Cardinality(s) - 1
  <2> TAKE s \in SUBSET S
  <2> HAVE s # {}
  <2>1. AnyOf(s) \in s
    BY DEF AnyOf
  <2> QED
    BY <1>0, <2>1, FS_RemoveElement
<1>2. 0 \in T
  <2> DEFINE g == [s \in SUBSET S |-> 0]
  <2>1. g \in [SUBSET S -> Int] /\ UpTo(0, g)
    BY <1>0
  <2> QED
    BY <2>1
<1>3. ASSUME NEW k \in Nat, k \in T PROVE k + 1 \in T
  <2>1. PICK g \in [SUBSET S -> Int] : UpTo(k, g)
    BY <1>3
  <2> DEFINE h == [s \in SUBSET S |-> IF Cardinality(s) = k + 1
                                      THEN w[AnyOf(s)] + g[s \ {AnyOf(s)}] ELSE g[s]]
  <2>2. h \in [SUBSET S -> Int]
    <3>1. \A s \in SUBSET S : Cardinality(s) = k + 1 => w[AnyOf(s)] + g[s \ {AnyOf(s)}] \in Int
      <4> TAKE s \in SUBSET S
      <4> HAVE Cardinality(s) = k + 1
      <4>1. s # {}
        BY <1>0
      <4>2. w[AnyOf(s)] \in Int /\ g[s \ {AnyOf(s)}] \in Int
        BY <1>a, <1>1, <2>1, <4>1
      <4> QED
        BY <4>2
    <3> QED
      BY <2>1, <3>1
  <2>3. ASSUME NEW s \in SUBSET S, Cardinality(s) <= k + 1
        PROVE  h[s] = IF s = {} THEN 0 ELSE w[AnyOf(s)] + h[s \ {AnyOf(s)}]
    <3>1. CASE s = {}
      <4>1. Cardinality(s) = 0 /\ Cardinality(s) # k + 1 /\ Cardinality(s) <= k
        BY <1>0, <3>1
      <4> QED
        BY <2>1, <3>1, <4>1
    <3>2. CASE s # {}
      <4>1. /\ s \ {AnyOf(s)} \in SUBSET S
            /\ Cardinality(s \ {AnyOf(s)}) = Cardinality(s) - 1 /\ Cardinality(s) \in Nat
        BY <1>0, <1>1, <3>2
      <4>2. h[s \ {AnyOf(s)}] = g[s \ {AnyOf(s)}]
        <5>1. Cardinality(s \ {AnyOf(s)}) # k + 1
          BY <2>3, <4>1
        <5> QED
          BY <4>1, <5>1
      <4>3. CASE Cardinality(s) = k + 1
        BY <3>2, <4>2, <4>3
      <4>4. CASE Cardinality(s) # k + 1
        <5>1. Cardinality(s) <= k /\ h[s] = g[s]
          BY <2>3, <4>1, <4>4
        <5> QED
          BY <2>1, <3>2, <4>2, <5>1
      <4> QED
        BY <4>3, <4>4
    <3> QED
      BY <3>1, <3>2
  <2> HIDE DEF h
  <2> QED
    BY <2>2, <2>3
<1>4. Exists(Cardinality(S))
  <2>1. Cardinality(S) \in Nat
    BY <1>0
  <2>2. Nat \subseteq T
    <3> HIDE DEF T
    <3> QED
      BY <1>2, <1>3, CountingUp
  <2> HIDE DEF Exists
  <2> QED
    BY <2>1, <2>2
<1>5. PICK g \in [SUBSET S -> Int] : UpTo(Cardinality(S), g)
  BY <1>4
<1>6. \A s \in SUBSET S : g[s] = IF s = {} THEN 0 ELSE w[AnyOf(s)] + g[s \ {AnyOf(s)}]
  BY <1>0, <1>5
<1>7. {} \in SUBSET S
  OBVIOUS
<1> QED
  BY <1>6, <1>7 DEF Sums

\* It does not matter which element is taken out first.
TakesOut(g, S, w) == \A s \in SUBSET S : \A x \in s : g[s] = w[x] + g[s \ {x}]

LEMMA SumTakesOut ==
  ASSUME NEW S, NEW w, Weights(w, S), NEW g, Sums(g, S, w)
  PROVE  TakesOut(g, S, w)
<1> SUFFICES ASSUME NEW s \in SUBSET S, NEW x \in s PROVE g[s] = w[x] + g[s \ {x}]
  BY DEF TakesOut
<1>a. IsFiniteSet(S) /\ \A y \in S : w[y] \in Int
  BY DEF Weights
<1> DEFINE Like(k) == \A t \in SUBSET S : Cardinality(t) = k =>
                        \A y \in t : g[t] = w[y] + g[t \ {y}]
           T == {k \in Nat : Like(k)}
<1>0. \A t \in SUBSET S : IsFiniteSet(t) /\ Cardinality(t) \in Nat
  BY <1>a, FS_Subset, FS_CardinalityType
<1>1. 0 \in T
  BY <1>0, FS_EmptySet
<1>2. ASSUME NEW k \in Nat, k \in T PROVE k + 1 \in T
  <2> SUFFICES ASSUME NEW t \in SUBSET S, Cardinality(t) = k + 1, NEW y \in t
               PROVE  g[t] = w[y] + g[t \ {y}]
    OBVIOUS
  <2> DEFINE c == AnyOf(t)
  <2>1. c \in t /\ g[t] = w[c] + g[t \ {c}]
    BY DEF Sums, AnyOf
  <2> HIDE DEF c
  <2>2. CASE c = y
    BY <2>1, <2>2
  <2>3. CASE c # y
    <3>1. \A z \in t : /\ t \ {z} \in SUBSET S /\ Cardinality(t \ {z}) = k
      <4> TAKE z \in t
      <4>1. Cardinality(t \ {z}) = Cardinality(t) - 1
        BY <1>0, FS_RemoveElement
      <4> QED
        BY <4>1
    <3>2. g[t \ {c}] = w[y] + g[(t \ {c}) \ {y}]
      BY <1>2, <2>1, <2>3, <3>1
    <3>3. g[t \ {y}] = w[c] + g[(t \ {y}) \ {c}]
      BY <1>2, <2>1, <2>3, <3>1
    <3>4. (t \ {c}) \ {y} = (t \ {y}) \ {c} /\ (t \ {c}) \ {y} \in SUBSET S
      OBVIOUS
    <3>5. w[c] \in Int /\ w[y] \in Int /\ g[(t \ {c}) \ {y}] \in Int
      BY <1>a, <2>1, <3>4 DEF Sums
    <3>6. \A a, b, d \in Int : a + (b + d) = b + (a + d)
      OBVIOUS
    <3>7. w[c] + (w[y] + g[(t \ {c}) \ {y}]) = w[y] + (w[c] + g[(t \ {c}) \ {y}])
      BY <3>5, <3>6
    <3> QED
      BY <2>1, <3>2, <3>3, <3>4, <3>7
  <2> QED
    BY <2>2, <2>3
<1>3. Like(Cardinality(s))
  <2>1. Nat \subseteq T
    <3> HIDE DEF T
    <3> QED
      BY <1>1, <1>2, CountingUp
  <2> HIDE DEF Like
  <2> QED
    BY <1>0, <2>1
<1> QED
  BY <1>3

\* Two sets whose elements correspond and weigh the same weigh the same.
LEMMA SumsMatch ==
  ASSUME NEW S, NEW w, Weights(w, S), NEW g, Sums(g, S, w),
         NEW T, NEW v, Weights(v, T), NEW h, Sums(h, T, v),
         NEW f \in Bijection(S, T), \A x \in S : w[x] = v[f[x]]
  PROVE  g[S] = h[T] /\ g[S] \in Int
<1>a. TakesOut(g, S, w) /\ TakesOut(h, T, v)
  BY SumTakesOut
<1> DEFINE Image(s) == {f[x] : x \in s}
           Same(k) == \A s \in SUBSET S : Cardinality(s) = k => g[s] = h[Image(s)]
           U == {k \in Nat : Same(k)}
<1>0. \A s \in SUBSET S : /\ IsFiniteSet(s) /\ Cardinality(s) \in Nat
                          /\ Cardinality(s) = 0 <=> s = {}
  BY FS_Subset, FS_CardinalityType, FS_EmptySet DEF Weights
<1>1. 0 \in U
  <2>1. g[{}] = 0 /\ h[{}] = 0
    BY DEF Sums
  <2> QED
    BY <1>0, <2>1
<1>2. ASSUME NEW k \in Nat, k \in U PROVE k + 1 \in U
  <2> SUFFICES ASSUME NEW s \in SUBSET S, Cardinality(s) = k + 1 PROVE g[s] = h[Image(s)]
    OBVIOUS
  <2>1. PICK x \in s : TRUE
    BY <1>0
  <2>2. s \ {x} \in SUBSET S /\ Cardinality(s \ {x}) = k
    <3>1. Cardinality(s \ {x}) = Cardinality(s) - 1
      BY <1>0, <2>1, FS_RemoveElement
    <3> QED
      BY <3>1
  <2>3. g[s \ {x}] = h[Image(s \ {x})]
    BY <1>2, <2>2
  <2>4. /\ Image(s) \in SUBSET T /\ f[x] \in Image(s)
        /\ Image(s \ {x}) = Image(s) \ {f[x]}
    BY <2>1 DEF Bijection, Injection, Surjection, IsInjective
  <2>5. g[s] = w[x] + g[s \ {x}]
    BY <1>a, <2>1 DEF TakesOut
  <2>6. h[Image(s)] = v[f[x]] + h[Image(s) \ {f[x]}]
    <3> HIDE DEF Image
    <3> QED
      BY <1>a, <2>4 DEF TakesOut
  <2> QED
    BY <2>1, <2>3, <2>4, <2>5, <2>6
<1>3. Same(Cardinality(S))
  <2>1. Nat \subseteq U
    <3> HIDE DEF U
    <3> QED
      BY <1>1, <1>2, CountingUp
  <2> HIDE DEF Same
  <2> QED
    BY <1>0, <2>1
<1>4. Image(S) = T
  BY DEF Bijection, Surjection
<1>5. g[S] \in Int
  BY DEF Sums
<1> QED
  BY <1>3, <1>4, <1>5

-----------------------------------------------------------------------------
(* Sums of the elements of a sequence, one after the other.                *)

PartialSums(F, n, w) ==
  F \in [0..n -> Int] /\ F[0] = 0 /\ \A k \in 1..n : F[k] = F[k - 1] + w[k]

LEMMA PartialSumsAreUnique ==
  ASSUME NEW n \in Nat, NEW w, NEW F, PartialSums(F, n, w),
         NEW m \in Nat, n <= m, NEW v, NEW H, PartialSums(H, m, v),
         \A k \in 1..n : v[k] = w[k]
  PROVE  \A k \in 0..n : F[k] = H[k]
<1> DEFINE S == {k \in Nat : k <= n => F[k] = H[k]}
<1>1. 0 \in S
  BY DEF PartialSums
<1>2. ASSUME NEW k \in Nat, k \in S PROVE k + 1 \in S
  <2> SUFFICES ASSUME k + 1 <= n PROVE F[k + 1] = H[k + 1]
    OBVIOUS
  <2>1. k + 1 \in 1..n /\ k + 1 \in 1..m /\ (k + 1) - 1 = k
    OBVIOUS
  <2>2. F[k] = H[k]
    BY <1>2
  <2> QED
    BY <2>1, <2>2 DEF PartialSums
<1>3. Nat \subseteq S
  <2> HIDE DEF S
  <2> QED
    BY <1>1, <1>2, CountingUp
<1> QED
  BY <1>3

LEMMA MaxOfPart ==
  ASSUME NEW n \in Nat
  PROVE  \A s \in SUBSET (1..n) : s # {} => Max(s) \in s /\ s \ {Max(s)} \in SUBSET (1..n)
<1> TAKE s \in SUBSET (1..n)
<1>1. s \subseteq Int /\ IsFiniteSet(s)
  <2>1. IsFiniteSet(1..n)
    BY FS_Interval
  <2>2. IsFiniteSet(s)
    BY <2>1, FS_Subset
  <2> QED
    BY <2>2
<1> QED
  BY <1>1, MaxIsGreatest

\* The recursion by which a fold over 1..n adds up.
Adds(g, n, w) == g = [s \in SUBSET (1..n) |->
                        IF s = {} THEN 0 ELSE g[s \ {Max(s)}] + w[Max(s)]]

LEMMA AddsOneByOne ==
  ASSUME NEW n \in Nat, NEW w, \A i \in 1..n : w[i] \in Int
  PROVE  /\ \E g : Adds(g, n, w)
         /\ \A h : Adds(h, n, w) => \E F : PartialSums(F, n, w) /\ F[n] = h[1..n]
<1> DEFINE V == Int
           base == 0
           G == [i \in 1..n |-> [v \in V |-> v + w[i]]]
<1>1. \A s \in SUBSET (1..n) : s # {} => Max(s) \in s /\ s \ {Max(s)} \in SUBSET (1..n)
  BY MaxOfPart
<1>2. /\ AreSteps(G, n, V) /\ base \in V
      /\ \A i \in 1..n, v \in Int : G[i][v] = v + w[i]
  BY DEF AreSteps
<1> HIDE DEF G, V, base
<1>3. PICK g : g \in [SUBSET (1..n) -> V] /\ FoldsBy(g, n, V, base, G)
  BY <1>2, FoldExists
<1>4. Adds(g, n, w)
  <2>1. ASSUME NEW s \in SUBSET (1..n), s # {} PROVE g[s] = g[s \ {Max(s)}] + w[Max(s)]
    <3>1. Max(s) \in 1..n /\ g[s \ {Max(s)}] \in Int
      BY <1>1, <1>3, <2>1 DEF V
    <3> QED
      BY <1>2, <1>3, <2>1, <3>1 DEF FoldsBy, V
  <2> QED
    BY <1>3, <2>1 DEF FoldsBy, Adds, base
<1>5. ASSUME NEW h, Adds(h, n, w)
      PROVE  \E F : PartialSums(F, n, w) /\ F[n] = h[1..n]
  <2>1. h[{}] = 0 /\ \A s \in SUBSET (1..n) : s # {} => h[s] = h[s \ {Max(s)}] + w[Max(s)]
    BY <1>5 DEF Adds
  <2>2. ASSUME NEW s \in SUBSET (1..n), s # {}, h[s \ {Max(s)}] \in V
        PROVE  h[s] = G[Max(s)][h[s \ {Max(s)}]]
    BY <1>1, <1>2, <2>1, <2>2 DEF V
  <2>3. FoldsBy(h, n, V, base, G)
    BY <2>1, <2>2 DEF FoldsBy, base
  <2>4. PICK F : GoesThrough(F, n, V, base, G) /\ F[n] = h[1..n]
    BY <1>2, <2>3, FoldUnrolls
  <2>5. ASSUME NEW k \in 1..n PROVE F[k] = F[k - 1] + w[k]
    <3>1. k - 1 \in 0..n
      OBVIOUS
    <3> QED
      BY <1>2, <2>4, <3>1 DEF GoesThrough, V
  <2>6. PartialSums(F, n, w)
    BY <2>4, <2>5 DEF PartialSums, GoesThrough, V, base
  <2> QED
    BY <2>4, <2>6
<1> QED
  BY <1>4, <1>5

LEMMA FoldLeftAdds ==
  ASSUME NEW n \in Nat, NEW w \in [1..n -> Int]
  PROVE  \E F : PartialSums(F, n, w) /\ F[n] = FoldLeft(+, 0, w)
<1> DEFINE Equation(f) == f = [s \in SUBSET (1..n) |->
                                 IF s = {} THEN 0 ELSE f[s \ {Max(s)}] + w[Max(s)]]
           h == CHOOSE f : Equation(f)
<1>1. FoldLeft(+, 0, w) = h[1..n]
  <2>1. FoldLeft(+, 0, w) =
          (CHOOSE f : f = [s \in SUBSET DOMAIN w |->
             IF s = {} THEN 0 ELSE f[s \ {Max(s)}] + w[Max(s)]])[DOMAIN w]
    BY Zenon DEF FoldLeft, MapThenFoldSet
  <2>2. DOMAIN w = 1..n
    OBVIOUS
  <2> QED
    BY <2>1, <2>2, Zenon
<1>2. \A f : Equation(f) <=> Adds(f, n, w)
  BY DEF Adds
<1> HIDE DEF Equation
<1>3. Adds(h, n, w)
  <2>1. \E f : Equation(f)
    BY <1>2, AddsOneByOne
  <2> QED
    BY <1>2, <2>1
<1> HIDE DEF h
<1>4. PICK F : PartialSums(F, n, w) /\ F[n] = h[1..n]
  BY <1>3, AddsOneByOne
<1> QED
  BY <1>1, <1>4
=============================================================================
