---------------------------- MODULE InductionLemmas ----------------------------
(***************************************************************************)
(* What proofs by induction need: induction over the natural numbers for a *)
(* set of them, least and greatest elements, and the functions that a      *)
(* recursive definition along a sequence defines.                          *)
(***************************************************************************)
EXTENDS Integers, WellFoundedInduction, TLAPS

Less == {pair \in Nat \X Nat : pair[1] < pair[2]}

LEMMA LessIsWellFounded == IsWellFoundedOn(Less, Nat)
BY NatLessThanWellFounded DEF Less, OpToRel

\* Induction, for a set of numbers.
LEMMA NaturalInduction ==
  ASSUME NEW S \in SUBSET Nat, 0 \in S, \A n \in S : n + 1 \in S
  PROVE  S = Nat
<1> DEFINE Rest == Nat \ S
<1> SUFFICES ASSUME Rest # {}
             PROVE  FALSE
  OBVIOUS
<1>1. PICK n \in Rest : \A m \in Rest : <<m, n>> \notin Less
  BY WFMin, LessIsWellFounded
<1>2. n # 0 /\ n - 1 \in Nat
  OBVIOUS
<1>3. <<n - 1, n>> \in Less
  BY <1>2 DEF Less
<1>4. n - 1 \in S
  BY <1>1, <1>2, <1>3
<1> QED
  BY <1>2, <1>4

\* A set of numbers that is not empty has a least element.
LEMMA LeastExists ==
  ASSUME NEW S \in SUBSET Nat, S # {}
  PROVE  \E n \in S : \A m \in S : n <= m
<1>1. PICK n \in S : \A m \in S : <<m, n>> \notin Less
  BY WFMin, LessIsWellFounded
<1>2. ASSUME NEW m \in S
      PROVE  n <= m
  <2>1. m < n => <<m, n>> \in Less
    BY DEF Less
  <2> QED
    BY <1>1, <2>1
<1> QED
  BY <1>2

\* A bounded set of numbers that is not empty has a greatest element.
LEMMA GreatestExists ==
  ASSUME NEW N \in Nat, NEW S \in SUBSET (1..N), S # {}
  PROVE  \E n \in S : \A m \in S : m <= n
<1> DEFINE Above == {b \in Nat : \A m \in S : m <= b}
<1>1. PICK least \in Above : \A b \in Above : least <= b
  <2>1. Above \in SUBSET Nat /\ N \in Above
    OBVIOUS
  <2> HIDE DEF Above
  <2> QED
    BY <2>1, LeastExists
<1>2. least \in Nat \ {0}
  <2>1. PICK k \in S : TRUE
    OBVIOUS
  <2> QED
    BY <2>1
<1>3. least \in S
  <2>1. SUFFICES ASSUME least \notin S
                 PROVE  FALSE
    OBVIOUS
  <2>2. least - 1 \in Above
    BY <1>2, <2>1
  <2> QED
    BY <1>1, <1>2, <2>2
<1> QED
  BY <1>3

\* The values that a start and a step for each number lead to, one after another.
Iterates(f, N, Value, start, step) ==
  /\ f \in [0..N -> Value] /\ f[0] = start
  /\ \A n \in 1..N : f[n] = step[n][f[n - 1]]

LEMMA IterationExists ==
  ASSUME NEW N \in Nat, NEW Value, NEW start \in Value,
         NEW step \in [1..N -> [Value -> Value]]
  PROVE  \E f : Iterates(f, N, Value, start, step)
<1> DEFINE Leads(f, M) == Iterates(f, M, Value, start, step)
           Reached == {M \in Nat : M <= N => \E f : Leads(f, M)}
<1>1. 0 \in Reached
  <2>1. Leads([n \in 0..0 |-> start], 0)
    BY DEF Iterates
  <2> QED
    BY <2>1
<1>2. ASSUME NEW M \in Reached
      PROVE  M + 1 \in Reached
  <2> SUFFICES ASSUME M + 1 <= N
               PROVE  \E f : Leads(f, M + 1)
    OBVIOUS
  <2>1. PICK f : Leads(f, M)
    OBVIOUS
  <2> USE DEF Iterates
  <2> DEFINE longer == [n \in 0..(M + 1) |-> IF n = M + 1 THEN step[n][f[M]] ELSE f[n]]
  <2>2. step[M + 1][f[M]] \in Value
    <3>1. f[M] \in Value /\ M + 1 \in 1..N
      BY <2>1
    <3> QED
      BY <3>1
  <2>3. longer \in [0..(M + 1) -> Value] /\ longer[0] = start
    BY <2>1, <2>2
  <2>4. ASSUME NEW n \in 1..(M + 1)
        PROVE  longer[n] = step[n][longer[n - 1]]
    <3>1. CASE n = M + 1
      BY <3>1
    <3>2. CASE n \in 1..M
      <4>1. longer[n] = f[n] /\ longer[n - 1] = f[n - 1]
        BY <3>2
      <4> QED
        BY <2>1, <3>2, <4>1
    <3> QED
      BY <3>1, <3>2
  <2> HIDE DEF longer
  <2>5. Leads(longer, M + 1)
    BY <2>3, <2>4
  <2> HIDE DEF Leads
  <2> QED
    BY <2>5
<1>3. Reached = Nat
  <2> HIDE DEF Reached
  <2>1. Reached \in SUBSET Nat
    BY DEF Reached
  <2> QED
    BY <1>1, <1>2, <2>1, NaturalInduction
<1>4. N <= N /\ N \in Reached
  <2> HIDE DEF Reached
  <2> QED
    BY <1>3
<1> QED
  BY <1>4

\* The sums of the first numbers of a sequence.
Sums(f, N, summand) ==
  /\ f \in [0..N -> Nat] /\ f[0] = 0
  /\ \A n \in 1..N : f[n] = f[n - 1] + summand[n]

LEMMA SumExists ==
  ASSUME NEW N \in Nat, NEW summand \in [1..N -> Nat]
  PROVE  \E f : Sums(f, N, summand)
<1> DEFINE step == [n \in 1..N |-> [sum \in Nat |-> sum + summand[n]]]
<1>1. step \in [1..N -> [Nat -> Nat]] /\ 0 \in Nat
  OBVIOUS
<1>2. \A n \in 1..N : \A sum \in Nat : step[n][sum] = sum + summand[n]
  OBVIOUS
<1> HIDE DEF step
<1>3. PICK f : Iterates(f, N, Nat, 0, step)
  BY <1>1, IterationExists
<1>4. f \in [0..N -> Nat] /\ f[0] = 0 /\ \A n \in 1..N : f[n] = step[n][f[n - 1]]
  BY <1>3 DEF Iterates
<1>5. \A n \in 1..N : n - 1 \in 0..N /\ f[n - 1] \in Nat
  BY <1>4
<1>6. \A n \in 1..N : f[n] = f[n - 1] + summand[n]
  BY <1>2, <1>4, <1>5
<1> QED
  BY <1>4, <1>6 DEF Sums
=============================================================================
