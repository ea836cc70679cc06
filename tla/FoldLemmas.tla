------------------------------ MODULE FoldLemmas ------------------------------
(***************************************************************************)
(* Lemmas on the folds of the models: what FoldLeft returns is the last of *)
(* a chain of intermediate results, one for each element it has passed.    *)
(* Facts about such chains are shown by taking the least index at which    *)
(* they would fail.                                                        *)
(***************************************************************************)
EXTENDS SequencesExt, FiniteSetTheorems, TLAPS

(***************************************************************************)
(* Natural numbers are well ordered: the way into every induction below.   *)
(***************************************************************************)
NatLess == {p \in Nat \X Nat : p[1] < p[2]}

LEMMA LeastExists ==
  ASSUME NEW T \in SUBSET Nat, T # {}
  PROVE  \E n \in T : \A m \in T : n <= m
<1>1. NatLess = OpToRel(<, Nat)
  BY DEF NatLess, OpToRel
<1>2. IsWellFoundedOn(NatLess, Nat)
  BY <1>1, NatLessThanWellFounded
<1>3. PICK n \in T : \A m \in T : <<m, n>> \notin NatLess
  BY <1>2, WFMin
<1>4. ASSUME NEW m \in T
      PROVE  n <= m
  <2>1. m \in Nat /\ n \in Nat /\ <<m, n>> \in Nat \X Nat
    OBVIOUS
  <2>2. ~(m < n)
    BY <1>3, <2>1 DEF NatLess
  <2>3. QED
    BY <2>1, <2>2
<1>5. QED
  BY <1>4

(***************************************************************************)
(* A set of numbers that holds 0 and, with each number below a bound, the  *)
(* next one, holds all numbers up to the bound.                            *)
(***************************************************************************)
LEMMA Climb ==
  ASSUME NEW n \in Nat, NEW S, 0 \in S,
         \A k \in 0 .. n - 1 : k \in S => k + 1 \in S
  PROVE  \A k \in 0 .. n : k \in S
<1> DEFINE T == {k \in 0 .. n : k \notin S}
<1>1. SUFFICES ASSUME T # {}
               PROVE  FALSE
  OBVIOUS
<1>2. T \in SUBSET Nat
  OBVIOUS
<1>3. PICK k \in T : \A m \in T : k <= m
  <2> HIDE DEF T
  <2> QED
    BY <1>1, <1>2, LeastExists
<1>4. k \in 0 .. n /\ k \notin S /\ k # 0
  OBVIOUS
<1>5. k - 1 \in 0 .. n - 1 /\ k - 1 \in 0 .. n
  BY <1>4
<1>6. k - 1 \notin T
  BY <1>3, <1>4
<1>7. k - 1 + 1 \in S
  BY <1>5, <1>6
<1>8. QED
  BY <1>4, <1>7

LEMMA MaxIsLast ==
  ASSUME NEW n \in Nat, NEW t \in SUBSET (1 .. n), t # {}
  PROVE  Max(t) \in t /\ \A x \in t : x <= Max(t)
<1> DEFINE T == {m \in 0 .. n : \A x \in t : x <= m}
<1>1. n \in T /\ T \in SUBSET Nat
  OBVIOUS
<1>2. PICK m \in T : \A k \in T : m <= k
  <2> HIDE DEF T
  <2> QED
    BY <1>1, LeastExists
<1>3. m \in t
  <2>1. SUFFICES ASSUME m \notin t
                 PROVE  FALSE
    OBVIOUS
  <2>2. m # 0
    <3>1. PICK x \in t : x <= m /\ x \in 1 .. n
      OBVIOUS
    <3>2. QED
      BY <3>1
  <2>3. m - 1 \in T
    BY <2>1, <2>2
  <2>4. QED
    BY <1>2, <2>3
<1>4. m \in t /\ \A x \in t : m >= x
  BY <1>3
<1>5. QED
  BY <1>4 DEF Max

-----------------------------------------------------------------------------
(***************************************************************************)
(* The function the definition of MapThenFoldSet asks for, one value for   *)
(* each set of positions, exists whatever step is taken at each position.  *)
(***************************************************************************)
Folds(it, n, base, step) ==
  it = [t \in SUBSET (1 .. n) |->
          IF t = {} THEN base ELSE step[<<it[t \ {Max(t)}], Max(t)>>]]

LEMMA FoldExists ==
  ASSUME NEW V, NEW base \in V, NEW n \in Nat,
         NEW step \in [V \X (1 .. n) -> V]
  PROVE  \E it \in [SUBSET (1 .. n) -> V] : Folds(it, n, base, step)
<1> DEFINE S == {k \in 0 .. n :
                   \E it \in [SUBSET (1 .. k) -> V] : Folds(it, k, base, step)}
<1>1. 0 \in S
  <2>1. 1 .. 0 = {} /\ SUBSET (1 .. 0) = {{}}
    OBVIOUS
  <2> DEFINE it == [t \in SUBSET (1 .. 0) |-> base]
  <2>2. it \in [SUBSET (1 .. 0) -> V]
    OBVIOUS
  <2>3. it = [t \in SUBSET (1 .. 0) |->
                IF t = {} THEN base ELSE step[<<it[t \ {Max(t)}], Max(t)>>]]
    BY <2>1
  <2> HIDE DEF it
  <2>4. Folds(it, 0, base, step)
    BY <2>3 DEF Folds
  <2>5. \E f \in [SUBSET (1 .. 0) -> V] : Folds(f, 0, base, step)
    BY <2>2, <2>4
  <2>6. 0 \in 0 .. n
    OBVIOUS
  <2>7. QED
    BY <2>5, <2>6
<1>2. ASSUME NEW k \in 0 .. n - 1, k \in S
      PROVE  k + 1 \in S
  <2>1. PICK it \in [SUBSET (1 .. k) -> V] : Folds(it, k, base, step)
    BY <1>2
  <2> DEFINE new == [t \in SUBSET (1 .. k + 1) |->
                       IF k + 1 \in t THEN step[<<it[t \ {k + 1}], k + 1>>]
                       ELSE it[t]]
  <2>2. ASSUME NEW t \in SUBSET (1 .. k + 1)
        PROVE  /\ new[t] \in V
               /\ new[t] = IF t = {} THEN base
                           ELSE step[<<new[t \ {Max(t)}], Max(t)>>]
    <3>1. CASE k + 1 \in t
      <4>1. t \ {k + 1} \in SUBSET (1 .. k)
        OBVIOUS
      <4>2. Max(t) = k + 1
        <5>0. k + 1 \in Nat /\ t # {}
          BY <3>1
        <5>1. Max(t) \in t /\ \A x \in t : x <= Max(t)
          BY <5>0, MaxIsLast
        <5>2. Max(t) \in 1 .. k + 1
          BY <5>1
        <5>3. k + 1 <= Max(t)
          BY <3>1, <5>1
        <5>4. k \in Nat
          OBVIOUS
        <5> HIDE DEF S, new
        <5>5. QED
          BY <5>2, <5>3, <5>4
      <4>3. new[t] = step[<<it[t \ {k + 1}], k + 1>>]
        BY <3>1
      <4>4. new[t \ {k + 1}] = it[t \ {k + 1}]
        BY <4>1
      <4>5. it[t \ {k + 1}] \in V /\ k + 1 \in 1 .. n
        BY <4>1
      <4> HIDE DEF new
      <4>6. QED
        BY <3>1, <4>2, <4>3, <4>4, <4>5
    <3>2. CASE k + 1 \notin t
      <4>1. t \in SUBSET (1 .. k)
        BY <3>2
      <4>2. new[t] = it[t] /\ new[t] \in V
        BY <3>2, <4>1
      <4>3. it[t] = IF t = {} THEN base ELSE step[<<it[t \ {Max(t)}], Max(t)>>]
        BY <2>1, <4>1 DEF Folds
      <4>4. new[t \ {Max(t)}] = it[t \ {Max(t)}]
        BY <3>2, <4>1
      <4> HIDE DEF new
      <4>5. QED
        BY <4>2, <4>3, <4>4
    <3>3. QED
      BY <3>1, <3>2
  <2>3. new \in [SUBSET (1 .. k + 1) -> V]
    BY <2>2
  <2>4. new = [t \in SUBSET (1 .. k + 1) |->
                 IF t = {} THEN base ELSE step[<<new[t \ {Max(t)}], Max(t)>>]]
    BY <2>2
  <2> HIDE DEF new
  <2>5. Folds(new, k + 1, base, step)
    BY <2>4 DEF Folds
  <2>6. QED
    BY <2>3, <2>5
<1>3. n \in S
  <2> HIDE DEF S
  <2>1. \A k \in 0 .. n : k \in S
    BY <1>1, <1>2, Climb
  <2>2. QED
    BY <2>1
<1>4. QED
  BY <1>3
-----------------------------------------------------------------------------
(***************************************************************************)
(* Sums: p lists the sums of the first 0, 1, ... n numbers of d.           *)
(***************************************************************************)
Sums(p, d, n) ==
  /\ p \in [0 .. n -> Int]
  /\ p[0] = 0
  /\ \A k \in 1 .. n : p[k] = p[k - 1] + d[k]

(***************************************************************************)
(* The function FoldLeft computes for a sum, and what it makes of the      *)
(* positions 1 .. k.                                                       *)
(***************************************************************************)
LEMMA SumExists ==
  ASSUME NEW n \in Nat, NEW d \in [1 .. n -> Int]
  PROVE  \E it : it = [t \in SUBSET (1 .. n) |->
                         IF t = {} THEN 0 ELSE it[t \ {Max(t)}] + d[Max(t)]]
<1> DEFINE step == [p \in Int \X (1 .. n) |-> p[1] + d[p[2]]]
<1>1. step \in [Int \X (1 .. n) -> Int]
  OBVIOUS
<1>2. PICK it \in [SUBSET (1 .. n) -> Int] : Folds(it, n, 0, step)
  <2> HIDE DEF step
  <2>1. 0 \in Int
    OBVIOUS
  <2>2. QED
    BY <1>1, <2>1, FoldExists, Zenon
<1>3. ASSUME NEW t \in SUBSET (1 .. n), t # {}
      PROVE  step[<<it[t \ {Max(t)}], Max(t)>>] = it[t \ {Max(t)}] + d[Max(t)]
  <2>1. Max(t) \in 1 .. n
    BY <1>3, MaxIsLast
  <2>2. it[t \ {Max(t)}] \in Int
    OBVIOUS
  <2>3. QED
    BY <2>1, <2>2
<1> HIDE DEF step
<1>4. it = [t \in SUBSET (1 .. n) |->
              IF t = {} THEN 0 ELSE it[t \ {Max(t)}] + d[Max(t)]]
  BY <1>2, <1>3 DEF Folds
<1>5. QED
  BY <1>4

LEMMA SumsOfFold ==
  ASSUME NEW n \in Nat, NEW d \in [1 .. n -> Int], NEW it,
         it = [t \in SUBSET (1 .. n) |->
                 IF t = {} THEN 0 ELSE it[t \ {Max(t)}] + d[Max(t)]]
  PROVE  \E p : Sums(p, d, n) /\ p[n] = it[1 .. n]
<1> DEFINE p == [k \in 0 .. n |-> it[1 .. k]]
           S == {k \in 0 .. n : p[k] \in Int}
<1>1. p[0] = 0
  <2>1. 1 .. 0 = {} /\ {} \in SUBSET (1 .. n)
    OBVIOUS
  <2>2. it[{}] = 0
    BY <2>1
  <2>3. QED
    BY <2>1, <2>2
<1>2. ASSUME NEW k \in 1 .. n
      PROVE  p[k] = p[k - 1] + d[k]
  <2>1. 1 .. k \in SUBSET (1 .. n) /\ 1 .. k # {} /\ k \in Nat
    OBVIOUS
  <2>2. Max(1 .. k) = k
    <3>1. Max(1 .. k) \in 1 .. k /\ \A x \in 1 .. k : x <= Max(1 .. k)
      BY <2>1, MaxIsLast
    <3>2. k \in 1 .. k
      OBVIOUS
    <3>3. QED
      BY <3>1, <3>2
  <2>3. (1 .. k) \ {k} = 1 .. k - 1
    OBVIOUS
  <2>4. it[1 .. k] = it[1 .. k - 1] + d[k]
    BY <2>1, <2>2, <2>3
  <2>5. k \in 0 .. n /\ k - 1 \in 0 .. n
    OBVIOUS
  <2>6. QED
    BY <2>4, <2>5
<1>3. ASSUME NEW k \in 0 .. n - 1, k \in S
      PROVE  k + 1 \in S
  <2>1. k + 1 \in 1 .. n /\ k + 1 - 1 = k /\ k + 1 \in 0 .. n
    OBVIOUS
  <2>2. p[k + 1] = p[k] + d[k + 1]
    <3> HIDE DEF p
    <3> QED
      BY <1>2, <2>1
  <2>3. p[k + 1] \in Int
    <3>1. p[k] \in Int
      BY <1>3
    <3> HIDE DEF p
    <3>2. QED
      BY <2>1, <2>2, <3>1
  <2>4. QED
    BY <2>1, <2>3
<1>4. \A k \in 0 .. n : p[k] \in Int
  <2>1. 0 \in S
    BY <1>1
  <2>2. \A k \in 0 .. n : k \in S
    <3> HIDE DEF S
    <3> QED
      BY <1>3, <2>1, Climb
  <2>3. QED
    BY <2>2
<1>5. p \in [0 .. n -> Int]
  BY <1>4
<1>6. p[n] = it[1 .. n]
  <2>1. n \in 0 .. n
    OBVIOUS
  <2>2. QED
    BY <2>1
<1> HIDE DEF p
<1>7. QED
  BY <1>1, <1>2, <1>5, <1>6 DEF Sums

(***************************************************************************)
(* Sums over the same numbers agree; more numbers, or larger ones, that    *)
(* are not negative do not make a sum smaller.                             *)
(***************************************************************************)
LEMMA SumsAgree ==
  ASSUME NEW m \in Nat, NEW n \in Nat, m <= n,
         NEW d \in [1 .. m -> Int], NEW e \in [1 .. n -> Int],
         NEW p, NEW q, Sums(p, d, m), Sums(q, e, n),
         \A k \in 1 .. m : d[k] = e[k]
  PROVE  p[m] = q[m]
<1> DEFINE S == {k \in 0 .. m : p[k] = q[k]}
<1>1. 0 \in S
  BY DEF Sums
<1>2. ASSUME NEW k \in 0 .. m - 1, k \in S
      PROVE  k + 1 \in S
  <2>1. k + 1 \in 1 .. m /\ k + 1 \in 1 .. n /\ k + 1 - 1 = k
    OBVIOUS
  <2>2. p[k + 1] = p[k] + d[k + 1] /\ q[k + 1] = q[k] + e[k + 1]
    BY <2>1 DEF Sums
  <2>3. QED
    BY <1>2, <2>1, <2>2
<1>3. m \in S
  <2>1. \A k \in 0 .. m : k \in S
    <3> HIDE DEF S
    <3> QED
      BY <1>1, <1>2, Climb
  <2>2. QED
    BY <2>1
<1>4. QED
  BY <1>3

LEMMA SumsAppend ==
  ASSUME NEW n \in Nat, NEW m \in Nat, n < m, m <= n + 1,
         NEW d \in [1 .. n -> Int], NEW e \in [1 .. m -> Int],
         NEW p, NEW q, Sums(p, d, n), Sums(q, e, m),
         \A k \in 1 .. n : d[k] = e[k]
  PROVE  q[m] = p[n] + e[m]
<1>1. m \in 1 .. m /\ m - 1 = n /\ n <= m
  OBVIOUS
<1>2. p[n] = q[n]
  BY <1>1, SumsAgree
<1>3. q[m] = q[m - 1] + e[m]
  BY <1>1 DEF Sums
<1>4. QED
  BY <1>1, <1>2, <1>3

LEMMA SumsGrow ==
  ASSUME NEW n \in Nat, NEW d \in [1 .. n -> Int], NEW e \in [1 .. n -> Int],
         NEW p, NEW q, Sums(p, d, n), Sums(q, e, n),
         \A k \in 1 .. n : d[k] <= e[k]
  PROVE  p[n] <= q[n]
<1> DEFINE S == {k \in 0 .. n : p[k] <= q[k]}
<1>1. 0 \in S
  BY DEF Sums
<1>2. ASSUME NEW k \in 0 .. n - 1, k \in S
      PROVE  k + 1 \in S
  <2>1. k + 1 \in 1 .. n /\ k + 1 \in 0 .. n /\ k \in 0 .. n /\ k + 1 - 1 = k
    OBVIOUS
  <2>2. p[k + 1] = p[k] + d[k + 1] /\ q[k + 1] = q[k] + e[k + 1]
    BY <2>1 DEF Sums
  <2>3. /\ p[k] \in Int /\ q[k] \in Int /\ d[k + 1] \in Int /\ e[k + 1] \in Int
        /\ p[k] <= q[k] /\ d[k + 1] <= e[k + 1]
    BY <1>2, <2>1 DEF Sums
  <2>4. QED
    BY <2>1, <2>2, <2>3
<1>3. n \in S
  <2>1. \A k \in 0 .. n : k \in S
    <3> HIDE DEF S
    <3> QED
      BY <1>1, <1>2, Climb
  <2>2. QED
    BY <2>1
<1>4. QED
  BY <1>3

-----------------------------------------------------------------------------
(***************************************************************************)
(* Chain: c lists the results of folding the first 0, 1, ... n elements.   *)
(***************************************************************************)
Chain(c, V, n, base, step) ==
  /\ c \in [0 .. n -> V]
  /\ c[0] = base
  /\ \A k \in 1 .. n : c[k] = step[<<c[k - 1], k>>]

LEMMA FirstOnes ==
  ASSUME NEW n \in Nat, NEW k \in 1 .. n
  PROVE  /\ 1 .. k \in SUBSET (1 .. n) /\ 1 .. k # {}
         /\ Max(1 .. k) = k
         /\ (1 .. k) \ {k} = 1 .. k - 1
<1>1. 1 .. k \in SUBSET (1 .. n) /\ 1 .. k # {} /\ k \in 1 .. k /\ k \in Nat
  OBVIOUS
<1>2. Max(1 .. k) \in 1 .. k /\ \A x \in 1 .. k : x <= Max(1 .. k)
  BY <1>1, MaxIsLast
<1>3. Max(1 .. k) = k
  BY <1>1, <1>2
<1>4. QED
  BY <1>1, <1>3

\* What is asked of the function of MapThenFoldSet.
Follows(it, V, n, base, step) ==
  /\ it[{}] = base
  /\ \A k \in 1 .. n : it[1 .. k - 1] \in V
                         => it[1 .. k] = step[<<it[1 .. k - 1], k>>]

LEMMA ChainOfFold ==
  ASSUME NEW V, NEW base \in V, NEW n \in Nat,
         NEW step \in [V \X (1 .. n) -> V], NEW it,
         Follows(it, V, n, base, step)
  PROVE  \E c : Chain(c, V, n, base, step) /\ c[n] = it[1 .. n]
<1> DEFINE c == [k \in 0 .. n |-> it[1 .. k]]
           S == {k \in 0 .. n : it[1 .. k] \in V}
<1>1. 0 \in S /\ c[0] = base
  <2>1. 1 .. 0 = {}
    OBVIOUS
  <2>2. QED
    BY <2>1 DEF Follows
<1>2. ASSUME NEW k \in 0 .. n - 1, k \in S
      PROVE  k + 1 \in S
  <2>1. k + 1 \in 1 .. n /\ k + 1 - 1 = k /\ k + 1 \in 0 .. n
    OBVIOUS
  <2>2. it[1 .. k] \in V
    BY <1>2
  <2>3. it[1 .. k + 1] = step[<<it[1 .. k], k + 1>>]
    BY <2>1, <2>2 DEF Follows
  <2>4. it[1 .. k + 1] \in V
    BY <2>1, <2>2, <2>3
  <2>5. QED
    BY <2>1, <2>4
<1>3. \A k \in 0 .. n : k \in S
  <2> HIDE DEF S
  <2> QED
    BY <1>1, <1>2, Climb
<1>4. c \in [0 .. n -> V]
  BY <1>3
<1>5. ASSUME NEW k \in 1 .. n
      PROVE  c[k] = step[<<c[k - 1], k>>]
  <2>1. k - 1 \in 0 .. n /\ k \in 0 .. n
    OBVIOUS
  <2>2. it[1 .. k - 1] \in V
    BY <1>3, <2>1
  <2>3. QED
    BY <2>1, <2>2 DEF Follows
<1>6. c[n] = it[1 .. n]
  <2>1. n \in 0 .. n
    OBVIOUS
  <2>2. QED
    BY <2>1
<1> HIDE DEF c
<1>7. QED
  BY <1>1, <1>4, <1>5, <1>6 DEF Chain
===============================================================================
