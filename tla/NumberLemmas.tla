---------------------------- MODULE NumberLemmas ----------------------------
(***************************************************************************)
(* Lemmas on natural numbers that the proofs share: remainders, for the    *)
(* ring index of src/utility/job_queue.c and the probes of                 *)
(* src/utility/hash.c; least elements, which is how the models say "the    *)
(* lowest free descriptor" or "the first bucket that is not occupied"; and *)
(* from these induction over a range of numbers, and the existence of      *)
(* functions that are defined by recursion over one.                       *)
(***************************************************************************)
EXTENDS Integers, FiniteSetsExt, WellFoundedInduction, TLAPS

-----------------------------------------------------------------------------
(* Remainders.  A product of variables is beyond the SMT solver, so each lemma
   spells out the quotient it rests on. *)

\* The only multiple of n strictly between -n and n is zero.
LEMMA MulBound ==
    ASSUME NEW n \in Nat \ {0}, NEW k \in Int, -n < n * k, n * k < n
    PROVE  k = 0
<1>1. ASSUME k >= 1 PROVE FALSE
  <2>1. n * k >= n BY <1>1
  <2>q. QED BY <2>1
<1>2. ASSUME k <= -1 PROVE FALSE
  <2>1. n * k <= -n BY <1>2
  <2>q. QED BY <2>1
<1>q. QED BY <1>1, <1>2

\* Quotient and remainder.
LEMMA DivMod ==
    ASSUME NEW n \in Nat \ {0}, NEW a \in Nat
    PROVE  /\ a % n \in 0 .. n - 1
           /\ a \div n \in Int
           /\ a = n * (a \div n) + (a % n)
  OBVIOUS

\* A remainder is determined by any quotient that goes with it.
LEMMA ModUnique ==
    ASSUME NEW n \in Nat \ {0}, NEW q \in Int, NEW r \in 0 .. n - 1, NEW a \in Nat, a = n * q + r
    PROVE  a % n = r
<1>1. a = n * (a \div n) + (a % n) /\ a % n \in 0 .. n - 1 /\ a \div n \in Int BY DivMod
<1>2. n * (q - (a \div n)) = (a % n) - r BY <1>1
<1>3. q - (a \div n) = 0
  <2>1. -n < n * (q - (a \div n)) /\ n * (q - (a \div n)) < n BY <1>1, <1>2
  <2>q. QED BY <1>1, <2>1, MulBound
<1>q. QED BY <1>1, <1>3

\* Stepping a wrapped counter is wrapping the stepped counter.
LEMMA ModSucc ==
    ASSUME NEW n \in Nat \ {0}, NEW a \in Nat
    PROVE  ((a % n) + 1) % n = (a + 1) % n
<1> DEFINE r == a % n
           d == a \div n
<1>1. r \in 0 .. n - 1 /\ d \in Int /\ a = n * d + r BY DivMod
<1> HIDE DEF r, d
<1>2. CASE r + 1 < n
  <2>1. (r + 1) % n = r + 1
     <3>1. r + 1 = n * 0 + (r + 1) BY <1>1
     <3>q. QED BY <3>1, <1>1, <1>2, ModUnique
  <2>2. (a + 1) % n = r + 1
     <3>1. a + 1 = n * d + (r + 1) BY <1>1
     <3>q. QED BY <3>1, <1>1, <1>2, ModUnique
  <2>q. QED BY <2>1, <2>2 DEF r
<1>3. CASE r + 1 = n
  <2>1. (r + 1) % n = 0
     <3>1. r + 1 = n * 1 + 0 BY <1>1, <1>3
     <3>q. QED BY <3>1, <1>1, <1>3, ModUnique
  <2>2. (a + 1) % n = 0
     <3>1. a + 1 = n * (d + 1) + 0 BY <1>1, <1>3
     <3>q. QED BY <3>1, <1>1, <1>3, ModUnique
  <2>q. QED BY <2>1, <2>2 DEF r
<1>q. QED BY <1>1, <1>2, <1>3

\* The static_assert of job_queue.c: when the counter's range is a multiple of
\* the ring's size, wrapping the counter does not disturb the index.
LEMMA ModMod ==
    ASSUME NEW n \in Nat \ {0}, NEW k \in Nat \ {0}, NEW a \in Nat
    PROVE  (a % (k * n)) % n = a % n
<1> DEFINE w == k * n
           r == a % w
           d == a \div w
<1>0. w \in Nat \ {0} OBVIOUS
<1>1. r \in 0 .. w - 1 /\ d \in Int /\ a = w * d + r BY <1>0, DivMod
<1>2. r % n \in 0 .. n - 1 /\ r \div n \in Int /\ r = n * (r \div n) + (r % n) BY <1>1, DivMod
<1> DEFINE e == r \div n
           s == r % n
<1>3. a = n * (k * d + e) + s
   <2> HIDE DEF r, d, e, s
   <2>1. s \in Int /\ e \in Int BY <1>2 DEF e, s
   <2>2. r = n * e + s BY <1>2 DEF r, e, s
   <2>3. w * d = n * (k * d) BY <1>1
   <2>4. n * (k * d + e) = n * (k * d) + n * e BY <1>1, <2>1
   <2> HIDE DEF w
   <2>q. QED BY <1>0, <1>1, <2>1, <2>2, <2>3, <2>4
<1>4. k * d + e \in Int BY <1>1, <1>2
<1>5. s \in 0 .. n - 1 BY <1>2
<1>6. a % n = s
  <2> DEFINE q == k * d + e
  <2>1. q \in Int /\ a = n * q + s BY <1>3, <1>4
  <2> HIDE DEF q, s
  <2>q. QED BY <2>1, <1>5, ModUnique
<1>q. QED BY <1>6

\* Numbers less than a ring's size apart have different indexes.
LEMMA ModDistinct ==
    ASSUME NEW n \in Nat \ {0}, NEW a \in Nat, NEW b \in Nat, a # b, a < b + n, b < a + n
    PROVE  a % n # b % n
<1> SUFFICES ASSUME a % n = b % n PROVE FALSE OBVIOUS
<1>1. /\ a = n * (a \div n) + (a % n) /\ a \div n \in Int
      /\ b = n * (b \div n) + (b % n) /\ b \div n \in Int
       /\ a % n \in Int BY DivMod
<1>2. n * ((a \div n) - (b \div n)) = a - b BY <1>1
<1>3. (a \div n) - (b \div n) = 0
   <2>1. -n < n * ((a \div n) - (b \div n)) /\ n * ((a \div n) - (b \div n)) < n BY <1>2
   <2>q. QED BY <1>1, <2>1, MulBound
<1>q. QED BY <1>2, <1>3

-----------------------------------------------------------------------------
(* Least elements *)

\* A set of natural numbers with an element has a least one.
LEMMA LeastExists ==
    ASSUME NEW S \in SUBSET Nat, S # {}
    PROVE  \E x \in S : \A y \in S : x <= y
<1> DEFINE R == OpToRel(<, Nat)
<1>1. IsWellFoundedOn(R, Nat)
  BY NatLessThanWellFounded
<1> HIDE DEF R
<1>2. PICK x \in S : \A y \in S : ~(<<y, x>> \in R)
  BY <1>1, WFMin
<1>3. \A y \in S : ~(y < x)
  BY <1>2 DEF R, OpToRel
<1>4. QED BY <1>2, <1>3

\* Min finds it.
LEMMA MinIsLeast ==
    ASSUME NEW S \in SUBSET Nat, S # {}
    PROVE  Min(S) \in S /\ \A y \in S : Min(S) <= y
BY LeastExists DEF Min

-----------------------------------------------------------------------------
(* Induction and recursion *)

\* What holds of a number of 0 .. n if it holds of those below it, holds of all.
\* A property is given as the set T of the numbers that have it.
LEMMA RangeInduction ==
    ASSUME NEW n \in Nat, NEW T,
           \A i \in 0 .. n : (\A j \in 0 .. i - 1 : j \in T) => i \in T
    PROVE  \A i \in 0 .. n : i \in T
<1> DEFINE Rest == {i \in 0 .. n : i \notin T}
<1>1. SUFFICES ASSUME Rest # {} PROVE FALSE
  OBVIOUS
<1>2. Rest \in SUBSET Nat
  OBVIOUS
<1> HIDE DEF Rest
<1>3. PICK i \in Rest : \A j \in Rest : i <= j
  BY <1>1, <1>2, LeastExists
<1>4. i \in 0 .. n /\ i \notin T
  BY DEF Rest
<1>5. \A j \in 0 .. i - 1 : j \in T
  BY <1>3, <1>4 DEF Rest
<1>6. QED BY <1>4, <1>5

\* A function whose value at i is made by step[i] of its value at prev[i], a smaller
\* number.
IsRecursive(f, n, base, prev, step) ==
    f[0] = base /\ \A i \in 1 .. n : f[i] = step[i][f[prev[i]]]

Descends(n, prev) == \A i \in 1 .. n : prev[i] \in 0 .. i - 1
Preserves(n, S, step) == \A i \in 1 .. n : \A s \in S : step[i][s] \in S

\* There is one.
LEMMA RecursionExists ==
    ASSUME NEW n \in Nat, NEW S, NEW base \in S, NEW prev, NEW step,
           Descends(n, prev), Preserves(n, S, step)
    PROVE  \E f \in [0 .. n -> S] : IsRecursive(f, n, base, prev, step)
<1> USE DEF Descends, Preserves, IsRecursive
<1> DEFINE Upto(m, f) == f[0] = base /\ \A i \in 1 .. m : f[i] = step[i][f[prev[i]]]
           T == {m \in 0 .. n : \E f \in [0 .. m -> S] : Upto(m, f)}
<1>1. ASSUME NEW m \in 0 .. n, \A j \in 0 .. m - 1 : j \in T PROVE m \in T
  <2>1. CASE m = 0
    <3>1. [i \in 0 .. 0 |-> base] \in [0 .. m -> S] /\ Upto(m, [i \in 0 .. 0 |-> base])
      BY <2>1
    <3>2. QED BY <3>1
  <2>2. CASE m # 0
    <3>1. PICK f \in [0 .. m - 1 -> S] : Upto(m - 1, f)
      BY <1>1, <2>2
    <3>2. m \in 1 .. n /\ prev[m] \in 0 .. m - 1
      BY <2>2
    <3>3. PICK last : last = step[m][f[prev[m]]]
      OBVIOUS
    <3>4. last \in S
      BY <3>1, <3>2, <3>3
    <3>5. PICK g : g = [i \in 0 .. m |-> IF i = m THEN last ELSE f[i]]
      OBVIOUS
    <3>6. g \in [0 .. m -> S] /\ g[m] = last /\ \A i \in 0 .. m - 1 : g[i] = f[i]
      BY <3>1, <3>2, <3>4, <3>5
    <3>7. g[0] = base
      BY <3>1, <3>2, <3>6
    <3>8. ASSUME NEW i \in 1 .. m PROVE g[i] = step[i][g[prev[i]]]
      <4>1. prev[i] \in 0 .. i - 1 /\ i \in 1 .. n
        BY <3>2
      <4>2. g[prev[i]] = f[prev[i]]
        BY <4>1, <3>2, <3>6
      <4>3. CASE i = m
        BY <3>3, <3>6, <4>2, <4>3
      <4>4. CASE i # m
        BY <3>1, <3>2, <3>6, <4>1, <4>2, <4>4
      <4>5. QED BY <4>3, <4>4
    <3>9. QED BY <3>6, <3>7, <3>8
  <2>3. QED BY <2>1, <2>2
<1> HIDE DEF T
<1>2. \A m \in 0 .. n : m \in T
  BY <1>1, RangeInduction
<1>3. n \in T
  BY <1>2
<1>4. QED BY <1>3 DEF T
=============================================================================
