--------------------------- MODULE NumberLemmas ----------------------------
(***************************************************************************)
(* Facts about natural numbers that the proofs of several components use:  *)
(* the least element of a set, with which a property of all numbers is     *)
(* proved by its least counterexample, division with remainder, and what a *)
(* function leads to when it is applied again and again.                   *)
(***************************************************************************)
EXTENDS Integers, WellFoundedInduction, TLAPS

\* A set of numbers has a least element.
LEMMA LeastElement ==
  ASSUME NEW S \in SUBSET Nat, S # {}
  PROVE  \E x \in S : \A y \in S : x <= y
<1> DEFINE R == {ss \in Nat \X Nat : ss[1] < ss[2]}
<1>1. R = OpToRel(<, Nat)
  BY DEF OpToRel
<1>2. IsWellFoundedOn(R, Nat)
  BY <1>1, NatLessThanWellFounded
<1> HIDE DEF R
<1>3. PICK x \in S : \A y \in S : ~(<<y, x>> \in R)
  BY <1>2, WFMin
<1>4. ASSUME NEW y \in S PROVE x <= y
  <2>1. x \in Nat /\ y \in Nat
    OBVIOUS
  <2>2. y < x => <<y, x>> \in R
    BY <2>1 DEF R
  <2> QED
    BY <2>1, <2>2, <1>3
<1> QED
  BY <1>4

\* Division with remainder.
LEMMA DivMod ==
  ASSUME NEW a \in Nat, NEW n \in Nat \ {0}
  PROVE  /\ a \div n \in Nat /\ a % n \in 0 .. n - 1
         /\ a = n * (a \div n) + (a % n)
OBVIOUS

\* Different multiples of a number are at least that number apart.
LEMMA MultipleGrows ==
  ASSUME NEW n \in Nat \ {0}, NEW x \in Int, NEW y \in Int, x < y
  PROVE  n * x + n <= n * y
<1>1. PICK k \in Nat : y = x + 1 + k
  <2>1. y - x - 1 \in Nat /\ y = x + 1 + (y - x - 1)
    OBVIOUS
  <2> QED
    BY <2>1
<1>2. n * y = n * x + n + n * k
  BY <1>1
<1>3. n * k \in Nat /\ n * x \in Int
  OBVIOUS
<1> QED
  BY <1>2, <1>3

\* Quotient and remainder are unique.
LEMMA Remainder ==
  ASSUME NEW n \in Nat \ {0}, NEW x \in Nat, NEW s \in 0 .. n - 1
  PROVE  (n * x + s) \div n = x /\ (n * x + s) % n = s
<1> DEFINE a == n * x + s
<1>1. a \in Nat /\ n * x \in Nat
  OBVIOUS
<1> DEFINE y == a \div n
<1>2. y \in Nat /\ a % n \in 0 .. n - 1 /\ a = n * y + (a % n)
  BY <1>1, DivMod
<1> DEFINE t == a % n
<1>3. a = n * x + s /\ t \in 0 .. n - 1 /\ a = n * y + t
  BY <1>2
<1> HIDE DEF a, y, t
<1>4. n * y \in Nat
  BY <1>2
<1>5. ~ (x < y)
  <2> SUFFICES ASSUME x < y PROVE FALSE
    OBVIOUS
  <2>1. n * x + n <= n * y
    BY <1>2, MultipleGrows
  <2> QED
    BY <1>1, <1>3, <1>4, <2>1
<1>6. ~ (y < x)
  <2> SUFFICES ASSUME y < x PROVE FALSE
    OBVIOUS
  <2>1. n * y + n <= n * x
    BY <1>2, MultipleGrows
  <2> QED
    BY <1>1, <1>3, <1>4, <2>1
<1>7. x = y
  BY <1>2, <1>5, <1>6
<1>8. s = t
  BY <1>1, <1>3, <1>7
<1> QED
  BY <1>7, <1>8 DEF a, y, t

\* A frame of an earlier word has a smaller number, whatever the size of a word.
LEMMA WordsGrow ==
  ASSUME NEW f \in Nat, NEW g \in Nat, NEW b \in Nat \ {0},
         f \div b < g \div b
  PROVE  f < g
<1>1. ASSUME g <= f PROVE g \div b <= f \div b
  <2> DEFINE p == g \div b
             q == f \div b
  <2>1. p \in Int /\ q \in Int /\ b * p <= g /\ f < b * (q + 1)
    OBVIOUS
  <2>2. b * p < b * (q + 1)
    BY <1>1, <2>1
  <2>3. p < q + 1
    BY <2>1, <2>2
  <2> QED
    BY <2>1, <2>3
<1>2. g \div b \in Int /\ f \div b \in Int
  OBVIOUS
<1> QED
  BY <1>1, <1>2

\* What a function leads to from d in up to n steps.
IsRun(f, D, g, d, n) ==
  f \in [0 .. n -> D] /\ f[0] = d /\ \A k \in 1 .. n : f[k] = g[f[k - 1]]

\* A function can be applied as often as one likes.
LEMMA Iterate ==
  ASSUME NEW D, NEW g \in [D -> D], NEW d \in D, NEW n \in Nat
  PROVE  \E f : IsRun(f, D, g, d, n)
<1> USE DEF IsRun
<1> DEFINE Runs(m) ==
             \E f \in [0 .. m -> D] : f[0] = d /\ \A k \in 1 .. m : f[k] = g[f[k - 1]]
           S == {m \in Nat : ~ Runs(m)}
<1> SUFFICES ASSUME S # {} PROVE FALSE
  BY DEF S
<1>1. PICK m \in S : \A l \in S : m <= l
  <2>1. S \in SUBSET Nat
    OBVIOUS
  <2> HIDE DEF S
  <2> QED
    BY <2>1, LeastElement
<1>2. m # 0
  <2>1. Runs(0)
    <3> DEFINE one == [k \in 0 .. 0 |-> d]
    <3>1. one \in [0 .. 0 -> D] /\ one[0] = d /\ 1 .. 0 = {}
      OBVIOUS
    <3> HIDE DEF one
    <3> QED
      BY <3>1
  <2> QED
    BY <1>1, <2>1
<1>3. m - 1 \in Nat /\ m \in Nat /\ (m - 1) + 1 = m /\ ~ (m <= m - 1)
  BY <1>1, <1>2
<1>4. Runs(m - 1)
  BY <1>1, <1>3
<1>5. PICK f \in [0 .. m - 1 -> D] :
        f[0] = d /\ \A k \in 1 .. m - 1 : f[k] = g[f[k - 1]]
  BY <1>4
<1> DEFINE h == [k \in 0 .. m |-> IF k = m THEN g[f[m - 1]] ELSE f[k]]
<1>6. h \in [0 .. m -> D] /\ h[0] = d
  BY <1>3, <1>5
<1>7. ASSUME NEW k \in 1 .. m PROVE h[k] = g[h[k - 1]]
  <2>1. k - 1 \in 0 .. m - 1 /\ k - 1 # m /\ k - 1 \in 0 .. m
    BY <1>3
  <2>2. h[k - 1] = f[k - 1]
    BY <2>1
  <2>3. CASE k = m
    BY <1>3, <2>2, <2>3
  <2>4. CASE k # m
    BY <1>3, <1>5, <2>2, <2>4
  <2> QED
    BY <2>3, <2>4
<1> HIDE DEF h
<1>8. Runs(m)
  BY <1>6, <1>7
<1> QED
  BY <1>1, <1>8

\* What is in a set and never leaves it in a step stays there.
LEMMA Stays ==
  ASSUME NEW D, NEW f, NEW a \in Nat, NEW b \in Nat, f[a] \in D,
         \A k \in a .. b - 1 : f[k] \in D => f[k + 1] \in D
  PROVE  \A k \in a .. b : f[k] \in D
<1> DEFINE S == {k \in a .. b : f[k] \notin D}
<1> SUFFICES ASSUME S # {} PROVE FALSE
  OBVIOUS
<1>1. PICK k \in S : \A l \in S : k <= l
  <2>1. S \in SUBSET Nat
    OBVIOUS
  <2> HIDE DEF S
  <2> QED
    BY <2>1, LeastElement
<1>2. k # a
  BY <1>1
<1>3. k - 1 \in a .. b - 1 /\ k - 1 \in a .. b /\ (k - 1) + 1 = k /\ k - 1 \notin S
  BY <1>1, <1>2
<1>4. f[k - 1] \in D
  BY <1>3
<1> QED
  BY <1>1, <1>3, <1>4

============================================================================
