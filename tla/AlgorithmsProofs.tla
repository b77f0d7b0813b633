-------------------------- MODULE AlgorithmsProofs --------------------------
(***************************************************************************)
(* Proofs about five of the calls of Algorithms:                            *)
(*                                                                          *)
(*   LayersAreOwnedOnce  whatever the layers, devices and weights, every    *)
(*                       layer has one device, and the shares are fair      *)
(*   PartsAreCutAlike    whatever the rows, columns and experts of a        *)
(*                       tensor, all who cut it up cut it at the same bytes *)
(*   BuffersAreLargeEnough                                                  *)
(*                       whatever the hyperparameters of a model that is    *)
(*                       accepted, its buffers hold what its layers write   *)
(*   TheBestAreChosen    whatever the logits of a vocabulary and the        *)
(*                       probabilities of a router, the tokens reported and *)
(*                       the experts chosen are the best, best first        *)
(*                                                                          *)
(* A job is answered in one step, so that the theorems are lemmas about     *)
(* LayerSplitBounds, the parts of QuantLayout, the scratch, the arena and   *)
(* the router of ModelConfig, and TopLogprobs of Sampling.  WeightUpTo,     *)
(* Allocated, the kept experts and the kept tokens are recursive functions: *)
(* that there is one function as each says, and what it returns, is proved  *)
(* by the least place where it would not be so.                             *)
(***************************************************************************)
EXTENDS Algorithms, FiniteSetTheorems, NaturalsInduction, SequenceTheorems, WellFoundedInduction, TLAPS

-----------------------------------------------------------------------------
(* Numbers.                                                                  *)

\* Every non-empty set of naturals has a least element.
LEMMA LeastIn ==
  ASSUME NEW T \in SUBSET Nat, T # {}
  PROVE  \E m \in T : \A y \in T : m <= y
<1>1. PICK x \in T : \A y \in T : ~ (<<y, x>> \in OpToRel(<, Nat))
  BY NatLessThanWellFounded, WFMin, Zenon
<1>2. ASSUME NEW y \in T PROVE x <= y
  <2>1. ~ (<<y, x>> \in OpToRel(<, Nat))
    BY <1>1
  <2>2. ~ (y < x)
    BY <2>1, Zenon DEF OpToRel
  <2> QED BY <2>2
<1> QED BY <1>2

\* Two multiples of d: the order of the factors.
LEMMA Times ==
  ASSUME NEW a \in Int, NEW b \in Int, NEW d \in Nat
  PROVE  /\ a * d \in Int /\ b * d \in Int
         /\ a <= b => a * d <= b * d
         /\ (a + 1) * d = a * d + d
<1>1. a * d \in Int /\ b * d \in Int /\ (a + 1) * d = a * d + d
  OBVIOUS
<1>2. a <= b => a * d <= b * d
  <2>1. CASE a <= b
    <3>1. (b - a) * d >= 0
      BY <2>1
    <3>2. (b - a) * d = b * d - a * d
      OBVIOUS
    <3> QED BY <3>1, <3>2, <1>1
  <2> QED BY <2>1
<1> QED BY <1>1, <1>2

\* What a quotient is.
LEMMA Quotient ==
  ASSUME NEW x \in Int, NEW d \in Nat \ {0}
  PROVE  /\ x \div d \in Int /\ x % d \in 0..(d - 1)
         /\ x = d * (x \div d) + (x % d)
OBVIOUS

LEMMA QuotientGrows ==
  ASSUME NEW x \in Int, NEW y \in Int, NEW d \in Nat \ {0}, x <= y
  PROVE  x \div d <= y \div d
<1> DEFINE p == x \div d
           q == y \div d
<1>1. p \in Int /\ q \in Int /\ x = d * p + (x % d) /\ y = d * q + (y % d) /\ x % d \in 0..(d - 1) /\ y % d \in 0..(d - 1)
  BY Quotient
<1> HIDE DEF p, q
<1>2. ASSUME q + 1 <= p PROVE FALSE
  <2>1. (q + 1) * d <= p * d /\ (q + 1) * d = q * d + d /\ q * d \in Int /\ p * d \in Int
    BY <1>1, <1>2, Times
  <2>2. p * d = d * p /\ q * d = d * q
    BY <1>1
  <2> QED BY <1>1, <2>1, <2>2
<1>3. p <= q
  BY <1>1, <1>2
<1> QED BY <1>3 DEF p, q

\* And when it is known.
LEMMA QuotientIs ==
  ASSUME NEW x \in Int, NEW d \in Nat \ {0}, NEW q \in Int, NEW r \in 0..(d - 1), x = d * q + r
  PROVE  x \div d = q /\ x % d = r
<1> DEFINE p == x \div d
<1>1. p \in Int /\ x = d * p + (x % d) /\ x % d \in 0..(d - 1)
  BY Quotient
<1> HIDE DEF p
<1>2. ASSUME q + 1 <= p PROVE FALSE
  <2>1. (q + 1) * d <= p * d /\ (q + 1) * d = q * d + d /\ q * d \in Int /\ p * d \in Int
    BY <1>1, <1>2, Times
  <2>2. p * d = d * p /\ q * d = d * q
    BY <1>1
  <2> QED BY <1>1, <2>1, <2>2
<1>3. ASSUME p + 1 <= q PROVE FALSE
  <2>1. (p + 1) * d <= q * d /\ (p + 1) * d = p * d + d /\ q * d \in Int /\ p * d \in Int
    BY <1>1, <1>3, Times
  <2>2. p * d = d * p /\ q * d = d * q
    BY <1>1
  <2> QED BY <1>1, <2>1, <2>2
<1>4. p = q
  BY <1>1, <1>2, <1>3
<1> QED BY <1>4 DEF p
-----------------------------------------------------------------------------
(* Which device has which layer.                                             *)

\* The sum that WeightUpTo chooses.
SumTo(f, split, i) == f = [j \in 0..i |-> IF j = 0 THEN 0 ELSE f[j - 1] + Weight(split[j])]

LEMMA SumExists ==
  ASSUME NEW split, NEW n \in Nat
  PROVE  \E f : SumTo(f, split, n)
<1> DEFINE T == {i \in Nat : ~ \E f : SumTo(f, split, i)}
<1>1. SUFFICES ASSUME T # {} PROVE FALSE
  OBVIOUS
<1>2. PICK m \in T : \A y \in T : m <= y
  BY <1>1, LeastIn
<1>3. CASE m = 0
  <2> DEFINE f == [j \in 0..0 |-> 0]
  <2>1. f = [j \in 0..0 |-> IF j = 0 THEN 0 ELSE f[j - 1] + Weight(split[j])]
    OBVIOUS
  <2> QED BY <1>2, <1>3, <2>1 DEF SumTo
<1>4. CASE m # 0
  <2>1. m - 1 \in Nat /\ m - 1 \notin T
    BY <1>2, <1>4
  <2>2. PICK f : SumTo(f, split, m - 1)
    BY <2>1
  <2> DEFINE g == [j \in 0..m |-> IF j = m THEN f[m - 1] + Weight(split[m]) ELSE f[j]]
  <2>3. ASSUME NEW j \in 0..m PROVE g[j] = IF j = 0 THEN 0 ELSE g[j - 1] + Weight(split[j])
    <3>1. CASE j = m
      BY <3>1, <1>4, <2>1
    <3>2. CASE j # m
      <4>1. f[j] = IF j = 0 THEN 0 ELSE f[j - 1] + Weight(split[j])
        BY <2>1, <2>2, <3>2 DEF SumTo
      <4> QED BY <4>1, <3>2, <2>1
    <3> QED BY <3>1, <3>2
  <2>4. SumTo(g, split, m)
    <3> DEFINE Right(j) == IF j = 0 THEN 0 ELSE g[j - 1] + Weight(split[j])
    <3>1. g = [j \in 0..m |-> g[j]]
      OBVIOUS
    <3>2. \A j \in 0..m : g[j] = Right(j)
      BY <2>3
    <3> HIDE DEF g, Right
    <3>3. g = [j \in 0..m |-> Right(j)]
      BY <3>1, <3>2
    <3> QED BY <3>3 DEF SumTo, Right
  <2> QED BY <1>2, <2>4
<1> QED BY <1>3, <1>4

LEMMA SumIsUnique ==
  ASSUME NEW split, NEW n \in Nat, NEW k \in Nat, k <= n,
         NEW f, SumTo(f, split, n), NEW g, SumTo(g, split, k)
  PROVE  f[k] = g[k]
<1> DEFINE T == {i \in 0..k : f[i] # g[i]}
<1>1. SUFFICES ASSUME T # {} PROVE FALSE
  OBVIOUS
<1>2. PICK m \in T : \A y \in T : m <= y
  <2>1. T \in SUBSET Nat
    OBVIOUS
  <2> QED BY <1>1, <2>1, LeastIn
<1>3. m \in 0..n /\ m \in 0..k
  BY <1>2
<1>4. f[m] = (IF m = 0 THEN 0 ELSE f[m - 1] + Weight(split[m]))
  BY <1>3 DEF SumTo
<1>5. g[m] = (IF m = 0 THEN 0 ELSE g[m - 1] + Weight(split[m]))
  BY <1>3 DEF SumTo
<1>6. m # 0
  BY <1>2, <1>4, <1>5
<1>7. m - 1 \in 0..k /\ m - 1 \notin T
  BY <1>2, <1>3, <1>6
<1> QED BY <1>2, <1>4, <1>5, <1>7

LEMMA WeightIsASum ==
  ASSUME NEW split, NEW i \in Nat
  PROVE  \E g : SumTo(g, split, i) /\ WeightUpTo(split, i) = g[i]
<1> DEFINE g == CHOOSE g : g = [j \in 0..i |-> IF j = 0 THEN 0 ELSE g[j - 1] + Weight(split[j])]
<1>1. PICK f : SumTo(f, split, i)
  BY SumExists
<1>2. SumTo(g, split, i)
  BY <1>1 DEF SumTo
<1>3. WeightUpTo(split, i) = g[i]
  BY <1>2 DEF WeightUpTo
<1> QED BY <1>2, <1>3

\* Weights are summed up one by one.
LEMMA WeightStep ==
  ASSUME NEW split
  PROVE  /\ WeightUpTo(split, 0) = 0
         /\ \A i \in Nat : WeightUpTo(split, i + 1) = WeightUpTo(split, i) + Weight(split[i + 1])
<1>1. WeightUpTo(split, 0) = 0
  <2>1. PICK g : SumTo(g, split, 0) /\ WeightUpTo(split, 0) = g[0]
    BY WeightIsASum
  <2> QED BY <2>1 DEF SumTo
<1>2. ASSUME NEW i \in Nat PROVE WeightUpTo(split, i + 1) = WeightUpTo(split, i) + Weight(split[i + 1])
  <2>1. PICK g : SumTo(g, split, i + 1) /\ WeightUpTo(split, i + 1) = g[i + 1]
    BY WeightIsASum
  <2>2. PICK h : SumTo(h, split, i) /\ WeightUpTo(split, i) = h[i]
    BY WeightIsASum
  <2>3. g[i] = h[i]
    BY <2>1, <2>2, SumIsUnique
  <2>4. i + 1 \in 0..(i + 1) /\ i + 1 # 0 /\ (i + 1) - 1 = i
    OBVIOUS
  <2>5. g[i + 1] = g[i] + Weight(split[i + 1])
    BY <2>1, <2>4 DEF SumTo
  <2> QED BY <2>1, <2>2, <2>3, <2>5
<1> QED BY <1>1, <1>2

\* They are naturals and grow, and stay zero while no weight is positive.
LEMMA WeightsGrow ==
  ASSUME NEW n \in Nat, NEW split \in [1..n -> Int]
  PROVE  /\ \A i \in 0..n : WeightUpTo(split, i) \in Nat
         /\ \A i \in 0..(n - 1) : /\ WeightUpTo(split, i) <= WeightUpTo(split, i + 1)
                                  /\ split[i + 1] <= 0 => WeightUpTo(split, i + 1) = WeightUpTo(split, i)
                                  /\ split[i + 1] > 0 => WeightUpTo(split, i + 1) > WeightUpTo(split, i)
<1>1. ASSUME NEW i \in 0..(n - 1)
      PROVE  /\ WeightUpTo(split, i + 1) = WeightUpTo(split, i) + Weight(split[i + 1])
             /\ Weight(split[i + 1]) \in Nat
             /\ split[i + 1] <= 0 => Weight(split[i + 1]) = 0
             /\ split[i + 1] > 0 => Weight(split[i + 1]) > 0
  <2>1. i \in Nat /\ split[i + 1] \in Int
    OBVIOUS
  <2>2. WeightUpTo(split, i + 1) = WeightUpTo(split, i) + Weight(split[i + 1])
    BY <2>1, WeightStep
  <2>3. /\ Weight(split[i + 1]) \in Nat
        /\ split[i + 1] <= 0 => Weight(split[i + 1]) = 0
        /\ split[i + 1] > 0 => Weight(split[i + 1]) > 0
    BY <2>1 DEF Weight
  <2> QED BY <2>2, <2>3
<1>2. ASSUME NEW i \in 0..n PROVE WeightUpTo(split, i) \in Nat
  <2> DEFINE T == {j \in 0..n : WeightUpTo(split, j) \notin Nat}
  <2>1. SUFFICES ASSUME T # {} PROVE FALSE
    OBVIOUS
  <2>2. PICK m \in T : \A y \in T : m <= y
    <3>1. T \in SUBSET Nat
      OBVIOUS
    <3> QED BY <2>1, <3>1, LeastIn
  <2>3. m # 0
    BY <2>2, WeightStep
  <2>4. m - 1 \in 0..(n - 1) /\ m - 1 \notin T /\ (m - 1) + 1 = m /\ m - 1 \in 0..n
    BY <2>2, <2>3
  <2>5. WeightUpTo(split, m - 1) \in Nat
    BY <2>4
  <2>6. WeightUpTo(split, m) \in Nat
    BY <1>1, <2>4, <2>5
  <2> QED BY <2>2, <2>6
<1>3. ASSUME NEW i \in 0..(n - 1)
      PROVE  /\ WeightUpTo(split, i) <= WeightUpTo(split, i + 1)
             /\ split[i + 1] <= 0 => WeightUpTo(split, i + 1) = WeightUpTo(split, i)
             /\ split[i + 1] > 0 => WeightUpTo(split, i + 1) > WeightUpTo(split, i)
  <2>1. i \in 0..n /\ i + 1 \in 0..n
    OBVIOUS
  <2> HIDE DEF WeightUpTo
  <2> QED BY <1>1, <1>2, <2>1
<1> QED BY <1>2, <1>3

\* A plan: the devices' ranges follow one another from the first layer to the last.
Plan(b, layers, n) ==
  /\ b \in [0..n -> Int] /\ b[0] = 0 /\ b[n] = layers
  /\ \A i \in 0..(n - 1) : b[i] <= b[i + 1]

Evenly(layers, n) == [i \in 0..n |-> i * (layers \div n) + Smaller(i, layers % n)]
Nearest(layers, n, split, total) ==
  [i \in 0..n |-> IF i = 0 THEN 0 ELSE (2 * WeightUpTo(split, i) * layers + total) \div (2 * total)]
Weighted(layers, n, split, total) ==
  [i \in 0..n |-> IF i = n THEN layers ELSE Smaller(Nearest(layers, n, split, total)[i], layers)]

\* Without weights: a plan with shares of the quotient, or one more.
LEMMA EvenPlan ==
  ASSUME NEW layers \in Nat, NEW n \in Nat \ {0}
  PROVE  /\ Plan(Evenly(layers, n), layers, n)
         /\ \A i \in 0..(n - 1) : Evenly(layers, n)[i + 1] - Evenly(layers, n)[i] \in {layers \div n, (layers \div n) + 1}
<1> DEFINE q == layers \div n
           r == layers % n
           b == Evenly(layers, n)
<1>1. q \in Int /\ r \in 0..(n - 1) /\ layers = n * q + r
  BY Quotient
<1>2. q >= 0
  <2>1. 0 \div n <= layers \div n /\ 0 \div n = 0
    <3>1. 0 = n * 0 + 0 /\ 0 \in 0..(n - 1) /\ 0 \in Int
      OBVIOUS
    <3>2. 0 \div n = 0
      BY <3>1, QuotientIs
    <3> QED BY <3>2, QuotientGrows
  <2> QED BY <2>1
<1> HIDE DEF q, r
<1>3. ASSUME NEW i \in 0..n PROVE b[i] = i * q + Smaller(i, r) /\ b[i] \in Int
  <2>1. b[i] = i * q + Smaller(i, r)
    BY DEF Evenly, q, r
  <2>2. i * q \in Int /\ Smaller(i, r) \in Int
    BY <1>1 DEF Smaller
  <2> QED BY <2>1, <2>2
<1>4. b \in [0..n -> Int]
  <2>1. b = [i \in 0..n |-> b[i]]
    BY DEF Evenly
  <2> HIDE DEF b
  <2> QED BY <2>1, <1>3
<1>5. b[0] = 0
  BY <1>1, <1>3 DEF Smaller
<1>6. b[n] = layers
  BY <1>1, <1>3 DEF Smaller
<1>7. ASSUME NEW i \in 0..(n - 1) PROVE b[i + 1] - b[i] \in {q, q + 1}
  <2>1. b[i] = i * q + Smaller(i, r) /\ b[i + 1] = (i + 1) * q + Smaller(i + 1, r)
    BY <1>3
  <2>2. (i + 1) * q = i * q + q /\ i * q \in Int
    BY <1>1, <1>2, Times
  <2>3. Smaller(i, r) \in Int /\ Smaller(i + 1, r) \in {Smaller(i, r), Smaller(i, r) + 1}
    BY <1>1 DEF Smaller
  <2> HIDE DEF b
  <2> QED BY <1>1, <2>1, <2>2, <2>3
<1>8. ASSUME NEW i \in 0..(n - 1) PROVE b[i] <= b[i + 1]
  <2>1. b[i] \in Int /\ b[i + 1] \in Int /\ b[i + 1] - b[i] \in {q, q + 1}
    BY <1>3, <1>7
  <2> HIDE DEF b
  <2> QED BY <1>1, <1>2, <2>1
<1> QED BY <1>4, <1>5, <1>6, <1>7, <1>8 DEF Plan, q

\* The first bound is rounded down.
LEMMA HalfIsNothing ==
  ASSUME NEW t \in Nat \ {0}
  PROVE  t \div (2 * t) = 0
<1> DEFINE d == 2 * t
<1>1. d \in Nat \ {0} /\ t \in 0..(d - 1) /\ t \in Int
  OBVIOUS
<1> HIDE DEF d
<1>2. t = d * 0 + t
  BY <1>1
<1>3. t \div d = 0
  BY <1>1, <1>2, QuotientIs
<1> QED BY <1>3 DEF d

\* With weights: a plan that gives nothing where nothing is added.
LEMMA WeightedPlan ==
  ASSUME NEW layers \in Nat, NEW n \in Nat \ {0}, NEW split \in [1..n -> Int], NEW total \in Nat \ {0},
         total = WeightUpTo(split, n)
  PROVE  /\ Plan(Weighted(layers, n, split, total), layers, n)
         /\ \A i \in 0..(n - 1) : split[i + 1] <= 0 =>
              Weighted(layers, n, split, total)[i] = Weighted(layers, n, split, total)[i + 1]
<1> DEFINE W(i) == WeightUpTo(split, i)
           near(i) == (2 * W(i) * layers + total) \div (2 * total)
           b == Weighted(layers, n, split, total)
<1>1. /\ \A i \in 0..n : W(i) \in Nat
      /\ \A i \in 0..(n - 1) : W(i) <= W(i + 1) /\ (split[i + 1] <= 0 => W(i + 1) = W(i))
      /\ W(0) = 0 /\ W(n) = total
  BY WeightsGrow, WeightStep
<1> HIDE DEF W
<1>2. 2 * total \in Nat \ {0}
  OBVIOUS
<1>3. ASSUME NEW i \in 0..n PROVE 2 * W(i) * layers + total \in Int /\ near(i) \in Int
  <2>1. 2 * W(i) * layers \in Int
    BY <1>1
  <2>2. 2 * W(i) * layers + total \in Int
    BY <2>1
  <2> QED BY <1>2, <2>2, Quotient
<1>4. near(0) = 0
  <2>1. 2 * W(0) * layers + total = total
    BY <1>1
  <2>2. total \div (2 * total) = 0
    BY HalfIsNothing
  <2> QED BY <2>1, <2>2
<1>5. near(n) = layers
  <2> DEFINE x == 2 * W(n) * layers + total
             d == 2 * total
  <2>1. x = d * layers + total
    BY <1>1
  <2>2. total \in 0..(d - 1) /\ d \in Nat \ {0} /\ layers \in Int
    OBVIOUS
  <2>3. x \in Int
    BY <1>3
  <2>4. near(n) = x \div d
    OBVIOUS
  <2> HIDE DEF x, d, near
  <2> QED BY <2>1, <2>2, <2>3, <2>4, QuotientIs
<1>6. ASSUME NEW i \in 0..(n - 1)
      PROVE near(i) <= near(i + 1) /\ (split[i + 1] <= 0 => near(i) = near(i + 1))
  <2>1. W(i) \in Int /\ W(i + 1) \in Int /\ W(i) <= W(i + 1) /\ i \in 0..n /\ i + 1 \in 0..n
    BY <1>1
  <2>2. W(i) * layers <= W(i + 1) * layers /\ W(i) * layers \in Int /\ W(i + 1) * layers \in Int
    BY <2>1, Times
  <2>3. 2 * W(i) * layers = 2 * (W(i) * layers) /\ 2 * W(i + 1) * layers = 2 * (W(i + 1) * layers)
    BY <2>1
  <2>4. 2 * W(i) * layers + total <= 2 * W(i + 1) * layers + total
    BY <2>2, <2>3
  <2>5. near(i) <= near(i + 1)
    BY <1>2, <1>3, <2>1, <2>4, QuotientGrows
  <2>6. split[i + 1] <= 0 => near(i) = near(i + 1)
    BY <1>1
  <2> QED BY <2>5, <2>6
<1> HIDE DEF near
<1>7. ASSUME NEW i \in 0..n PROVE b[i] = Smaller(near(i), layers)
  <2>1. b[i] = IF i = n THEN layers ELSE Smaller(IF i = 0 THEN 0 ELSE near(i), layers)
    BY DEF Weighted, Nearest, near, W
  <2> QED BY <2>1, <1>4, <1>5 DEF Smaller
<1>8. ASSUME NEW i \in 0..n PROVE b[i] \in Int
  BY <1>3, <1>7 DEF Smaller
<1>9. b \in [0..n -> Int]
  <2>1. b = [i \in 0..n |-> b[i]]
    BY DEF Weighted
  <2> HIDE DEF b
  <2> QED BY <2>1, <1>8
<1>10. b[0] = 0 /\ b[n] = layers
  BY <1>4, <1>5, <1>7 DEF Smaller
<1>11. ASSUME NEW i \in 0..(n - 1) PROVE b[i] <= b[i + 1] /\ (split[i + 1] <= 0 => b[i] = b[i + 1])
  <2>1. i \in 0..n /\ i + 1 \in 0..n
    OBVIOUS
  <2>2. b[i] = Smaller(near(i), layers) /\ b[i + 1] = Smaller(near(i + 1), layers)
    BY <1>7, <2>1
  <2>3. near(i) \in Int /\ near(i + 1) \in Int
    BY <1>3, <2>1
  <2> HIDE DEF b
  <2> QED BY <1>6, <2>2, <2>3 DEF Smaller
<1> QED BY <1>9, <1>10, <1>11 DEF Plan

\* What grows step by step grows.
LEMMA StepsUp ==
  ASSUME NEW n \in Nat, NEW b \in [0..n -> Int], \A i \in 0..(n - 1) : b[i] <= b[i + 1],
         NEW i \in 0..n, NEW j \in 0..n, i <= j
  PROVE  b[i] <= b[j]
<1> DEFINE T == {k \in i..n : ~ (b[i] <= b[k])}
<1>1. SUFFICES ASSUME T # {} PROVE FALSE
  <2>1. j \in i..n
    OBVIOUS
  <2> QED BY <2>1
<1>2. PICK m \in T : \A y \in T : m <= y
  <2>1. T \in SUBSET Nat
    OBVIOUS
  <2> QED BY <1>1, <2>1, LeastIn
<1>3. m \in i..n /\ m # i
  BY <1>2
<1>4. m - 1 \in i..n /\ m - 1 \in 0..(n - 1) /\ (m - 1) + 1 = m /\ m - 1 \notin T
  BY <1>2, <1>3
<1>5. b[i] <= b[m - 1] /\ b[m - 1] <= b[m]
  BY <1>4
<1>6. b[i] \in Int /\ b[m] \in Int /\ b[m - 1] \in Int
  BY <1>3, <1>4
<1>7. ~ (b[i] <= b[m])
  BY <1>2
<1> QED BY <1>5, <1>6, <1>7

\* The sum is positive exactly when a weight is.
LEMMA SomeWeight ==
  ASSUME NEW n \in Nat, NEW split \in [1..n -> Int]
  PROVE  WeightUpTo(split, n) \in Nat /\ (WeightUpTo(split, n) > 0 <=> \E i \in 1..n : split[i] > 0)
<1> DEFINE W == [i \in 0..n |-> WeightUpTo(split, i)]
<1>1. /\ W \in [0..n -> Nat] /\ W[n] = WeightUpTo(split, n) /\ W[0] = 0
      /\ \A i \in 0..(n - 1) : /\ W[i] <= W[i + 1]
                               /\ split[i + 1] <= 0 => W[i + 1] = W[i]
                               /\ split[i + 1] > 0 => W[i + 1] > W[i]
  <2>1. \A i \in 0..n : W[i] = WeightUpTo(split, i)
    OBVIOUS
  <2>2. \A i \in 0..(n - 1) : i \in 0..n /\ i + 1 \in 0..n
    OBVIOUS
  <2>3. W \in [0..n -> Nat]
    BY WeightsGrow
  <2> HIDE DEF W
  <2>4. n \in 0..n /\ 0 \in 0..n /\ WeightUpTo(split, 0) = 0
    BY WeightStep
  <2>5. \A i \in 0..(n - 1) : /\ WeightUpTo(split, i) <= WeightUpTo(split, i + 1)
                              /\ split[i + 1] <= 0 => WeightUpTo(split, i + 1) = WeightUpTo(split, i)
                              /\ split[i + 1] > 0 => WeightUpTo(split, i + 1) > WeightUpTo(split, i)
    BY WeightsGrow
  <2>6. ASSUME NEW i \in 0..(n - 1)
        PROVE  /\ W[i] <= W[i + 1]
               /\ split[i + 1] <= 0 => W[i + 1] = W[i]
               /\ split[i + 1] > 0 => W[i + 1] > W[i]
    <3>1. W[i] = WeightUpTo(split, i) /\ W[i + 1] = WeightUpTo(split, i + 1)
      BY <2>1, <2>2
    <3>2. /\ WeightUpTo(split, i) <= WeightUpTo(split, i + 1)
          /\ split[i + 1] <= 0 => WeightUpTo(split, i + 1) = WeightUpTo(split, i)
          /\ split[i + 1] > 0 => WeightUpTo(split, i + 1) > WeightUpTo(split, i)
      BY <2>5
    <3>3. W[i] \in Nat /\ W[i + 1] \in Nat
      BY <2>2, <2>3
    <3> QED BY <3>1, <3>2, <3>3
  <2>7. W[n] = WeightUpTo(split, n) /\ W[0] = 0
    BY <2>1, <2>4
  <2> QED BY <2>3, <2>6, <2>7
<1> HIDE DEF W
<1>2. ASSUME NEW i \in 1..n, split[i] > 0 PROVE W[n] > 0
  <2>1. i - 1 \in 0..(n - 1) /\ (i - 1) + 1 = i /\ i \in 0..n /\ i - 1 \in 0..n /\ n \in 0..n /\ i <= n
    OBVIOUS
  <2>2. W[i] > W[i - 1]
    BY <1>1, <1>2, <2>1
  <2>3. W \in [0..n -> Int]
    BY <1>1
  <2>4. W[i] <= W[n]
    BY <1>1, <2>1, <2>3, StepsUp
  <2>5. W[i] \in Nat /\ W[i - 1] \in Nat /\ W[n] \in Nat
    BY <1>1, <2>1
  <2> QED BY <2>2, <2>4, <2>5
<1>3. ASSUME \A i \in 1..n : ~ (split[i] > 0) PROVE W[n] = 0
  <2>1. \A i \in 0..(n - 1) : i + 1 \in 1..n /\ split[i + 1] \in Int
    OBVIOUS
  <2>2. \A i \in 0..(n - 1) : W[i + 1] = W[i]
    BY <1>1, <1>3, <2>1
  <2> DEFINE V == [i \in 0..n |-> 0 - W[i]]
  <2>3. V \in [0..n -> Int] /\ \A i \in 0..n : V[i] = 0 - W[i]
    BY <1>1
  <2>4. \A i \in 0..(n - 1) : V[i] <= V[i + 1]
    <3>1. \A i \in 0..(n - 1) : i \in 0..n /\ i + 1 \in 0..n
      OBVIOUS
    <3> HIDE DEF V
    <3> QED BY <1>1, <2>2, <2>3, <3>1
  <2> HIDE DEF V
  <2>5. 0 \in 0..n /\ n \in 0..n /\ 0 <= n
    OBVIOUS
  <2>6. V[0] <= V[n]
    BY <2>3, <2>4, <2>5, StepsUp
  <2> QED BY <1>1, <2>3, <2>5, <2>6
<1>4. W[n] \in Nat
  BY <1>1
<1> QED BY <1>1, <1>2, <1>3, <1>4

\* Weights are used when there is one for each device and one is positive.
Usable(split, n) == Len(split) = n /\ \E i \in DOMAIN split : split[i] > 0

\* What LayerSplitBounds promises.
LEMMA BoundsAreAPlan ==
  ASSUME NEW layers \in Nat, NEW n \in Nat \ {0}, NEW split \in Seq(Int), NEW b, b = LayerSplitBounds(layers, n, split)
  PROVE  /\ Plan(b, layers, n)
         /\ Usable(split, n) => \A i \in 0..(n - 1) : split[i + 1] <= 0 => b[i] = b[i + 1]
         /\ ~Usable(split, n) => \A i \in 0..(n - 1) : b[i + 1] - b[i] \in {layers \div n, (layers \div n) + 1}
<1> DEFINE total == IF Len(split) = n THEN WeightUpTo(split, n) ELSE 0
<1>1. b = IF total <= 0 THEN Evenly(layers, n) ELSE Weighted(layers, n, split, total)
  BY DEF LayerSplitBounds, Evenly, Weighted, Nearest
<1>2. total \in Nat /\ (Usable(split, n) <=> total > 0)
  <2>1. CASE Len(split) = n
    <3>1. split \in [1..n -> Int] /\ DOMAIN split = 1..n
      BY <2>1
    <3> QED BY <2>1, <3>1, SomeWeight DEF Usable
  <2>2. CASE Len(split) # n
    BY <2>2 DEF Usable
  <2> QED BY <2>1, <2>2
<1>3. CASE Usable(split, n)
  <2>1. split \in [1..n -> Int] /\ total = WeightUpTo(split, n)
    BY <1>3 DEF Usable
  <2>2. total \in Nat \ {0} /\ b = Weighted(layers, n, split, total)
    BY <1>1, <1>2, <1>3
  <2> HIDE DEF total
  <2> QED BY <1>3, <2>1, <2>2, WeightedPlan
<1>4. CASE ~Usable(split, n)
  <2>1. b = Evenly(layers, n)
    BY <1>1, <1>2, <1>4
  <2> QED BY <1>4, <2>1, EvenPlan
<1> QED BY <1>3, <1>4

\* In a plan every layer has one owner, the one that OwnerOf names.
LEMMA OneOwner ==
  ASSUME NEW layers \in Nat, NEW n \in Nat \ {0}, NEW b, Plan(b, layers, n), NEW l \in 0..(layers - 1)
  PROVE  {i \in 0..(n - 1) : b[i] <= l /\ l < b[i + 1]} = {OwnerOf(b, l)}
<1> DEFINE T == {i \in 0..n : l < b[i]}
<1>1. /\ b \in [0..n -> Int] /\ b[0] = 0 /\ b[n] = layers /\ DOMAIN b = 0..n
      /\ \A i \in 0..(n - 1) : b[i] <= b[i + 1]
  BY DEF Plan
<1>2. PICK m \in T : \A y \in T : m <= y
  <2>1. T \in SUBSET Nat /\ n \in T
    BY <1>1
  <2> QED BY <2>1, LeastIn
<1>3. m \in 0..n /\ m # 0
  BY <1>1, <1>2
<1>4. m - 1 \in 0..n /\ m - 1 \notin T
  BY <1>2, <1>3
<1>5. b[m - 1] <= l /\ l < b[m]
  BY <1>1, <1>2, <1>4
<1>6. ASSUME NEW i \in 1..n, b[i - 1] <= l, l < b[i] PROVE i = m
  <2>1. i \in T
    BY <1>6
  <2>2. m <= i
    BY <1>2, <2>1
  <2>3. ASSUME m <= i - 1 PROVE FALSE
    <3>1. i - 1 \in 0..n /\ n \in Nat
      OBVIOUS
    <3>2. b[m] <= b[i - 1]
      BY <1>1, <1>3, <2>3, <3>1, StepsUp
    <3>3. b[m] \in Int /\ b[i - 1] \in Int
      BY <1>1, <1>3, <3>1
    <3> QED BY <1>5, <1>6, <3>2, <3>3
  <2> QED BY <1>3, <2>2, <2>3
<1> DEFINE owners == {i \in DOMAIN b \ {0} : b[i - 1] <= l /\ l < b[i]}
<1>7. owners = {m}
  <2>1. DOMAIN b \ {0} = 1..n
    BY <1>1
  <2>2. m \in 1..n
    BY <1>3
  <2> QED BY <1>5, <1>6, <2>1, <2>2
<1>8. OwnerOf(b, l) = m - 1
  BY <1>7 DEF OwnerOf
<1>9. ASSUME NEW i \in 0..(n - 1), b[i] <= l, l < b[i + 1] PROVE i = m - 1
  <2>1. i + 1 \in 1..n /\ (i + 1) - 1 = i
    OBVIOUS
  <2>2. i + 1 = m
    BY <1>6, <1>9, <2>1
  <2> QED BY <2>2
<1>10. m - 1 \in 0..(n - 1) /\ (m - 1) + 1 = m
  BY <1>3
<1> QED BY <1>5, <1>8, <1>9, <1>10

\* The layers of a device in a plan: so many as its bounds are apart.
LEMMA ShareSize ==
  ASSUME NEW layers \in Nat, NEW n \in Nat \ {0}, NEW b, Plan(b, layers, n), NEW i \in 0..(n - 1)
  PROVE  Cardinality({l \in 0..(layers - 1) : b[i] <= l /\ l < b[i + 1]}) = b[i + 1] - b[i]
<1>1. /\ b \in [0..n -> Int] /\ b[0] = 0 /\ b[n] = layers
      /\ \A k \in 0..(n - 1) : b[k] <= b[k + 1]
  BY DEF Plan
<1>2. 0 \in 0..n /\ n \in 0..n /\ i \in 0..n /\ i + 1 \in 0..n /\ 0 <= i /\ i + 1 <= n
  OBVIOUS
<1>3. b[0] <= b[i] /\ b[i + 1] <= b[n] /\ b[i] <= b[i + 1] /\ b[i] \in Int /\ b[i + 1] \in Int
  BY <1>1, <1>2, StepsUp
<1> DEFINE lo == b[i]
           hi == b[i + 1]
<1>4. 0 <= lo /\ lo <= hi /\ hi <= layers /\ lo \in Int /\ hi \in Int
  BY <1>1, <1>3
<1> HIDE DEF lo, hi
<1>5. {l \in 0..(layers - 1) : lo <= l /\ l < hi} = lo..(hi - 1)
  BY <1>4
<1>6. Cardinality(lo..(hi - 1)) = hi - lo
  <2>1. hi - 1 \in Int
    BY <1>4
  <2>2. Cardinality(lo..(hi - 1)) = IF lo > hi - 1 THEN 0 ELSE ((hi - 1) - lo) + 1
    BY <1>4, <2>1, FS_Interval
  <2> QED BY <1>4, <2>2
<1> QED BY <1>5, <1>6 DEF lo, hi

-----------------------------------------------------------------------------
(* Parts of a tensor.                                                        *)

\* The two tables of block sizes agree.
LEMMA TablesAgree ==
  ASSUME NEW t \in DOMAIN Blocks
  PROVE  /\ FormatBlocks[t][1] = Blocks[t].values /\ FormatBlocks[t][2] = Blocks[t].bytes
         /\ Blocks[t].values \in Nat \ {0} /\ Blocks[t].bytes \in Nat \ {0}
<1>1. DOMAIN Blocks = {"q4_0", "q4_1", "q5_0", "q5_1", "q8_0", "q2_k", "q3_k", "q4_k", "q5_k", "q6_k", "q8_k"}
  BY DEF Blocks
<1> DEFINE Sized(v, n) == Blocks[t].values = v /\ Blocks[t].bytes = n /\ FormatBlocks[t] = <<v, n>>
<1>2. CASE t = "q4_0"
  <2>1. Sized(32, 18)
    BY <1>2 DEF Blocks, FormatBlocks, Q4_0
  <2> QED BY <2>1
<1>3. CASE t = "q4_1"
  <2>1. Sized(32, 20)
    BY <1>3 DEF Blocks, FormatBlocks, Q4_1
  <2> QED BY <2>1
<1>4. CASE t = "q5_0"
  <2>1. Sized(32, 22)
    BY <1>4 DEF Blocks, FormatBlocks, Q5_0
  <2> QED BY <2>1
<1>5. CASE t = "q5_1"
  <2>1. Sized(32, 24)
    BY <1>5 DEF Blocks, FormatBlocks, Q5_1
  <2> QED BY <2>1
<1>6. CASE t = "q8_0"
  <2>1. Sized(32, 34)
    BY <1>6 DEF Blocks, FormatBlocks, Q8_0
  <2> QED BY <2>1
<1>7. CASE t = "q2_k"
  <2>1. Sized(256, 84)
    BY <1>7 DEF Blocks, FormatBlocks, Q2_K
  <2> QED BY <2>1
<1>8. CASE t = "q3_k"
  <2>1. Sized(256, 110)
    BY <1>8 DEF Blocks, FormatBlocks, Q3_K
  <2> QED BY <2>1
<1>9. CASE t = "q4_k"
  <2>1. Sized(256, 144)
    BY <1>9 DEF Blocks, FormatBlocks, Q4_K
  <2> QED BY <2>1
<1>10. CASE t = "q5_k"
  <2>1. Sized(256, 176)
    BY <1>10 DEF Blocks, FormatBlocks, Q5_K
  <2> QED BY <2>1
<1>11. CASE t = "q6_k"
  <2>1. Sized(256, 210)
    BY <1>11 DEF Blocks, FormatBlocks, Q6_K
  <2> QED BY <2>1
<1>12. CASE t = "q8_k"
  <2>1. Sized(256, 292)
    BY <1>12 DEF Blocks, FormatBlocks, Q8_K
  <2> QED BY <2>1
<1> QED BY <1>1, <1>2, <1>3, <1>4, <1>5, <1>6, <1>7, <1>8, <1>9, <1>10, <1>11, <1>12

\* A matrix has as many bytes as its rows together, when a row is cut into whole blocks.
LEMMA BytesByRow ==
  ASSUME NEW t \in DOMAIN Blocks, NEW cols \in Nat \ {0}, NEW rows \in Nat \ {0}
  PROVE  /\ DataSize(t, cols) = (cols \div Blocks[t].values) * Blocks[t].bytes
         /\ DataSize(t, cols) \in Nat
         /\ QuantBytes(t, rows, cols) = IF cols % Blocks[t].values = 0 THEN rows * DataSize(t, cols) ELSE -1
         /\ rows * DataSize(t, cols) \in Nat
<1> DEFINE v == Blocks[t].values
           bytes == Blocks[t].bytes
           c == cols \div v
           line == DataSize(t, cols)
<1>1. v \in Nat \ {0} /\ bytes \in Nat \ {0} /\ FormatBlocks[t][1] = v /\ FormatBlocks[t][2] = bytes
  BY TablesAgree
<1> HIDE DEF v, bytes
<1>2. c \in Nat
  <2>1. cols \div v \in Int
    BY <1>1, Quotient
  <2>2. 0 = v * 0 + 0 /\ 0 \in 0..(v - 1)
    BY <1>1
  <2>3. 0 \div v = 0
    BY <1>1, <2>2, QuotientIs
  <2>4. 0 \div v <= cols \div v
    BY <1>1, QuotientGrows
  <2> QED BY <2>1, <2>3, <2>4
<1>3. line = c * bytes
  BY <1>1 DEF DataSize
<1> HIDE DEF c, line
<1>4. line \in Nat /\ rows * line \in Nat
  BY <1>1, <1>2, <1>3
<1>5. QuantBytes(t, rows, cols) = IF cols % v = 0 THEN rows * c * bytes ELSE -1
  BY DEF QuantBytes, FusedQuantSupported, v, bytes, c
<1>6. rows * c * bytes = rows * line
  BY <1>1, <1>2, <1>3
<1> QED BY <1>3, <1>4, <1>5, <1>6 DEF v, bytes, c, line

\* A tensor that is cut in every way: the answer of CutTensor.
Cuts(in) ==
  LET t == in.type
      rows == in.qDim + 2 * in.kvDim
      n == in.experts * rows
      raw == n * DataSize(t, in.cols)
      one == rows * DataSize(t, in.cols)
  IN  [raw |-> raw, need |-> QuantBytes(t, n, in.cols), floats |-> ToFloat32(t, raw, n * in.cols),
       valid |-> ValidateQuantMatMul(t, one, rows, in.cols, in.cols),
       device |-> [e \in 0..(in.experts - 1) |-> ExpertSlice(t, raw, e, rows, in.cols)],
       host |-> [e \in 0..(in.experts - 1) |-> MatMulExpertInto(t, raw, e, rows, in.cols)],
       gathered |-> [r \in 0..(n - 1) |-> EmbeddingRow(t, raw, in.cols, r)],
       multiplied |-> [r \in 0..(n - 1) |-> ProductRow(t, raw, n, in.cols, r)],
       qkv |-> QKVFusedSlices(t, one, in.qDim, in.kvDim),
       gateUp |-> GateUpFusedSlices(t, 2 * in.qDim * DataSize(t, in.cols), in.qDim)]

\* What PartsAgree says of them.
PartsRight(in, out) ==
  LET rows == in.qDim + 2 * in.kvDim
      whole == in.cols % Blocks[in.type].values = 0
      line == DataSize(in.type, in.cols)
      Lines(from, n) == Part(from * line, n * line)
  IN  /\ out.valid = whole
      /\ \A e \in DOMAIN out.host :
           out.device[e] = out.host[e] /\ out.host[e] = IF whole THEN {Lines(e * rows, rows)} ELSE {}
      /\ \A r \in DOMAIN out.gathered :
           out.gathered[r] = out.multiplied[r] /\ out.gathered[r] = IF whole THEN {Lines(r, 1)} ELSE {}
      /\ whole => /\ out.need = out.raw /\ out.floats
                  /\ out.gateUp = <<Lines(0, in.qDim), Lines(in.qDim, in.qDim)>>
                  /\ out.qkv = <<Lines(0, in.qDim), Lines(in.qDim, in.kvDim), Lines(in.qDim + in.kvDim, in.kvDim)>>

LEMMA CutsAreRight ==
  ASSUME NEW in, in.type \in DOMAIN Blocks, {in.qDim, in.kvDim, in.cols, in.experts} \subseteq Nat \ {0}
  PROVE  PartsRight(in, Cuts(in))
<1> DEFINE t == in.type
           q == in.qDim
           kv == in.kvDim
           cols == in.cols
           rows == in.qDim + 2 * in.kvDim
           n == in.experts * rows
           v == Blocks[t].values
           bytes == Blocks[t].bytes
           whole == cols % v = 0
           line == DataSize(t, cols)
           raw == n * line
           one == rows * line
           Lines(from, k) == Part(from * line, k * line)
<1>1. t \in DOMAIN Blocks /\ q \in Nat \ {0} /\ kv \in Nat \ {0} /\ cols \in Nat \ {0} /\ in.experts \in Nat \ {0}
  OBVIOUS
<1>2. rows \in Nat \ {0} /\ n \in Nat \ {0}
  <2>1. rows \in Nat \ {0}
    BY <1>1
  <2> HIDE DEF rows
  <2>2. n \in Nat \ {0}
    BY <1>1, <2>1
  <2> QED BY <2>1, <2>2
<1>3. /\ line \in Nat /\ line = (cols \div v) * bytes
      /\ \A k \in Nat \ {0} : QuantBytes(t, k, cols) = (IF whole THEN k * line ELSE -1) /\ k * line \in Nat
      /\ v \in Nat \ {0} /\ bytes \in Nat \ {0}
  BY <1>1, BytesByRow, TablesAgree
<1> DEFINE device == [e \in 0..(in.experts - 1) |-> ExpertSlice(t, raw, e, rows, cols)]
           host == [e \in 0..(in.experts - 1) |-> MatMulExpertInto(t, raw, e, rows, cols)]
           gathered == [r \in 0..(n - 1) |-> EmbeddingRow(t, raw, cols, r)]
           multiplied == [r \in 0..(n - 1) |-> ProductRow(t, raw, n, cols, r)]
<1>4. /\ Cuts(in).raw = raw /\ Cuts(in).need = QuantBytes(t, n, cols) /\ Cuts(in).floats = ToFloat32(t, raw, n * cols)
      /\ Cuts(in).valid = ValidateQuantMatMul(t, one, rows, cols, cols)
      /\ Cuts(in).device = device /\ Cuts(in).host = host
      /\ Cuts(in).gathered = gathered /\ Cuts(in).multiplied = multiplied
      /\ Cuts(in).qkv = QKVFusedSlices(t, one, q, kv)
      /\ Cuts(in).gateUp = GateUpFusedSlices(t, 2 * q * line, q)
  BY Zenon DEF Cuts
<1>5. FusedQuantSupported(t)
  BY <1>1 DEF FusedQuantSupported
<1> HIDE DEF t, q, kv, cols, rows, n, v, bytes, line
<1>6. ValidateQuantMatMul(t, one, rows, cols, cols) = whole
  BY <1>2, <1>3, <1>5 DEF ValidateQuantMatMul, ValidateQuant
<1>7. ASSUME NEW e \in 0..(in.experts - 1)
      PROVE  device[e] = host[e] /\ host[e] = IF whole THEN {Lines(e * rows, rows)} ELSE {}
  <2>1. e \in Nat /\ e * rows \in Nat /\ e * rows + rows <= n
    <3>1. (e + 1) * rows <= in.experts * rows /\ (e + 1) * rows = e * rows + rows
      <4>1. e + 1 <= in.experts /\ e + 1 \in Int
        BY <1>1
      <4> QED BY <1>1, <1>2, <4>1, Times
    <3>2. e \in Nat /\ e * rows \in Nat
      BY <1>2
    <3> QED BY <3>1, <3>2 DEF n
  <2>2. device[e] = RowSlice(t, raw, e * rows, rows, cols) /\ host[e] = MatMulExpertInto(t, raw, e, rows, cols)
    BY DEF ExpertSlice
  <2>3. CASE ~whole
    <3>1. QuantBytes(t, rows, cols) = -1
      BY <1>2, <1>3, <2>3
    <3> QED BY <1>5, <2>2, <2>3, <3>1 DEF RowSlice, MatMulExpertInto, ExpertQuantBytes
  <2>4. CASE whole
    <3>1. QuantBytes(t, rows, cols) = rows * line /\ QuantBytes(t, 1, cols) = line /\ rows * line \in Nat
      BY <1>2, <1>3, <2>4
    <3>2. QuantBytes(t, rows, cols) # -1
      BY <3>1
    <3>3. e * (rows * line) = (e * rows) * line
      BY <1>2, <1>3, <2>1
    <3>4. Inside((e * rows) * line, rows * line, n * line) = {Lines(e * rows, rows)}
      <4> DEFINE from == e * rows
      <4>1. from \in Nat /\ from + rows <= n /\ rows \in Nat /\ n \in Nat /\ line \in Nat
        BY <1>2, <1>3, <2>1
      <4> HIDE DEF from
      <4>2. (from + rows) * line <= n * line
        BY <4>1, Times
      <4>3. (from + rows) * line = from * line + rows * line /\ from * line \in Nat /\ rows * line \in Nat
        BY <4>1
      <4> QED BY <4>2, <4>3 DEF from, Inside
    <3>5. RowOffset(t, e * rows, rows, cols) = (e * rows) * line
      BY <3>1 DEF RowOffset
    <3>6. device[e] = Inside((e * rows) * line, rows * line, n * line)
      BY <2>2, <3>1, <3>2, <3>5 DEF RowSlice
    <3>7. host[e] = Inside((e * rows) * line, rows * line, n * line)
      BY <1>5, <2>2, <3>1, <3>2, <3>3 DEF MatMulExpertInto, ExpertQuantBytes
    <3> QED BY <2>4, <3>4, <3>6, <3>7
  <2> QED BY <2>3, <2>4
<1>8. ASSUME NEW r \in 0..(n - 1)
      PROVE  gathered[r] = multiplied[r] /\ gathered[r] = IF whole THEN {Lines(r, 1)} ELSE {}
  <2>1. r \in Nat /\ r + 1 <= n /\ 1 * line = line
    BY <1>2, <1>3
  <2>2. gathered[r] = EmbeddingRow(t, raw, cols, r) /\ multiplied[r] = ProductRow(t, raw, n, cols, r)
    OBVIOUS
  <2>3. EmbeddingRow(t, raw, cols, r) = IF whole THEN Inside(r * line, line, raw) ELSE {}
    BY <1>3 DEF EmbeddingRow, v, bytes
  <2>4. CASE ~whole
    BY <2>2, <2>3, <2>4 DEF ProductRow, v
  <2>5. CASE whole
    <3>1. Inside(r * line, 1 * line, n * line) = {Part(r * line, 1 * line)}
      <4>1. (r + 1) * line <= n * line /\ (r + 1) * line = r * line + line
        <5>1. r + 1 \in Int /\ n \in Int /\ r + 1 <= n
          BY <1>2, <2>1
        <5>2. (r + 1) * line <= n * line
          BY <1>3, <5>1, Times
        <5> QED BY <1>3, <2>1, <5>2
      <4>2. r * line \in Nat /\ line \in Nat /\ 1 * line = line
        BY <1>3, <2>1
      <4> QED BY <4>1, <4>2 DEF Inside
    <3>2. QuantBytes(t, n, cols) = raw /\ raw \in Nat
      BY <1>2, <1>3, <2>5
    <3>3. ~ (raw < QuantBytes(t, n, cols))
      BY <3>2
    <3>4. ProductRow(t, raw, n, cols, r) = {Part(r * line, line)}
      BY <1>3, <2>5, <3>3 DEF ProductRow, v, bytes
    <3> QED BY <2>1, <2>2, <2>3, <2>5, <3>1, <3>4
  <2> QED BY <2>4, <2>5
<1>9. whole => QuantBytes(t, n, cols) = raw
  BY <1>2, <1>3
<1>10. whole => ToFloat32(t, raw, n * cols)
  <2>1. SUFFICES ASSUME whole PROVE ToFloat32(t, raw, n * cols)
    OBVIOUS
  <2> DEFINE c == cols \div v
             d == n * c
  <2>2. cols = v * c + (cols % v) /\ c \in Int
    BY <1>1, <1>3, Quotient
  <2>3. cols = v * c
    BY <1>3, <2>1, <2>2
  <2> HIDE DEF c
  <2>4. d \in Int /\ n * cols + (v - 1) = v * d + (v - 1) /\ n * cols + (v - 1) \in Int /\ v - 1 \in 0..(v - 1)
    BY <1>2, <1>3, <2>2, <2>3
  <2>5. d * bytes = raw /\ raw \in Nat
    BY <1>2, <1>3, <2>2 DEF c
  <2> HIDE DEF d
  <2>6. (n * cols + (v - 1)) \div v = d
    BY <1>3, <2>4, QuotientIs
  <2>7. DequantInto(t, raw, n * cols)
    BY <1>2, <1>3, <2>4, <2>5, <2>6 DEF DequantInto, v, bytes
  <2>8. t \notin {"f32", "int32", "f16"}
    BY <1>1 DEF Blocks
  <2> QED BY <1>5, <2>7, <2>8 DEF ToFloat32
<1>11. GateUpFusedSlices(t, 2 * q * line, q) = <<Lines(0, q), Lines(q, q)>>
  <2> DEFINE m == q * line
             x == 2 * q * line
             d == 2 * q
  <2>1. m \in Nat /\ x = 2 * m + 0 /\ x \in Int /\ d \in Nat \ {0} /\ x = d * line + 0 /\ line \in Int /\ q > 0
    BY <1>1, <1>3
  <2>2. 0 * line = 0
    BY <1>3
  <2> HIDE DEF m, x, d
  <2>3. x \div 2 = m /\ x % d = 0
    <3> DEFINE two == 2
               zero == 0
    <3>1. two \in Nat \ {0} /\ zero \in 0..(two - 1) /\ m \in Int /\ x = two * m + zero
      BY <2>1
    <3>2. zero \in 0..(d - 1) /\ x = d * line + zero
      BY <2>1
    <3> HIDE DEF two, zero
    <3>3. x \div two = m
      BY <2>1, <3>1, QuotientIs
    <3>4. x % d = zero
      BY <2>1, <3>2, QuotientIs
    <3> QED BY <3>3, <3>4 DEF two, zero
  <2>4. GateUpFusedSlices(t, x, q) = <<Part(0, x \div 2), [from |-> x \div 2, to |-> x]>>
    BY <1>1, <1>5, <2>1, <2>3 DEF GateUpFusedSlices, d
  <2>5. x = m + m
    BY <2>1
  <2>6. Lines(0, q) = Part(0, m) /\ Lines(q, q) = Part(m, m)
    BY <2>2 DEF m
  <2> QED BY <2>3, <2>4, <2>5, <2>6 DEF Part, x
<1>12. QKVFusedSlices(t, one, q, kv) = <<Lines(0, q), Lines(q, kv), Lines(q + kv, kv)>>
  <2> DEFINE x == rows * line
  <2>1. x \in Int /\ x = rows * line + 0 /\ 0 \in 0..(rows - 1) /\ line \in Int
    BY <1>2, <1>3
  <2>2. 0 * line = 0 /\ (q + kv) * line + kv * line = rows * line
    BY <1>1, <1>3 DEF rows, q, kv
  <2>3. x = (q + kv) * line + kv * line
    BY <2>2
  <2> HIDE DEF x
  <2>4. x \div rows = line /\ x % rows = 0
    BY <1>2, <2>1, QuotientIs
  <2>5. rows = q + 2 * kv /\ ~ (rows <= 0)
    BY <1>2 DEF rows, q, kv
  <2>6. QKVFusedSlices(t, x, q, kv) = <<Part(0, q * line), Part(q * line, kv * line), [from |-> (q + kv) * line, to |-> x]>>
    BY <1>5, <2>4, <2>5 DEF QKVFusedSlices
  <2> QED BY <2>2, <2>3, <2>6 DEF Part, x
<1>13. /\ DOMAIN Cuts(in).host = 0..(in.experts - 1) /\ DOMAIN Cuts(in).gathered = 0..(n - 1)
  BY <1>4
<1> HIDE DEF device, host, gathered, multiplied, raw, one
<1> QED BY <1>4, <1>6, <1>7, <1>8, <1>9, <1>10, <1>11, <1>12, <1>13
        DEF PartsRight, t, q, kv, cols, rows, n, v, line

-----------------------------------------------------------------------------
(* What an arena gives out.                                                  *)

\* The largest of two.
LEMMA MaxIs ==
  ASSUME NEW a \in Int, NEW b \in Int
  PROVE  Max({a, b}) \in Int /\ Max({a, b}) >= a /\ Max({a, b}) >= b /\ Max({a, b}) \in {a, b}
<1>1. \E x \in {a, b} : \A y \in {a, b} : x >= y
  OBVIOUS
<1>2. Max({a, b}) \in {a, b} /\ \A y \in {a, b} : Max({a, b}) >= y
  BY <1>1 DEF Max
<1> QED BY <1>2

\* The largest of three.
LEMMA MaxOfThree ==
  ASSUME NEW a \in Int, NEW b \in Int, NEW c \in Int
  PROVE  LET m == Max({a, b, c}) IN m \in {a, b, c} /\ m >= a /\ m >= b /\ m >= c
<1>1. \E x \in {a, b, c} : \A y \in {a, b, c} : x >= y
  OBVIOUS
<1>2. Max({a, b, c}) \in {a, b, c} /\ \A y \in {a, b, c} : Max({a, b, c}) >= y
  BY <1>1 DEF Max
<1> QED BY <1>2

\* The arenas that Allocated goes through.
Arenas(f, s, n) ==
  f = [i \in 0..n |-> IF i = 0 THEN NewArena(s.need) ELSE Alloc(f[i - 1], s.buffers[i][1], s.buffers[i][2])]

\* There are such arenas, up to any buffer: the first one without would have one before it.
LEMMA ArenasExist ==
  ASSUME NEW s, NEW n \in Nat
  PROVE  \E f : Arenas(f, s, n)
<1> DEFINE T == {i \in Nat : ~ \E f : Arenas(f, s, i)}
<1>1. SUFFICES ASSUME T # {} PROVE FALSE
  OBVIOUS
<1>2. PICK m \in T : \A y \in T : m <= y
  BY <1>1, LeastIn
<1> DEFINE next(a, j) == Alloc(a, s.buffers[j][1], s.buffers[j][2])
<1>3. CASE m = 0
  <2> DEFINE f == [j \in 0..0 |-> NewArena(s.need)]
  <2>1. f = [j \in 0..0 |-> IF j = 0 THEN NewArena(s.need) ELSE next(f[j - 1], j)]
    OBVIOUS
  <2> QED BY <1>2, <1>3, <2>1 DEF Arenas
<1>4. CASE m # 0
  <2>1. m - 1 \in Nat /\ m - 1 \notin T
    BY <1>2, <1>4
  <2>2. PICK f : Arenas(f, s, m - 1)
    BY <2>1
  <2> DEFINE g == [j \in 0..m |-> IF j = m THEN next(f[m - 1], m) ELSE f[j]]
  <2> HIDE DEF next
  <2>3. ASSUME NEW j \in 0..m PROVE g[j] = IF j = 0 THEN NewArena(s.need) ELSE next(g[j - 1], j)
    <3>1. CASE j = m
      BY <3>1, <1>4, <2>1
    <3>2. CASE j # m
      <4>1. f[j] = IF j = 0 THEN NewArena(s.need) ELSE next(f[j - 1], j)
        BY <2>1, <2>2, <3>2 DEF Arenas, next
      <4> QED BY <4>1, <3>2, <2>1
    <3> QED BY <3>1, <3>2
  <2>4. Arenas(g, s, m)
    <3> DEFINE Right(j) == IF j = 0 THEN NewArena(s.need) ELSE next(g[j - 1], j)
    <3>1. g = [j \in 0..m |-> g[j]]
      OBVIOUS
    <3>2. \A j \in 0..m : g[j] = Right(j)
      BY <2>3
    <3> HIDE DEF g, Right
    <3>3. g = [j \in 0..m |-> Right(j)]
      BY <3>1, <3>2
    <3> QED BY <3>3 DEF Arenas, Right, next
  <2> QED BY <1>2, <2>4
<1> QED BY <1>3, <1>4

\* Allocated is the last of them.
LEMMA AllocatedIs ==
  ASSUME NEW s, Len(s.buffers) \in Nat
  PROVE  \E f : Arenas(f, s, Len(s.buffers)) /\ Allocated(s) = f[Len(s.buffers)]
<1> DEFINE n == Len(s.buffers)
           g == CHOOSE g : g = [i \in 0..n |-> IF i = 0 THEN NewArena(s.need)
                                               ELSE Alloc(g[i - 1], s.buffers[i][1], s.buffers[i][2])]
<1>1. PICK f : Arenas(f, s, n)
  BY ArenasExist
<1>2. Arenas(g, s, n)
  BY <1>1 DEF Arenas
<1>3. Allocated(s) = g[n]
  BY <1>2 DEF Allocated
<1> QED BY <1>2, <1>3

Names == {"x", "h", "q", "k", "v", "attn", "up", "gate", "scores", "logits", "router", "moeAcc", "tmp", "attnOut", "qkv",
          "gateUp", "qAbs", "qRope", "kvPe", "kMHA", "vMHA", "pePack", "qLora", "qPe", "kvExp"}
Buffers == Seq(Names \X Nat)
Slices == [name : Names, slab : Nat, from : Nat, to : Nat]
ArenaType == [cap : Nat, off : Nat, slab : Nat, given : Seq(Slices)]
Slice1(a, name, n, slab) == [name |-> name, slab |-> slab, from |-> a.off, to |-> a.off + n]

\* What one Alloc does.
LEMMA AllocStep ==
  ASSUME NEW a \in ArenaType, NEW name \in Names, NEW n \in Nat
  PROVE  LET b == Alloc(a, name, n)
         IN  /\ b \in ArenaType /\ b.off = a.off + n
             /\ n = 0 => b.given = a.given
             /\ n > 0 => \E slab \in Nat : b.given = Append(a.given, Slice1(a, name, n, slab))
             /\ a.off + n <= a.cap => b.cap = a.cap /\ b.slab = a.slab
<1> DEFINE b == Alloc(a, name, n)
<1>0. a.cap \in Nat /\ a.off \in Nat /\ a.slab \in Nat /\ a.given \in Seq(Slices)
  BY DEF ArenaType
<1>1. ASSUME NEW x \in ArenaType, x.off = a.off, x.given = a.given
      PROVE  LET c == Carved(x, name, n)
             IN  /\ c \in ArenaType /\ c.off = a.off + n /\ c.cap = x.cap /\ c.slab = x.slab
                 /\ c.given = Append(a.given, Slice1(a, name, n, x.slab))
  <2> DEFINE new == Slice1(a, name, n, x.slab)
             c == [cap |-> x.cap, off |-> a.off + n, slab |-> x.slab, given |-> Append(a.given, new)]
  <2>1. new \in Slices
    BY <1>0 DEF Slice1, Slices, ArenaType
  <2>2. Append(a.given, new) \in Seq(Slices)
    BY <1>0, <2>1
  <2>3. Carved(x, name, n) = c
    <3>1. x = [cap |-> x.cap, off |-> x.off, slab |-> x.slab, given |-> x.given]
      BY DEF ArenaType
    <3>2. Carved(x, name, n) = [[x EXCEPT !.given = Append(x.given, new)] EXCEPT !.off = x.off + n]
      BY <1>1, <3>1 DEF Carved, Slice1
    <3> HIDE DEF new
    <3> QED BY <1>1, <3>1, <3>2
  <2> HIDE DEF new
  <2>4. c \in ArenaType
    BY <1>0, <2>2 DEF ArenaType
  <2> QED BY <2>3, <2>4 DEF new
<1>2. CASE n = 0
  BY <1>0, <1>2 DEF Alloc
<1>3. CASE n > 0 /\ a.off + n <= a.cap
  <2>1. b = Carved(a, name, n)
    BY <1>0, <1>3 DEF Alloc
  <2> QED BY <1>0, <1>1, <1>3, <2>1
<1>4. CASE n > 0 /\ ~ (a.off + n <= a.cap)
  <2> DEFINE more == Max({2 * a.cap, a.off + n, 64})
             x == [a EXCEPT !.cap = more, !.slab = @ + 1]
  <2>1. b = Carved(x, name, n)
    BY <1>0, <1>4 DEF Alloc
  <2>2. more \in Nat
    <3>1. 2 * a.cap \in Nat /\ a.off + n \in Nat /\ 64 \in Nat
      BY <1>0
    <3>2. \A u, v, w \in Nat : Max({u, v, w}) \in Nat
      BY MaxOfThree
    <3> QED BY <3>1, <3>2
  <2> HIDE DEF more
  <2>3. x \in ArenaType /\ x.off = a.off /\ x.given = a.given
    <3>1. a.slab + 1 \in Nat
      BY <1>0
    <3>2. \A k \in Nat : [a EXCEPT !.cap = more, !.slab = k] \in ArenaType
      BY <2>2 DEF ArenaType
    <3>3. x \in ArenaType
      BY <3>1, <3>2
    <3> QED BY <3>3 DEF ArenaType
  <2> HIDE DEF x
  <2>4. x.slab \in Nat
    BY <2>3 DEF ArenaType
  <2> QED BY <1>0, <1>1, <1>4, <2>1, <2>3, <2>4
<1> QED BY <1>0, <1>2, <1>3, <1>4

\* An arena after the first i buffers: its slices follow one another, each of the buffers
\* has one of its length, and if they fit none was moved.
Carves(f, s, i) ==
  LET a == f[i]
      b == s.buffers
  IN  /\ a \in ArenaType
      /\ \A k, l \in DOMAIN a.given : k < l => a.given[k].to <= a.given[l].from
      /\ \A k \in DOMAIN a.given : a.given[k].to <= a.off
      /\ \A k \in 1..i : b[k][2] = 0 \/ \E l \in DOMAIN a.given : /\ a.given[l].name = b[k][1]
                                                                  /\ a.given[l].to - a.given[l].from = b[k][2]

\* Every arena of the row carves: the first that would not follows one that does.
LEMMA ArenaCarves ==
  ASSUME NEW s, s.need \in Int, s.buffers \in Buffers, NEW f, NEW n \in Nat, n = Len(s.buffers), Arenas(f, s, n)
  PROVE  \A i \in 0..n : Carves(f, s, i)
<1> DEFINE b == s.buffers
           T == {i \in 0..n : ~Carves(f, s, i)}
<1>1. SUFFICES ASSUME T # {} PROVE FALSE
  OBVIOUS
<1>2. PICK m \in T : \A y \in T : m <= y
  <2>1. T \in SUBSET Nat
    OBVIOUS
  <2> QED BY <1>1, <2>1, LeastIn
<1>3. f[m] = IF m = 0 THEN NewArena(s.need) ELSE Alloc(f[m - 1], b[m][1], b[m][2])
  BY <1>2 DEF Arenas
<1>4. CASE m = 0
  <2>1. Max({s.need, 0}) \in Nat
    <3>1. 0 \in Int
      OBVIOUS
    <3>2. Max({s.need, 0}) \in Int /\ Max({s.need, 0}) >= 0
      BY <3>1, MaxIs, Zenon
    <3> QED BY <3>2
  <2>2. f[0] = [cap |-> Max({s.need, 0}), off |-> 0, slab |-> 0, given |-> <<>>]
    BY <1>3, <1>4 DEF NewArena
  <2>3. f[0] \in ArenaType /\ DOMAIN f[0].given = {}
    <3>1. <<>> \in Seq(Slices) /\ DOMAIN <<>> = {}
      OBVIOUS
    <3> QED BY <2>1, <2>2, <3>1 DEF ArenaType
  <2>4. Carves(f, s, 0)
    BY <2>3 DEF Carves
  <2> QED BY <1>2, <1>4, <2>4
<1>5. CASE m # 0
  <2> DEFINE a == f[m - 1]
             c == f[m]
             name == b[m][1]
             z == b[m][2]
  <2>1. m \in 1..n /\ m - 1 \in 0..n /\ m - 1 \notin T /\ m - 1 \in Nat
    BY <1>2, <1>5
  <2>2. Carves(f, s, m - 1)
    BY <2>1
  <2>3. name \in Names /\ z \in Nat
    <3>1. b[m] \in Names \X Nat
      BY <2>1 DEF Buffers
    <3> QED BY <3>1
  <2>4. a \in ArenaType /\ c = Alloc(a, name, z)
    BY <1>3, <1>5, <2>2 DEF Carves
  <2>5. /\ \A k, l \in DOMAIN a.given : k < l => a.given[k].to <= a.given[l].from
        /\ \A k \in DOMAIN a.given : a.given[k].to <= a.off
        /\ \A k \in 1..(m - 1) : b[k][2] = 0 \/ \E l \in DOMAIN a.given : /\ a.given[l].name = b[k][1]
                                                                          /\ a.given[l].to - a.given[l].from = b[k][2]
    BY <2>2 DEF Carves
  <2> HIDE DEF a, c, name, z
  <2>6. c \in ArenaType /\ c.off = a.off + z
    BY <2>3, <2>4, AllocStep
  <2>7. a.off \in Nat /\ a.given \in Seq(Slices)
    BY <2>4 DEF ArenaType
  <2>8. \A k \in 1..m : k \in 1..(m - 1) \/ k = m
    BY <2>1
  <2>9. CASE z = 0
    <3>1. c.given = a.given /\ c.off = a.off
      <4>1. c.given = a.given
        BY <2>3, <2>4, <2>9, AllocStep
      <4> QED BY <2>6, <2>7, <2>9, <4>1
    <3>2. Carves(f, s, m)
      BY <2>5, <2>6, <2>8, <2>9, <3>1 DEF Carves, c, z
    <3> QED BY <1>2, <3>2
  <2>10. CASE z > 0
    <3>1. PICK slab \in Nat : c.given = Append(a.given, Slice1(a, name, z, slab))
      BY <2>3, <2>4, <2>10, AllocStep
    <3> DEFINE new == Slice1(a, name, z, slab)
               g == a.given
               len == Len(a.given)
    <3>2. new.name = name /\ new.from = a.off /\ new.to = a.off + z
      BY DEF Slice1
    <3>3. new \in Slices
      BY <2>3, <2>7 DEF Slice1, Slices
    <3> HIDE DEF new
    <3>4. /\ len \in Nat /\ DOMAIN g = 1..len /\ DOMAIN c.given = 1..(len + 1)
          /\ c.given[len + 1] = new /\ \A k \in 1..len : c.given[k] = g[k]
      BY <2>7, <3>1, <3>3 DEF new
    <3>5. \A k \in 1..(len + 1) : k \in 1..len \/ k = len + 1
      BY <3>4
    <3>6. \A k \in 1..len : g[k] \in Slices /\ g[k].to \in Nat /\ g[k].to <= a.off
      <4>1. \A k \in 1..len : g[k] \in Slices
        BY <2>7
      <4> QED BY <2>5, <3>4, <4>1 DEF Slices
    <3> HIDE DEF g, len
    <3>7. ASSUME NEW k \in DOMAIN c.given PROVE c.given[k].to <= c.off
      <4>1. CASE k \in 1..len
        <5>1. c.given[k] = g[k] /\ g[k].to \in Nat /\ g[k].to <= a.off
          BY <3>4, <3>6, <4>1
        <5>2. a.off <= c.off
          BY <2>3, <2>6, <2>7
        <5>3. c.off \in Nat
          BY <2>3, <2>6, <2>7
        <5>4. g[k].to <= c.off
          BY <2>7, <5>1, <5>2, <5>3
        <5>5. c.given[k].to = g[k].to
          BY <5>1
        <5> QED BY <5>4, <5>5, Zenon
      <4>2. CASE k = len + 1
        BY <2>3, <2>6, <2>7, <3>2, <3>4, <4>2
      <4> QED BY <3>4, <3>5, <4>1, <4>2
    <3>8. ASSUME NEW k \in DOMAIN c.given, NEW l \in DOMAIN c.given, k < l
          PROVE  c.given[k].to <= c.given[l].from
      <4>1. k \in 1..len
        BY <3>4, <3>8
      <4>2. CASE l \in 1..len
        BY <2>5, <3>4, <3>8, <4>1, <4>2 DEF g
      <4>3. CASE l = len + 1
        BY <3>2, <3>4, <3>6, <4>1, <4>3
      <4> QED BY <3>4, <3>5, <4>2, <4>3
    <3>9. ASSUME NEW k \in 1..m
          PROVE  b[k][2] = 0 \/ \E l \in DOMAIN c.given : /\ c.given[l].name = b[k][1]
                                                          /\ c.given[l].to - c.given[l].from = b[k][2]
      <4>1. CASE k = m
        <5>1. len + 1 \in DOMAIN c.given /\ (a.off + z) - a.off = z
          BY <2>3, <2>7, <3>4
        <5> QED BY <3>2, <3>4, <4>1, <5>1 DEF z, name
      <4>2. CASE k \in 1..(m - 1)
        <5>1. \A l \in DOMAIN g : l \in DOMAIN c.given /\ c.given[l] = g[l]
          BY <3>4
        <5> QED BY <2>5, <4>2, <5>1 DEF g
      <4> QED BY <2>8, <4>1, <4>2
    <3>10. Carves(f, s, m)
      BY <2>6, <3>7, <3>8, <3>9 DEF Carves, c
    <3> QED BY <1>2, <3>10
  <2> QED BY <2>3, <2>9, <2>10
<1> QED BY <1>4, <1>5

\* All of it: the slices of an arena that was asked for more than it gives out.
LEMMA ArenaHolds ==
  ASSUME NEW s, s.need \in Nat, s.buffers \in Buffers
  PROVE  LET b == s.buffers
             n == Len(b)
             a == Allocated(s)
         IN  /\ a.given \in Seq(Slices)
             /\ \A k, l \in DOMAIN a.given : k < l => a.given[k].to <= a.given[l].from
             /\ \A k \in 1..n : b[k][2] = 0 \/ \E l \in DOMAIN a.given : /\ a.given[l].name = b[k][1]
                                                                         /\ a.given[l].to - a.given[l].from = b[k][2]
             /\ \E t : /\ t[0] = 0
                       /\ \A k \in 1..n : t[k] \in Nat /\ t[k] = t[k - 1] + b[k][2]
                       /\ t[n] <= s.need => a.slab = 0
<1> DEFINE b == s.buffers
           n == Len(b)
           a == Allocated(s)
<1>1. n \in Nat
  BY DEF Buffers
<1>2. PICK f : Arenas(f, s, n) /\ a = f[n]
  BY <1>1, AllocatedIs
<1>3. \A i \in 0..n : Carves(f, s, i)
  BY <1>1, <1>2, ArenaCarves
<1>4. Carves(f, s, n) /\ Carves(f, s, 0)
  BY <1>1, <1>3
<1> DEFINE t == [i \in 0..n |-> f[i].off]
<1>5. f[0] = NewArena(s.need)
  BY <1>1, <1>2 DEF Arenas
<1>6. Max({s.need, 0}) = s.need
  <2>1. 0 \in Int /\ s.need \in Int
    OBVIOUS
  <2>2. Max({s.need, 0}) \in {s.need, 0} /\ Max({s.need, 0}) >= s.need
    BY <2>1, MaxIs, Zenon
  <2> QED BY <2>2
<1>7. t[0] = 0 /\ f[0].cap = s.need /\ f[0].slab = 0 /\ f[0].off = 0
  BY <1>1, <1>5, <1>6 DEF NewArena
<1>8. ASSUME NEW k \in 1..n
      PROVE  /\ f[k] \in ArenaType /\ f[k - 1] \in ArenaType /\ f[k - 1].off \in Nat
             /\ b[k][1] \in Names /\ b[k][2] \in Nat
             /\ f[k] = Alloc(f[k - 1], b[k][1], b[k][2])
  <2>1. k \in 0..n /\ k - 1 \in 0..n /\ k # 0
    BY <1>1
  <2>2. b[k] \in Names \X Nat
    BY DEF Buffers
  <2>3. f[k] = Alloc(f[k - 1], b[k][1], b[k][2])
    BY <1>2, <2>1 DEF Arenas
  <2>4. f[k] \in ArenaType /\ f[k - 1] \in ArenaType
    BY <1>3, <2>1 DEF Carves
  <2> QED BY <2>2, <2>3, <2>4 DEF ArenaType
<1>9. ASSUME NEW k \in 1..n
      PROVE  /\ f[k].off = f[k - 1].off + b[k][2] /\ f[k].off \in Nat
             /\ f[k].off <= f[k - 1].cap => f[k].cap = f[k - 1].cap /\ f[k].slab = f[k - 1].slab
  <2> DEFINE c == f[k - 1]
             z == b[k][2]
             d == Alloc(c, b[k][1], z)
  <2>1. c \in ArenaType /\ b[k][1] \in Names /\ z \in Nat /\ c.off \in Nat /\ f[k] = d
    BY <1>8
  <2>2. d.off = c.off + z /\ (c.off + z <= c.cap => d.cap = c.cap /\ d.slab = c.slab)
    BY <2>1, AllocStep
  <2> QED BY <2>1, <2>2
<1>10. \A k \in 1..n : k - 1 \in 0..n /\ k \in 0..n
  BY <1>1
<1>11. \A k \in 1..n : t[k] \in Nat /\ t[k] = t[k - 1] + b[k][2]
  BY <1>9, <1>10
<1>12. ASSUME f[n].off <= s.need PROVE a.slab = 0
  <2> DEFINE T == {i \in 0..n : ~ (f[n - i].off <= s.need)}
             U == {i \in 0..n : ~ (f[i].cap = s.need /\ f[i].slab = 0)}
  <2>1. T = {}
    <3>1. SUFFICES ASSUME T # {} PROVE FALSE
      OBVIOUS
    <3>2. PICK m \in T : \A y \in T : m <= y
      <4>1. T \in SUBSET Nat
        OBVIOUS
      <4> QED BY <3>1, <4>1, LeastIn
    <3>3. m # 0 /\ m \in 0..n
      BY <1>1, <1>12, <3>2
    <3>4. m - 1 \in 0..n /\ m - 1 \notin T /\ n - (m - 1) \in 1..n /\ (n - (m - 1)) - 1 = n - m
      BY <1>1, <3>2, <3>3
    <3>5. f[n - (m - 1)].off <= s.need
      BY <3>4
    <3> DEFINE k == n - (m - 1)
    <3>6. f[k].off = f[k - 1].off + b[k][2] /\ f[k - 1].off \in Nat /\ b[k][2] \in Nat /\ k - 1 = n - m
      BY <1>8, <1>9, <3>4
    <3>7. f[n - m].off <= s.need
      <4>1. f[k - 1].off <= s.need
        <5> HIDE DEF k
        <5>1. f[k].off <= s.need
          BY <3>5 DEF k
        <5> QED BY <3>6, <5>1
      <4> QED BY <3>6, <4>1
    <3> QED BY <3>2, <3>7
  <2>2. ASSUME NEW i \in 0..n PROVE f[i].off <= s.need
    <3>1. n - i \in 0..n /\ n - (n - i) = i
      BY <1>1
    <3> QED BY <2>1, <3>1
  <2>3. U = {}
    <3>1. SUFFICES ASSUME U # {} PROVE FALSE
      OBVIOUS
    <3>2. PICK m \in U : \A y \in U : m <= y
      <4>1. U \in SUBSET Nat
        OBVIOUS
      <4> QED BY <3>1, <4>1, LeastIn
    <3>3. m # 0 /\ m \in 0..n
      BY <1>7, <3>2
    <3>4. m \in 1..n /\ m - 1 \in 0..n /\ m - 1 \notin U
      BY <1>1, <3>2, <3>3
    <3>5. f[m - 1].cap = s.need /\ f[m - 1].slab = 0
      BY <3>4
    <3>6. f[m].off <= s.need
      BY <2>2, <3>3
    <3> QED BY <1>9, <3>2, <3>4, <3>5, <3>6
  <2>4. n \in 0..n
    BY <1>1
  <2> QED BY <1>2, <2>3, <2>4
<1>13. t[n] <= s.need => a.slab = 0
  BY <1>1, <1>12
<1> HIDE DEF t
<1>14. \E t1 : /\ t1[0] = 0
               /\ \A k \in 1..n : t1[k] \in Nat /\ t1[k] = t1[k - 1] + b[k][2]
               /\ t1[n] <= s.need => a.slab = 0
  BY <1>7, <1>11, <1>13
<1>15. a \in ArenaType
  BY <1>2, <1>4 DEF Carves
<1> QED BY <1>2, <1>4, <1>14, <1>15 DEF Carves, ArenaType

-----------------------------------------------------------------------------
(* What a parsed configuration is.                                           *)

\* With takes what both have from the first.
LEMMA MergeIs ==
  ASSUME NEW f, NEW g
  PROVE  /\ DOMAIN With(f, g) = DOMAIN f \cup DOMAIN g
         /\ \A k \in DOMAIN f : With(f, g)[k] = f[k]
         /\ \A k \in DOMAIN g \ DOMAIN f : With(f, g)[k] = g[k]
BY DEF With

SizeFields == {"ctx", "emb", "ffn", "layers", "heads", "kvHeads", "headDim", "vocab"}
ExpertFields == {"experts", "expertFFN", "sharedFFN", "lead"}
LatentFields == {"rope", "nope", "kvLora", "qLora", "vHead"}
Numbers(c, fields) == fields \subseteq DOMAIN c /\ \A k \in fields : c[k] \in Nat

\* A value that is not given is the default.
LEMMA Defaults ==
  ASSUME NEW md, md \in [DOMAIN md -> Nat], NEW key, NEW default \in Nat
  PROVE  IntOr(md, key, default) \in Nat /\ PositiveOr(md, key, default) \in Nat
BY DEF IntOr, PositiveOr, Gives

\* The width of a head.
LEMMA HeadDimIs ==
  ASSUME NEW md, md \in [DOMAIN md -> Nat], md.emb \in Nat, md.heads \in Nat \ {0}
  PROVE  HeadDim(md) \in Nat
<1> DEFINE x == md.emb
           y == md.heads
<1>1. x \in Nat /\ y \in Nat \ {0}
  OBVIOUS
<1> HIDE DEF x, y
<1>2. x \div y \in Nat
  BY <1>1
<1>3. HeadDim(md) = PositiveOr(md, "keyLength", x \div y)
  BY DEF HeadDim, x, y
<1> QED BY <1>2, <1>3, Defaults

\* The dimensions of a file that gives its sizes.
LEMMA DimsAre ==
  ASSUME NEW md, md \in [DOMAIN md -> Nat], Sizes \subseteq DOMAIN md, md.heads # 0,
         VocabSizeFromEmb(md) # {}, NEW kvHeads \in Nat
  PROVE  LET d == Dims(md, kvHeads) IN DOMAIN d = SizeFields /\ Numbers(d, SizeFields)
<1>1. /\ md.ctx \in Nat /\ md.emb \in Nat /\ md.ffn \in Nat /\ md.layers \in Nat /\ md.heads \in Nat \ {0}
  BY DEF Sizes
<1>2. Vocab(md) \in Nat
  <2>1. VocabSizeFromEmb(md) \subseteq Nat
    BY DEF VocabSizeFromEmb, Gives
  <2>2. Vocab(md) \in VocabSizeFromEmb(md)
    BY DEF Vocab
  <2> QED BY <2>1, <2>2
<1>3. HeadDim(md) \in Nat
  BY <1>1, HeadDimIs
<1> DEFINE d == Dims(md, kvHeads)
<1>4. DOMAIN d = SizeFields
  BY DEF Dims, SizeFields
<1>5. /\ d.ctx = md.ctx /\ d.emb = md.emb /\ d.ffn = md.ffn /\ d.layers = md.layers /\ d.heads = md.heads
      /\ d.kvHeads = kvHeads /\ d.headDim = HeadDim(md) /\ d.vocab = Vocab(md)
  BY DEF Dims
<1> HIDE DEF d
<1>6. /\ d["ctx"] \in Nat /\ d["emb"] \in Nat /\ d["ffn"] \in Nat /\ d["layers"] \in Nat /\ d["heads"] \in Nat
      /\ d["kvHeads"] \in Nat /\ d["headDim"] \in Nat /\ d["vocab"] \in Nat
  BY <1>1, <1>2, <1>3, <1>5
<1>7. Numbers(d, SizeFields)
  BY <1>4, <1>6 DEF Numbers, SizeFields
<1> QED BY <1>4, <1>7 DEF d

\* Experts after all, or none.
LEMMA DenseIs == Numbers(Dense, ExpertFields) /\ DOMAIN Dense = ExpertFields \cup {"used", "gated"} /\ Dense.experts = 0
<1>1. DOMAIN Dense = ExpertFields \cup {"used", "gated"}
  BY DEF Dense, ExpertFields
<1>2. Dense["experts"] = 0 /\ Dense["expertFFN"] = 0 /\ Dense["sharedFFN"] = 0 /\ Dense["lead"] = 0
  BY DEF Dense
<1> QED BY <1>1, <1>2 DEF Numbers, ExpertFields

\* The experts of qwen3 and mistral.
LEMMA ExpertsAre ==
  ASSUME NEW md, md \in [DOMAIN md -> Nat]
  PROVE  LET e == Experts(md)
         IN  /\ DOMAIN e = {"experts", "used", "expertFFN", "lead", "gated"}
             /\ e["experts"] \in Nat /\ e["used"] \in Nat /\ e["expertFFN"] \in Nat /\ e["lead"] \in Nat
<1>1. /\ IntOr(md, "experts", 0) \in Nat /\ IntOr(md, "used", 0) \in Nat /\ PositiveOr(md, "expertFFN", 0) \in Nat
      /\ PositiveOr(md, "used", 2) \in Nat
  BY Defaults
<1> QED BY <1>1 DEF Experts, Used

\* The experts of both deepseeks.
LEMMA DeepseekExpertsAre ==
  ASSUME NEW md, md \in [DOMAIN md -> Nat]
  PROVE  LET e == DeepseekExperts(md)
         IN  DOMAIN e = ExpertFields \cup {"used", "gated"} /\ Numbers(e, ExpertFields)
<1> DEFINE e == [k \in {"experts", "used", "shared", "expertFFN"} |-> IntOr(md, k, 0)]
<1>1. /\ e["experts"] \in Nat /\ e["used"] \in Nat /\ e["shared"] \in Nat /\ e["expertFFN"] \in Nat
      /\ IntOr(md, "lead", 0) \in Nat
  BY Defaults
<1> HIDE DEF e
<1> DEFINE lead == IF IntOr(md, "lead", 0) >= 0 THEN IntOr(md, "lead", 0) ELSE 0
           shared == IF e.shared <= 0 THEN e.expertFFN ELSE e.expertFFN * e.shared
           d == DeepseekExperts(md)
<1>2. lead \in Nat /\ shared \in Nat
  BY <1>1
<1>3. d = [experts |-> e.experts, used |-> e.used, expertFFN |-> e.expertFFN, gated |-> FALSE, lead |-> lead,
           sharedFFN |-> shared]
  BY DEF DeepseekExperts, e
<1> HIDE DEF lead, shared, d
<1>4. DOMAIN d = ExpertFields \cup {"used", "gated"}
  BY <1>3 DEF ExpertFields
<1>5. d["experts"] \in Nat /\ d["expertFFN"] \in Nat /\ d["lead"] \in Nat /\ d["sharedFFN"] \in Nat
  BY <1>1, <1>2, <1>3
<1> QED BY <1>4, <1>5 DEF Numbers, ExpertFields, d

\* Numbers joined to numbers are numbers.
LEMMA NumbersWith ==
  ASSUME NEW f, NEW g, NEW F, NEW G, Numbers(f, F), Numbers(g, G)
  PROVE  DOMAIN With(f, g) = DOMAIN f \cup DOMAIN g /\ Numbers(With(f, g), F \cup (G \ DOMAIN f))
<1> DEFINE w == With(f, g)
<1>1. /\ DOMAIN w = DOMAIN f \cup DOMAIN g
      /\ \A k \in DOMAIN f : w[k] = f[k]
      /\ \A k \in DOMAIN g \ DOMAIN f : w[k] = g[k]
  BY MergeIs, Zenon
<1> HIDE DEF w
<1>2. Numbers(w, F \cup (G \ DOMAIN f))
  BY <1>1 DEF Numbers
<1> QED BY <1>1, <1>2 DEF w

\* What an accepted configuration is wrapped in.
LEMMA AcceptedIs ==
  ASSUME NEW cfg
  PROVE  LET p == Accepted(cfg) IN DOMAIN p = {"outcome", "cfg"} /\ p.outcome = "config" /\ p.cfg = cfg
BY DEF Accepted

\* What is refused has no configuration.
LEMMA OthersAreNot == Refused.outcome # "config" /\ Broken.outcome # "config"
BY DEF Refused, Broken

Plain(c) == Numbers(c, SizeFields \cup ExpertFields) /\ "kvLora" \notin DOMAIN c
Latent(c) == Numbers(c, SizeFields \cup ExpertFields \cup LatentFields)
IsPlain(p) == p.outcome = "config" => DOMAIN p = {"outcome", "cfg"} /\ Plain(p.cfg)
IsDense(p) == p.outcome = "config" => DOMAIN p = {"outcome", "cfg"} /\ Plain(p.cfg) /\ p.cfg.experts = 0
IsMixed(p) == p.outcome = "config" => DOMAIN p = {"outcome", "cfg"} /\ Plain(p.cfg) /\ Numbers(p.cfg, {"used"})

Fields == {"ctx", "emb", "ffn", "layers", "heads", "kvHeads", "headDim", "vocab",
           "experts", "expertFFN", "sharedFFN", "lead", "used", "gated"}

\* Without experts.
LEMMA DenseConfig ==
  ASSUME NEW d, DOMAIN d = SizeFields, Numbers(d, SizeFields)
  PROVE  LET c == With(d, Dense)
         IN  Plain(c) /\ c.experts = 0 /\ DOMAIN c = Fields
<1>1. Numbers(With(d, Dense), SizeFields \cup (ExpertFields \ SizeFields))
  BY DenseIs, NumbersWith
<1>2. DOMAIN With(d, Dense) = SizeFields \cup (ExpertFields \cup {"used", "gated"})
  BY DenseIs, MergeIs
<1>3. With(d, Dense)["experts"] = Dense["experts"]
  <2>1. "experts" \in DOMAIN Dense \ DOMAIN d
    BY DenseIs DEF ExpertFields, SizeFields
  <2>2. \A k \in DOMAIN Dense \ DOMAIN d : With(d, Dense)[k] = Dense[k]
    BY MergeIs, Zenon
  <2> QED BY <2>1, <2>2
<1>4. DOMAIN With(d, Dense) = Fields
  BY <1>2 DEF ExpertFields, SizeFields, Fields
<1>5. SizeFields \cup (ExpertFields \ SizeFields) = SizeFields \cup ExpertFields
  OBVIOUS
<1>6. "kvLora" \notin Fields
  BY DEF Fields
<1> QED BY <1>1, <1>3, <1>4, <1>5, <1>6, DenseIs DEF Plain

\* The loaders that know no experts: llama, phi2, phi3, gemma and gemma2.
LEMMA DenseParses ==
  ASSUME NEW md, md \in [DOMAIN md -> Nat]
  PROVE  /\ IsDense(ParseLlama(md)) /\ IsDense(ParsePhi2(md)) /\ IsDense(ParsePhi3(md))
         /\ \A second \in BOOLEAN : IsDense(ParseGemma(md, second))
<1> DEFINE d(kv) == Dims(md, kv)
           c(kv) == With(d(kv), Dense)
           given == Sizes \subseteq DOMAIN md /\ VocabSizeFromEmb(md) # {} /\ md.heads # 0
<1>1. ASSUME given, NEW kv \in Nat
      PROVE  Plain(c(kv)) /\ c(kv).experts = 0 /\ DOMAIN c(kv) = Fields
  BY <1>1, DimsAre, DenseConfig
<1>2. ASSUME given PROVE PositiveOr(md, "kvHeads", md.heads) \in Nat
  <2>1. md.heads \in Nat
    BY <1>2 DEF Sizes
  <2> QED BY <2>1, Defaults
<1>3. ASSUME "kvHeads" \in DOMAIN md PROVE md.kvHeads \in Nat
  BY <1>3
<1>4. ASSUME "heads" \in DOMAIN md PROVE md.heads \in Nat
  BY <1>4
<1>5. "heads" \in Sizes
  BY DEF Sizes
<1> HIDE DEF c, given, d
<1>6. \A cfg : (Plain(cfg) /\ cfg.experts = 0) => IsDense(Accepted(cfg))
  BY AcceptedIs DEF IsDense
<1>7. IsDense(Refused) /\ IsDense(Broken)
  BY OthersAreNot DEF IsDense
<1>8. IsDense(ParseLlama(md))
  <2>1. CASE ParseLlama(md) \in {Refused, Broken}
    BY <1>7, <2>1
  <2>2. CASE ParseLlama(md) \notin {Refused, Broken}
    <3>1. given /\ md.kvHeads \in Nat /\ ParseLlama(md) = Accepted(c(md.kvHeads))
      BY <1>3, <2>2 DEF ParseLlama, Gives, given, c, d
    <3> QED BY <1>1, <1>6, <3>1
  <2> QED BY <2>1, <2>2
<1>9. IsDense(ParsePhi2(md))
  <2>1. CASE ParsePhi2(md) = Refused
    BY <1>7, <2>1
  <2>2. CASE ParsePhi2(md) # Refused
    <3>1. given /\ ParsePhi2(md) = Accepted(c(PositiveOr(md, "kvHeads", md.heads)))
      BY <2>2 DEF ParsePhi2, Gives, given, c, d
    <3> QED BY <1>1, <1>2, <1>6, <3>1
  <2> QED BY <2>1, <2>2
<1>10. IsDense(ParsePhi3(md))
  <2>1. CASE ParsePhi3(md) = Refused
    BY <1>7, <2>1
  <2>2. CASE ParsePhi3(md) # Refused
    <3>1. given /\ md.kvHeads \in Nat /\ ParsePhi3(md) = Accepted(c(md.kvHeads))
      BY <1>3, <2>2 DEF ParsePhi3, Gives, given, c, d
    <3> QED BY <1>1, <1>6, <3>1
  <2> QED BY <2>1, <2>2
<1>11. ASSUME NEW second \in BOOLEAN PROVE IsDense(ParseGemma(md, second))
  <2>1. CASE ParseGemma(md, second) = Refused
    BY <1>7, <2>1
  <2>2. CASE ParseGemma(md, second) # Refused
    <3> DEFINE kv == PositiveOr(md, "kvHeads", md.heads)
               w == [window |-> IF second THEN PositiveOr(md, "window", 4096) ELSE 0,
                     period |-> IF second THEN PositiveOr(md, "period", 2) ELSE 0]
               cfg == With(w, c(kv))
    <3>1. given /\ ParseGemma(md, second) = Accepted(cfg)
      BY <2>2 DEF ParseGemma, Gives, given, c, d
    <3>2. Plain(c(kv)) /\ c(kv).experts = 0 /\ DOMAIN c(kv) = Fields
      BY <1>1, <1>2, <3>1
    <3>3. DOMAIN w = {"window", "period"}
      OBVIOUS
    <3> HIDE DEF w, kv
    <3>4. \A k \in Fields : k \notin DOMAIN w /\ cfg[k] = c(kv)[k]
      <4>1. \A k \in Fields : k \notin DOMAIN w
        BY <3>3 DEF Fields
      <4>2. \A k \in DOMAIN c(kv) \ DOMAIN w : cfg[k] = c(kv)[k]
        BY MergeIs, Zenon
      <4> QED BY <3>2, <4>1, <4>2
    <3>5. DOMAIN cfg = Fields \cup {"window", "period"}
      <4>1. DOMAIN cfg = DOMAIN w \cup DOMAIN c(kv)
        BY MergeIs, Zenon
      <4> QED BY <3>2, <3>3, <4>1
    <3>6. SizeFields \cup ExpertFields \subseteq Fields /\ "kvLora" \notin Fields \cup {"window", "period"}
      BY DEF SizeFields, ExpertFields, Fields
    <3> HIDE DEF cfg
    <3>7. Plain(cfg)
      BY <3>2, <3>4, <3>5, <3>6 DEF Plain, Numbers
    <3>8. cfg.experts = 0
      <4>1. "experts" \in Fields
        BY DEF Fields
      <4>2. cfg["experts"] = c(kv)["experts"]
        BY <3>4, <4>1
      <4> QED BY <3>2, <4>2
    <3> QED BY <1>6, <3>1, <3>7, <3>8
  <2> QED BY <2>1, <2>2
<1> QED BY <1>8, <1>9, <1>10, <1>11

\* Those that may have experts: qwen3 and mistral.
LEMMA MixedParses ==
  ASSUME NEW md, md \in [DOMAIN md -> Nat]
  PROVE  IsMixed(ParseQwen3(md)) /\ \A window : IsMixed(ParseMistral(md, window))
<1> DEFINE d == Dims(md, md.kvHeads)
           e == Experts(md)
           given == Sizes \subseteq DOMAIN md /\ VocabSizeFromEmb(md) # {} /\ md.heads # 0 /\ md.kvHeads \in Nat
           Some == {"experts", "used", "expertFFN", "lead"}
<1>1. given => DOMAIN d = SizeFields /\ Numbers(d, SizeFields)
  BY DimsAre
<1>2. DOMAIN e = Some \cup {"gated"} /\ Numbers(e, Some)
  BY ExpertsAre DEF Numbers
<1>3. "kvHeads" \in DOMAIN md => md.kvHeads \in Nat
  OBVIOUS
<1>4. "heads" \in Sizes
  BY DEF Sizes
<1>5. \A cfg : Plain(cfg) /\ Numbers(cfg, {"used"}) => IsMixed(Accepted(cfg))
  BY AcceptedIs DEF IsMixed
<1>6. IsMixed(Refused) /\ IsMixed(Broken)
  BY OthersAreNot DEF IsMixed
<1>7. /\ SizeFields \cap Some = {} /\ "gated" \notin SizeFields
      /\ SizeFields \cup ExpertFields \subseteq SizeFields \cup Some \cup {"sharedFFN"} /\ "kvLora" \notin SizeFields
      /\ "sharedFFN" \notin SizeFields /\ ExpertFields \subseteq Some \cup {"sharedFFN"}
  <2>1. "gated" \notin SizeFields /\ "kvLora" \notin SizeFields /\ "sharedFFN" \notin SizeFields
    BY DEF SizeFields
  <2>2. SizeFields \cap Some = {}
    BY DEF SizeFields
  <2>3. ExpertFields \subseteq Some \cup {"sharedFFN"} /\ Some \subseteq ExpertFields \cup {"used"}
    BY DEF ExpertFields
  <2>4. "sharedFFN" \in ExpertFields /\ SizeFields \cup ExpertFields \subseteq SizeFields \cup Some \cup {"sharedFFN"}
    BY <2>3 DEF ExpertFields
  <2> QED BY <2>1, <2>2, <2>3, <2>4
<1>8. ASSUME NEW cfg, Numbers(cfg, SizeFields \cup Some \cup {"sharedFFN"}), "kvLora" \notin DOMAIN cfg
      PROVE  Plain(cfg) /\ Numbers(cfg, {"used"})
  BY <1>7, <1>8 DEF Plain, Numbers
<1>9. IsMixed(ParseQwen3(md))
  <2>1. CASE ParseQwen3(md) \in {Refused, Broken}
    BY <1>6, <2>1
  <2>2. CASE ParseQwen3(md) \notin {Refused, Broken}
    <3> DEFINE x == With(e, Dense)
               cfg == With(d, x)
    <3>1. given /\ ParseQwen3(md) = Accepted(cfg)
      BY <1>3, <2>2 DEF ParseQwen3, Gives
    <3> HIDE DEF given, d, e
    <3>2. DOMAIN x = DOMAIN e \cup DOMAIN Dense /\ Numbers(x, Some \cup (ExpertFields \ DOMAIN e))
      BY <1>2, DenseIs, NumbersWith
    <3> HIDE DEF x
    <3>3. /\ DOMAIN cfg = SizeFields \cup DOMAIN x
          /\ Numbers(cfg, SizeFields \cup ((Some \cup (ExpertFields \ DOMAIN e)) \ SizeFields))
      BY <1>1, <3>1, <3>2, NumbersWith
    <3>4. /\ "sharedFFN" \in ExpertFields \ DOMAIN e /\ "kvLora" \notin DOMAIN x
      BY <1>2, <3>2, DenseIs DEF ExpertFields
    <3>5. SizeFields \cup Some \cup {"sharedFFN"}
            \subseteq SizeFields \cup ((Some \cup (ExpertFields \ DOMAIN e)) \ SizeFields)
      BY <1>7, <3>4
    <3> HIDE DEF cfg, Some
    <3>6. Numbers(cfg, SizeFields \cup Some \cup {"sharedFFN"})
      BY <3>3, <3>5 DEF Numbers
    <3>7. Plain(cfg) /\ Numbers(cfg, {"used"})
      BY <1>7, <1>8, <3>3, <3>4, <3>6
    <3> QED BY <1>5, <3>1, <3>7
  <2> QED BY <2>1, <2>2
<1>10. ASSUME NEW window PROVE IsMixed(ParseMistral(md, window))
  <2>1. CASE ParseMistral(md, window) \in {Refused, Broken}
    BY <1>6, <2>1
  <2>2. CASE ParseMistral(md, window) \notin {Refused, Broken}
    <3> DEFINE x == With(d, e)
               w == [window |-> PositiveOr(md, "window", window), sharedFFN |-> PositiveOr(md, "sharedFFN", 0)]
               cfg == With(w, x)
    <3>1. given /\ ParseMistral(md, window) = Accepted(cfg)
      BY <1>3, <2>2 DEF ParseMistral, Gives
    <3>2. DOMAIN w = {"window", "sharedFFN"} /\ Numbers(w, {"sharedFFN"})
      <4>1. PositiveOr(md, "sharedFFN", 0) \in Nat
        BY Defaults
      <4> QED BY <4>1 DEF Numbers
    <3> HIDE DEF given, d, e, w
    <3>3. DOMAIN x = DOMAIN d \cup DOMAIN e /\ Numbers(x, SizeFields \cup (Some \ DOMAIN d))
      BY <1>1, <1>2, <3>1, NumbersWith
    <3> HIDE DEF x
    <3>4. /\ DOMAIN cfg = DOMAIN w \cup DOMAIN x
          /\ Numbers(cfg, {"sharedFFN"} \cup ((SizeFields \cup (Some \ DOMAIN d)) \ DOMAIN w))
      BY <3>2, <3>3, NumbersWith
    <3>5. "window" \notin SizeFields /\ "window" \notin Some /\ "sharedFFN" \notin Some
      BY DEF SizeFields
    <3>6. SizeFields \cup Some \cup {"sharedFFN"}
            \subseteq {"sharedFFN"} \cup ((SizeFields \cup (Some \ DOMAIN d)) \ DOMAIN w)
      BY <1>1, <1>7, <3>1, <3>2, <3>5
    <3>7. "kvLora" \notin DOMAIN cfg
      BY <1>1, <1>2, <1>7, <3>1, <3>2, <3>3, <3>4
    <3> HIDE DEF cfg, Some
    <3>8. Numbers(cfg, SizeFields \cup Some \cup {"sharedFFN"})
      BY <3>4, <3>6 DEF Numbers
    <3> QED BY <1>5, <1>8, <3>1, <3>7, <3>8
  <2> QED BY <2>1, <2>2
<1> QED BY <1>9, <1>10

\* Those that must have them: qwen3moe and qwen2moe.
LEMMA MoEParses ==
  ASSUME NEW md, md \in [DOMAIN md -> Nat]
  PROVE  IsPlain(ParseQwen3MoE(md)) /\ IsPlain(ParseQwen2MoE(md))
<1>1. IsPlain(Refused)
  BY OthersAreNot DEF IsPlain
<1>2. \A cfg : Plain(cfg) => IsPlain(Accepted(cfg))
  BY AcceptedIs DEF IsPlain
<1>3. ASSUME NEW c, Plain(c), Numbers(c, {"used"}) PROVE SplitFFN(c) \in Nat
  <2> DEFINE x == c.ffn
             y == c.used
  <2>1. x \in Nat /\ y \in Nat /\ c.expertFFN \in Nat
    <3>1. c["ffn"] \in Nat /\ c["used"] \in Nat /\ c["expertFFN"] \in Nat
      BY <1>3 DEF Plain, Numbers, SizeFields, ExpertFields
    <3> QED BY <3>1
  <2> HIDE DEF x, y
  <2>2. y > 0 => x \div y \in Nat
    BY <2>1
  <2> QED BY <2>1, <2>2 DEF SplitFFN, x, y
<1>4. ASSUME NEW c, NEW k, Plain(c), NEW v, k \in SizeFields \cup ExpertFields => v \in Nat
      PROVE  Plain([c EXCEPT ![k] = v])
  BY <1>4 DEF Plain, Numbers
<1>5. IsPlain(ParseQwen3MoE(md))
  <2> DEFINE p == ParseQwen3(md)
  <2>1. IsMixed(p)
    BY MixedParses
  <2>2. CASE p.outcome # "config"
    BY <2>2 DEF ParseQwen3MoE, IsPlain
  <2>3. CASE p.outcome = "config" /\ p.cfg.experts <= 0
    BY <1>1, <2>3 DEF ParseQwen3MoE
  <2>4. CASE p.outcome = "config" /\ ~ (p.cfg.experts <= 0)
    <3>1. Plain(p.cfg) /\ Numbers(p.cfg, {"used"})
      BY <2>1, <2>4 DEF IsMixed
    <3>2. ParseQwen3MoE(md) = Accepted([p.cfg EXCEPT !["expertFFN"] = SplitFFN(p.cfg)])
      BY <2>4 DEF ParseQwen3MoE
    <3> HIDE DEF p
    <3>3. Plain([p.cfg EXCEPT !["expertFFN"] = SplitFFN(p.cfg)])
      BY <1>3, <1>4, <3>1
    <3> QED BY <1>2, <3>2, <3>3
  <2> QED BY <2>2, <2>3, <2>4
<1>6. IsPlain(ParseQwen2MoE(md))
  <2> DEFINE p == ParseMistral(md, 0)
             c == p.cfg
             x == [c EXCEPT !["gated"] = TRUE]
             y == [x EXCEPT !["expertFFN"] = SplitFFN(c)]
             z == [y EXCEPT !["sharedFFN"] = IF y["sharedFFN"] <= 0 THEN c.ffn ELSE y["sharedFFN"]]
  <2>1. IsMixed(p)
    BY MixedParses
  <2>2. CASE p.outcome # "config"
    BY <2>2 DEF ParseQwen2MoE, IsPlain
  <2>3. CASE p.outcome = "config" /\ p.cfg.experts <= 0
    BY <1>1, <2>3 DEF ParseQwen2MoE
  <2>4. CASE p.outcome = "config" /\ ~ (p.cfg.experts <= 0)
    <3>1. Plain(c) /\ Numbers(c, {"used"})
      BY <2>1, <2>4 DEF IsMixed
    <3>2. ParseQwen2MoE(md) = Accepted(z)
      BY <2>4 DEF ParseQwen2MoE
    <3> HIDE DEF p, c
    <3>3. Plain(x)
      BY <1>4, <3>1 DEF SizeFields, ExpertFields
    <3> HIDE DEF x
    <3>4. Plain(y)
      BY <1>3, <1>4, <3>1, <3>3
    <3> HIDE DEF y
    <3>5. c.ffn \in Nat /\ y["sharedFFN"] \in Nat
      BY <3>1, <3>4 DEF Plain, Numbers, SizeFields, ExpertFields
    <3>6. Plain(z)
      BY <1>4, <3>4, <3>5
    <3> QED BY <1>2, <3>2, <3>6
  <2> QED BY <2>2, <2>3, <2>4
<1> QED BY <1>5, <1>6

IsLatent(p) == p.outcome = "config" => DOMAIN p = {"outcome", "cfg"} /\ Latent(p.cfg)

\* Both deepseeks, the second with a latent.
LEMMA DeepseekParses ==
  ASSUME NEW md, md \in [DOMAIN md -> Nat]
  PROVE  IsPlain(ParseDeepseek(md)) /\ IsLatent(ParseDeepseek2(md))
<1> DEFINE d(kv) == Dims(md, kv)
           e == DeepseekExperts(md)
           given == Sizes \subseteq DOMAIN md /\ VocabSizeFromEmb(md) # {} /\ md.heads # 0
           x(kv) == With(d(kv), e)
<1>1. ASSUME given, NEW kv \in Nat PROVE DOMAIN d(kv) = SizeFields /\ Numbers(d(kv), SizeFields)
  BY <1>1, DimsAre
<1>2. DOMAIN e = ExpertFields \cup {"used", "gated"} /\ Numbers(e, ExpertFields)
  BY DeepseekExpertsAre
<1>3. given => md.heads \in Nat \ {0} /\ md.emb \in Nat
  BY DEF Sizes
<1>4. "heads" \in Sizes
  BY DEF Sizes
<1>5. ASSUME given, NEW kv \in Nat
      PROVE  DOMAIN x(kv) = Fields /\ Numbers(x(kv), SizeFields \cup ExpertFields)
  <2> HIDE DEF d, e, given
  <2>1. DOMAIN x(kv) = DOMAIN d(kv) \cup DOMAIN e /\ Numbers(x(kv), SizeFields \cup (ExpertFields \ DOMAIN d(kv)))
    BY <1>1, <1>2, <1>5, NumbersWith
  <2> HIDE DEF x
  <2>2. SizeFields \cup (ExpertFields \ DOMAIN d(kv)) = SizeFields \cup ExpertFields
    BY <1>1, <1>5
  <2>3. Fields = SizeFields \cup ExpertFields \cup {"used", "gated"}
    BY DEF Fields, SizeFields, ExpertFields
  <2> QED BY <1>1, <1>2, <1>5, <2>1, <2>2, <2>3
<1>6. "kvLora" \notin Fields /\ Fields \cap LatentFields = {} /\ SizeFields \cup ExpertFields \subseteq Fields
  BY DEF Fields, LatentFields, SizeFields, ExpertFields
<1>7. IsPlain(ParseDeepseek(md))
  <2>1. CASE ParseDeepseek(md) = Refused
    BY <2>1, OthersAreNot DEF IsPlain
  <2>2. CASE ParseDeepseek(md) # Refused
    <3>1. given /\ md.kvHeads \in Nat /\ ParseDeepseek(md) = Accepted(x(md.kvHeads))
      BY <2>2 DEF ParseDeepseek, Gives
    <3> HIDE DEF given, d, e, x
    <3>2. Plain(x(md.kvHeads))
      BY <1>5, <1>6, <3>1 DEF Plain
    <3> QED BY <3>1, <3>2, AcceptedIs DEF IsPlain
  <2> QED BY <2>1, <2>2
<1>8. IsLatent(ParseDeepseek2(md))
  <2>1. CASE ParseDeepseek2(md) = Refused
    BY <2>1, OthersAreNot DEF IsLatent
  <2>2. CASE ParseDeepseek2(md) # Refused
    <3> DEFINE rope == PositiveOr(md, "rope", 64)
               headK == PositiveOr(md, "keyLengthMLA", HeadDim(md))
               nope == headK - rope
               vHead == PositiveOr(md, "valueLengthMLA", PositiveOr(md, "valueLength", nope))
               l == [rope |-> rope, nope |-> nope, kvLora |-> md.kvLora, qLora |-> IntOr(md, "qLora", 0), vHead |-> vHead]
               cfg == With(l, x(0))
    <3>1. given /\ IntOr(md, "kvLora", 0) > 0 /\ ~ (nope < 1) /\ ParseDeepseek2(md) = Accepted(cfg)
      <4>1. Gives(md, Sizes) /\ ~ (md.heads <= 0) /\ ~ (IntOr(md, "kvLora", 0) <= 0)
        BY <2>2 DEF ParseDeepseek2
      <4>2. /\ ~ (nope < 1) /\ ~ (VocabSizeFromEmb(md) = {})
            /\ ParseDeepseek2(md) = Accepted(cfg)
        BY <2>2 DEF ParseDeepseek2
      <4>3. IntOr(md, "kvLora", 0) \in Nat
        BY Defaults
      <4> HIDE DEF nope, cfg
      <4> QED BY <1>3, <4>1, <4>2, <4>3 DEF Gives
    <3>2. rope \in Nat /\ headK \in Nat /\ IntOr(md, "qLora", 0) \in Nat
      BY <1>3, <3>1, HeadDimIs, Defaults
    <3>3. nope \in Nat
      <4> HIDE DEF rope, headK
      <4> QED BY <3>1, <3>2
    <3> HIDE DEF nope
    <3>4. vHead \in Nat
      BY <3>3, Defaults
    <3>5. md.kvLora \in Nat
      BY <3>1 DEF IntOr, Gives
    <3> HIDE DEF given, d, e, x, vHead, rope
    <3>6. DOMAIN l = LatentFields
      BY DEF LatentFields
    <3>7. Numbers(l, LatentFields)
      <4>1. /\ l["rope"] \in Nat /\ l["nope"] \in Nat /\ l["kvLora"] \in Nat /\ l["qLora"] \in Nat
            /\ l["vHead"] \in Nat
        BY <3>2, <3>3, <3>4, <3>5
      <4> HIDE DEF l
      <4> QED BY <3>6, <4>1 DEF Numbers, LatentFields
    <3> HIDE DEF l
    <3>8. Numbers(cfg, LatentFields \cup ((SizeFields \cup ExpertFields) \ DOMAIN l))
      BY <1>5, <3>1, <3>7, NumbersWith
    <3> HIDE DEF cfg
    <3>9. Latent(cfg)
      <4>1. SizeFields \cup ExpertFields \cup LatentFields
              \subseteq LatentFields \cup ((SizeFields \cup ExpertFields) \ DOMAIN l)
        BY <1>6, <3>6
      <4> QED BY <3>8, <4>1 DEF Latent, Numbers
    <3> QED BY <3>1, <3>9, AcceptedIs DEF IsLatent
  <2> QED BY <2>1, <2>2
<1> QED BY <1>7, <1>8

DenseLoaders == {"llama", "phi2", "phi3", "gemma", "gemma2"}

\* What ParseConfig of any loader accepts.
LEMMA ParseIs ==
  ASSUME NEW loader, NEW md, md \in [DOMAIN md -> Nat]
  PROVE  LET p == Parse(loader, md)
         IN  /\ loader \in DenseLoaders => IsDense(p)
             /\ loader = "deepseek2" => IsLatent(p)
             /\ loader # "deepseek2" => IsPlain(p)
<1>1. \A p : IsDense(p) \/ IsMixed(p) => IsPlain(p)
  BY DEF IsDense, IsMixed, IsPlain
<1>2. IsPlain(Refused)
  BY OthersAreNot DEF IsPlain
<1> DEFINE p == Parse(loader, md)
<1>3. CASE loader = "deepseek2"
  <2>1. p = ParseDeepseek2(md)
    BY <1>3 DEF Parse
  <2> QED BY <1>3, <2>1, DeepseekParses DEF DenseLoaders
<1>4. CASE loader \in DenseLoaders
  <2>1. p \in {ParseLlama(md), ParsePhi2(md), ParsePhi3(md), ParseGemma(md, FALSE), ParseGemma(md, TRUE)}
    <3>1. CASE loader = "llama"
      BY <3>1 DEF Parse
    <3>2. CASE loader = "phi2"
      BY <3>2 DEF Parse
    <3>3. CASE loader = "phi3"
      BY <3>3 DEF Parse
    <3>4. CASE loader = "gemma"
      BY <3>4 DEF Parse
    <3>5. CASE loader = "gemma2"
      BY <3>5 DEF Parse
    <3> QED BY <1>4, <3>1, <3>2, <3>3, <3>4, <3>5 DEF DenseLoaders
  <2>2. IsDense(p)
    BY <2>1, DenseParses
  <2> QED BY <1>1, <1>4, <2>2 DEF DenseLoaders
<1>5. CASE loader \notin DenseLoaders \cup {"deepseek2"}
  <2>1. p \in {ParseQwen3(md), ParseQwen3MoE(md), ParseMistral(md, 4096), ParseMistral(md, 0), ParseQwen2MoE(md),
               ParseDeepseek(md), Refused}
    <3>1. CASE loader = "qwen3"
      BY <3>1 DEF Parse
    <3>2. CASE loader = "qwen3moe"
      BY <3>2 DEF Parse
    <3>3. CASE loader = "mistral"
      BY <3>3 DEF Parse
    <3>8. CASE loader = "llama_as_mistral"
      BY <3>8 DEF Parse
    <3>4. CASE loader = "qwen2"
      BY <3>4 DEF Parse
    <3>5. CASE loader = "qwen2moe"
      BY <3>5 DEF Parse
    <3>6. CASE loader = "deepseek"
      BY <3>6 DEF Parse
    <3>7. CASE loader \notin {"qwen3", "qwen3moe", "mistral", "llama_as_mistral", "qwen2", "qwen2moe", "deepseek"}
      <4>1. /\ loader # "llama" /\ loader # "phi2" /\ loader # "phi3" /\ loader # "gemma" /\ loader # "gemma2"
            /\ loader # "deepseek2" /\ loader # "qwen3" /\ loader # "qwen3moe" /\ loader # "mistral"
            /\ loader # "llama_as_mistral" /\ loader # "qwen2" /\ loader # "qwen2moe" /\ loader # "deepseek"
        BY <1>5, <3>7 DEF DenseLoaders
      <4>2. p = Refused
        BY <4>1 DEF Parse
      <4> QED BY <4>2
    <3> QED BY <3>1, <3>2, <3>3, <3>4, <3>5, <3>6, <3>7, <3>8
  <2>2. /\ IsPlain(ParseQwen3(md)) /\ IsPlain(ParseQwen3MoE(md)) /\ IsPlain(ParseMistral(md, 4096))
        /\ IsPlain(ParseMistral(md, 0)) /\ IsPlain(ParseQwen2MoE(md)) /\ IsPlain(ParseDeepseek(md))
    BY <1>1, MixedParses, MoEParses, DeepseekParses
  <2>3. IsPlain(p)
    BY <1>2, <2>1, <2>2
  <2> QED BY <1>5, <2>3
<1> QED BY <1>3, <1>4, <1>5

-----------------------------------------------------------------------------
(* Lists of buffers.                                                         *)
Space == Names \X Nat
Has(b, p) == \E k \in 1..Len(b) : b[k] = p
\* Whatever was given out before, the buffers take z more.
Adds(b, z) ==
  \A t : \A o \in Nat :
    t[o] \in Nat /\ (\A k \in 1..Len(b) : t[o + k] = t[o + (k - 1)] + b[k][2]) => t[o + Len(b)] = t[o] + z

\* A list joined to another has what both have and takes what both take.
LEMMA Joined ==
  ASSUME NEW a \in Buffers, NEW b \in Buffers
  PROVE  /\ a \o b \in Buffers
         /\ \A p : Has(a, p) \/ Has(b, p) => Has(a \o b, p)
         /\ \A y, z \in Nat : Adds(a, y) /\ Adds(b, z) => Adds(a \o b, y + z)
<1> DEFINE c == a \o b
<1>1. /\ Len(a) \in Nat /\ Len(b) \in Nat /\ c \in Buffers /\ Len(c) = Len(a) + Len(b)
      /\ \A k \in 1..Len(a) : c[k] = a[k]
      /\ \A k \in 1..Len(b) : c[Len(a) + k] = b[k]
  BY DEF Buffers
<1> HIDE DEF c
<1>2. ASSUME NEW p, Has(a, p) \/ Has(b, p) PROVE Has(c, p)
  <2>1. CASE Has(a, p)
    <3>1. PICK k \in 1..Len(a) : a[k] = p
      BY <2>1 DEF Has
    <3>2. k \in 1..Len(c) /\ c[k] = p
      BY <1>1, <3>1
    <3> QED BY <3>2 DEF Has
  <2>2. CASE Has(b, p)
    <3>1. PICK k \in 1..Len(b) : b[k] = p
      BY <2>2 DEF Has
    <3>2. Len(a) + k \in 1..Len(c) /\ c[Len(a) + k] = p
      BY <1>1, <3>1
    <3> QED BY <3>2 DEF Has
  <2> QED BY <1>2, <2>1, <2>2
<1>3. ASSUME NEW y \in Nat, NEW z \in Nat, Adds(a, y), Adds(b, z) PROVE Adds(c, y + z)
  <2> SUFFICES ASSUME NEW t, NEW o \in Nat, t[o] \in Nat,
                      \A k \in 1..Len(c) : t[o + k] = t[o + (k - 1)] + c[k][2]
               PROVE  t[o + Len(c)] = t[o] + (y + z)
    BY DEF Adds
  <2> DEFINE m == o + Len(a)
  <2>1. \A k \in 1..Len(a) : t[o + k] = t[o + (k - 1)] + a[k][2]
    BY <1>1
  <2>2. t[m] = t[o] + y
    BY <1>3, <2>1 DEF Adds
  <2>3. m \in Nat /\ t[m] \in Nat /\ o + Len(c) = m + Len(b)
    BY <1>1, <2>2
  <2>4. ASSUME NEW k \in 1..Len(b) PROVE t[m + k] = t[m + (k - 1)] + b[k][2]
    <3>1. Len(a) + k \in 1..Len(c) /\ o + (Len(a) + k) = m + k /\ o + ((Len(a) + k) - 1) = m + (k - 1)
      BY <1>1
    <3> QED BY <1>1, <3>1
  <2> HIDE DEF m
  <2>5. t[m + Len(b)] = t[m] + z
    BY <1>3, <2>3, <2>4 DEF Adds
  <2> QED BY <2>2, <2>3, <2>5
<1> QED BY <1>1, <1>2, <1>3 DEF c

\* Lists that are written out.
LEMMA OneBuffer ==
  ASSUME NEW a1 \in Names, NEW z1 \in Nat
  PROVE  LET b == <<<<a1, z1>>>>
         IN  /\ b \in Buffers
             /\ Has(b, <<a1, z1>>)
             /\ Adds(b, z1)
<1> DEFINE p1 == <<a1, z1>>
           b == <<p1>>
<1>1. /\ p1 \in Names \X Nat
  OBVIOUS
<1>2. /\ p1[2] = z1
  OBVIOUS
<1> HIDE DEF p1
<1>3. b \in Buffers /\ Len(b) = 1
  BY <1>1 DEF Buffers
<1>4. /\ b[1] = p1
  OBVIOUS
<1> HIDE DEF b
<1>5. /\ Has(b, p1)
  BY <1>3, <1>4 DEF Has
<1>6. Adds(b, z1)
  <2> SUFFICES ASSUME NEW t, NEW o \in Nat, t[o] \in Nat,
                      \A k \in 1..1 : t[o + k] = t[o + (k - 1)] + b[k][2]
               PROVE  t[o + 1] = t[o] + (z1)
    BY <1>3 DEF Adds
  <2>1. t[o + 1] = t[o] + z1
    <3>1. 1 \in 1..1 /\ o + (1 - 1) = o
      OBVIOUS
    <3> QED BY <1>2, <1>4, <3>1
  <2> QED BY <2>1
<1> QED BY <1>3, <1>5, <1>6 DEF b, p1

\* Two buffers.
LEMMA TwoBuffers ==
  ASSUME NEW a1 \in Names, NEW z1 \in Nat, NEW a2 \in Names, NEW z2 \in Nat
  PROVE  LET b == <<<<a1, z1>>, <<a2, z2>>>>
         IN  /\ b \in Buffers
             /\ Has(b, <<a1, z1>>) /\ Has(b, <<a2, z2>>)
             /\ Adds(b, z1 + z2)
<1> DEFINE p1 == <<a1, z1>>
           p2 == <<a2, z2>>
           b == <<p1, p2>>
<1>1. /\ p1 \in Names \X Nat /\ p2 \in Names \X Nat
  OBVIOUS
<1>2. /\ p1[2] = z1 /\ p2[2] = z2
  OBVIOUS
<1> HIDE DEF p1, p2
<1>3. b \in Buffers /\ Len(b) = 2
  BY <1>1 DEF Buffers
<1>4. /\ b[1] = p1 /\ b[2] = p2
  OBVIOUS
<1> HIDE DEF b
<1>5. /\ Has(b, p1) /\ Has(b, p2)
  BY <1>3, <1>4 DEF Has
<1>6. Adds(b, z1 + z2)
  <2> SUFFICES ASSUME NEW t, NEW o \in Nat, t[o] \in Nat,
                      \A k \in 1..2 : t[o + k] = t[o + (k - 1)] + b[k][2]
               PROVE  t[o + 2] = t[o] + (z1 + z2)
    BY <1>3 DEF Adds
  <2>1. t[o + 1] = t[o] + z1
    <3>1. 1 \in 1..2 /\ o + (1 - 1) = o
      OBVIOUS
    <3> QED BY <1>2, <1>4, <3>1
  <2>2. t[o + 2] = t[o + 1] + z2
    <3>1. 2 \in 1..2 /\ o + (2 - 1) = o + 1
      OBVIOUS
    <3> QED BY <1>2, <1>4, <3>1
  <2> QED BY <2>1, <2>2
<1> QED BY <1>3, <1>5, <1>6 DEF b, p1, p2

\* Three buffers.
LEMMA ThreeBuffers ==
  ASSUME NEW a1 \in Names, NEW z1 \in Nat, NEW a2 \in Names, NEW z2 \in Nat,
         NEW a3 \in Names, NEW z3 \in Nat
  PROVE  LET b == <<<<a1, z1>>, <<a2, z2>>, <<a3, z3>>>>
         IN  /\ b \in Buffers
             /\ Has(b, <<a1, z1>>) /\ Has(b, <<a2, z2>>) /\ Has(b, <<a3, z3>>)
<1> DEFINE p1 == <<a1, z1>>
           p2 == <<a2, z2>>
           p3 == <<a3, z3>>
           b == <<p1, p2, p3>>
<1>1. /\ p1 \in Names \X Nat /\ p2 \in Names \X Nat /\ p3 \in Names \X Nat
  OBVIOUS
<1>2. /\ p1[2] = z1 /\ p2[2] = z2 /\ p3[2] = z3
  OBVIOUS
<1> HIDE DEF p1, p2, p3
<1>3. b \in Buffers /\ Len(b) = 3
  BY <1>1 DEF Buffers
<1>4. /\ b[1] = p1 /\ b[2] = p2 /\ b[3] = p3
  OBVIOUS
<1> HIDE DEF b
<1>5. /\ Has(b, p1) /\ Has(b, p2) /\ Has(b, p3)
  BY <1>3, <1>4 DEF Has
<1> QED BY <1>3, <1>5 DEF b, p1, p2, p3

\* Five buffers, as pairs.
LEMMA FiveBuffers ==
  ASSUME NEW p1 \in Space, NEW p2 \in Space, NEW p3 \in Space, NEW p4 \in Space,
         NEW p5 \in Space
  PROVE  LET b == <<p1, p2, p3, p4, p5>>
         IN  /\ b \in Buffers
             /\ Has(b, p1) /\ Has(b, p2) /\ Has(b, p3) /\ Has(b, p4) /\ Has(b, p5)
             /\ Adds(b, p1[2] + p2[2] + p3[2] + p4[2] + p5[2])
<1> DEFINE b == <<p1, p2, p3, p4, p5>>
<1>1. b \in Buffers /\ Len(b) = 5
  BY DEF Buffers, Space
<1>2. /\ b[1] = p1 /\ b[2] = p2 /\ b[3] = p3 /\ b[4] = p4 /\ b[5] = p5
  OBVIOUS
<1> HIDE DEF b
<1>3. /\ Has(b, p1) /\ Has(b, p2) /\ Has(b, p3) /\ Has(b, p4) /\ Has(b, p5)
  BY <1>1, <1>2 DEF Has
<1>4. Adds(b, p1[2] + p2[2] + p3[2] + p4[2] + p5[2])
  <2> SUFFICES ASSUME NEW t, NEW o \in Nat, t[o] \in Nat,
                      \A k \in 1..5 : t[o + k] = t[o + (k - 1)] + b[k][2]
               PROVE  t[o + 5] = t[o] + (p1[2] + p2[2] + p3[2] + p4[2] + p5[2])
    BY <1>1 DEF Adds
  <2>1. t[o + 1] = t[o] + p1[2]
    <3>1. 1 \in 1..5 /\ o + (1 - 1) = o
      OBVIOUS
    <3> QED BY <1>2, <3>1
  <2>2. t[o + 2] = t[o + 1] + p2[2]
    <3>1. 2 \in 1..5 /\ o + (2 - 1) = o + 1
      OBVIOUS
    <3> QED BY <1>2, <3>1
  <2>3. t[o + 3] = t[o + 2] + p3[2]
    <3>1. 3 \in 1..5 /\ o + (3 - 1) = o + 2
      OBVIOUS
    <3> QED BY <1>2, <3>1
  <2>4. t[o + 4] = t[o + 3] + p4[2]
    <3>1. 4 \in 1..5 /\ o + (4 - 1) = o + 3
      OBVIOUS
    <3> QED BY <1>2, <3>1
  <2>5. t[o + 5] = t[o + 4] + p5[2]
    <3>1. 5 \in 1..5 /\ o + (5 - 1) = o + 4
      OBVIOUS
    <3> QED BY <1>2, <3>1
  <2>6. p1[2] \in Nat /\ p2[2] \in Nat /\ p3[2] \in Nat /\ p4[2] \in Nat /\ p5[2] \in Nat
    BY DEF Space
  <2> QED BY <2>1, <2>2, <2>3, <2>4, <2>5, <2>6
<1> QED BY <1>1, <1>3, <1>4 DEF b

\* Seven buffers, as pairs.
LEMMA SevenBuffers ==
  ASSUME NEW p1 \in Space, NEW p2 \in Space, NEW p3 \in Space, NEW p4 \in Space,
         NEW p5 \in Space, NEW p6 \in Space, NEW p7 \in Space
  PROVE  LET b == <<p1, p2, p3, p4, p5, p6, p7>>
         IN  /\ b \in Buffers
             /\ Has(b, p1) /\ Has(b, p2) /\ Has(b, p3) /\ Has(b, p4) /\ Has(b, p5) /\ Has(b, p6) /\ Has(b, p7)
             /\ Adds(b, p1[2] + p2[2] + p3[2] + p4[2] + p5[2] + p6[2] + p7[2])
<1> DEFINE b == <<p1, p2, p3, p4, p5, p6, p7>>
<1>1. b \in Buffers /\ Len(b) = 7
  BY DEF Buffers, Space
<1>2. /\ b[1] = p1 /\ b[2] = p2 /\ b[3] = p3 /\ b[4] = p4 /\ b[5] = p5 /\ b[6] = p6 /\ b[7] = p7
  OBVIOUS
<1> HIDE DEF b
<1>3. /\ Has(b, p1) /\ Has(b, p2) /\ Has(b, p3) /\ Has(b, p4) /\ Has(b, p5) /\ Has(b, p6) /\ Has(b, p7)
  BY <1>1, <1>2 DEF Has
<1>4. Adds(b, p1[2] + p2[2] + p3[2] + p4[2] + p5[2] + p6[2] + p7[2])
  <2> SUFFICES ASSUME NEW t, NEW o \in Nat, t[o] \in Nat,
                      \A k \in 1..7 : t[o + k] = t[o + (k - 1)] + b[k][2]
               PROVE  t[o + 7] = t[o] + (p1[2] + p2[2] + p3[2] + p4[2] + p5[2] + p6[2] + p7[2])
    BY <1>1 DEF Adds
  <2>1. t[o + 1] = t[o] + p1[2]
    <3>1. 1 \in 1..7 /\ o + (1 - 1) = o
      OBVIOUS
    <3> QED BY <1>2, <3>1
  <2>2. t[o + 2] = t[o + 1] + p2[2]
    <3>1. 2 \in 1..7 /\ o + (2 - 1) = o + 1
      OBVIOUS
    <3> QED BY <1>2, <3>1
  <2>3. t[o + 3] = t[o + 2] + p3[2]
    <3>1. 3 \in 1..7 /\ o + (3 - 1) = o + 2
      OBVIOUS
    <3> QED BY <1>2, <3>1
  <2>4. t[o + 4] = t[o + 3] + p4[2]
    <3>1. 4 \in 1..7 /\ o + (4 - 1) = o + 3
      OBVIOUS
    <3> QED BY <1>2, <3>1
  <2>5. t[o + 5] = t[o + 4] + p5[2]
    <3>1. 5 \in 1..7 /\ o + (5 - 1) = o + 4
      OBVIOUS
    <3> QED BY <1>2, <3>1
  <2>6. t[o + 6] = t[o + 5] + p6[2]
    <3>1. 6 \in 1..7 /\ o + (6 - 1) = o + 5
      OBVIOUS
    <3> QED BY <1>2, <3>1
  <2>7. t[o + 7] = t[o + 6] + p7[2]
    <3>1. 7 \in 1..7 /\ o + (7 - 1) = o + 6
      OBVIOUS
    <3> QED BY <1>2, <3>1
  <2>8. /\ p1[2] \in Nat /\ p2[2] \in Nat /\ p3[2] \in Nat /\ p4[2] \in Nat
        /\ p5[2] \in Nat /\ p6[2] \in Nat /\ p7[2] \in Nat
    BY DEF Space
  <2> QED BY <2>1, <2>2, <2>3, <2>4, <2>5, <2>6, <2>7, <2>8
<1> QED BY <1>1, <1>3, <1>4 DEF b

-----------------------------------------------------------------------------
(* The buffers of each loader: they are those that its layers use, and the   *)
(* arena was asked for as much as they take.                                 *)
Enough(s) == s.need \in Nat /\ s.buffers \in Buffers /\ \E z \in Nat : Adds(s.buffers, z) /\ z <= s.need
HasRows(b, c, n, ffn) ==
  /\ Has(b, <<"x", n * c.emb>>) /\ Has(b, <<"h", n * c.emb>>) /\ Has(b, <<"q", n * QDim(c)>>)
  /\ Has(b, <<"k", n * KVDim(c)>>) /\ Has(b, <<"v", n * KVDim(c)>>) /\ Has(b, <<"attn", n * QDim(c)>>)
  /\ Has(b, <<"up", n * ffn>>)
HasOnce(b, c) == Has(b, <<"scores", c.ctx>>) /\ Has(b, <<"logits", c.vocab>>)

\* The names that are written below.
LEMMA NamesAre ==
  /\ "x" \in Names /\ "h" \in Names /\ "q" \in Names /\ "k" \in Names /\ "v" \in Names /\ "attn" \in Names
  /\ "up" \in Names /\ "gate" \in Names /\ "scores" \in Names /\ "logits" \in Names /\ "router" \in Names
  /\ "moeAcc" \in Names /\ "tmp" \in Names /\ "attnOut" \in Names /\ "qkv" \in Names /\ "gateUp" \in Names
  /\ "qAbs" \in Names /\ "qRope" \in Names /\ "kvPe" \in Names /\ "kMHA" \in Names /\ "vMHA" \in Names
  /\ "pePack" \in Names /\ "qLora" \in Names /\ "qPe" \in Names /\ "kvExp" \in Names
BY DEF Names

\* A batch has at least one row.
LEMMA RowsIs == ASSUME NEW nBatch \in Int PROVE Rows(nBatch) \in Nat \ {0}
<1>1. 1 \in Int
  OBVIOUS
<1>2. Max({nBatch, 1}) \in Int /\ Max({nBatch, 1}) >= 1
  BY <1>1, MaxIs, Zenon
<1> QED BY <1>2 DEF Rows

\* The numbers of a configuration without a latent, and the widths made of them.
LEMMA PlainIs ==
  ASSUME NEW c, Plain(c)
  PROVE  /\ c.ctx \in Nat /\ c.emb \in Nat /\ c.ffn \in Nat /\ c.layers \in Nat /\ c.vocab \in Nat
         /\ c.heads * c.headDim \in Nat /\ c.kvHeads * c.headDim \in Nat /\ QDim(c) \in Nat /\ KVDim(c) \in Nat
         /\ c.experts \in Nat /\ c.expertFFN \in Nat /\ c.sharedFFN \in Nat /\ c.lead \in Nat
<1>1. /\ c["ctx"] \in Nat /\ c["emb"] \in Nat /\ c["ffn"] \in Nat /\ c["layers"] \in Nat /\ c["vocab"] \in Nat
      /\ c["heads"] \in Nat /\ c["kvHeads"] \in Nat /\ c["headDim"] \in Nat
      /\ c["experts"] \in Nat /\ c["expertFFN"] \in Nat /\ c["sharedFFN"] \in Nat /\ c["lead"] \in Nat
  BY DEF Plain, Numbers, SizeFields, ExpertFields
<1>2. \A a, b \in Nat : a * b \in Nat
  OBVIOUS
<1>3. c.heads * c.headDim \in Nat /\ c.kvHeads * c.headDim \in Nat
  BY <1>1, <1>2
<1> QED BY <1>1, <1>3 DEF QDim, KVDim

\* The widest feed-forward layer and the router.
LEMMA WidestIs ==
  ASSUME NEW c, c.ffn \in Nat, c.experts \in Nat, c.expertFFN \in Nat, c.sharedFFN \in Nat
  PROVE  /\ ExpertFFN(c) \in Nat /\ MaxFFN(c) \in Nat /\ MaxFFN(c) >= c.ffn /\ MaxFFN(c) >= ExpertFFN(c)
         /\ MaxFFN(c) >= c.sharedFFN /\ NExp(c) \in Nat /\ NExp(c) >= c.experts
<1>1. ExpertFFN(c) \in Nat
  BY DEF ExpertFFN
<1>2. \A u, v, w \in Nat : LET m == Max({u, v, w}) IN m \in Nat /\ m >= u /\ m >= v /\ m >= w
  BY MaxOfThree
<1>3. MaxFFN(c) \in Nat /\ MaxFFN(c) >= c.ffn /\ MaxFFN(c) >= ExpertFFN(c) /\ MaxFFN(c) >= c.sharedFFN
  BY <1>1, <1>2 DEF MaxFFN
<1>4. c.experts \in Int /\ 1 \in Int
  OBVIOUS
<1>5. Max({c.experts, 1}) \in Int /\ Max({c.experts, 1}) >= c.experts
  BY <1>4, MaxIs, Zenon
<1> QED BY <1>1, <1>3, <1>5 DEF NExp

\* What a batch takes of each width.
LEMMA Products ==
  ASSUME NEW c, Plain(c), NEW n \in Nat \ {0}, NEW ffn \in Nat
  PROVE  n * c.emb \in Nat /\ n * QDim(c) \in Nat /\ n * KVDim(c) \in Nat /\ n * ffn \in Nat
<1>1. \A a, b \in Nat : a * b \in Nat
  OBVIOUS
<1>2. c.emb \in Nat /\ QDim(c) \in Nat /\ KVDim(c) \in Nat /\ n \in Nat
  BY PlainIs
<1> DEFINE x == c.emb
           y == QDim(c)
           z == KVDim(c)
<1>3. x \in Nat /\ y \in Nat /\ z \in Nat /\ n \in Nat
  BY <1>2
<1> HIDE DEF x, y, z
<1>4. n * x \in Nat /\ n * y \in Nat /\ n * z \in Nat /\ n * ffn \in Nat
  BY <1>1, <1>3
<1> QED BY <1>4 DEF x, y, z

\* What the batch of every loader but deepseek2's has.
LEMMA Ungated ==
  ASSUME NEW c, Plain(c), NEW n \in Nat \ {0}, NEW ffn \in Nat
  PROVE  LET u == UngatedBuffers(c, n, ffn)
             e == n * c.emb
             q == n * QDim(c)
             k == n * KVDim(c)
             f == n * ffn
         IN  u \in Buffers /\ HasRows(u, c, n, ffn) /\ Adds(u, e + e + q + k + k + q + f)
<1> DEFINE e == n * c.emb
           q == n * QDim(c)
           k == n * KVDim(c)
           f == n * ffn
           u == <<<<"x", e>>, <<"h", e>>, <<"q", q>>, <<"k", k>>, <<"v", k>>, <<"attn", q>>, <<"up", f>>>>
<1>1. e \in Nat /\ q \in Nat /\ k \in Nat /\ f \in Nat
  BY Products
<1>2. UngatedBuffers(c, n, ffn) = u
  BY DEF UngatedBuffers
<1>3. HasRows(u, c, n, ffn) <=> /\ Has(u, <<"x", e>>) /\ Has(u, <<"h", e>>) /\ Has(u, <<"q", q>>) /\ Has(u, <<"k", k>>)
                                /\ Has(u, <<"v", k>>) /\ Has(u, <<"attn", q>>) /\ Has(u, <<"up", f>>)
  BY DEF HasRows
<1> HIDE DEF e, q, k, f
<1>4. /\ u \in Buffers /\ Has(u, <<"x", e>>) /\ Has(u, <<"h", e>>) /\ Has(u, <<"q", q>>) /\ Has(u, <<"k", k>>)
      /\ Has(u, <<"v", k>>) /\ Has(u, <<"attn", q>>) /\ Has(u, <<"up", f>>)
      /\ Adds(u, e + e + q + k + k + q + f)
  <2> DEFINE p1 == <<"x", e>>
             p2 == <<"h", e>>
             p3 == <<"q", q>>
             p4 == <<"k", k>>
             p5 == <<"v", k>>
             p6 == <<"attn", q>>
             p7 == <<"up", f>>
  <2>1. /\ p1[2] = e /\ p2[2] = e /\ p3[2] = q /\ p4[2] = k /\ p5[2] = k /\ p6[2] = q /\ p7[2] = f
    OBVIOUS
  <2>2. u = <<p1, p2, p3, p4, p5, p6, p7>>
    OBVIOUS
  <2>3. /\ p1 \in Space /\ p2 \in Space /\ p3 \in Space /\ p4 \in Space
        /\ p5 \in Space /\ p6 \in Space /\ p7 \in Space
    BY <1>1, NamesAre DEF Space
  <2> HIDE DEF p1, p2, p3, p4, p5, p6, p7, u
  <2>4. /\ u \in Buffers
        /\ Has(u, p1) /\ Has(u, p2) /\ Has(u, p3) /\ Has(u, p4) /\ Has(u, p5) /\ Has(u, p6) /\ Has(u, p7)
        /\ Adds(u, p1[2] + p2[2] + p3[2] + p4[2] + p5[2] + p6[2] + p7[2])
    BY <2>2, <2>3, SevenBuffers
  <2>5. Adds(u, e + e + q + k + k + q + f)
    BY <2>1, <2>4
  <2> QED BY <2>4, <2>5 DEF p1, p2, p3, p4, p5, p6, p7
<1> HIDE DEF u
<1> QED BY <1>1, <1>2, <1>3, <1>4 DEF e, q, k, f

\* The same with the gate, which only phi2 goes without.
LEMMA Batch ==
  ASSUME NEW c, Plain(c), NEW n \in Nat \ {0}, NEW ffn \in Nat
  PROVE  LET b == BatchBuffers(c, n, ffn)
             e == n * c.emb
             q == n * QDim(c)
             k == n * KVDim(c)
             f == n * ffn
         IN  b \in Buffers /\ HasRows(b, c, n, ffn) /\ Has(b, <<"gate", f>>) /\ Adds(b, (e + e + q + k + k + q + f) + f)
<1> DEFINE e == n * c.emb
           q == n * QDim(c)
           k == n * KVDim(c)
           f == n * ffn
           u == UngatedBuffers(c, n, ffn)
           g == <<<<"gate", f>>>>
           z == e + e + q + k + k + q + f
<1>1. f \in Nat /\ z \in Nat
  BY Products
<1>2. u \in Buffers /\ HasRows(u, c, n, ffn) /\ Adds(u, z)
  BY Ungated
<1> HIDE DEF f, z, u
<1>3. g \in Buffers /\ Has(g, <<"gate", f>>) /\ Adds(g, f)
  BY <1>1, NamesAre, OneBuffer
<1> HIDE DEF g
<1>4. u \o g \in Buffers /\ Adds(u \o g, z + f) /\ \A p : Has(u, p) \/ Has(g, p) => Has(u \o g, p)
  BY <1>1, <1>2, <1>3, Joined
<1>5. HasRows(u \o g, c, n, ffn) /\ Has(u \o g, <<"gate", f>>)
  BY <1>2, <1>3, <1>4 DEF HasRows
<1>6. BatchBuffers(c, n, ffn) = u \o g
  BY DEF BatchBuffers, u, g, f
<1> HIDE DEF e, q, k
<1> QED BY <1>4, <1>5, <1>6 DEF f, z, e, q, k

\* What is taken once.
LEMMA OneTokenIs ==
  ASSUME NEW c, c.ctx \in Nat, c.vocab \in Nat
  PROVE  LET b == OneToken(c) IN b \in Buffers /\ HasOnce(b, c) /\ Adds(b, c.ctx + c.vocab)
<1> DEFINE y == c.ctx
           z == c.vocab
           b == <<<<"scores", y>>, <<"logits", z>>>>
<1>1. OneToken(c) = b
  BY DEF OneToken
<1>2. HasOnce(b, c) <=> Has(b, <<"scores", y>>) /\ Has(b, <<"logits", z>>)
  BY DEF HasOnce
<1>3. y \in Nat /\ z \in Nat
  OBVIOUS
<1> HIDE DEF y, z
<1>4. b \in Buffers /\ Has(b, <<"scores", y>>) /\ Has(b, <<"logits", z>>) /\ Adds(b, y + z)
  BY <1>3, NamesAre, TwoBuffers
<1> HIDE DEF b
<1> QED BY <1>1, <1>2, <1>4 DEF y, z

\* What is taken once where there may be experts.
LEMMA MoEIs ==
  ASSUME NEW c, c.ctx \in Nat, c.vocab \in Nat, c.emb \in Nat, NExp(c) \in Nat
  PROVE  LET b == MoEBuffers(c)
         IN  b \in Buffers /\ HasOnce(b, c) /\ Has(b, <<"router", NExp(c)>>)
             /\ Adds(b, c.ctx + NExp(c) + c.emb + c.emb + c.vocab)
<1> DEFINE x == c.ctx
           y == NExp(c)
           e == c.emb
           z == c.vocab
           b == <<<<"scores", x>>, <<"router", y>>, <<"moeAcc", e>>, <<"tmp", e>>, <<"logits", z>>>>
<1>1. MoEBuffers(c) = b
  BY DEF MoEBuffers
<1>2. HasOnce(b, c) <=> Has(b, <<"scores", x>>) /\ Has(b, <<"logits", z>>)
  BY DEF HasOnce
<1>3. x \in Nat /\ y \in Nat /\ e \in Nat /\ z \in Nat
  OBVIOUS
<1> HIDE DEF x, y, e, z
<1>4. /\ b \in Buffers /\ Has(b, <<"scores", x>>) /\ Has(b, <<"router", y>>) /\ Has(b, <<"logits", z>>)
      /\ Adds(b, x + y + e + e + z)
  <2> DEFINE p1 == <<"scores", x>>
             p2 == <<"router", y>>
             p3 == <<"moeAcc", e>>
             p4 == <<"tmp", e>>
             p5 == <<"logits", z>>
  <2>1. /\ p1[2] = x /\ p2[2] = y /\ p3[2] = e /\ p4[2] = e /\ p5[2] = z
    OBVIOUS
  <2>2. b = <<p1, p2, p3, p4, p5>>
    OBVIOUS
  <2>3. /\ p1 \in Space /\ p2 \in Space /\ p3 \in Space /\ p4 \in Space
        /\ p5 \in Space
    BY <1>3, NamesAre DEF Space
  <2> HIDE DEF p1, p2, p3, p4, p5, b
  <2>4. /\ b \in Buffers
        /\ Has(b, p1) /\ Has(b, p2) /\ Has(b, p3) /\ Has(b, p4) /\ Has(b, p5)
        /\ Adds(b, p1[2] + p2[2] + p3[2] + p4[2] + p5[2])
    BY <2>2, <2>3, FiveBuffers
  <2>5. Adds(b, x + y + e + e + z)
    BY <2>1, <2>4
  <2> QED BY <2>4, <2>5 DEF p1, p2, p3, p4, p5
<1> HIDE DEF b
<1> QED BY <1>1, <1>2, <1>4 DEF x, y, e, z

\* What a scratch asks for is a sum of products by the rows of the batch.
LEMMA Distributes ==
  ASSUME NEW n \in Nat, NEW a \in Nat, NEW b \in Nat, NEW c \in Nat, NEW d \in Nat
  PROVE  /\ n * (2 * a + 2 * b + 2 * c + 2 * d) = 2 * (n * a) + 2 * (n * b) + 2 * (n * c) + 2 * (n * d)
         /\ n * (4 * a + 2 * b + 2 * c + 2 * d) = 4 * (n * a) + 2 * (n * b) + 2 * (n * c) + 2 * (n * d)
         /\ n * (3 * a + (b + 2 * c) + b + 2 * c + b + d)
              = 3 * (n * a) + n * (b + 2 * c) + 2 * (n * b) + 2 * (n * c) + n * d
         /\ n * (2 * a + (b + 2 * c) + b + 2 * c + b + 4 * d)
              = 2 * (n * a) + n * (b + 2 * c) + 2 * (n * b) + 2 * (n * c) + 4 * (n * d)
         /\ n * 2 * d = 2 * (n * d) /\ n * (b + 2 * c) \in Nat
         /\ n * a \in Nat /\ n * b \in Nat /\ n * c \in Nat /\ n * d \in Nat
         /\ n > 0 => a <= n * a
<1>1. /\ n * (2 * a + 2 * b + 2 * c + 2 * d) = 2 * (n * a) + 2 * (n * b) + 2 * (n * c) + 2 * (n * d)
      /\ n * (4 * a + 2 * b + 2 * c + 2 * d) = 4 * (n * a) + 2 * (n * b) + 2 * (n * c) + 2 * (n * d)
  OBVIOUS
<1>2. n * (3 * a + (b + 2 * c) + b + 2 * c + b + d) = 3 * (n * a) + n * (b + 2 * c) + 2 * (n * b) + 2 * (n * c) + n * d
  OBVIOUS
<1>3. n * (2 * a + (b + 2 * c) + b + 2 * c + b + 4 * d)
        = 2 * (n * a) + n * (b + 2 * c) + 2 * (n * b) + 2 * (n * c) + 4 * (n * d)
  OBVIOUS
<1>4. n * 2 * d = 2 * (n * d) /\ n * (b + 2 * c) \in Nat
  OBVIOUS
<1>5. n * a \in Nat /\ n * b \in Nat /\ n * c \in Nat /\ n * d \in Nat
  OBVIOUS
<1>6. n > 0 => a <= n * a
  <2> SUFFICES ASSUME n > 0 PROVE a <= n * a
    OBVIOUS
  <2>1. (n - 1) * a >= 0 /\ (n - 1) * a = n * a - a
    OBVIOUS
  <2> QED BY <2>1, <1>5
<1> QED BY <1>1, <1>2, <1>3, <1>4, <1>5, <1>6

\* What a loader's lists are joined to, and what is to be shown of them.
Right(s, c, n, ffn) == Enough(s) /\ HasRows(s.buffers, c, n, ffn) /\ HasOnce(s.buffers, c)

\* If the lists need no more than was asked for, the scratch is right.
LEMMA JoinedRight ==
  ASSUME NEW c, NEW n, NEW ffn, NEW a \in Buffers, NEW b \in Buffers, NEW y \in Nat, NEW z \in Nat,
         HasRows(a, c, n, ffn), HasOnce(b, c), Adds(a, y), Adds(b, z),
         NEW s, s.need \in Nat, s.buffers = a \o b, y + z <= s.need
  PROVE  Right(s, c, n, ffn) /\ \A p : Has(a, p) \/ Has(b, p) => Has(s.buffers, p)
<1> DEFINE t == a \o b
<1>1. t \in Buffers /\ Adds(t, y + z) /\ \A p : Has(a, p) \/ Has(b, p) => Has(t, p)
  BY Joined
<1>2. s.buffers = t /\ y + z \in Nat
  OBVIOUS
<1> HIDE DEF t
<1>3. HasRows(t, c, n, ffn) /\ HasOnce(t, c)
  BY <1>1 DEF HasRows, HasOnce
<1> QED BY <1>1, <1>2, <1>3 DEF Right, Enough

\* llama, gemma and gemma2.
LEMMA LlamaIs ==
  ASSUME NEW c, Plain(c), NEW nBatch \in Int
  PROVE  LET s == LlamaScratch(c, nBatch)
             n == Rows(nBatch)
         IN  Right(s, c, n, c.ffn) /\ Has(s.buffers, <<"gate", n * c.ffn>>)
<1> DEFINE s == LlamaScratch(c, nBatch)
           n == Rows(nBatch)
           m == c.ffn
           a == BatchBuffers(c, n, m)
           b == OneToken(c)
           e == n * c.emb
           q == n * QDim(c)
           k == n * KVDim(c)
           f == n * m
           y == (e + e + q + k + k + q + f) + f
           z == c.ctx + c.vocab
<1>1. /\ n \in Nat /\ n \in Nat \ {0} /\ c.emb \in Nat /\ QDim(c) \in Nat /\ KVDim(c) \in Nat /\ m \in Nat
      /\ c.ctx \in Nat /\ c.vocab \in Nat
  BY RowsIs, PlainIs
<1>2. /\ s.buffers = a \o b
      /\ s.need = n * (2 * c.emb + 2 * QDim(c) + 2 * KVDim(c) + 2 * m) + c.ctx + 2 * c.vocab
  BY DEF LlamaScratch
<1>3. /\ s.need = 2 * e + 2 * q + 2 * k + 2 * f + c.ctx + 2 * c.vocab
      /\ e \in Nat /\ q \in Nat /\ k \in Nat /\ f \in Nat
      /\ c.emb <= e
  <2> DEFINE u1 == c.emb
             v1 == QDim(c)
             w1 == KVDim(c)
             x1 == m
  <2>1. n \in Nat /\ n > 0 /\ u1 \in Nat /\ v1 \in Nat /\ w1 \in Nat /\ x1 \in Nat
    BY <1>1
  <2> HIDE DEF n, u1, v1, w1, x1
  <2>2. /\ n * (2 * u1 + 2 * v1 + 2 * w1 + 2 * x1)
             = 2 * (n * u1) + 2 * (n * v1) + 2 * (n * w1) + 2 * (n * x1)
        /\ n * u1 \in Nat /\ n * v1 \in Nat /\ n * w1 \in Nat /\ n * x1 \in Nat /\ u1 <= n * u1
    BY <2>1, Distributes
  <2> QED BY <1>2, <2>2 DEF u1, v1, w1, x1
<1>4. a \in Buffers /\ HasRows(a, c, n, m) /\ Has(a, <<"gate", f>>) /\ Adds(a, y)
  <2> HIDE DEF n, m
  <2> QED BY <1>1, Batch
<1> HIDE DEF e, q, k, f, n, m
<1>5. b \in Buffers /\ HasOnce(b, c) /\ Adds(b, z)
  BY <1>1, OneTokenIs
<1>6. s.need \in Nat /\ y \in Nat /\ z \in Nat /\ y + z <= s.need
  BY <1>1, <1>3
<1> HIDE DEF a, b, s, y, z
<1>7. Right(s, c, n, m) /\ Has(s.buffers, <<"gate", f>>)
  BY <1>2, <1>4, <1>5, <1>6, JoinedRight
<1> QED BY <1>7 DEF s, n, f, m

\* mistral, qwen2, qwen2moe and deepseek.
LEMMA MistralIs ==
  ASSUME NEW c, Plain(c), NEW nBatch \in Int
  PROVE  LET s == MistralScratch(c, nBatch)
             n == Rows(nBatch)
         IN  Right(s, c, n, MaxFFN(c)) /\ Has(s.buffers, <<"gate", n * MaxFFN(c)>>)
             /\ Has(s.buffers, <<"router", NExp(c)>>)
<1> DEFINE s == MistralScratch(c, nBatch)
           n == Rows(nBatch)
           m == MaxFFN(c)
           a == BatchBuffers(c, n, m)
           b == MoEBuffers(c)
           e == n * c.emb
           q == n * QDim(c)
           k == n * KVDim(c)
           f == n * m
           y == (e + e + q + k + k + q + f) + f
           z == c.ctx + NExp(c) + c.emb + c.emb + c.vocab
<1>1. /\ n \in Nat /\ n \in Nat \ {0} /\ c.emb \in Nat /\ QDim(c) \in Nat /\ KVDim(c) \in Nat /\ m \in Nat
      /\ c.ctx \in Nat /\ c.vocab \in Nat /\ NExp(c) \in Nat
  BY RowsIs, PlainIs, WidestIs
<1>2. /\ s.buffers = a \o b
      /\ s.need = n * (2 * c.emb + 2 * QDim(c) + 2 * KVDim(c) + 2 * m) + 2 * c.emb + c.ctx + NExp(c) + 2 * c.vocab
  BY DEF MistralScratch
<1>3. /\ s.need = 2 * e + 2 * q + 2 * k + 2 * f + 2 * c.emb + c.ctx + NExp(c) + 2 * c.vocab
      /\ e \in Nat /\ q \in Nat /\ k \in Nat /\ f \in Nat
      /\ c.emb <= e
  <2> DEFINE u1 == c.emb
             v1 == QDim(c)
             w1 == KVDim(c)
             x1 == m
  <2>1. n \in Nat /\ n > 0 /\ u1 \in Nat /\ v1 \in Nat /\ w1 \in Nat /\ x1 \in Nat
    BY <1>1
  <2> HIDE DEF n, u1, v1, w1, x1
  <2>2. /\ n * (2 * u1 + 2 * v1 + 2 * w1 + 2 * x1)
             = 2 * (n * u1) + 2 * (n * v1) + 2 * (n * w1) + 2 * (n * x1)
        /\ n * u1 \in Nat /\ n * v1 \in Nat /\ n * w1 \in Nat /\ n * x1 \in Nat /\ u1 <= n * u1
    BY <2>1, Distributes
  <2> QED BY <1>2, <2>2 DEF u1, v1, w1, x1
<1>4. a \in Buffers /\ HasRows(a, c, n, m) /\ Has(a, <<"gate", f>>) /\ Adds(a, y)
  <2> HIDE DEF n, m
  <2> QED BY <1>1, Batch
<1> HIDE DEF e, q, k, f, n, m
<1>5. b \in Buffers /\ HasOnce(b, c) /\ Adds(b, z) /\ Has(b, <<"router", NExp(c)>>)
  BY <1>1, MoEIs
<1>6. s.need \in Nat /\ y \in Nat /\ z \in Nat /\ y + z <= s.need
  BY <1>1, <1>3
<1> HIDE DEF a, b, s, y, z
<1>7. Right(s, c, n, m) /\ Has(s.buffers, <<"gate", f>>) /\ Has(s.buffers, <<"router", NExp(c)>>)
  BY <1>2, <1>4, <1>5, <1>6, JoinedRight
<1> QED BY <1>7 DEF s, n, f, m

\* qwen3 and qwen3moe.
LEMMA Qwen3Is ==
  ASSUME NEW c, Plain(c), NEW nBatch \in Int
  PROVE  LET s == Qwen3Scratch(c, nBatch)
             n == Rows(nBatch)
         IN  Right(s, c, n, MaxFFN(c)) /\ Has(s.buffers, <<"gate", n * MaxFFN(c)>>)
             /\ Has(s.buffers, <<"router", NExp(c)>>)
<1> DEFINE s == Qwen3Scratch(c, nBatch)
           n == Rows(nBatch)
           m == MaxFFN(c)
           a == BatchBuffers(c, n, m)
           b == MoEBuffers(c)
           e == n * c.emb
           q == n * QDim(c)
           k == n * KVDim(c)
           f == n * m
           y == (e + e + q + k + k + q + f) + f
           z == c.ctx + NExp(c) + c.emb + c.emb + c.vocab
<1>1. /\ n \in Nat /\ n \in Nat \ {0} /\ c.emb \in Nat /\ QDim(c) \in Nat /\ KVDim(c) \in Nat /\ m \in Nat
      /\ c.ctx \in Nat /\ c.vocab \in Nat /\ NExp(c) \in Nat
  BY RowsIs, PlainIs, WidestIs
<1>2. /\ s.buffers = a \o b
      /\ s.need = n * (4 * c.emb + 2 * QDim(c) + 2 * KVDim(c) + 2 * m) + c.ctx + NExp(c) + c.emb + c.vocab
  BY DEF Qwen3Scratch
<1>3. /\ s.need = 4 * e + 2 * q + 2 * k + 2 * f + c.ctx + NExp(c) + c.emb + c.vocab
      /\ e \in Nat /\ q \in Nat /\ k \in Nat /\ f \in Nat
      /\ c.emb <= e
  <2> DEFINE u1 == c.emb
             v1 == QDim(c)
             w1 == KVDim(c)
             x1 == m
  <2>1. n \in Nat /\ n > 0 /\ u1 \in Nat /\ v1 \in Nat /\ w1 \in Nat /\ x1 \in Nat
    BY <1>1
  <2> HIDE DEF n, u1, v1, w1, x1
  <2>2. /\ n * (4 * u1 + 2 * v1 + 2 * w1 + 2 * x1)
             = 4 * (n * u1) + 2 * (n * v1) + 2 * (n * w1) + 2 * (n * x1)
        /\ n * u1 \in Nat /\ n * v1 \in Nat /\ n * w1 \in Nat /\ n * x1 \in Nat /\ u1 <= n * u1
    BY <2>1, Distributes
  <2> QED BY <1>2, <2>2 DEF u1, v1, w1, x1
<1>4. a \in Buffers /\ HasRows(a, c, n, m) /\ Has(a, <<"gate", f>>) /\ Adds(a, y)
  <2> HIDE DEF n, m
  <2> QED BY <1>1, Batch
<1> HIDE DEF e, q, k, f, n, m
<1>5. b \in Buffers /\ HasOnce(b, c) /\ Adds(b, z) /\ Has(b, <<"router", NExp(c)>>)
  BY <1>1, MoEIs
<1>6. s.need \in Nat /\ y \in Nat /\ z \in Nat /\ y + z <= s.need
  BY <1>1, <1>3
<1> HIDE DEF a, b, s, y, z
<1>7. Right(s, c, n, m) /\ Has(s.buffers, <<"gate", f>>) /\ Has(s.buffers, <<"router", NExp(c)>>)
  BY <1>2, <1>4, <1>5, <1>6, JoinedRight
<1> QED BY <1>7 DEF s, n, f, m

\* phi3, with its fused projections.
LEMMA Phi3Is ==
  ASSUME NEW c, Plain(c), NEW nBatch \in Int
  PROVE  LET s == Phi3Scratch(c, nBatch)
             n == Rows(nBatch)
         IN  Right(s, c, n, c.ffn) /\ Has(s.buffers, <<"gate", n * c.ffn>>)
<1> DEFINE s == Phi3Scratch(c, nBatch)
           n == Rows(nBatch)
           m == c.ffn
           u == BatchBuffers(c, n, m)
           b == OneToken(c)
           e == n * c.emb
           q == n * QDim(c)
           k == n * KVDim(c)
           f == n * m
           r == n * (QDim(c) + 2 * KVDim(c))
           l == <<<<"qkv", r>>, <<"gateUp", n * 2 * m>>>>
           a == u \o l
           w == (e + e + q + k + k + q + f) + f
           y == w + (r + n * 2 * m)
           z == c.ctx + c.vocab
<1>1. /\ n \in Nat /\ n \in Nat \ {0} /\ c.emb \in Nat /\ QDim(c) \in Nat /\ KVDim(c) \in Nat /\ m \in Nat
      /\ c.ctx \in Nat /\ c.vocab \in Nat
  BY RowsIs, PlainIs
<1>2. /\ s.buffers = a \o b
      /\ s.need = n * (2 * c.emb + (QDim(c) + 2 * KVDim(c)) + QDim(c) + 2 * KVDim(c) + QDim(c) + 4 * m)
                     + c.ctx + 2 * c.vocab
  BY DEF Phi3Scratch
<1>3. /\ s.need = 2 * e + r + 2 * q + 2 * k + 4 * f + c.ctx + 2 * c.vocab
      /\ e \in Nat /\ q \in Nat /\ k \in Nat /\ f \in Nat /\ r \in Nat /\ n * 2 * m = 2 * f
      /\ c.emb <= e
  <2> DEFINE u1 == c.emb
             v1 == QDim(c)
             w1 == KVDim(c)
             x1 == m
  <2>1. n \in Nat /\ n > 0 /\ u1 \in Nat /\ v1 \in Nat /\ w1 \in Nat /\ x1 \in Nat
    BY <1>1
  <2> HIDE DEF n, u1, v1, w1, x1
  <2>2. /\ n * (2 * u1 + (v1 + 2 * w1) + v1 + 2 * w1 + v1 + 4 * x1)
             = 2 * (n * u1) + n * (v1 + 2 * w1) + 2 * (n * v1) + 2 * (n * w1) + 4 * (n * x1)
        /\ n * u1 \in Nat /\ n * v1 \in Nat /\ n * w1 \in Nat /\ n * x1 \in Nat /\ u1 <= n * u1
        /\ n * (v1 + 2 * w1) \in Nat /\ n * 2 * x1 = 2 * (n * x1)
    BY <2>1, Distributes
  <2> QED BY <1>2, <2>2 DEF u1, v1, w1, x1
<1>4. u \in Buffers /\ HasRows(u, c, n, m) /\ Has(u, <<"gate", f>>) /\ Adds(u, w)
  <2> HIDE DEF n, m
  <2> QED BY <1>1, Batch
<1> HIDE DEF e, q, k, f, r, n, m
<1>5. w \in Nat /\ y \in Nat
  BY <1>3
<1>6. l \in Buffers /\ Adds(l, r + n * 2 * m)
  BY <1>3, NamesAre, TwoBuffers
<1> HIDE DEF u, w, l
<1>7. a \in Buffers /\ Adds(a, y) /\ \A p : Has(u, p) => Has(a, p)
  BY <1>3, <1>4, <1>5, <1>6, Joined
<1>8. HasRows(a, c, n, m) /\ Has(a, <<"gate", f>>)
  BY <1>4, <1>7 DEF HasRows
<1>9. b \in Buffers /\ HasOnce(b, c) /\ Adds(b, z)
  BY <1>1, OneTokenIs
<1>10. s.need \in Nat /\ y \in Nat /\ z \in Nat /\ y + z <= s.need
  BY <1>1, <1>3 DEF w
<1> HIDE DEF a, b, s, y, z
<1>11. Right(s, c, n, m) /\ Has(s.buffers, <<"gate", f>>)
  BY <1>2, <1>7, <1>8, <1>9, <1>10, JoinedRight
<1> QED BY <1>11 DEF s, n, f, m

\* phi2, without a gate.
LEMMA Phi2Is ==
  ASSUME NEW c, Plain(c), NEW nBatch \in Int
  PROVE  LET s == Phi2Scratch(c, nBatch)
             n == Rows(nBatch)
         IN  Right(s, c, n, c.ffn)
<1> DEFINE s == Phi2Scratch(c, nBatch)
           n == Rows(nBatch)
           m == c.ffn
           u == UngatedBuffers(c, n, m)
           b == OneToken(c)
           e == n * c.emb
           q == n * QDim(c)
           k == n * KVDim(c)
           f == n * m
           r == n * (QDim(c) + 2 * KVDim(c))
           l == <<<<"attnOut", e>>, <<"qkv", r>>>>
           a == u \o l
           w == e + e + q + k + k + q + f
           y == w + (e + r)
           z == c.ctx + c.vocab
<1>1. /\ n \in Nat /\ n \in Nat \ {0} /\ c.emb \in Nat /\ QDim(c) \in Nat /\ KVDim(c) \in Nat /\ m \in Nat
      /\ c.ctx \in Nat /\ c.vocab \in Nat
  BY RowsIs, PlainIs
<1>2. /\ s.buffers = a \o b
      /\ s.need = n * (3 * c.emb + (QDim(c) + 2 * KVDim(c)) + QDim(c) + 2 * KVDim(c) + QDim(c) + m) + c.ctx + 2 * c.vocab
  BY DEF Phi2Scratch
<1>3. /\ s.need = 3 * e + r + 2 * q + 2 * k + f + c.ctx + 2 * c.vocab
      /\ e \in Nat /\ q \in Nat /\ k \in Nat /\ f \in Nat /\ r \in Nat /\ n * 2 * m = 2 * f
      /\ c.emb <= e
  <2> DEFINE u1 == c.emb
             v1 == QDim(c)
             w1 == KVDim(c)
             x1 == m
  <2>1. n \in Nat /\ n > 0 /\ u1 \in Nat /\ v1 \in Nat /\ w1 \in Nat /\ x1 \in Nat
    BY <1>1
  <2> HIDE DEF n, u1, v1, w1, x1
  <2>2. /\ n * (3 * u1 + (v1 + 2 * w1) + v1 + 2 * w1 + v1 + x1)
             = 3 * (n * u1) + n * (v1 + 2 * w1) + 2 * (n * v1) + 2 * (n * w1) + (n * x1)
        /\ n * u1 \in Nat /\ n * v1 \in Nat /\ n * w1 \in Nat /\ n * x1 \in Nat /\ u1 <= n * u1
        /\ n * (v1 + 2 * w1) \in Nat /\ n * 2 * x1 = 2 * (n * x1)
    BY <2>1, Distributes
  <2> QED BY <1>2, <2>2 DEF u1, v1, w1, x1
<1>4. u \in Buffers /\ HasRows(u, c, n, m) /\ Adds(u, w)
  <2> HIDE DEF n, m
  <2> QED BY <1>1, Ungated
<1> HIDE DEF e, q, k, f, r, n, m
<1>5. w \in Nat /\ y \in Nat
  BY <1>3
<1>6. l \in Buffers /\ Adds(l, e + r)
  BY <1>3, NamesAre, TwoBuffers
<1> HIDE DEF u, w, l
<1>7. a \in Buffers /\ Adds(a, y) /\ \A p : Has(u, p) => Has(a, p)
  BY <1>3, <1>4, <1>5, <1>6, Joined
<1>8. HasRows(a, c, n, m)
  BY <1>4, <1>7 DEF HasRows
<1>9. b \in Buffers /\ HasOnce(b, c) /\ Adds(b, z)
  BY <1>1, OneTokenIs
<1>10. s.need \in Nat /\ y \in Nat /\ z \in Nat /\ y + z <= s.need
  BY <1>1, <1>3 DEF w
<1> HIDE DEF a, b, s, y, z
<1>11. Right(s, c, n, m)
  BY <1>2, <1>7, <1>8, <1>9, <1>10, JoinedRight
<1> QED BY <1>11 DEF s, n, f, m

\* The numbers of a configuration with a latent, and the widths made of them.
LEMMA LatentIs ==
  ASSUME NEW c, Latent(c)
  PROVE  /\ c.ctx \in Nat /\ c.emb \in Nat /\ c.ffn \in Nat /\ c.vocab \in Nat /\ c.heads \in Nat
         /\ c.experts \in Nat /\ c.expertFFN \in Nat /\ c.sharedFFN \in Nat /\ "kvLora" \in DOMAIN c
         /\ c.rope \in Nat /\ c.nope \in Nat /\ c.kvLora \in Nat /\ c.qLora \in Nat /\ c.vHead \in Nat
         /\ c.heads * (c.nope + c.rope) \in Nat /\ c.heads * (c.kvLora + c.rope) \in Nat
         /\ c.heads * c.vHead \in Nat /\ c.heads * c.rope \in Nat
<1>1. /\ c["ctx"] \in Nat /\ c["emb"] \in Nat /\ c["ffn"] \in Nat /\ c["vocab"] \in Nat /\ c["heads"] \in Nat
      /\ c["experts"] \in Nat /\ c["expertFFN"] \in Nat /\ c["sharedFFN"] \in Nat
      /\ c["rope"] \in Nat /\ c["nope"] \in Nat /\ c["kvLora"] \in Nat /\ c["qLora"] \in Nat /\ c["vHead"] \in Nat
      /\ "kvLora" \in DOMAIN c
  BY DEF Latent, Numbers, SizeFields, ExpertFields, LatentFields
<1>2. \A a, b \in Nat : a * b \in Nat /\ a + b \in Nat
  OBVIOUS
<1>3. c.nope + c.rope \in Nat /\ c.kvLora + c.rope \in Nat
  BY <1>1, <1>2
<1>4. /\ c.heads * (c.nope + c.rope) \in Nat /\ c.heads * (c.kvLora + c.rope) \in Nat
      /\ c.heads * c.vHead \in Nat /\ c.heads * c.rope \in Nat
  BY <1>1, <1>2, <1>3
<1> QED BY <1>1, <1>4

\* deepseek2, whose arena may have to grow: what its one row needs is there.
LEMMA Deepseek2Is ==
  ASSUME NEW c, Latent(c)
  PROVE  LET s == Deepseek2Scratch(c)
             b == s.buffers
         IN  /\ s.need \in Nat /\ b \in Buffers /\ HasOnce(b, c) /\ Has(b, <<"router", NExp(c)>>)
             /\ Has(b, <<"x", c.emb>>) /\ Has(b, <<"h", c.emb>>) /\ Has(b, <<"q", c.heads * (c.nope + c.rope)>>)
             /\ Has(b, <<"k", c.kvLora + c.rope>>) /\ Has(b, <<"v", c.kvLora>>)
             /\ Has(b, <<"attn", c.heads * c.vHead>>) /\ Has(b, <<"gate", MaxFFN(c)>>) /\ Has(b, <<"up", MaxFFN(c)>>)
<1> DEFINE e == c.emb
           full == c.heads * (c.nope + c.rope)
           abs == c.kvLora + c.rope
           habs == c.heads * abs
           kl == c.kvLora
           vh == c.heads * c.vHead
           pack == c.heads * c.rope
           m == MaxFFN(c)
           lora == Max({c.qLora, 1})
           kvExp == c.nope + c.vHead
           rope == c.rope
           ctx == c.ctx
           ex == NExp(c)
           vocab == c.vocab
           u1 == <<<<"x", e>>, <<"h", e>>, <<"q", full>>, <<"qAbs", habs>>, <<"qRope", full>>,
                   <<"kvPe", abs>>, <<"k", abs>>>>
           u2 == <<<<"v", kl>>, <<"kMHA", full>>, <<"vMHA", vh>>, <<"pePack", pack>>, <<"attn", vh>>,
                   <<"gate", m>>, <<"up", m>>>>
           u == u1 \o u2
           o == MoEBuffers(c)
           l == <<<<"qLora", lora>>, <<"qPe", rope>>, <<"kvExp", kvExp>>>>
           need == 4 * e + 2 * full + habs + abs + kl + full + vh + pack + vh
                   + ctx + 2 * m + ex + lora + vocab + abs + kvExp
           s == Deepseek2Scratch(c)
<1>1. /\ e \in Nat /\ full \in Nat /\ habs \in Nat /\ kl \in Nat /\ vh \in Nat /\ pack \in Nat
      /\ rope \in Nat /\ ctx \in Nat /\ vocab \in Nat /\ c.nope \in Nat /\ c.vHead \in Nat /\ c.qLora \in Nat
  BY LatentIs
<1>2. m \in Nat /\ ex \in Nat
  BY LatentIs, WidestIs
<1>3. lora \in Nat
  <2>1. c.qLora \in Int /\ 1 \in Int
    BY <1>1
  <2>2. Max({c.qLora, 1}) \in {c.qLora, 1}
    BY <2>1, MaxIs, Zenon
  <2> QED BY <1>1, <2>2
<1>4. abs \in Nat /\ kvExp \in Nat
  BY <1>1
<1>5. s.need = need /\ s.buffers = (u \o o) \o l
  BY DEF Deepseek2Scratch
<1>6. o \in Buffers /\ HasOnce(o, c) /\ Has(o, <<"router", ex>>)
  BY <1>1, <1>2, MoEIs
<1> HIDE DEF e, full, abs, habs, kl, vh, pack, m, lora, kvExp, rope, ctx, ex, vocab, o
<1>7. need \in Nat
  BY <1>1, <1>2, <1>3, <1>4
<1>8. /\ u1 \in Buffers /\ Has(u1, <<"x", e>>) /\ Has(u1, <<"h", e>>) /\ Has(u1, <<"q", full>>) /\ Has(u1, <<"k", abs>>)
  <2> DEFINE p1 == <<"x", e>>
             p2 == <<"h", e>>
             p3 == <<"q", full>>
             p4 == <<"qAbs", habs>>
             p5 == <<"qRope", full>>
             p6 == <<"kvPe", abs>>
             p7 == <<"k", abs>>
  <2>1. /\ p1[2] = e /\ p2[2] = e /\ p3[2] = full /\ p4[2] = habs /\ p5[2] = full /\ p6[2] = abs /\ p7[2] = abs
    OBVIOUS
  <2>2. u1 = <<p1, p2, p3, p4, p5, p6, p7>>
    OBVIOUS
  <2>3. /\ p1 \in Space /\ p2 \in Space /\ p3 \in Space /\ p4 \in Space
        /\ p5 \in Space /\ p6 \in Space /\ p7 \in Space
    BY <1>1, <1>2, <1>4, NamesAre DEF Space
  <2> HIDE DEF p1, p2, p3, p4, p5, p6, p7, u1
  <2>4. /\ u1 \in Buffers
        /\ Has(u1, p1) /\ Has(u1, p2) /\ Has(u1, p3) /\ Has(u1, p4) /\ Has(u1, p5) /\ Has(u1, p6) /\ Has(u1, p7)
    BY <2>2, <2>3, SevenBuffers
  <2> QED BY <2>4 DEF p1, p2, p3, p4, p5, p6, p7
<1>9. /\ u2 \in Buffers /\ Has(u2, <<"v", kl>>) /\ Has(u2, <<"attn", vh>>)
      /\ Has(u2, <<"gate", m>>) /\ Has(u2, <<"up", m>>)
  <2> DEFINE p1 == <<"v", kl>>
             p2 == <<"kMHA", full>>
             p3 == <<"vMHA", vh>>
             p4 == <<"pePack", pack>>
             p5 == <<"attn", vh>>
             p6 == <<"gate", m>>
             p7 == <<"up", m>>
  <2>1. /\ p1[2] = kl /\ p2[2] = full /\ p3[2] = vh /\ p4[2] = pack /\ p5[2] = vh /\ p6[2] = m /\ p7[2] = m
    OBVIOUS
  <2>2. u2 = <<p1, p2, p3, p4, p5, p6, p7>>
    OBVIOUS
  <2>3. /\ p1 \in Space /\ p2 \in Space /\ p3 \in Space /\ p4 \in Space
        /\ p5 \in Space /\ p6 \in Space /\ p7 \in Space
    BY <1>1, <1>2, <1>4, NamesAre DEF Space
  <2> HIDE DEF p1, p2, p3, p4, p5, p6, p7, u2
  <2>4. /\ u2 \in Buffers
        /\ Has(u2, p1) /\ Has(u2, p2) /\ Has(u2, p3) /\ Has(u2, p4) /\ Has(u2, p5) /\ Has(u2, p6) /\ Has(u2, p7)
    BY <2>2, <2>3, SevenBuffers
  <2> QED BY <2>4 DEF p1, p2, p3, p4, p5, p6, p7
<1> HIDE DEF u1, u2
<1>10. /\ u \in Buffers /\ Has(u, <<"x", e>>) /\ Has(u, <<"h", e>>) /\ Has(u, <<"q", full>>) /\ Has(u, <<"k", abs>>)
      /\ Has(u, <<"v", kl>>) /\ Has(u, <<"attn", vh>>) /\ Has(u, <<"gate", m>>) /\ Has(u, <<"up", m>>)
  BY <1>8, <1>9, Joined
<1>11. l \in Buffers
  BY <1>1, <1>3, <1>4, NamesAre, ThreeBuffers
<1> HIDE DEF u, l, need, s
<1> DEFINE b == s.buffers
<1>12. u \o o \in Buffers /\ \A p : Has(u, p) \/ Has(o, p) => Has(u \o o, p)
  BY <1>6, <1>10, Joined
<1>13. b \in Buffers /\ \A p : Has(u \o o, p) => Has(b, p)
  <2> DEFINE w == u \o o
  <2>1. w \in Buffers /\ b = w \o l
    BY <1>5, <1>12
  <2> HIDE DEF w, b
  <2> QED BY <1>11, <2>1, Joined DEF w
<1> HIDE DEF b
<1>14. /\ Has(b, <<"x", e>>) /\ Has(b, <<"h", e>>) /\ Has(b, <<"q", full>>) /\ Has(b, <<"k", abs>>)
       /\ Has(b, <<"v", kl>>) /\ Has(b, <<"attn", vh>>) /\ Has(b, <<"gate", m>>) /\ Has(b, <<"up", m>>)
       /\ HasOnce(b, c) /\ Has(b, <<"router", ex>>)
  BY <1>6, <1>10, <1>12, <1>13, Zenon DEF HasOnce
<1>15. s.need \in Nat
  BY <1>5, <1>7
<1> QED BY <1>13, <1>14, <1>15 DEF b, s, e, full, abs, kl, vh, m, ex

-----------------------------------------------------------------------------
(* What the layers need, and what they get.                                  *)
Moe(c) == \E l \in 0..(c.layers - 1) : IsMoELayer(c, l)
Widest(c) ==
  Max({0} \cup (IF \E l \in 0..(c.layers - 1) : ~IsMoELayer(c, l) THEN {c.ffn} ELSE {})
          \cup (IF Moe(c) THEN {ExpertFFN(c), c.sharedFFN} ELSE {}))

\* The largest of a set is one of it.
LEMMA MaxIsOne ==
  ASSUME NEW S \in SUBSET Int, \E x \in S : \A y \in S : x >= y
  PROVE  Max(S) \in S
BY DEF Max

\* The widest feed-forward layer is what the buffers are made for.
LEMMA WidestFits ==
  ASSUME NEW c, c.ffn \in Nat, c.experts \in Nat, c.expertFFN \in Nat, c.sharedFFN \in Nat
  PROVE  /\ Widest(c) \in Nat /\ Widest(c) <= MaxFFN(c)
         /\ c.experts = 0 => Widest(c) <= c.ffn /\ ~Moe(c)
<1> DEFINE x == c.ffn
           y == ExpertFFN(c)
           z == c.sharedFFN
           A == IF \E l \in 0..(c.layers - 1) : ~IsMoELayer(c, l) THEN {x} ELSE {}
           B == IF Moe(c) THEN {y, z} ELSE {}
           S == {0} \cup A \cup B
<1>1. x \in Nat /\ y \in Nat /\ z \in Nat /\ MaxFFN(c) \in Nat /\ MaxFFN(c) >= x /\ MaxFFN(c) >= y /\ MaxFFN(c) >= z
  BY WidestIs
<1>2. c.experts = 0 => ~Moe(c)
  BY DEF Moe, IsMoELayer
<1>3. Widest(c) = Max(S)
  BY DEF Widest
<1> HIDE DEF x, y, z
<1>4. A \in {{}, {x}} /\ B \in {{}, {y, z}} /\ (~Moe(c) => B = {})
  OBVIOUS
<1> HIDE DEF A, B
<1>5. S \in SUBSET Nat /\ \E u \in S : \A v \in S : u >= v
  <2>1. S \in SUBSET Nat
    BY <1>1, <1>4
  <2>2. CASE A = {} /\ B = {}
    BY <2>2
  <2>3. CASE A = {x} /\ B = {}
    BY <1>1, <2>3
  <2>4. CASE A = {} /\ B = {y, z}
    BY <1>1, <2>4
  <2>5. CASE A = {x} /\ B = {y, z}
    BY <1>1, <2>5
  <2> QED BY <1>4, <2>1, <2>2, <2>3, <2>4, <2>5
<1>6. Max(S) \in S
  <2>1. S \in SUBSET Int
    BY <1>5
  <2> HIDE DEF S
  <2> QED BY <1>5, <2>1, MaxIsOne
<1>7. Max(S) \in {0, x, y, z} /\ (B = {} => Max(S) \in {0, x})
  BY <1>4, <1>6
<1> HIDE DEF S
<1> QED BY <1>1, <1>2, <1>3, <1>4, <1>7 DEF x

\* A buffer that is given is one that can be used.
RoomIn(a, name, n) == n <= 0 \/ \E g \in ToSet(a.given) : g.name = name /\ g.to - g.from >= n

\* What the list of a scratch names, its arena has room for.
LEMMA ArenaRoom ==
  ASSUME NEW s, s.need \in Nat, s.buffers \in Buffers
  PROVE  LET a == Allocated(s)
         IN  /\ \A name : \A n, z \in Nat : Has(s.buffers, <<name, z>>) /\ n <= z => RoomIn(a, name, n)
             /\ \A i, j \in DOMAIN a.given : i < j => a.given[i].to <= a.given[j].from
             /\ Enough(s) => a.slab = 0
<1> DEFINE b == s.buffers
           m == Len(b)
           a == Allocated(s)
           given == a.given
<1>1. /\ given \in Seq(Slices)
      /\ \A k, l \in DOMAIN given : k < l => given[k].to <= given[l].from
      /\ \A k \in 1..m : b[k][2] = 0 \/ \E l \in DOMAIN given : /\ given[l].name = b[k][1]
                                                                  /\ given[l].to - given[l].from = b[k][2]
      /\ \E t : /\ t[0] = 0
                /\ \A k \in 1..m : t[k] \in Nat /\ t[k] = t[k - 1] + b[k][2]
                /\ t[m] <= s.need => a.slab = 0
  BY ArenaHolds
<1>2. m \in Nat
  BY DEF Buffers
<1> HIDE DEF a, m, b
<1>3. ASSUME NEW name, NEW n \in Nat, NEW z \in Nat, Has(b, <<name, z>>), n <= z PROVE RoomIn(a, name, n)
  <2>1. PICK k \in 1..m : b[k] = <<name, z>>
    BY <1>3 DEF Has, m
  <2>2. b[k][1] = name /\ b[k][2] = z
    BY <2>1
  <2>3. CASE z = 0
    BY <1>3, <2>3 DEF RoomIn
  <2>4. CASE z # 0
    <3>1. PICK l \in DOMAIN given : given[l].name = name /\ given[l].to - given[l].from = z
      BY <1>1, <2>2, <2>4
    <3>2. given[l] \in ToSet(given)
      BY <3>1 DEF ToSet
    <3> QED BY <1>3, <3>1, <3>2 DEF RoomIn
  <2> QED BY <2>3, <2>4
<1>4. ASSUME Enough(s) PROVE a.slab = 0
  <2>1. PICK z \in Nat : Adds(b, z) /\ z <= s.need
    BY <1>4 DEF Enough, b
  <2>2. PICK t : /\ t[0] = 0
                 /\ \A k \in 1..m : t[k] \in Nat /\ t[k] = t[k - 1] + b[k][2]
                 /\ t[m] <= s.need => a.slab = 0
    BY <1>1
  <2>3. 0 \in Nat /\ t[0] \in Nat /\ \A k \in 1..m : 0 + k = k /\ 0 + (k - 1) = k - 1
    BY <2>2
  <2>4. \A k \in 1..Len(b) : t[0 + k] = t[0 + (k - 1)] + b[k][2]
    BY <2>2, <2>3 DEF m
  <2>5. t[0 + Len(b)] = t[0] + z
    BY <2>1, <2>3, <2>4 DEF Adds
  <2>6. t[m] = z
    BY <1>2, <2>1, <2>2, <2>5 DEF m
  <2> QED BY <2>1, <2>2, <2>6
<1> QED BY <1>1, <1>3, <1>4 DEF a, b

\* More columns make more of a matrix.
LEMMA TimesGrows ==
  ASSUME NEW n \in Nat, NEW a \in Nat, NEW b \in Nat, a <= b
  PROVE  n * a \in Nat /\ n * b \in Nat /\ n * a <= n * b
<1>1. n * (b - a) >= 0 /\ n * (b - a) = n * b - n * a /\ n * a \in Nat /\ n * b \in Nat
  OBVIOUS
<1> QED BY <1>1

\* The buffers of every loader but deepseek2's.
LEMMA ScratchIs ==
  ASSUME NEW loader, NEW c, Plain(c), NEW nBatch \in Int, loader # "deepseek2",
         loader \in DenseLoaders => c.experts = 0
  PROVE  LET s == Scratch(loader, c, nBatch)
             n == Rows(nBatch)
         IN  \E m \in Nat : /\ Right(s, c, n, m) /\ Widest(c) <= m
                            /\ loader # "phi2" => Has(s.buffers, <<"gate", n * m>>)
                            /\ Moe(c) => Has(s.buffers, <<"router", NExp(c)>>)
<1> DEFINE s == Scratch(loader, c, nBatch)
           n == Rows(nBatch)
           Wanted(m) == /\ Right(s, c, n, m) /\ Widest(c) <= m
                        /\ loader # "phi2" => Has(s.buffers, <<"gate", n * m>>)
                        /\ Moe(c) => Has(s.buffers, <<"router", NExp(c)>>)
<1>1. c.ffn \in Nat /\ c.experts \in Nat /\ c.expertFFN \in Nat /\ c.sharedFFN \in Nat
  BY PlainIs
<1>2. MaxFFN(c) \in Nat /\ Widest(c) <= MaxFFN(c) /\ (c.experts = 0 => Widest(c) <= c.ffn /\ ~Moe(c))
  BY <1>1, WidestIs, WidestFits
<1>3. CASE loader \in {"llama", "gemma", "gemma2"}
  <2>1. s = LlamaScratch(c, nBatch) /\ loader \in DenseLoaders /\ loader # "phi2"
    BY <1>3 DEF Scratch, GemmaScratch, DenseLoaders
  <2>2. Right(s, c, n, c.ffn) /\ Has(s.buffers, <<"gate", n * c.ffn>>)
    BY <2>1, LlamaIs
  <2>3. Wanted(c.ffn)
    BY <1>2, <2>1, <2>2
  <2> QED BY <1>1, <2>3
<1>4. CASE loader = "phi2"
  <2>1. s = Phi2Scratch(c, nBatch) /\ loader \in DenseLoaders
    BY <1>4 DEF Scratch, DenseLoaders
  <2>2. Right(s, c, n, c.ffn)
    BY <2>1, Phi2Is
  <2>3. Wanted(c.ffn)
    BY <1>2, <1>4, <2>1, <2>2
  <2> QED BY <1>1, <2>3
<1>5. CASE loader = "phi3"
  <2>1. s = Phi3Scratch(c, nBatch) /\ loader \in DenseLoaders
    BY <1>5 DEF Scratch, DenseLoaders
  <2>2. Right(s, c, n, c.ffn) /\ Has(s.buffers, <<"gate", n * c.ffn>>)
    BY <2>1, Phi3Is
  <2>3. Wanted(c.ffn)
    BY <1>2, <2>1, <2>2
  <2> QED BY <1>1, <2>3
<1>6. CASE loader \in {"qwen3", "qwen3moe"}
  <2>1. s = Qwen3Scratch(c, nBatch)
    BY <1>6 DEF Scratch
  <2>2. Right(s, c, n, MaxFFN(c)) /\ Has(s.buffers, <<"gate", n * MaxFFN(c)>>) /\ Has(s.buffers, <<"router", NExp(c)>>)
    BY <2>1, Qwen3Is
  <2>3. Wanted(MaxFFN(c))
    BY <1>2, <2>2
  <2> QED BY <1>2, <2>3
<1>7. CASE loader \notin {"llama", "gemma", "gemma2", "phi2", "phi3", "qwen3", "qwen3moe"}
  <2>1. s = MistralScratch(c, nBatch)
    BY <1>7 DEF Scratch, DeepseekScratch
  <2>2. Right(s, c, n, MaxFFN(c)) /\ Has(s.buffers, <<"gate", n * MaxFFN(c)>>) /\ Has(s.buffers, <<"router", NExp(c)>>)
    BY <2>1, MistralIs
  <2>3. Wanted(MaxFFN(c))
    BY <1>2, <2>2
  <2> QED BY <1>2, <2>3
<1> QED BY <1>3, <1>4, <1>5, <1>6, <1>7

\* What ScratchFits and BuffersApart say of one model.
FitsWork(loader, c, rows, a) ==
  LET w == Work(loader, c)
  IN  /\ \A b \in DOMAIN w.row : RoomIn(a, b, rows * w.row[b])
      /\ \A b \in DOMAIN w.once : RoomIn(a, b, w.once[b])

RowNames == {"x", "h", "q", "gate", "up", "k", "v", "attn"}
OnceNames == {"scores", "logits", "router"}

\* The widths of Work, one by one.
LEMMA WorkIs ==
  ASSUME NEW loader, NEW c
  PROVE  LET w == Work(loader, c)
             latent == "kvLora" \in DOMAIN c
         IN  /\ DOMAIN w.row = RowNames /\ DOMAIN w.once = OnceNames
             /\ w.row["x"] = c.emb /\ w.row["h"] = c.emb
             /\ w.row["gate"] = (IF loader = "phi2" THEN 0 ELSE Widest(c)) /\ w.row["up"] = Widest(c)
             /\ latent => /\ w.row["q"] = c.heads * (c.nope + c.rope) /\ w.row["k"] = c.kvLora + c.rope
                          /\ w.row["v"] = c.kvLora /\ w.row["attn"] = c.heads * c.vHead
             /\ ~latent => /\ w.row["q"] = QDim(c) /\ w.row["k"] = KVDim(c)
                           /\ w.row["v"] = KVDim(c) /\ w.row["attn"] = QDim(c)
             /\ w.once["scores"] = c.ctx /\ w.once["logits"] = c.vocab
             /\ w.once["router"] = (IF Moe(c) THEN c.experts ELSE 0)
<1> DEFINE latent == "kvLora" \in DOMAIN c
           head == IF latent THEN c.nope + c.rope ELSE c.headDim
           f == Widest(c)
           row == [x |-> c.emb, h |-> c.emb, q |-> c.heads * head, gate |-> IF loader = "phi2" THEN 0 ELSE f, up |-> f,
                   k |-> IF latent THEN c.kvLora + c.rope ELSE c.kvHeads * head,
                   v |-> IF latent THEN c.kvLora ELSE c.kvHeads * head,
                   attn |-> c.heads * (IF latent THEN c.vHead ELSE head)]
           once == [scores |-> c.ctx, logits |-> c.vocab, router |-> IF Moe(c) THEN c.experts ELSE 0]
           w == Work(loader, c)
<1>1. w = [row |-> row, once |-> once]
  BY DEF Work, Widest, Moe
<1> HIDE DEF f
<1>2. DOMAIN row = RowNames /\ DOMAIN once = OnceNames
  BY DEF RowNames, OnceNames
<1>3. w.row = row /\ w.once = once
  BY <1>1
<1>4. /\ row["x"] = c.emb /\ row["h"] = c.emb
      /\ row["gate"] = (IF loader = "phi2" THEN 0 ELSE f) /\ row["up"] = f
      /\ once["scores"] = c.ctx /\ once["logits"] = c.vocab
      /\ once["router"] = (IF Moe(c) THEN c.experts ELSE 0)
  OBVIOUS
<1>5. latent => /\ row["q"] = c.heads * (c.nope + c.rope) /\ row["k"] = c.kvLora + c.rope
                /\ row["v"] = c.kvLora /\ row["attn"] = c.heads * c.vHead
  OBVIOUS
<1>6. ~latent => /\ row["q"] = QDim(c) /\ row["k"] = KVDim(c) /\ row["v"] = KVDim(c) /\ row["attn"] = QDim(c)
  BY DEF QDim, KVDim
<1> HIDE DEF row, once, w
<1> QED BY <1>2, <1>3, <1>4, <1>5, <1>6 DEF w, f

\* Without a latent the arena holds the work, and what was asked for is enough.
LEMMA PlainFits ==
  ASSUME NEW loader, NEW c, Plain(c), NEW nBatch \in Int, loader # "deepseek2",
         loader \in DenseLoaders => c.experts = 0
  PROVE  LET s == Scratch(loader, c, nBatch)
         IN  Enough(s) /\ FitsWork(loader, c, Rows(nBatch), Allocated(s))
<1> DEFINE s == Scratch(loader, c, nBatch)
           n == Rows(nBatch)
           a == Allocated(s)
           b == s.buffers
           w == Work(loader, c)
           f == Widest(c)
           q == QDim(c)
           k == KVDim(c)
<1>1. PICK m \in Nat : /\ Right(s, c, n, m) /\ f <= m
                       /\ loader # "phi2" => Has(b, <<"gate", n * m>>)
                       /\ Moe(c) => Has(b, <<"router", NExp(c)>>)
  BY ScratchIs
<1>2. /\ c.emb \in Nat /\ q \in Nat /\ k \in Nat /\ c.ctx \in Nat /\ c.vocab \in Nat
      /\ c.ffn \in Nat /\ c.experts \in Nat /\ c.expertFFN \in Nat /\ c.sharedFFN \in Nat
  BY PlainIs
<1>3. f \in Nat /\ NExp(c) \in Nat /\ c.experts <= NExp(c)
  BY <1>2, WidestFits, WidestIs
<1>4. n \in Nat
  BY RowsIs
<1>5. "kvLora" \notin DOMAIN c
  BY DEF Plain
<1>6. /\ DOMAIN w.row = RowNames /\ DOMAIN w.once = OnceNames
      /\ w.row["x"] = c.emb /\ w.row["h"] = c.emb /\ w.row["up"] = f
      /\ w.row["gate"] = (IF loader = "phi2" THEN 0 ELSE f)
      /\ w.row["q"] = q /\ w.row["k"] = k /\ w.row["v"] = k /\ w.row["attn"] = q
      /\ w.once["scores"] = c.ctx /\ w.once["logits"] = c.vocab
      /\ w.once["router"] = (IF Moe(c) THEN c.experts ELSE 0)
  BY <1>5, WorkIs
<1>7. /\ s.need \in Nat /\ b \in Buffers /\ Enough(s)
      /\ Has(b, <<"x", n * c.emb>>) /\ Has(b, <<"h", n * c.emb>>) /\ Has(b, <<"q", n * q>>)
      /\ Has(b, <<"k", n * k>>) /\ Has(b, <<"v", n * k>>) /\ Has(b, <<"attn", n * q>>) /\ Has(b, <<"up", n * m>>)
      /\ Has(b, <<"scores", c.ctx>>) /\ Has(b, <<"logits", c.vocab>>)
  BY <1>1 DEF Right, Enough, HasRows, HasOnce
<1>8. \A name : \A i, z \in Nat : Has(b, <<name, z>>) /\ i <= z => RoomIn(a, name, i)
  BY <1>7, ArenaRoom
<1>9. n * f <= n * m /\ n * f \in Nat /\ n * m \in Nat
  BY <1>1, <1>3, <1>4, TimesGrows
<1>10. /\ n * c.emb \in Nat /\ n * q \in Nat /\ n * k \in Nat
       /\ n * c.emb <= n * c.emb /\ n * q <= n * q /\ n * k <= n * k
  <2> DEFINE e == c.emb
  <2>1. e \in Nat /\ q \in Nat /\ k \in Nat
    BY <1>2
  <2> HIDE DEF e, q, k, n
  <2>2. n * e \in Nat /\ n * q \in Nat /\ n * k \in Nat
    BY <1>4, <2>1, TimesGrows
  <2>3. n * e <= n * e /\ n * q <= n * q /\ n * k <= n * k
    BY <2>2
  <2> QED BY <2>2, <2>3 DEF e
<1> HIDE DEF s, n, a, b, w, f, q, k
<1>11. /\ RoomIn(a, "x", n * c.emb) /\ RoomIn(a, "h", n * c.emb) /\ RoomIn(a, "q", n * q) /\ RoomIn(a, "k", n * k)
       /\ RoomIn(a, "v", n * k) /\ RoomIn(a, "attn", n * q)
  BY <1>7, <1>8, <1>10, Zenon
<1>12. RoomIn(a, "up", n * f) /\ (loader # "phi2" => RoomIn(a, "gate", n * f))
  BY <1>1, <1>7, <1>8, <1>9, Zenon
<1>13. RoomIn(a, "gate", n * 0)
  <2>1. n * 0 = 0
    BY <1>4
  <2> QED BY <2>1 DEF RoomIn
<1>14. RoomIn(a, "scores", c.ctx) /\ RoomIn(a, "logits", c.vocab)
  <2>1. c.ctx <= c.ctx /\ c.vocab <= c.vocab
    BY <1>2
  <2> QED BY <1>2, <1>7, <1>8, <2>1, Zenon
<1>15. RoomIn(a, "router", IF Moe(c) THEN c.experts ELSE 0)
  <2>1. CASE Moe(c)
    <3>1. RoomIn(a, "router", c.experts)
      BY <1>1, <1>2, <1>3, <1>8, <2>1, Zenon
    <3> QED BY <2>1, <3>1
  <2>2. CASE ~Moe(c)
    BY <2>2 DEF RoomIn
  <2> QED BY <2>1, <2>2
<1>16. ASSUME NEW i \in RowNames PROVE RoomIn(a, i, n * w.row[i])
  <2>1. CASE i = "gate"
    BY <1>6, <1>12, <1>13, <2>1
  <2>2. CASE i # "gate"
    BY <1>6, <1>11, <1>12, <2>2 DEF RowNames
  <2> QED BY <2>1, <2>2
<1>17. ASSUME NEW i \in OnceNames PROVE RoomIn(a, i, w.once[i])
  BY <1>6, <1>14, <1>15 DEF OnceNames
<1> QED BY <1>6, <1>7, <1>16, <1>17 DEF FitsWork, s, n, a, w

\* With one it holds the work of one row.
LEMMA LatentFits ==
  ASSUME NEW c, Latent(c), NEW nBatch
  PROVE  LET s == Scratch("deepseek2", c, nBatch)
         IN  s.need \in Nat /\ s.buffers \in Buffers /\ FitsWork("deepseek2", c, 1, Allocated(s))
<1> DEFINE s == Scratch("deepseek2", c, nBatch)
           a == Allocated(s)
           b == s.buffers
           w == Work("deepseek2", c)
           f == Widest(c)
           q == c.heads * (c.nope + c.rope)
           k == c.kvLora + c.rope
           v == c.kvLora
           o == c.heads * c.vHead
<1>1. s = Deepseek2Scratch(c)
  BY DEF Scratch
<1>2. /\ s.need \in Nat /\ b \in Buffers
      /\ Has(b, <<"x", c.emb>>) /\ Has(b, <<"h", c.emb>>) /\ Has(b, <<"q", q>>)
      /\ Has(b, <<"k", k>>) /\ Has(b, <<"v", v>>) /\ Has(b, <<"attn", o>>)
      /\ Has(b, <<"gate", MaxFFN(c)>>) /\ Has(b, <<"up", MaxFFN(c)>>)
      /\ Has(b, <<"scores", c.ctx>>) /\ Has(b, <<"logits", c.vocab>>) /\ Has(b, <<"router", NExp(c)>>)
  BY <1>1, Deepseek2Is DEF HasOnce
<1>3. /\ c.emb \in Nat /\ q \in Nat /\ k \in Nat /\ v \in Nat /\ o \in Nat /\ c.ctx \in Nat /\ c.vocab \in Nat
      /\ c.ffn \in Nat /\ c.experts \in Nat /\ c.expertFFN \in Nat /\ c.sharedFFN \in Nat
  <2>1. c.kvLora \in Nat /\ c.rope \in Nat
    BY LatentIs
  <2>2. c.kvLora + c.rope \in Nat
    BY <2>1
  <2> QED BY <2>2, LatentIs
<1>4. "kvLora" \in DOMAIN c
  BY LatentIs
<1>5. f \in Nat /\ f <= MaxFFN(c) /\ MaxFFN(c) \in Nat /\ NExp(c) \in Nat /\ c.experts <= NExp(c)
  BY <1>3, WidestFits, WidestIs
<1>6. /\ DOMAIN w.row = RowNames /\ DOMAIN w.once = OnceNames
      /\ w.row["x"] = c.emb /\ w.row["h"] = c.emb /\ w.row["up"] = f /\ w.row["gate"] = f
      /\ w.row["q"] = q /\ w.row["k"] = k /\ w.row["v"] = v /\ w.row["attn"] = o
      /\ w.once["scores"] = c.ctx /\ w.once["logits"] = c.vocab
      /\ w.once["router"] = (IF Moe(c) THEN c.experts ELSE 0)
  BY <1>4, WorkIs
<1>7. \A name : \A i, z \in Nat : Has(b, <<name, z>>) /\ i <= z => RoomIn(a, name, i)
  BY <1>2, ArenaRoom
<1> HIDE DEF s, a, b, w, f, q, k, v, o
<1>8. \A i \in Nat : i <= i /\ 1 * i = i
  OBVIOUS
<1>9. /\ RoomIn(a, "x", c.emb) /\ RoomIn(a, "h", c.emb) /\ RoomIn(a, "q", q) /\ RoomIn(a, "k", k)
      /\ RoomIn(a, "v", v) /\ RoomIn(a, "attn", o) /\ RoomIn(a, "scores", c.ctx) /\ RoomIn(a, "logits", c.vocab)
  BY <1>2, <1>3, <1>7, <1>8, Zenon
<1>10. RoomIn(a, "up", f) /\ RoomIn(a, "gate", f)
  BY <1>2, <1>5, <1>7, Zenon
<1>11. RoomIn(a, "router", IF Moe(c) THEN c.experts ELSE 0)
  <2>1. CASE Moe(c)
    <3>1. RoomIn(a, "router", c.experts)
      BY <1>2, <1>3, <1>5, <1>7, Zenon
    <3> QED BY <2>1, <3>1
  <2>2. CASE ~Moe(c)
    BY <2>2 DEF RoomIn
  <2> QED BY <2>1, <2>2
<1>12. ASSUME NEW i \in RowNames PROVE RoomIn(a, i, 1 * w.row[i])
  <2>1. w.row[i] \in Nat /\ RoomIn(a, i, w.row[i])
    BY <1>3, <1>5, <1>6, <1>9, <1>10 DEF RowNames
  <2>2. 1 * w.row[i] = w.row[i]
    BY <1>8, <2>1
  <2> QED BY <2>1, <2>2
<1>13. ASSUME NEW i \in OnceNames PROVE RoomIn(a, i, w.once[i])
  BY <1>6, <1>9, <1>11 DEF OnceNames
<1> QED BY <1>2, <1>6, <1>12, <1>13 DEF FitsWork, s, a, b, w

-----------------------------------------------------------------------------
(* A loaded model.                                                           *)
Loaded(in) ==
  LET p == Parse(Loader(in.file), in.file.md)
  IN  IF p.outcome # "config" THEN p
      ELSE With(p, [arena |-> Allocated(Scratch(Loader(in.file), p.cfg, in.nBatch))])

\* The answer to LoadModel when the model is accepted.
LEMMA LoadedIs ==
  ASSUME NEW in, in.file.md \in [DOMAIN in.file.md -> Nat], in.nBatch \in Int, Loaded(in).outcome = "config"
  PROVE  LET loader == Loader(in.file)
             m == Loaded(in)
         IN  /\ m.arena = Allocated(Scratch(loader, m.cfg, in.nBatch))
             /\ IF loader = "deepseek2" THEN Latent(m.cfg) ELSE Plain(m.cfg)
             /\ loader \in DenseLoaders => m.cfg.experts = 0
<1> DEFINE loader == Loader(in.file)
           m == Loaded(in)
           p == Parse(loader, in.file.md)
           a == Allocated(Scratch(loader, p.cfg, in.nBatch))
           g == [arena |-> a]
<1>1. /\ loader \in DenseLoaders => IsDense(p)
      /\ loader = "deepseek2" => IsLatent(p)
      /\ loader # "deepseek2" => IsPlain(p)
  BY ParseIs
<1>2. p.outcome = "config" /\ m = With(p, g)
  BY DEF Loaded
<1> HIDE DEF loader, m, p, a
<1>3. DOMAIN p = {"outcome", "cfg"}
  BY <1>1, <1>2 DEF IsLatent, IsPlain
<1>4. DOMAIN g = {"arena"} /\ g["arena"] = a
  OBVIOUS
<1>5. m["cfg"] = p["cfg"] /\ m["arena"] = g["arena"]
  <2>1. "cfg" \in DOMAIN p /\ "arena" \in DOMAIN g \ DOMAIN p
    BY <1>3, <1>4
  <2> HIDE DEF g
  <2>2. /\ \A k \in DOMAIN p : With(p, g)[k] = p[k]
        /\ \A k \in DOMAIN g \ DOMAIN p : With(p, g)[k] = g[k]
    BY MergeIs, Zenon
  <2> QED BY <1>2, <2>1, <2>2
<1>6. m.cfg = p.cfg /\ m.arena = a
  BY <1>4, <1>5
<1>7. /\ IF loader = "deepseek2" THEN Latent(p.cfg) ELSE Plain(p.cfg)
      /\ loader \in DenseLoaders => p.cfg.experts = 0
  BY <1>1, <1>2 DEF IsDense, IsLatent, IsPlain
<1> QED BY <1>6, <1>7 DEF a, loader, m

\* Its arena holds the work of its layers, in slices that follow each other.
LEMMA LoadedFits ==
  ASSUME NEW in, in.file.md \in [DOMAIN in.file.md -> Nat], in.nBatch \in Int, Loaded(in).outcome = "config"
  PROVE  LET loader == Loader(in.file)
             m == Loaded(in)
             rows == IF loader = "deepseek2" THEN 1 ELSE Rows(in.nBatch)
         IN  /\ FitsWork(loader, m.cfg, rows, m.arena)
             /\ \A i, j \in DOMAIN m.arena.given : i < j => m.arena.given[i].to <= m.arena.given[j].from
             /\ loader # "deepseek2" => m.arena.slab = 0
<1> DEFINE loader == Loader(in.file)
           m == Loaded(in)
           c == m.cfg
           s == Scratch(loader, c, in.nBatch)
<1>1. /\ m.arena = Allocated(s)
      /\ IF loader = "deepseek2" THEN Latent(c) ELSE Plain(c)
      /\ loader \in DenseLoaders => c.experts = 0
  BY LoadedIs
<1> HIDE DEF m, c
<1>2. CASE loader = "deepseek2"
  <2>1. Latent(c) /\ s = Scratch("deepseek2", c, in.nBatch)
    BY <1>1, <1>2
  <2>2. s.need \in Nat /\ s.buffers \in Buffers /\ FitsWork("deepseek2", c, 1, Allocated(s))
    BY <2>1, LatentFits
  <2> HIDE DEF s
  <2>3. LET a == Allocated(s) IN \A i, j \in DOMAIN a.given : i < j => a.given[i].to <= a.given[j].from
    BY <2>2, ArenaRoom
  <2> QED BY <1>1, <1>2, <2>2, <2>3 DEF m, c
<1>3. CASE loader # "deepseek2"
  <2>1. Enough(s) /\ FitsWork(loader, c, Rows(in.nBatch), Allocated(s))
    BY <1>1, <1>3, PlainFits
  <2>2. s.need \in Nat /\ s.buffers \in Buffers
    BY <2>1 DEF Enough
  <2> HIDE DEF s
  <2>3. LET a == Allocated(s)
        IN  (\A i, j \in DOMAIN a.given : i < j => a.given[i].to <= a.given[j].from) /\ a.slab = 0
    BY <2>1, <2>2, ArenaRoom
  <2> QED BY <1>1, <1>3, <2>1, <2>3 DEF m, c
<1> QED BY <1>2, <1>3

-----------------------------------------------------------------------------
(* The best of a set.                                                        *)

\* Before puts numbers in an order.
LEMMA BeforeOrders ==
  ASSUME NEW D \in SUBSET Int, NEW f \in [D -> Int]
  PROVE  /\ \A a \in D : ~Before(f, a, a)
         /\ \A a, b \in D : a = b \/ Before(f, a, b) \/ Before(f, b, a)
         /\ \A a, b \in D : Before(f, a, b) => ~Before(f, b, a)
         /\ \A a, b, c \in D : Before(f, a, b) /\ Before(f, b, c) => Before(f, a, c)
<1>1. \A a \in D : f[a] \in Int /\ a \in Int
  OBVIOUS
<1> QED BY <1>1 DEF Before

\* How many come before it.
Ahead(f, S, a) == Cardinality({b \in S : Before(f, b, a)})

\* The later a number comes, the more come before it.
LEMMA RankGrows ==
  ASSUME NEW D \in SUBSET Int, NEW f \in [D -> Int], NEW S \in SUBSET D, IsFiniteSet(S)
  PROVE  /\ \A a \in S : Ahead(f, S, a) \in 0..(Cardinality(S) - 1)
         /\ \A a, b \in S : Before(f, a, b) => Ahead(f, S, a) < Ahead(f, S, b)
<1> DEFINE B(a) == {c \in S : Before(f, c, a)}
<1>1. \A a \in S : B(a) \in SUBSET S /\ a \in S \ B(a)
  BY BeforeOrders
<1>2. ASSUME NEW a \in S PROVE Ahead(f, S, a) \in 0..(Cardinality(S) - 1)
  <2>1. Cardinality(B(a)) <= Cardinality(S) /\ Cardinality(S) # Cardinality(B(a)) /\ IsFiniteSet(B(a))
    BY <1>1, FS_Subset
  <2>2. Cardinality(B(a)) \in Nat /\ Cardinality(S) \in Nat
    BY <2>1, FS_CardinalityType
  <2>3. Ahead(f, S, a) = Cardinality(B(a))
    BY DEF Ahead
  <2> HIDE DEF B
  <2> QED BY <2>1, <2>2, <2>3
<1>3. ASSUME NEW a \in S, NEW b \in S, Before(f, a, b) PROVE Ahead(f, S, a) < Ahead(f, S, b)
  <2>1. B(a) \in SUBSET B(b) /\ a \in B(b) \ B(a)
    BY <1>3, BeforeOrders
  <2>2. IsFiniteSet(B(b))
    BY <1>1, FS_Subset
  <2>3. Cardinality(B(a)) <= Cardinality(B(b)) /\ Cardinality(B(b)) # Cardinality(B(a)) /\ IsFiniteSet(B(a))
    BY <2>1, <2>2, FS_Subset
  <2>4. Cardinality(B(a)) \in Nat /\ Cardinality(B(b)) \in Nat
    BY <2>2, <2>3, FS_CardinalityType
  <2>5. Ahead(f, S, a) = Cardinality(B(a)) /\ Ahead(f, S, b) = Cardinality(B(b))
    BY DEF Ahead
  <2> HIDE DEF B
  <2> QED BY <2>3, <2>4, <2>5
<1> QED BY <1>2, <1>3

LEMMA CountFromNothing ==
  ASSUME NEW m \in Nat
  PROVE  IsFiniteSet(0..(m - 1)) /\ Cardinality(0..(m - 1)) = m
<1>1. m - 1 \in Int /\ 0 \in Int
  OBVIOUS
<1>2. IsFiniteSet(0..(m - 1)) /\ Cardinality(0..(m - 1)) = IF 0 > m - 1 THEN 0 ELSE m - 1 - 0 + 1
  BY <1>1, FS_Interval
<1>3. (IF 0 > m - 1 THEN 0 ELSE m - 1 - 0 + 1) = m
  OBVIOUS
<1> QED BY <1>2, <1>3

\* Sorting leaves all of them, in their order.
LEMMA Sorted ==
  ASSUME NEW D \in SUBSET Int, NEW f \in [D -> Int], NEW S \in SUBSET D, IsFiniteSet(S)
  PROVE  LET s == SortExpertIndices(f, S)
             m == Cardinality(S)
         IN  /\ m \in Nat /\ s \in [1..m -> S]
             /\ \A a \in S : \E i \in 1..m : s[i] = a
             /\ \A i, j \in 1..m : i < j => Before(f, s[i], s[j])
<1> DEFINE s == SortExpertIndices(f, S)
           m == Cardinality(S)
           g == [a \in S |-> Ahead(f, S, a)]
           T == 0..(m - 1)
<1>1. m \in Nat
  BY FS_CardinalityType
<1>2. /\ \A a \in S : Ahead(f, S, a) \in T
      /\ \A a, b \in S : Before(f, a, b) => Ahead(f, S, a) < Ahead(f, S, b)
  BY RankGrows
<1>3. \A a, b \in S : a # b => Ahead(f, S, a) # Ahead(f, S, b)
  <2> SUFFICES ASSUME NEW a \in S, NEW b \in S, a # b PROVE Ahead(f, S, a) # Ahead(f, S, b)
    OBVIOUS
  <2>1. Before(f, a, b) \/ Before(f, b, a)
    BY BeforeOrders
  <2>2. Ahead(f, S, a) < Ahead(f, S, b) \/ Ahead(f, S, b) < Ahead(f, S, a)
    BY <1>2, <2>1
  <2>3. Ahead(f, S, a) \in Int /\ Ahead(f, S, b) \in Int
    BY <1>1, <1>2
  <2> QED BY <2>2, <2>3
<1>4. g \in Injection(S, T)
  BY <1>2, <1>3 DEF Injection, IsInjective
<1>5. IsFiniteSet(T) /\ Cardinality(T) = m
  BY <1>1, CountFromNothing
<1>6. g \in Surjection(S, T)
  <2> HIDE DEF g, T
  <2> QED BY <1>4, <1>5, FS_Injection
<1>7. \A r \in T : \E a \in S : Ahead(f, S, a) = r
  BY <1>6 DEF Surjection
<1>8. s = [r \in 1..m |-> CHOOSE a \in S : Ahead(f, S, a) = r - 1]
  BY DEF SortExpertIndices, Ahead
<1>9. ASSUME NEW r \in 1..m PROVE s[r] \in S /\ Ahead(f, S, s[r]) = r - 1
  <2>1. r - 1 \in T
    BY <1>1
  <2>2. \E a \in S : Ahead(f, S, a) = r - 1
    BY <1>7, <2>1
  <2>3. s[r] = CHOOSE a \in S : Ahead(f, S, a) = r - 1
    BY <1>8
  <2> HIDE DEF s
  <2> QED BY <2>2, <2>3
<1>10. s \in [1..m -> S]
  BY <1>8, <1>9
<1> HIDE DEF s, g, T
<1>11. ASSUME NEW a \in S PROVE \E i \in 1..m : s[i] = a
  <2>1. PICK r \in T : r = Ahead(f, S, a)
    BY <1>2
  <2>2. r + 1 \in 1..m /\ (r + 1) - 1 = r
    BY <1>1 DEF T
  <2>3. s[r + 1] \in S /\ Ahead(f, S, s[r + 1]) = (r + 1) - 1
    BY <1>9, <2>2
  <2> QED BY <1>3, <2>1, <2>2, <2>3
<1>12. ASSUME NEW i \in 1..m, NEW j \in 1..m, i < j PROVE Before(f, s[i], s[j])
  <2>1. s[i] \in S /\ s[j] \in S /\ Ahead(f, S, s[i]) = i - 1 /\ Ahead(f, S, s[j]) = j - 1
    BY <1>9
  <2>2. s[i] = s[j] \/ Before(f, s[i], s[j]) \/ Before(f, s[j], s[i])
    BY <2>1, BeforeOrders
  <2>3. ~Before(f, s[j], s[i]) /\ s[i] # s[j]
    <3>1. Before(f, s[j], s[i]) => Ahead(f, S, s[j]) < Ahead(f, S, s[i])
      BY <1>2, <2>1
    <3>2. ~ (j - 1 < i - 1) /\ i - 1 # j - 1
      BY <1>1, <1>12
    <3> QED BY <2>1, <3>1, <3>2
  <2> QED BY <2>2, <2>3
<1> QED BY <1>1, <1>10, <1>11, <1>12 DEF s

\* Sorting all of them.
LEMMA SortedAll ==
  ASSUME NEW n \in Nat, NEW p \in [1..n -> Int]
  PROVE  LET s == SortExpertIndices(p, 1..n)
         IN  /\ s \in [1..n -> 1..n]
             /\ \A a \in 1..n : \E i \in 1..n : s[i] = a
             /\ \A i, j \in 1..n : i < j => Before(p, s[i], s[j])
<1> DEFINE D == 1..n
           S == 1..n
           s == SortExpertIndices(p, S)
           m == Cardinality(S)
<1>1. IsFiniteSet(S) /\ m = n
  BY FS_Interval
<1>2. p \in [D -> Int] /\ D \in SUBSET Int /\ S \in SUBSET D
  OBVIOUS
<1> HIDE DEF D, S
<1>3. /\ s \in [1..m -> S]
      /\ \A a \in S : \E i \in 1..m : s[i] = a
      /\ \A i, j \in 1..m : i < j => Before(p, s[i], s[j])
  BY <1>1, <1>2, Sorted
<1> HIDE DEF m, s
<1> QED BY <1>1, <1>3 DEF S, s

\* One of them comes last.
LEMMA WorstIs ==
  ASSUME NEW D \in SUBSET Int, NEW f \in [D -> Int], NEW S \in SUBSET D, IsFiniteSet(S), S # {}
  PROVE  LET w == WorstKept(f, S) IN w \in S /\ \A i \in S : i = w \/ Before(f, i, w)
<1> DEFINE s == SortExpertIndices(f, S)
           m == Cardinality(S)
<1>1. /\ m \in Nat /\ s \in [1..m -> S]
      /\ \A a \in S : \E i \in 1..m : s[i] = a
      /\ \A i, j \in 1..m : i < j => Before(f, s[i], s[j])
  BY Sorted
<1>2. m # 0
  BY FS_EmptySet
<1> HIDE DEF s, m
<1>3. m \in 1..m
  BY <1>1, <1>2
<1>4. s[m] \in S /\ \A a \in S : a = s[m] \/ Before(f, a, s[m])
  <2>1. s[m] \in S
    BY <1>1, <1>3
  <2>2. ASSUME NEW a \in S PROVE a = s[m] \/ Before(f, a, s[m])
    <3>1. PICK i \in 1..m : s[i] = a
      BY <1>1
    <3>2. i = m \/ i < m
      BY <1>1
    <3> QED BY <1>1, <1>3, <3>1, <3>2
  <2> QED BY <2>1, <2>2
<1> QED BY <1>4 DEF WorstKept, s, m

-----------------------------------------------------------------------------
(* The experts of a router.                                                  *)

\* What is kept after each expert.
Keeps(f, probs, k, n) == f = [i \in 0..n |-> IF i = 0 THEN {} ELSE Keep(probs, f[i - 1], i, k)]

\* There are such sets, up to any expert: the first one without would have one before it.
LEMMA KeepsExist ==
  ASSUME NEW probs, NEW k, NEW n \in Nat
  PROVE  \E f : Keeps(f, probs, k, n)
<1> DEFINE T == {i \in Nat : ~ \E f : Keeps(f, probs, k, i)}
<1>1. SUFFICES ASSUME T # {} PROVE FALSE
  OBVIOUS
<1>2. PICK m \in T : \A y \in T : m <= y
  BY <1>1, LeastIn
<1> DEFINE next(a, j) == Keep(probs, a, j, k)
<1>3. CASE m = 0
  <2> DEFINE f == [j \in 0..0 |-> {}]
  <2>1. f = [j \in 0..0 |-> IF j = 0 THEN {} ELSE next(f[j - 1], j)]
    OBVIOUS
  <2> QED BY <1>2, <1>3, <2>1 DEF Keeps
<1>4. CASE m # 0
  <2>1. m - 1 \in Nat /\ m - 1 \notin T
    BY <1>2, <1>4
  <2>2. PICK f : Keeps(f, probs, k, m - 1)
    BY <2>1
  <2> DEFINE g == [j \in 0..m |-> IF j = m THEN next(f[m - 1], m) ELSE f[j]]
  <2> HIDE DEF next
  <2>3. ASSUME NEW j \in 0..m PROVE g[j] = IF j = 0 THEN {} ELSE next(g[j - 1], j)
    <3>1. CASE j = m
      BY <3>1, <1>4, <2>1
    <3>2. CASE j # m
      <4>0. j \in 0..(m - 1) /\ (j # 0 => j - 1 \in 0..m /\ j - 1 # m)
        BY <2>1, <3>2
      <4>1. f[j] = IF j = 0 THEN {} ELSE next(f[j - 1], j)
        BY <2>2, <4>0 DEF Keeps, next
      <4>2. g[j] = f[j] /\ (j # 0 => g[j - 1] = f[j - 1])
        BY <3>2, <4>0
      <4> QED BY <4>1, <4>2
    <3> QED BY <3>1, <3>2
  <2>4. Keeps(g, probs, k, m)
    <3> DEFINE Made(j) == IF j = 0 THEN {} ELSE next(g[j - 1], j)
    <3>1. g = [j \in 0..m |-> g[j]]
      OBVIOUS
    <3>2. \A j \in 0..m : g[j] = Made(j)
      BY <2>3
    <3> HIDE DEF g, Made
    <3>3. g = [j \in 0..m |-> Made(j)]
      BY <3>1, <3>2
    <3> QED BY <3>3 DEF Keeps, Made, next
  <2> QED BY <1>2, <2>4
<1> QED BY <1>3, <1>4

\* Of the first i experts the k best are kept.
BestOf(K, probs, k, i) ==
  /\ K \subseteq 1..i /\ Cardinality(K) = (IF i < k THEN i ELSE k)
  /\ \A a \in (1..i) \ K, b \in K : Before(probs, b, a)

\* One more expert: it fills a place, takes the worst one's or is left out.
LEMMA KeepStep ==
  ASSUME NEW n \in Nat, NEW probs \in [1..n -> Int], NEW k \in Nat \ {0}, NEW i \in 1..n, NEW K, BestOf(K, probs, k, i - 1)
  PROVE  BestOf(Keep(probs, K, i, k), probs, k, i)
<1> DEFINE c == Cardinality(K)
           w == WorstKept(probs, K)
<1>1. 1..n \in SUBSET Int /\ i - 1 \in Nat /\ i \in 1..n /\ K \subseteq 1..(i - 1) /\ 1..(i - 1) \subseteq 1..n /\ i \notin K
  BY DEF BestOf
<1>2. c = IF i - 1 < k THEN i - 1 ELSE k
  BY DEF BestOf
<1>3. IsFiniteSet(1..(i - 1)) /\ Cardinality(1..(i - 1)) = i - 1
  BY <1>1, FS_Interval
<1>4. IsFiniteSet(K) /\ (c = i - 1 => K = 1..(i - 1))
  BY <1>1, <1>3, FS_Subset
<1>5. \A a \in 1..i : a = i \/ a \in 1..(i - 1)
  OBVIOUS
<1> HIDE DEF c
<1>6. CASE c < k
  <2>1. i - 1 < k /\ c = i - 1 /\ K = 1..(i - 1)
    BY <1>1, <1>2, <1>4, <1>6
  <2>2. Keep(probs, K, i, k) = K \cup {i}
    BY <1>6 DEF Keep, c
  <2>3. Cardinality(K \cup {i}) = i
    <3>1. Cardinality(K \cup {i}) = c + 1
      BY <1>1, <1>4, FS_AddElement DEF c
    <3> QED BY <1>1, <2>1, <3>1
  <2>4. K \cup {i} = 1..i
    BY <1>1, <1>5, <2>1
  <2>5. i = IF i < k THEN i ELSE k
    BY <1>1, <2>1
  <2> QED BY <2>2, <2>3, <2>4, <2>5 DEF BestOf
<1>7. CASE ~ (c < k)
  <2>1. c = k /\ ~ (i < k) /\ K # {}
    <3>1. c = k /\ ~ (i < k)
      BY <1>1, <1>2, <1>7
    <3>2. K # {}
      BY <1>4, <3>1, FS_EmptySet DEF c
    <3> QED BY <3>1, <3>2
  <2>2. w \in K /\ \A b \in K : b = w \/ Before(probs, b, w)
    <3>1. K \in SUBSET (1..n)
      BY <1>1
    <3> QED BY <1>1, <1>4, <2>1, <3>1, WorstIs
  <2> HIDE DEF w
  <2>3. \A a \in (1..(i - 1)) \ K, b \in K : Before(probs, b, a)
    BY DEF BestOf
  <2>4. CASE Enters(probs, i, w)
    <3> DEFINE L == (K \ {w}) \cup {i}
    <3>1. Keep(probs, K, i, k) = L
      BY <1>7, <2>4 DEF Keep, c, w
    <3>2. Cardinality(L) = k /\ L \subseteq 1..i
      <4>1. IsFiniteSet(K \ {w}) /\ Cardinality(K \ {w}) = c - 1
        BY <1>4, <2>2, FS_RemoveElement DEF c
      <4>2. Cardinality(L) = (c - 1) + 1
        BY <1>1, <4>1, FS_AddElement
      <4>3. (c - 1) + 1 = k
        BY <2>1
      <4>4. L \subseteq 1..i
        <5>1. i \in 1..i /\ \A a \in 1..(i - 1) : a \in 1..i
          BY <1>1
        <5>2. \A a \in L : a = i \/ a \in 1..(i - 1)
          BY <1>1
        <5> HIDE DEF L
        <5> QED BY <5>1, <5>2
      <4> QED BY <4>2, <4>3, <4>4
    <3>3. ASSUME NEW a \in (1..i) \ L, NEW b \in L PROVE Before(probs, b, a)
      <4>1. a = w \/ a \in (1..(i - 1)) \ K
        BY <1>5, <3>3
      <4>2. Before(probs, i, w)
        BY <2>4 DEF Enters
      <4>3. a \in 1..n /\ b \in 1..n /\ w \in 1..n
        BY <1>1, <2>2, <3>3, <4>1
      <4>4. b = i \/ (b \in K /\ Before(probs, b, w))
        BY <2>2, <3>3
      <4>5. a = w \/ Before(probs, w, a)
        BY <2>2, <2>3, <4>1
      <4>6. Before(probs, b, w)
        BY <4>2, <4>4
      <4> QED BY <1>1, <4>3, <4>5, <4>6, BeforeOrders
    <3>4. k = IF i < k THEN i ELSE k
      BY <2>1
    <3> HIDE DEF L
    <3> QED BY <3>1, <3>2, <3>3, <3>4 DEF BestOf
  <2>5. CASE ~Enters(probs, i, w)
    <3>1. Keep(probs, K, i, k) = K
      BY <1>7, <2>5 DEF Keep, c, w
    <3>2. ASSUME NEW a \in (1..i) \ K, NEW b \in K PROVE Before(probs, b, a)
      <4>1. CASE a # i
        BY <1>5, <2>3, <4>1
      <4>2. CASE a = i
        <5>1. w \in 1..n /\ b \in 1..n /\ w # i
          BY <1>1, <2>2
        <5>2. Before(probs, w, i)
          BY <1>1, <2>5, <5>1, BeforeOrders DEF Enters
        <5> QED BY <1>1, <2>2, <4>2, <5>1, <5>2, BeforeOrders
      <4> QED BY <4>1, <4>2
    <3>3. k = IF i < k THEN i ELSE k
      BY <2>1
    <3>4. K \subseteq 1..i
      BY <1>1
    <3> QED BY <1>2, <2>1, <3>1, <3>2, <3>3, <3>4 DEF BestOf, c
  <2> QED BY <2>4, <2>5
<1> QED BY <1>6, <1>7

LEMMA KeptAreBest ==
  ASSUME NEW n \in Nat, NEW probs \in [1..n -> Int], NEW k \in Nat \ {0}, NEW f, Keeps(f, probs, k, n)
  PROVE  BestOf(f[n], probs, k, n)
<1> DEFINE T == {i \in 0..n : ~BestOf(f[i], probs, k, i)}
<1>1. SUFFICES ASSUME T # {} PROVE FALSE
  OBVIOUS
<1>2. PICK m \in T : \A y \in T : m <= y
  <2>1. T \in SUBSET Nat
    OBVIOUS
  <2> QED BY <1>1, <2>1, LeastIn
<1>3. f[m] = IF m = 0 THEN {} ELSE Keep(probs, f[m - 1], m, k)
  BY <1>2 DEF Keeps
<1>4. CASE m = 0
  <2>1. f[m] = {} /\ Cardinality({}) = 0
    BY <1>3, <1>4, FS_EmptySet
  <2>2. 0 = IF m < k THEN m ELSE k
    BY <1>4
  <2> QED BY <1>2, <1>4, <2>1, <2>2 DEF BestOf
<1>5. CASE m # 0
  <2>1. m \in 1..n /\ m - 1 \in 0..n /\ m - 1 \notin T
    BY <1>2, <1>5
  <2>2. BestOf(f[m - 1], probs, k, m - 1)
    BY <2>1
  <2> QED BY <1>2, <1>3, <1>5, <2>1, <2>2, KeepStep
<1> QED BY <1>4, <1>5

\* What ExpertsAreTheBest says of one choice.
Best(p, used, chosen) ==
  /\ Len(chosen) = Min({used, Len(p)})
  /\ \A i, j \in DOMAIN chosen : i < j => Before(p, chosen[i], chosen[j])
  /\ \A a \in DOMAIN p \ ToSet(chosen), i \in DOMAIN chosen : Before(p, chosen[i], a)

LEMMA MinIs ==
  ASSUME NEW a \in Int, NEW b \in Int
  PROVE  Min({a, b}) = IF a < b THEN a ELSE b
<1>1. \E x \in {a, b} : \A y \in {a, b} : x <= y
  OBVIOUS
<1>2. Min({a, b}) \in {a, b} /\ \A y \in {a, b} : Min({a, b}) <= y
  BY <1>1 DEF Min
<1> QED BY <1>2

\* A function on the first numbers is a sequence.
LEMMA ArrayIsSeq ==
  ASSUME NEW S, NEW n \in Nat, NEW s \in [1..n -> S]
  PROVE  s \in Seq(S) /\ Len(s) = n
  OBVIOUS

\* The first k of all that are sorted, or the sorted ones of those that were kept.
LEMMA ExpertsAreBest ==
  ASSUME NEW p \in Seq(Int), NEW used \in Nat
  PROVE  Best(p, used, TopKSoftmax(p, used))
<1> DEFINE n == Len(p)
           k == Min({used, n})
           chosen == TopKSoftmax(p, used)
<1>1. n \in Nat /\ p \in [1..n -> Int] /\ DOMAIN p = 1..n /\ 1..n \in SUBSET Int
  OBVIOUS
<1>2. k = (IF used < n THEN used ELSE n) /\ k \in Nat /\ k <= n
  BY <1>1, MinIs
<1>3. CASE n = 0 \/ used = 0
  <2>1. chosen = <<>>
    BY <1>3 DEF TopKSoftmax
  <2>2. k = 0
    BY <1>1, <1>2, <1>3
  <2> HIDE DEF n
  <2> QED BY <2>1, <2>2 DEF Best, n
<1>4. CASE n # 0 /\ used # 0
  <2>1. k \in Nat \ {0} /\ chosen = TopKIndices(p, k)
    <3>1. k \in Nat \ {0}
      BY <1>1, <1>2, <1>4
    <3>2. p # <<>> /\ ~ (used <= 0)
      BY <1>4
    <3> QED BY <3>1, <3>2 DEF TopKSoftmax
  <2>2. Min({k, n}) = k
    <3>1. k \in Int /\ n \in Int /\ (IF k < n THEN k ELSE n) = k
      BY <1>1, <1>2
    <3>2. \A x, y \in Int : Min({x, y}) = IF x < y THEN x ELSE y
      BY MinIs
    <3> HIDE DEF k, n
    <3> QED BY <3>1, <3>2
  <2> HIDE DEF k, chosen
  <2>3. CASE 4 * k >= n
    <3> DEFINE s == SortExpertIndices(p, 1..n)
    <3>1. IsFiniteSet(1..n) /\ Cardinality(1..n) = n
      BY <1>1, FS_Interval
    <3>2. /\ s \in [1..n -> 1..n]
          /\ \A a \in 1..n : \E i \in 1..n : s[i] = a
          /\ \A i, j \in 1..n : i < j => Before(p, s[i], s[j])
      <4> HIDE DEF n
      <4> QED BY <1>1, SortedAll
    <3>3. chosen = SubSeq(s, 1, k)
      BY <2>1, <2>2, <2>3 DEF TopKIndices
    <3> HIDE DEF s, n
    <3>4. s \in Seq(1..n) /\ Len(s) = n
      <4> DEFINE S == 1..n
      <4>1. s \in [1..n -> S] /\ n \in Nat
        BY <1>1, <3>2
      <4> HIDE DEF S
      <4>2. s \in Seq(S) /\ Len(s) = n
        BY <4>1, ArrayIsSeq
      <4> QED BY <4>2 DEF S
    <3>5. Len(chosen) = k /\ DOMAIN chosen = 1..k /\ \A i \in 1..k : chosen[i] = s[i] /\ i \in 1..n
      BY <1>1, <1>2, <2>1, <3>3, <3>4
    <3>6. ASSUME NEW a \in (1..n) \ ToSet(chosen), NEW i \in 1..k PROVE Before(p, chosen[i], a)
      <4>1. PICK j \in 1..n : s[j] = a
        BY <3>2
      <4>2. j \notin 1..k
        BY <3>5, <3>6, <4>1 DEF ToSet
      <4>3. i < j
        BY <1>1, <2>1, <4>2
      <4> QED BY <3>2, <3>5, <4>1, <4>3
    <3> QED BY <1>1, <3>2, <3>5, <3>6 DEF Best, k, n, chosen
  <2>4. CASE ~ (4 * k >= n)
    <3> DEFINE g == CHOOSE g : g = [i \in 0..n |-> IF i = 0 THEN {} ELSE Keep(p, g[i - 1], i, k)]
    <3>1. PICK f : Keeps(f, p, k, n)
      BY <1>1, KeepsExist
    <3>2. Keeps(g, p, k, n)
      BY <3>1 DEF Keeps
    <3>3. chosen = SortExpertIndices(p, g[n])
      BY <2>1, <2>4 DEF TopKIndices
    <3> HIDE DEF g, n
    <3> DEFINE K == g[n]
               s == SortExpertIndices(p, K)
    <3>4. K \subseteq 1..n /\ Cardinality(K) = k /\ \A a \in (1..n) \ K, b \in K : Before(p, b, a)
      <4>1. BestOf(K, p, k, n)
        BY <1>1, <2>1, <3>2, KeptAreBest
      <4>2. (IF n < k THEN n ELSE k) = k
        BY <1>1, <1>2, <2>1
      <4> QED BY <4>1, <4>2 DEF BestOf
    <3>5. IsFiniteSet(K)
      <4>1. IsFiniteSet(1..n)
        BY <1>1, FS_Interval
      <4> QED BY <3>4, <4>1, FS_Subset
    <3> HIDE DEF K
    <3>6. /\ s \in [1..k -> K]
          /\ \A a \in K : \E i \in 1..k : s[i] = a
          /\ \A i, j \in 1..k : i < j => Before(p, s[i], s[j])
      <4>1. K \in SUBSET (1..n) /\ 1..n \in SUBSET Int
        BY <1>1, <3>4
      <4> DEFINE D == 1..n
      <4>2. p \in [D -> Int] /\ K \in SUBSET D /\ D \in SUBSET Int
        BY <1>1, <4>1
      <4> HIDE DEF D
      <4> QED BY <3>4, <3>5, <4>2, Sorted
    <3>7. chosen = s
      BY <3>3 DEF K
    <3> HIDE DEF s
    <3>8. Len(chosen) = k /\ DOMAIN chosen = 1..k
      <4>1. s \in Seq(K)
        BY <2>1, <3>6
      <4> QED BY <2>1, <3>6, <3>7, <4>1
    <3>9. ASSUME NEW a \in (1..n) \ ToSet(chosen), NEW i \in 1..k PROVE Before(p, chosen[i], a)
      <4>1. a \notin K
        BY <3>6, <3>7, <3>8, <3>9 DEF ToSet
      <4>2. chosen[i] \in K
        BY <3>6, <3>7
      <4> QED BY <3>4, <4>1, <4>2
    <3> QED BY <1>1, <3>6, <3>7, <3>8, <3>9 DEF Best, k, n, chosen
  <2> QED BY <2>3, <2>4
<1> QED BY <1>1, <1>3, <1>4

-----------------------------------------------------------------------------
(* The alternatives reported with a token.                                   *)

\* Best first.
Falling(l, s) == \A a, b \in DOMAIN s : a < b => Before(l, s[a], s[b])

\* A later token among sorted ones: behind those that are not smaller.
LEMMA PlaceOf ==
  ASSUME NEW D \in SUBSET Int, NEW l \in [D -> Int], NEW s \in Seq(D), NEW t \in D
  PROVE  LET m == Len(s)
             Spot(i) == (i = 1 \/ l[s[i - 1]] >= l[t]) /\ \A j \in i..m : l[s[j]] < l[t]
         IN  \E i \in 1..(m + 1) : Spot(i) /\ InsertSortDesc(l, Append(s, t))
                                     = InsertAt(s, i, t)
<1> DEFINE m == Len(s)
           top == Append(s, t)
           Below(i) == \A j \in i..m : l[s[j]] < l[t]
           Spot(i) == (i = 1 \/ l[s[i - 1]] >= l[t]) /\ Below(i)
           T == {i \in 1..(m + 1) : Below(i)}
<1>1. /\ m \in Nat /\ \A j \in 1..m : s[j] \in D /\ l[s[j]] \in Int
      /\ l[t] \in Int
  <2>1. m \in Nat /\ \A j \in 1..m : s[j] \in D
    OBVIOUS
  <2>2. \A x \in D : l[x] \in Int
    OBVIOUS
  <2> HIDE DEF m
  <2> QED BY <2>1, <2>2
<1>2. Len(top) = m + 1 /\ Last(top) = t /\ \A j \in 1..m : top[j] = s[j]
  BY DEF Last
<1>3. Front(top) = s
  <2>1. Front(top) \in Seq(D) /\ Len(Front(top)) = m /\ \A j \in 1..m : Front(top)[j] = s[j]
    BY <1>2 DEF Front
  <2> HIDE DEF top
  <2> QED BY <2>1
<1>4. \E i \in 1..(m + 1) : Spot(i)
  <2>1. m + 1 \in T /\ T \in SUBSET Nat
    BY <1>1
  <2>2. PICK i \in T : \A y \in T : i <= y
    BY <2>1, LeastIn
  <2>3. CASE i = 1
    BY <2>2, <2>3
  <2>4. CASE i # 1
    <3>0. i \in 1..(m + 1) /\ i \in Int /\ ~ (i <= i - 1)
      BY <1>1, <2>2
    <3>1. i - 1 \in 1..(m + 1) /\ i - 1 \in 1..m /\ i - 1 \notin T
      <4>1. i - 1 \in 1..(m + 1) /\ i - 1 \in 1..m
        BY <1>1, <2>4, <3>0
      <4>2. i - 1 \notin T
        <5> HIDE DEF T
        <5> QED BY <2>2, <3>0
      <4> QED BY <4>1, <4>2
    <3>2. PICK j \in (i - 1)..m : ~ (l[s[j]] < l[t])
      BY <3>1
    <3>3. j \in 1..m /\ (j = i - 1 \/ j \in i..m)
      BY <1>1, <3>1
    <3>4. Below(i)
      BY <2>2
    <3>5. j = i - 1
      BY <3>2, <3>3, <3>4
    <3>6. l[s[i - 1]] >= l[t]
      BY <1>1, <3>2, <3>3, <3>5
    <3> QED BY <2>2, <3>4, <3>6
  <2> QED BY <2>3, <2>4
<1> DEFINE c == CHOOSE i \in 1..(m + 1) : Spot(i)
<1>5. c \in 1..(m + 1) /\ Spot(c)
  <2> HIDE DEF Spot
  <2> QED BY <1>4
<1>6. c = CHOOSE i \in 1..Len(top) :
             /\ i = 1 \/ l[top[i - 1]] >= l[Last(top)]
             /\ \A j \in i..(Len(top) - 1) : l[top[j]] < l[Last(top)]
  <2> DEFINE Sought(i) == /\ i = 1 \/ l[top[i - 1]] >= l[Last(top)]
                          /\ \A j \in i..(Len(top) - 1) : l[top[j]] < l[Last(top)]
  <2>1. ASSUME NEW i \in 1..(m + 1) PROVE Sought(i) <=> Spot(i)
    <3>1. Len(top) - 1 = m /\ (i # 1 => i - 1 \in 1..m) /\ \A j \in i..m : j \in 1..m
      BY <1>1, <1>2
    <3>2. (i # 1 => top[i - 1] = s[i - 1]) /\ \A j \in i..m : top[j] = s[j]
      BY <1>2, <3>1
    <3> HIDE DEF top, m
    <3> QED BY <1>2, <3>1, <3>2
  <2> HIDE DEF Sought, Spot, top, m
  <2>2. (CHOOSE i \in 1..(m + 1) : Spot(i)) = CHOOSE i \in 1..(m + 1) : Sought(i)
    BY <2>1
  <2> QED BY <1>2, <2>2 DEF Sought, m
<1>7. InsertSortDesc(l, top) = InsertAt(s, c, t)
  <2> HIDE DEF top, m
  <2> QED BY <1>2, <1>3, <1>6 DEF InsertSortDesc
<1> HIDE DEF c
<1> QED BY <1>5, <1>7

\* What is inserted stands between two halves.
LEMMA Halves ==
  ASSUME NEW D \in SUBSET Int, NEW s \in Seq(D), NEW t \in D, NEW i \in 1..(Len(s) + 1)
  PROVE  LET r == InsertAt(s, i, t)
         IN  /\ r \in Seq(D) /\ Len(r) = Len(s) + 1
             /\ \A a \in 1..(Len(s) + 1) : (a < i => r[a] = s[a]) /\ (a = i => r[a] = t) /\ (a > i => r[a] = s[a - 1])
<1> DEFINE m == Len(s)
           p == SubSeq(s, 1, i - 1)
           q == SubSeq(s, i, m)
           r == (p \o <<t>>) \o q
<1>1. m \in Nat
  OBVIOUS
<1>2. p \in Seq(D) /\ Len(p) = i - 1 /\ \A a \in 1..(i - 1) : p[a] = s[a]
  BY <1>1
<1>3. q \in Seq(D) /\ Len(q) = m - i + 1 /\ \A a \in 1..(m - i + 1) : q[a] = s[i + a - 1]
  BY <1>1
<1>4. <<t>> \in Seq(D) /\ Len(<<t>>) = 1 /\ <<t>>[1] = t
  OBVIOUS
<1> DEFINE u == <<t>>
<1> HIDE DEF p, q, u
<1> DEFINE v == p \o u
<1>5. v \in Seq(D) /\ Len(v) = i /\ (\A a \in 1..(i - 1) : v[a] = s[a]) /\ v[i] = t
  <2>1. u \in Seq(D) /\ Len(u) = 1 /\ u[1] = t
    BY <1>4 DEF u
  <2>0. i \in Int /\ i >= 1
    BY <1>1
  <2>2. v \in Seq(D) /\ Len(v) = (i - 1) + 1 /\ \A a \in 1..((i - 1) + 1) : v[a] = IF a <= i - 1 THEN p[a] ELSE u[a - (i - 1)]
    <3>1. p \in Seq(D) /\ Len(p) = i - 1
      BY <1>2
    <3>2. v \in Seq(D) /\ Len(v) = Len(p) + Len(u)
          /\ \A a \in 1..(Len(p) + Len(u)) : v[a] = IF a <= Len(p) THEN p[a] ELSE u[a - Len(p)]
      BY <2>1, <3>1, ConcatProperties
    <3> HIDE DEF v
    <3> QED BY <2>1, <3>1, <3>2
  <2>3. (i - 1) + 1 = i /\ i \in 1..i /\ ~ (i <= i - 1) /\ i - (i - 1) = 1 /\ \A a \in 1..(i - 1) : a \in 1..i /\ a <= i - 1
    BY <2>0
  <2> HIDE DEF v
  <2> QED BY <1>2, <2>1, <2>2, <2>3
<1> HIDE DEF v
<1> DEFINE z == v \o q
<1>6. z \in Seq(D) /\ Len(z) = m + 1
      /\ (\A a \in 1..i : z[a] = v[a]) /\ \A a \in (i + 1)..(m + 1) : z[a] = q[a - i]
  BY <1>1, <1>3, <1>5
<1>7. z = r
  BY DEF v, u
<1> HIDE DEF z
<1>8. ASSUME NEW a \in 1..(m + 1) PROVE (a < i => z[a] = s[a]) /\ (a = i => z[a] = t) /\ (a > i => z[a] = s[a - 1])
  <2>1. CASE a < i
    BY <1>5, <1>6, <2>1
  <2>2. CASE a = i
    BY <1>5, <1>6, <2>2
  <2>3. CASE a > i
    <3>1. a \in (i + 1)..(m + 1) /\ a - i \in 1..(m - i + 1) /\ i + (a - i) - 1 = a - 1
      BY <1>1, <2>3
    <3>2. z[a] = q[a - i] /\ q[a - i] = s[i + (a - i) - 1]
      BY <1>3, <1>6, <3>1
    <3> QED BY <2>3, <3>1, <3>2
  <2> QED BY <1>1, <2>1, <2>2, <2>3
<1> QED BY <1>6, <1>7, <1>8 DEF p, q, InsertAt

Behind(s, t) == \A a \in 1..Len(s) : s[a] < t
Inserted(D, l, s, t, r) ==
  /\ r \in Seq(D) /\ Len(r) = Len(s) + 1 /\ Falling(l, r)
  /\ \A a \in 1..Len(r) : r[a] = t \/ \E b \in 1..Len(s) : r[a] = s[b]
  /\ \E a \in 1..Len(r) : r[a] = t
  /\ \A b \in 1..Len(s) : \E a \in 1..Len(r) : r[a] = s[b]

\* They stay sorted, none is lost and none is added.
LEMMA InsertKeepsOrder ==
  ASSUME NEW D \in SUBSET Int, NEW l \in [D -> Int], NEW s \in Seq(D), NEW t \in D,
         Falling(l, s), Behind(s, t)
  PROVE  Inserted(D, l, s, t, InsertSortDesc(l, Append(s, t)))
<1> DEFINE m == Len(s)
           r == InsertSortDesc(l, Append(s, t))
<1>1. PICK i \in 1..(m + 1) :
        /\ i = 1 \/ l[s[i - 1]] >= l[t]
        /\ \A j \in i..m : l[s[j]] < l[t]
        /\ r = InsertAt(s, i, t)
  BY PlaceOf
<1>2. /\ r \in Seq(D) /\ Len(r) = m + 1
      /\ \A a \in 1..(m + 1) : (a < i => r[a] = s[a]) /\ (a = i => r[a] = t) /\ (a > i => r[a] = s[a - 1])
  <2>1. i \in 1..(Len(s) + 1) /\ r = InsertAt(s, i, t)
    BY <1>1
  <2> DEFINE z == InsertAt(s, i, t)
  <2>2. /\ z \in Seq(D) /\ Len(z) = m + 1
        /\ \A a \in 1..(m + 1) : (a < i => z[a] = s[a]) /\ (a = i => z[a] = t) /\ (a > i => z[a] = s[a - 1])
    BY <2>1, Halves
  <2>3. r = z
    BY <2>1
  <2> HIDE DEF r, z, m
  <2> QED BY <2>2, <2>3
<1>3. /\ m \in Nat /\ DOMAIN s = 1..m
      /\ \A j \in 1..m : s[j] \in D /\ l[s[j]] \in Int /\ s[j] \in Int /\ s[j] < t
      /\ l[t] \in Int /\ t \in Int
  <2>1. m \in Nat /\ DOMAIN s = 1..m /\ \A j \in 1..m : s[j] \in D /\ s[j] < t
    BY DEF Behind
  <2>2. \A x \in D : l[x] \in Int /\ x \in Int
    OBVIOUS
  <2> HIDE DEF m
  <2> QED BY <2>1, <2>2
<1>4. \A a, b \in 1..m : a < b => Before(l, s[a], s[b])
  BY <1>3 DEF Falling
<1> HIDE DEF r, m
<1>5. DOMAIN r = 1..(m + 1)
  BY <1>2, <1>3
<1>6. ASSUME NEW a \in 1..(m + 1), NEW b \in 1..(m + 1), a < b PROVE Before(l, r[a], r[b])
  <2>1. CASE b < i
    <3>1. a \in 1..m /\ b \in 1..m /\ r[a] = s[a] /\ r[b] = s[b]
      BY <1>2, <1>3, <1>6, <2>1
    <3> QED BY <1>4, <1>6, <3>1
  <2>2. CASE b = i
    <3>1. a \in 1..m /\ i - 1 \in 1..m /\ r[a] = s[a] /\ r[b] = t /\ i # 1 /\ (a = i - 1 \/ a < i - 1)
      BY <1>2, <1>3, <1>6, <2>2
    <3>2. l[s[i - 1]] >= l[t]
      BY <1>1, <3>1
    <3>3. l[s[a]] >= l[s[i - 1]]
      <4>1. CASE a = i - 1
        BY <1>3, <3>1, <4>1
      <4>2. CASE a < i - 1
        <5>1. Before(l, s[a], s[i - 1])
          BY <1>4, <3>1, <4>2
        <5> QED BY <1>3, <3>1, <5>1 DEF Before
      <4> QED BY <3>1, <4>1, <4>2
    <3>4. l[s[a]] >= l[t] /\ s[a] < t
      BY <1>3, <3>1, <3>2, <3>3
    <3> QED BY <1>3, <3>1, <3>4 DEF Before
  <2>3. CASE a = i
    <3>1. b - 1 \in i..m /\ b - 1 \in 1..m /\ r[a] = t /\ r[b] = s[b - 1]
      BY <1>2, <1>3, <1>6, <2>3
    <3>2. l[s[b - 1]] < l[t]
      BY <1>1, <3>1 DEF m
    <3> QED BY <1>3, <3>1, <3>2 DEF Before
  <2>4. CASE a < i /\ i < b
    <3>1. a \in 1..m /\ b - 1 \in 1..m /\ a < b - 1 /\ r[a] = s[a] /\ r[b] = s[b - 1]
      BY <1>2, <1>3, <1>6, <2>4
    <3> QED BY <1>4, <3>1
  <2>5. CASE i < a
    <3>1. a - 1 \in 1..m /\ b - 1 \in 1..m /\ a - 1 < b - 1 /\ r[a] = s[a - 1] /\ r[b] = s[b - 1]
      BY <1>2, <1>3, <1>6, <2>5
    <3> QED BY <1>4, <3>1
  <2> QED BY <1>3, <1>6, <2>1, <2>2, <2>3, <2>4, <2>5
<1>7. ASSUME NEW a \in 1..(m + 1) PROVE r[a] = t \/ \E b \in 1..m : r[a] = s[b]
  <2>1. (a < i => a \in 1..m) /\ (i < a => a - 1 \in 1..m) /\ (a < i \/ a = i \/ i < a)
    BY <1>3
  <2> QED BY <1>2, <2>1
<1>8. r[i] = t
  BY <1>2, <1>3
<1>9. ASSUME NEW b \in 1..m PROVE \E a \in 1..(m + 1) : r[a] = s[b]
  <2>1. CASE b < i
    <3>1. b \in 1..(m + 1) /\ r[b] = s[b]
      BY <1>2, <1>3, <2>1
    <3> QED BY <3>1
  <2>2. CASE ~ (b < i)
    <3>1. b + 1 \in 1..(m + 1) /\ ~ (b + 1 < i) /\ b + 1 # i /\ (b + 1) - 1 = b
      BY <1>3, <2>2
    <3>2. r[b + 1] = s[(b + 1) - 1]
      BY <1>2, <3>1
    <3> QED BY <3>1, <3>2
  <2> QED BY <2>1, <2>2
<1>10. \E a \in 1..(m + 1) : r[a] = t
  BY <1>8 DEF m
<1>11. Falling(l, r)
  BY <1>5, <1>6 DEF Falling
<1>12. Inserted(D, l, s, t, r)
  BY <1>2, <1>7, <1>9, <1>10, <1>11 DEF Inserted, m
<1> QED BY <1>12 DEF r

\* Of the first i tokens the best are there, best first.
TopOf(l, top, i, room) ==
  /\ top \in Seq(DOMAIN l) /\ Len(top) = (IF i < room THEN i ELSE room) /\ Falling(l, top)
  /\ \A a \in 1..Len(top) : top[a] < i
  /\ \A u \in DOMAIN l : u < i => \/ \E a \in 1..Len(top) : top[a] = u
                                  \/ i > room /\ \A a \in 1..Len(top) : Before(l, top[a], u)

\* One more token: it is put in its place, puts out the last or is left out.
LEMMA TopStep ==
  ASSUME NEW D \in SUBSET Int, NEW l \in [D -> Int], NEW room \in Nat \ {0}, NEW t \in D, t >= 0,
         NEW top, TopOf(l, top, t, room)
  PROVE  TopOf(l, TakeIn(l, top, t, room), t + 1, room)
<1> DEFINE m == Len(top)
<1>1. DOMAIN l = D /\ t \in Nat /\ t \in Int
  OBVIOUS
<1>2. /\ top \in Seq(D) /\ m = (IF t < room THEN t ELSE room) /\ Falling(l, top)
      /\ \A a \in 1..m : top[a] < t
      /\ \A u \in D : u < t => \/ \E a \in 1..m : top[a] = u
                               \/ t > room /\ \A a \in 1..m : Before(l, top[a], u)
  BY <1>1 DEF TopOf
<1>3. m \in Nat /\ DOMAIN top = 1..m /\ \A a \in 1..m : top[a] \in D
  BY <1>2
<1> HIDE DEF m
<1>4. \A u \in D : u < t + 1 => u = t \/ u < t
  BY <1>1
<1>5. \A x \in D : l[x] \in Int /\ x \in Int
  OBVIOUS
<1>8. \A x \in D : x < t => x < t + 1
  BY <1>1, <1>5
<1>9. \A a \in 1..m : top[a] < t + 1
  BY <1>2, <1>3, <1>8
<1>6. CASE m < room
  <2> DEFINE r == InsertSortDesc(l, Append(top, t))
  <2>1. TakeIn(l, top, t, room) = r
    BY <1>6 DEF TakeIn, m
  <2>2. /\ r \in Seq(D) /\ Len(r) = m + 1 /\ Falling(l, r)
        /\ \A a \in 1..Len(r) : r[a] = t \/ \E b \in 1..m : r[a] = top[b]
        /\ (\E a \in 1..Len(r) : r[a] = t) /\ \A b \in 1..m : \E a \in 1..Len(r) : r[a] = top[b]
    <3>1. Behind(top, t)
      BY <1>2 DEF Behind, m
    <3>2. Inserted(D, l, top, t, r)
      BY <1>2, <3>1, InsertKeepsOrder
    <3> HIDE DEF r
    <3> QED BY <3>2 DEF Inserted, m
  <2> HIDE DEF r
  <2>3. t < room /\ m = t
    BY <1>1, <1>2, <1>6
  <2>4. Len(r) = IF t + 1 < room THEN t + 1 ELSE room
    BY <1>1, <2>2, <2>3
  <2>5. \A a \in 1..Len(r) : r[a] < t + 1
    BY <1>1, <1>9, <2>2
  <2>6. \A u \in D : u < t + 1 => \E a \in 1..Len(r) : r[a] = u
    <3>1. \A u \in D : u < t => \E b \in 1..m : top[b] = u
      BY <1>1, <1>2, <2>3
    <3> QED BY <1>4, <2>2, <3>1
  <2> QED BY <1>1, <2>1, <2>2, <2>4, <2>5, <2>6 DEF TopOf
<1>7. CASE ~ (m < room)
  <2>1. m = room /\ ~ (t < room) /\ m \in 1..m /\ m - 1 \in Nat
    BY <1>1, <1>2, <1>3, <1>7
  <2> DEFINE w == top[m]
  <2>2. w \in D /\ w < t /\ Last(top) = w
    BY <1>2, <1>3, <2>1 DEF Last, m
  <2>3. \A a \in 1..m : a = m \/ Before(l, top[a], w)
    <3>1. \A a \in 1..m : a = m \/ a < m
      BY <1>3
    <3> QED BY <1>2, <1>3, <2>1, <3>1 DEF Falling
  <2>4. room = IF t + 1 < room THEN t + 1 ELSE room
    BY <1>1, <2>1
  <2>5. t + 1 > room
    BY <1>1, <2>1
  <2>6. CASE l[t] <= l[w]
    <3>1. TakeIn(l, top, t, room) = top
      BY <1>7, <2>2, <2>6 DEF TakeIn, m
    <3>2. ASSUME NEW a \in 1..m PROVE Before(l, top[a], t)
      <4>0. /\ top[a] \in Int /\ l[top[a]] \in Int /\ l[w] \in Int /\ l[t] \in Int
            /\ top[a] < t
        BY <1>2, <1>3, <1>5, <2>2
      <4> HIDE DEF w
      <4>1. Before(l, top[a], w) \/ top[a] = w
        BY <2>3 DEF w
      <4>2. l[top[a]] >= l[w]
        BY <4>0, <4>1 DEF Before
      <4>3. l[top[a]] >= l[t] /\ top[a] < t
        BY <2>6, <4>0, <4>2
      <4> QED BY <1>1, <4>0, <4>3 DEF Before
    <3> HIDE DEF w
    <3>4. \A u \in D : u < t + 1 => \/ \E a \in 1..m : top[a] = u
                                    \/ \A a \in 1..m : Before(l, top[a], u)
      BY <1>2, <1>4, <3>2
    <3>5. m = IF t + 1 < room THEN t + 1 ELSE room
      BY <2>1, <2>4
    <3> QED BY <1>1, <1>2, <1>9, <2>5, <3>1, <3>4, <3>5 DEF TopOf, m
  <2>7. CASE ~ (l[t] <= l[w])
    <3> HIDE DEF w
    <3> DEFINE s == Front(top)
               r == InsertSortDesc(l, Append(s, t))
    <3>1. TakeIn(l, top, t, room) = r
      BY <1>7, <2>2, <2>7 DEF TakeIn, m
    <3>2. s \in Seq(D) /\ Len(s) = m - 1 /\ \A a \in 1..(m - 1) : s[a] = top[a]
      BY <1>2, <1>3, <2>1 DEF Front, m
    <3> HIDE DEF s
    <3>3. Falling(l, s) /\ Behind(s, t)
      <4>1. DOMAIN s = 1..(m - 1) /\ \A a \in 1..(m - 1) : a \in 1..m
        BY <1>3, <3>2
      <4> QED BY <1>2, <1>3, <3>2, <4>1 DEF Falling, Behind
    <3>4. /\ r \in Seq(D) /\ Len(r) = Len(s) + 1 /\ Falling(l, r)
          /\ \A a \in 1..Len(r) : r[a] = t \/ \E b \in 1..Len(s) : r[a] = s[b]
          /\ (\E a \in 1..Len(r) : r[a] = t) /\ \A b \in 1..Len(s) : \E a \in 1..Len(r) : r[a] = s[b]
      <4>1. Inserted(D, l, s, t, r)
        BY <3>2, <3>3, InsertKeepsOrder
      <4> HIDE DEF r
      <4> QED BY <4>1 DEF Inserted
    <3> HIDE DEF r
    <3>5. Len(r) = m
      BY <1>3, <3>2, <3>4
    <3>6. \A b \in 1..(m - 1) : s[b] = top[b] /\ b \in 1..m /\ b # m
      BY <1>3, <3>2
    <3>7. \A a \in 1..m : a \in 1..(m - 1) \/ a = m
      BY <1>3
    <3>8. \A a \in 1..m : r[a] = t \/ \E b \in 1..(m - 1) : r[a] = top[b]
      <4>1. \A a \in 1..m : r[a] = t \/ \E b \in 1..(m - 1) : r[a] = s[b]
        BY <3>2, <3>4, <3>5
      <4> QED BY <3>6, <4>1
    <3>9. \A b \in 1..(m - 1) : \E a \in 1..m : r[a] = top[b]
      BY <3>2, <3>4, <3>5, <3>6
    <3>10. \A a \in 1..m : r[a] < t + 1
      <4>1. \A b \in 1..(m - 1) : top[b] < t + 1
        BY <1>9, <3>6
      <4> QED BY <1>1, <3>8, <4>1
    <3>11. Before(l, t, w)
      <4>1. l[t] \in Int /\ l[w] \in Int
        BY <1>5, <2>2
      <4> QED BY <2>7, <4>1 DEF Before
    <3>12. ASSUME NEW a \in 1..m PROVE r[a] \in D /\ Before(l, r[a], w)
      <4>1. r[a] = t \/ \E b \in 1..(m - 1) : r[a] = top[b]
        BY <3>8
      <4>2. \A b \in 1..(m - 1) : top[b] \in D /\ Before(l, top[b], w)
        BY <1>3, <2>3, <3>6 DEF w
      <4> QED BY <3>11, <4>1, <4>2
    <3>13. ASSUME NEW u \in D, u < t + 1
           PROVE  (\E a \in 1..m : r[a] = u) \/ \A a \in 1..m : Before(l, r[a], u)
      <4>1. CASE u = t
        BY <3>4, <3>5, <4>1
      <4>2. CASE u # t /\ \E a \in 1..m : top[a] = u
        <5>1. PICK a \in 1..m : top[a] = u
          BY <4>2
        <5>2. CASE a = m
          BY <3>12, <5>1, <5>2 DEF w
        <5>3. CASE a \in 1..(m - 1)
          BY <3>9, <5>1, <5>3
        <5> QED BY <3>7, <5>2, <5>3
      <4>3. CASE u # t /\ \A a \in 1..m : Before(l, top[a], u)
        <5>1. Before(l, w, u)
          BY <2>1, <4>3 DEF w
        <5>2. \A x, y, z \in D : Before(l, x, y) /\ Before(l, y, z) => Before(l, x, z)
          BY <1>1, BeforeOrders
        <5> QED BY <2>2, <3>12, <5>1, <5>2
      <4>4. u = t \/ (\E a \in 1..m : top[a] = u) \/ \A a \in 1..m : Before(l, top[a], u)
        BY <1>2, <1>4, <3>13
      <4> QED BY <4>1, <4>2, <4>3, <4>4
    <3>14. m = IF t + 1 < room THEN t + 1 ELSE room
      BY <2>1, <2>4
    <3> QED BY <1>1, <2>5, <3>1, <3>4, <3>5, <3>10, <3>13, <3>14 DEF TopOf
  <2> QED BY <2>6, <2>7
<1> QED BY <1>6, <1>7

\* The lists after each token.
Tops(f, l, room, n) == f = [i \in 0..n |-> IF i = 0 THEN <<>> ELSE TakeIn(l, f[i - 1], i - 1, room)]

\* There are such lists, up to any token: the first one without would have one before it.
LEMMA TopsExist ==
  ASSUME NEW l, NEW room, NEW n \in Nat
  PROVE  \E f : Tops(f, l, room, n)
<1> DEFINE T == {i \in Nat : ~ \E f : Tops(f, l, room, i)}
<1>1. SUFFICES ASSUME T # {} PROVE FALSE
  OBVIOUS
<1>2. PICK m \in T : \A y \in T : m <= y
  BY <1>1, LeastIn
<1> DEFINE next(a, j) == TakeIn(l, a, j - 1, room)
<1>3. CASE m = 0
  <2> DEFINE f == [j \in 0..0 |-> <<>>]
  <2>1. f = [j \in 0..0 |-> IF j = 0 THEN <<>> ELSE next(f[j - 1], j)]
    OBVIOUS
  <2> QED BY <1>2, <1>3, <2>1 DEF Tops
<1>4. CASE m # 0
  <2>1. m - 1 \in Nat /\ m - 1 \notin T
    BY <1>2, <1>4
  <2>2. PICK f : Tops(f, l, room, m - 1)
    BY <2>1
  <2> DEFINE g == [j \in 0..m |-> IF j = m THEN next(f[m - 1], m) ELSE f[j]]
  <2> HIDE DEF next
  <2>3. ASSUME NEW j \in 0..m PROVE g[j] = IF j = 0 THEN <<>> ELSE next(g[j - 1], j)
    <3>1. CASE j = m
      BY <3>1, <1>4, <2>1
    <3>2. CASE j # m
      <4>1. j \in 0..(m - 1) /\ (j # 0 => j - 1 \in 0..m /\ j - 1 # m)
        BY <2>1, <3>2
      <4>2. f[j] = IF j = 0 THEN <<>> ELSE next(f[j - 1], j)
        BY <2>2, <4>1 DEF Tops, next
      <4>3. g[j] = f[j] /\ (j # 0 => g[j - 1] = f[j - 1])
        BY <3>2, <4>1
      <4> QED BY <4>2, <4>3
    <3> QED BY <3>1, <3>2
  <2>4. Tops(g, l, room, m)
    <3> DEFINE Made(j) == IF j = 0 THEN <<>> ELSE next(g[j - 1], j)
    <3>1. g = [j \in 0..m |-> g[j]]
      OBVIOUS
    <3>2. \A j \in 0..m : g[j] = Made(j)
      BY <2>3
    <3> HIDE DEF g, Made
    <3>3. g = [j \in 0..m |-> Made(j)]
      BY <3>1, <3>2
    <3> QED BY <3>3 DEF Tops, Made, next
  <2> QED BY <1>2, <2>4
<1> QED BY <1>3, <1>4

LEMMA TopsAreBest ==
  ASSUME NEW n \in Nat, NEW l \in [0..(n - 1) -> Int], NEW room \in Nat \ {0}, NEW f, Tops(f, l, room, n)
  PROVE  TopOf(l, f[n], n, room)
<1> DEFINE T == {i \in 0..n : ~TopOf(l, f[i], i, room)}
           D == 0..(n - 1)
<1>1. SUFFICES ASSUME T # {} PROVE FALSE
  OBVIOUS
<1>2. PICK m \in T : \A y \in T : m <= y
  <2>1. T \in SUBSET Nat
    OBVIOUS
  <2> QED BY <1>1, <2>1, LeastIn
<1>3. f[m] = IF m = 0 THEN <<>> ELSE TakeIn(l, f[m - 1], m - 1, room)
  BY <1>2 DEF Tops
<1>4. CASE m = 0
  <2>1. f[m] = <<>> /\ Len(<<>>) = 0 /\ <<>> \in Seq(DOMAIN l) /\ DOMAIN l = D
    BY <1>3, <1>4
  <2>2. 0 = IF m < room THEN m ELSE room
    BY <1>4
  <2>3. Falling(l, <<>>) /\ 1..0 = {} /\ \A u \in D : ~ (u < 0)
    BY DEF Falling
  <2> QED BY <1>2, <1>4, <2>1, <2>2, <2>3 DEF TopOf
<1>5. CASE m # 0
  <2>1. m - 1 \in D /\ m - 1 \in 0..n /\ m - 1 \notin T /\ (m - 1) + 1 = m
    BY <1>2, <1>5
  <2>2. TopOf(l, f[m - 1], m - 1, room)
    BY <2>1
  <2>3. D \in SUBSET Int /\ l \in [D -> Int] /\ m - 1 >= 0
    BY <1>2, <1>5
  <2> HIDE DEF D
  <2>4. TopOf(l, TakeIn(l, f[m - 1], m - 1, room), (m - 1) + 1, room)
    BY <2>1, <2>2, <2>3, TopStep
  <2> QED BY <1>2, <1>3, <1>5, <2>1, <2>4
<1> QED BY <1>4, <1>5

\* What TopLogprobsAreTheTop says of one list.
Top(l, k, top) ==
  /\ Len(top) = Min({k, Cardinality(Vocabulary(l))})
  /\ \A i, j \in DOMAIN top : i < j => top[i] # top[j] /\ l[top[i]] >= l[top[j]]
  /\ \A t \in Vocabulary(l) \ ToSet(top), i \in DOMAIN top : l[t] <= l[top[i]]
  /\ top # <<>> => top[1] = Greedy(l)

\* The token before all others is the greedy choice.
LEMMA FirstIsGreedy ==
  ASSUME NEW D \in SUBSET Int, NEW l \in [D -> Int], NEW t \in D, \A u \in D : u = t \/ Before(l, t, u)
  PROVE  Greedy(l) = t
<1> DEFINE G(x) == \A u \in D : l[u] < l[x] \/ (l[u] = l[x] /\ x <= u)
<1>1. \A x \in D : l[x] \in Int /\ x \in Int
  OBVIOUS
<1>2. G(t)
  <2> SUFFICES ASSUME NEW u \in D PROVE l[u] < l[t] \/ (l[u] = l[t] /\ t <= u)
    OBVIOUS
  <2>1. l[u] \in Int /\ l[t] \in Int /\ u \in Int /\ t \in Int
    BY <1>1
  <2>2. u = t \/ Before(l, t, u)
    OBVIOUS
  <2>3. CASE u = t
    BY <2>1, <2>3
  <2>4. CASE Before(l, t, u)
    BY <2>1, <2>4 DEF Before
  <2> QED BY <2>2, <2>3, <2>4
<1>3. ASSUME NEW x \in D, G(x) PROVE x = t
  <2>1. l[t] < l[x] \/ (l[t] = l[x] /\ x <= t)
    BY <1>3
  <2>2. l[x] < l[t] \/ (l[x] = l[t] /\ t <= x)
    BY <1>2
  <2>3. l[x] \in Int /\ l[t] \in Int /\ x \in Int /\ t \in Int
    BY <1>1
  <2> QED BY <2>1, <2>2, <2>3
<1>4. Greedy(l) = CHOOSE x \in D : G(x)
  BY DEF Greedy, Vocabulary
<1> HIDE DEF G
<1> QED BY <1>2, <1>3, <1>4

\* The last list is the top.
LEMMA LogprobsAreBest ==
  ASSUME NEW n \in Nat \ {0}, NEW l \in [0..(n - 1) -> Int], NEW k \in Nat
  PROVE  Top(l, k, TopLogprobs(l, k))
<1> DEFINE D == 0..(n - 1)
           room == Min({k, n})
           top == TopLogprobs(l, k)
<1>1. Vocabulary(l) = D /\ Cardinality(Vocabulary(l)) = n
  BY FS_Interval DEF Vocabulary
<1>2. room = (IF k < n THEN k ELSE n) /\ room \in Nat
  BY MinIs
<1>3. CASE k = 0
  <2>1. top = <<>> /\ DOMAIN <<>> = {} /\ Len(<<>>) = 0
    BY <1>3 DEF TopLogprobs
  <2>2. room = 0
    BY <1>2, <1>3
  <2> HIDE DEF room, top
  <2>3. Top(l, k, top)
    BY <1>1, <2>1, <2>2 DEF Top, room
  <2> QED BY <2>3 DEF top
<1>4. CASE k # 0
  <2>1. room \in Nat \ {0} /\ ~ (k < 1) /\ room <= n
    BY <1>2, <1>4
  <2> HIDE DEF room
  <2> DEFINE g == CHOOSE g : g = [i \in 0..n |-> IF i = 0 THEN <<>> ELSE TakeIn(l, g[i - 1], i - 1, room)]
  <2>2. PICK f : Tops(f, l, room, n)
    BY TopsExist
  <2>3. Tops(g, l, room, n)
    BY <2>2 DEF Tops
  <2>4. top = g[n]
    BY <1>1, <2>1 DEF TopLogprobs, room
  <2>5. TopOf(l, top, n, room)
    <3> HIDE DEF g, top
    <3> QED BY <2>1, <2>3, <2>4, TopsAreBest
  <2> HIDE DEF g, top
  <2> DEFINE m == Len(top)
  <2>6. /\ top \in Seq(D) /\ m = room /\ Falling(l, top)
        /\ \A u \in D : (\E a \in 1..m : top[a] = u) \/ \A a \in 1..m : Before(l, top[a], u)
    <3>1. DOMAIN l = D /\ \A u \in D : u < n
      OBVIOUS
    <3>2. (IF n < room THEN n ELSE room) = room
      BY <2>1
    <3> HIDE DEF D
    <3> QED BY <2>5, <3>1, <3>2 DEF TopOf
  <2>7. D \in SUBSET Int /\ l \in [D -> Int] /\ \A x \in D : x \in Int /\ l[x] \in Int
    OBVIOUS
  <2> HIDE DEF D
  <2>8. DOMAIN top = 1..m /\ m \in Nat \ {0} /\ 1 \in 1..m /\ \A a \in 1..m : top[a] \in D
    BY <2>1, <2>6
  <2> HIDE DEF m
  <2>9. ASSUME NEW i \in 1..m, NEW j \in 1..m, i < j PROVE top[i] # top[j] /\ l[top[i]] >= l[top[j]]
    <3>1. Before(l, top[i], top[j])
      BY <2>6, <2>8, <2>9 DEF Falling
    <3>2. \A a, b \in D : Before(l, a, b) => a # b /\ l[a] >= l[b]
      BY <2>7 DEF Before
    <3> QED BY <2>8, <3>1, <3>2
  <2>10. ASSUME NEW t \in D, t \notin ToSet(top), NEW i \in 1..m PROVE l[t] <= l[top[i]]
    <3>1. ~ \E a \in 1..m : top[a] = t
      BY <2>8, <2>10 DEF ToSet
    <3>2. Before(l, top[i], t)
      BY <2>6, <3>1
    <3>3. \A a, b \in D : Before(l, a, b) => l[b] <= l[a]
      BY <2>7 DEF Before
    <3> QED BY <2>8, <3>2, <3>3
  <2>11. Greedy(l) = top[1]
    <3>1. ASSUME NEW u \in D PROVE u = top[1] \/ Before(l, top[1], u)
      <4>1. CASE \E a \in 1..m : top[a] = u
        <5>1. PICK a \in 1..m : top[a] = u
          BY <4>1
        <5>2. a = 1 \/ 1 < a
          BY <2>8
        <5> QED BY <2>6, <2>8, <5>1, <5>2 DEF Falling
      <4>2. CASE \A a \in 1..m : Before(l, top[a], u)
        BY <2>8, <4>2
      <4> QED BY <2>6, <4>1, <4>2
    <3> QED BY <2>7, <2>8, <3>1, FirstIsGreedy
  <2>12. Top(l, k, top)
    BY <1>1, <2>6, <2>8, <2>9, <2>10, <2>11 DEF Top, room, m
  <2> QED BY <2>12 DEF top
<1> QED BY <1>3, <1>4

-----------------------------------------------------------------------------
(* The inductive invariant: the job is one of those given, and its answer is the *)
(* one of its inputs.                                                            *)
Given == job.kind \in DOMAIN Jobs /\ job.in \in Jobs[job.kind]
Planned(in) ==
  LET bounds == LayerSplitBounds(in.layers, in.devices, in.split)
  IN  [bounds |-> bounds, owner |-> [l \in 0..(in.layers - 1) |-> OwnerOf(bounds, l)]]
LayersAnswered == Answered("layers") => Out = Planned(In)
PartsAnswered == Answered("parts") => Out = Cuts(In)
ModelAnswered == Answered("model") => Out = Loaded(In)
SampleAnswered == Answered("sample") => \E draws : Out = [draws |-> draws, top |-> TopLogprobs(In.logits, In.k)]
RouteAnswered == Answered("experts") => Out = [chosen |-> TopKSoftmax(In.probs, In.used)]
IInv == Given /\ LayersAnswered /\ PartsAnswered /\ ModelAnswered /\ SampleAnswered /\ RouteAnswered

LEMMA InitInv == Init => IInv
  BY DEF Init, IInv, Given, LayersAnswered, PartsAnswered, ModelAnswered, SampleAnswered, RouteAnswered, Answered

LEMMA NextInv == IInv /\ [Next]_vars => IInv'
<1> SUFFICES ASSUME IInv, [Next]_vars PROVE IInv'
  OBVIOUS
<1>1. job' = job
  BY DEF Next, vars, Answer, Penalise, Sample, Pretokenize, MergePairs, Tokenize, Detokenize, Complete, WriteReply,
         AskQuestion, AskOnce, LoadModel, Route, DecodeBlock, CutTensor, OpenFile, LoadTensors, UseTensors, PlanLayers
<1>2. Given'
  BY <1>1 DEF IInv, Given
<1>3. ASSUME job.kind = "layers" PROVE result' = result \/ PlanLayers
  BY <1>3 DEF Next, vars, Waiting, Answered, Penalise, Sample, Pretokenize, MergePairs, Tokenize, Detokenize, Complete,
         WriteReply, AskQuestion, AskOnce, LoadModel, Route, DecodeBlock, CutTensor, OpenFile, LoadTensors, UseTensors
<1>4. ASSUME job.kind = "parts" PROVE result' = result \/ CutTensor
  BY <1>4 DEF Next, vars, Waiting, Answered, Penalise, Sample, Pretokenize, MergePairs, Tokenize, Detokenize, Complete,
         WriteReply, AskQuestion, AskOnce, LoadModel, Route, DecodeBlock, OpenFile, LoadTensors, UseTensors, PlanLayers
<1>5. LayersAnswered'
  <2>1. CASE PlanLayers
    <3>1. result' = <<Planned(In)>> /\ In' = In
      BY <1>1, <2>1 DEF PlanLayers, Planned, Answer, In
    <3> QED BY <3>1 DEF LayersAnswered, Out
  <2>2. CASE result' = result
    BY <1>1, <2>2 DEF IInv, LayersAnswered, Answered, In, Out
  <2>3. CASE job.kind # "layers"
    BY <1>1, <2>3 DEF LayersAnswered, Answered
  <2> QED BY <1>3, <2>1, <2>2, <2>3
<1>6. PartsAnswered'
  <2>1. CASE CutTensor
    <3>1. result' = <<Cuts(In)>> /\ In' = In
      BY <1>1, <2>1, Zenon DEF CutTensor, Cuts, Answer, In
    <3> QED BY <3>1 DEF PartsAnswered, Out
  <2>2. CASE result' = result
    BY <1>1, <2>2 DEF IInv, PartsAnswered, Answered, In, Out
  <2>3. CASE job.kind # "parts"
    BY <1>1, <2>3 DEF PartsAnswered, Answered
  <2> QED BY <1>4, <2>1, <2>2, <2>3
<1>7. ASSUME job.kind = "model" PROVE result' = result \/ LoadModel
  BY <1>7 DEF Next, vars, Waiting, Answered, Penalise, Sample, Pretokenize, MergePairs, Tokenize, Detokenize, Complete,
         WriteReply, AskQuestion, AskOnce, Route, DecodeBlock, CutTensor, OpenFile, LoadTensors, UseTensors, PlanLayers
<1>8. ModelAnswered'
  <2>1. CASE LoadModel
    <3>1. result' = <<Loaded(In)>> /\ In' = In
      BY <1>1, <2>1, Zenon DEF LoadModel, Loaded, Answer, In
    <3> QED BY <3>1 DEF ModelAnswered, Out
  <2>2. CASE result' = result
    BY <1>1, <2>2 DEF IInv, ModelAnswered, Answered, In, Out
  <2>3. CASE job.kind # "model"
    BY <1>1, <2>3 DEF ModelAnswered, Answered
  <2> QED BY <1>7, <2>1, <2>2, <2>3
<1>9. ASSUME job.kind = "sample" PROVE result' = result \/ Sample
  BY <1>9 DEF Next, vars, Waiting, Answered, Penalise, Pretokenize, MergePairs, Tokenize, Detokenize, Complete,
         WriteReply, AskQuestion, AskOnce, LoadModel, Route, DecodeBlock, CutTensor, OpenFile, LoadTensors, UseTensors, PlanLayers
<1>10. SampleAnswered'
  <2>1. CASE Sample
    <3>1. result' = <<[draws |-> Draws(In.logits, In.cfg), top |-> TopLogprobs(In.logits, In.k)]>> /\ In' = In
      BY <1>1, <2>1, Zenon DEF Sample, Answer, In
    <3> QED BY <3>1 DEF SampleAnswered, Out
  <2>2. CASE result' = result
    BY <1>1, <2>2 DEF IInv, SampleAnswered, Answered, In, Out
  <2>3. CASE job.kind # "sample"
    BY <1>1, <2>3 DEF SampleAnswered, Answered
  <2> QED BY <1>9, <2>1, <2>2, <2>3
<1>11. ASSUME job.kind = "experts" PROVE result' = result \/ Route
  BY <1>11 DEF Next, vars, Waiting, Answered, Penalise, Sample, Pretokenize, MergePairs, Tokenize, Detokenize, Complete,
         WriteReply, AskQuestion, AskOnce, LoadModel, DecodeBlock, CutTensor, OpenFile, LoadTensors, UseTensors, PlanLayers
<1>12. RouteAnswered'
  <2>1. CASE Route
    <3>1. result' = <<[chosen |-> TopKSoftmax(In.probs, In.used)]>> /\ In' = In
      BY <1>1, <2>1, Zenon DEF Route, Answer, In
    <3> QED BY <3>1 DEF RouteAnswered, Out
  <2>2. CASE result' = result
    BY <1>1, <2>2 DEF IInv, RouteAnswered, Answered, In, Out
  <2>3. CASE job.kind # "experts"
    BY <1>1, <2>3 DEF RouteAnswered, Answered
  <2> QED BY <1>11, <2>1, <2>2, <2>3
<1> QED BY <1>2, <1>5, <1>6, <1>8, <1>10, <1>12 DEF IInv

LEMMA Invariance == Spec => []IInv
BY InitInv, NextInv, PTL DEF Spec

-----------------------------------------------------------------------------
(* The theorems.                                                             *)

\* LayersHaveOneOwner, for any layers, devices and weights: the rounded bounds grow,
\* for the sums do, and end at the last layer, so they cut the layers into ranges;
\* where no weight is added the bound does not move (LayerSplitBounds, deviceForLayer).
THEOREM LayersAreOwnedOnce == Spec => []LayersHaveOneOwner
<1>1. IInv => LayersHaveOneOwner
  <2> SUFFICES ASSUME IInv, Answered("layers") PROVE LayersHaveOneOwner
    BY DEF LayersHaveOneOwner
  <2> DEFINE layers == In.layers
             n == In.devices
             split == In.split
             b == LayerSplitBounds(layers, n, split)
             Share(i) == {l \in 0..(layers - 1) : b[i] <= l /\ l < b[i + 1]}
  <2>1. In \in Jobs["layers"] /\ "layers" \in DOMAIN Jobs /\ Out = Planned(In)
    BY DEF IInv, Given, LayersAnswered, Answered, In
  <2>2. layers \in Nat /\ n \in Nat \ {0} /\ split \in Seq(Int)
    BY <2>1, JobsAssumption
  <2>3. Out.bounds = b /\ Out.owner = [l \in 0..(layers - 1) |-> OwnerOf(b, l)]
    BY <2>1 DEF Planned
  <2> HIDE DEF layers, n, split, b
  <2>4. /\ Plan(b, layers, n)
        /\ Usable(split, n) => \A i \in 0..(n - 1) : split[i + 1] <= 0 => b[i] = b[i + 1]
        /\ ~Usable(split, n) => \A i \in 0..(n - 1) : b[i + 1] - b[i] \in {layers \div n, (layers \div n) + 1}
    BY <2>2, BoundsAreAPlan DEF b
  <2>5. \A i \in 0..(n - 1) : b[i] <= b[i + 1] /\ b[i] \in Int /\ b[i + 1] \in Int
    <3>1. \A i \in 0..(n - 1) : i \in 0..n /\ i + 1 \in 0..n
      BY <2>2
    <3> QED BY <2>4, <3>1 DEF Plan
  <2>6. ASSUME NEW l \in 0..(layers - 1) PROVE {i \in 0..(n - 1) : l \in Share(i)} = {Out.owner[l]}
    <3>1. {i \in 0..(n - 1) : b[i] <= l /\ l < b[i + 1]} = {OwnerOf(b, l)}
      BY <2>2, <2>4, OneOwner
    <3> QED BY <2>3, <3>1
  <2>7. ASSUME Usable(split, n), NEW i \in 0..(n - 1), split[i + 1] <= 0 PROVE Share(i) = {}
    <3>1. b[i] = b[i + 1] /\ b[i] \in Int
      BY <2>4, <2>5, <2>7
    <3> QED BY <3>1
  <2>8. ASSUME ~Usable(split, n), NEW i \in 0..(n - 1), NEW j \in 0..(n - 1)
        PROVE  Cardinality(Share(i)) <= Cardinality(Share(j)) + 1
    <3>1. Cardinality(Share(i)) = b[i + 1] - b[i] /\ Cardinality(Share(j)) = b[j + 1] - b[j]
      BY <2>2, <2>4, ShareSize
    <3> DEFINE q == layers \div n
    <3>2. q \in Int
      BY <2>2, Quotient
    <3>3. b[i + 1] - b[i] \in {q, q + 1} /\ b[j + 1] - b[j] \in {q, q + 1}
      BY <2>4, <2>8
    <3> HIDE DEF q, Share
    <3> QED BY <3>1, <3>2, <3>3
  <2> QED BY <2>3, <2>5, <2>6, <2>7, <2>8 DEF LayersHaveOneOwner, Usable, layers, n, split
<1> QED BY <1>1, Invariance, PTL

\* PartsAgree, for any number of rows, columns and experts: every table gives a row the
\* same bytes, so whoever cuts by rows, by experts or by the fused parts cuts alike
\* (gpuresid.go, expert.go, embed.go, ops.go, dtype.go).
THEOREM PartsAreCutAlike == Spec => []PartsAgree
<1>1. IInv => PartsAgree
  <2> SUFFICES ASSUME IInv, Answered("parts") PROVE PartsAgree
    BY DEF PartsAgree
  <2>1. In \in Jobs["parts"] /\ "parts" \in DOMAIN Jobs /\ Out = Cuts(In)
    BY DEF IInv, Given, PartsAnswered, Answered, In
  <2>2. In.type \in DOMAIN Blocks /\ {In.qDim, In.kvDim, In.cols, In.experts} \subseteq Nat \ {0}
    BY <2>1, JobsAssumption
  <2>3. PartsRight(In, Out)
    BY <2>1, <2>2, CutsAreRight
  <2> QED BY <2>3 DEF PartsAgree, PartsRight
<1> QED BY <1>1, Invariance, PTL

\* BuffersHoldTheWork, for every architecture, every configuration its ParseConfig
\* accepts and every batch: what newScratch asks the arena for is at least the sum of
\* what it takes, so no buffer moves to another slab (deepseek2's excepted), the slices
\* follow each other, and each is as long as the widest layer, be it dense, an expert or
\* the shared expert (config.go and scratch.go of each architecture, arena.go).
THEOREM BuffersAreLargeEnough == Spec => []BuffersHoldTheWork
<1>1. IInv => BuffersHoldTheWork
  <2> SUFFICES ASSUME IInv, Answered("model"), Out.outcome = "config" PROVE BuffersHoldTheWork
    BY DEF BuffersHoldTheWork, ScratchFits, BuffersApart
  <2>1. In \in Jobs["model"] /\ "model" \in DOMAIN Jobs /\ Out = Loaded(In)
    BY DEF IInv, Given, ModelAnswered, Answered, In
  <2>2. In.file.md \in [DOMAIN In.file.md -> Nat] /\ In.nBatch \in Int
    BY <2>1, JobsAssumption
  <2> DEFINE loader == Loader(In.file)
             rows == IF loader = "deepseek2" THEN 1 ELSE Rows(In.nBatch)
             given == Out.arena.given
  <2>3. /\ FitsWork(loader, Out.cfg, rows, Out.arena)
        /\ \A i, j \in DOMAIN given : i < j => given[i].to <= given[j].from
        /\ loader # "deepseek2" => Out.arena.slab = 0
    BY <2>1, <2>2, LoadedFits
  <2>4. ScratchFits
    BY <2>3 DEF ScratchFits, FitsWork, RoomIn
  <2>5. BuffersApart
    BY <2>3 DEF BuffersApart
  <2> QED BY <2>4, <2>5 DEF BuffersHoldTheWork
<1> QED BY <1>1, Invariance, PTL

\* TopKIsTheTop, for any logits, any number of alternatives, any probabilities of a router
\* and any number of experts: the list that TopLogprobs keeps sorted by insertion and the
\* experts that topKIndices sorts or keeps in a heap are as many as asked for (or all
\* there are), fall in the order of their numbers and then of their places, and nothing
\* left out comes before one of them; the first token is the greedy choice (logprobs.go
\* and sampler.go of pkg/runtime/sampler, moe.go of pkg/exec/moe).
THEOREM TheBestAreChosen == Spec => []TopKIsTheTop
<1>1. IInv => TopLogprobsAreTheTop
  <2> SUFFICES ASSUME IInv, Answered("sample") PROVE TopLogprobsAreTheTop
    BY DEF TopLogprobsAreTheTop
  <2>1. In \in Jobs["sample"] /\ "sample" \in DOMAIN Jobs
    BY DEF IInv, Given, Answered, In
  <2>2. Out.top = TopLogprobs(In.logits, In.k)
    BY DEF IInv, SampleAnswered
  <2> DEFINE n == Cardinality(DOMAIN In.logits)
  <2>3. n \in Nat \ {0} /\ In.logits \in [0..(n - 1) -> Int] /\ In.k \in Nat
    BY <2>1, JobsAssumption
  <2> HIDE DEF n
  <2>4. Top(In.logits, In.k, Out.top)
    BY <2>2, <2>3, LogprobsAreBest
  <2> QED BY <2>4 DEF TopLogprobsAreTheTop, Top
<1>2. IInv => ExpertsAreTheBest
  <2> SUFFICES ASSUME IInv, Answered("experts") PROVE ExpertsAreTheBest
    BY DEF ExpertsAreTheBest
  <2>1. In \in Jobs["experts"] /\ "experts" \in DOMAIN Jobs
    BY DEF IInv, Given, Answered, In
  <2>2. Out.chosen = TopKSoftmax(In.probs, In.used)
    BY DEF IInv, RouteAnswered
  <2>3. In.used \in Nat /\ In.probs \in Seq(Int)
    BY <2>1, JobsAssumption
  <2>4. Best(In.probs, In.used, Out.chosen)
    BY <2>2, <2>3, ExpertsAreBest
  <2> QED BY <2>4 DEF ExpertsAreTheBest, Best, Before
<1>3. IInv => TopKIsTheTop
  BY <1>1, <1>2 DEF TopKIsTheTop
<1> QED BY <1>3, Invariance, PTL
=============================================================================
