----------------------------- MODULE LayerSplit -----------------------------
(***************************************************************************)
(* pkg/device/multi.go: which device computes which layer.                  *)
(***************************************************************************)
EXTENDS Integers, Sequences

Smaller(a, b) == IF a < b THEN a ELSE b
Larger(a, b) == IF a < b THEN b ELSE a

Weight(w) == IF w > 0 THEN w ELSE 0
WeightUpTo(split, i) ==
  LET sum[j \in 0..i] == IF j = 0 THEN 0 ELSE sum[j - 1] + Weight(split[j]) IN sum[i]

\* Mutant: the layers left over by an even split go to nobody.
LayerSplitBoundsEven(layers, n, split) == [i \in 0..n |-> i * (layers \div n)]

\* LayerSplitBounds: device i has the layers bounds[i]..bounds[i+1]-1, even
\* without usable weights, else proportional and rounded to nearest.
LayerSplitBounds(layers, n, split) ==
  LET total == IF Len(split) = n THEN WeightUpTo(split, n) ELSE 0
      even == [i \in 0..n |-> i * (layers \div n) + Smaller(i, layers % n)]
      nearest == [i \in 0..n |-> IF i = 0 THEN 0
                                 ELSE (2 * WeightUpTo(split, i) * layers + total) \div (2 * total)]
  IN  IF total <= 0 THEN even
      ELSE [i \in 0..n |-> IF i = n THEN layers ELSE Smaller(nearest[i], layers)]

\* The owner of a layer (deviceForLayer); of one outside of the plan the last device
\* that has layers.
OwnerOf(bounds, layer) ==
  LET owners == {i \in DOMAIN bounds \ {0} : bounds[i - 1] <= layer /\ layer < bounds[i]}
      busy == {i \in DOMAIN bounds \ {0} : bounds[i - 1] < bounds[i]}
  IN  IF owners # {} THEN (CHOOSE i \in owners : TRUE) - 1
      ELSE IF busy # {} THEN (CHOOSE i \in busy : \A j \in busy : j <= i) - 1
      ELSE 0
=============================================================================
