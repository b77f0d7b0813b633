---------------------------- MODULE WeightCache ----------------------------
(***************************************************************************)
(* pkg/device/cuda/weight_cache.go: the matrices on a device, most recently *)
(* used first, freed from the back when an upload does not fit or a cap is  *)
(* exceeded, except for the weightProtect most recent ones.                 *)
(*                                                                          *)
(* A matrix is <<layer, name>>.  g is the state of a device: g.lru the      *)
(* matrices, g.graphs the captured CUDA graphs (each the set of matrices    *)
(* whose pointers it embeds), g.lastVec the host buffer that is on the      *)
(* device already, or None.                                                 *)
(***************************************************************************)
EXTENDS Integers, Sequences, FiniteSets

CONSTANT weightProtect

ASSUME ProtectAssumption == weightProtect \in Nat

None == "none"
NoCaps == [entries |-> 0, bytes |-> 0]

\* The bytes of a matrix: a vector of norms takes one unit, a product two.
Norms == {"attn_norm", "q_norm", "k_norm", "ffn_norm", "post_attn", "post_ffn", "out_norm"}
Size(m) == IF m[2] \in Norms THEN 1 ELSE 2

OnDevice(lru) == {lru[i] : i \in DOMAIN lru}
Bytes(lru) == 2 * Len(lru) - Cardinality({i \in DOMAIN lru : Size(lru[i]) = 1})

\* A matrix has one element in the list.
Without(lru, m) ==
  IF m \notin OnDevice(lru) THEN lru
  ELSE LET at == CHOOSE i \in DOMAIN lru : lru[i] = m
       IN  SubSeq(lru, 1, at - 1) \o SubSeq(lru, at + 1, Len(lru))

\* touchWeight, and trackWeight before it enforces the caps.
Touched(lru, m) == <<m>> \o Without(lru, m)

OverCaps(lru, caps) ==
  \/ caps.entries > 0 /\ Len(lru) > caps.entries
  \/ caps.bytes > 0 /\ Bytes(lru) > caps.bytes

\* Mutant: nothing is protected.
EnforcedAll(lru, caps) ==
  LET kept == {k \in 0..Len(lru) : ~OverCaps(SubSeq(lru, 1, k), caps)}
  IN  SubSeq(lru, 1, CHOOSE k \in kept : \A j \in kept : j <= k)

\* Mutant: the caps hold nothing back.
EnforcedNever(lru, caps) == lru

\* enforceWeightCaps, with evictOldestWeight: the oldest go while the rest is
\* over the caps and more than weightProtect are left.
Kept(lru, caps) ==
  {k \in 0..Len(lru) : k <= weightProtect \/ ~OverCaps(SubSeq(lru, 1, k), caps)}
Enforced(lru, caps) ==
  SubSeq(lru, 1, CHOOSE k \in Kept(lru, caps) : \A j \in Kept(lru, caps) : j <= k)

\* evictRetry: what is left once m fits into the memory, or would not.
MadeRoom(lru, m, vram) == Enforced(lru, [entries |-> 0, bytes |-> vram - Size(m)])
Fits(lru, m, vram) == Bytes(lru) + Size(m) <= vram

\* Mutant: the graphs stay.
freeWeightsKeepGraphs(g, lru) == [g EXCEPT !.lru = lru]

\* freeWeight of whatever is not in lru any more: captured graphs embed weight
\* pointers, so all of them go.
freeWeights(g, lru) ==
  IF OnDevice(g.lru) \subseteq OnDevice(lru) THEN [g EXCEPT !.lru = lru]
  ELSE [g EXCEPT !.lru = lru, !.graphs = {}, !.lastVec = None]

\* SetWeightCacheLimits, EvictMatricesWithPrefix("blk.l.") and EvictQuantMatrix.
SetWeightCacheLimits(g, caps) == freeWeights([g EXCEPT !.caps = caps], Enforced(g.lru, caps))
EvictMatricesWithPrefix(g, l) ==
  LET kept == {i \in DOMAIN g.lru : g.lru[i][1] # l}
      nth(n) == CHOOSE i \in kept : Cardinality({j \in kept : j <= i}) = n
  IN  freeWeights(g, [n \in 1..Cardinality(kept) |-> g.lru[nth(n)]])
EvictQuantMatrix(g, m) == freeWeights(g, Without(g.lru, m))
=============================================================================
