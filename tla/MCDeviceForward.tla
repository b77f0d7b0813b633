--------------------------- MODULE MCDeviceForward ---------------------------
EXTENDS DeviceForward

\* A failing product leaves its vector's name behind (backend.go:1907), and the next
\* product with the same buffer skips its upload: where products are not fused, or are
\* the fallback of what is, an instance has only the failures that lead to none. Two
\* failures in a row leave the flag of the attention set (backend.go:1602): an instance
\* with two has only lost KV appends.
Costs == {"upload", "launch", "pool", "kv", "peer", "download"}

\* One device holds the whole model and runs its fused operations.
Dense ==
  [family |-> "dense", devices |-> 1, split |-> <<>>, ngl |-> NumLayers, peer |-> FALSE,
   gather |-> FALSE, fusedQKV |-> TRUE, attnFFN |-> TRUE, postNorms |-> FALSE, quant |-> TRUE, residency |-> TRUE,
   headOnGPU |-> FALSE, moeGPU |-> FALSE, nBatch |-> 1, vram |-> 100, caps |-> NoCaps,
   faults |-> 1, can |-> Costs, evicts |-> 0]
Batch == [Dense EXCEPT !.nBatch = 2]
OnHost == [Dense EXCEPT !.residency = FALSE, !.can = Costs \ {"pool"}]
Unfused == [OnHost EXCEPT !.fusedQKV = FALSE, !.can = {"kv"}]
MoE == [Dense EXCEPT !.family = "moe", !.moeGPU = TRUE, !.can = Costs \ {"pool"}]
MoEOnHost == [MoE EXCEPT !.residency = FALSE, !.headOnGPU = TRUE]
Phi2 == [Dense EXCEPT !.family = "phi2", !.fusedQKV = FALSE, !.attnFFN = FALSE,
                      !.can = Costs \ {"pool"}]
MLA == [OnHost EXCEPT !.family = "mla", !.fusedQKV = FALSE, !.attnFFN = FALSE,
                      !.can = {"kv", "launch"}]

\* Two devices, a layer each.
Two(c) == [c EXCEPT !.devices = 2, !.peer = TRUE]
Small(c, vram) == [c EXCEPT !.vram = vram, !.postNorms = TRUE, !.faults = 0]

MCConfigs ==
  {Dense, [Dense EXCEPT !.gather = TRUE], Batch, OnHost, [OnHost EXCEPT !.nBatch = 2, !.ngl = 1],
   [OnHost EXCEPT !.attnFFN = FALSE], Unfused, [Unfused EXCEPT !.attnFFN = FALSE],
   [OnHost EXCEPT !.quant = FALSE], [OnHost EXCEPT !.quant = FALSE, !.nBatch = 2, !.headOnGPU = TRUE],
   [Unfused EXCEPT !.quant = FALSE], MoE, MoEOnHost, [MoEOnHost EXCEPT !.moeGPU = FALSE, !.faults = 0], Phi2, MLA}
  \cup {Two(c) : c \in {Dense, Batch, Unfused, MoE, MoEOnHost, MLA}}
  \cup {[Two(Phi2) EXCEPT !.can = {"kv", "peer", "download"}], [Two(MoE) EXCEPT !.peer = FALSE],
        [Dense EXCEPT !.devices = 3, !.split = <<0, 1, 1>>]}
  \cup {[c EXCEPT !.faults = 2, !.can = {"kv"}] : c \in {OnHost, [OnHost EXCEPT !.nBatch = 2]}}
  \cup {Small(c, vram) : c \in {Dense, MoE, Unfused}, vram \in {12, 18}}
  \cup {[c EXCEPT !.evicts = 1, !.caps.entries = 12, !.faults = 0] : c \in {Dense, Two(MoE)}}

\* Experts on the host, and no fused QKV: with this value KernelsReadTheirInputs is
\* violated although no call fails (README, findings).
StaleVecConfigs == {[MoEOnHost EXCEPT !.fusedQKV = FALSE, !.moeGPU = FALSE, !.faults = 0]}
=============================================================================
