-------------------------- MODULE MCArchitectures --------------------------
EXTENDS Architectures

Model(arch, ngl, fused, nBatch, faults) ==
  [arch |-> arch, ctx |-> CtxLen, ngl |-> ngl, gpuMaxSeq |-> 0, maxSeq |-> 0, kvCap |-> 0, nBatch |-> nBatch,
   window |-> CtxLen, sliding |-> {}, moe |-> FALSE, softcap |-> FALSE, absorbed |-> TRUE,
   fused |-> fused, faults |-> faults]

\* Faults whose effects every architecture contains; those of a layer on the
\* device; a lost append or attention, which not every one notices.
Contained == {"matmul", "logits", "upload", "download"}
OfLayers == Contained \cup {"qkv", "attnffn", "expert"}
OfKV == OfLayers \cup {"append", "attention"}

Windowed(c, layers) == [c EXCEPT !.window = 2, !.sliding = layers]

MCConfigs ==
  {Model(arch, 2, TRUE, 1, OfLayers) :
     arch \in {"llama", "mistral", "gemma", "phi3", "phi2", "deepseek"}} \cup
  {Model(arch, 2, TRUE, 2, OfLayers) :
     arch \in {"llama", "mistral", "gemma", "phi3", "phi2", "deepseek"}} \cup
  {Model(arch, 5, FALSE, 2, OfKV) : arch \in {"llama", "mistral", "gemma"}} \cup
  {Model(arch, 1, FALSE, 1, OfLayers) :
     arch \in {"phi3", "phi2", "deepseek", "deepseek2"}} \cup
  {[Model(arch, 2, FALSE, 2, {}) EXCEPT !.gpuMaxSeq = 2] :
     arch \in {"llama", "mistral", "gemma", "phi3", "phi2", "deepseek", "deepseek2"}} \cup
  {[Model(arch, 2, TRUE, 2, OfLayers) EXCEPT !.moe = TRUE] : arch \in {"mistral", "deepseek"}} \cup
  {[Model(arch, 2, FALSE, 2, OfKV) EXCEPT !.moe = TRUE] : arch \in {"mistral", "deepseek2"}} \cup
  {Windowed(Model("mistral", 1, TRUE, 2, OfKV), {0, 1}),
   Windowed(Model("gemma", 2, FALSE, 1, OfKV), {0}),
   [Model("gemma", 2, FALSE, 2, OfKV) EXCEPT !.softcap = TRUE],
   Windowed(Model("gemma", 2, FALSE, 2, {}), {0}),
   Windowed(Model("gemma", 2, TRUE, 1, {"matmul", "download", "qkv", "attnffn", "logits"}), {0}),
   [Model("gemma", 2, TRUE, 1, {"matmul", "download", "qkv", "attnffn", "logits"}) EXCEPT !.softcap = TRUE],
   [Model("deepseek2", 2, FALSE, 1, OfLayers) EXCEPT !.absorbed = FALSE],
   [Model("deepseek2", 2, TRUE, 1, Contained \cup {"attnffn", "append", "attention"})
      EXCEPT !.ctx = 1],
   [Model("deepseek2", 2, TRUE, 1, Contained) EXCEPT !.moe = TRUE, !.ctx = 1]}

\* The theorems of ArchitecturesProofs are about each of these models.
ASSUME ConfigsAreCovered == \A c \in MCConfigs : Covered(c)

\* Values for single questions: the run deepseek2_resident, and batches behind a sliding
\* window, which violate NoPanic (README, findings).
ResidentMLA == {Model("deepseek2", 2, TRUE, 1, {})}
WindowedBatches == {Windowed(Model("gemma", 2, FALSE, 2, {}), {0})}

\* Batches over rows that only the device has, which violate AnswerRight (README, findings).
HollowBatches ==
  {[Model("gemma", 2, TRUE, 2, {}) EXCEPT !.softcap = TRUE],
   [Windowed(Model("gemma", 2, TRUE, 2, {}), {0}) EXCEPT !.window = CtxLen]}
=============================================================================
