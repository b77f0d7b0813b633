---------------------------- MODULE ModelConfig -----------------------------
(***************************************************************************)
(* What a model is loaded with: which loader an architecture selects        *)
(* (pkg/model), the hyperparameters each ParseConfig accepts, the buffers    *)
(* newScratch takes from one arena (mempool), and the experts a router       *)
(* chooses (pkg/exec/moe).                                                   *)
(*                                                                         *)
(* Metadata is a function from the keys a file gives, without the prefix of *)
(* its architecture, to integers; "rows" and "columns" are the dimensions   *)
(* of token_embd.weight.  Only what sizes something or refuses a file is    *)
(* kept: RoPE, norm, weight-scale and soft-cap numbers are left out.        *)
(***************************************************************************)
EXTENDS Integers, Sequences, SequencesExt

Refused == [outcome |-> "error"]
Broken  == [outcome |-> "panic"]          \* a division by zero
Accepted(cfg) == [outcome |-> "config", cfg |-> cfg]

\* The entries of both; of a key in both, the first one's.
With(f, g) == [k \in DOMAIN f \cup DOMAIN g |-> IF k \in DOMAIN f THEN f[k] ELSE g[k]]

Gives(md, keys) == keys \subseteq DOMAIN md
IntOr(md, key, default) == IF Gives(md, {key}) THEN md[key] ELSE default
\* A value that is missing or not positive leaves the default.
PositiveOr(md, key, default) == IF IntOr(md, key, 0) > 0 THEN md[key] ELSE default

\* The other dimension of the embedding table: at most one value, none refuses the file.
VocabSizeFromEmb(md) ==
  IF ~Gives(md, {"rows", "columns"}) THEN {}
  ELSE IF md.rows = md.emb THEN {md.columns}
  ELSE IF md.columns = md.emb THEN {md.rows}
  ELSE {}
Vocab(md) == CHOOSE v \in VocabSizeFromEmb(md) : TRUE

Sizes == {"ctx", "emb", "ffn", "layers", "heads"}
HeadDim(md) == PositiveOr(md, "keyLength", md.emb \div md.heads)
Dims(md, kvHeads) ==
  [ctx |-> md.ctx, emb |-> md.emb, ffn |-> md.ffn, layers |-> md.layers, heads |-> md.heads,
   kvHeads |-> kvHeads, headDim |-> HeadDim(md), vocab |-> Vocab(md)]
Dense == [experts |-> 0, used |-> 0, expertFFN |-> 0, sharedFFN |-> 0, lead |-> 0, gated |-> FALSE]

(***************************************************************************)
(* Which loader (model.go, detect.go)                                       *)
(***************************************************************************)
\* file.name is what general.name mentions; mistralWindow: the window has mistral's prefix.
IsMistralModel(file) ==
  \/ file.arch = "mistral"
  \/ file.arch = "llama" /\ (file.name = "mistral" \/ Gives(file.md, {"window"}) \/ file.mistralWindow)
IsMixtralModel(file) ==
  file.arch = "llama" /\ (IntOr(file.md, "experts", 0) > 0 \/ file.name = "mixtral")
Loader(file) ==
  IF file.arch = "llama" /\ (IsMixtralModel(file) \/ IsMistralModel(file)) THEN "llama_as_mistral" ELSE file.arch

(***************************************************************************)
(* ParseConfig of each architecture                                         *)
(***************************************************************************)
\* llama, mistral and qwen3 divide by the number of heads before they look at it.
ParseLlama(md) ==
  IF ~Gives(md, Sizes \cup {"kvHeads"}) THEN Refused
  ELSE IF md.heads = 0 THEN Broken
  ELSE IF VocabSizeFromEmb(md) = {} THEN Refused
  ELSE Accepted(With(Dims(md, md.kvHeads), Dense))

ParsePhi2(md) ==
  IF ~Gives(md, Sizes) \/ md.heads <= 0 \/ VocabSizeFromEmb(md) = {} THEN Refused
  ELSE Accepted(With(Dims(md, PositiveOr(md, "kvHeads", md.heads)), Dense))

ParsePhi3(md) ==
  IF ~Gives(md, Sizes \cup {"kvHeads"}) \/ md.heads <= 0 \/ VocabSizeFromEmb(md) = {} THEN Refused
  ELSE Accepted(With(Dims(md, md.kvHeads), Dense))

ParseGemma(md, second) ==
  IF ~Gives(md, Sizes) \/ md.heads <= 0 \/ VocabSizeFromEmb(md) = {} THEN Refused
  ELSE Accepted(With([window |-> IF second THEN PositiveOr(md, "window", 4096) ELSE 0,
                      period |-> IF second THEN PositiveOr(md, "period", 2) ELSE 0],
                     With(Dims(md, PositiveOr(md, "kvHeads", md.heads)), Dense)))

\* Two experts when the file does not say how many; more than there are refuse it.
Used(md) == PositiveOr(md, "used", 2)
TooMany(md) == IntOr(md, "experts", 0) > 0 /\ Used(md) > md.experts
Experts(md) ==
  [experts |-> IntOr(md, "experts", 0),
   used |-> IF IntOr(md, "experts", 0) > 0 THEN Used(md) ELSE IntOr(md, "used", 0),
   expertFFN |-> PositiveOr(md, "expertFFN", 0), lead |-> 0, gated |-> FALSE]

ParseQwen3(md) ==
  IF ~Gives(md, Sizes \cup {"kvHeads"}) THEN Refused
  ELSE IF md.heads = 0 THEN Broken
  ELSE IF HeadDim(md) * md.heads # md.emb /\ HeadDim(md) * md.heads <= 0 THEN Refused
  ELSE IF TooMany(md) \/ VocabSizeFromEmb(md) = {} THEN Refused
  ELSE Accepted(With(Dims(md, md.kvHeads), With(Experts(md), Dense)))

ParseMistral(md, window) ==
  IF ~Gives(md, Sizes \cup {"kvHeads"}) THEN Refused
  ELSE IF md.heads = 0 THEN Broken
  ELSE IF TooMany(md) \/ VocabSizeFromEmb(md) = {} THEN Refused
  ELSE Accepted(With([window |-> PositiveOr(md, "window", window), sharedFFN |-> PositiveOr(md, "sharedFFN", 0)],
                     With(Dims(md, md.kvHeads), Experts(md))))

\* The width of an expert is a share of the dense one when the file does not give it.
SplitFFN(cfg) == IF cfg.expertFFN <= 0 /\ cfg.used > 0 THEN cfg.ffn \div cfg.used ELSE cfg.expertFFN

ParseQwen3MoE(md) ==
  LET p == ParseQwen3(md)
  IN  IF p.outcome # "config" THEN p
      ELSE IF p.cfg.experts <= 0 THEN Refused
      ELSE Accepted([p.cfg EXCEPT !.expertFFN = SplitFFN(p.cfg)])

ParseQwen2MoE(md) ==
  LET p == ParseMistral(md, 0)
  IN  IF p.outcome # "config" THEN p
      ELSE IF p.cfg.experts <= 0 THEN Refused
      ELSE Accepted([p.cfg EXCEPT !.gated = TRUE, !.expertFFN = SplitFFN(p.cfg),
                                  !.sharedFFN = IF @ <= 0 THEN p.cfg.ffn ELSE @])

\* DeepSeek: some leading layers are dense, the others need all of the expert keys.
DeepseekExperts(md) ==
  LET e == [k \in {"experts", "used", "shared", "expertFFN"} |-> IntOr(md, k, 0)]
  IN  [experts |-> e.experts, used |-> e.used, expertFFN |-> e.expertFFN, gated |-> FALSE,
       lead |-> IF IntOr(md, "lead", 0) >= 0 THEN IntOr(md, "lead", 0) ELSE 0,
       sharedFFN |-> IF e.shared <= 0 THEN e.expertFFN ELSE e.expertFFN * e.shared]
Incomplete(e, layers) == e.lead < layers /\ (e.experts <= 0 \/ e.used <= 0 \/ e.expertFFN <= 0)

ParseDeepseek(md) ==
  IF ~Gives(md, Sizes \cup {"kvHeads"}) \/ md.heads <= 0 THEN Refused
  ELSE LET e == DeepseekExperts(md)
       IN  IF \/ e.lead > md.layers \/ Incomplete(e, md.layers) \/ VocabSizeFromEmb(md) = {}
              \/ e.lead < md.layers /\ e.used > e.experts
           THEN Refused ELSE Accepted(With(Dims(md, md.kvHeads), e))

\* DeepSeek-V2: latent attention; more experts may be asked for than there are.
ParseDeepseek2(md) ==
  IF ~Gives(md, Sizes) \/ md.heads <= 0 \/ IntOr(md, "kvLora", 0) <= 0 THEN Refused
  ELSE LET e     == DeepseekExperts(md)
           rope  == PositiveOr(md, "rope", 64)
           headK == PositiveOr(md, "keyLengthMLA", HeadDim(md))
           nope  == headK - rope
       IN  IF nope < 1 \/ e.lead > md.layers \/ Incomplete(e, md.layers) \/ VocabSizeFromEmb(md) = {} THEN Refused
           ELSE Accepted(With([rope |-> rope, nope |-> nope, kvLora |-> md.kvLora, qLora |-> IntOr(md, "qLora", 0),
                               vHead |-> PositiveOr(md, "valueLengthMLA", PositiveOr(md, "valueLength", nope))],
                              With(Dims(md, 0), e)))

Parse(loader, md) ==
  CASE loader = "llama" -> ParseLlama(md)
    [] loader = "phi2" -> ParsePhi2(md)
    [] loader = "phi3" -> ParsePhi3(md)
    [] loader = "gemma" -> ParseGemma(md, FALSE)
    [] loader = "gemma2" -> ParseGemma(md, TRUE)
    [] loader = "qwen3" -> ParseQwen3(md)
    [] loader = "qwen3moe" -> ParseQwen3MoE(md)
    [] loader \in {"mistral", "llama_as_mistral"} -> ParseMistral(md, 4096)
    [] loader = "qwen2" -> ParseMistral(md, 0)
    [] loader = "qwen2moe" -> ParseQwen2MoE(md)
    [] loader = "deepseek" -> ParseDeepseek(md)
    [] loader = "deepseek2" -> ParseDeepseek2(md)
    [] OTHER -> Refused

IsMoELayer(cfg, layer) == cfg.experts > 0 /\ layer >= cfg.lead
ExpertFFN(cfg) == IF cfg.expertFFN > 0 THEN cfg.expertFFN ELSE cfg.ffn

\* Mutant: the shared expert is forgotten.
MaxFFNUnshared(cfg) == Max({cfg.ffn, ExpertFFN(cfg)})

MaxFFN(cfg) == Max({cfg.ffn, ExpertFFN(cfg), cfg.sharedFFN})

(***************************************************************************)
(* Buffers (newScratch): what the arena is made for and what is taken of    *)
(* it; nothing depends on the order among the buffers.  Those of one token  *)
(* are the first rows of the batch's.                                       *)
(***************************************************************************)
Rows(nBatch) == Max({nBatch, 1})
QDim(c) == c.heads * c.headDim
KVDim(c) == c.kvHeads * c.headDim
NExp(c) == Max({c.experts, 1})

UngatedBuffers(c, n, ffn) ==
  <<<<"x", n * c.emb>>, <<"h", n * c.emb>>, <<"q", n * QDim(c)>>, <<"k", n * KVDim(c)>>,
    <<"v", n * KVDim(c)>>, <<"attn", n * QDim(c)>>, <<"up", n * ffn>>>>
BatchBuffers(c, n, ffn) == UngatedBuffers(c, n, ffn) \o <<<<"gate", n * ffn>>>>
OneToken(c) == <<<<"scores", c.ctx>>, <<"logits", c.vocab>>>>
MoEBuffers(c) == <<<<"scores", c.ctx>>, <<"router", NExp(c)>>, <<"moeAcc", c.emb>>, <<"tmp", c.emb>>, <<"logits", c.vocab>>>>

LlamaScratch(c, nBatch) ==
  LET n == Rows(nBatch)
  IN  [need |-> n * (2 * c.emb + 2 * QDim(c) + 2 * KVDim(c) + 2 * c.ffn) + c.ctx + 2 * c.vocab,
       buffers |-> BatchBuffers(c, n, c.ffn) \o OneToken(c)]
GemmaScratch(c, nBatch) == LlamaScratch(c, nBatch)

MistralScratch(c, nBatch) ==
  LET n == Rows(nBatch)
  IN  [need |-> n * (2 * c.emb + 2 * QDim(c) + 2 * KVDim(c) + 2 * MaxFFN(c)) + 2 * c.emb + c.ctx + NExp(c) + 2 * c.vocab,
       buffers |-> BatchBuffers(c, n, MaxFFN(c)) \o MoEBuffers(c)]
DeepseekScratch(c, nBatch) == MistralScratch(c, nBatch)

Qwen3Scratch(c, nBatch) ==
  LET n == Rows(nBatch)
  IN  [need |-> n * (4 * c.emb + 2 * QDim(c) + 2 * KVDim(c) + 2 * MaxFFN(c)) + c.ctx + NExp(c) + c.emb + c.vocab,
       buffers |-> BatchBuffers(c, n, MaxFFN(c)) \o MoEBuffers(c)]

Phi2Scratch(c, nBatch) ==
  LET n == Rows(nBatch)
      qkv == QDim(c) + 2 * KVDim(c)
  IN  [need |-> n * (3 * c.emb + qkv + QDim(c) + 2 * KVDim(c) + QDim(c) + c.ffn) + c.ctx + 2 * c.vocab,
       buffers |-> UngatedBuffers(c, n, c.ffn) \o <<<<"attnOut", n * c.emb>>, <<"qkv", n * qkv>>>> \o OneToken(c)]

Phi3Scratch(c, nBatch) ==
  LET n == Rows(nBatch)
      qkv == QDim(c) + 2 * KVDim(c)
  IN  [need |-> n * (2 * c.emb + qkv + QDim(c) + 2 * KVDim(c) + QDim(c) + 4 * c.ffn) + c.ctx + 2 * c.vocab,
       buffers |-> BatchBuffers(c, n, c.ffn) \o <<<<"qkv", n * qkv>>, <<"gateUp", n * 2 * c.ffn>>>> \o OneToken(c)]

\* One row only; RopeDim, the length of qPe, is not part of what the arena is made for.
Deepseek2Scratch(c) ==
  LET full == c.heads * (c.nope + c.rope)
      abs  == c.kvLora + c.rope
      v    == c.heads * c.vHead
      pack == c.heads * c.rope
      lora == Max({c.qLora, 1})
      kvExp == c.nope + c.vHead
  IN  [need |-> 4 * c.emb + 2 * full + c.heads * abs + abs + c.kvLora + full + v + pack + v
                + c.ctx + 2 * MaxFFN(c) + NExp(c) + lora + c.vocab + abs + kvExp,
       buffers |-> <<<<"x", c.emb>>, <<"h", c.emb>>, <<"q", full>>, <<"qAbs", c.heads * abs>>, <<"qRope", full>>,
                     <<"kvPe", abs>>, <<"k", abs>>>>
                  \o <<<<"v", c.kvLora>>, <<"kMHA", full>>, <<"vMHA", v>>, <<"pePack", pack>>, <<"attn", v>>,
                       <<"gate", MaxFFN(c)>>, <<"up", MaxFFN(c)>>>>
                  \o MoEBuffers(c) \o <<<<"qLora", lora>>, <<"qPe", c.rope>>, <<"kvExp", kvExp>>>>]

Scratch(loader, c, nBatch) ==
  CASE loader = "llama" -> LlamaScratch(c, nBatch)
    [] loader = "phi2" -> Phi2Scratch(c, nBatch)
    [] loader = "phi3" -> Phi3Scratch(c, nBatch)
    [] loader \in {"gemma", "gemma2"} -> GemmaScratch(c, nBatch)
    [] loader \in {"qwen3", "qwen3moe"} -> Qwen3Scratch(c, nBatch)
    [] loader = "deepseek" -> DeepseekScratch(c, nBatch)
    [] loader = "deepseek2" -> Deepseek2Scratch(c)
    [] OTHER -> MistralScratch(c, nBatch)

\* A slice of n from the arena's slab.
Carved(arena, name, n) ==
  [arena EXCEPT !.given = Append(@, [name |-> name, slab |-> arena.slab, from |-> arena.off, to |-> arena.off + n]),
                !.off = @ + n]
\* Alloc: a slab that is too small is replaced by a larger copy; slices of the old one keep it.
Alloc(arena, name, n) ==
  IF n <= 0 THEN arena
  ELSE IF arena.off + n <= arena.cap THEN Carved(arena, name, n)
  ELSE Carved([arena EXCEPT !.cap = Max({2 * arena.cap, arena.off + n, 64}), !.slab = @ + 1], name, n)
NewArena(need) == [cap |-> Max({need, 0}), off |-> 0, slab |-> 0, given |-> <<>>]
Allocated(scratch) ==
  LET b == scratch.buffers
      arena[i \in 0..Len(b)] == IF i = 0 THEN NewArena(scratch.need) ELSE Alloc(arena[i - 1], b[i][1], b[i][2])
  IN  arena[Len(b)]

(***************************************************************************)
(* Experts (moe.go): the router's numbers are a sequence of integers, in    *)
(* the order of their probabilities.                                        *)
(***************************************************************************)
\* Higher first, of equals the lower index.
Before(probs, a, b) == probs[a] > probs[b] \/ (probs[a] = probs[b] /\ a < b)
SortExpertIndices(probs, idxs) ==
  [r \in 1..Cardinality(idxs) |-> CHOOSE a \in idxs : Cardinality({b \in idxs : Before(probs, b, a)}) = r - 1]

\* Mutant: a newcomer that is as good as the worst replaces it.
EntersEqual(probs, i, worst) == probs[i] >= probs[worst]

\* A newcomer replaces the worst of those kept.
Enters(probs, i, worst) == Before(probs, i, worst)
WorstKept(probs, kept) == CHOOSE w \in kept : \A i \in kept : i = w \/ Before(probs, i, w)
Keep(probs, kept, i, k) ==
  IF Cardinality(kept) < k THEN kept \cup {i}
  ELSE IF Enters(probs, i, WorstKept(probs, kept)) THEN (kept \ {WorstKept(probs, kept)}) \cup {i}
  ELSE kept

\* A few of many are kept in a heap, else all are sorted.
TopKIndices(probs, k) ==
  LET n == Len(probs)
      kept[i \in 0..n] == IF i = 0 THEN {} ELSE Keep(probs, kept[i - 1], i, k)
  IN  IF 4 * k >= n THEN SubSeq(SortExpertIndices(probs, 1..n), 1, Min({k, n}))
      ELSE SortExpertIndices(probs, kept[n])

TopKSoftmax(probs, k) == IF probs = <<>> \/ k <= 0 THEN <<>> ELSE TopKIndices(probs, Min({k, Len(probs)}))
=============================================================================
