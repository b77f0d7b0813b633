---------------------------- MODULE CudaBackend ----------------------------
(***************************************************************************)
(* pkg/device/cuda: one device, and what each operation of the backend does *)
(* to it.  A device is a record                                             *)
(*   lru, graphs, caps   the weight cache                                   *)
(*   resid, active       d_resid and hiddenResident                         *)
(*   moe                 the snapshot d_moe_h                               *)
(*   vec, lastVec        d_vec, and the host buffer said to be in it        *)
(*   skipAttn            skip_attn_htod: d_vec holds the attention          *)
(*   kv                  the rows of each local layer                       *)
(* The content of a vector is what it was computed from: token, layer and   *)
(* stage within the layer.                                                  *)
(*                                                                          *)
(* An operation o holds b.mu from its first matrix to its end: it uploads   *)
(* o.todo one by one (o.held are done), then launches its kernels.  Each    *)
(* definition below is the set of outcomes of that launch: the device       *)
(* after it, what the kernels read, and how it ended.  An outcome that      *)
(* something must go wrong for names it in cost.                            *)
(***************************************************************************)
EXTENDS WeightCache

CONSTANTS NumLayers, MaxTokens

\* at: "x", "h", "attn", "xa", "part", "hf", "act", "out" along a layer, "kv" or "junk".
Content(tok, layer, at) == [tok |-> tok, layer |-> layer, at |-> at]
Junk == Content(0, 0, "junk")
At(c, stage) == IF c = Junk THEN Junk ELSE [c EXCEPT !.at = stage]
NextLayer(c) == IF c = Junk THEN Junk ELSE Content(c.tok, c.layer + 1, "x")

OpenDevice ==
  [lru |-> <<>>, graphs |-> {}, caps |-> NoCaps, resid |-> Junk, active |-> FALSE, moe |-> Junk,
   vec |-> Junk, lastVec |-> None, skipAttn |-> FALSE,
   kv |-> [l \in 0..NumLayers-1 |-> [p \in 0..MaxTokens-1 |-> Junk]]]

Input(c) == [in |-> c, attn |-> Junk, rows |-> <<>>]

Ok(g, o, read) ==
  [gpu |-> [g EXCEPT !.graphs = IF o.held = {} THEN @ ELSE @ \cup {o.held}],
   read |-> read, rc |-> "ok", cost |-> None]
Fails(g, cost) == [gpu |-> g, read |-> Input(Junk), rc |-> "failed", cost |-> cost]
FailsKV(g) == [Fails(g, "kv") EXCEPT !.rc = "kv"]

clearResidencyLocked(g) == [g EXCEPT !.active = FALSE, !.moe = Junk]

-----------------------------------------------------------------------------
(* ensureQuantMatrix, ensureQ8Matrix, ensureFP32Matrix and ensureHeadNorm    *)

Ensure(g, m, vram) ==
  LET room == MadeRoom(g.lru, m, vram)
      evicted == freeWeights(g, room)
  IN  IF m \in OnDevice(g.lru)
      THEN {[gpu |-> [g EXCEPT !.lru = Touched(@, m)], rc |-> "ok", cost |-> None]}
      ELSE {IF Fits(room, m, vram)
            THEN [gpu |-> freeWeights(evicted, Enforced(Touched(room, m), g.caps)),
                  rc |-> "ok", cost |-> None]
            ELSE [gpu |-> evicted, rc |-> "failed", cost |-> None],
            [gpu |-> g, rc |-> "failed", cost |-> "upload"]}

-----------------------------------------------------------------------------
(* Products with a vector, and the gated FFN                                 *)

\* prepareVecUpload: the kernels read what is on the device when it is said to
\* hold the same buffer.
Sent(g, o) == IF o.buf # None /\ g.lastVec = o.buf THEN g.vec ELSE o.content

\* Mutant: lastVec outlives kernels that write into d_vec.
OverwrittenKeepsVec(g) == [g EXCEPT !.vec = Junk]

\* The kernels use d_vec for themselves and lastVecAddr is cleared.
Overwritten(g) == [g EXCEPT !.vec = Junk, !.lastVec = None]

\* lastVec names the buffer even when the call fails before it was sent.
MatMulVecCachedInto(g, o) ==
  LET named == [g EXCEPT !.lastVec = o.buf]
      sent == [named EXCEPT !.vec = Sent(g, o)]
  IN  {Ok(sent, o, Input(Sent(g, o))), Fails(sent, "launch"), Fails(named, "pool")}

FFNSwiGLUCached(g, o) ==
  {Ok(Overwritten(g), o, Input(Sent(g, o))), Fails(Overwritten(g), "launch")}

\* The batch is always uploaded.
MatMulMatCachedInto(g, o) ==
  {Ok(Overwritten(g), o, Input(o.content)), Fails(Overwritten(g), "launch")}

\* Quantised matrices have kernels of their own; d_vec is used the same way.
matMulVecQuantCachedInto(g, o) == MatMulVecCachedInto(g, o)
ffnGatedQuantCached(g, o) == FFNSwiGLUCached(g, o)
matMulMatQuantCachedInto(g, o) == MatMulMatCachedInto(g, o)

\* GELUInPlace and SwiGLUInPlace work on buffers of their own.
GELUInPlace(g, o) == {Ok(g, o, Input(o.content)), Fails(g, "launch")}

-----------------------------------------------------------------------------
(* KV cache and attention                                                    *)

Positions(o) == o.pos..(o.pos + o.n - 1)
RowOf(o, c, p) ==
  IF c = Junk THEN Junk ELSE Content(c.tok - (o.pos + o.n - 1 - p), c.layer, "kv")
Stored(g, o, c) ==
  [g EXCEPT !.kv[o.local] =
    [p \in DOMAIN @ |-> IF p \in Positions(o) THEN RowOf(o, c, p) ELSE @[p]]]
Rows(g, o) == [p \in 1..(o.pos + o.n) |-> g.kv[o.local][p - 1]]

\* KVCacheAppend and KVCacheAppendN
KVCacheAppendN(g, o) == {Ok(Stored(g, o, o.content), o, Input(o.content)), FailsKV(g)}

\* AttentionScoresKV(Batch) and MLAAttention: d_vec takes no part.
AttentionScoresKV(g, o) ==
  {Ok(g, o, [Input(o.content) EXCEPT !.rows = Rows(g, o)]), Fails(g, "launch")}

\* With x == nil the hidden state is read where it is.
Resident(g, o) == g.active /\ o.buf = None

\* QKV, RoPE, append and attention: the attention stays in d_vec, the hidden
\* state in d_resid is not changed.
Attends(g, o, read) ==
  LET stored == Stored(g, o, At(read, "h"))
      done == [Overwritten(stored) EXCEPT !.vec = At(read, "attn"), !.skipAttn = TRUE]
  IN  {Ok(done, o, [Input(read) EXCEPT !.rows = Rows(stored, o)]),
       Fails(Overwritten(g), "launch"), FailsKV(Overwritten(g))}

QKVRoPEAttentionCached(g, o) == Attends(g, o, o.content)
QKVRoPEAttentionQuantCached(g, o) ==
  Attends(g, o, IF Resident(g, o) THEN g.resid ELSE o.content)

-----------------------------------------------------------------------------
(* Output projection, residual and FFN                                       *)

\* The kernels failed after they had changed d_resid.
Dirty(g, o) ==
  LET used == Overwritten([g EXCEPT !.skipAttn = FALSE])
  IN  IF Resident(g, o) THEN clearResidencyLocked([used EXCEPT !.resid = Junk]) ELSE used

\* Both read the attention in d_vec when skip_attn_htod says so.
ReadsAttention(g, o) ==
  [in |-> IF Resident(g, o) THEN g.resid ELSE o.content,
   attn |-> IF g.skipAttn THEN g.vec ELSE o.attn, rows |-> <<>>]

\* x == nil keeps the residual on the device.
AttnFFNResidualQuantCached(g, o) ==
  LET read == ReadsAttention(g, o)
      used == Overwritten([g EXCEPT !.skipAttn = FALSE])
  IN  IF Resident(g, o) /\ ~g.skipAttn THEN {Fails(Overwritten(g), None)}
      ELSE {Ok(IF Resident(g, o) THEN [used EXCEPT !.resid = NextLayer(@)] ELSE used, o, read),
            Fails(Dirty(g, o), "launch"), Fails(Overwritten(g), "pool")}

\* With FP32 matrices residency ends once they are there.
AttnFFNResidualCached(g, o) == AttnFFNResidualQuantCached(clearResidencyLocked(g), o)

\* AttnOutResidualNormQuantCached: the residual, and its norm as the snapshot
\* that router and experts read.
AttnOutResidualNorm(g, o) ==
  LET read == ReadsAttention(g, o)
      used == Overwritten([g EXCEPT !.skipAttn = FALSE])
  IN  IF Resident(g, o) /\ ~g.skipAttn THEN {Fails(Overwritten(g), None)}
      ELSE {Ok([used EXCEPT !.resid = At(read.in, "xa"), !.moe = At(read.in, "hf"),
                            !.active = TRUE], o, read),
            Fails(Dirty(g, o), "launch"), Fails(Overwritten(g), "pool")}

\* MatMulVecFromMoEHiddenQuant/F32
MatMulVecFromMoEHidden(g, o) ==
  IF g.moe = Junk THEN {Fails(Overwritten(g), None)}
  ELSE {Ok(Overwritten(g), o, Input(g.moe)), Fails(Overwritten(g), "launch")}

\* FFNSwiGLUMoEAccumulateQuant: d_resid += scale * expert.  A failure leaves
\* residency as it is, whatever it did to d_resid.
FFNSwiGLUMoEAccumulate(g, o) ==
  IF ~g.active \/ g.moe = Junk THEN {Fails(Overwritten(g), None)}
  ELSE {Ok(Overwritten([g EXCEPT !.resid = IF @.at = "xa" THEN At(@, "part") ELSE NextLayer(@)]),
           o, [Input(g.resid) EXCEPT !.attn = g.moe]),
        Fails(Overwritten([g EXCEPT !.resid = Junk]), "launch"), Fails(Overwritten(g), "pool")}

-----------------------------------------------------------------------------
(* The resident hidden state                                                 *)

Activated(g, c) == [g EXCEPT !.resid = c, !.active = TRUE, !.lastVec = None]

HiddenUpload(g, o) ==
  {Ok(Activated(g, o.content), o, Input(o.content)), Fails([g EXCEPT !.active = FALSE], "launch")}

HiddenDownload(g, o) ==
  IF ~g.active THEN {Fails(g, None)}
  ELSE {Ok(clearResidencyLocked(g), o, Input(g.resid)), Fails(clearResidencyLocked(g), "launch")}

\* LogitsFromDevice and LogitsFromDeviceLayerNorm
LogitsFromDevice(g, o) ==
  IF ~g.active THEN {Fails(g, None)}
  ELSE {Ok(Overwritten(g), o, Input(g.resid)), Fails(Overwritten(g), "launch")}

\* LayerNormResidInto writes d_vec and leaves lastVec.
LayerNormResidInto(g, o) ==
  IF ~g.active THEN {Fails(g, None)}
  ELSE {Ok([g EXCEPT !.vec = At(g.resid, "h")], o, Input(g.resid)), Fails(g, "launch")}

\* ResidAdd: the first of a layer adds the attention, the second the FFN.
ResidAdd(g, o) ==
  IF ~g.active THEN {Fails(g, None)}
  ELSE {Ok([g EXCEPT !.resid = IF @.at = "x" THEN At(@, "xa") ELSE NextLayer(@)],
           o, [Input(g.resid) EXCEPT !.attn = o.attn]),
        Fails(g, "pool"), Fails([g EXCEPT !.resid = Junk], "launch")}

\* PeerCopyResidTo: a failed copy leaves the source as it was.
PeerCopyResidTo(src, dst) ==
  {[src |-> clearResidencyLocked(src), dst |-> Activated(dst, src.resid), rc |-> "ok", cost |-> None],
   [src |-> src, dst |-> clearResidencyLocked(dst), rc |-> "failed", cost |-> "peer"]}

-----------------------------------------------------------------------------
OfQuant(g, o) ==
  CASE o.kind = "matmul" -> matMulVecQuantCachedInto(g, o)
    [] o.kind = "ffn" -> ffnGatedQuantCached(g, o)
    [] o.kind = "gemm" -> matMulMatQuantCachedInto(g, o)
    [] o.kind = "qkv" -> QKVRoPEAttentionQuantCached(g, o)
    [] o.kind = "attnffn" -> AttnFFNResidualQuantCached(g, o)
OfFloats(g, o) ==
  CASE o.kind = "matmul" -> MatMulVecCachedInto(g, o)
    [] o.kind = "ffn" -> FFNSwiGLUCached(g, o)
    [] o.kind = "gemm" -> MatMulMatCachedInto(g, o)
    [] o.kind = "qkv" -> QKVRoPEAttentionCached(g, o)
    [] o.kind = "attnffn" -> AttnFFNResidualCached(g, o)
Launches(g, o) ==
  CASE o.kind \in {"matmul", "ffn", "gemm", "qkv", "attnffn"} ->
         IF o.quant THEN OfQuant(g, o) ELSE OfFloats(g, o)
    [] o.kind = "act" -> GELUInPlace(g, o)
    [] o.kind = "append" -> KVCacheAppendN(g, o)
    [] o.kind = "scores" -> AttentionScoresKV(g, o)
    [] o.kind = "attnout" -> AttnOutResidualNorm(g, o)
    [] o.kind = "router" -> MatMulVecFromMoEHidden(g, o)
    [] o.kind = "expert" -> FFNSwiGLUMoEAccumulate(g, o)
    [] o.kind = "upload" -> HiddenUpload(g, o)
    [] o.kind = "download" -> HiddenDownload(g, o)
    [] o.kind = "logits" -> LogitsFromDevice(g, o)
    [] o.kind = "lnresid" -> LayerNormResidInto(g, o)
    [] o.kind = "residadd" -> ResidAdd(g, o)

\* EmbedGatherQ8_0 asks for as many bytes as the matrix takes on the device,
\* where a block has 36 bytes; the tensor has 34.
Q8_0Block == [host |-> 34, device |-> 36]
EmbedGatherRefuses == Q8_0Block.host < Q8_0Block.device

\* A fused operation without x needs the hidden state on the device.
Refuses(g, o) ==
  \/ o.kind \in {"qkv", "attnffn", "attnout"} /\ o.buf = None /\ (~g.active \/ ~o.quant)
  \/ o.kind = "gather" /\ EmbedGatherRefuses

\* What an operation does before its first matrix: with x the fused FFN and
\* output projection end the residency.
Entered(g, o) ==
  IF o.quant /\ o.kind \in {"attnffn", "attnout"} /\ o.buf # None THEN clearResidencyLocked(g) ELSE g
=============================================================================
