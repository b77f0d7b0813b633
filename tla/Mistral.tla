------------------------------ MODULE Mistral ------------------------------
(* pkg/model/mistral, which also runs qwen2, mixtral and qwen2moe: llama's  *)
(* pass, with a KV of window size from which the oldest rows are dropped    *)
(* for every token, and with layers of experts.                             *)
EXTENDS ForwardState

\* kvMaxSeq: the capacity of the KV.
kvMaxSeq(c) == IF c.sliding # {} /\ c.window < c.ctx THEN c.window ELSE c.ctx

\* initResidency: not with a window, which the fused QKV does not know.
initResidency(c) == c.fused /\ AllOffloaded(c) /\ c.sliding = {}

\* initMoELogits: with experts, the head may be on the device alone.
initMoELogits(c) == c.moe /\ AllOffloaded(c)

\* loadWithConfig: experts and windows shorter than the context are serial.
loadWithConfig(c) ==
  Loaded(c, kvMaxSeq(c), c.moe \/ c.sliding # {}, initResidency(c),
         initResidency(c) \/ initMoELogits(c))

Forward(n) == Starts(n, cfg.nBatch > 1 /\ n > 1)
Embed(n) == StartsEmbed(n, AllCleared)
ResetCache == Resets(AllCleared)

\* Mutant: the device is believed to have dropped the rows as well.
ensureKVRoomUnnoticed(n) ==
  LET drop == IF cfg.sliding = {} THEN 0 ELSE Overflow(kv, n)
  IN  [kv |-> IF drop > 0 THEN DropOldest(kv, drop) ELSE kv, decode |-> decode]

\* ensureKVRoom: the device cannot drop rows and is stale afterwards.
ensureKVRoom(n) ==
  LET drop == IF cfg.sliding = {} THEN 0 ELSE Overflow(kv, n)
  IN  [kv |-> IF drop > 0 THEN DropOldest(kv, drop) ELSE kv,
       decode |-> [decode EXCEPT !.stale = @ \/ (drop > 0 /\ OnGPU # {})]]

gpuAttnFull(seqLen) == cfg.sliding = {} \/ seqLen <= cfg.window

uploadHidden(d, len) == decode.residency /\ ~d.stale /\ gpuAttnFull(len + 1)

\* ensureKVRoom comes first.  A stale device is not uploaded to.
forwardToken ==
  LET made == ensureKVRoom(1)
  IN  /\ AtToken /\ StartsLayers
      /\ kv' = made.kv
      /\ \/ /\ uploadHidden(made.decode, made.kv.length)
            /\ HiddenUpload
         \/ /\ ~uploadHidden(made.decode, made.kv.length)
            /\ decode' = made.decode
            /\ UNCHANGED dev

\* moeExpertsGPU: experts are added to moeAcc until one fails.
moeExpertsGPU(l, sum) ==
  IF l \notin OnGPU THEN {[ok |-> FALSE, sum |-> sum]}
  ELSE {[ok |-> TRUE, sum |-> AllExperts(sum)]} \cup
       {[ok |-> FALSE, sum |-> WithExperts(sum, n)] :
          n \in {n \in 0..Cardinality(Experts)-1 : Fault("expert")}}

\* sharedExpert: fused on the device, or else matrix by matrix; added once.
sharedExpert(sum) == WithShared(sum)

\* Mutant: the sum is not cleared between the device and the host.
ffnMoEUncleared(l) ==
  {sharedExpert(IF g.ok THEN g.sum ELSE AllExperts(g.sum)) : g \in moeExpertsGPU(l, NoSum)}

\* ffnMoE: the experts on the device, or moeAcc cleared and all on the host.
ffnMoE(l) ==
  {sharedExpert(IF g.ok THEN g.sum ELSE AllExperts(NoSum)) : g \in moeExpertsGPU(l, NoSum)}

\* forwardBlockDevice and forwardBlockDeviceMoE: the layer over d_resid.
forwardBlockDevice == ~cfg.moe /\ DeviceLayer

\* The experts add to d_resid from a snapshot of the norm: all of them, or the
\* layer fails, hollow by then.
forwardBlockDeviceMoE == cfg.moe /\ DeviceLayer

recoverHiddenFromDevice ==
  /\ AtDeviceBlock
  /\ QKVMayFail /\ ~decode.hollow
  /\ Recovers(decode)
  /\ UNCHANGED kv

\* attentionScoresInto asks the device while its window is the whole sequence.
attentionScoresInto(dkv, l, stale, n, onHost) ==
  Attends(dkv, l, ~stale /\ gpuAttnFull(n), onHost)
matmulInto == HostFails

\* attentionKV and the effective length: the rows read for a sequence of n.
attentionKV(rows, l, n) ==
  LET w == cfg.window
      skip == IF cfg.sliding = {} \/ n <= w \/ n - 1 - w >= Len(rows[l]) THEN 0 ELSE n - 1 - w
  IN  SubSeq(rows[l], skip + 1, skip + IF cfg.sliding # {} /\ n > w THEN w ELSE n)

forwardBlock ==
  LET l == run.layer
      n == kv.length + 1
      rows == Appended(kv.rows, l, run.x)
      dkv == Written(l, run.x)
      onHost == attentionKV(rows, l, n) = WindowOf(l, Pos)
      ffn == IF cfg.moe THEN {Complete(sum) : sum \in ffnMoE(l)} ELSE {TRUE}
  IN  /\ AtHostBlock /\ RoomFor(kv.rows, l)
      /\ \E right \in ffn :
           \/ /\ l \in OnGPU /\ ~decode.stale /\ HasSlots /\ gpuAttnFull(n)
              /\ HostLayer(rows, [kv |-> dkv, stale |-> FALSE],
                           DeviceReads(dkv, l) /\ right, ~cfg.moe)
           \/ /\ l \notin OnGPU \/ decode.stale \/ ~HasSlots \/ ~gpuAttnFull(n) \/ Fault("qkv")
              /\ \E m \in Mirror(l, ~decode.stale, TRUE) :
                   \E attended \in attentionScoresInto(m.kv, l, m.stale, n, onHost) :
                     HostLayer(rows, m, attended /\ right, ~cfg.moe)

\* On the device; or synced, and then with experts once more on the device.
logitsFinish ==
  LET asked == decode.residDevice /\ decode.logitsOnGPU
  IN  \/ asked /\ LogitsOnDevice(TRUE)
      \/ /\ AtLogits /\ NoLogitsOnDevice(asked)
         /\ FromHost([decode EXCEPT !.logitsOnGPU = @ /\ ~asked],
                     cfg.moe /\ decode.logitsOnGPU /\ ~asked)

attentionBatchCausalInto(rows, m, l) == Attends(m.kv, l, ~m.stale, HostReads(rows, l))

forwardBatch ==
  \/ LET made == ensureKVRoom(ChunkSize) IN StartsChunk(made.kv, made.decode, TRUE)
  \/ ChunkFails
  \/ BatchLogits(FALSE)

forwardBlockBatch ==
  LET l == run.layer
      rows == Appended(kv.rows, l, run.x)
  IN  /\ RoomFor(kv.rows, l)
      /\ \E m \in Mirror(l, ~decode.stale, TRUE) :
           \E attended \in attentionBatchCausalInto(rows, m, l) :
             BatchLayer(rows, m, attended)

Next ==
  /\ \/ \E n \in 1..CtxLen : Forward(n) \/ Embed(n)
     \/ ResetCache
     \/ forwardToken \/ forwardBlockDevice \/ forwardBlockDeviceMoE
     \/ HollowLayerLost(AllCleared) \/ recoverHiddenFromDevice
     \/ forwardBlock \/ matmulInto
     \/ forwardBatch \/ forwardBlockBatch \/ logitsFinish \/ EmbedEnds
  /\ UNCHANGED cfg
=============================================================================
