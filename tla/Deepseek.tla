----------------------------- MODULE Deepseek -----------------------------
(* pkg/model/deepseek: dense layers or layers of experts with a shared one. *)
(* A failed KVCacheAppend is ignored, attention always asks the device, and *)
(* ResetCache takes the logits off the device for good.                     *)
EXTENDS ForwardState

initResidency(c) == c.fused /\ AllOffloaded(c)

\* Load: experts are serial.
Load(c) == Loaded(c, c.ctx, c.moe, initResidency(c), AllOffloaded(c))

cleared == [AllCleared EXCEPT !.logitsOnGPU = FALSE]

Forward(n) == Starts(n, cfg.nBatch > 1 /\ n > 1)
Embed(n) == StartsEmbed(n, cleared)
ResetCache == Resets(cleared)

uploadHidden == Uploads(decode.residency /\ ~decode.stale)

forwardToken ==
  /\ AtToken /\ StartsLayers
  /\ uploadHidden
  /\ UNCHANGED kv

forwardBlockDevice == ~cfg.moe /\ DeviceLayer
forwardBlockDeviceMoE == cfg.moe /\ DeviceLayer

recoverHiddenFromDevice ==
  /\ AtDeviceBlock
  /\ QKVMayFail /\ ~decode.hollow
  /\ Recovers(decode)
  /\ UNCHANGED kv

\* moeExpertsGPU clears moeAcc when an expert fails.
moeExpertsGPU(l, sum) ==
  (IF l \in OnGPU THEN {[ok |-> TRUE, sum |-> AllExperts(sum)]} ELSE {}) \cup
  (IF l \notin OnGPU \/ Fault("expert") THEN {[ok |-> FALSE, sum |-> NoSum]} ELSE {})

sharedExpert(sum) == WithShared(sum)

\* ffnMoE: the experts on the device, or all of them on the host.
ffnMoE(l) ==
  {sharedExpert(IF g.ok THEN g.sum ELSE AllExperts(g.sum)) : g \in moeExpertsGPU(l, NoSum)}

\* AttentionScoresKV, then AttentionScoresInto, which the device computes over
\* the rows of the host.
attentionScoresInto(dkv, l, onHost) == Attends(dkv, l, TRUE, onHost)
attentionBatchCausalInto(rows, dkv, l) == Attends(dkv, l, TRUE, HostReads(rows, l))
matmulInto == HostFails

forwardBlock ==
  LET l == run.layer
      rows == Appended(kv.rows, l, run.x)
      ffn == IF cfg.moe THEN {Complete(sum) : sum \in ffnMoE(l)} ELSE {TRUE}
  IN  /\ AtHostBlock /\ RoomFor(kv.rows, l)
      /\ \E right \in ffn, m \in Mirror(l, TRUE, FALSE) :
           \E attended \in attentionScoresInto(m.kv, l, HostReads(rows, l)) :
             HostLayer(rows, m, attended /\ right, FALSE)

\* logitsFromLast: over d_resid, which stays; after an upload; on the host.
logitsFromLast ==
  LET asked == decode.residDevice /\ decode.logitsOnGPU
  IN  \/ asked /\ LogitsOnDevice(TRUE)
      \/ /\ AtLogits /\ NoLogitsOnDevice(asked)
         /\ FromHost([decode EXCEPT !.logitsOnGPU = @ /\ ~asked],
                     decode.logitsOnGPU /\ ~asked)

\* The logits of a chunk are computed on the host.
forwardBatch == StartsChunk(kv, decode, FALSE) \/ BatchLogits(FALSE)

forwardBlockBatch ==
  LET l == run.layer
      rows == Appended(kv.rows, l, run.x)
      kept == [kv |-> dev.kv, stale |-> decode.stale]
  IN  /\ run.pc = "batch" /\ RoomFor(kv.rows, l)
      /\ \/ /\ l \in OnGPU /\ HasSlots
            /\ \E attended \in attentionBatchCausalInto(rows, Written(l, run.x), l) :
                 BatchLayer(rows, [kept EXCEPT !.kv = Written(l, run.x)], attended)
         \/ /\ l \notin OnGPU \/ ~HasSlots \/ Fault("append")
            /\ BatchLayer(rows, kept, HostReads(rows, l))

Next ==
  /\ \/ \E n \in 1..CtxLen : Forward(n) \/ Embed(n)
     \/ ResetCache
     \/ forwardToken \/ forwardBlockDevice \/ forwardBlockDeviceMoE
     \/ HollowLayerLost(cleared) \/ recoverHiddenFromDevice
     \/ forwardBlock \/ matmulInto
     \/ forwardBatch \/ forwardBlockBatch \/ logitsFromLast \/ EmbedEnds
  /\ UNCHANGED cfg
=============================================================================
