------------------------------- MODULE Llama -------------------------------
(* pkg/model/llama.  A token is embedded on the host and uploaded; a failed *)
(* KVCacheAppend sets GPUKVStale, which ends uploads and device attention.  *)
EXTENDS ForwardState

\* Mutant: weights without fused paths take part.
initResidencyAnyQuant(c) == AllOffloaded(c)

\* initResidency: all layers on the device, whose fused paths it supports.
initResidency(c) == c.fused /\ AllOffloaded(c)
Load(c) == Loaded(c, c.ctx, FALSE, initResidency(c), initResidency(c))

Forward(n) == Starts(n, cfg.nBatch > 1 /\ n > 1)
Embed(n) == StartsEmbed(n, AllCleared)
ResetCache == Resets(AllCleared)

uploadHidden == Uploads(decode.residency /\ ~decode.stale)

forwardToken ==
  /\ AtToken /\ StartsLayers
  /\ uploadHidden
  /\ UNCHANGED kv

forwardBlockDevice == DeviceLayer

recoverHiddenFromDevice ==
  /\ AtDeviceBlock
  /\ QKVMayFail /\ ~decode.hollow
  /\ Recovers(decode)
  /\ UNCHANGED kv

attentionScoresInto(dkv, l, stale, onHost) == Attends(dkv, l, ~stale, onHost)
matmulInto == HostFails

\* The layer on the host: the fused QKV over the device KV, or the host's own
\* rows, their append to both caches, and attention.
forwardBlock ==
  LET l == run.layer
      rows == Appended(kv.rows, l, run.x)
      dkv == Written(l, run.x)
  IN  /\ AtHostBlock /\ RoomFor(kv.rows, l)
      /\ \/ /\ l \in OnGPU /\ ~decode.stale /\ HasSlots
            /\ HostLayer(rows, [kv |-> dkv, stale |-> FALSE], DeviceReads(dkv, l), TRUE)
         \/ /\ l \notin OnGPU \/ decode.stale \/ ~HasSlots \/ Fault("qkv")
            /\ \E m \in Mirror(l, ~decode.stale, TRUE) :
                 \E attended \in attentionScoresInto(m.kv, l, m.stale, HostReads(rows, l)) :
                   HostLayer(rows, m, attended, TRUE)

logitsFinish ==
  LET asked == decode.residDevice /\ decode.logitsOnGPU
  IN  \/ asked /\ LogitsOnDevice(TRUE)
      \/ /\ AtLogits /\ NoLogitsOnDevice(asked)
         /\ FromHost([decode EXCEPT !.logitsOnGPU = @ /\ ~asked], FALSE)

attentionBatchCausalInto(rows, m, l) == Attends(m.kv, l, ~m.stale, HostReads(rows, l))

forwardBatch == StartsChunk(kv, decode, TRUE) \/ ChunkFails \/ BatchLogits(FALSE)

forwardBlockBatch ==
  LET l == run.layer
      rows == Appended(kv.rows, l, run.x)
  IN  /\ RoomFor(kv.rows, l)
      /\ \E m \in Mirror(l, ~decode.stale, TRUE) :
           \E attended \in attentionBatchCausalInto(rows, m, l) :
             BatchLayer(rows, m, attended)

Next ==
  /\ \/ \E n \in 1..CtxLen : Forward(n) \/ Embed(n)
     \/ ResetCache
     \/ forwardToken \/ forwardBlockDevice \/ HollowLayerLost(AllCleared)
     \/ recoverHiddenFromDevice \/ forwardBlock \/ matmulInto
     \/ forwardBatch \/ forwardBlockBatch \/ logitsFinish \/ EmbedEnds
  /\ UNCHANGED cfg
=============================================================================
