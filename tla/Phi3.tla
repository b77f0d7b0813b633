------------------------------- MODULE Phi3 -------------------------------
(* pkg/model/phi3.  As llama, but a failed fused layer rebuilds the device *)
(* KV from the host, the logits end residency, a batch ignores a failed    *)
(* append, and attention asks the device whether it is stale or not.       *)
EXTENDS ForwardState

initResidency(c) == c.fused /\ AllOffloaded(c)
Load(c) == Loaded(c, c.ctx, FALSE, initResidency(c), AllOffloaded(c))

Forward(n) == Starts(n, cfg.nBatch > 1 /\ n > 1)
Embed(n) == StartsEmbed(n, AllCleared)
ResetCache == Resets(AllCleared)

uploadHidden == Uploads(decode.residency /\ ~decode.stale)

forwardToken ==
  /\ AtToken /\ StartsLayers
  /\ uploadHidden
  /\ UNCHANGED kv

forwardBlockDevice == DeviceLayer

\* tryRecoverGPUKV: the layers below j are written again from the host; j is
\* the layer whose rows do not fit or whose append fails.
tryRecoverGPUKV ==
  LET rewritten(j) ==
        [l \in Layers |->
          IF l \in OnGPU /\ l < j
          THEN (dev.kv[l] \ (0..Len(kv.rows[l])-1)) \cup
               {i \in 0..Len(kv.rows[l])-1 : kv.rows[l][i + 1] = i}
          ELSE dev.kv[l]]
      fits(l) == Len(kv.rows[l]) <= cfg.maxSeq
  IN  {[kv |-> rewritten(j), stale |-> j < NumLayers] :
        j \in {j \in 0..NumLayers :
                /\ \A l \in OnGPU : l < j => fits(l)
                /\ j < NumLayers =>
                     /\ j \in OnGPU /\ kv.rows[j] # <<>>
                     /\ Fault("append") \/ ~fits(j)}}

\* A fused layer that failed with a code of -2... or -6 (beyond the capacity
\* it is -22) makes the device stale and rebuilds it.  Then x is recovered.
recoverHiddenFromDevice ==
  /\ AtDeviceBlock
  /\ QKVMayFail /\ ~decode.hollow
  /\ \/ /\ dev.active
        /\ \E m \in tryRecoverGPUKV :
             /\ dev' = [dev EXCEPT !.active = FALSE, !.kv = m.kv]
             /\ decode' = [decode EXCEPT !.stale = m.stale, !.residDevice = FALSE,
                                         !.residency = FALSE]
             /\ \/ run' = [run EXCEPT !.pc = "host", !.x = dev.resid]
                \/ Fault("download") /\ Fails
     \/ /\ ~dev.active \/ (Fault("qkv") /\ HasSlots)
        /\ Recovers(decode)
  /\ UNCHANGED kv

attentionScoresInto(dkv, l, onHost) == Attends(dkv, l, TRUE, onHost)
attentionBatchCausalInto(rows, dkv, l) == Attends(dkv, l, TRUE, HostReads(rows, l))

\* The fused QKV and AttnFFN of this path need residency, with which every
\* token has been uploaded: they are never taken.  attentionScoresInto does
\* not look at GPUKVStale.
forwardBlock ==
  LET l == run.layer
      rows == Appended(kv.rows, l, run.x)
  IN  /\ AtHostBlock /\ RoomFor(kv.rows, l)
      /\ \E m \in Mirror(l, ~decode.stale, TRUE) :
           \E attended \in attentionScoresInto(m.kv, l, HostReads(rows, l)) :
             HostLayer(rows, m, attended, FALSE)

logitsFinish ==
  LET asked == decode.residDevice /\ decode.logitsOnGPU
  IN  \/ asked /\ LogitsOnDevice(FALSE)
      \/ /\ AtLogits /\ NoLogitsOnDevice(asked)
         /\ FromHost([decode EXCEPT !.logitsOnGPU = @ /\ ~asked],
                     decode.logitsOnGPU /\ ~asked)

\* logitsFromLast, over the last row of the chunk; nothing is resident then.
logitsFromLast == BatchLogits(decode.logitsOnGPU)

forwardBatch == StartsChunk(kv, decode, FALSE)

\* A failed append of the chunk keeps this attention off the device, and is
\* forgotten.
forwardBlockBatch ==
  LET l == run.layer
      rows == Appended(kv.rows, l, run.x)
      kept == [kv |-> dev.kv, stale |-> decode.stale]
  IN  /\ run.pc = "batch" /\ RoomFor(kv.rows, l)
      /\ \/ /\ l \in OnGPU /\ HasSlots
            /\ \E attended \in attentionBatchCausalInto(rows, Written(l, run.x), l) :
                 BatchLayer(rows, [kept EXCEPT !.kv = Written(l, run.x)], attended)
         \/ /\ l \notin OnGPU \/ ~HasSlots \/ Fault("append")
            /\ BatchLayer(rows, kept, HostReads(rows, l))

Next ==
  /\ \/ \E n \in 1..CtxLen : Forward(n) \/ Embed(n)
     \/ ResetCache
     \/ forwardToken \/ forwardBlockDevice \/ HollowLayerLost(AllCleared)
     \/ recoverHiddenFromDevice \/ forwardBlock \/ HostFails
     \/ forwardBatch \/ forwardBlockBatch \/ logitsFinish \/ logitsFromLast \/ EmbedEnds
  /\ UNCHANGED cfg
=============================================================================
