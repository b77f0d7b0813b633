------------------------------- MODULE Phi2 -------------------------------
(* pkg/model/phi2.  The residual stays on the device while each matrix is  *)
(* multiplied from the host; a failed KVCacheAppend is ignored and         *)
(* attention always asks the device; ResetCache arms the logits again.     *)
EXTENDS ForwardState

\* initResidency; the head alone may be on the device.
initResidency(c) == c.fused /\ AllOffloaded(c)
Load(c) == Loaded(c, c.ctx, FALSE, initResidency(c), AllOffloaded(c))

cleared ==
  [AllCleared EXCEPT !.logitsOnGPU = AllOffloaded(cfg) \/ decode.residency]

Forward(n) == Starts(n, cfg.nBatch > 1 /\ n > 1)
Embed(n) == StartsEmbed(n, cleared)
ResetCache == Resets(cleared)

uploadHidden == Uploads(decode.residency /\ ~decode.stale)

\* Embed has a loop of its own, without the upload.
forwardToken ==
  /\ AtToken /\ StartsLayers
  /\ IF run.embed THEN UNCHANGED <<dev, decode>> ELSE uploadHidden
  /\ UNCHANGED kv

\* Bump comes before the append to the device and its attention.
forwardBlockDevice == DeviceLayer

deviceBlockLost ==
  /\ AtDeviceBlock
  /\ \/ decode.hollow /\ (~dev.active \/ Fault("qkv"))
     \/ /\ dev.active
        /\ ~HasSlots \/ Fault("append") \/ Fault("attention") \/ Fault("attnffn")
  /\ ResetsAndFails(cleared)

\* LayerNormResidInto or projectQKV failed, before Bump.
recoverHiddenFromDevice ==
  /\ AtDeviceBlock
  /\ ~dev.active \/ Fault("qkv")
  /\ ~decode.hollow
  /\ Recovers(decode)
  /\ UNCHANGED kv

\* projectQKV on the host: a failed product.
projectQKV == HostFails

attentionScoresInto(dkv, l, onHost) == Attends(dkv, l, TRUE, onHost)
attentionBatchCausalInto(rows, dkv, l) == Attends(dkv, l, TRUE, HostReads(rows, l))

forwardBlock ==
  LET l == run.layer
      rows == Appended(kv.rows, l, run.x)
  IN  /\ AtHostBlock /\ RoomFor(kv.rows, l)
      /\ \E m \in Mirror(l, TRUE, FALSE) :
           \E attended \in attentionScoresInto(m.kv, l, HostReads(rows, l)) :
             HostLayer(rows, m, attended, FALSE)

\* logitsFromHidden: over d_resid, which ends; after an upload; on the host.
logitsFinish ==
  LET asked == decode.residDevice
  IN  \/ asked /\ LogitsOnDevice(FALSE)
      \/ /\ AtLogits /\ NoLogitsOnDevice(asked)
         /\ FromHost([decode EXCEPT !.logitsOnGPU = @ /\ ~asked],
                     decode.logitsOnGPU /\ ~asked)

forwardBatch == StartsChunk(kv, decode, FALSE) \/ BatchLogits(decode.logitsOnGPU)

\* A failed append of the chunk keeps this attention off the device, and is
\* forgotten.
forwardBlockBatch ==
  LET l == run.layer
      rows == Appended(kv.rows, l, run.x)
      kept == [kv |-> dev.kv, stale |-> decode.stale]
  IN  /\ run.pc = "batch" /\ RoomFor(kv.rows, l)
      /\ \/ /\ l \in OnGPU /\ HasSlots
            /\ \E attended \in attentionBatchCausalInto(rows, Written(l, run.x), l) :
                 BatchLayer(rows, [kept EXCEPT !.kv = Written(l, run.x)], attended)
         \/ /\ l \notin OnGPU \/ ~HasSlots \/ Fault("append")
            /\ BatchLayer(rows, kept, HostReads(rows, l))

Next ==
  /\ \/ \E n \in 1..CtxLen : Forward(n) \/ Embed(n)
     \/ ResetCache
     \/ forwardToken \/ forwardBlockDevice \/ deviceBlockLost
     \/ recoverHiddenFromDevice \/ forwardBlock \/ projectQKV
     \/ forwardBatch \/ forwardBlockBatch \/ logitsFinish \/ EmbedEndsOnHost
  /\ UNCHANGED cfg
=============================================================================
