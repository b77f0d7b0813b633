------------------------------- MODULE Gemma -------------------------------
(* pkg/model/gemma.  In gemma2 the layers of cfg.sliding keep a window of   *)
(* their rows only, dropped layer by layer while the length counts on, and  *)
(* a softcap keeps attention off AttentionScoresKV.                         *)
EXTENDS ForwardState

initResidency(c) == c.fused /\ AllOffloaded(c)
load(c) == Loaded(c, c.ctx, FALSE, initResidency(c), AllOffloaded(c))

Forward(n) == Starts(n, cfg.nBatch > 1 /\ n > 1)
Embed(n) == StartsEmbed(n, AllCleared)
ResetCache == Resets(AllCleared)

uploadHidden == Uploads(decode.residency /\ ~decode.stale)

\* Embed has no upload: after its ResetCache all layers run on the host.
forwardToken ==
  /\ AtToken /\ StartsLayers
  /\ IF run.embed THEN UNCHANGED <<dev, decode>> ELSE uploadHidden
  /\ UNCHANGED kv

\* prepareSWAAppend: a sliding layer drops what its window has no room for,
\* and the device, which cannot, is stale.
prepareSWAAppend(rows, l) ==
  LET have == Len(rows[l])
      drop == IF l \in cfg.sliding /\ have + run.batch > cfg.window
              THEN have + run.batch - cfg.window ELSE 0
  IN  [rows |-> [rows EXCEPT ![l] = DropRows(@, drop)],
       stale |-> decode.stale \/ (drop > 0 /\ OnGPU # {})]

\* The layer over d_resid, unless preparing it made the device stale.
forwardBlockDevice ==
  /\ ~prepareSWAAppend(kv.rows, run.layer).stale
  /\ DeviceLayer

deviceBlockStale ==
  AtDeviceBlock /\ prepareSWAAppend(kv.rows, run.layer).stale

\* The window has moved, or QKV fails, over a hollow mirror.
deviceBlockLost ==
  \/ HollowLayerLost(AllCleared)
  \/ deviceBlockStale /\ decode.hollow /\ ResetsAndFails(AllCleared)

recoverHiddenFromDevice ==
  LET made == prepareSWAAppend(kv.rows, run.layer) IN
  /\ AtDeviceBlock
  /\ QKVMayFail \/ made.stale
  /\ ~decode.hollow
  /\ Recovers([decode EXCEPT !.stale = made.stale])
  /\ kv' = [kv EXCEPT !.rows = made.rows]

\* attentionKV: all rows of a layer that holds no more than its window, else
\* the last of n.
attentionKV(rows, l, n) ==
  LET w == cfg.window
      skip == n - 1 - w
  IN  CASE l \in cfg.sliding /\ Len(rows[l]) <= w -> rows[l]
        [] l \in cfg.sliding /\ Len(rows[l]) > w /\ 0 < skip /\ skip < Len(rows[l]) ->
             SubSeq(rows[l], skip + 1, Len(rows[l]))
        [] OTHER -> SubSeq(rows[l], 1, n)

\* attentionScoresInto asks the device without softcap, window and staleness.
attentionScoresInto(dkv, l, stale, onHost) ==
  Attends(dkv, l, ~cfg.softcap /\ l \notin cfg.sliding /\ ~stale, onHost)

forwardBlock ==
  LET l == run.layer
      made == prepareSWAAppend(kv.rows, l)
      rows == Appended(made.rows, l, run.x)
      dkv == Written(l, run.x)
      onHost == attentionKV(rows, l, kv.length + 1) = WindowOf(l, Pos)
      fused == decode.residency /\ l \in OnGPU /\ ~made.stale
  IN  /\ AtHostBlock /\ RoomFor(made.rows, l)
      /\ \/ /\ fused /\ HasSlots
            /\ HostLayer(rows, [kv |-> dkv, stale |-> made.stale], DeviceReads(dkv, l), TRUE)
         \/ /\ ~fused \/ ~HasSlots \/ Fault("qkv")
            /\ \E m \in Mirror(l, ~made.stale, TRUE) :
                 LET stale == made.stale \/ m.stale
                 IN  \E attended \in attentionScoresInto(m.kv, l, stale, onHost) :
                       HostLayer(rows, [kv |-> m.kv, stale |-> stale], attended, TRUE)

\* logitsFinish and logitsFromLast: over d_resid, which ends; or on the
\* device after an upload of x; or on the host.
logitsFinish ==
  LET asked == decode.residDevice
  IN  \/ asked /\ LogitsOnDevice(FALSE)
      \/ /\ AtLogits /\ NoLogitsOnDevice(asked)
         /\ FromHost([decode EXCEPT !.logitsOnGPU = @ /\ ~asked],
                     decode.logitsOnGPU /\ ~asked)

forwardBatch ==
  StartsChunk(kv, decode, FALSE) \/ BatchLogits(decode.logitsOnGPU)

\* attentionBatchCausalInto on the host: the slots that query i reads, from
\* skip on.  A sliding layer skips what its window no longer has, although
\* prepareSWAAppend has dropped those rows.
querySlots(l, i) ==
  LET n == kv.length + i + 1
      skip == IF l \in cfg.sliding /\ n > cfg.window THEN n - 1 - cfg.window ELSE 0
  IN  skip+1..n

\* The slots of every query hold the rows of its window.
batchReads(rows, l) ==
  \A i \in 0..run.batch-1 :
    LET slots == querySlots(l, i)
        first == FirstOf(l, run.past + i)
    IN  /\ Cardinality(slots) = run.past + i - first + 1
        /\ \A s \in slots : rows[l][s] = first + s - (kv.length + i + 1 - Cardinality(slots)) - 1

\* A slot behind the rows of the layer: the value loop indexes out of range.
readsBeyondRows(rows, l) ==
  \E i \in 0..run.batch-1 : ~(querySlots(l, i) \subseteq 1..Len(rows[l]))

forwardBlockBatch ==
  LET l == run.layer
      made == prepareSWAAppend(kv.rows, l)
      rows == Appended(made.rows, l, run.x)
  IN  /\ run.pc = "batch" /\ RoomFor(made.rows, l)
      /\ \E m \in Mirror(l, ~made.stale, TRUE) :
           LET stale == made.stale \/ m.stale
               asked == ~stale /\ ~cfg.softcap /\ l \notin cfg.sliding
           IN  \/ /\ readsBeyondRows(rows, l) /\ ~asked
                  /\ run' = [run EXCEPT !.pc = "panic"]
                  /\ UNCHANGED <<kv, dev, decode>>
               \/ /\ asked \/ ~readsBeyondRows(rows, l)
                  /\ \E attended \in Attends(m.kv, l, asked, batchReads(rows, l)) :
                       BatchLayer(rows, [kv |-> m.kv, stale |-> stale], attended)

Next ==
  /\ \/ \E n \in 1..CtxLen : Forward(n) \/ Embed(n)
     \/ ResetCache
     \/ forwardToken \/ forwardBlockDevice \/ deviceBlockLost
     \/ recoverHiddenFromDevice \/ forwardBlock \/ HostFails
     \/ forwardBatch \/ forwardBlockBatch \/ logitsFinish \/ EmbedEndsOnHost
  /\ UNCHANGED cfg
=============================================================================
