--------------------------- MODULE ResidentForward ---------------------------
(***************************************************************************)
(* One model's forward pass (pkg/model/qwen3, dense layers; the other      *)
(* architectures follow the same pattern) between two memories: the host,  *)
(* with the mirror of the KV cache (mempool.KV) and the hidden state x,    *)
(* and the device, with its own KV cache and the resident hidden state     *)
(* d_resid.  Every device call may fail, and the flags of                  *)
(* gpuresid.DecodeFlags say which of the copies can be trusted.            *)
(*                                                                         *)
(* Numbers are abstracted to what they were computed from: a hidden state  *)
(* is "position pos after so many layers" or something else, a KV row is   *)
(* the right one for its position, a slot that was only reserved           *)
(* (hollow), or junk.                                                      *)
(***************************************************************************)
EXTENDS Integers, Sequences, FiniteSets

CONSTANTS
  NumLayers,   \* cfg.NumLayers
  NGLs,        \* numbers of layers on the device (-ngl)
  CtxLen,      \* cfg.ContextLength, the capacity of mempool.KV
  NBatch,      \* prefill batch
  MaxSeqs,     \* capacities of the device KV cache (CapMaxSeq)
  FaultSets    \* sets of device calls that may fail

FaultKinds == {"gather", "upload", "qkv", "append", "attention", "attnffn",
               "matmul", "download", "logits"}

ASSUME SizesAssumption ==
  /\ NumLayers \in Nat \ {0}
  /\ CtxLen \in Nat \ {0}
  /\ NBatch \in Nat \ {0}
  /\ MaxSeqs \subseteq 1..CtxLen
ASSUME NGLAssumption == NGLs \subseteq Nat
ASSUME FaultAssumption == FaultSets \subseteq SUBSET FaultKinds

VARIABLES
  kv,       \* mempool.KV: the rows of each layer and the completed length
  dev,      \* the backend: KV rows, d_resid, hiddenResident, what it can do
  decode,   \* gpuresid.DecodeFlags and Model.residency
  run       \* the call under way: where it is, x, the logits

vars == <<kv, dev, decode, run>>

Layers == 0..NumLayers-1

\* LayerOnGPU
OnGPU == {l \in Layers : l < dev.ngl}

Positions == 0..CtxLen-1

\* The hidden state of a position after so many layers; anything else.
Hidden(p, l) == [pos |-> p, layers |-> l]
NoHidden == Hidden(-1, 0)
HiddenStates == {NoHidden} \cup {Hidden(p, l) : p \in Positions, l \in 0..NumLayers}

PCs == {"idle", "failed", "token", "block", "host", "logits",
        "chunk", "batch", "batchLogits"}

TypeOK ==
  /\ kv \in [rows : [Layers -> Seq({"right", "hollow", "junk"})], length : 0..CtxLen]
  /\ \A l \in Layers : Len(kv.rows[l]) <= CtxLen
  /\ dev \in [kv : [Layers -> SUBSET Positions], resid : HiddenStates,
              active : BOOLEAN, maxSeq : MaxSeqs, ngl : NGLs, faults : FaultSets]
  /\ decode \in [residDevice : BOOLEAN, residency : BOOLEAN, stale : BOOLEAN,
                 hollow : BOOLEAN, logitsOnGPU : BOOLEAN]
  /\ run \in [pc : PCs, layer : 0..NumLayers, todo : 0..CtxLen, batch : 0..CtxLen,
              x : HiddenStates, logits : HiddenStates, embed : BOOLEAN]

Init ==
  /\ kv = [rows |-> [l \in Layers |-> <<>>], length |-> 0]
  /\ \E m \in MaxSeqs, g \in NGLs, f \in FaultSets :
       dev = [kv |-> [l \in Layers |-> {}], resid |-> NoHidden, active |-> FALSE,
              maxSeq |-> m, ngl |-> g, faults |-> f]
  /\ \E r \in BOOLEAN :
       /\ r => dev.ngl >= NumLayers
       /\ decode = [residDevice |-> FALSE, residency |-> r, stale |-> FALSE,
                    hollow |-> FALSE, logitsOnGPU |-> r]
  /\ run = [pc |-> "idle", layer |-> 0, todo |-> 0, batch |-> 0, x |-> NoHidden,
            logits |-> NoHidden, embed |-> FALSE]

-----------------------------------------------------------------------------
(* Helpers *)

Fault(f) == f \in dev.faults

\* What a layer makes of hidden state h, when attention read the right rows.
Apply(h, p, l, attended) ==
  IF h = Hidden(p, l) /\ attended THEN Hidden(p, l + 1) ELSE NoHidden

\* The last position the current layer pass is about.
Pos == kv.length + run.batch - 1

\* KV slots of one layer that hold the right row on the host.
HostRight(rows, l) == {i \in 0..Len(rows[l])-1 : rows[l][i + 1] = "right"}

\* Attention over the first p + 1 slots of the host mirror, or of the device.
HostAttends(rows, l, p) == 0..p \subseteq HostRight(rows, l)
DeviceAttends(dkv, l, p) == 0..p \subseteq dkv[l]

\* Mutant: one row of a chunk only.
AppendRowsOne(l, h, n) ==
  [kv.rows EXCEPT ![l] =
    Append(@, IF h = Hidden(Pos, l) THEN "right" ELSE "junk")]

\* KV.AppendN: n rows computed from hidden state h.
AppendRows(l, h, n) ==
  [kv.rows EXCEPT ![l] =
    @ \o [i \in 1..n |-> IF h = Hidden(Pos, l) THEN "right" ELSE "junk"]]

\* The device rows at positions ps of layer l after a write from h.
DeviceWrite(l, h, ps) ==
  [dev.kv EXCEPT ![l] = IF h = Hidden(Pos, l) THEN @ \cup ps ELSE @ \ ps]

\* ResetCache: the device keeps its rows and its d_resid, of another context.
CacheReset == [rows |-> [l \in Layers |-> <<>>], length |-> 0]
DevReset == [dev EXCEPT !.kv = [l \in Layers |-> {}], !.resid = NoHidden]
DecodeReset ==
  [decode EXCEPT !.residDevice = FALSE, !.stale = FALSE, !.hollow = FALSE]

\* tryRecoverGPUKV on host rows: the layers below j are rewritten from the
\* mirror; j is the layer that fails, or NumLayers when none does.
Rewritten(rows, j) ==
  [l \in Layers |->
    IF l \in OnGPU /\ l < j
    THEN (dev.kv[l] \ (0..Len(rows[l])-1)) \cup HostRight(rows, l)
    ELSE dev.kv[l]]

Fits(rows, l) == Len(rows[l]) <= dev.maxSeq

Recovery(rows) ==
  IF decode.hollow
  THEN {[kv |-> dev.kv, stale |-> TRUE]}
  ELSE {[kv |-> Rewritten(rows, j), stale |-> j < NumLayers] :
         j \in {j \in 0..NumLayers :
                 /\ \A l \in OnGPU : l < j => Fits(rows, l)
                 /\ j < NumLayers =>
                      /\ j \in OnGPU
                      /\ rows[j] # <<>>
                      /\ Fault("append") \/ ~Fits(rows, j)}}

\* Mutant: a failed KVCacheAppend is forgotten.
MirrorUnnoticed(rows, l, h, ps) ==
  IF l \notin OnGPU \/ decode.stale
  THEN {[kv |-> dev.kv, stale |-> decode.stale]}
  ELSE {[kv |-> dev.kv, stale |-> FALSE]}

\* KVCacheAppend(N) after the host append made rows, with the recovery that
\* follows a failure.  Nothing is sent to a device that is stale already.
Mirror(rows, l, h, ps) ==
  IF l \notin OnGPU \/ decode.stale
  THEN {[kv |-> dev.kv, stale |-> decode.stale]}
  ELSE (IF Pos < dev.maxSeq
        THEN {[kv |-> DeviceWrite(l, h, ps), stale |-> FALSE]} ELSE {})
       \cup (IF Pos >= dev.maxSeq \/ Fault("append")
             THEN Recovery(rows) ELSE {})

\* Whether an attention that asks the device first, unless it is stale, and
\* then the host reads the right rows.
Attentions(m, rows, l) ==
  IF l \in OnGPU /\ ~m.stale
  THEN {DeviceAttends(m.kv, l, Pos)}
       \cup (IF Fault("attention") THEN {HostAttends(rows, l, Pos)} ELSE {})
  ELSE {HostAttends(rows, l, Pos)}

-----------------------------------------------------------------------------
(* Forward and Embed are called, and end. *)

\* ResetCache and the error that is returned.
ResetAndFail ==
  /\ kv' = CacheReset
  /\ dev' = DevReset
  /\ decode' = DecodeReset
  /\ run' = [run EXCEPT !.pc = "failed"]

\* After an error the callers reset the cache (Conversation.rollback, Embed's
\* deferred ResetCache) before they call the model again.
ResetCache ==
  /\ run.pc \in {"idle", "failed"}
  /\ kv' = CacheReset
  /\ dev' = DevReset
  /\ decode' = DecodeReset
  /\ run' = [run EXCEPT !.pc = "idle", !.logits = NoHidden]

\* Forward of n more tokens; several of them are prefilled in chunks.
Forward(n) ==
  /\ run.pc = "idle"
  /\ ~run.embed
  /\ kv.length + n <= CtxLen
  /\ run' = [run EXCEPT !.pc = IF NBatch > 1 /\ n > 1 THEN "chunk" ELSE "token",
                        !.todo = n, !.logits = NoHidden]
  /\ UNCHANGED <<kv, dev, decode>>

-----------------------------------------------------------------------------
(* forwardToken *)

\* The embedding is gathered on the device; x keeps its old value.
Gather ==
  /\ run.pc = "token"
  /\ decode.residency /\ ~decode.stale
  /\ dev' = [dev EXCEPT !.resid = Hidden(kv.length, 0), !.active = TRUE]
  /\ decode' = [decode EXCEPT !.residDevice = TRUE]
  /\ run' = [run EXCEPT !.pc = "block", !.layer = 0, !.batch = 1]
  /\ UNCHANGED kv

\* No gather: embedToken fills x, which is uploaded.
Upload ==
  /\ run.pc = "token"
  /\ decode.residency /\ ~decode.stale
  /\ Fault("gather")
  /\ \/ /\ dev' = [dev EXCEPT !.resid = Hidden(kv.length, 0), !.active = TRUE]
        /\ decode' = [decode EXCEPT !.residDevice = TRUE]
     \/ /\ Fault("upload")
        /\ dev' = [dev EXCEPT !.resid = NoHidden, !.active = FALSE]
        /\ decode' = [decode EXCEPT !.residency = FALSE]
  /\ run' = [run EXCEPT !.pc = "block", !.layer = 0, !.batch = 1,
                        !.x = Hidden(kv.length, 0)]
  /\ UNCHANGED kv

\* Neither residency nor, with a stale device, an upload: x only.
EmbedToken ==
  /\ run.pc = "token"
  /\ ~decode.residency \/ decode.stale
  /\ run' = [run EXCEPT !.pc = "block", !.layer = 0, !.batch = 1,
                        !.x = Hidden(kv.length, 0)]
  /\ UNCHANGED <<kv, dev, decode>>

\* After a layer: the next one, or Advance and the next token, or the logits.
AfterLayer(x) ==
  IF run.layer + 1 < NumLayers
  THEN [run EXCEPT !.pc = "block", !.layer = @ + 1, !.x = x]
  ELSE [run EXCEPT !.pc = IF run.todo > 1 THEN "token" ELSE "logits",
                   !.layer = 0, !.batch = 0, !.todo = @ - 1, !.x = x]

\* Mutant: every layer advances the length.
AdvancedEveryLayer == kv.length + run.batch

\* KV.Advance(N), after the last layer.
Advanced == IF run.layer + 1 < NumLayers THEN kv.length ELSE kv.length + run.batch

\* Mutant: the reserved slot is not announced.
BumpedSilently == decode

\* forwardBlockDevice reserves the slot with Bump and says so.
Bumped == [decode EXCEPT !.hollow = TRUE]

\* forwardBlockDevice: QKV, KV append and attention, then WO and FFN, all over
\* d_resid.  The host mirror only reserves the slot.
DeviceBlock ==
  LET rows == [kv.rows EXCEPT ![run.layer] = Append(@, "hollow")]
      dkv == DeviceWrite(run.layer, dev.resid, {Pos})
  IN  /\ run.pc = "block" /\ decode.residDevice
      /\ dev.active /\ Pos < dev.maxSeq
      /\ kv' = [rows |-> rows, length |-> Advanced]
      /\ decode' = Bumped
      /\ dev' = [dev EXCEPT
           !.kv = dkv,
           !.resid = Apply(@, Pos, run.layer, DeviceAttends(dkv, run.layer, Pos))]
      /\ run' = AfterLayer(run.x)

\* QKV succeeds and WO or FFN fails: the mirror is hollow by then.
DeviceFFNFails ==
  /\ run.pc = "block" /\ decode.residDevice
  /\ dev.active /\ Pos < dev.maxSeq
  /\ Fault("attnffn")
  /\ ResetAndFail

QKVMayFail == ~dev.active \/ Pos >= dev.maxSeq \/ Fault("qkv")

\* QKV fails over a hollow mirror.
DeviceBlockFails ==
  /\ run.pc = "block" /\ decode.residDevice
  /\ QKVMayFail
  /\ decode.hollow
  /\ ResetAndFail

\* What a failed QKV leaves of the device KV: a code that begins with -2 or is
\* -6 marks it stale and rebuilds it.  Beyond the capacity the code is -22.
AfterQKVFailure ==
  (IF dev.active /\ (Pos >= dev.maxSeq \/ Fault("qkv"))
   THEN Recovery(kv.rows) ELSE {})
  \cup (IF ~dev.active \/ (Fault("qkv") /\ Pos < dev.maxSeq)
        THEN {[kv |-> dev.kv, stale |-> decode.stale]} ELSE {})

\* Mutant: the layer goes on from the x of an earlier token.
RecoverHiddenKeepsX(m) ==
  /\ dev' = [dev EXCEPT !.kv = m.kv, !.active = FALSE]
  /\ decode' = [decode EXCEPT !.stale = m.stale, !.residDevice = FALSE,
                              !.residency = FALSE]
  /\ run' = [run EXCEPT !.pc = "host"]

\* recoverHiddenFromDevice
RecoverHidden(m) ==
  /\ dev' = [dev EXCEPT !.kv = m.kv, !.active = FALSE]
  /\ decode' = [decode EXCEPT !.stale = m.stale, !.residDevice = FALSE,
                              !.residency = FALSE]
  /\ \/ /\ dev.active
        /\ run' = [run EXCEPT !.pc = "host", !.x = dev.resid]
     \/ /\ ~dev.active \/ Fault("download")
        /\ run' = [run EXCEPT !.pc = "failed"]

\* QKV fails while the mirror is complete: the layer is computed on the host.
DeviceBlockToHost ==
  /\ run.pc = "block" /\ decode.residDevice
  /\ QKVMayFail
  /\ ~decode.hollow
  /\ \E m \in AfterQKVFailure : RecoverHidden(m)
  /\ UNCHANGED kv

InHostBlock ==
  \/ run.pc = "host"
  \/ run.pc = "block" /\ ~decode.residDevice

\* A layer with x on the host: the rows, the mirroring and the attention, then
\* WO and FFN.  attnFFNGPU ends residency in the backend.
HostLayer(rows, m, attended) ==
  /\ kv' = [rows |-> rows, length |-> Advanced]
  /\ dev' = [dev EXCEPT !.kv = m.kv, !.active = @ /\ run.layer \notin OnGPU]
  /\ decode' = [decode EXCEPT !.stale = m.stale]
  /\ run' = AfterLayer(Apply(run.x, Pos, run.layer, attended))

\* The fused QKV over the device KV; it returns the rows for the mirror.
HostBlockFused ==
  LET m == [kv |-> DeviceWrite(run.layer, run.x, {Pos}), stale |-> FALSE]
  IN  /\ InHostBlock
      /\ run.layer \in OnGPU /\ ~decode.stale
      /\ Pos < dev.maxSeq
      /\ HostLayer(AppendRows(run.layer, run.x, 1), m,
                   DeviceAttends(m.kv, run.layer, Pos))

\* Without it: the host computes the row, mirrors it and attends.
HostBlock ==
  LET rows == AppendRows(run.layer, run.x, 1)
  IN  /\ InHostBlock
      /\ \/ run.layer \notin OnGPU \/ decode.stale
         \/ Pos >= dev.maxSeq \/ Fault("qkv")
      /\ \E m \in Mirror(rows, run.layer, run.x, {Pos}) :
           \E attended \in Attentions(m, rows, run.layer) :
             HostLayer(rows, m, attended)

\* A matrix product of the host path fails, with the row appended or not.
HostBlockFails ==
  /\ InHostBlock \/ run.pc = "batch"
  /\ Fault("matmul")
  /\ \/ UNCHANGED kv
     \/ kv' = [kv EXCEPT !.rows = AppendRows(run.layer, run.x, run.batch)]
  /\ run' = [run EXCEPT !.pc = "failed"]
  /\ UNCHANGED <<dev, decode>>

-----------------------------------------------------------------------------
(* Logits, and the hidden state Embed returns. *)

Finish(h) == run' = [run EXCEPT !.pc = "idle", !.logits = h]

\* syncHiddenFromDevice, and what is done with x.
HiddenToHost(returned) ==
  /\ decode' = [decode EXCEPT !.residDevice = FALSE, !.logitsOnGPU = returned]
  /\ IF decode.residDevice
     THEN /\ dev' = [dev EXCEPT !.active = FALSE]
          /\ \/ /\ dev.active
                /\ run' = [run EXCEPT !.pc = "idle", !.x = dev.resid, !.logits = dev.resid]
             \/ /\ ~dev.active \/ Fault("download")
                /\ run' = [run EXCEPT !.pc = "failed"]
     ELSE /\ UNCHANGED dev
          /\ Finish(run.x)

\* out_norm and lm_head over d_resid.
LogitsDevice ==
  /\ run.pc = "logits" /\ ~run.embed
  /\ decode.residDevice /\ decode.logitsOnGPU /\ dev.active
  /\ Finish(dev.resid)
  /\ UNCHANGED <<kv, dev, decode>>

\* On the host, for good once the device has failed to.
LogitsHost ==
  /\ run.pc = "logits" /\ ~run.embed
  /\ (decode.residDevice /\ decode.logitsOnGPU) => (~dev.active \/ Fault("logits"))
  /\ HiddenToHost(decode.logitsOnGPU /\ ~decode.residDevice)
  /\ UNCHANGED kv

\* Embed: ResetCache, the tokens one by one, the hidden state of the last.
Embed(n) ==
  /\ run.pc = "idle"
  /\ ~run.embed
  /\ kv' = CacheReset
  /\ dev' = DevReset
  /\ decode' = DecodeReset
  /\ run' = [run EXCEPT !.pc = "token", !.todo = n, !.logits = NoHidden,
                        !.embed = TRUE]

EmbedResult ==
  /\ run.pc = "logits" /\ run.embed
  /\ HiddenToHost(decode.logitsOnGPU)
  /\ UNCHANGED kv

-----------------------------------------------------------------------------
(* forwardBatch: prefill of a chunk of at most NBatch tokens. *)

ChunkSize == IF run.todo < NBatch THEN run.todo ELSE NBatch

\* prefill.Run up to the layers.  x now stands for the rows of the whole chunk.
Chunk ==
  /\ run.pc = "chunk"
  /\ decode.residDevice => dev.active
  /\ decode' = [decode EXCEPT !.residDevice = FALSE]
  /\ dev' = [dev EXCEPT !.active = @ /\ ~decode.residDevice]
  /\ run' = [run EXCEPT !.pc = "batch", !.layer = 0, !.batch = ChunkSize,
                        !.x = Hidden(kv.length + ChunkSize - 1, 0)]
  /\ UNCHANGED kv

\* syncHiddenFromDevice fails before the chunk starts.
ChunkFails ==
  /\ run.pc = "chunk"
  /\ decode.residDevice
  /\ ~dev.active \/ Fault("download")
  /\ decode' = [decode EXCEPT !.residDevice = FALSE]
  /\ dev' = [dev EXCEPT !.active = FALSE]
  /\ run' = [run EXCEPT !.pc = "failed"]
  /\ UNCHANGED kv

AfterBatchLayer(x) ==
  IF run.layer + 1 < NumLayers
  THEN [run EXCEPT !.layer = @ + 1, !.x = x]
  ELSE [run EXCEPT !.pc = IF run.todo > run.batch THEN "chunk" ELSE "batchLogits",
                   !.layer = 0, !.batch = 0, !.todo = @ - run.batch, !.x = x]

\* forwardBlockBatch: rows of the chunk appended, mirrored and attended over.
BatchBlock ==
  LET rows == AppendRows(run.layer, run.x, run.batch)
  IN  /\ run.pc = "batch"
      /\ kv' = [rows |-> rows, length |-> Advanced]
      /\ \E m \in Mirror(rows, run.layer, run.x, kv.length..Pos) :
           /\ dev' = [dev EXCEPT !.kv = m.kv]
           /\ decode' = [decode EXCEPT !.stale = m.stale]
           /\ \E attended \in Attentions(m, rows, run.layer) :
                run' = AfterBatchLayer(Apply(run.x, Pos, run.layer, attended))

\* The logits of the last token: with residency its hidden state is uploaded,
\* whatever became of the device KV.
BatchLogitsResident ==
  /\ run.pc = "batchLogits"
  /\ decode.residency
  /\ dev' = [dev EXCEPT !.resid = run.x, !.active = TRUE]
  /\ \E onGPU \in BOOLEAN :
       /\ onGPU => decode.logitsOnGPU
       /\ (decode.logitsOnGPU /\ ~onGPU) => Fault("logits")
       /\ decode' = [decode EXCEPT !.residDevice = TRUE, !.logitsOnGPU = onGPU]
  /\ Finish(run.x)
  /\ UNCHANGED kv

\* Without residency, or when the upload fails.  Only with logitsOnGPU does
\* the failure clear residDevice, which Chunk has cleared before.
BatchLogitsHost ==
  /\ run.pc = "batchLogits"
  /\ decode.residency => Fault("upload")
  /\ dev' = [dev EXCEPT !.resid = IF decode.residency THEN NoHidden ELSE @,
                        !.active = @ /\ ~decode.residency]
  /\ decode' = [decode EXCEPT !.residency = FALSE, !.residDevice = FALSE]
  /\ Finish(run.x)
  /\ UNCHANGED kv

Token == Gather \/ Upload \/ EmbedToken

Block ==
  \/ DeviceBlock \/ DeviceFFNFails \/ DeviceBlockFails \/ DeviceBlockToHost
  \/ HostBlockFused \/ HostBlock \/ HostBlockFails

Prefill ==
  Chunk \/ ChunkFails \/ BatchBlock \/ BatchLogitsResident \/ BatchLogitsHost

Logits == LogitsDevice \/ LogitsHost \/ EmbedResult

Next ==
  \/ \E n \in 1..CtxLen : Forward(n) \/ Embed(n)
  \/ ResetCache
  \/ Token \/ Block \/ Prefill \/ Logits

Spec == Init /\ [][Next]_vars

-----------------------------------------------------------------------------
(* Properties *)

Appended(l) ==
  IF run.pc \in {"block", "host", "batch"} /\ l < run.layer THEN run.batch ELSE 0

\* While a call runs and after it has succeeded every layer holds the rows of
\* the completed tokens and of the pass that has gone through it, however the
\* pass changed between device, host and batch: a fallback in the middle of a
\* layer neither loses nor repeats its slot (Bump against Append).
LayersTogether ==
  run.pc # "failed" =>
    \A l \in Layers : Len(kv.rows[l]) = kv.length + Appended(l)

\* A slot that was only reserved is always announced by CPUKVHollow, which is
\* what keeps tryRecoverGPUKV and the host fallback from using it.
HollowAnnounced ==
  (\E l \in Layers : \E i \in 1..Len(kv.rows[l]) : kv.rows[l][i] = "hollow")
    => decode.hollow

\* Unless GPUKVStale is set, the device holds every row the host mirror holds,
\* through failed appends, rebuilt caches and fallbacks.
DeviceMirrors ==
  (run.pc # "failed" /\ ~decode.stale) =>
    \A l \in OnGPU : HostRight(kv.rows, l) \subseteq dev.kv[l]

\* A call that returns without an error returns what the model computes for
\* its last token, whichever device calls failed on the way: gathers, uploads,
\* downloads, fused QKV, WO and FFN, matrix products and logits.  (A device KV
\* that is too small or that loses an append or an attention is another
\* matter: see FusedSkippedWhileStale.)
ReliableKV ==
  dev.maxSeq = CtxLen /\ {"append", "attention"} \cap dev.faults = {}

AnswerRight ==
  (ReliableKV /\ run.pc = "idle" /\ run.todo = 0 /\ kv.length > 0) =>
    run.logits = Hidden(kv.length - 1, NumLayers)

\* docs/build.md on gpuKVStale: once an append to the device KV has failed, no
\* layer takes the fused device path.
FusedSkippedWhileStale ==
  (run.pc = "block" /\ decode.stale) => ~decode.residDevice
=============================================================================
