--------------------------- MODULE ForwardState ---------------------------
(***************************************************************************)
(* What the models of pkg/model share: the host mirror of the KV cache     *)
(* (mempool.KV), the device with its KV cache and its resident hidden      *)
(* state d_resid, the flags of gpuresid.DecodeFlags, and the call under    *)
(* way.  One module per architecture extends it with that architecture's   *)
(* Forward, forwardBlock and forwardBatch.                                 *)
(*                                                                         *)
(* A row of the host mirror is the absolute position it was computed for,  *)
(* Hollow when its slot was only reserved, or Junk.  The device KV is the  *)
(* set of slots that hold the right row; a slot of the device is the       *)
(* position of its row until GPUKVStale.  run.past is the startPos of the  *)
(* caller: with a sliding window it outgrows kv.length.                    *)
(***************************************************************************)
EXTENDS Integers, Sequences, FiniteSets

CONSTANTS
  NumLayers,   \* cfg.NumLayers
  CtxLen,      \* bounds cfg.ContextLength, here cfg.ctx
  Configs      \* the loaded models: architecture, -ngl, window, device, ...

VARIABLES
  kv,       \* mempool.KV: the rows of each layer and the completed length
  dev,      \* the backend: KV slots, d_resid and hiddenResident
  decode,   \* gpuresid.DecodeFlags and Model.residency
  run,      \* the call under way
  cfg       \* the model and the device it was loaded on

vars == <<kv, dev, decode, run, cfg>>

Layers == 0..NumLayers-1
Hollow == -1
Junk == -2

\* The hidden state of a position after so many layers; anything else.
Hidden(p, l) == [pos |-> p, layers |-> l]
NoHidden == Hidden(-1, 0)

\* LayerOnGPU: the first ngl layers.
OnGPU == {l \in Layers : l < cfg.ngl}

Fault(f) == f \in cfg.faults

\* A device takes part when there are layers for it.
AllOffloaded(c) == c.ngl >= NumLayers

\* CapMaxSeq: the slots of the device KV.
CapMaxSeq(context, requested) ==
  LET cap == IF requested > 0 THEN requested ELSE 4096
  IN  IF context < cap THEN context ELSE cap

\* What a Load makes of the options c: -ngl and n_batch in range, a host KV of
\* so many rows, a device KV, and whether hidden state and logits may stay on
\* the device.
Loaded(c, kvMaxSeq, serial, residency, logits) ==
  [cfg |-> [c EXCEPT !.ngl = IF @ > NumLayers THEN NumLayers ELSE @,
                     !.nBatch = IF serial \/ @ < 1 THEN 1 ELSE @,
                     !.maxSeq = CapMaxSeq(c.ctx, c.gpuMaxSeq),
                     !.kvCap = kvMaxSeq],
   decode |-> [residDevice |-> FALSE, residency |-> residency, logitsOnGPU |-> logits,
               stale |-> FALSE, hollow |-> FALSE]]

\* The last position of the pass under way.
Pos == run.past + run.batch - 1

\* The positions a query at p of layer l attends to: a window of cfg.window
\* positions in the sliding layers, all of them in the others.
FirstOf(l, p) ==
  IF l \in cfg.sliding /\ p >= cfg.window THEN p - cfg.window + 1 ELSE 0
WindowOf(l, p) == [i \in 1..(p - FirstOf(l, p) + 1) |-> FirstOf(l, p) + i - 1]

-----------------------------------------------------------------------------
(* mempool.KV *)

NewKV == [rows |-> [l \in Layers |-> <<>>], length |-> 0]

\* dropOldestLayer
DropRows(row, n) == IF n >= Len(row) THEN <<>> ELSE SubSeq(row, n + 1, Len(row))

\* DropOldest: the rows of every layer, and the length.
DropOldest(k, n) ==
  [rows |-> [l \in Layers |-> DropRows(k.rows[l], n)],
   length |-> IF k.length > n THEN k.length - n ELSE 0]

\* EnsureRoom: how many rows it drops so that n more fit.
TokensStored(k) ==
  LET most == CHOOSE l \in Layers : \A m \in Layers : Len(k.rows[m]) <= Len(k.rows[l])
  IN  Len(k.rows[most])
Overflow(k, n) ==
  IF TokensStored(k) + n > cfg.kvCap THEN TokensStored(k) + n - cfg.kvCap ELSE 0

\* AppendN of the rows of the pass, computed from hidden state h, and Bump.
RoomFor(rows, l) == Len(rows[l]) + run.batch <= cfg.kvCap
Appended(rows, l, h) ==
  [rows EXCEPT ![l] =
    @ \o [i \in 1..run.batch |->
            IF h = Hidden(Pos, l) THEN run.past + i - 1 ELSE Junk]]
Bumped(rows, l) == [rows EXCEPT ![l] = Append(@, Hollow)]

\* Advance(N) after the last layer.
Advanced(rows) ==
  [rows |-> rows,
   length |-> IF run.layer + 1 < NumLayers THEN kv.length ELSE kv.length + run.batch]

-----------------------------------------------------------------------------
(* The device *)

NewDevice == [kv |-> [l \in Layers |-> {}], resid |-> NoHidden, active |-> FALSE]

\* KVCacheAppend(N) at slot kv.length of the rows computed from h.
HasSlots == kv.length + run.batch <= cfg.maxSeq
Written(l, h) ==
  [dev.kv EXCEPT ![l] =
    IF h = Hidden(Pos, l) /\ kv.length = run.past THEN @ \cup (run.past..Pos)
    ELSE @ \ (kv.length..(kv.length + run.batch - 1))]

\* What KVCacheAppend makes of the device KV and of GPUKVStale, when it is
\* called: the write, or its failure, which some architectures note.
Mirror(l, called, noted) ==
  IF l \notin OnGPU \/ ~called
  THEN {[kv |-> dev.kv, stale |-> decode.stale]}
  ELSE (IF HasSlots
        THEN {[kv |-> Written(l, run.x), stale |-> decode.stale]} ELSE {})
       \cup (IF ~HasSlots \/ Fault("append")
             THEN {[kv |-> dev.kv, stale |-> decode.stale \/ noted]} ELSE {})

\* Every query of the pass reads just its keys: from the slots of the device,
\* or from the rows of the host, the last of them the query's own.
DeviceReads(dkv, l) ==
  \A p \in run.past..Pos : FirstOf(l, p) = 0 /\ 0..p \subseteq dkv[l]
HostReads(rows, l) ==
  \A i \in 0..run.batch-1 :
    /\ kv.length + i + 1 <= Len(rows[l])
    /\ SubSeq(rows[l], 1, kv.length + i + 1) = WindowOf(l, run.past + i)

\* Attention that asks the device first, when asked, and then the host.
Attends(dkv, l, asked, onHost) ==
  IF l \in OnGPU /\ asked /\ HasSlots
  THEN {DeviceReads(dkv, l)} \cup (IF Fault("attention") THEN {onHost} ELSE {})
  ELSE {onHost}

\* What a layer makes of h when its attention read the right rows.
Apply(h, l, attended) ==
  IF h = Hidden(Pos, l) /\ attended THEN Hidden(Pos, l + 1) ELSE NoHidden

-----------------------------------------------------------------------------
(* A call begins and ends. *)

Fails == run' = [run EXCEPT !.pc = "failed"]
Returns(h) == run' = [run EXCEPT !.pc = "idle", !.logits = h]

\* Forward of n tokens at the caller's position; Embed of n tokens at 0.
Starts(n, batched) ==
  /\ run.pc = "idle" /\ ~run.embed
  /\ run.past + n <= cfg.ctx
  /\ run' = [run EXCEPT !.pc = IF batched THEN "chunk" ELSE "token",
                        !.todo = n, !.logits = NoHidden]
  /\ UNCHANGED <<kv, dev, decode, cfg>>

StartsEmbed(n, d) ==
  /\ run.pc = "idle" /\ ~run.embed
  /\ n <= cfg.ctx
  /\ kv' = NewKV /\ dev' = NewDevice /\ decode' = d
  /\ run' = [run EXCEPT !.pc = "token", !.todo = n, !.past = 0, !.logits = NoHidden,
                        !.embed = TRUE]
  /\ UNCHANGED cfg

\* The caller's ResetCache, with the flags d that the architecture clears.
\* The device keeps its bytes, which belong to another context.
Resets(d) ==
  /\ run.pc \in {"idle", "failed"}
  /\ kv' = NewKV /\ dev' = NewDevice /\ decode' = d
  /\ run' = [run EXCEPT !.pc = "idle", !.past = 0, !.logits = NoHidden, !.embed = FALSE]
  /\ UNCHANGED cfg

ResetsAndFails(d) ==
  /\ kv' = NewKV /\ dev' = NewDevice /\ decode' = d
  /\ Fails

AllCleared ==
  [decode EXCEPT !.residDevice = FALSE, !.stale = FALSE, !.hollow = FALSE]

-----------------------------------------------------------------------------
(* One token *)

AtToken == run.pc = "token"
\* The embedding of the next token is in x, and the layers begin.
StartsLayers ==
  run' = [run EXCEPT !.pc = "block", !.layer = 0, !.batch = 1, !.x = Hidden(run.past, 0)]

\* HiddenUpload of the embedding, when it is wanted.
HiddenUpload ==
  \/ /\ dev' = [dev EXCEPT !.resid = Hidden(run.past, 0), !.active = TRUE]
     /\ decode' = [decode EXCEPT !.residDevice = TRUE]
  \/ /\ Fault("upload")
     /\ dev' = [dev EXCEPT !.resid = NoHidden, !.active = FALSE]
     /\ decode' = [decode EXCEPT !.residency = FALSE]

Uploads(wanted) == IF wanted THEN HiddenUpload ELSE UNCHANGED <<dev, decode>>

\* After a layer: the next, or Advance and the next token or the logits.
AfterLayer(x) ==
  IF run.layer + 1 < NumLayers
  THEN [run EXCEPT !.pc = "block", !.layer = @ + 1, !.x = x]
  ELSE [run EXCEPT !.pc = IF run.todo > 1 THEN "token" ELSE "logits",
                   !.layer = 0, !.batch = 0, !.todo = @ - 1, !.past = @ + 1, !.x = x]

AtDeviceBlock == run.pc = "block" /\ decode.residDevice
QKVMayFail == ~dev.active \/ ~HasSlots \/ Fault("qkv")

\* A whole layer over d_resid: QKV, the device KV, attention; Bump and
\* CPUKVHollow; WO and FFN.
DeviceLayer ==
  LET dkv == Written(run.layer, dev.resid) IN
  /\ AtDeviceBlock
  /\ dev.active /\ HasSlots /\ RoomFor(kv.rows, run.layer)
  /\ kv' = Advanced(Bumped(kv.rows, run.layer))
  /\ dev' = [dev EXCEPT !.kv = dkv,
                        !.resid = Apply(@, run.layer, DeviceReads(dkv, run.layer))]
  /\ decode' = [decode EXCEPT !.hollow = TRUE]
  /\ run' = AfterLayer(run.x)

\* The layer cannot go on: over a hollow mirror, or after this layer's own
\* Bump, the context is lost; before it, x is brought back to the host.
HollowLayerLost(d) ==
  /\ AtDeviceBlock
  /\ \/ decode.hollow /\ QKVMayFail
     \/ /\ dev.active /\ HasSlots
        /\ Fault("attnffn") \/ (cfg.moe /\ Fault("expert"))
  /\ ResetsAndFails(d)

\* recoverHiddenFromDevice
Recovers(d) ==
  /\ dev' = [dev EXCEPT !.active = FALSE]
  /\ decode' = [d EXCEPT !.residDevice = FALSE, !.residency = FALSE]
  /\ \/ /\ dev.active
        /\ run' = [run EXCEPT !.pc = "host", !.x = dev.resid]
     \/ /\ ~dev.active \/ Fault("download")
        /\ Fails

AtHostBlock ==
  \/ run.pc = "host"
  \/ run.pc = "block" /\ ~decode.residDevice

\* A layer with x on the host.  fused: its WO and FFN may run on the device,
\* over x, which ends residency in the backend.
HostLayer(rows, m, attended, fused) ==
  /\ kv' = Advanced(rows)
  /\ dev' = [dev EXCEPT !.kv = m.kv, !.active = @ /\ ~(fused /\ run.layer \in OnGPU)]
  /\ decode' = [decode EXCEPT !.stale = m.stale]
  /\ run' = AfterLayer(Apply(run.x, run.layer, attended))

\* A matrix product fails, before the row is appended or after.
HostFails ==
  /\ AtHostBlock \/ run.pc = "batch"
  /\ Fault("matmul")
  /\ \/ UNCHANGED kv
     \/ RoomFor(kv.rows, run.layer)
        /\ kv' = [kv EXCEPT !.rows = Appended(@, run.layer, run.x)]
  /\ Fails
  /\ UNCHANGED <<dev, decode>>

-----------------------------------------------------------------------------
(* The sum of a layer of experts: how often each part has been added.  An   *)
(* expert that fails ends moeGPU for good; here each layer may fail anew.   *)

Experts == 1..2   \* those that the router selects
SharedPart == 3
NoSum == [e \in Experts \cup {SharedPart} |-> 0]
WithExperts(sum, n) == [e \in DOMAIN sum |-> sum[e] + IF e \in 1..n THEN 1 ELSE 0]
AllExperts(sum) == WithExperts(sum, Cardinality(Experts))
WithShared(sum) == [sum EXCEPT ![SharedPart] = @ + 1]

\* Every part is in the sum once.
Complete(sum) == \A e \in DOMAIN sum : sum[e] = 1

-----------------------------------------------------------------------------
(* A chunk of a prefill *)

ChunkSize == IF run.todo < cfg.nBatch THEN run.todo ELSE cfg.nBatch

\* prefill.Run up to its layers: the hidden state is synced by architectures
\* that pass a syncHidden; x now stands for the rows of the whole chunk.
StartsChunk(k, d, synced) ==
  /\ run.pc = "chunk"
  /\ (synced /\ decode.residDevice) => dev.active
  /\ kv' = k
  /\ decode' = [d EXCEPT !.residDevice = @ /\ ~synced]
  /\ dev' = [dev EXCEPT !.active = @ /\ ~(synced /\ decode.residDevice)]
  /\ run' = [run EXCEPT !.pc = "batch", !.layer = 0, !.batch = ChunkSize,
                        !.x = Hidden(run.past + ChunkSize - 1, 0)]

\* The download before the chunk fails.
ChunkFails ==
  /\ run.pc = "chunk"
  /\ decode.residDevice
  /\ ~dev.active \/ Fault("download")
  /\ decode' = [decode EXCEPT !.residDevice = FALSE]
  /\ dev' = [dev EXCEPT !.active = FALSE]
  /\ Fails
  /\ UNCHANGED kv

AfterBatchLayer(x) ==
  IF run.layer + 1 < NumLayers
  THEN [run EXCEPT !.layer = @ + 1, !.x = x]
  ELSE [run EXCEPT !.pc = IF run.todo > run.batch THEN "chunk" ELSE "batchLogits",
                   !.layer = 0, !.batch = 0, !.todo = @ - run.batch,
                   !.past = @ + run.batch, !.x = x]

BatchLayer(rows, m, attended) ==
  /\ run.pc = "batch"
  /\ kv' = Advanced(rows)
  /\ dev' = [dev EXCEPT !.kv = m.kv]
  /\ decode' = [decode EXCEPT !.stale = m.stale]
  /\ run' = AfterBatchLayer(Apply(run.x, run.layer, attended))

\* The logits of the chunk's last row: on the host, or with an upload when the
\* architecture asks the device.
HeadOnDevice(d, asked) ==
  \E failed \in BOOLEAN :
    /\ failed => asked /\ Fault("logits")
    /\ decode' = [d EXCEPT !.logitsOnGPU = @ /\ ~failed]

BatchLogits(asked) ==
  /\ run.pc = "batchLogits"
  /\ Returns(run.x)
  /\ HeadOnDevice(decode, asked)
  /\ dev' = [dev EXCEPT !.active = @ /\ ~asked]
  /\ UNCHANGED kv

-----------------------------------------------------------------------------
(* The logits of a token, or the hidden state that Embed returns. *)

\* syncHiddenFromDevice, and what is computed from x: on the host, or on the
\* device after an upload.
FromHost(d, asked) ==
  /\ HeadOnDevice([d EXCEPT !.residDevice = FALSE], asked)
  /\ dev' = [dev EXCEPT !.active = @ /\ ~decode.residDevice /\ ~asked]
  /\ UNCHANGED kv
  /\ \/ /\ ~decode.residDevice
        /\ Returns(run.x)
     \/ /\ decode.residDevice /\ dev.active
        /\ run' = [run EXCEPT !.pc = "idle", !.x = dev.resid, !.logits = dev.resid]
     \/ /\ decode.residDevice
        /\ ~dev.active \/ Fault("download")
        /\ Fails

AtLogits == run.pc = "logits" /\ ~run.embed

\* Embed's own end.
EmbedEnds ==
  /\ run.pc = "logits" /\ run.embed
  /\ FromHost(decode, FALSE)

\* The end of an Embed that has not uploaded anything.
EmbedEndsOnHost ==
  /\ run.pc = "logits" /\ run.embed
  /\ Returns(run.x)
  /\ UNCHANGED <<kv, dev, decode>>

\* out_norm and lm_head over d_resid, which some architectures keep.
LogitsOnDevice(kept) ==
  /\ AtLogits
  /\ decode.residDevice /\ dev.active
  /\ Returns(dev.resid)
  /\ decode' = [decode EXCEPT !.residDevice = kept]
  /\ UNCHANGED <<kv, dev>>

\* They are not asked, or fail.
NoLogitsOnDevice(asked) == asked => ~dev.active \/ Fault("logits")
=============================================================================
