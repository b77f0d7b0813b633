----------------------------- MODULE Deepseek2 -----------------------------
(* pkg/model/deepseek2.  Each layer brings the hidden state to the host for  *)
(* its latent attention (MLA), on the device's own latent cache until that   *)
(* fails once (mlaStale, here decode.stale), and may take it back to the     *)
(* device for the FFN.  kv stands for MLACache, or MHACache with legacy      *)
(* attn_kv_b tensors, which only the host attends over.                      *)
EXTENDS ForwardState

initResidency(c) == c.fused /\ AllOffloaded(c)
Load(c) == Loaded(c, c.ctx, TRUE, initResidency(c), initResidency(c))

cleared == [AllCleared EXCEPT !.logitsOnGPU = FALSE]

Forward(n) == Starts(n, FALSE)
Embed(n) == StartsEmbed(n, cleared)
ResetCache == Resets(cleared)

\* Nothing is uploaded before the layers.
forwardToken ==
  /\ AtToken /\ StartsLayers
  /\ UNCHANGED <<kv, dev, decode>>

\* syncHiddenFromDevice at the start of a layer takes d_resid for x whenever
\* residDevice is set, at the first layer of a token too.
synced == IF decode.residDevice THEN dev.resid ELSE run.x
syncFails ==
  /\ run.pc = "block" /\ decode.residDevice
  /\ ~dev.active \/ Fault("download")
  /\ dev' = [dev EXCEPT !.active = FALSE]
  /\ decode' = [decode EXCEPT !.residDevice = FALSE]
  /\ Fails
  /\ UNCHANGED kv

mlaAttnLegacy(rows, l) == [kv |-> dev.kv, stale |-> decode.stale, attended |-> HostReads(rows, l)]

\* mlaAttnGPU: MLACacheAppend, then MLAAttention over the device's cache.
mlaAttnGPU(l, h) ==
  LET dkv == Written(l, h)
  IN  [kv |-> dkv, stale |-> FALSE, attended |-> DeviceReads(dkv, l)]

\* mlaAttn: on the device, or on the host over its own cache.
mlaAttn(rows, l, h) ==
  LET onGPU == cfg.absorbed /\ l \in OnGPU /\ ~decode.stale
      onHost == mlaAttnLegacy(rows, l)
  IN  (IF onGPU /\ HasSlots THEN {mlaAttnGPU(l, h)} ELSE {}) \cup
      (IF ~onGPU \/ ~HasSlots \/ Fault("append")
       THEN {[onHost EXCEPT !.stale = @ \/ onGPU]} ELSE {}) \cup
      (IF onGPU /\ HasSlots /\ Fault("attention")
       THEN {[onHost EXCEPT !.kv = Written(l, h), !.stale = TRUE]} ELSE {})

moeExpertsGPU(l, sum) ==
  (IF l \in OnGPU THEN {[ok |-> TRUE, sum |-> AllExperts(sum)]} ELSE {}) \cup
  (IF l \notin OnGPU \/ Fault("expert") THEN {[ok |-> FALSE, sum |-> NoSum]} ELSE {})

sharedExpert(sum) == WithShared(sum)

\* ffnMoE and ffnDense: the sum that is added to x, which holds already the
\* parts in sum.
ffnMoE(l, sum) ==
  {sharedExpert(IF g.ok THEN g.sum ELSE AllExperts(g.sum)) : g \in moeExpertsGPU(l, sum)}
ffnDense(sum) == {WithShared(AllExperts(sum))}

\* A layer up to its FFN: the host's cache has the row, and dev the latent one.
AtLayer ==
  /\ run.pc = "block" /\ RoomFor(kv.rows, run.layer)
  /\ decode.residDevice => dev.active
  /\ kv' = Advanced(Appended(kv.rows, run.layer, synced))
Attended ==
  LET l == run.layer
      rows == Appended(kv.rows, l, synced)
  IN  {[m EXCEPT !.attended = Apply(synced, l, @)] : m \in mlaAttn(rows, l, synced)}

\* The FFN on the host.
HostFFN(m) ==
  /\ ~decode.residency
  /\ \E sum \in IF cfg.moe THEN ffnMoE(run.layer, NoSum) ELSE ffnDense(NoSum) :
       run' = AfterLayer(IF Complete(sum) THEN m.attended ELSE NoHidden)
  /\ dev' = [dev EXCEPT !.kv = m.kv, !.active = @ /\ ~decode.residDevice]
  /\ decode' = [decode EXCEPT !.stale = m.stale, !.residDevice = FALSE]

forwardBlock == AtLayer /\ \E m \in Attended : HostFFN(m)

\* x is uploaded and the FFN accumulates into d_resid; x on the host stays as
\* it was before the FFN.
DeviceFFN(m) ==
  /\ decode.residency
  /\ dev' = [kv |-> m.kv, resid |-> m.attended, active |-> TRUE]
  /\ decode' = [decode EXCEPT !.stale = m.stale, !.residDevice = TRUE]
  /\ run' = AfterLayer(NoHidden)

forwardBlockDevice == AtLayer /\ \E m \in Attended : DeviceFFN(m)

\* How many experts are in d_resid already when one of them fails.
forwardBlockDeviceMoE == IF cfg.moe /\ Fault("expert") THEN 0..Cardinality(Experts) ELSE {0}

\* recoverHiddenFromDevice after n experts were added to d_resid: the host
\* adds all of them to what comes back; a failed upload leaves nothing there.
Recovered(m) ==
  /\ decode.residency
  /\ dev' = [dev EXCEPT !.kv = m.kv, !.active = FALSE]
  /\ decode' = [decode EXCEPT !.stale = m.stale, !.residDevice = FALSE, !.residency = FALSE]
  /\ \/ Fault("upload") /\ Fails
     \/ /\ \/ Fault("attnffn") \/ (cfg.moe /\ Fault("expert"))
        /\ \/ Fault("download") /\ Fails
           \/ \E n \in forwardBlockDeviceMoE :
                \E sum \in IF cfg.moe THEN ffnMoE(run.layer, NoSum) ELSE ffnDense(NoSum) :
                  LET all == WithExperts(sum, n)
                  IN  run' = AfterLayer(IF Complete(all) THEN m.attended ELSE NoHidden)

recoverHiddenFromDevice == AtLayer /\ \E m \in Attended : Recovered(m)

\* A matrix product of the layer fails, before the row is appended or after.
LayerFails ==
  /\ run.pc = "block" /\ Fault("matmul")
  /\ decode.residDevice => dev.active
  /\ dev' = [dev EXCEPT !.active = @ /\ ~decode.residDevice]
  /\ decode' = [decode EXCEPT !.residDevice = FALSE]
  /\ \/ UNCHANGED kv
     \/ RoomFor(kv.rows, run.layer)
        /\ kv' = [kv EXCEPT !.rows = Appended(@, run.layer, synced)]
  /\ Fails

logitsFinish ==
  LET asked == decode.residDevice /\ decode.logitsOnGPU
  IN  \/ asked /\ LogitsOnDevice(TRUE)
      \/ /\ AtLogits /\ NoLogitsOnDevice(asked)
         /\ FromHost([decode EXCEPT !.logitsOnGPU = @ /\ ~asked], FALSE)

Next ==
  /\ \/ \E n \in 1..CtxLen : Forward(n) \/ Embed(n)
     \/ ResetCache
     \/ forwardToken \/ syncFails
     \/ forwardBlock \/ forwardBlockDevice
     \/ recoverHiddenFromDevice \/ LayerFails
     \/ logitsFinish \/ EmbedEnds
  /\ UNCHANGED cfg
=============================================================================
