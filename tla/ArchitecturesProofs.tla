------------------------ MODULE ArchitecturesProofs ------------------------
(***************************************************************************)
(* That what a call returns is right, for every covered model of the seven *)
(* architectures, any number of layers and any context.  The argument:     *)
(* Inv says, layer by layer, which rows of the conversation the host       *)
(* mirror and the device hold at this point of a call, what the flags take *)
(* back of that, and that the hidden state, on the side that the place     *)
(* names, is the one of the last position after so many layers.  The       *)
(* lemmas of the first part say what the shared steps of ForwardState keep *)
(* of it (a layer, a chunk, an upload, a recovery, the logits); then each  *)
(* architecture's steps are shown to be such steps, with its own windows,  *)
(* experts or latent cache; at last a loaded model satisfies Inv.          *)
(***************************************************************************)
EXTENDS Architectures, SequenceTheorems, FiniteSetTheorems, TLAPS

-----------------------------------------------------------------------------
(* The invariant. *)

Vectors == [pos : Int, layers : Int]
Places == {"idle", "token", "chunk", "block", "host", "batch", "logits", "batchLogits",
           "failed", "panic"}

Mirrors == [rows : [Layers -> Seq(Int)], length : Nat]
Machines == [kv : [Layers -> SUBSET Int], resid : Vectors, active : BOOLEAN]
Flags == [residDevice : BOOLEAN, residency : BOOLEAN, logitsOnGPU : BOOLEAN,
          stale : BOOLEAN, hollow : BOOLEAN]
Calls == [pc : Places, layer : Nat, todo : Nat, batch : Nat, past : Nat,
          x : Vectors, logits : Vectors, embed : BOOLEAN]
TypeOK == kv \in Mirrors /\ dev \in Machines /\ decode \in Flags /\ run \in Calls

\* What Load has made of the options of a covered model.
Settled(c) ==
  /\ Covered(c)
  /\ c.ngl <= NumLayers /\ c.nBatch >= 1
  /\ c.maxSeq = CapMaxSeq(c.ctx, c.gpuMaxSeq)
  /\ c.kvCap = IF c.arch = "mistral" /\ c.sliding # {} /\ c.window < c.ctx THEN c.window ELSE c.ctx
  /\ c.arch = "mistral" /\ c.sliding # {} => c.nBatch = 1

InLayer == run.pc \in {"block", "host", "batch"}
InBatch == run.pc \in {"chunk", "batch", "batchLogits"}
Alive == run.pc \notin {"failed", "panic"}

\* Where a call is.
PlaceInv ==
  /\ run.past <= cfg.ctx
  /\ run.pc \in {"token", "chunk", "block", "host", "batch"} =>
       run.todo >= 1 /\ run.past + run.todo <= cfg.ctx
  /\ InLayer => run.layer < NumLayers /\ run.batch >= 1 /\ run.batch <= run.todo
  /\ run.pc \in {"block", "host"} => run.batch = 1
  /\ run.pc = "batch" => run.batch <= cfg.nBatch
  /\ run.pc \in {"logits", "batchLogits"} => run.past >= 1
  /\ InBatch => cfg.nBatch > 1 /\ ~run.embed /\ cfg.arch # "deepseek2"
  /\ run.pc = "host" => cfg.arch # "deepseek2"

\* The rows of layer l that are there by now.
Passed(l) == IF InLayer /\ l < run.layer THEN run.batch ELSE 0
Done(l) == run.past + Passed(l)

\* The row that a window makes room for.
Slack(l) == IF run.pc \in {"block", "host"} /\ l >= run.layer THEN 1 ELSE 0

\* A layer's rows are those of the last positions, all of them or a window.
RowsOf(l) ==
  /\ Len(kv.rows[l]) <= Done(l)
  /\ \A i \in 1..Len(kv.rows[l]) : kv.rows[l][i] = Done(l) - Len(kv.rows[l]) + i - 1
                                  \/ (decode.hollow /\ kv.rows[l][i] = Hollow)
  /\ \/ Len(kv.rows[l]) = Done(l)
     \/ l \in cfg.sliding /\ Len(kv.rows[l]) >= cfg.window - Slack(l) /\ (decode.stale \/ OnGPU = {})
  /\ cfg.arch # "gemma" => Len(kv.rows[l]) = kv.length + Passed(l)
RowsInv ==
  /\ kv.length <= run.past
  /\ cfg.arch = "gemma" \/ cfg.sliding = {} => kv.length = run.past
  /\ \A l \in Layers : RowsOf(l)

\* Those who do not ask whether the device is stale.
Deaf == cfg.arch \in {"phi2", "phi3", "deepseek"}
\* The device KV may be read.
Counts(stale) == (cfg.arch = "deepseek2" => cfg.absorbed) /\ (Deaf \/ ~stale)

DeviceInv ==
  /\ \A l \in OnGPU : Counts(decode.stale) /\ Done(l) <= cfg.maxSeq => 0..Done(l)-1 \subseteq dev.kv[l]
  /\ Deaf /\ decode.stale => run.past + (IF InLayer THEN run.batch ELSE 0) > cfg.maxSeq

FlagsInv ==
  /\ decode.residency => MayReside(cfg)
  /\ decode.hollow => MayReside(cfg) /\ ~decode.stale /\ cfg.arch # "deepseek2"
                      /\ (OffDevice(cfg) => decode.residency)
  /\ decode.residDevice =>
       /\ MayReside(cfg) /\ (cfg.faults = {} => dev.active)
       /\ IF cfg.arch = "deepseek2" THEN (run.pc = "block" /\ run.layer > 0) \/ run.past >= 1
          ELSE ~decode.stale /\ (dev.active => decode.residency)
  /\ run.pc = "host" => ~decode.hollow /\ ~decode.residDevice
  /\ run.pc = "block" /\ decode.hollow /\ OffDevice(cfg) => decode.residDevice
  /\ cfg.arch \in {"gemma", "phi3", "phi2"} /\ (run.pc = "idle" \/ InBatch) => ~decode.residDevice
  /\ cfg.arch # "deepseek" /\ run.pc \in {"batch", "batchLogits"} => ~decode.residDevice
  /\ cfg.arch \in {"gemma", "phi2"} /\ run.embed => ~decode.residDevice /\ ~decode.hollow

\* The hidden state is the one that the place says it is.
CurrentInv ==
  /\ run.pc = "block" =>
       IF decode.residDevice THEN dev.active => dev.resid = Hidden(run.past, run.layer)
       ELSE run.x = Hidden(run.past, run.layer)
  /\ run.pc \in {"host", "batch"} => run.x = Hidden(Pos, run.layer)
  /\ run.pc = "logits" =>
       IF decode.residDevice THEN dev.active => dev.resid = Hidden(run.past - 1, NumLayers)
       ELSE run.x = Hidden(run.past - 1, NumLayers)
  /\ run.pc = "batchLogits" => run.x = Hidden(run.past - 1, NumLayers)
  /\ run.pc = "idle" /\ run.past > 0 => run.logits = Hidden(run.past - 1, NumLayers)

Inv ==
  /\ TypeOK /\ Settled(cfg)
  /\ run.pc = "failed" => cfg.faults # {}
  /\ decode.residency => MayReside(cfg)
  /\ Alive => PlaceInv /\ RowsInv /\ DeviceInv /\ FlagsInv /\ CurrentInv

-----------------------------------------------------------------------------
(* What a step leaves of the invariant. *)

Same == kv' = kv /\ dev' = dev /\ decode' = decode /\ cfg' = cfg

\* The flags of a cleared context.
Cleared(d) ==
  /\ d \in Flags
  /\ ~d.residDevice /\ ~d.stale /\ ~d.hollow /\ d.residency = decode.residency

\* The numbers of a loaded model.
LEMMA Numbers ==
  ASSUME Settled(cfg)
  PROVE  /\ cfg.ctx \in Nat /\ cfg.ngl \in Nat /\ cfg.nBatch \in Nat /\ cfg.window \in Nat /\ cfg.window >= 1
         /\ cfg.maxSeq \in Nat /\ cfg.kvCap \in Nat /\ cfg.sliding \subseteq Layers /\ cfg.arch \in Archs
         /\ NumLayers \in Nat /\ NumLayers >= 1 /\ OnGPU \subseteq Layers
<1>1. Covered(cfg)
  BY DEF Settled
<1>2. {cfg.ctx, cfg.ngl, cfg.gpuMaxSeq, cfg.nBatch} \subseteq Nat /\ cfg.window \in Nat \ {0} /\ cfg.sliding \subseteq Layers
      /\ cfg.arch \in Archs
  BY <1>1 DEF Covered, Options
<1>3. cfg.maxSeq \in Nat /\ cfg.kvCap \in Nat
  BY <1>2 DEF Settled, CapMaxSeq
<1> QED BY <1>2, <1>3, SizesAssumption DEF OnGPU

\* What a call is made of.
LEMMA Atoms ==
  /\ NoHidden \in Vectors /\ \A p, l \in Int : Hidden(p, l) \in Vectors
  /\ {"idle", "token", "chunk", "block", "host", "batch", "logits", "batchLogits", "failed", "panic"}
       \subseteq Places
BY DEF NoHidden, Hidden, Vectors, Places

\* A new cache and device are of their types.
LEMMA NewTypes ==
  /\ NewKV \in Mirrors /\ NewDevice \in Machines
  /\ \A l \in Layers : NewKV.rows[l] = << >>
  /\ NewKV.length = 0
BY DEF NewKV, NewDevice, NoHidden, Hidden, Vectors, Mirrors, Machines

\* A call that fails after something went wrong.
LEMMA FailureKeeps ==
  ASSUME Inv, TypeOK', cfg' = cfg, run'.pc = "failed", cfg.faults # {}, decode'.residency => MayReside(cfg)
  PROVE  Inv'
BY DEF Inv, Alive, Settled, Covered, Options

\* A cleared context.
LEMMA ClearedKeeps ==
  ASSUME Inv, cfg' = cfg, kv' = NewKV, dev' = NewDevice, Cleared(decode'), TypeOK',
         run'.past = 0, \/ run'.pc = "idle"
                        \/ run'.pc = "token" /\ run'.todo >= 1 /\ run'.todo <= cfg.ctx
  PROVE  Inv'
<1>1. Settled(cfg)' /\ (decode.residency' => MayReside(cfg)')
  BY DEF Inv, Cleared
<1>2. cfg.ctx \in Nat
  BY DEF Inv, Settled, Covered, Options
<1>3. ~InLayer' /\ ~InBatch' /\ \A l : Done(l)' = 0
  BY DEF InLayer, InBatch, Done, Passed
<1>4. PlaceInv'
  BY <1>2, <1>3 DEF PlaceInv, TypeOK, Calls
<1>5. RowsInv'
  BY <1>3, NewTypes DEF RowsInv, RowsOf, Passed, TypeOK, Slack, Calls
<1>6. DeviceInv'
  BY <1>3 DEF DeviceInv, Cleared
<1>7. FlagsInv'
  BY <1>1, <1>3 DEF FlagsInv, Cleared
<1>8. CurrentInv'
  BY DEF CurrentInv
<1> QED BY <1>1, <1>4, <1>5, <1>6, <1>7, <1>8 DEF Inv

\* The caller resets, or embeds.
LEMMA ResetKeeps ==
  ASSUME Inv, cfg' = cfg, NEW d, Cleared(d), Resets(d)
  PROVE  Inv'
<1>1. TypeOK'
  <2>1. run' \in Calls
    BY Atoms DEF Resets, Inv, TypeOK, Calls
  <2> QED BY <2>1, NewTypes DEF Resets, TypeOK, Cleared
<1>2. decode' = d /\ kv' = NewKV /\ dev' = NewDevice /\ run'.past = 0 /\ run'.pc = "idle"
  BY DEF Resets, Inv, TypeOK, Calls
<1> QED BY <1>1, <1>2, ClearedKeeps DEF Cleared

LEMMA EmbedKeeps ==
  ASSUME Inv, cfg' = cfg, NEW d, Cleared(d), NEW n \in 1..CtxLen, StartsEmbed(n, d)
  PROVE  Inv'
<1>0. CtxLen \in Nat /\ n \in Nat /\ n >= 1
  BY SizesAssumption
<1>1. TypeOK'
  <2>1. run' \in Calls
    BY <1>0, Atoms DEF StartsEmbed, Inv, TypeOK, Calls
  <2> QED BY <2>1, NewTypes DEF StartsEmbed, TypeOK, Cleared
<1>2. decode' = d /\ kv' = NewKV /\ dev' = NewDevice /\ run'.past = 0 /\ run'.pc = "token" /\ run'.todo = n
      /\ n <= cfg.ctx /\ n >= 1
  BY <1>0 DEF StartsEmbed, Inv, TypeOK, Calls
<1> QED BY <1>1, <1>2, ClearedKeeps DEF Cleared

\* A call begins.
LEMMA StartKeeps ==
  ASSUME Inv, cfg' = cfg, NEW n \in 1..CtxLen, NEW b \in BOOLEAN,
         b => cfg.nBatch > 1 /\ cfg.arch # "deepseek2", Starts(n, b)
  PROVE  Inv'
<1>0. CtxLen \in Nat /\ n \in Nat /\ n >= 1
  BY SizesAssumption
<1>1. TypeOK'
  <2>1. run' \in Calls
    BY <1>0, Atoms DEF Starts, Inv, TypeOK, Calls
  <2> QED BY <2>1 DEF Starts, Inv, TypeOK
<1>2. /\ kv' = kv /\ dev' = dev /\ decode' = decode /\ run.pc = "idle" /\ ~run.embed
      /\ run'.pc = (IF b THEN "chunk" ELSE "token") /\ run'.todo = n /\ run'.past = run.past
      /\ run'.embed = run.embed /\ run.past + n <= cfg.ctx
  BY DEF Starts, Inv, TypeOK, Calls
<1>3. PlaceInv /\ RowsInv /\ DeviceInv /\ FlagsInv /\ Settled(cfg) /\ TypeOK
  BY <1>2 DEF Inv, Alive
<1>4. ~InLayer /\ ~InLayer' /\ \A l : Passed(l)' = Passed(l) /\ Done(l)' = Done(l)
  BY <1>2 DEF InLayer, Done, Passed
<1>5. PlaceInv'
  BY <1>0, <1>2, <1>3, <1>4 DEF PlaceInv, InBatch
<1>6. RowsInv'
  <2>1. RowsInv' <=> RowsInv
    BY <1>2, <1>4 DEF RowsInv, RowsOf, OnGPU, Slack
  <2> QED BY <1>3, <2>1
<1>7. DeviceInv'
  BY <1>2, <1>3, <1>4 DEF DeviceInv, OnGPU, Counts, Deaf
<1>8. FlagsInv'
  <2>1. cfg.arch = "deepseek2" /\ decode.residDevice => run.past >= 1
    BY <1>2, <1>3 DEF FlagsInv
  <2> QED BY <1>2, <1>3, <2>1 DEF FlagsInv, InBatch
<1>9. CurrentInv'
  BY <1>2 DEF CurrentInv
<1> QED BY <1>1, <1>2, <1>3, <1>5, <1>6, <1>7, <1>8, <1>9 DEF Inv

-----------------------------------------------------------------------------
(* A layer is passed. *)

\* The next layer, or the end of the pass, with x.
Passes(x) ==
  \/ run.pc \in {"block", "host"} /\ run' = AfterLayer(x)
  \/ run.pc = "batch" /\ run' = AfterBatchLayer(x)

Last == run.layer + 1 = NumLayers

LEMMA PassesOn ==
  ASSUME Inv, cfg' = cfg, InLayer, NEW x \in Vectors, Passes(x)
  PROVE  /\ run' \in Calls /\ run'.x = x /\ run'.embed = run.embed /\ Alive' /\ PlaceInv'
         /\ run.layer \in Layers /\ (Last \/ run.layer + 1 < NumLayers)
         /\ ~Last => /\ run'.layer = run.layer + 1 /\ run'.past = run.past /\ run'.batch = run.batch
                     /\ run'.pc = IF run.pc = "batch" THEN "batch" ELSE "block"
         /\ Last => /\ run'.past = run.past + run.batch /\ ~InLayer'
                    /\ run'.pc \in IF run.pc = "batch" THEN {"chunk", "batchLogits"} ELSE {"token", "logits"}
<1>1. run \in Calls /\ PlaceInv /\ Settled(cfg) /\ NumLayers \in Nat /\ NumLayers > 0
  BY SizesAssumption DEF Inv, Alive, InLayer, TypeOK
<1>2. run.layer \in Nat /\ run.batch \in Nat /\ run.todo \in Nat /\ run.past \in Nat /\ cfg.ctx \in Nat /\ cfg.nBatch \in Nat
  BY <1>1 DEF Calls, Settled, Covered, Options
<1>3. run.layer < NumLayers /\ run.batch >= 1 /\ run.batch <= run.todo
      /\ run.todo >= 1 /\ run.past + run.todo <= cfg.ctx
  BY <1>1 DEF PlaceInv, InLayer
<1>4. run.layer \in Layers /\ (Last \/ run.layer + 1 < NumLayers)
  BY <1>1, <1>2, <1>3 DEF Layers, Last
<1>5. CASE run.pc \in {"block", "host"}
  <2>1. run.batch = 1 /\ run' = AfterLayer(x) /\ run.pc # "batch"
    BY <1>1, <1>5 DEF PlaceInv, Passes
  <2>2. CASE ~Last
    <3>1. run' = [run EXCEPT !.pc = "block", !.layer = @ + 1, !.x = x]
      BY <1>2, <1>4, <2>1, <2>2 DEF AfterLayer, Last
    <3>2. run' \in Calls
      <4>1. run.layer + 1 \in Nat /\ x \in Vectors /\ "block" \in Places
        BY <1>2, Atoms
      <4> QED BY <1>1, <3>1, <4>1 DEF Calls
    <3>3. /\ run'.pc = "block" /\ run'.layer = run.layer + 1 /\ run'.x = x /\ run'.past = run.past
          /\ run'.batch = run.batch /\ run'.todo = run.todo /\ run'.embed = run.embed
      BY <1>1, <3>1 DEF Calls
    <3>4. PlaceInv'
      BY <1>1, <1>2, <1>3, <1>4, <2>1, <2>2, <3>3 DEF PlaceInv, InLayer, InBatch, Last
    <3> QED BY <1>4, <2>1, <2>2, <3>2, <3>3, <3>4 DEF Alive
  <2>3. CASE Last
    <3>1. run' = [run EXCEPT !.pc = IF run.todo > 1 THEN "token" ELSE "logits",
                   !.layer = 0, !.batch = 0, !.todo = @ - 1, !.past = @ + 1, !.x = x]
      BY <1>2, <1>4, <2>1, <2>3 DEF AfterLayer, Last
    <3>2. run' \in Calls
      <4>1. run.todo - 1 \in Nat /\ run.past + 1 \in Nat /\ 0 \in Nat /\ x \in Vectors
            /\ (IF run.todo > 1 THEN "token" ELSE "logits") \in Places
        BY <1>2, <1>3, Atoms
      <4> QED BY <1>1, <3>1, <4>1 DEF Calls
    <3>3. /\ run'.pc = (IF run.todo > 1 THEN "token" ELSE "logits") /\ run'.x = x /\ run'.past = run.past + 1
          /\ run'.todo = run.todo - 1 /\ run'.embed = run.embed
      BY <1>1, <3>1 DEF Calls
    <3>4. PlaceInv'
      BY <1>1, <1>2, <1>3, <3>3 DEF PlaceInv, InLayer, InBatch
    <3> QED BY <1>4, <2>1, <2>3, <3>2, <3>3, <3>4 DEF Alive, InLayer
  <2> QED BY <2>2, <2>3
<1>6. CASE run.pc = "batch"
  <2>1. run' = AfterBatchLayer(x) /\ run.batch <= cfg.nBatch /\ cfg.nBatch > 1 /\ ~run.embed /\ cfg.arch # "deepseek2"
    BY <1>1, <1>6 DEF PlaceInv, Passes, InBatch
  <2>2. CASE ~Last
    <3>1. run' = [run EXCEPT !.layer = @ + 1, !.x = x]
      BY <1>2, <1>4, <2>1, <2>2 DEF AfterBatchLayer, Last
    <3>2. run' \in Calls
      <4>1. run.layer + 1 \in Nat /\ x \in Vectors /\ "block" \in Places
        BY <1>2, Atoms
      <4> QED BY <1>1, <3>1, <4>1 DEF Calls
    <3>3. /\ run'.pc = "batch" /\ run'.layer = run.layer + 1 /\ run'.x = x /\ run'.past = run.past
          /\ run'.batch = run.batch /\ run'.todo = run.todo /\ run'.embed = run.embed
      BY <1>1, <1>6, <3>1 DEF Calls
    <3>4. PlaceInv'
      BY <1>1, <1>2, <1>3, <1>4, <2>1, <2>2, <3>3 DEF PlaceInv, InLayer, InBatch, Last
    <3> QED BY <1>4, <1>6, <2>1, <2>2, <3>2, <3>3, <3>4 DEF Alive
  <2>3. CASE Last
    <3>1. run' = [run EXCEPT !.pc = IF run.todo > run.batch THEN "chunk" ELSE "batchLogits",
                   !.layer = 0, !.batch = 0, !.todo = @ - run.batch,
                   !.past = @ + run.batch, !.x = x]
      BY <1>2, <1>4, <2>1, <2>3 DEF AfterBatchLayer, Last
    <3>2. run' \in Calls
      <4>1. run.todo - run.batch \in Nat /\ run.past + run.batch \in Nat /\ 0 \in Nat /\ x \in Vectors
            /\ (IF run.todo > run.batch THEN "chunk" ELSE "batchLogits") \in Places
        BY <1>2, <1>3, Atoms
      <4> QED BY <1>1, <3>1, <4>1 DEF Calls
    <3>3. /\ run'.pc = (IF run.todo > run.batch THEN "chunk" ELSE "batchLogits") /\ run'.x = x
          /\ run'.past = run.past + run.batch
          /\ run'.todo = run.todo - run.batch /\ run'.embed = run.embed
      BY <1>1, <3>1 DEF Calls
    <3>4. PlaceInv'
      BY <1>1, <1>2, <1>3, <2>1, <3>3 DEF PlaceInv, InLayer, InBatch
    <3> QED BY <1>4, <1>6, <2>1, <2>3, <3>2, <3>3, <3>4 DEF Alive, InLayer
  <2> QED BY <2>2, <2>3
<1> QED BY <1>5, <1>6 DEF InLayer

\* Whose rows are how many afterwards.
LEMMA PassesCount ==
  ASSUME Inv, cfg' = cfg, InLayer, NEW x \in Vectors, Passes(x),
         NEW rows, kv' = Advanced(rows), NEW m \in Layers
  PROVE  /\ Done(m)' = IF m = run.layer THEN run.past + run.batch ELSE Done(m)
         /\ kv'.length + Passed(m)' = kv.length + IF m = run.layer THEN run.batch ELSE Passed(m)
         /\ kv'.length - run'.past = kv.length - run.past
         /\ run'.past + (IF InLayer' THEN run'.batch ELSE 0) = run.past + run.batch
         /\ Slack(m)' \in {0, 1} /\ Slack(m) \in {0, 1}
         /\ Slack(m)' = IF m = run.layer THEN 0 ELSE Slack(m)
<1>1. run \in Calls /\ kv \in Mirrors /\ NumLayers \in Nat /\ NumLayers > 0
  BY SizesAssumption DEF Inv, TypeOK
<1>2. run.layer \in Nat /\ run.batch \in Nat /\ run.past \in Nat /\ kv.length \in Nat /\ m \in Nat /\ m < NumLayers
  BY <1>1 DEF Calls, Mirrors, Layers
<1>3. kv'.length = IF run.layer + 1 < NumLayers THEN kv.length ELSE kv.length + run.batch
  BY DEF Advanced
<1>4. CASE ~Last
  <2>1. /\ run'.layer = run.layer + 1 /\ run'.past = run.past /\ run'.batch = run.batch
        /\ run'.pc = (IF run.pc = "batch" THEN "batch" ELSE "block") /\ run.layer + 1 < NumLayers
    BY <1>4, PassesOn
  <2>2. InLayer'
    BY <2>1 DEF InLayer
  <2> QED BY <1>2, <1>3, <2>1, <2>2 DEF Done, Passed, InLayer, Slack
<1>5. CASE Last
  <2>1. /\ run'.past = run.past + run.batch /\ ~InLayer'
        /\ run'.pc \in IF run.pc = "batch" THEN {"chunk", "batchLogits"} ELSE {"token", "logits"}
    BY <1>5, PassesOn
  <2> QED BY <1>2, <1>3, <1>5, <2>1 DEF Done, Passed, InLayer, Last, Slack
<1> QED BY <1>4, <1>5

\* The rows of a layer after its append.
RowsAfter(row, stale, hollow) ==
  /\ Len(row) <= run.past + run.batch
  /\ \A i \in 1..Len(row) : row[i] = run.past + run.batch - Len(row) + i - 1
                             \/ (hollow /\ row[i] = Hollow)
  /\ \/ Len(row) = run.past + run.batch
     \/ run.layer \in cfg.sliding /\ Len(row) >= cfg.window /\ (stale \/ OnGPU = {})
  /\ cfg.arch # "gemma" => Len(row) = kv.length + run.batch

\* The device KV after it.
DeviceAfter(dkv, stale) ==
  /\ \A m \in Layers \ {run.layer} : dkv[m] = dev.kv[m]
  /\ run.layer \in OnGPU /\ Counts(stale) /\ run.past + run.batch <= cfg.maxSeq =>
       0..(run.past + run.batch - 1) \subseteq dkv[run.layer]
  /\ Deaf /\ stale => run.past + run.batch > cfg.maxSeq
  /\ decode.stale => stale

\* The rows on both sides after the layer.
LEMMA PassesRows ==
  ASSUME Inv, cfg' = cfg, InLayer, NEW x \in Vectors, Passes(x), TypeOK',
         NEW rows \in [Layers -> Seq(Int)], kv' = Advanced(rows),
         \A m \in Layers \ {run.layer} : rows[m] = kv.rows[m],
         RowsAfter(rows[run.layer], decode'.stale, decode'.hollow),
         DeviceAfter(dev'.kv, decode'.stale), decode.hollow => decode'.hollow
  PROVE  RowsInv' /\ DeviceInv'
<1>0. run.layer \in Layers /\ Alive
  BY PassesOn DEF InLayer, Alive
<1> PICK l \in Layers : l = run.layer
  BY <1>0
<1>1. /\ RowsInv /\ DeviceInv /\ kv'.rows = rows /\ (decode.stale => decode'.stale)
      /\ OnGPU' = OnGPU /\ OnGPU \subseteq Layers
  BY <1>0 DEF Inv, Advanced, DeviceAfter, OnGPU
<1>2. /\ kv.length \in Nat /\ kv'.length \in Nat /\ run.past \in Nat /\ run'.past \in Nat /\ run.batch \in Nat
      /\ cfg.window \in Nat /\ \A m \in Layers : Len(rows[m]) \in Nat
  BY Numbers DEF Inv, TypeOK, Mirrors, Calls
<1>3. kv'.length <= run'.past /\ (cfg.arch = "gemma" \/ cfg.sliding = {} => kv'.length = run'.past)
  BY <1>0, <1>1, <1>2, PassesCount DEF RowsInv
<1>4. ASSUME NEW m \in Layers, m # l PROVE RowsOf(m)'
  <2>1. /\ Done(m)' = Done(m) /\ kv'.length + Passed(m)' = kv.length + Passed(m) /\ rows[m] = kv.rows[m]
        /\ Slack(m)' = Slack(m)
    BY <1>4, PassesCount
  <2>2. RowsOf(m)
    BY <1>1 DEF RowsInv
  <2>3. Len(rows[m]) \in Nat /\ cfg.window \in Nat /\ cfg' = cfg /\ (decode.hollow => decode'.hollow)
    BY <1>2
  <2>4. \A i \in 1..Len(rows[m]) : rows[m][i] = Done(m)' - Len(rows[m]) + i - 1
                                  \/ (decode'.hollow /\ rows[m][i] = Hollow)
    BY <2>1, <2>2, <2>3 DEF RowsOf
  <2>5. /\ Len(rows[m]) <= Done(m)'
        /\ cfg.arch # "gemma" => Len(rows[m]) = kv'.length + Passed(m)'
    BY <2>1, <2>2 DEF RowsOf
  <2>6. \/ Len(rows[m]) = Done(m)'
        \/ m \in cfg.sliding /\ Len(rows[m]) >= cfg.window - Slack(m)' /\ (decode'.stale \/ OnGPU = {})
    <3>1. \/ Len(rows[m]) = Done(m)
          \/ m \in cfg.sliding /\ Len(rows[m]) >= cfg.window - Slack(m) /\ (decode.stale \/ OnGPU = {})
      BY <2>1, <2>2 DEF RowsOf
    <3> QED BY <1>1, <2>1, <2>3, <3>1
  <2> QED BY <1>1, <2>3, <2>4, <2>5, <2>6 DEF RowsOf
<1>5. RowsOf(l)'
  <2>1. /\ Done(l)' = run.past + run.batch /\ kv'.length + Passed(l)' = kv.length + run.batch
        /\ Slack(l)' = 0
    BY PassesCount
  <2>2. RowsAfter(rows[l], decode'.stale, decode'.hollow)
    OBVIOUS
  <2> DEFINE row == rows[l]
  <2>3. kv'.rows[l] = row /\ Len(row) \in Nat /\ cfg' = cfg /\ OnGPU' = OnGPU
    BY <1>1, <1>2
  <2> HIDE DEF row
  <2>4. RowsAfter(row, decode'.stale, decode'.hollow)
    BY <2>2 DEF row
  <2>5. ASSUME NEW i \in 1..Len(row)
        PROVE  row[i] = Done(l)' - Len(row) + i - 1 \/ (decode'.hollow /\ row[i] = Hollow)
    <3>1. row[i] = run.past + run.batch - Len(row) + i - 1 \/ (decode'.hollow /\ row[i] = Hollow)
      BY <2>4 DEF RowsAfter
    <3>2. Done(l)' \in Nat /\ Len(row) \in Nat /\ i \in Nat /\ run.past \in Nat /\ run.batch \in Nat
      BY <1>2, <2>1, <2>3
    <3>3. Done(l)' - Len(row) + i - 1 = run.past + run.batch - Len(row) + i - 1
      BY <2>1, <3>2
    <3> QED BY <3>1, <3>3
  <2>6. Len(row) <= Done(l)' /\ (cfg.arch # "gemma" => Len(row) = kv'.length + Passed(l)')
    BY <2>1, <2>4 DEF RowsAfter
  <2>7. \/ Len(row) = Done(l)'
        \/ l \in cfg.sliding /\ Len(row) >= cfg.window /\ (decode'.stale \/ OnGPU = {})
    BY <2>1, <2>4 DEF RowsAfter
  <2>8. Len(row) >= cfg.window => Len(row) >= cfg.window - Slack(l)'
    BY <1>2, <2>1, <2>3
  <2> QED BY <2>3, <2>5, <2>6, <2>7, <2>8 DEF RowsOf
<1>6. ASSUME NEW m \in OnGPU, Counts(decode'.stale), Done(m)' <= cfg.maxSeq
      PROVE  0..(Done(m)' - 1) \subseteq dev'.kv[m]
  <2>1. m \in Layers /\ Counts(decode.stale)
    BY <1>1, <1>6 DEF Counts
  <2>2. CASE m = l
    <3>1. Done(m)' = run.past + run.batch
      BY <2>1, <2>2, PassesCount
    <3>2. run.layer \in OnGPU /\ Counts(decode'.stale) /\ run.past + run.batch <= cfg.maxSeq
      BY <1>6, <2>2, <3>1
    <3>3. 0..(run.past + run.batch - 1) \subseteq dev'.kv[run.layer]
      BY <3>2 DEF DeviceAfter
    <3> QED BY <1>2, <2>2, <3>1, <3>3
  <2>3. CASE m # l
    <3>1. Done(m)' = Done(m) /\ dev'.kv[m] = dev.kv[m]
      BY <2>1, <2>3, PassesCount DEF DeviceAfter
    <3>2. Done(m) <= cfg.maxSeq
      BY <1>6, <3>1
    <3>3. 0..(Done(m) - 1) \subseteq dev.kv[m]
      BY <1>1, <2>1, <3>2 DEF DeviceInv
    <3> QED BY <3>1, <3>3
  <2> QED BY <2>2, <2>3
<1>7. run'.past + (IF InLayer' THEN run'.batch ELSE 0) = run.past + run.batch
  BY <1>0, PassesCount
<1>8. DeviceInv'
  BY <1>1, <1>6, <1>7 DEF DeviceInv, DeviceAfter, Deaf, Counts
<1> QED BY <1>1, <1>3, <1>4, <1>5, <1>8 DEF RowsInv

-----------------------------------------------------------------------------
(* The rows of a layer, and who reads them. *)

\* What a layer in progress knows.
LEMMA InLayerFacts ==
  ASSUME Inv, InLayer
  PROVE  /\ PlaceInv /\ RowsInv /\ DeviceInv /\ FlagsInv /\ CurrentInv /\ Settled(cfg)
         /\ run.layer \in Layers /\ run.past \in Nat /\ run.batch \in Nat /\ run.batch >= 1 /\ kv.length \in Nat
         /\ run.todo \in Nat /\ run.batch <= run.todo /\ run.past + run.batch <= cfg.ctx
         /\ Pos \in Nat /\ Pos = run.past + run.batch - 1 /\ Done(run.layer) = run.past /\ Passed(run.layer) = 0
         /\ kv.rows \in [Layers -> Seq(Int)] /\ dev.kv \in [Layers -> SUBSET Int] /\ run.x \in Vectors
         /\ run \in Calls /\ kv \in Mirrors /\ dev \in Machines /\ decode \in Flags
<1>1. /\ PlaceInv /\ RowsInv /\ DeviceInv /\ FlagsInv /\ CurrentInv /\ Settled(cfg)
      /\ run \in Calls /\ kv \in Mirrors /\ dev \in Machines /\ decode \in Flags
  BY DEF Inv, Alive, InLayer, TypeOK
<1>2. /\ run.past \in Nat /\ run.batch \in Nat /\ run.layer \in Nat /\ run.todo \in Nat /\ kv.length \in Nat
      /\ run.x \in Vectors /\ kv.rows \in [Layers -> Seq(Int)] /\ dev.kv \in [Layers -> SUBSET Int]
  BY <1>1 DEF Calls, Mirrors, Machines
<1>3. /\ run.layer < NumLayers /\ run.batch >= 1 /\ run.batch <= run.todo /\ run.past + run.todo <= cfg.ctx
  BY <1>1 DEF PlaceInv, InLayer
<1>4. run.layer \in Layers /\ run.past + run.batch <= cfg.ctx
  <2>1. NumLayers \in Nat /\ cfg.ctx \in Nat
    BY <1>1, Numbers
  <2>2. run.layer \in 0..(NumLayers - 1)
    BY <1>2, <1>3, <2>1
  <2>3. run.past + run.batch <= cfg.ctx
    BY <1>2, <1>3, <2>1
  <2> QED BY <2>2, <2>3 DEF Layers
<1>5. Pos \in Nat /\ Pos = run.past + run.batch - 1 /\ Done(run.layer) = run.past /\ Passed(run.layer) = 0
  BY <1>2, <1>3 DEF Pos, Done, Passed
<1> QED BY <1>1, <1>2, <1>3, <1>4, <1>5

\* The rows that a layer appends to: those before this pass.
RowsBefore(row, stale) ==
  /\ row \in Seq(Int) /\ Len(row) <= run.past
  /\ \A i \in 1..Len(row) : row[i] = run.past - Len(row) + i - 1 \/ (decode.hollow /\ row[i] = Hollow)
  /\ \/ Len(row) = run.past
     \/ run.layer \in cfg.sliding /\ Len(row) >= cfg.window - run.batch /\ (stale \/ OnGPU = {})
  /\ cfg.arch # "gemma" => Len(row) = kv.length

LEMMA RowsAreBefore ==
  ASSUME Inv, InLayer
  PROVE  RowsBefore(kv.rows[run.layer], decode.stale)
<1> DEFINE l == run.layer
           row == kv.rows[l]
<1>1. RowsOf(l) /\ l \in Layers /\ Done(l) = run.past /\ Passed(l) = 0 /\ kv.length \in Nat /\ row \in Seq(Int)
  BY InLayerFacts DEF RowsInv
<1>2. Slack(l) \in {0, 1} /\ cfg.window \in Nat /\ Len(row) \in Nat /\ run.batch \in Nat /\ run.batch >= 1
  BY <1>1, InLayerFacts, Numbers DEF Slack
<1>3. Len(row) <= run.past /\ (cfg.arch # "gemma" => Len(row) = kv.length)
  BY <1>1 DEF RowsOf
<1>4. \A i \in 1..Len(row) : row[i] = run.past - Len(row) + i - 1 \/ (decode.hollow /\ row[i] = Hollow)
  BY <1>1 DEF RowsOf
<1>5. \/ Len(row) = run.past
      \/ l \in cfg.sliding /\ Len(row) >= cfg.window - Slack(l) /\ (decode.stale \/ OnGPU = {})
  BY <1>1 DEF RowsOf
<1> QED BY <1>1, <1>2, <1>3, <1>4, <1>5 DEF RowsBefore

\* What AppendN leaves.
LEMMA AppendedIs ==
  ASSUME run.batch \in Nat, run.past \in Nat, NEW made \in [Layers -> Seq(Int)], NEW l \in Layers, NEW h
  PROVE  LET rows == Appended(made, l, h)
         IN  /\ rows \in [Layers -> Seq(Int)]
             /\ \A m \in Layers \ {l} : rows[m] = made[m]
             /\ Len(rows[l]) = Len(made[l]) + run.batch
             /\ \A i \in 1..Len(made[l]) : rows[l][i] = made[l][i]
             /\ h = Hidden(Pos, l) =>
                  \A i \in 1..run.batch : rows[l][Len(made[l]) + i] = run.past + i - 1
<1> DEFINE new == [i \in 1..run.batch |-> IF h = Hidden(Pos, l) THEN run.past + i - 1 ELSE Junk]
           rows == Appended(made, l, h)
<1>1. new \in Seq(Int) /\ Len(new) = run.batch
  BY DEF Junk
<1>2. h = Hidden(Pos, l) => \A i \in 1..run.batch : new[i] = run.past + i - 1
  OBVIOUS
<1>3. rows = [made EXCEPT ![l] = @ \o new]
  BY DEF Appended
<1> HIDE DEF new, rows
<1>4. rows[l] = made[l] \o new /\ made[l] \in Seq(Int) /\ \A m \in Layers \ {l} : rows[m] = made[m]
  BY <1>3
<1>5. made[l] \o new \in Seq(Int) /\ Len(made[l] \o new) = Len(made[l]) + run.batch
  <2>1. made[l] \in Seq(Int) /\ new \in Seq(Int)
    BY <1>1, <1>4
  <2>2. made[l] \o new \in Seq(Int) /\ Len(made[l] \o new) = Len(made[l]) + Len(new)
    BY <2>1, ConcatProperties
  <2> QED BY <1>1, <2>2
<1>6. \A i \in 1..Len(made[l]) : (made[l] \o new)[i] = made[l][i]
  BY <1>1, <1>4
<1>7. \A i \in 1..run.batch : (made[l] \o new)[Len(made[l]) + i] = new[i]
  BY <1>1, <1>4
<1>8. rows \in [Layers -> Seq(Int)]
  BY <1>3, <1>4, <1>5
<1> QED BY <1>2, <1>4, <1>5, <1>6, <1>7, <1>8 DEF rows

LEMMA RowsAppended ==
  ASSUME Inv, InLayer, NEW made \in [Layers -> Seq(Int)], NEW stale \in BOOLEAN, RowsBefore(made[run.layer], stale)
  PROVE  RowsAfter(Appended(made, run.layer, Hidden(Pos, run.layer))[run.layer], stale, decode.hollow)
<1> DEFINE l == run.layer
           old == made[l]
           h == Hidden(Pos, l)
           row == Appended(made, l, h)[l]
<1>0. l \in Layers /\ run.past \in Nat /\ run.batch \in Nat /\ run.batch >= 1 /\ kv.length \in Nat /\ cfg.window \in Nat
  BY InLayerFacts, Numbers
<1>1. Len(old) \in Nat /\ Len(row) = Len(old) + run.batch
  BY <1>0, AppendedIs
<1>2. \A i \in 1..Len(old) : row[i] = old[i]
  BY <1>0, AppendedIs
<1>3. \A i \in 1..run.batch : row[Len(old) + i] = run.past + i - 1
  <2>1. h = Hidden(Pos, l)
    OBVIOUS
  <2> HIDE DEF h
  <2> QED BY <1>0, <2>1, AppendedIs
<1>4. RowsBefore(old, stale)
  OBVIOUS
<1> HIDE DEF l, old, row
<1>5. ASSUME NEW i \in 1..Len(row)
      PROVE  row[i] = run.past + run.batch - Len(row) + i - 1 \/ (decode.hollow /\ row[i] = Hollow)
  <2>1. CASE i <= Len(old)
    <3>1. i \in 1..Len(old) /\ row[i] = old[i]
      BY <1>1, <1>2, <2>1
    <3>2. old[i] = run.past - Len(old) + i - 1 \/ (decode.hollow /\ old[i] = Hollow)
      BY <1>4, <3>1 DEF RowsBefore
    <3> QED BY <1>0, <1>1, <3>1, <3>2
  <2>2. CASE i > Len(old)
    <3>1. i - Len(old) \in 1..run.batch /\ i = Len(old) + (i - Len(old))
      BY <1>0, <1>1, <2>2
    <3>2. row[i] = run.past + (i - Len(old)) - 1
      BY <1>3, <3>1
    <3> QED BY <1>0, <1>1, <3>2
  <2> QED BY <1>1, <2>1, <2>2
<1>6. /\ Len(row) <= run.past + run.batch
      /\ cfg.arch # "gemma" => Len(row) = kv.length + run.batch
  BY <1>0, <1>1, <1>4 DEF RowsBefore
<1>7. \/ Len(row) = run.past + run.batch
      \/ run.layer \in cfg.sliding /\ Len(row) >= cfg.window /\ (stale \/ OnGPU = {})
  <2>1. \/ Len(old) = run.past
        \/ run.layer \in cfg.sliding /\ Len(old) >= cfg.window - run.batch /\ (stale \/ OnGPU = {})
    BY <1>4 DEF RowsBefore
  <2>2. Len(old) >= cfg.window - run.batch => Len(row) >= cfg.window
    BY <1>0, <1>1
  <2>3. Len(old) = run.past => Len(row) = run.past + run.batch
    BY <1>0, <1>1
  <2> QED BY <2>1, <2>2, <2>3
<1>8. RowsAfter(row, stale, decode.hollow)
  BY <1>5, <1>6, <1>7 DEF RowsAfter
<1> QED BY <1>8 DEF row, l, h

\* What Bump leaves.
LEMMA RowsBumped ==
  ASSUME Inv, InLayer, run.batch = 1
  PROVE  LET rows == Bumped(kv.rows, run.layer)
         IN  /\ rows \in [Layers -> Seq(Int)]
             /\ \A m \in Layers \ {run.layer} : rows[m] = kv.rows[m]
             /\ RowsAfter(rows[run.layer], decode.stale, TRUE)
<1> DEFINE l == run.layer
           old == kv.rows[l]
           rows == Bumped(kv.rows, l)
           row == rows[l]
<1>0. l \in Layers /\ run.past \in Nat /\ run.batch \in Nat /\ kv.length \in Nat /\ cfg.window \in Nat
      /\ kv.rows \in [Layers -> Seq(Int)] /\ Hollow \in Int
  BY InLayerFacts, Numbers DEF Hollow
<1>1. rows = [kv.rows EXCEPT ![l] = Append(@, Hollow)] /\ old \in Seq(Int)
  BY <1>0 DEF Bumped
<1>2. Append(old, Hollow) \in Seq(Int)
  BY <1>0, <1>1
<1>3. rows \in [Layers -> Seq(Int)] /\ row = Append(old, Hollow) /\ \A m \in Layers \ {l} : rows[m] = kv.rows[m]
  BY <1>0, <1>1, <1>2
<1>4. RowsBefore(old, decode.stale)
  BY RowsAreBefore
<1> HIDE DEF l, old, rows, row
<1>5. Len(old) \in Nat /\ Len(row) = Len(old) + 1 /\ row[Len(row)] = Hollow /\ \A i \in 1..Len(old) : row[i] = old[i]
  BY <1>0, <1>1, <1>3
<1>6. ASSUME NEW i \in 1..Len(row)
      PROVE  row[i] = run.past + run.batch - Len(row) + i - 1 \/ row[i] = Hollow
  <2>1. CASE i <= Len(old)
    <3>1. i \in 1..Len(old) /\ row[i] = old[i]
      BY <1>5, <2>1
    <3>2. old[i] = run.past - Len(old) + i - 1 \/ old[i] = Hollow
      BY <1>4, <3>1 DEF RowsBefore
    <3> QED BY <1>0, <1>5, <3>1, <3>2
  <2>2. CASE i > Len(old)
    BY <1>5, <2>2
  <2> QED BY <1>5, <2>1, <2>2
<1>7. /\ Len(row) <= run.past + run.batch
      /\ cfg.arch # "gemma" => Len(row) = kv.length + run.batch
  BY <1>0, <1>5, <1>4 DEF RowsBefore
<1>8. \/ Len(row) = run.past + run.batch
      \/ run.layer \in cfg.sliding /\ Len(row) >= cfg.window /\ (decode.stale \/ OnGPU = {})
  <2>1. \/ Len(old) = run.past
        \/ run.layer \in cfg.sliding /\ Len(old) >= cfg.window - run.batch /\ (decode.stale \/ OnGPU = {})
    BY <1>4 DEF RowsBefore
  <2> QED BY <1>0, <1>5, <2>1
<1>9. RowsAfter(row, decode.stale, TRUE)
  BY <1>6, <1>7, <1>8 DEF RowsAfter
<1> QED BY <1>3, <1>9 DEF row, rows, l

\* A model whose hidden state may stay on the device has room for its context.
LEMMA ResidentFacts ==
  ASSUME Inv, Alive, MayReside(cfg), cfg.arch # "deepseek2"
  PROVE  /\ kv.length = run.past /\ cfg.ctx <= cfg.maxSeq /\ OnGPU = Layers
         /\ ~Fault("append") /\ ~Fault("attention")
         /\ InLayer => HasSlots
<1>1. Settled(cfg) /\ Covered(cfg) /\ RowsInv /\ PlaceInv
  BY DEF Inv, Settled
<1>2. cfg.ctx <= cfg.maxSeq /\ cfg.faults \cap {"append", "attention"} = {}
  BY <1>1 DEF Covered, Options, Settled
<1>3. cfg.arch = "gemma" \/ cfg.sliding = {}
  BY <1>1 DEF Covered, Options, MayReside
<1>4. kv.length = run.past
  BY <1>1, <1>3 DEF RowsInv
<1>5. OnGPU = Layers
  BY <1>1, Numbers DEF OnGPU, MayReside, AllOffloaded, Layers
<1>6. ASSUME InLayer PROVE HasSlots
  <2>1. run.past + run.batch <= cfg.ctx /\ run.past \in Nat /\ run.batch \in Nat /\ cfg.ctx \in Nat /\ cfg.maxSeq \in Nat
    BY <1>1, <1>6, InLayerFacts, Numbers
  <2> QED BY <1>2, <1>4, <2>1 DEF HasSlots
<1> QED BY <1>2, <1>4, <1>5, <1>6 DEF Fault

\* A row is written to the device at its own position.
LEMMA LengthIsPast ==
  ASSUME Inv, InLayer, run.layer \in OnGPU, Deaf \/ ~decode.stale
  PROVE  kv.length = run.past
<1>1. RowsInv /\ Covered(cfg) /\ kv.length \in Nat /\ run.past \in Nat
  BY InLayerFacts DEF Settled
<1>2. CASE cfg.arch = "gemma" \/ cfg.sliding = {}
  BY <1>1, <1>2 DEF RowsInv
<1>3. CASE cfg.arch # "gemma" /\ cfg.sliding # {}
  <2>1. ~Deaf /\ OnGPU # {}
    BY <1>1, <1>3 DEF Covered, Options, Deaf
  <2>2. RowsBefore(kv.rows[run.layer], decode.stale)
    BY RowsAreBefore
  <2> QED BY <1>3, <2>1, <2>2 DEF RowsBefore
<1> QED BY <1>2, <1>3

\* KVCacheAppend.
LEMMA WrittenIs ==
  ASSUME Inv, InLayer, NEW h, NEW l \in Layers
  PROVE  /\ Written(l, h) \in [Layers -> SUBSET Int]
         /\ \A m \in Layers \ {l} : Written(l, h)[m] = dev.kv[m]
         /\ h = Hidden(Pos, l) /\ kv.length = run.past =>
              Written(l, h)[l] = dev.kv[l] \cup (run.past..(run.past + run.batch - 1))
<1>1. dev.kv \in [Layers -> SUBSET Int] /\ run.past \in Nat /\ run.batch \in Nat /\ Pos = run.past + run.batch - 1
  BY InLayerFacts
<1>2. dev.kv[l] \cup (run.past..Pos) \in SUBSET Int /\ dev.kv[l] \ (kv.length..(kv.length + run.batch - 1)) \in SUBSET Int
  BY <1>1
<1> QED BY <1>1, <1>2 DEF Written

\* The device KV that is not written to.
LEMMA NotWritten ==
  ASSUME Inv, InLayer, NEW stale \in BOOLEAN, decode.stale => stale,
         \/ run.layer \notin OnGPU /\ stale = decode.stale
         \/ ~Counts(stale) /\ ~Deaf
         \/ Deaf /\ run.past + run.batch > cfg.maxSeq
  PROVE  DeviceAfter(dev.kv, stale)
<1>1. DeviceInv /\ run.past \in Nat /\ run.batch \in Nat /\ cfg.maxSeq \in Nat
  BY InLayerFacts, Numbers
<1>2. Deaf /\ stale => run.past + run.batch > cfg.maxSeq
  BY <1>1 DEF DeviceInv
<1>3. ~(run.layer \in OnGPU /\ Counts(stale) /\ run.past + run.batch <= cfg.maxSeq)
  BY <1>1
<1> QED BY <1>2, <1>3 DEF DeviceAfter

LEMMA WrittenAfter ==
  ASSUME Inv, InLayer, run.layer \in OnGPU, Deaf \/ ~decode.stale,
         NEW h, h = Hidden(Pos, run.layer)
  PROVE  /\ DeviceAfter(Written(run.layer, h), decode.stale)
         /\ Written(run.layer, h) \in [Layers -> SUBSET Int]
<1> DEFINE l == run.layer
           dkv == Written(l, h)
<1>1. DeviceInv /\ run.past \in Nat /\ run.batch \in Nat /\ run.batch >= 1 /\ cfg.maxSeq \in Nat /\ Done(l) = run.past /\ l \in Layers
  BY InLayerFacts, Numbers
<1>2. kv.length = run.past
  BY LengthIsPast
<1>3. dkv \in [Layers -> SUBSET Int] /\ (\A m \in Layers \ {l} : dkv[m] = dev.kv[m])
      /\ dkv[l] = dev.kv[l] \cup (run.past..(run.past + run.batch - 1))
  BY <1>1, <1>2, WrittenIs
<1>4. Deaf /\ decode.stale => run.past + run.batch > cfg.maxSeq
  BY <1>1 DEF DeviceInv
<1>5. ASSUME Counts(decode.stale), run.past + run.batch <= cfg.maxSeq
      PROVE  0..(run.past + run.batch - 1) \subseteq dkv[l]
  <2>1. 0..(Done(l) - 1) \subseteq dev.kv[l]
    <3>1. Done(l) <= cfg.maxSeq
      BY <1>1, <1>5
    <3> QED BY <1>1, <1>5, <3>1 DEF DeviceInv
  <2>2. 0..(run.past - 1) \subseteq dev.kv[l]
    BY <1>1, <2>1
  <2>3. 0..(run.past + run.batch - 1) \subseteq (0..(run.past - 1)) \cup (run.past..(run.past + run.batch - 1))
    BY <1>1
  <2> QED BY <1>3, <2>2, <2>3
<1> QED BY <1>3, <1>4, <1>5 DEF DeviceAfter

\* What an append that may fail leaves.
LEMMA MirrorIs ==
  ASSUME Inv, InLayer, run.x = Hidden(Pos, run.layer), cfg.arch # "deepseek2",
         NEW called \in BOOLEAN, NEW noted \in BOOLEAN,
         Deaf \/ noted, ~called => decode.stale, called => Deaf \/ ~decode.stale,
         NEW m \in Mirror(run.layer, called, noted)
  PROVE  /\ m.kv \in [Layers -> SUBSET Int] /\ m.stale \in BOOLEAN
         /\ DeviceAfter(m.kv, m.stale)
         /\ MayReside(cfg) => m.stale = decode.stale
         /\ Deaf => (m.stale = decode.stale \/ run.past + run.batch > cfg.maxSeq)
<1> DEFINE l == run.layer
           kept == [kv |-> dev.kv, stale |-> decode.stale]
           lost == [kv |-> dev.kv, stale |-> decode.stale \/ noted]
           made == [kv |-> Written(l, run.x), stale |-> decode.stale]
<1>1. /\ DeviceInv /\ Covered(cfg) /\ Alive /\ decode.stale \in BOOLEAN /\ l \in Layers /\ dev.kv \in [Layers -> SUBSET Int]
      /\ run.past \in Nat /\ run.batch \in Nat /\ cfg.maxSeq \in Nat
  BY InLayerFacts, Numbers DEF Flags, Alive, InLayer, Settled
<1>2. CASE (l \notin OnGPU \/ ~called) /\ m = kept
  <2>1. l \in OnGPU => decode.stale
    BY <1>2
  <2>2. l \in OnGPU /\ Deaf => run.past + run.batch > cfg.maxSeq
    BY <1>1, <2>1 DEF DeviceInv, InLayer
  <2>3. DeviceAfter(dev.kv, decode.stale)
    BY <1>1, <2>1, <2>2, NotWritten DEF Counts
  <2> QED BY <1>1, <1>2, <2>3
<1>3. CASE l \in OnGPU /\ called /\ HasSlots /\ m = made
  BY <1>1, <1>3, WrittenAfter
<1>4. CASE l \in OnGPU /\ called /\ (~HasSlots \/ Fault("append")) /\ m = lost
  <2>1. kv.length = run.past
    BY <1>1, <1>4, LengthIsPast
  <2>2. Deaf => run.past + run.batch > cfg.maxSeq
    <3>1. Deaf => ~HasSlots
      BY <1>1, <1>4 DEF Covered, Options, Deaf, Fault
    <3> QED BY <1>1, <2>1, <3>1 DEF HasSlots
  <2>3. ~Deaf => ~Counts(decode.stale \/ noted)
    BY DEF Counts
  <2>4. DeviceAfter(dev.kv, decode.stale \/ noted)
    BY <1>1, <2>2, <2>3, NotWritten
  <2>5. ~MayReside(cfg)
    BY <1>1, <1>4, ResidentFacts
  <2> QED BY <1>1, <1>4, <2>2, <2>4, <2>5
<1>5. \/ (l \notin OnGPU \/ ~called) /\ m = kept
      \/ l \in OnGPU /\ called /\ HasSlots /\ m = made
      \/ l \in OnGPU /\ called /\ (~HasSlots \/ Fault("append")) /\ m = lost
  BY DEF Mirror
<1> HIDE DEF kept, lost, made
<1> QED BY <1>2, <1>3, <1>4, <1>5

\* Every query finds its keys on the device,
LEMMA DeviceIsRight ==
  ASSUME Inv, InLayer, NEW dkv, NEW stale, DeviceAfter(dkv, stale), Counts(stale), kv.length = run.past,
         run.layer \in OnGPU, HasSlots, \A p \in run.past..Pos : FirstOf(run.layer, p) = 0
  PROVE  DeviceReads(dkv, run.layer)
<1>1. run.past \in Nat /\ run.batch \in Nat /\ Pos = run.past + run.batch - 1 /\ cfg.maxSeq \in Nat
  BY InLayerFacts, Numbers
<1>2. 0..(run.past + run.batch - 1) \subseteq dkv[run.layer]
  BY <1>1 DEF DeviceAfter, HasSlots
<1>3. ASSUME NEW p \in run.past..Pos PROVE 0..p \subseteq dkv[run.layer]
  <2>1. 0..p \subseteq 0..(run.past + run.batch - 1)
    BY <1>1, <1>3
  <2> QED BY <1>2, <2>1
<1> QED BY <1>3 DEF DeviceReads

\* or in the rows of the host.
LEMMA HostIsRight ==
  ASSUME Inv, InLayer, ~decode.hollow, kv.length = run.past, run.layer \notin cfg.sliding,
         NEW rows \in [Layers -> Seq(Int)], NEW stale, RowsAfter(rows[run.layer], stale, decode.hollow)
  PROVE  HostReads(rows, run.layer)
<1> DEFINE l == run.layer
           row == rows[l]
<1>1. run.past \in Nat /\ run.batch \in Nat /\ l \in Layers /\ row \in Seq(Int)
  BY InLayerFacts
<1>2. Len(row) = run.past + run.batch /\ \A i \in 1..Len(row) : row[i] = i - 1
  <2>1. Len(row) = run.past + run.batch
    BY DEF RowsAfter
  <2>2. ASSUME NEW i \in 1..Len(row) PROVE row[i] = i - 1
    <3>1. row[i] = run.past + run.batch - Len(row) + i - 1
      BY DEF RowsAfter
    <3> QED BY <1>1, <2>1, <3>1
  <2> QED BY <2>1, <2>2
<1> HIDE DEF row
<1>3. ASSUME NEW i \in 0..run.batch-1
      PROVE  run.past + i + 1 <= Len(row) /\ SubSeq(row, 1, run.past + i + 1) = WindowOf(l, run.past + i)
  <2>1. i \in Nat /\ i < run.batch /\ run.past + i + 1 <= Len(row)
    BY <1>1, <1>2, <1>3
  <2>2. WindowOf(l, run.past + i) = [j \in 1..(run.past + i + 1) |-> j - 1]
    <3>1. FirstOf(l, run.past + i) = 0
      BY DEF FirstOf
    <3>2. \A p \in Nat : [j \in 1..(p - 0 + 1) |-> 0 + j - 1] = [j \in 1..(p + 1) |-> j - 1]
      OBVIOUS
    <3>3. run.past + i \in Nat
      BY <1>1, <2>1
    <3>4. WindowOf(l, run.past + i) = [j \in 1..((run.past + i) - 0 + 1) |-> 0 + j - 1]
      BY <3>1 DEF WindowOf
    <3> QED BY <3>2, <3>3, <3>4
  <2>3. SubSeq(row, 1, run.past + i + 1) = [j \in 1..(run.past + i + 1) |-> row[j]]
    BY <1>1, <2>1
  <2>4. \A j \in 1..(run.past + i + 1) : row[j] = j - 1
    BY <1>1, <1>2, <2>1
  <2> QED BY <2>1, <2>2, <2>3, <2>4
<1> QED BY <1>3 DEF HostReads, row

\* Attention is right on whichever side it runs.
LEMMA AttendsRight ==
  ASSUME Inv, InLayer, cfg.arch # "deepseek2", NEW dkv, NEW asked, NEW onHost,
         run.layer \in OnGPU /\ asked /\ HasSlots => DeviceReads(dkv, run.layer),
         decode.hollow => asked, ~decode.hollow => onHost = TRUE,
         NEW attended \in Attends(dkv, run.layer, asked, onHost)
  PROVE  attended = TRUE
<1>1. FlagsInv /\ Alive /\ run.layer \in Layers
  BY InLayerFacts DEF Alive, InLayer
<1>2. CASE decode.hollow
  <2>1. MayReside(cfg)
    BY <1>1, <1>2 DEF FlagsInv
  <2>2. run.layer \in OnGPU /\ HasSlots /\ ~Fault("attention")
    BY <1>1, <2>1, ResidentFacts
  <2>3. DeviceReads(dkv, run.layer) \in BOOLEAN
    BY DEF DeviceReads
  <2> QED BY <1>2, <2>2, <2>3 DEF Attends
<1>3. CASE ~decode.hollow
  <2>1. DeviceReads(dkv, run.layer) \in BOOLEAN
    BY DEF DeviceReads
  <2> QED BY <1>3, <2>1 DEF Attends
<1> QED BY <1>2, <1>3

-----------------------------------------------------------------------------
(* The steps of a call. *)

\* The hidden state on the host is the one that a layer starts from.
LEMMA HostIsCurrent ==
  ASSUME Inv, AtHostBlock \/ run.pc = "batch"
  PROVE  InLayer /\ Alive /\ run.x = Hidden(Pos, run.layer) /\ (AtHostBlock => ~decode.residDevice /\ run.batch = 1)
<1>1. InLayer /\ Alive
  BY DEF AtHostBlock, InLayer, Alive
<1>2. PlaceInv /\ FlagsInv /\ CurrentInv /\ run.past \in Nat /\ Pos = run.past + run.batch - 1
  BY <1>1, InLayerFacts
<1>3. AtHostBlock => ~decode.residDevice /\ run.batch = 1
  BY <1>2 DEF AtHostBlock, FlagsInv, PlaceInv
<1>4. CASE run.pc = "block"
  <2>1. Pos = run.past /\ ~decode.residDevice
    BY <1>2, <1>3, <1>4 DEF AtHostBlock
  <2> QED BY <1>1, <1>2, <1>3, <1>4, <2>1 DEF CurrentInv
<1>5. CASE run.pc # "block"
  BY <1>1, <1>2, <1>3, <1>5 DEF CurrentInv, InLayer
<1> QED BY <1>4, <1>5

\* A layer, one token's on the host or a chunk's.
LEMMA LayerKeeps ==
  ASSUME Inv, cfg' = cfg, cfg.arch # "deepseek2", AtHostBlock \/ run.pc = "batch",
         Passes(Hidden(Pos, run.layer + 1)),
         NEW rows \in [Layers -> Seq(Int)], kv' = Advanced(rows),
         \A m \in Layers \ {run.layer} : rows[m] = kv.rows[m],
         NEW stale \in BOOLEAN, RowsAfter(rows[run.layer], stale, decode.hollow),
         dev' \in Machines, DeviceAfter(dev'.kv, stale), run.pc = "batch" => dev'.active = dev.active,
         decode' = [decode EXCEPT !.stale = stale],
         decode.hollow \/ decode.residDevice => stale = decode.stale
  PROVE  Inv'
<1> DEFINE x == Hidden(Pos, run.layer + 1)
<1>0. /\ InLayer /\ Alive /\ (AtHostBlock => ~decode.residDevice)
      /\ run.layer \in Layers /\ Pos \in Nat /\ Pos = run.past + run.batch - 1 /\ run.past \in Nat /\ run.batch \in Nat
      /\ FlagsInv /\ PlaceInv /\ Settled(cfg) /\ decode \in Flags /\ kv.length \in Nat
  BY HostIsCurrent, InLayerFacts
<1>1. x \in Vectors
  <2>1. Pos \in Int /\ run.layer + 1 \in Int
    BY <1>0 DEF Layers
  <2> QED BY <2>1, Atoms
<1>2. /\ run' \in Calls /\ run'.x = x /\ run'.embed = run.embed /\ Alive' /\ PlaceInv'
      /\ ~Last => /\ run'.layer = run.layer + 1 /\ run'.past = run.past /\ run'.batch = run.batch
                  /\ run'.pc = IF run.pc = "batch" THEN "batch" ELSE "block"
      /\ Last => /\ run'.past = run.past + run.batch /\ ~InLayer'
                 /\ run'.pc \in IF run.pc = "batch" THEN {"chunk", "batchLogits"} ELSE {"token", "logits"}
  BY <1>0, <1>1, PassesOn
<1>3. /\ decode' \in Flags /\ decode'.stale = stale /\ decode'.hollow = decode.hollow
      /\ decode'.residDevice = decode.residDevice /\ decode'.residency = decode.residency
  BY <1>0 DEF Flags
<1>4. kv' \in Mirrors
  BY <1>0 DEF Advanced, Mirrors
<1>5. TypeOK'
  BY <1>2, <1>3, <1>4 DEF TypeOK
<1>6. RowsInv' /\ DeviceInv'
  BY <1>0, <1>1, <1>3, <1>5, PassesRows
<1>7. FlagsInv'
  <2>1. decode'.residency => MayReside(cfg)'
    BY <1>0, <1>3 DEF FlagsInv, MayReside, AllOffloaded
  <2>2. decode'.hollow => MayReside(cfg)' /\ ~decode'.stale /\ cfg'.arch # "deepseek2" /\ (OffDevice(cfg)' => decode'.residency)
    BY <1>0, <1>3 DEF FlagsInv, MayReside, AllOffloaded, OffDevice
  <2>3. decode'.residDevice => /\ MayReside(cfg)' /\ (cfg'.faults = {} => dev'.active)
                               /\ ~decode'.stale /\ (dev'.active => decode'.residency)
    BY <1>0, <1>3 DEF FlagsInv, MayReside, AllOffloaded
  <2>4. run'.pc # "host" /\ run'.pc # "idle"
    BY <1>2
  <2>5. run'.pc = "block" => run.pc # "batch" /\ ~decode.residDevice
    BY <1>0, <1>2
  <2>6. decode.hollow /\ OffDevice(cfg) => run.pc = "batch"
    BY <1>0 DEF AtHostBlock, FlagsInv
  <2>7. InBatch' => run.pc = "batch" /\ InBatch
    BY <1>2 DEF InBatch
  <2>8. cfg.arch \in {"gemma", "phi3", "phi2"} /\ InBatch' => ~decode'.residDevice
    BY <1>0, <1>3, <2>7 DEF FlagsInv
  <2>9. cfg.arch # "deepseek" /\ run'.pc \in {"batch", "batchLogits"} => ~decode'.residDevice
    <3>1. run'.pc \in {"batch", "batchLogits"} => InBatch'
      BY DEF InBatch
    <3> QED BY <1>0, <1>3, <2>7, <3>1 DEF FlagsInv
  <2>10. cfg.arch \in {"gemma", "phi2"} /\ run'.embed => ~decode'.residDevice /\ ~decode'.hollow
    BY <1>0, <1>2, <1>3 DEF FlagsInv
  <2>11. run'.pc = "block" /\ decode'.hollow /\ OffDevice(cfg)' => decode'.residDevice
    BY <1>3, <2>5, <2>6 DEF OffDevice
  <2> QED BY <2>1, <2>2, <2>3, <2>4, <2>8, <2>9, <2>10, <2>11 DEF FlagsInv
<1>8. CurrentInv'
  <2>1. CASE ~Last
    <3>1. Pos' = Pos /\ (run.pc # "batch" => Pos = run.past)
      <4>1. run'.past = run.past /\ run'.batch = run.batch
        BY <1>2, <2>1
      <4>2. run.pc # "batch" => run.batch = 1
        BY <1>0 DEF AtHostBlock, PlaceInv
      <4> QED BY <1>0, <4>1, <4>2 DEF Pos
    <3> QED BY <1>0, <1>2, <1>3, <2>1, <3>1 DEF CurrentInv
  <2>2. CASE Last
    <3>1. run'.past - 1 = Pos /\ run.layer + 1 = NumLayers
      BY <1>0, <1>2, <2>2 DEF Last
    <3>2. run'.pc \notin {"block", "host", "batch", "idle"} /\ (run'.pc = "logits" => AtHostBlock)
      BY <1>2, <2>2 DEF InLayer, AtHostBlock
    <3> QED BY <1>0, <1>2, <1>3, <3>1, <3>2 DEF CurrentInv
  <2> QED BY <2>1, <2>2
<1>9. Settled(cfg)' /\ (decode'.residency => MayReside(cfg)')
  BY <1>0, <1>3 DEF Settled, FlagsInv, Covered, Options, MayReside, AllOffloaded
<1> QED BY <1>2, <1>5, <1>6, <1>7, <1>8, <1>9 DEF Inv

LEMMA HostLayerKeeps ==
  ASSUME Inv, cfg' = cfg, cfg.arch # "deepseek2", AtHostBlock,
         NEW rows \in [Layers -> Seq(Int)], \A m \in Layers \ {run.layer} : rows[m] = kv.rows[m],
         NEW m, m.kv \in [Layers -> SUBSET Int], m.stale \in BOOLEAN,
         RowsAfter(rows[run.layer], m.stale, decode.hollow), DeviceAfter(m.kv, m.stale),
         decode.hollow => m.stale = decode.stale,
         NEW attended, attended = TRUE, NEW fused \in BOOLEAN, HostLayer(rows, m, attended, fused)
  PROVE  Inv'
<1>1. /\ InLayer /\ ~decode.residDevice /\ run.x = Hidden(Pos, run.layer) /\ dev \in Machines /\ decode \in Flags
      /\ run.pc \in {"block", "host"}
  BY HostIsCurrent, InLayerFacts DEF AtHostBlock
<1>2. /\ kv' = Advanced(rows) /\ decode' = [decode EXCEPT !.stale = m.stale]
      /\ dev' = [dev EXCEPT !.kv = m.kv, !.active = dev.active /\ ~(fused /\ run.layer \in OnGPU)]
      /\ run' = AfterLayer(Apply(run.x, run.layer, attended))
  BY DEF HostLayer
<1>3. Apply(run.x, run.layer, attended) = Hidden(Pos, run.layer + 1)
  BY <1>1 DEF Apply
<1>4. Passes(Hidden(Pos, run.layer + 1))
  BY <1>1, <1>2, <1>3 DEF Passes
<1>5. dev' \in Machines /\ dev'.kv = m.kv
  BY <1>1, <1>2 DEF Machines
<1> QED BY <1>1, <1>2, <1>4, <1>5, LayerKeeps DEF AtHostBlock

LEMMA BatchLayerKeeps ==
  ASSUME Inv, cfg' = cfg, cfg.arch # "deepseek2",
         NEW rows \in [Layers -> Seq(Int)], \A m \in Layers \ {run.layer} : rows[m] = kv.rows[m],
         NEW m, m.kv \in [Layers -> SUBSET Int], m.stale \in BOOLEAN,
         RowsAfter(rows[run.layer], m.stale, decode.hollow), DeviceAfter(m.kv, m.stale),
         decode.hollow \/ decode.residDevice => m.stale = decode.stale,
         NEW attended, attended = TRUE, BatchLayer(rows, m, attended)
  PROVE  Inv'
<1>1. run.pc = "batch"
  BY DEF BatchLayer
<1>2. InLayer /\ run.x = Hidden(Pos, run.layer) /\ dev \in Machines /\ decode \in Flags
  BY <1>1, HostIsCurrent, InLayerFacts
<1>3. /\ kv' = Advanced(rows) /\ decode' = [decode EXCEPT !.stale = m.stale]
      /\ dev' = [dev EXCEPT !.kv = m.kv]
      /\ run' = AfterBatchLayer(Apply(run.x, run.layer, attended))
  BY DEF BatchLayer
<1>4. Apply(run.x, run.layer, attended) = Hidden(Pos, run.layer + 1)
  BY <1>2 DEF Apply
<1>5. Passes(Hidden(Pos, run.layer + 1))
  BY <1>1, <1>3, <1>4 DEF Passes
<1>6. dev' \in Machines /\ dev'.kv = m.kv /\ dev'.active = dev.active
  BY <1>2, <1>3 DEF Machines
<1> QED BY <1>1, <1>2, <1>3, <1>5, <1>6, LayerKeeps

\* A layer over the hidden state on the device.
LEMMA DeviceLayerKeeps ==
  ASSUME Inv, cfg' = cfg, cfg.arch # "deepseek2", FirstOf(run.layer, run.past) = 0, DeviceLayer
  PROVE  Inv'
<1> DEFINE l == run.layer
           h == dev.resid
           dkv == Written(l, h)
           rows == Bumped(kv.rows, l)
           r == Apply(h, l, DeviceReads(dkv, l))
<1>1. /\ run.pc = "block" /\ decode.residDevice /\ dev.active /\ HasSlots /\ InLayer /\ Alive
      /\ kv' = Advanced(rows) /\ dev' = [dev EXCEPT !.kv = dkv, !.resid = r]
      /\ decode' = [decode EXCEPT !.hollow = TRUE] /\ run' = AfterLayer(run.x)
  BY DEF DeviceLayer, AtDeviceBlock, InLayer, Alive
<1>2. /\ l \in Layers /\ run.past \in Nat /\ run.batch = 1 /\ Pos = run.past /\ run.x \in Vectors /\ FlagsInv /\ CurrentInv /\ PlaceInv
      /\ Settled(cfg) /\ Covered(cfg) /\ decode \in Flags /\ dev \in Machines /\ kv \in Mirrors
  <2>1. /\ l \in Layers /\ run.past \in Nat /\ run.x \in Vectors /\ FlagsInv /\ CurrentInv /\ PlaceInv /\ Pos = run.past + run.batch - 1
        /\ Settled(cfg) /\ decode \in Flags /\ dev \in Machines /\ kv \in Mirrors
    BY <1>1, InLayerFacts
  <2>2. run.batch = 1
    BY <1>1, <2>1 DEF PlaceInv
  <2> QED BY <2>1, <2>2 DEF Settled
<1>3. /\ MayReside(cfg) /\ ~decode.stale /\ decode.residency /\ h = Hidden(Pos, l)
      /\ (cfg.arch \in {"gemma", "phi2"} => ~run.embed)
  BY <1>1, <1>2 DEF FlagsInv, CurrentInv
<1>4. l \in OnGPU /\ kv.length = run.past
  BY <1>1, <1>2, <1>3, ResidentFacts
<1>5. DeviceAfter(dkv, decode.stale) /\ dkv \in [Layers -> SUBSET Int]
  BY <1>1, <1>3, <1>4, WrittenAfter
<1>6. DeviceReads(dkv, l)
  <2>1. \A p \in run.past..Pos : FirstOf(l, p) = 0
    BY <1>2
  <2>2. Counts(decode.stale)
    BY <1>3 DEF Counts
  <2> QED BY <1>1, <1>4, <1>5, <2>1, <2>2, DeviceIsRight
<1>7. r = Hidden(Pos, l + 1)
  BY <1>3, <1>6 DEF Apply
<1>8. rows \in [Layers -> Seq(Int)] /\ (\A m \in Layers \ {l} : rows[m] = kv.rows[m]) /\ RowsAfter(rows[l], decode.stale, TRUE)
  BY <1>1, <1>2, RowsBumped
<1>9. Passes(run.x)
  BY <1>1 DEF Passes
<1>10. /\ run' \in Calls /\ run'.x = run.x /\ run'.embed = run.embed /\ Alive' /\ PlaceInv'
       /\ ~Last => run'.layer = l + 1 /\ run'.past = run.past /\ run'.batch = run.batch /\ run'.pc = "block"
       /\ Last => run'.past = run.past + 1 /\ ~InLayer' /\ run'.pc \in {"token", "logits"}
  BY <1>1, <1>2, <1>9, PassesOn
<1>11. /\ decode' \in Flags /\ decode'.stale = decode.stale /\ decode'.hollow
       /\ decode'.residDevice = decode.residDevice /\ decode'.residency = decode.residency
  BY <1>1, <1>2 DEF Flags
<1>12. r \in Vectors
  <2>1. Pos \in Int /\ l + 1 \in Int
    BY <1>2 DEF Layers
  <2> QED BY <1>7, <2>1, Atoms
<1> HIDE DEF r, rows, dkv
<1>13. dev' \in Machines /\ dev'.kv = dkv /\ dev'.resid = r /\ dev'.active
  BY <1>1, <1>2, <1>5, <1>12 DEF Machines
<1>14. kv' \in Mirrors
  BY <1>1, <1>2, <1>8 DEF Advanced, Mirrors
<1>15. TypeOK'
  BY <1>10, <1>11, <1>13, <1>14 DEF TypeOK
<1>16. RowsInv' /\ DeviceInv'
  BY <1>1, <1>2, <1>5, <1>8, <1>9, <1>11, <1>13, <1>15, PassesRows
<1>17. FlagsInv'
  <2>1. MayReside(cfg)' /\ ~InBatch' /\ run'.pc \notin {"host", "idle", "batch", "batchLogits"}
    BY <1>3, <1>10 DEF MayReside, AllOffloaded, InBatch
  <2> QED BY <1>1, <1>3, <1>10, <1>11, <1>13, <2>1 DEF FlagsInv, OffDevice
<1>18. CurrentInv'
  <2>1. CASE ~Last
    BY <1>1, <1>2, <1>7, <1>10, <1>11, <1>13, <2>1 DEF CurrentInv
  <2>2. CASE Last
    <3>1. run'.past - 1 = Pos /\ l + 1 = NumLayers
      BY <1>2, <1>10, <2>2 DEF Last
    <3> QED BY <1>1, <1>7, <1>10, <1>11, <1>13, <2>2, <3>1 DEF CurrentInv, InLayer
  <2> QED BY <2>1, <2>2
<1>19. Settled(cfg)' /\ (decode'.residency => MayReside(cfg)')
  BY <1>2, <1>3 DEF Settled, Covered, Options, MayReside, AllOffloaded
<1> QED BY <1>10, <1>15, <1>16, <1>17, <1>18, <1>19 DEF Inv

\* Something has gone wrong on the device of a resident model.
LEMMA ResidentFails ==
  ASSUME Inv, Alive, decode.residDevice, ~dev.active \/ Fault("download")
  PROVE  cfg.faults # {}
BY DEF Inv, FlagsInv, Fault

\* A layer gives up the context.
LEMMA LostKeeps ==
  ASSUME Inv, cfg' = cfg, cfg.faults # {}, NEW d, Cleared(d), ResetsAndFails(d)
  PROVE  Inv'
<1>1. run' = [run EXCEPT !.pc = "failed"] /\ kv' = NewKV /\ dev' = NewDevice /\ decode' = d /\ TypeOK
  BY DEF ResetsAndFails, Fails, Inv
<1>2. run' \in Calls /\ run'.pc = "failed"
  BY <1>1, Atoms DEF TypeOK, Calls
<1>3. TypeOK' /\ (decode'.residency => MayReside(cfg))
  BY <1>1, <1>2, NewTypes DEF TypeOK, Cleared, Inv
<1> QED BY <1>2, <1>3, FailureKeeps

LEMMA HollowLostKeeps ==
  ASSUME Inv, cfg' = cfg, cfg.arch # "deepseek2", NEW d, Cleared(d), HollowLayerLost(d)
  PROVE  Inv'
<1>1. AtDeviceBlock /\ ResetsAndFails(d) /\ Alive /\ InLayer
  BY DEF HollowLayerLost, AtDeviceBlock, Alive, InLayer
<1>2. decode.residDevice /\ MayReside(cfg)
  BY <1>1 DEF AtDeviceBlock, Inv, FlagsInv
<1>3. HasSlots
  BY <1>1, <1>2, ResidentFacts
<1>4. QKVMayFail => cfg.faults # {}
  BY <1>1, <1>2, <1>3, ResidentFails DEF QKVMayFail, Fault
<1>5. cfg.faults # {}
  BY <1>4 DEF HollowLayerLost, Fault
<1> QED BY <1>1, <1>5, LostKeeps

\* A matrix product fails.
LEMMA HostFailsKeeps ==
  ASSUME Inv, cfg' = cfg, HostFails
  PROVE  Inv'
<1>1. /\ AtHostBlock \/ run.pc = "batch"
      /\ cfg.faults # {} /\ run' = [run EXCEPT !.pc = "failed"] /\ dev' = dev /\ decode' = decode /\ TypeOK
      /\ kv' = kv \/ kv' = [kv EXCEPT !.rows = Appended(kv.rows, run.layer, run.x)]
      /\ (decode.residency => MayReside(cfg))
  BY DEF HostFails, Fails, Fault, Inv
<1>2. run' \in Calls /\ run'.pc = "failed"
  BY <1>1, Atoms DEF TypeOK, Calls
<1>3. kv' \in Mirrors
  <2>1. Appended(kv.rows, run.layer, run.x) \in [Layers -> Seq(Int)] /\ kv \in Mirrors
    <3>1. run.batch \in Nat /\ run.past \in Nat /\ run.layer \in Layers /\ kv.rows \in [Layers -> Seq(Int)] /\ kv \in Mirrors
      BY <1>1, HostIsCurrent, InLayerFacts
    <3> QED BY <3>1, AppendedIs
  <2> HIDE DEF Appended
  <2> QED BY <1>1, <2>1 DEF Mirrors
<1>4. TypeOK'
  BY <1>1, <1>2, <1>3 DEF TypeOK
<1> QED BY <1>1, <1>2, <1>4, FailureKeeps

\* A token's layers begin.
LEMMA TokenFacts ==
  ASSUME Inv, cfg' = cfg, AtToken, StartsLayers
  PROVE  /\ run' \in Calls /\ run'.pc = "block" /\ run'.layer = 0 /\ run'.batch = 1 /\ run'.x = Hidden(run.past, 0)
         /\ run'.past = run.past /\ run'.embed = run.embed /\ run.past \in Nat /\ run.past < cfg.ctx
         /\ PlaceInv' /\ InLayer' /\ ~InBatch' /\ ~InLayer /\ Alive /\ Alive' /\ (\A l \in Layers : Done(l) = run.past /\ Done(l)' = run.past)
         /\ PlaceInv /\ RowsInv /\ DeviceInv /\ FlagsInv /\ CurrentInv /\ Settled(cfg) /\ Covered(cfg)
         /\ kv \in Mirrors /\ dev \in Machines /\ decode \in Flags
<1>1. /\ run.pc = "token" /\ run' = [run EXCEPT !.pc = "block", !.layer = 0, !.batch = 1, !.x = Hidden(run.past, 0)]
      /\ run \in Calls /\ kv \in Mirrors /\ dev \in Machines /\ decode \in Flags
      /\ PlaceInv /\ RowsInv /\ DeviceInv /\ FlagsInv /\ CurrentInv /\ Settled(cfg) /\ Covered(cfg)
      /\ Alive
  BY DEF AtToken, StartsLayers, Inv, Alive, TypeOK, Settled
<1>2. /\ run.past \in Nat /\ run.todo \in Nat /\ run.todo >= 1 /\ run.past + run.todo <= cfg.ctx /\ cfg.ctx \in Nat
      /\ NumLayers \in Nat /\ NumLayers >= 1
  BY <1>1, Numbers DEF Calls, PlaceInv
<1>3. Hidden(run.past, 0) \in Vectors /\ "block" \in Places /\ 0 \in Nat /\ 1 \in Nat
  BY <1>2, Atoms
<1>4. /\ run' \in Calls /\ run'.pc = "block" /\ run'.layer = 0 /\ run'.batch = 1 /\ run'.x = Hidden(run.past, 0)
      /\ run'.past = run.past /\ run'.embed = run.embed /\ run'.todo = run.todo
  BY <1>1, <1>3 DEF Calls
<1>5. InLayer' /\ ~InBatch' /\ ~InLayer /\ Alive'
  BY <1>1, <1>4 DEF InLayer, InBatch, Alive
<1>6. PlaceInv'
  BY <1>1, <1>2, <1>4, <1>5 DEF PlaceInv
<1>7. ASSUME NEW l \in Layers PROVE Done(l) = run.past /\ Done(l)' = run.past
  <2>1. ~(l < 0)
    BY <1>2 DEF Layers
  <2>2. Passed(l) = 0 /\ Passed(l)' = 0
    BY <1>4, <1>5, <2>1 DEF Passed
  <2> QED BY <1>2, <1>4, <2>2 DEF Done
<1> QED BY <1>1, <1>2, <1>4, <1>5, <1>6, <1>7

\* All rows are as they were.
LEMMA TokenRows ==
  ASSUME Inv, cfg' = cfg, AtToken, StartsLayers, kv' = kv,
         decode'.stale = decode.stale, decode'.hollow = decode.hollow
  PROVE  RowsInv'
<1>1. RowsInv /\ run'.past = run.past /\ OnGPU' = OnGPU /\ ~InLayer /\ InLayer' /\ run'.layer = 0 /\ kv \in Mirrors /\ cfg.window \in Nat
  BY TokenFacts, Numbers DEF OnGPU
<1>2. ASSUME NEW l \in Layers PROVE RowsOf(l)'
  <2>1. Done(l)' = Done(l) /\ Passed(l)' = Passed(l) /\ RowsOf(l) /\ Slack(l) = 0 /\ Slack(l)' \in {0, 1} /\ Len(kv.rows[l]) \in Nat
    <3>1. ~(l < 0)
      BY SizesAssumption DEF Layers
    <3> QED BY <1>1, <3>1, TokenFacts DEF Passed, RowsInv, Slack, AtToken, Mirrors
  <2>2. Len(kv.rows[l]) >= cfg.window - Slack(l) => Len(kv.rows[l]) >= cfg.window - Slack(l)'
    BY <1>1, <2>1
  <2>3. \/ Len(kv.rows[l]) = Done(l)'
        \/ l \in cfg.sliding /\ Len(kv.rows[l]) >= cfg.window - Slack(l)' /\ (decode.stale \/ OnGPU = {})
    BY <2>1, <2>2 DEF RowsOf
  <2>4. /\ Len(kv.rows[l]) <= Done(l)'
        /\ \A i \in 1..Len(kv.rows[l]) : kv.rows[l][i] = Done(l)' - Len(kv.rows[l]) + i - 1
                                        \/ (decode.hollow /\ kv.rows[l][i] = Hollow)
        /\ cfg.arch # "gemma" => Len(kv.rows[l]) = kv.length + Passed(l)'
    BY <2>1 DEF RowsOf
  <2> QED BY <1>1, <2>3, <2>4 DEF RowsOf
<1> QED BY <1>1, <1>2 DEF RowsInv

LEMMA TokenDevice ==
  ASSUME Inv, cfg' = cfg, AtToken, StartsLayers, dev'.kv = dev.kv,
         decode.stale => decode'.stale, Deaf => decode'.stale = decode.stale
  PROVE  DeviceInv'
<1>1. /\ DeviceInv /\ run'.past = run.past /\ OnGPU' = OnGPU /\ ~InLayer /\ InLayer' /\ run'.batch = 1
      /\ run.past \in Nat /\ cfg.maxSeq \in Nat /\ OnGPU \subseteq Layers
      /\ \A l \in Layers : Done(l) = run.past /\ Done(l)' = run.past
  BY TokenFacts, Numbers DEF OnGPU
<1>2. \A l \in OnGPU : Counts(decode'.stale) /\ Done(l)' <= cfg.maxSeq => 0..Done(l)' - 1 \subseteq dev'.kv[l]
  BY <1>1 DEF DeviceInv, Counts
<1>3. ASSUME Deaf, decode'.stale PROVE run'.past + 1 > cfg.maxSeq
  <2>1. decode.stale
    BY <1>3
  <2>2. run.past > cfg.maxSeq
    BY <1>1, <1>3, <2>1 DEF DeviceInv
  <2> QED BY <1>1, <2>2
<1>4. Counts(decode.stale)' <=> Counts(decode'.stale)
  BY DEF Counts, Deaf
<1> QED BY <1>1, <1>2, <1>3, <1>4 DEF DeviceInv, Deaf

\* The embedding is uploaded.
LEMMA UploadKeeps ==
  ASSUME Inv, cfg' = cfg, cfg.arch # "deepseek2", AtToken, StartsLayers, kv' = kv,
         decode.residency, ~decode.stale, cfg.arch \in {"gemma", "phi2"} => ~run.embed, HiddenUpload
  PROVE  Inv'
<1> DEFINE h == Hidden(run.past, 0)
<1>0. h \in Vectors /\ NoHidden \in Vectors
  BY TokenFacts, Atoms
<1>1. /\ run' \in Calls /\ run'.pc = "block" /\ run'.layer = 0 /\ run'.x = h /\ run'.past = run.past /\ run'.embed = run.embed
      /\ PlaceInv' /\ ~InBatch' /\ Alive' /\ FlagsInv /\ Settled(cfg) /\ Covered(cfg)
      /\ kv \in Mirrors /\ dev \in Machines /\ decode \in Flags
  BY TokenFacts
<1>2. /\ decode' \in Flags /\ decode'.stale = decode.stale /\ decode'.hollow = decode.hollow
      /\ dev' \in Machines /\ dev'.kv = dev.kv
      /\ \/ decode'.residDevice /\ decode'.residency /\ dev'.active /\ dev'.resid = h
         \/ decode'.residDevice = decode.residDevice /\ ~decode'.residency /\ ~dev'.active /\ Fault("upload")
  BY <1>0, <1>1 DEF HiddenUpload, Flags, Machines
<1>3. MayReside(cfg) /\ MayReside(cfg)' /\ Settled(cfg)'
  BY <1>1 DEF FlagsInv, MayReside, AllOffloaded, Settled, Covered, Options
<1>4. TypeOK' /\ RowsInv' /\ DeviceInv'
  BY <1>1, <1>2, TokenRows, TokenDevice DEF TypeOK
<1>5. FlagsInv'
  <2>1. Fault("upload") => cfg.faults # {} /\ ~OffDevice(cfg)
    BY <1>1, <1>3 DEF Fault, Covered, Options
  <2>2. decode.hollow /\ OffDevice(cfg) => ~Fault("upload")
    BY <2>1
  <2> QED BY <1>1, <1>2, <1>3, <2>1 DEF FlagsInv, OffDevice
<1>6. CurrentInv'
  BY <1>1, <1>2 DEF CurrentInv
<1> QED BY <1>1, <1>2, <1>3, <1>4, <1>5, <1>6 DEF Inv

\* It stays on the host.
LEMMA NoUploadKeeps ==
  ASSUME Inv, cfg' = cfg, AtToken, StartsLayers, kv' \in Mirrors, RowsInv',
         dev' = dev, NEW stale \in BOOLEAN, decode' = [decode EXCEPT !.stale = stale],
         decode.stale => stale, Deaf \/ MayReside(cfg) => stale = decode.stale,
         cfg.arch # "deepseek2" /\ decode.residency /\ ~decode.stale => cfg.arch \in {"gemma", "phi2"} /\ run.embed
  PROVE  Inv'
<1>1. /\ run' \in Calls /\ run'.pc = "block" /\ run'.layer = 0 /\ run'.x = Hidden(run.past, 0) /\ run'.past = run.past
      /\ run'.embed = run.embed /\ run.past \in Nat /\ run.past < cfg.ctx /\ cfg.ctx \in Nat
      /\ PlaceInv' /\ ~InBatch' /\ Alive' /\ FlagsInv /\ Settled(cfg) /\ Covered(cfg)
      /\ kv \in Mirrors /\ dev \in Machines /\ decode \in Flags
  BY TokenFacts, Numbers
<1>2. /\ decode' \in Flags /\ decode'.stale = stale /\ decode'.hollow = decode.hollow
      /\ decode'.residDevice = decode.residDevice /\ decode'.residency = decode.residency
  BY <1>1 DEF Flags
<1>3. Settled(cfg)' /\ (MayReside(cfg)' <=> MayReside(cfg)) /\ (OffDevice(cfg)' <=> OffDevice(cfg))
  BY <1>1 DEF MayReside, AllOffloaded, Settled, Covered, Options, OffDevice
<1>4. TypeOK' /\ DeviceInv'
  BY <1>1, <1>2, TokenDevice DEF TypeOK
<1>5. cfg.arch = "deepseek2" => ~decode.residDevice
  <2>1. cfg.arch = "deepseek2" /\ decode.residDevice => MayReside(cfg) /\ run.past >= 1
    BY <1>1 DEF FlagsInv, AtToken
  <2> QED BY <1>1, <2>1 DEF Covered, Options
<1>6. cfg.arch # "deepseek2" /\ decode.residDevice => ~dev.active
  BY <1>1 DEF FlagsInv
<1>7. cfg.arch # "deepseek2" /\ decode.hollow /\ OffDevice(cfg) => decode.residDevice
  BY <1>1 DEF FlagsInv
<1>8. FlagsInv'
  BY <1>1, <1>2, <1>3, <1>5, <1>6, <1>7 DEF FlagsInv
<1>9. CurrentInv'
  BY <1>1, <1>2, <1>5, <1>6 DEF CurrentInv
<1>10. decode'.residency => MayReside(cfg)'
  BY <1>1, <1>2, <1>3 DEF FlagsInv
<1> QED BY <1>1, <1>3, <1>4, <1>8, <1>9, <1>10 DEF Inv

\* Rows that stay where they are.
LEMMA SameRows ==
  ASSUME Inv, cfg' = cfg, Alive, kv' = kv, run'.past = run.past, \A l \in Layers : Passed(l)' = Passed(l) /\ Slack(l)' = Slack(l),
         decode.stale => decode'.stale, decode'.hollow = decode.hollow
  PROVE  RowsInv'
<1>1. RowsInv /\ OnGPU' = OnGPU
  BY DEF OnGPU, Inv
<1>2. ASSUME NEW l \in Layers PROVE RowsOf(l)'
  <2>1. RowsOf(l) /\ Done(l)' = Done(l) /\ Passed(l)' = Passed(l) /\ Slack(l)' = Slack(l)
    BY <1>1 DEF Done, RowsInv
  <2> QED BY <1>1, <2>1 DEF RowsOf
<1> QED BY <1>1, <1>2 DEF RowsInv

LEMMA SameDevice ==
  ASSUME Inv, cfg' = cfg, Alive, dev'.kv = dev.kv, run'.past = run.past, \A l \in Layers : Passed(l)' = Passed(l),
         decode.stale => decode'.stale, Deaf => decode'.stale = decode.stale,
         (IF InLayer THEN run.batch ELSE 0) <= (IF InLayer' THEN run'.batch ELSE 0),
         TypeOK'
  PROVE  DeviceInv'
<1>1. DeviceInv /\ OnGPU' = OnGPU /\ OnGPU \subseteq Layers /\ run.past \in Nat /\ cfg.maxSeq \in Nat
      /\ run.batch \in Nat /\ run'.batch \in Nat
  BY Numbers DEF OnGPU, Inv, TypeOK, Calls
<1>2. ASSUME NEW l \in OnGPU, Counts(decode'.stale), Done(l)' <= cfg.maxSeq
      PROVE  0..Done(l)' - 1 \subseteq dev'.kv[l]
  <2>1. Done(l)' = Done(l)
    BY <1>1 DEF Done
  <2> QED BY <1>1, <1>2, <2>1 DEF DeviceInv, Counts
<1>3. ASSUME Deaf, decode'.stale PROVE run'.past + (IF InLayer' THEN run'.batch ELSE 0) > cfg.maxSeq
  <2>1. decode.stale
    BY <1>3
  <2>2. run.past + (IF InLayer THEN run.batch ELSE 0) > cfg.maxSeq
    BY <1>1, <1>3, <2>1 DEF DeviceInv
  <2> QED BY <1>1, <2>2
<1>4. Counts(decode.stale)' <=> Counts(decode'.stale)
  BY DEF Counts, Deaf
<1> QED BY <1>1, <1>2, <1>3, <1>4 DEF DeviceInv, Deaf

\* x is brought back from the device in the middle of a token.
LEMMA BroughtBack ==
  ASSUME Inv, cfg' = cfg, cfg.arch # "deepseek2", AtDeviceBlock, ~decode.hollow, dev.active,
         kv' \in Mirrors, RowsInv', dev' \in Machines, DeviceInv', decode' \in Flags,
         ~decode'.residDevice, ~decode'.residency, ~decode'.hollow,
         run' = [run EXCEPT !.pc = "host", !.x = dev.resid]
  PROVE  Inv'
<1>1. run.pc = "block" /\ decode.residDevice /\ InLayer /\ Alive
  BY DEF AtDeviceBlock, InLayer, Alive
<1>2. /\ PlaceInv /\ FlagsInv /\ CurrentInv /\ Settled(cfg) /\ run \in Calls /\ run.past \in Nat
      /\ dev.resid \in Vectors /\ run.batch = 1
  BY <1>1, InLayerFacts DEF Machines, PlaceInv
<1>3. /\ run' \in Calls /\ run'.pc = "host" /\ run'.x = dev.resid /\ run'.past = run.past /\ run'.layer = run.layer
      /\ run'.batch = run.batch /\ run'.todo = run.todo /\ run'.embed = run.embed
  BY <1>2, Atoms DEF Calls
<1>4. TypeOK' /\ Settled(cfg)'
  BY <1>2, <1>3 DEF TypeOK, Settled, Covered, Options
<1>5. PlaceInv' /\ Alive' /\ ~InBatch'
  BY <1>1, <1>2, <1>3 DEF PlaceInv, InLayer, InBatch, Alive
<1>6. FlagsInv'
  BY <1>3, <1>5 DEF FlagsInv
<1>7. CurrentInv'
  <2>1. Pos' = run.past
    BY <1>2, <1>3 DEF Pos
  <2> QED BY <1>1, <1>2, <1>3, <2>1 DEF CurrentInv
<1> QED BY <1>3, <1>4, <1>5, <1>6, <1>7 DEF Inv

LEMMA RecoversKeeps ==
  ASSUME Inv, cfg' = cfg, cfg.arch # "deepseek2", AtDeviceBlock, ~decode.hollow,
         NEW stale \in BOOLEAN, ~Deaf \/ stale = decode.stale,
         NEW rows \in [Layers -> Seq(Int)], kv' = [kv EXCEPT !.rows = rows], run'.pc = "host" => RowsInv',
         Recovers([decode EXCEPT !.stale = stale])
  PROVE  Inv'
<1>1. run.pc = "block" /\ decode.residDevice /\ InLayer /\ Alive
  BY DEF AtDeviceBlock, InLayer, Alive
<1>2. FlagsInv /\ run \in Calls /\ dev \in Machines /\ decode \in Flags /\ kv \in Mirrors /\ dev.resid \in Vectors
  BY <1>1, InLayerFacts DEF Machines
<1>3. /\ dev' = [dev EXCEPT !.active = FALSE]
      /\ decode' = [[decode EXCEPT !.stale = stale] EXCEPT !.residDevice = FALSE, !.residency = FALSE]
  BY DEF Recovers
<1>4. /\ decode' \in Flags /\ decode'.stale = stale /\ ~decode'.residDevice /\ ~decode'.residency /\ decode'.hollow = decode.hollow
      /\ dev' \in Machines /\ dev'.kv = dev.kv /\ kv' \in Mirrors
  BY <1>2, <1>3 DEF Flags, Machines, Mirrors
<1>5. ~decode.stale
  BY <1>1, <1>2 DEF FlagsInv
<1>6. CASE dev.active /\ run' = [run EXCEPT !.pc = "host", !.x = dev.resid]
  <2>1. /\ run' \in Calls /\ run'.pc = "host" /\ run'.past = run.past /\ run'.layer = run.layer /\ run'.batch = run.batch
    BY <1>2, <1>6, Atoms DEF Calls
  <2>2. InLayer' /\ \A l \in Layers : Passed(l)' = Passed(l)
    BY <1>1, <2>1 DEF InLayer, Passed
  <2>3. TypeOK'
    BY <1>4, <2>1 DEF TypeOK
  <2>4. (IF InLayer THEN run.batch ELSE 0) <= (IF InLayer' THEN run'.batch ELSE 0)
    <3>1. run.batch \in Nat
      BY <1>2 DEF Calls
    <3> QED BY <1>1, <2>1, <2>2, <3>1
  <2>5. DeviceInv'
    BY <1>1, <1>4, <1>5, <2>1, <2>2, <2>3, <2>4, SameDevice
  <2> QED BY <1>4, <1>6, <2>1, <2>5, BroughtBack
<1>7. CASE (~dev.active \/ Fault("download")) /\ Fails
  <2>1. cfg.faults # {}
    BY <1>1, <1>7, ResidentFails
  <2>2. run' \in Calls /\ run'.pc = "failed"
    BY <1>2, <1>7, Atoms DEF Fails, Calls
  <2>3. TypeOK'
    BY <1>4, <2>2 DEF TypeOK
  <2> QED BY <1>4, <2>1, <2>2, <2>3, FailureKeeps
<1> QED BY <1>6, <1>7 DEF Recovers

\* before anything else has changed.
LEMMA PlainRecoversKeeps ==
  ASSUME Inv, cfg' = cfg, cfg.arch # "deepseek2", AtDeviceBlock, ~decode.hollow, kv' = kv, Recovers(decode)
  PROVE  Inv'
<1>1. run.pc = "block" /\ InLayer /\ Alive
  BY DEF AtDeviceBlock, InLayer, Alive
<1>2. decode \in Flags /\ kv \in Mirrors /\ run \in Calls /\ dev \in Machines
  BY <1>1, InLayerFacts
<1>3. decode = [decode EXCEPT !.stale = decode.stale] /\ decode.stale \in BOOLEAN
      /\ kv' = [kv EXCEPT !.rows = kv.rows] /\ kv.rows \in [Layers -> Seq(Int)]
  BY <1>2 DEF Flags, Mirrors
<1>4. Recovers([decode EXCEPT !.stale = decode.stale])
  BY <1>3
<1>5. ASSUME run'.pc = "host" PROVE RowsInv'
  <2>1. run' = [run EXCEPT !.pc = "host", !.x = dev.resid]
    <3>1. Fails => run'.pc = "failed"
      BY <1>2 DEF Fails, Calls
    <3> QED BY <1>5, <3>1 DEF Recovers
  <2>2. run'.past = run.past /\ run'.layer = run.layer /\ run'.batch = run.batch
    BY <1>2, <2>1 DEF Calls
  <2>3. \A l \in Layers : Passed(l)' = Passed(l) /\ Slack(l)' = Slack(l)
    BY <1>1, <1>5, <2>2 DEF Passed, Slack, InLayer
  <2>4. decode'.stale = decode.stale /\ decode'.hollow = decode.hollow
    BY <1>2 DEF Recovers, Flags
  <2> QED BY <1>1, <2>2, <2>3, <2>4, SameRows
<1> QED BY <1>3, <1>4, <1>5, RecoversKeeps

\* A chunk of a prefill begins, or its download fails.
LEMMA ChunkKeeps ==
  ASSUME Inv, cfg' = cfg, cfg.arch # "deepseek2", NEW synced \in BOOLEAN,
         synced \/ cfg.arch \in {"gemma", "phi3", "phi2", "deepseek"}, StartsChunk(kv, decode, synced)
  PROVE  Inv'
<1> DEFINE n == ChunkSize
           h == Hidden(run.past + n - 1, 0)
<1>1. /\ run.pc = "chunk" /\ kv' = kv /\ ~InLayer /\ Alive /\ InBatch
      /\ decode' = [decode EXCEPT !.residDevice = decode.residDevice /\ ~synced]
      /\ dev' = [dev EXCEPT !.active = dev.active /\ ~(synced /\ decode.residDevice)]
      /\ run' = [run EXCEPT !.pc = "batch", !.layer = 0, !.batch = n, !.x = h]
  BY DEF StartsChunk, InLayer, Alive, InBatch
<1>2. /\ PlaceInv /\ RowsInv /\ DeviceInv /\ FlagsInv /\ Settled(cfg) /\ run \in Calls /\ dev \in Machines /\ decode \in Flags /\ kv \in Mirrors
      /\ run.past \in Nat /\ run.todo \in Nat /\ cfg.nBatch \in Nat /\ cfg.ctx \in Nat
      /\ NumLayers \in Nat /\ NumLayers >= 1
  BY <1>1, Numbers DEF Inv, TypeOK, Calls
<1>3. run.todo >= 1 /\ run.past + run.todo <= cfg.ctx /\ cfg.nBatch > 1 /\ ~run.embed
  BY <1>1, <1>2 DEF PlaceInv
<1>4. n \in Nat /\ n >= 1 /\ n <= run.todo /\ n <= cfg.nBatch
  BY <1>2, <1>3 DEF ChunkSize
<1> HIDE DEF n
<1>5. h \in Vectors
  <2>1. run.past + n - 1 \in Int
    BY <1>2, <1>4
  <2> QED BY <2>1, Atoms
<1> HIDE DEF h
<1>6. /\ run' \in Calls /\ run'.pc = "batch" /\ run'.layer = 0 /\ run'.batch = n /\ run'.x = h
      /\ run'.past = run.past /\ run'.todo = run.todo /\ run'.embed = run.embed
  BY <1>1, <1>2, <1>4, <1>5, Atoms DEF Calls
<1>7. /\ decode' \in Flags /\ decode'.residDevice = (decode.residDevice /\ ~synced) /\ decode'.residency = decode.residency
      /\ decode'.stale = decode.stale /\ decode'.hollow = decode.hollow
      /\ dev' \in Machines /\ dev'.kv = dev.kv /\ (decode'.residDevice => dev'.active = dev.active)
  BY <1>1, <1>2 DEF Flags, Machines
<1>8. TypeOK' /\ Settled(cfg)' /\ (MayReside(cfg)' <=> MayReside(cfg)) /\ (OffDevice(cfg)' <=> OffDevice(cfg))
  BY <1>1, <1>2, <1>6, <1>7 DEF TypeOK, Settled, Covered, Options, MayReside, AllOffloaded, OffDevice
<1>9. InLayer' /\ InBatch' /\ Alive'
  BY <1>6 DEF InLayer, InBatch, Alive
<1>10. PlaceInv'
  BY <1>1, <1>2, <1>3, <1>4, <1>6, <1>9 DEF PlaceInv
<1>11. \A l \in Layers : Passed(l)' = Passed(l) /\ Slack(l)' = Slack(l)
  <2>1. \A l \in Layers : ~(l < 0)
    BY <1>2 DEF Layers
  <2> QED BY <1>1, <1>6, <2>1 DEF Passed, Slack
<1>12. RowsInv'
  BY <1>1, <1>6, <1>7, <1>11, SameRows
<1>13. DeviceInv'
  <2>1. (IF InLayer THEN run.batch ELSE 0) <= (IF InLayer' THEN run'.batch ELSE 0)
    BY <1>1, <1>4, <1>6, <1>9
  <2> QED BY <1>1, <1>6, <1>7, <1>8, <1>11, <2>1, SameDevice
<1>14. FlagsInv'
  BY <1>1, <1>2, <1>3, <1>6, <1>7, <1>8 DEF FlagsInv
<1>15. CurrentInv'
  <2>1. Pos' = run.past + n - 1
    BY <1>6 DEF Pos
  <2> QED BY <1>6, <2>1 DEF CurrentInv, h
<1> QED BY <1>2, <1>6, <1>7, <1>8, <1>9, <1>10, <1>12, <1>13, <1>14, <1>15 DEF Inv, FlagsInv

LEMMA ChunkFailsKeeps ==
  ASSUME Inv, cfg' = cfg, ChunkFails
  PROVE  Inv'
<1>1. /\ Alive /\ decode.residDevice /\ (~dev.active \/ Fault("download")) /\ kv' = kv
      /\ decode' = [decode EXCEPT !.residDevice = FALSE] /\ dev' = [dev EXCEPT !.active = FALSE]
      /\ run' = [run EXCEPT !.pc = "failed"] /\ TypeOK /\ (decode.residency => MayReside(cfg))
  BY DEF ChunkFails, Fails, Alive, Inv
<1>2. cfg.faults # {}
  BY <1>1, ResidentFails
<1>3. /\ decode' \in Flags /\ decode'.residency = decode.residency /\ dev' \in Machines
      /\ run' \in Calls /\ run'.pc = "failed"
  BY <1>1, Atoms DEF TypeOK, Flags, Machines, Calls
<1>4. TypeOK'
  BY <1>1, <1>3 DEF TypeOK
<1> QED BY <1>1, <1>2, <1>3, <1>4, FailureKeeps

\* A call returns what was computed from its last token.
LEMMA ReturnKeeps ==
  ASSUME Inv, cfg' = cfg, run.pc \in {"logits", "batchLogits"}, kv' = kv,
         dev' \in Machines, dev'.kv = dev.kv, decode' \in Flags,
         decode'.stale = decode.stale, decode'.hollow = decode.hollow, decode'.residency = decode.residency,
         decode'.residDevice => decode.residDevice /\ dev'.active = dev.active /\ cfg.arch \notin {"gemma", "phi3", "phi2"},
         NEW x \in Vectors, run' = [run EXCEPT !.pc = "idle", !.x = x, !.logits = Hidden(run.past - 1, NumLayers)]
  PROVE  Inv'
<1>1. /\ Alive /\ ~InLayer /\ PlaceInv /\ RowsInv /\ DeviceInv /\ FlagsInv /\ Settled(cfg) /\ run \in Calls /\ kv \in Mirrors /\ decode \in Flags
      /\ run.past \in Nat /\ run.past >= 1 /\ NumLayers \in Nat
  <2>1. Alive /\ ~InLayer
    BY DEF Alive, InLayer
  <2> QED BY <2>1, SizesAssumption DEF Inv, TypeOK, Calls, PlaceInv
<1>2. Hidden(run.past - 1, NumLayers) \in Vectors
  <2>1. run.past - 1 \in Int /\ NumLayers \in Int
    BY <1>1
  <2> QED BY <2>1, Atoms
<1>3. /\ run' \in Calls /\ run'.pc = "idle" /\ run'.logits = Hidden(run.past - 1, NumLayers)
      /\ run'.past = run.past /\ run'.embed = run.embed
  BY <1>1, <1>2, Atoms DEF Calls
<1>4. TypeOK' /\ Settled(cfg)' /\ (MayReside(cfg)' <=> MayReside(cfg)) /\ (OffDevice(cfg)' <=> OffDevice(cfg))
  BY <1>1, <1>3 DEF TypeOK, Settled, Covered, Options, MayReside, AllOffloaded, OffDevice
<1>5. ~InLayer' /\ ~InBatch' /\ Alive'
  BY <1>3 DEF InLayer, InBatch, Alive
<1>6. PlaceInv'
  BY <1>1, <1>3, <1>5 DEF PlaceInv
<1>7. \A l \in Layers : Passed(l)' = Passed(l) /\ Slack(l)' = Slack(l)
  BY <1>1, <1>3, <1>5 DEF Passed, Slack
<1>8. RowsInv'
  BY <1>1, <1>3, <1>7, SameRows
<1>9. DeviceInv'
  <2>1. (IF InLayer THEN run.batch ELSE 0) <= (IF InLayer' THEN run'.batch ELSE 0)
    BY <1>1, <1>5
  <2> QED BY <1>1, <1>3, <1>4, <1>7, <2>1, SameDevice
<1>10. FlagsInv'
  BY <1>1, <1>3, <1>4, <1>5 DEF FlagsInv
<1>11. CurrentInv'
  BY <1>3 DEF CurrentInv
<1> QED BY <1>1, <1>4, <1>5, <1>6, <1>8, <1>9, <1>10, <1>11 DEF Inv, FlagsInv

\* Which state it was computed from.
LEMMA LastIsCurrent ==
  ASSUME Inv, run.pc \in {"logits", "batchLogits"}
  PROVE  /\ run \in Calls /\ run.x \in Vectors /\ dev.resid \in Vectors /\ dev \in Machines /\ decode \in Flags
         /\ FlagsInv /\ Alive
         /\ run.pc = "batchLogits" \/ ~decode.residDevice => run.x = Hidden(run.past - 1, NumLayers)
         /\ run.pc = "logits" /\ decode.residDevice /\ dev.active => dev.resid = Hidden(run.past - 1, NumLayers)
<1>1. Alive
  BY DEF Alive
<1> QED BY <1>1 DEF Inv, TypeOK, Calls, Machines, CurrentInv

LEMMA BatchLogitsKeeps ==
  ASSUME Inv, cfg' = cfg, NEW asked \in BOOLEAN, cfg.arch = "deepseek" => ~asked, BatchLogits(asked)
  PROVE  Inv'
<1>1. /\ run.pc = "batchLogits" /\ run' = [run EXCEPT !.pc = "idle", !.logits = run.x]
      /\ kv' = kv /\ dev' = [dev EXCEPT !.active = dev.active /\ ~asked]
  BY DEF BatchLogits, Returns
<1>2. PICK failed \in BOOLEAN : decode' = [decode EXCEPT !.logitsOnGPU = decode.logitsOnGPU /\ ~failed]
  BY DEF BatchLogits, HeadOnDevice
<1>3. /\ run \in Calls /\ run.x \in Vectors /\ run.x = Hidden(run.past - 1, NumLayers) /\ dev \in Machines /\ decode \in Flags
      /\ FlagsInv
  BY <1>1, LastIsCurrent
<1>4. run' = [run EXCEPT !.pc = "idle", !.x = run.x, !.logits = Hidden(run.past - 1, NumLayers)]
  BY <1>1, <1>3 DEF Calls
<1>5. /\ decode' \in Flags /\ decode'.stale = decode.stale /\ decode'.hollow = decode.hollow
      /\ decode'.residency = decode.residency /\ decode'.residDevice = decode.residDevice
  BY <1>2, <1>3 DEF Flags
<1>6. /\ dev' \in Machines /\ dev'.kv = dev.kv /\ (~asked => dev'.active = dev.active)
  BY <1>1, <1>3 DEF Machines
<1>7. decode.residDevice => cfg.arch = "deepseek"
  BY <1>1, <1>3 DEF FlagsInv
<1> QED BY <1>1, <1>3, <1>4, <1>5, <1>6, <1>7, ReturnKeeps

LEMMA FromHostKeeps ==
  ASSUME Inv, cfg' = cfg, run.pc = "logits", NEW asked \in BOOLEAN, NEW on \in BOOLEAN,
         FromHost([decode EXCEPT !.logitsOnGPU = on], asked)
  PROVE  Inv'
<1>1. /\ kv' = kv /\ dev' = [dev EXCEPT !.active = dev.active /\ ~decode.residDevice /\ ~asked]
  BY DEF FromHost
<1>2. PICK failed \in BOOLEAN :
        decode' = [[[decode EXCEPT !.logitsOnGPU = on] EXCEPT !.residDevice = FALSE]
                     EXCEPT !.logitsOnGPU = on /\ ~failed]
  <2>1. decode \in Flags
    BY LastIsCurrent
  <2>2. [[decode EXCEPT !.logitsOnGPU = on] EXCEPT !.residDevice = FALSE].logitsOnGPU = on
    BY <2>1 DEF Flags
  <2> QED BY <2>2 DEF FromHost, HeadOnDevice
<1>3. /\ run \in Calls /\ run.x \in Vectors /\ dev.resid \in Vectors /\ dev \in Machines /\ decode \in Flags /\ FlagsInv /\ Alive
      /\ ~decode.residDevice => run.x = Hidden(run.past - 1, NumLayers)
      /\ decode.residDevice /\ dev.active => dev.resid = Hidden(run.past - 1, NumLayers)
  BY LastIsCurrent
<1>4. /\ decode' \in Flags /\ decode'.stale = decode.stale /\ decode'.hollow = decode.hollow
      /\ decode'.residency = decode.residency /\ ~decode'.residDevice
  BY <1>2, <1>3 DEF Flags
<1>5. dev' \in Machines /\ dev'.kv = dev.kv
  BY <1>1, <1>3 DEF Machines
<1>6. CASE ~decode.residDevice /\ Returns(run.x)
  <2>1. run' = [run EXCEPT !.pc = "idle", !.x = run.x, !.logits = Hidden(run.past - 1, NumLayers)]
    BY <1>3, <1>6 DEF Calls, Returns
  <2> QED BY <1>1, <1>3, <1>4, <1>5, <2>1, ReturnKeeps
<1>7. CASE decode.residDevice /\ dev.active /\ run' = [run EXCEPT !.pc = "idle", !.x = dev.resid, !.logits = dev.resid]
  <2>1. run' = [run EXCEPT !.pc = "idle", !.x = dev.resid, !.logits = Hidden(run.past - 1, NumLayers)]
    BY <1>3, <1>7
  <2> QED BY <1>1, <1>3, <1>4, <1>5, <2>1, ReturnKeeps
<1>8. CASE decode.residDevice /\ (~dev.active \/ Fault("download")) /\ Fails
  <2>1. cfg.faults # {}
    BY <1>3, <1>8, ResidentFails
  <2>2. run' \in Calls /\ run'.pc = "failed" /\ kv \in Mirrors /\ (decode.residency => MayReside(cfg))
    BY <1>3, <1>8, Atoms DEF Fails, Calls, Inv, TypeOK
  <2>3. TypeOK'
    BY <1>1, <1>4, <1>5, <2>2 DEF TypeOK
  <2> QED BY <1>4, <2>1, <2>2, <2>3, FailureKeeps
<1> QED BY <1>6, <1>7, <1>8 DEF FromHost

LEMMA LogitsOnDeviceKeeps ==
  ASSUME Inv, cfg' = cfg, NEW kept \in BOOLEAN, cfg.arch \in {"gemma", "phi3", "phi2"} => ~kept, LogitsOnDevice(kept)
  PROVE  Inv'
<1>1. /\ run.pc = "logits" /\ decode.residDevice /\ dev.active /\ run' = [run EXCEPT !.pc = "idle", !.logits = dev.resid]
      /\ decode' = [decode EXCEPT !.residDevice = kept] /\ kv' = kv /\ dev' = dev
  BY DEF LogitsOnDevice, AtLogits, Returns
<1>2. /\ run \in Calls /\ run.x \in Vectors /\ dev \in Machines /\ decode \in Flags /\ dev.resid = Hidden(run.past - 1, NumLayers)
  BY <1>1, LastIsCurrent
<1>3. run' = [run EXCEPT !.pc = "idle", !.x = run.x, !.logits = Hidden(run.past - 1, NumLayers)]
  BY <1>1, <1>2 DEF Calls
<1>4. /\ decode' \in Flags /\ decode'.stale = decode.stale /\ decode'.hollow = decode.hollow
      /\ decode'.residency = decode.residency /\ decode'.residDevice = kept
  BY <1>1, <1>2 DEF Flags
<1> QED BY <1>1, <1>2, <1>3, <1>4, ReturnKeeps

LEMMA EmbedEndsKeeps ==
  ASSUME Inv, cfg' = cfg, cfg.arch \in {"gemma", "phi2"}, EmbedEndsOnHost
  PROVE  Inv'
<1>1. run.pc = "logits" /\ run.embed /\ run' = [run EXCEPT !.pc = "idle", !.logits = run.x] /\ kv' = kv /\ dev' = dev /\ decode' = decode
  BY DEF EmbedEndsOnHost, Returns
<1>2. /\ run \in Calls /\ run.x \in Vectors /\ dev \in Machines /\ decode \in Flags /\ ~decode.residDevice /\ run.x = Hidden(run.past - 1, NumLayers)
  BY <1>1, LastIsCurrent DEF FlagsInv
<1>3. run' = [run EXCEPT !.pc = "idle", !.x = run.x, !.logits = Hidden(run.past - 1, NumLayers)]
  BY <1>1, <1>2 DEF Calls
<1> QED BY <1>1, <1>2, <1>3, ReturnKeeps

-----------------------------------------------------------------------------
(* The layers of the architectures. *)

\* Who has a window.
LEMMA Windows ==
  ASSUME Inv
  PROVE  /\ \A l \in Layers \ cfg.sliding : \A p : FirstOf(l, p) = 0
         /\ cfg.arch \notin {"gemma", "mistral"} => cfg.sliding = {}
         /\ cfg.arch = "mistral" /\ Alive /\ InBatch => cfg.sliding = {}
         /\ MayReside(cfg) => cfg.arch = "gemma" \/ cfg.sliding = {}
         /\ Alive /\ cfg.sliding = {} => kv.length = run.past
<1>1. Settled(cfg) /\ Covered(cfg) /\ (Alive => PlaceInv /\ RowsInv)
  BY DEF Inv, Settled
<1>2. cfg.arch = "mistral" /\ Alive /\ InBatch => cfg.sliding = {}
  BY <1>1, Numbers DEF PlaceInv, Settled
<1> QED BY <1>1, <1>2 DEF FirstOf, Covered, Options, MayReside, RowsInv

\* The rows after an append that nothing was dropped for.
LEMMA PlainRows ==
  ASSUME Inv, AtHostBlock \/ run.pc = "batch", NEW stale \in BOOLEAN, decode.stale => stale
  PROVE  LET rows == Appended(kv.rows, run.layer, run.x)
         IN  /\ rows \in [Layers -> Seq(Int)]
             /\ \A m \in Layers \ {run.layer} : rows[m] = kv.rows[m]
             /\ RowsAfter(rows[run.layer], stale, decode.hollow)
<1>1. InLayer /\ run.x = Hidden(Pos, run.layer)
  BY HostIsCurrent
<1>2. run.layer \in Layers /\ kv.rows \in [Layers -> Seq(Int)] /\ run.batch \in Nat /\ run.past \in Nat
  BY <1>1, InLayerFacts
<1>3. RowsBefore(kv.rows[run.layer], stale)
  <2>1. RowsBefore(kv.rows[run.layer], decode.stale)
    BY <1>1, RowsAreBefore
  <2> QED BY <2>1 DEF RowsBefore
<1>4. RowsAfter(Appended(kv.rows, run.layer, run.x)[run.layer], stale, decode.hollow)
  BY <1>1, <1>2, <1>3, RowsAppended
<1> QED BY <1>2, <1>4, AppendedIs

\* Attention that may ask the device.
LEMMA AttendedIs ==
  ASSUME Inv, cfg.arch # "deepseek2", AtHostBlock \/ run.pc = "batch",
         NEW dkv, NEW stale \in BOOLEAN, DeviceAfter(dkv, stale),
         NEW asked \in BOOLEAN, asked => Deaf \/ ~stale, decode.hollow => asked,
         asked /\ run.layer \in OnGPU => \A p \in run.past..Pos : FirstOf(run.layer, p) = 0,
         NEW onHost, ~decode.hollow => onHost = TRUE,
         NEW attended \in Attends(dkv, run.layer, asked, onHost)
  PROVE  attended = TRUE
<1>1. InLayer
  BY HostIsCurrent
<1>2. ASSUME run.layer \in OnGPU, asked, HasSlots PROVE DeviceReads(dkv, run.layer)
  <2>1. Deaf \/ ~decode.stale
    BY <1>2 DEF DeviceAfter
  <2>2. kv.length = run.past
    BY <1>1, <1>2, <2>1, LengthIsPast
  <2>3. Counts(stale)
    BY <1>2 DEF Counts
  <2> QED BY <1>1, <1>2, <2>2, <2>3, DeviceIsRight
<1> QED BY <1>1, <1>2, AttendsRight

\* The fused QKV of a layer with x on the host.
LEMMA FusedIs ==
  ASSUME Inv, cfg.arch # "deepseek2", AtHostBlock, run.layer \in OnGPU, ~decode.stale, HasSlots,
         FirstOf(run.layer, run.past) = 0
  PROVE  /\ Written(run.layer, run.x) \in [Layers -> SUBSET Int]
         /\ DeviceAfter(Written(run.layer, run.x), FALSE)
         /\ DeviceReads(Written(run.layer, run.x), run.layer)
<1>1. InLayer /\ run.x = Hidden(Pos, run.layer) /\ run.batch = 1 /\ run.past \in Nat /\ Pos = run.past + run.batch - 1
      /\ decode \in Flags
  BY HostIsCurrent, InLayerFacts
<1>2. decode.stale = FALSE
  BY <1>1 DEF Flags
<1>3. kv.length = run.past
  BY <1>1, LengthIsPast
<1>4. DeviceAfter(Written(run.layer, run.x), FALSE) /\ Written(run.layer, run.x) \in [Layers -> SUBSET Int]
  BY <1>1, <1>2, WrittenAfter
<1>5. \A p \in run.past..Pos : FirstOf(run.layer, p) = 0
  BY <1>1
<1>6. Counts(FALSE)
  BY DEF Counts
<1> QED BY <1>1, <1>3, <1>4, <1>5, <1>6, DeviceIsRight

\* Those who note a failed append, in a batch.
LEMMA NotedBatchKeeps ==
  ASSUME Inv, cfg' = cfg, cfg.arch \in {"llama", "mistral"},
         NEW m \in Mirror(run.layer, ~decode.stale, TRUE),
         NEW attended \in Attends(m.kv, run.layer, ~m.stale, HostReads(Appended(kv.rows, run.layer, run.x), run.layer)),
         BatchLayer(Appended(kv.rows, run.layer, run.x), m, attended)
  PROVE  Inv'
<1> DEFINE rows == Appended(kv.rows, run.layer, run.x)
<1>1. run.pc = "batch" /\ InBatch
  BY DEF BatchLayer, InBatch
<1>2. /\ InLayer /\ Alive /\ run.x = Hidden(Pos, run.layer) /\ decode \in Flags /\ FlagsInv /\ run.layer \in Layers
  BY <1>1, HostIsCurrent, InLayerFacts
<1>3. cfg.sliding = {} /\ kv.length = run.past /\ \A p : FirstOf(run.layer, p) = 0
  BY <1>1, <1>2, Windows
<1>4. /\ m.kv \in [Layers -> SUBSET Int] /\ m.stale \in BOOLEAN /\ DeviceAfter(m.kv, m.stale)
      /\ MayReside(cfg) => m.stale = decode.stale
  <2>1. (~decode.stale) \in BOOLEAN
    BY <1>2 DEF Flags
  <2> QED BY <1>2, <2>1, MirrorIs
<1>5. /\ rows \in [Layers -> Seq(Int)] /\ \A i \in Layers \ {run.layer} : rows[i] = kv.rows[i]
      /\ RowsAfter(rows[run.layer], m.stale, decode.hollow)
  <2>1. decode.stale => m.stale
    BY <1>4 DEF DeviceAfter
  <2> QED BY <1>1, <1>4, <2>1, PlainRows
<1> HIDE DEF rows
<1>6. decode.hollow \/ decode.residDevice => m.stale = decode.stale
  BY <1>2, <1>4 DEF FlagsInv
<1>7. ~decode.hollow => HostReads(rows, run.layer) = TRUE
  <2>1. ~decode.hollow => HostReads(rows, run.layer)
    BY <1>2, <1>3, <1>5, HostIsRight
  <2>2. HostReads(rows, run.layer) \in BOOLEAN
    BY DEF HostReads
  <2> QED BY <2>1, <2>2
<1>8. attended \in Attends(m.kv, run.layer, ~m.stale, HostReads(rows, run.layer)) /\ BatchLayer(rows, m, attended)
  BY DEF rows
<1>9. attended = TRUE
  <2>1. decode.hollow => ~m.stale
    BY <1>2, <1>6 DEF FlagsInv
  <2> QED BY <1>1, <1>3, <1>4, <1>7, <1>8, <2>1, AttendedIs
<1> QED BY <1>4, <1>5, <1>6, <1>8, <1>9, BatchLayerKeeps

\* Those who ignore one, on the host and in a batch.
LEMMA DeafLayerKeeps ==
  ASSUME Inv, cfg' = cfg, Deaf, AtHostBlock, NEW called \in BOOLEAN, NEW noted \in BOOLEAN,
         ~called => decode.stale,
         NEW m \in Mirror(run.layer, called, noted),
         NEW attended \in Attends(m.kv, run.layer, TRUE, HostReads(Appended(kv.rows, run.layer, run.x), run.layer)),
         NEW right, attended = TRUE => right = TRUE,
         HostLayer(Appended(kv.rows, run.layer, run.x), m, right, FALSE)
  PROVE  Inv'
<1> DEFINE rows == Appended(kv.rows, run.layer, run.x)
<1>1. /\ InLayer /\ Alive /\ run.x = Hidden(Pos, run.layer) /\ decode \in Flags /\ FlagsInv /\ run.layer \in Layers
  BY HostIsCurrent, InLayerFacts
<1>2. cfg.arch \notin {"deepseek2", "gemma", "mistral"}
  BY DEF Deaf
<1>3. cfg.sliding = {} /\ kv.length = run.past /\ \A p : FirstOf(run.layer, p) = 0
  BY <1>1, <1>2, Windows
<1>4. /\ m.kv \in [Layers -> SUBSET Int] /\ m.stale \in BOOLEAN /\ DeviceAfter(m.kv, m.stale)
      /\ MayReside(cfg) => m.stale = decode.stale
  BY <1>1, <1>2, MirrorIs
<1>5. /\ rows \in [Layers -> Seq(Int)] /\ \A i \in Layers \ {run.layer} : rows[i] = kv.rows[i]
      /\ RowsAfter(rows[run.layer], m.stale, decode.hollow)
  <2>1. decode.stale => m.stale
    BY <1>4 DEF DeviceAfter
  <2> QED BY <1>4, <2>1, PlainRows
<1> HIDE DEF rows
<1>6. decode.hollow => m.stale = decode.stale
  BY <1>1, <1>4 DEF FlagsInv
<1>7. ~decode.hollow => HostReads(rows, run.layer) = TRUE
  <2>1. ~decode.hollow => HostReads(rows, run.layer)
    BY <1>1, <1>3, <1>5, HostIsRight
  <2>2. HostReads(rows, run.layer) \in BOOLEAN
    BY DEF HostReads
  <2> QED BY <2>1, <2>2
<1>8. attended \in Attends(m.kv, run.layer, TRUE, HostReads(rows, run.layer)) /\ HostLayer(rows, m, right, FALSE)
  BY DEF rows
<1>9. attended = TRUE
  BY <1>2, <1>3, <1>4, <1>7, <1>8, AttendedIs
<1>10. right = TRUE
  BY <1>9
<1> QED BY <1>2, <1>4, <1>5, <1>6, <1>8, <1>10, HostLayerKeeps

LEMMA DeafBatchKeeps ==
  ASSUME Inv, cfg' = cfg, Deaf, run.pc = "batch", NEW m,
         NEW rows, rows = Appended(kv.rows, run.layer, run.x),
         \/ /\ run.layer \in OnGPU /\ HasSlots
            /\ m = [[kv |-> dev.kv, stale |-> decode.stale] EXCEPT !.kv = Written(run.layer, run.x)]
            /\ \E attended \in Attends(Written(run.layer, run.x), run.layer, TRUE, HostReads(rows, run.layer)) :
                 BatchLayer(rows, m, attended)
         \/ /\ run.layer \notin OnGPU \/ ~HasSlots \/ Fault("append")
            /\ m = [kv |-> dev.kv, stale |-> decode.stale]
            /\ BatchLayer(rows, m, HostReads(rows, run.layer))
  PROVE  Inv'
<1>1. /\ InLayer /\ Alive /\ run.x = Hidden(Pos, run.layer) /\ decode \in Flags /\ FlagsInv /\ run.layer \in Layers
      /\ Covered(cfg) /\ dev.kv \in [Layers -> SUBSET Int] /\ run.past \in Nat /\ run.batch \in Nat /\ cfg.maxSeq \in Nat
  BY HostIsCurrent, InLayerFacts, Numbers DEF Settled
<1>2. cfg.arch \notin {"deepseek2", "gemma", "mistral"} /\ ~Fault("append") /\ decode.stale \in BOOLEAN
  BY <1>1 DEF Deaf, Covered, Options, Fault, Flags
<1>3. cfg.sliding = {} /\ kv.length = run.past /\ \A p : FirstOf(run.layer, p) = 0
  BY <1>1, <1>2, Windows
<1>4. /\ rows \in [Layers -> Seq(Int)] /\ \A i \in Layers \ {run.layer} : rows[i] = kv.rows[i]
      /\ RowsAfter(rows[run.layer], decode.stale, decode.hollow)
  BY <1>2, PlainRows
<1>5. ~decode.hollow => HostReads(rows, run.layer) = TRUE
  <2>1. ~decode.hollow => HostReads(rows, run.layer)
    BY <1>1, <1>3, <1>4, HostIsRight
  <2>2. HostReads(rows, run.layer) \in BOOLEAN
    BY DEF HostReads
  <2> QED BY <2>1, <2>2
<1>6. ASSUME run.layer \in OnGPU, HasSlots,
             m = [[kv |-> dev.kv, stale |-> decode.stale] EXCEPT !.kv = Written(run.layer, run.x)],
             NEW attended \in Attends(Written(run.layer, run.x), run.layer, TRUE, HostReads(rows, run.layer)),
             BatchLayer(rows, m, attended)
      PROVE  Inv'
  <2>1. DeviceAfter(Written(run.layer, run.x), decode.stale) /\ Written(run.layer, run.x) \in [Layers -> SUBSET Int]
    BY <1>1, <1>6, WrittenAfter
  <2>2. m.kv = Written(run.layer, run.x) /\ m.stale = decode.stale
    BY <1>6
  <2>3. attended = TRUE
    BY <1>2, <1>3, <1>5, <1>6, <2>1, AttendedIs
  <2> QED BY <1>2, <1>4, <1>6, <2>1, <2>2, <2>3, BatchLayerKeeps
<1>7. ASSUME run.layer \notin OnGPU \/ ~HasSlots, m = [kv |-> dev.kv, stale |-> decode.stale],
             BatchLayer(rows, m, HostReads(rows, run.layer))
      PROVE  Inv'
  <2>1. DeviceAfter(dev.kv, decode.stale)
    <3>1. ~HasSlots => run.past + run.batch > cfg.maxSeq
      BY <1>1, <1>3 DEF HasSlots
    <3> QED BY <1>1, <1>2, <1>7, <3>1, NotWritten
  <2>2. ~decode.hollow
    <3>1. decode.hollow => MayReside(cfg)
      BY <1>1 DEF FlagsInv
    <3> QED BY <1>1, <1>2, <1>7, <3>1, ResidentFacts
  <2> QED BY <1>1, <1>2, <1>4, <1>5, <1>7, <2>1, <2>2, BatchLayerKeeps
<1> QED BY <1>2, <1>6, <1>7

\* A context that is cleared.
LEMMA ClearedFlags ==
  ASSUME Inv
  PROVE  Cleared(AllCleared) /\ \A b \in BOOLEAN : Cleared([AllCleared EXCEPT !.logitsOnGPU = b])
<1>1. decode \in Flags
  BY DEF Inv, TypeOK
<1>2. AllCleared \in Flags
  BY <1>1 DEF AllCleared, Flags
<1>3. Cleared(AllCleared)
  BY <1>1, <1>2 DEF AllCleared, Flags, Cleared
<1>4. ASSUME NEW b \in BOOLEAN PROVE Cleared([AllCleared EXCEPT !.logitsOnGPU = b])
  BY <1>2, <1>3 DEF Flags, Cleared
<1> QED BY <1>3, <1>4

\* The start of a token where nothing moves in the mirror.
LEMMA TokenKeeps ==
  ASSUME Inv, cfg' = cfg, cfg.arch # "deepseek2", AtToken, StartsLayers, kv' = kv,
         \/ Uploads(decode.residency /\ ~decode.stale) /\ (cfg.arch \in {"gemma", "phi2"} => ~run.embed)
         \/ dev' = dev /\ decode' = decode /\ cfg.arch \in {"gemma", "phi2"} /\ run.embed
  PROVE  Inv'
<1>1. decode \in Flags /\ kv \in Mirrors
  BY DEF Inv, TypeOK
<1>2. CASE decode.residency /\ ~decode.stale /\ (cfg.arch \in {"gemma", "phi2"} => ~run.embed)
  <2>1. HiddenUpload
    BY <1>2 DEF Uploads
  <2> QED BY <1>2, <2>1, UploadKeeps
<1>3. CASE ~(decode.residency /\ ~decode.stale) \/ (cfg.arch \in {"gemma", "phi2"} /\ run.embed)
  <2>1. dev' = dev /\ decode' = decode
    BY <1>3 DEF Uploads
  <2>2. decode' = [decode EXCEPT !.stale = decode.stale] /\ decode.stale \in BOOLEAN
    BY <1>1, <2>1 DEF Flags
  <2>3. RowsInv'
    BY <2>1, TokenRows
  <2> QED BY <1>1, <1>3, <2>1, <2>2, <2>3, NoUploadKeeps
<1> QED BY <1>2, <1>3

\* The logits after residency, or after none.
LEMMA LogitsKeeps ==
  ASSUME Inv, cfg' = cfg, NEW asked \in BOOLEAN, NEW again \in BOOLEAN, AtLogits,
         FromHost([decode EXCEPT !.logitsOnGPU = decode.logitsOnGPU /\ ~asked], again)
  PROVE  Inv'
<1>1. (decode.logitsOnGPU /\ ~asked) \in BOOLEAN /\ run.pc = "logits"
  BY DEF AtLogits, Inv, TypeOK, Flags
<1> QED BY <1>1, FromHostKeeps

LEMMA EmbedFromHostKeeps ==
  ASSUME Inv, cfg' = cfg, EmbedEnds
  PROVE  Inv'
<1>1. run.pc = "logits" /\ FromHost(decode, FALSE)
  BY DEF EmbedEnds
<1>2. decode \in Flags
  BY DEF Inv, TypeOK
<1>3. decode = [decode EXCEPT !.logitsOnGPU = decode.logitsOnGPU] /\ decode.logitsOnGPU \in BOOLEAN
  BY <1>2 DEF Flags
<1>4. FromHost([decode EXCEPT !.logitsOnGPU = decode.logitsOnGPU], FALSE)
  BY <1>1, <1>3
<1> QED BY <1>1, <1>3, <1>4, FromHostKeeps

\* The steps that most architectures share, with the flags d that they clear.
SharedSteps(d) ==
  \/ \E n \in 1..CtxLen : Starts(n, cfg.nBatch > 1 /\ n > 1) \/ StartsEmbed(n, d)
  \/ Resets(d) \/ HollowLayerLost(d) \/ HostFails \/ ChunkFails \/ EmbedEnds

LEMMA SharedKeeps ==
  ASSUME Inv, cfg' = cfg, cfg.arch # "deepseek2", NEW d, Cleared(d), SharedSteps(d)
  PROVE  Inv'
<1>1. ASSUME NEW n \in 1..CtxLen, Starts(n, cfg.nBatch > 1 /\ n > 1) PROVE Inv'
  <2>1. (cfg.nBatch > 1 /\ n > 1) \in BOOLEAN
    OBVIOUS
  <2> QED BY <1>1, <2>1, StartKeeps
<1>2. ASSUME NEW n \in 1..CtxLen, StartsEmbed(n, d) PROVE Inv'
  BY <1>2, EmbedKeeps
<1> QED BY <1>1, <1>2, ResetKeeps, HollowLostKeeps, HostFailsKeeps, ChunkFailsKeeps, EmbedFromHostKeeps DEF SharedSteps

\* A layer over d_resid, which fails before anything else has changed.
LEMMA DeviceBlockKeeps ==
  ASSUME Inv, cfg' = cfg, cfg.arch # "deepseek2", cfg.sliding = {},
         \/ DeviceLayer
         \/ AtDeviceBlock /\ ~decode.hollow /\ kv' = kv /\ Recovers(decode)
  PROVE  Inv'
<1>1. FirstOf(run.layer, run.past) = 0
  BY DEF FirstOf
<1> QED BY <1>1, DeviceLayerKeeps, PlainRecoversKeeps

\* The router selects two experts; with the shared one the sum is complete.
LEMMA TwoExperts == Cardinality(Experts) = 2
<1>1. Cardinality(1..2) = IF 1 > 2 THEN 0 ELSE 2 - 1 + 1
  BY FS_Interval, 1 \in Int, 2 \in Int
<1> QED BY <1>1 DEF Experts

\* dropOldestLayer.
LEMMA DroppedIs ==
  ASSUME NEW row \in Seq(Int), NEW n \in Nat
  PROVE  /\ DropRows(row, n) \in Seq(Int)
         /\ Len(DropRows(row, n)) = IF n >= Len(row) THEN 0 ELSE Len(row) - n
         /\ \A i \in 1..Len(DropRows(row, n)) : DropRows(row, n)[i] = row[i + n]
<1>1. CASE n >= Len(row)
  <2>1. DropRows(row, n) = << >>
    BY <1>1 DEF DropRows
  <2> QED BY <1>1, <2>1
<1>2. CASE ~(n >= Len(row))
  <2> DEFINE s == SubSeq(row, n + 1, Len(row))
  <2>1. DropRows(row, n) = s
    BY <1>2 DEF DropRows
  <2>2. Len(row) \in Nat /\ n + 1 \in 1..Len(row)
    BY <1>2
  <2>3. s \in Seq(Int) /\ Len(s) = Len(row) - n /\ \A i \in 1..Len(s) : s[i] = row[i + n]
    BY <2>2
  <2> HIDE DEF s
  <2> QED BY <1>2, <2>1, <2>3
<1> QED BY <1>1, <1>2

\* The rows that a query attends to.
LEMMA WindowIs ==
  ASSUME NEW l, NEW p \in Nat, NEW f \in Nat, FirstOf(l, p) = f, NEW s \in Seq(Int),
         Len(s) = p - f + 1, \A i \in 1..Len(s) : s[i] = f + i - 1
  PROVE  s = WindowOf(l, p)
<1>1. WindowOf(l, p) = [i \in 1..(p - f + 1) |-> f + i - 1]
  BY DEF WindowOf
<1>2. s = [i \in 1..Len(s) |-> s[i]]
  OBVIOUS
<1> QED BY <1>1, <1>2

\* What is left when the oldest rows are dropped.
LEMMA DroppedRow ==
  ASSUME NEW old \in Seq(Int), NEW n \in Nat, n <= Len(old), NEW e \in Int, NEW loose,
         \A i \in 1..Len(old) : old[i] = e - Len(old) + i - 1 \/ old[i] \in loose
  PROVE  /\ DropRows(old, n) \in Seq(Int) /\ Len(DropRows(old, n)) = Len(old) - n
         /\ \A i \in 1..Len(old) - n :
              DropRows(old, n)[i] = e - (Len(old) - n) + i - 1 \/ DropRows(old, n)[i] \in loose
<1> DEFINE row == DropRows(old, n)
<1>1. row \in Seq(Int) /\ Len(row) = (IF n >= Len(old) THEN 0 ELSE Len(old) - n)
      /\ \A i \in 1..Len(row) : row[i] = old[i + n]
  BY DroppedIs
<1>2. Len(old) \in Nat
  OBVIOUS
<1> HIDE DEF row
<1>3. Len(row) = Len(old) - n
  BY <1>1, <1>2
<1>4. ASSUME NEW i \in 1..Len(old) - n
      PROVE  row[i] = e - (Len(old) - n) + i - 1 \/ row[i] \in loose
  <2>1. i + n \in 1..Len(old) /\ row[i] = old[i + n]
    BY <1>1, <1>2, <1>3
  <2>2. old[i + n] = e - Len(old) + (i + n) - 1 \/ old[i + n] \in loose
    BY <2>1
  <2>3. e - Len(old) + (i + n) - 1 = e - (Len(old) - n) + i - 1
    BY <1>2, <1>3
  <2> QED BY <2>1, <2>2, <2>3
<1> QED BY <1>1, <1>3, <1>4 DEF row

\* The values of a row that only its reservation explains.
Loose == IF decode.hollow THEN {Hollow} ELSE {}

\* The rows after an append are those of the window, if there are no more.
LEMMA RowIsWindow ==
  ASSUME Inv, InLayer, run.batch = 1, ~decode.hollow, NEW row \in Seq(Int), NEW stale,
         RowsAfter(row, stale, decode.hollow), Len(row) <= cfg.window \/ run.layer \notin cfg.sliding
  PROVE  row = WindowOf(run.layer, Pos)
<1> DEFINE l == run.layer
           f == run.past + 1 - Len(row)
<1>1. run.past \in Nat /\ Pos = run.past /\ Pos \in Nat /\ cfg.window \in Nat /\ cfg.window >= 1 /\ Len(row) \in Nat
  <2>1. run.past \in Nat /\ Pos \in Nat /\ Pos = run.past + run.batch - 1 /\ Settled(cfg)
    BY InLayerFacts
  <2> QED BY <2>1, Numbers
<1>2. /\ Len(row) <= run.past + 1
      /\ Len(row) = run.past + 1 \/ (l \in cfg.sliding /\ Len(row) >= cfg.window)
  BY DEF RowsAfter
<1>3. f \in Nat /\ Len(row) = Pos - f + 1
  BY <1>1, <1>2
<1>4. \A i \in 1..Len(row) : row[i] = f + i - 1
  BY <1>1 DEF RowsAfter
<1>5. FirstOf(l, Pos) = f
  BY <1>1, <1>2 DEF FirstOf
<1> QED BY <1>1, <1>3, <1>4, <1>5, WindowIs

-----------------------------------------------------------------------------
(* llama *)

\* The operators of the instance are those of ForwardState.
LEMMA LlamaOps ==
  /\ llama!OnGPU = OnGPU
  /\ \A f : llama!Fault(f) <=> Fault(f)
  /\ \A c : llama!AllOffloaded(c) <=> AllOffloaded(c)
  /\ \A c, kvMaxSeq, serial, residency, logits : llama!Loaded(c, kvMaxSeq, serial, residency, logits) = Loaded(c, kvMaxSeq, serial, residency, logits)
  /\ \A rows, l : llama!RoomFor(rows, l) <=> RoomFor(rows, l)
  /\ \A rows, l, h : llama!Appended(rows, l, h) = Appended(rows, l, h)
  /\ llama!HasSlots <=> HasSlots
  /\ \A l, h : llama!Written(l, h) = Written(l, h)
  /\ \A l, called, noted : llama!Mirror(l, called, noted) = Mirror(l, called, noted)
  /\ \A dkv, l : llama!DeviceReads(dkv, l) = DeviceReads(dkv, l)
  /\ \A rows, l : llama!HostReads(rows, l) = HostReads(rows, l)
  /\ \A dkv, l, asked, onHost : llama!Attends(dkv, l, asked, onHost) = Attends(dkv, l, asked, onHost)
  /\ \A n, batched : llama!Starts(n, batched) <=> Starts(n, batched)
  /\ \A n, d : llama!StartsEmbed(n, d) <=> StartsEmbed(n, d)
  /\ \A d : llama!Resets(d) <=> Resets(d)
  /\ llama!AllCleared = AllCleared
  /\ llama!AtToken <=> AtToken
  /\ llama!StartsLayers <=> StartsLayers
  /\ \A wanted : llama!Uploads(wanted) <=> Uploads(wanted)
  /\ llama!AtDeviceBlock <=> AtDeviceBlock
  /\ llama!QKVMayFail <=> QKVMayFail
  /\ llama!DeviceLayer <=> DeviceLayer
  /\ \A d : llama!HollowLayerLost(d) <=> HollowLayerLost(d)
  /\ \A d : llama!Recovers(d) <=> Recovers(d)
  /\ llama!AtHostBlock <=> AtHostBlock
  /\ \A rows, m, attended, fused : llama!HostLayer(rows, m, attended, fused) <=> HostLayer(rows, m, attended, fused)
  /\ llama!HostFails <=> HostFails
  /\ \A k, d, synced : llama!StartsChunk(k, d, synced) <=> StartsChunk(k, d, synced)
  /\ llama!ChunkFails <=> ChunkFails
  /\ \A rows, m, attended : llama!BatchLayer(rows, m, attended) <=> BatchLayer(rows, m, attended)
  /\ \A asked : llama!BatchLogits(asked) <=> BatchLogits(asked)
  /\ \A d, asked : llama!FromHost(d, asked) <=> FromHost(d, asked)
  /\ llama!AtLogits <=> AtLogits
  /\ llama!EmbedEnds <=> EmbedEnds
  /\ \A kept : llama!LogitsOnDevice(kept) <=> LogitsOnDevice(kept)
  /\ \A asked : llama!NoLogitsOnDevice(asked) <=> NoLogitsOnDevice(asked)
BY DEF llama!Layers, llama!Hollow, llama!Junk, llama!Hidden, llama!NoHidden, llama!OnGPU, llama!Fault,
       llama!AllOffloaded, llama!CapMaxSeq, llama!Loaded, llama!Pos, llama!FirstOf, llama!WindowOf,
       llama!NewKV, llama!RoomFor, llama!Appended, llama!Bumped, llama!Advanced, llama!NewDevice,
       llama!HasSlots, llama!Written, llama!Mirror, llama!DeviceReads, llama!HostReads, llama!Attends,
       llama!Apply, llama!Fails, llama!Returns, llama!Starts, llama!StartsEmbed, llama!Resets,
       llama!ResetsAndFails, llama!AllCleared, llama!AtToken, llama!StartsLayers, llama!HiddenUpload,
       llama!Uploads, llama!AfterLayer, llama!AtDeviceBlock, llama!QKVMayFail, llama!DeviceLayer,
       llama!HollowLayerLost, llama!Recovers, llama!AtHostBlock, llama!HostLayer, llama!HostFails,
       llama!ChunkSize, llama!StartsChunk, llama!ChunkFails, llama!AfterBatchLayer, llama!BatchLayer,
       llama!HeadOnDevice, llama!BatchLogits, llama!FromHost, llama!AtLogits, llama!EmbedEnds,
       llama!LogitsOnDevice, llama!NoLogitsOnDevice, Layers, Hollow, Junk, Hidden, NoHidden, OnGPU, Fault,
       AllOffloaded, CapMaxSeq, Loaded, Pos, FirstOf, WindowOf, NewKV, RoomFor, Appended, Bumped, Advanced,
       NewDevice, HasSlots, Written, Mirror, DeviceReads, HostReads, Attends, Apply, Fails, Returns, Starts,
       StartsEmbed, Resets, ResetsAndFails, AllCleared, AtToken, StartsLayers, HiddenUpload, Uploads,
       AfterLayer, AtDeviceBlock, QKVMayFail, DeviceLayer, HollowLayerLost, Recovers, AtHostBlock, HostLayer,
       HostFails, ChunkSize, StartsChunk, ChunkFails, AfterBatchLayer, BatchLayer, HeadOnDevice, BatchLogits,
       FromHost, AtLogits, EmbedEnds, LogitsOnDevice, NoLogitsOnDevice

\* llama keeps the invariant.
LEMMA LlamaKeeps ==
  ASSUME Inv, cfg.arch = "llama", llama!Next
  PROVE  Inv'
<1>1. cfg' = cfg /\ cfg.arch # "deepseek2" /\ cfg.sliding = {} /\ decode \in Flags /\ Cleared(AllCleared)
  BY Windows, ClearedFlags DEF llama!Next, Inv, TypeOK
<1>2. CASE SharedSteps(AllCleared)
  BY <1>1, <1>2, SharedKeeps
<1>3. CASE llama!forwardToken
  <2>1. AtToken /\ StartsLayers /\ kv' = kv /\ Uploads(decode.residency /\ ~decode.stale)
    BY <1>3, LlamaOps DEF llama!forwardToken, llama!uploadHidden
  <2> QED BY <1>1, <2>1, TokenKeeps
<1>4. CASE llama!forwardBlockDevice \/ llama!recoverHiddenFromDevice
  <2>1. \/ DeviceLayer
        \/ AtDeviceBlock /\ ~decode.hollow /\ kv' = kv /\ Recovers(decode)
    BY <1>4, LlamaOps DEF llama!forwardBlockDevice, llama!recoverHiddenFromDevice
  <2> QED BY <1>1, <2>1, DeviceBlockKeeps
<1>5. CASE llama!forwardBlock
  <2> DEFINE l == run.layer
             rows == Appended(kv.rows, l, run.x)
  <2>1. AtHostBlock
    BY <1>5, LlamaOps DEF llama!forwardBlock
  <2>2. /\ InLayer /\ Alive /\ run.x = Hidden(Pos, l) /\ FlagsInv /\ l \in Layers
        /\ kv.length = run.past /\ \A p : FirstOf(l, p) = 0
    BY <1>1, <2>1, HostIsCurrent, InLayerFacts, Windows
  <2>3. ASSUME l \in OnGPU, ~decode.stale, HasSlots,
               HostLayer(rows, [kv |-> Written(l, run.x), stale |-> FALSE], DeviceReads(Written(l, run.x), l), TRUE)
        PROVE  Inv'
    <3> DEFINE m == [kv |-> Written(l, run.x), stale |-> FALSE]
    <3>1. Written(l, run.x) \in [Layers -> SUBSET Int] /\ DeviceAfter(Written(l, run.x), FALSE) /\ DeviceReads(Written(l, run.x), l)
      BY <1>1, <2>1, <2>2, <2>3, FusedIs
    <3>2. DeviceReads(Written(l, run.x), l) = TRUE
      BY <3>1 DEF DeviceReads
    <3>3. decode.stale = FALSE
      BY <1>1, <2>3 DEF Flags
    <3>4. /\ rows \in [Layers -> Seq(Int)] /\ \A i \in Layers \ {l} : rows[i] = kv.rows[i]
          /\ RowsAfter(rows[l], FALSE, decode.hollow)
      BY <2>1, <3>3, PlainRows
    <3> HIDE DEF rows
    <3>5. m.kv = Written(l, run.x) /\ m.stale = FALSE /\ HostLayer(rows, m, DeviceReads(Written(l, run.x), l), TRUE)
      BY <2>3
    <3> HIDE DEF m
    <3> QED BY <1>1, <2>1, <3>1, <3>2, <3>3, <3>4, <3>5, HostLayerKeeps
  <2>4. ASSUME NEW m \in Mirror(l, ~decode.stale, TRUE),
               NEW attended \in Attends(m.kv, l, ~m.stale, HostReads(rows, l)),
               HostLayer(rows, m, attended, TRUE)
        PROVE  Inv'
    <3>1. /\ m.kv \in [Layers -> SUBSET Int] /\ m.stale \in BOOLEAN /\ DeviceAfter(m.kv, m.stale)
          /\ MayReside(cfg) => m.stale = decode.stale
      <4>1. (~decode.stale) \in BOOLEAN
        BY <1>1 DEF Flags
      <4> QED BY <1>1, <2>2, <4>1, MirrorIs
    <3>2. /\ rows \in [Layers -> Seq(Int)] /\ \A i \in Layers \ {l} : rows[i] = kv.rows[i]
          /\ RowsAfter(rows[l], m.stale, decode.hollow)
      <4>1. decode.stale => m.stale
        BY <3>1 DEF DeviceAfter
      <4> QED BY <2>1, <3>1, <4>1, PlainRows
    <3> HIDE DEF rows
    <3>3. decode.hollow => m.stale = decode.stale /\ ~m.stale
      BY <2>2, <3>1 DEF FlagsInv
    <3>4. ~decode.hollow => HostReads(rows, l) = TRUE
      <4>1. ~decode.hollow => HostReads(rows, l)
        BY <1>1, <2>2, <3>2, HostIsRight
      <4>2. HostReads(rows, l) \in BOOLEAN
        BY DEF HostReads
      <4> QED BY <4>1, <4>2
    <3>5. attended = TRUE
      BY <1>1, <2>1, <2>2, <2>4, <3>1, <3>3, <3>4, AttendedIs
    <3> QED BY <1>1, <2>1, <2>4, <3>1, <3>2, <3>3, <3>5, HostLayerKeeps
  <2>5. \/ /\ l \in OnGPU /\ ~decode.stale /\ HasSlots
           /\ HostLayer(rows, [kv |-> Written(l, run.x), stale |-> FALSE], DeviceReads(Written(l, run.x), l), TRUE)
        \/ \E m \in Mirror(l, ~decode.stale, TRUE) :
             \E attended \in Attends(m.kv, l, ~m.stale, HostReads(rows, l)) :
               HostLayer(rows, m, attended, TRUE)
    BY <1>5, LlamaOps DEF llama!forwardBlock, llama!attentionScoresInto
  <2> QED BY <2>3, <2>4, <2>5
<1>6. CASE llama!forwardBatch
  <2>1. StartsChunk(kv, decode, TRUE) \/ ChunkFails \/ BatchLogits(FALSE)
    BY <1>6, LlamaOps DEF llama!forwardBatch
  <2> QED BY <1>1, <2>1, ChunkKeeps, ChunkFailsKeeps, BatchLogitsKeeps
<1>7. CASE llama!forwardBlockBatch
  <2>1. \E m \in Mirror(run.layer, ~decode.stale, TRUE) :
          \E attended \in Attends(m.kv, run.layer, ~m.stale, HostReads(Appended(kv.rows, run.layer, run.x), run.layer)) :
            BatchLayer(Appended(kv.rows, run.layer, run.x), m, attended)
    BY <1>7, LlamaOps DEF llama!forwardBlockBatch, llama!attentionBatchCausalInto
  <2> QED BY <1>1, <2>1, NotedBatchKeeps
<1>8. CASE llama!logitsFinish
  <2> DEFINE asked == decode.residDevice /\ decode.logitsOnGPU
  <2>1. \/ LogitsOnDevice(TRUE)
        \/ AtLogits /\ FromHost([decode EXCEPT !.logitsOnGPU = decode.logitsOnGPU /\ ~asked], FALSE)
    BY <1>8, LlamaOps DEF llama!logitsFinish
  <2>2. asked \in BOOLEAN
    BY <1>1 DEF Flags
  <2> HIDE DEF asked
  <2> QED BY <1>1, <2>1, <2>2, LogitsOnDeviceKeeps, LogitsKeeps
<1>9. \/ SharedSteps(AllCleared)
      \/ llama!forwardToken \/ llama!forwardBlockDevice \/ llama!recoverHiddenFromDevice \/ llama!forwardBlock
      \/ llama!forwardBatch \/ llama!forwardBlockBatch \/ llama!logitsFinish
  BY LlamaOps DEF llama!Next, llama!Forward, llama!Embed, llama!ResetCache, llama!matmulInto, SharedSteps
<1> QED BY <1>2, <1>3, <1>4, <1>5, <1>6, <1>7, <1>8, <1>9

-----------------------------------------------------------------------------
(* phi3 *)

\* The operators of the instance are those of ForwardState.
LEMMA Phi3Ops ==
  /\ phi3!Layers = Layers
  /\ phi3!OnGPU = OnGPU
  /\ \A f : phi3!Fault(f) <=> Fault(f)
  /\ \A c : phi3!AllOffloaded(c) <=> AllOffloaded(c)
  /\ \A c, kvMaxSeq, serial, residency, logits : phi3!Loaded(c, kvMaxSeq, serial, residency, logits) = Loaded(c, kvMaxSeq, serial, residency, logits)
  /\ \A rows, l : phi3!RoomFor(rows, l) <=> RoomFor(rows, l)
  /\ \A rows, l, h : phi3!Appended(rows, l, h) = Appended(rows, l, h)
  /\ phi3!HasSlots <=> HasSlots
  /\ \A l, h : phi3!Written(l, h) = Written(l, h)
  /\ \A l, called, noted : phi3!Mirror(l, called, noted) = Mirror(l, called, noted)
  /\ \A rows, l : phi3!HostReads(rows, l) = HostReads(rows, l)
  /\ \A dkv, l, asked, onHost : phi3!Attends(dkv, l, asked, onHost) = Attends(dkv, l, asked, onHost)
  /\ phi3!Fails <=> Fails
  /\ \A n, batched : phi3!Starts(n, batched) <=> Starts(n, batched)
  /\ \A n, d : phi3!StartsEmbed(n, d) <=> StartsEmbed(n, d)
  /\ \A d : phi3!Resets(d) <=> Resets(d)
  /\ phi3!AllCleared = AllCleared
  /\ phi3!AtToken <=> AtToken
  /\ phi3!StartsLayers <=> StartsLayers
  /\ \A wanted : phi3!Uploads(wanted) <=> Uploads(wanted)
  /\ phi3!AtDeviceBlock <=> AtDeviceBlock
  /\ phi3!QKVMayFail <=> QKVMayFail
  /\ phi3!DeviceLayer <=> DeviceLayer
  /\ \A d : phi3!HollowLayerLost(d) <=> HollowLayerLost(d)
  /\ \A d : phi3!Recovers(d) <=> Recovers(d)
  /\ phi3!AtHostBlock <=> AtHostBlock
  /\ \A rows, m, attended, fused : phi3!HostLayer(rows, m, attended, fused) <=> HostLayer(rows, m, attended, fused)
  /\ phi3!HostFails <=> HostFails
  /\ \A k, d, synced : phi3!StartsChunk(k, d, synced) <=> StartsChunk(k, d, synced)
  /\ \A rows, m, attended : phi3!BatchLayer(rows, m, attended) <=> BatchLayer(rows, m, attended)
  /\ \A asked : phi3!BatchLogits(asked) <=> BatchLogits(asked)
  /\ \A d, asked : phi3!FromHost(d, asked) <=> FromHost(d, asked)
  /\ phi3!AtLogits <=> AtLogits
  /\ phi3!EmbedEnds <=> EmbedEnds
  /\ \A kept : phi3!LogitsOnDevice(kept) <=> LogitsOnDevice(kept)
  /\ \A asked : phi3!NoLogitsOnDevice(asked) <=> NoLogitsOnDevice(asked)
BY DEF phi3!Layers, phi3!Hollow, phi3!Junk, phi3!Hidden, phi3!NoHidden, phi3!OnGPU, phi3!Fault,
       phi3!AllOffloaded, phi3!CapMaxSeq, phi3!Loaded, phi3!Pos, phi3!FirstOf, phi3!WindowOf, phi3!NewKV,
       phi3!RoomFor, phi3!Appended, phi3!Bumped, phi3!Advanced, phi3!NewDevice, phi3!HasSlots, phi3!Written,
       phi3!Mirror, phi3!DeviceReads, phi3!HostReads, phi3!Attends, phi3!Apply, phi3!Fails, phi3!Returns,
       phi3!Starts, phi3!StartsEmbed, phi3!Resets, phi3!ResetsAndFails, phi3!AllCleared, phi3!AtToken,
       phi3!StartsLayers, phi3!HiddenUpload, phi3!Uploads, phi3!AfterLayer, phi3!AtDeviceBlock,
       phi3!QKVMayFail, phi3!DeviceLayer, phi3!HollowLayerLost, phi3!Recovers, phi3!AtHostBlock,
       phi3!HostLayer, phi3!HostFails, phi3!ChunkSize, phi3!StartsChunk, phi3!AfterBatchLayer,
       phi3!BatchLayer, phi3!HeadOnDevice, phi3!BatchLogits, phi3!FromHost, phi3!AtLogits, phi3!EmbedEnds,
       phi3!LogitsOnDevice, phi3!NoLogitsOnDevice, Layers, Hollow, Junk, Hidden, NoHidden, OnGPU, Fault,
       AllOffloaded, CapMaxSeq, Loaded, Pos, FirstOf, WindowOf, NewKV, RoomFor, Appended, Bumped, Advanced,
       NewDevice, HasSlots, Written, Mirror, DeviceReads, HostReads, Attends, Apply, Fails, Returns, Starts,
       StartsEmbed, Resets, ResetsAndFails, AllCleared, AtToken, StartsLayers, HiddenUpload, Uploads,
       AfterLayer, AtDeviceBlock, QKVMayFail, DeviceLayer, HollowLayerLost, Recovers, AtHostBlock, HostLayer,
       HostFails, ChunkSize, StartsChunk, AfterBatchLayer, BatchLayer, HeadOnDevice, BatchLogits, FromHost,
       AtLogits, EmbedEnds, LogitsOnDevice, NoLogitsOnDevice

\* tryRecoverGPUKV writes what fits, all of it when nothing fails.
LEMMA RewrittenIs ==
  ASSUME Inv, cfg.arch = "phi3", AtDeviceBlock, ~decode.hollow, NEW m \in phi3!tryRecoverGPUKV
  PROVE  m.kv \in [Layers -> SUBSET Int] /\ m.stale = FALSE /\ \A l \in Layers : dev.kv[l] \cap 0..(Done(l) - 1) \subseteq m.kv[l]
<1>1. InLayer /\ Alive /\ decode.residDevice
  BY DEF AtDeviceBlock, InLayer, Alive
<1>2. /\ FlagsInv /\ RowsInv /\ Covered(cfg) /\ kv.rows \in [Layers -> Seq(Int)] /\ dev.kv \in [Layers -> SUBSET Int]
      /\ run.past + run.batch <= cfg.ctx /\ run.past \in Nat /\ run.batch \in Nat /\ cfg.ctx \in Nat /\ cfg.maxSeq \in Nat
      /\ cfg.sliding = {}
  BY <1>1, InLayerFacts, Numbers, Windows DEF Settled
<1>3. MayReside(cfg)
  BY <1>1, <1>2 DEF FlagsInv
<1>4. ~Fault("append") /\ OnGPU = Layers /\ cfg.ctx <= cfg.maxSeq
  BY <1>1, <1>3, ResidentFacts
<1>5. ASSUME NEW l \in Layers
      PROVE  Len(kv.rows[l]) <= cfg.maxSeq /\ Len(kv.rows[l]) = Done(l) /\ \A i \in 1..Len(kv.rows[l]) : kv.rows[l][i] = i - 1
  <2>1. RowsOf(l) /\ Done(l) \in Nat /\ Done(l) <= run.past + run.batch
    BY <1>2 DEF RowsInv, Done, Passed
  <2>2. Len(kv.rows[l]) = Done(l)
    BY <1>2, <2>1 DEF RowsOf
  <2>3. \A i \in 1..Len(kv.rows[l]) : kv.rows[l][i] = Done(l) - Len(kv.rows[l]) + i - 1
    BY <2>1 DEF RowsOf
  <2> QED BY <1>2, <1>4, <2>1, <2>2, <2>3
<1> DEFINE rewritten(j) ==
        [l \in Layers |->
          IF l \in OnGPU /\ l < j
          THEN (dev.kv[l] \ (0..Len(kv.rows[l])-1)) \cup
               {i \in 0..Len(kv.rows[l])-1 : kv.rows[l][i + 1] = i}
          ELSE dev.kv[l]]
<1>6. PICK j \in 0..NumLayers :
         /\ j < NumLayers => j \in OnGPU /\ (Fault("append") \/ ~(Len(kv.rows[j]) <= cfg.maxSeq))
         /\ m = [kv |-> rewritten(j), stale |-> j < NumLayers]
  BY Phi3Ops DEF phi3!tryRecoverGPUKV
<1>7. j = NumLayers
  <2>1. j < NumLayers => j \in Layers
    BY <1>6 DEF OnGPU
  <2>2. ~(j < NumLayers)
    BY <1>4, <1>5, <1>6, <2>1
  <2> QED BY <1>6, <2>2, SizesAssumption
<1>8. m.stale = FALSE
  <2>1. (j < NumLayers) = FALSE
    BY <1>7, SizesAssumption
  <2> HIDE DEF rewritten
  <2> QED BY <1>6, <2>1
<1>9. ASSUME NEW l \in Layers
      PROVE  m.kv[l] \in SUBSET Int /\ dev.kv[l] \cap 0..(Done(l) - 1) \subseteq m.kv[l]
  <2>1. m.kv[l] = (dev.kv[l] \ (0..Len(kv.rows[l])-1)) \cup {i \in 0..Len(kv.rows[l])-1 : kv.rows[l][i + 1] = i}
    <3>1. l < j /\ l \in OnGPU
      BY <1>4, <1>7, SizesAssumption DEF Layers
    <3> QED BY <1>6, <3>1
  <2>2. \A i \in 0..Len(kv.rows[l])-1 : kv.rows[l][i + 1] = i
    <3>1. Len(kv.rows[l]) \in Nat
      BY <1>2
    <3> QED BY <1>5, <3>1
  <2> QED BY <1>2, <1>5, <2>1, <2>2
<1>10. m.kv \in [Layers -> SUBSET Int]
  BY <1>6, <1>9
<1> QED BY <1>8, <1>9, <1>10

\* phi3 keeps the invariant.
LEMMA Phi3Keeps ==
  ASSUME Inv, cfg.arch = "phi3", phi3!Next
  PROVE  Inv'
<1>1. cfg' = cfg /\ cfg.arch # "deepseek2" /\ cfg.sliding = {} /\ decode \in Flags /\ Cleared(AllCleared) /\ Deaf
  BY Windows, ClearedFlags DEF phi3!Next, Inv, TypeOK, Deaf
<1>2. CASE SharedSteps(AllCleared)
  BY <1>1, <1>2, SharedKeeps
<1>3. CASE phi3!forwardToken
  <2>1. AtToken /\ StartsLayers /\ kv' = kv /\ Uploads(decode.residency /\ ~decode.stale)
    BY <1>3, Phi3Ops DEF phi3!forwardToken, phi3!uploadHidden
  <2> QED BY <1>1, <2>1, TokenKeeps
<1>4. CASE phi3!forwardBlockDevice
  <2>1. DeviceLayer
    BY <1>4, Phi3Ops DEF phi3!forwardBlockDevice
  <2> QED BY <1>1, <2>1, DeviceBlockKeeps
<1>5. CASE phi3!recoverHiddenFromDevice
  <2>1. AtDeviceBlock /\ ~decode.hollow /\ kv' = kv
    BY <1>5, Phi3Ops DEF phi3!recoverHiddenFromDevice
  <2>2. ASSUME NEW m \in phi3!tryRecoverGPUKV, dev.active,
               dev' = [dev EXCEPT !.active = FALSE, !.kv = m.kv],
               decode' = [decode EXCEPT !.stale = m.stale, !.residDevice = FALSE, !.residency = FALSE],
               \/ run' = [run EXCEPT !.pc = "host", !.x = dev.resid]
               \/ Fault("download") /\ Fails
        PROVE  Inv'
    <3>1. InLayer /\ Alive /\ run.pc = "block" /\ decode.residDevice
      BY <2>1 DEF AtDeviceBlock, InLayer, Alive
    <3>2. /\ m.kv \in [Layers -> SUBSET Int] /\ m.stale = FALSE
          /\ \A l \in Layers : dev.kv[l] \cap 0..(Done(l) - 1) \subseteq m.kv[l]
      BY <1>1, <2>1, RewrittenIs
    <3>3. /\ run \in Calls /\ dev \in Machines /\ kv \in Mirrors /\ dev.resid \in Vectors /\ DeviceInv /\ FlagsInv
          /\ run.past \in Nat /\ run.batch \in Nat
      BY <3>1, InLayerFacts DEF Machines
    <3>4. ~decode.stale
      BY <1>1, <3>1, <3>3 DEF FlagsInv
    <3>5. /\ decode' \in Flags /\ decode'.stale = FALSE /\ ~decode'.residDevice /\ ~decode'.residency
          /\ decode'.hollow = decode.hollow /\ dev' \in Machines /\ dev'.kv = m.kv
      BY <1>1, <3>2, <3>3, <2>2 DEF Flags, Machines
    <3>6. CASE run' = [run EXCEPT !.pc = "host", !.x = dev.resid]
      <4>1. /\ run' \in Calls /\ run'.pc = "host" /\ run'.past = run.past /\ run'.layer = run.layer /\ run'.batch = run.batch
        BY <3>3, <3>6, Atoms DEF Calls
      <4>2. InLayer' /\ \A l \in Layers : Passed(l)' = Passed(l) /\ Slack(l)' = Slack(l) /\ Done(l)' = Done(l)
        BY <3>1, <4>1 DEF InLayer, Passed, Slack, Done
      <4>3. decode.stale => decode'.stale
        BY <3>4
      <4>4. RowsInv'
        BY <1>1, <2>1, <3>1, <3>5, <4>1, <4>2, <4>3, SameRows
      <4>5. DeviceInv'
        <5>1. OnGPU' = OnGPU /\ OnGPU \subseteq Layers /\ Counts(decode.stale)
          BY <1>1, Numbers DEF OnGPU, Counts, Inv
        <5>2. ASSUME NEW l \in OnGPU, Done(l)' <= cfg.maxSeq PROVE 0..(Done(l)' - 1) \subseteq dev'.kv[l]
          <6>1. Done(l)' = Done(l) /\ l \in Layers
            BY <4>2, <5>1
          <6>2. 0..(Done(l) - 1) \subseteq dev.kv[l]
            BY <3>3, <5>1, <5>2, <6>1 DEF DeviceInv
          <6> QED BY <3>2, <3>5, <6>1, <6>2
        <5> QED BY <1>1, <3>5, <5>1, <5>2 DEF DeviceInv
      <4> QED BY <1>1, <2>1, <2>2, <3>3, <3>5, <3>6, <4>4, <4>5, BroughtBack
    <3>7. CASE Fault("download") /\ Fails
      <4>1. run' \in Calls /\ run'.pc = "failed" /\ cfg.faults # {}
        BY <3>3, <3>7, Atoms DEF Fails, Calls, Fault
      <4>2. TypeOK'
        BY <2>1, <3>3, <3>5, <4>1 DEF TypeOK
      <4> QED BY <1>1, <3>5, <4>1, <4>2, FailureKeeps
    <3> QED BY <2>2, <3>6, <3>7
  <2>3. CASE Recovers(decode)
    BY <1>1, <2>1, <2>3, DeviceBlockKeeps
  <2>4. \/ Recovers(decode)
        \/ \E m \in phi3!tryRecoverGPUKV :
             /\ dev.active
             /\ dev' = [dev EXCEPT !.active = FALSE, !.kv = m.kv]
             /\ decode' = [decode EXCEPT !.stale = m.stale, !.residDevice = FALSE, !.residency = FALSE]
             /\ \/ run' = [run EXCEPT !.pc = "host", !.x = dev.resid]
                \/ Fault("download") /\ Fails
    BY <1>5, Phi3Ops DEF phi3!recoverHiddenFromDevice
  <2> QED BY <2>2, <2>3, <2>4
<1>6. CASE phi3!forwardBlock
  <2>1. /\ AtHostBlock
        /\ \E m \in Mirror(run.layer, ~decode.stale, TRUE) :
             \E attended \in Attends(m.kv, run.layer, TRUE, HostReads(Appended(kv.rows, run.layer, run.x), run.layer)) :
               HostLayer(Appended(kv.rows, run.layer, run.x), m, attended, FALSE)
    BY <1>6, Phi3Ops DEF phi3!forwardBlock, phi3!attentionScoresInto
  <2>2. (~decode.stale) \in BOOLEAN /\ (~(~decode.stale) => decode.stale)
    BY <1>1 DEF Flags
  <2> QED BY <1>1, <2>1, <2>2, DeafLayerKeeps
<1>7. CASE phi3!forwardBatch
  <2>1. StartsChunk(kv, decode, FALSE)
    BY <1>7, Phi3Ops DEF phi3!forwardBatch
  <2> QED BY <1>1, <2>1, ChunkKeeps
<1>8. CASE phi3!forwardBlockBatch
  <2> DEFINE rows == Appended(kv.rows, run.layer, run.x)
  <2>1. /\ run.pc = "batch"
        /\ \/ /\ run.layer \in OnGPU /\ HasSlots
              /\ \E attended \in Attends(Written(run.layer, run.x), run.layer, TRUE, HostReads(rows, run.layer)) :
                   BatchLayer(rows, [[kv |-> dev.kv, stale |-> decode.stale] EXCEPT !.kv = Written(run.layer, run.x)], attended)
           \/ /\ run.layer \notin OnGPU \/ ~HasSlots \/ Fault("append")
              /\ BatchLayer(rows, [kv |-> dev.kv, stale |-> decode.stale], HostReads(rows, run.layer))
    BY <1>8, Phi3Ops DEF phi3!forwardBlockBatch, phi3!attentionBatchCausalInto
  <2> QED BY <1>1, <2>1, DeafBatchKeeps
<1>9. CASE phi3!logitsFinish
  <2> DEFINE asked == decode.residDevice /\ decode.logitsOnGPU
  <2>1. \/ LogitsOnDevice(FALSE)
        \/ AtLogits /\ FromHost([decode EXCEPT !.logitsOnGPU = decode.logitsOnGPU /\ ~asked], decode.logitsOnGPU /\ ~asked)
    BY <1>9, Phi3Ops DEF phi3!logitsFinish
  <2>2. asked \in BOOLEAN /\ (decode.logitsOnGPU /\ ~asked) \in BOOLEAN
    BY <1>1 DEF Flags
  <2> HIDE DEF asked
  <2> QED BY <1>1, <2>1, <2>2, LogitsOnDeviceKeeps, LogitsKeeps
<1>10. CASE phi3!logitsFromLast
  <2>1. BatchLogits(decode.logitsOnGPU) /\ decode.logitsOnGPU \in BOOLEAN
    BY <1>1, <1>10, Phi3Ops DEF phi3!logitsFromLast, Flags
  <2> QED BY <1>1, <2>1, BatchLogitsKeeps
<1>11. \/ SharedSteps(AllCleared)
       \/ phi3!forwardToken \/ phi3!forwardBlockDevice \/ phi3!recoverHiddenFromDevice \/ phi3!forwardBlock
       \/ phi3!forwardBatch \/ phi3!forwardBlockBatch \/ phi3!logitsFinish \/ phi3!logitsFromLast
  BY Phi3Ops DEF phi3!Next, phi3!Forward, phi3!Embed, phi3!ResetCache, SharedSteps
<1> QED BY <1>2, <1>3, <1>4, <1>5, <1>6, <1>7, <1>8, <1>9, <1>10, <1>11

-----------------------------------------------------------------------------
(* phi2 *)

\* The operators of the instance are those of ForwardState.
LEMMA Phi2Ops ==
  /\ phi2!OnGPU = OnGPU
  /\ \A f : phi2!Fault(f) <=> Fault(f)
  /\ \A c : phi2!AllOffloaded(c) <=> AllOffloaded(c)
  /\ \A c, kvMaxSeq, serial, residency, logits : phi2!Loaded(c, kvMaxSeq, serial, residency, logits) = Loaded(c, kvMaxSeq, serial, residency, logits)
  /\ \A rows, l : phi2!RoomFor(rows, l) <=> RoomFor(rows, l)
  /\ \A rows, l, h : phi2!Appended(rows, l, h) = Appended(rows, l, h)
  /\ phi2!HasSlots <=> HasSlots
  /\ \A l, h : phi2!Written(l, h) = Written(l, h)
  /\ \A l, called, noted : phi2!Mirror(l, called, noted) = Mirror(l, called, noted)
  /\ \A rows, l : phi2!HostReads(rows, l) = HostReads(rows, l)
  /\ \A dkv, l, asked, onHost : phi2!Attends(dkv, l, asked, onHost) = Attends(dkv, l, asked, onHost)
  /\ \A n, batched : phi2!Starts(n, batched) <=> Starts(n, batched)
  /\ \A n, d : phi2!StartsEmbed(n, d) <=> StartsEmbed(n, d)
  /\ \A d : phi2!Resets(d) <=> Resets(d)
  /\ \A d : phi2!ResetsAndFails(d) <=> ResetsAndFails(d)
  /\ phi2!AllCleared = AllCleared
  /\ phi2!AtToken <=> AtToken
  /\ phi2!StartsLayers <=> StartsLayers
  /\ \A wanted : phi2!Uploads(wanted) <=> Uploads(wanted)
  /\ phi2!AtDeviceBlock <=> AtDeviceBlock
  /\ phi2!DeviceLayer <=> DeviceLayer
  /\ \A d : phi2!Recovers(d) <=> Recovers(d)
  /\ phi2!AtHostBlock <=> AtHostBlock
  /\ \A rows, m, attended, fused : phi2!HostLayer(rows, m, attended, fused) <=> HostLayer(rows, m, attended, fused)
  /\ phi2!HostFails <=> HostFails
  /\ \A k, d, synced : phi2!StartsChunk(k, d, synced) <=> StartsChunk(k, d, synced)
  /\ \A rows, m, attended : phi2!BatchLayer(rows, m, attended) <=> BatchLayer(rows, m, attended)
  /\ \A asked : phi2!BatchLogits(asked) <=> BatchLogits(asked)
  /\ \A d, asked : phi2!FromHost(d, asked) <=> FromHost(d, asked)
  /\ phi2!AtLogits <=> AtLogits
  /\ phi2!EmbedEndsOnHost <=> EmbedEndsOnHost
  /\ \A kept : phi2!LogitsOnDevice(kept) <=> LogitsOnDevice(kept)
  /\ \A asked : phi2!NoLogitsOnDevice(asked) <=> NoLogitsOnDevice(asked)
BY DEF phi2!Layers, phi2!Hollow, phi2!Junk, phi2!Hidden, phi2!NoHidden, phi2!OnGPU, phi2!Fault,
       phi2!AllOffloaded, phi2!CapMaxSeq, phi2!Loaded, phi2!Pos, phi2!FirstOf, phi2!WindowOf, phi2!NewKV,
       phi2!RoomFor, phi2!Appended, phi2!Bumped, phi2!Advanced, phi2!NewDevice, phi2!HasSlots, phi2!Written,
       phi2!Mirror, phi2!DeviceReads, phi2!HostReads, phi2!Attends, phi2!Apply, phi2!Fails, phi2!Returns,
       phi2!Starts, phi2!StartsEmbed, phi2!Resets, phi2!ResetsAndFails, phi2!AllCleared, phi2!AtToken,
       phi2!StartsLayers, phi2!HiddenUpload, phi2!Uploads, phi2!AfterLayer, phi2!AtDeviceBlock,
       phi2!DeviceLayer, phi2!Recovers, phi2!AtHostBlock, phi2!HostLayer, phi2!HostFails, phi2!ChunkSize,
       phi2!StartsChunk, phi2!AfterBatchLayer, phi2!BatchLayer, phi2!HeadOnDevice, phi2!BatchLogits,
       phi2!FromHost, phi2!AtLogits, phi2!EmbedEndsOnHost, phi2!LogitsOnDevice, phi2!NoLogitsOnDevice, Layers,
       Hollow, Junk, Hidden, NoHidden, OnGPU, Fault, AllOffloaded, CapMaxSeq, Loaded, Pos, FirstOf, WindowOf,
       NewKV, RoomFor, Appended, Bumped, Advanced, NewDevice, HasSlots, Written, Mirror, DeviceReads,
       HostReads, Attends, Apply, Fails, Returns, Starts, StartsEmbed, Resets, ResetsAndFails, AllCleared,
       AtToken, StartsLayers, HiddenUpload, Uploads, AfterLayer, AtDeviceBlock, DeviceLayer, Recovers,
       AtHostBlock, HostLayer, HostFails, ChunkSize, StartsChunk, AfterBatchLayer, BatchLayer, HeadOnDevice,
       BatchLogits, FromHost, AtLogits, EmbedEndsOnHost, LogitsOnDevice, NoLogitsOnDevice

\* phi2 keeps the invariant.
LEMMA Phi2Keeps ==
  ASSUME Inv, cfg.arch = "phi2", phi2!Next
  PROVE  Inv'
<1> DEFINE d == [AllCleared EXCEPT !.logitsOnGPU = AllOffloaded(cfg) \/ decode.residency]
<1>1. cfg' = cfg /\ cfg.arch # "deepseek2" /\ cfg.sliding = {} /\ decode \in Flags /\ Cleared(d) /\ Deaf
  <2>1. (AllOffloaded(cfg) \/ decode.residency) \in BOOLEAN
    OBVIOUS
  <2>2. Cleared(d)
    BY <2>1, ClearedFlags
  <2> QED BY <2>2, Windows DEF phi2!Next, Inv, TypeOK, Deaf
<1>2. phi2!cleared = d
  BY Phi2Ops DEF phi2!cleared
<1> HIDE DEF d
<1>3. CASE SharedSteps(d)
  BY <1>1, <1>3, SharedKeeps
<1>4. CASE phi2!forwardToken
  <2>1. /\ AtToken /\ StartsLayers /\ kv' = kv
        /\ \/ ~run.embed /\ Uploads(decode.residency /\ ~decode.stale)
           \/ run.embed /\ dev' = dev /\ decode' = decode
    BY <1>4, Phi2Ops DEF phi2!forwardToken, phi2!uploadHidden
  <2> QED BY <1>1, <2>1, TokenKeeps
<1>5. CASE phi2!forwardBlockDevice \/ phi2!recoverHiddenFromDevice
  <2>1. \/ DeviceLayer
        \/ AtDeviceBlock /\ ~decode.hollow /\ kv' = kv /\ Recovers(decode)
    BY <1>5, Phi2Ops DEF phi2!forwardBlockDevice, phi2!recoverHiddenFromDevice
  <2> QED BY <1>1, <2>1, DeviceBlockKeeps
<1>6. CASE phi2!deviceBlockLost
  <2>1. /\ AtDeviceBlock /\ ResetsAndFails(d)
        /\ ~dev.active \/ ~HasSlots \/ Fault("qkv") \/ Fault("append") \/ Fault("attention") \/ Fault("attnffn")
    BY <1>2, <1>6, Phi2Ops DEF phi2!deviceBlockLost
  <2>2. Alive /\ InLayer /\ decode.residDevice
    BY <2>1 DEF AtDeviceBlock, Alive, InLayer
  <2>3. MayReside(cfg)
    BY <2>2 DEF Inv, FlagsInv
  <2>4. HasSlots
    BY <1>1, <2>2, <2>3, ResidentFacts
  <2>5. ~dev.active => cfg.faults # {}
    BY <2>2, ResidentFails
  <2>6. cfg.faults # {}
    BY <2>1, <2>4, <2>5 DEF Fault
  <2> QED BY <1>1, <2>1, <2>6, LostKeeps
<1>7. CASE phi2!forwardBlock
  <2>1. /\ AtHostBlock
        /\ \E m \in Mirror(run.layer, TRUE, FALSE) :
             \E attended \in Attends(m.kv, run.layer, TRUE, HostReads(Appended(kv.rows, run.layer, run.x), run.layer)) :
               HostLayer(Appended(kv.rows, run.layer, run.x), m, attended, FALSE)
    BY <1>7, Phi2Ops DEF phi2!forwardBlock, phi2!attentionScoresInto
  <2> QED BY <1>1, <2>1, DeafLayerKeeps
<1>8. CASE phi2!forwardBatch
  <2>1. StartsChunk(kv, decode, FALSE) \/ BatchLogits(decode.logitsOnGPU)
    BY <1>8, Phi2Ops DEF phi2!forwardBatch
  <2>2. decode.logitsOnGPU \in BOOLEAN
    BY <1>1 DEF Flags
  <2> QED BY <1>1, <2>1, <2>2, ChunkKeeps, BatchLogitsKeeps
<1>9. CASE phi2!forwardBlockBatch
  <2> DEFINE rows == Appended(kv.rows, run.layer, run.x)
  <2>1. /\ run.pc = "batch"
        /\ \/ /\ run.layer \in OnGPU /\ HasSlots
              /\ \E attended \in Attends(Written(run.layer, run.x), run.layer, TRUE, HostReads(rows, run.layer)) :
                   BatchLayer(rows, [[kv |-> dev.kv, stale |-> decode.stale] EXCEPT !.kv = Written(run.layer, run.x)], attended)
           \/ /\ run.layer \notin OnGPU \/ ~HasSlots \/ Fault("append")
              /\ BatchLayer(rows, [kv |-> dev.kv, stale |-> decode.stale], HostReads(rows, run.layer))
    BY <1>9, Phi2Ops DEF phi2!forwardBlockBatch, phi2!attentionBatchCausalInto
  <2> QED BY <1>1, <2>1, DeafBatchKeeps
<1>10. CASE phi2!logitsFinish
  <2> DEFINE asked == decode.residDevice
  <2>1. \/ LogitsOnDevice(FALSE)
        \/ AtLogits /\ FromHost([decode EXCEPT !.logitsOnGPU = decode.logitsOnGPU /\ ~asked], decode.logitsOnGPU /\ ~asked)
    BY <1>10, Phi2Ops DEF phi2!logitsFinish
  <2>2. asked \in BOOLEAN /\ (decode.logitsOnGPU /\ ~asked) \in BOOLEAN
    BY <1>1 DEF Flags
  <2> HIDE DEF asked
  <2> QED BY <1>1, <2>1, <2>2, LogitsOnDeviceKeeps, LogitsKeeps
<1>11. CASE phi2!EmbedEndsOnHost
  <2>1. EmbedEndsOnHost
    BY <1>11, Phi2Ops
  <2> QED BY <1>1, <2>1, EmbedEndsKeeps
<1>12. \/ SharedSteps(d)
       \/ phi2!forwardToken \/ phi2!forwardBlockDevice \/ phi2!deviceBlockLost \/ phi2!recoverHiddenFromDevice
       \/ phi2!forwardBlock \/ phi2!forwardBatch \/ phi2!forwardBlockBatch \/ phi2!logitsFinish \/ phi2!EmbedEndsOnHost
  BY <1>2, Phi2Ops DEF phi2!Next, phi2!Forward, phi2!Embed, phi2!ResetCache, phi2!projectQKV, SharedSteps
<1> QED BY <1>3, <1>4, <1>5, <1>6, <1>7, <1>8, <1>9, <1>10, <1>11, <1>12

-----------------------------------------------------------------------------
(* deepseek *)

\* The operators of the instance are those of ForwardState.
LEMMA DeepseekOps ==
  /\ deepseek!OnGPU = OnGPU
  /\ \A f : deepseek!Fault(f) <=> Fault(f)
  /\ \A c : deepseek!AllOffloaded(c) <=> AllOffloaded(c)
  /\ \A c, kvMaxSeq, serial, residency, logits : deepseek!Loaded(c, kvMaxSeq, serial, residency, logits) = Loaded(c, kvMaxSeq, serial, residency, logits)
  /\ \A rows, l : deepseek!RoomFor(rows, l) <=> RoomFor(rows, l)
  /\ \A rows, l, h : deepseek!Appended(rows, l, h) = Appended(rows, l, h)
  /\ deepseek!HasSlots <=> HasSlots
  /\ \A l, h : deepseek!Written(l, h) = Written(l, h)
  /\ \A l, called, noted : deepseek!Mirror(l, called, noted) = Mirror(l, called, noted)
  /\ \A rows, l : deepseek!HostReads(rows, l) = HostReads(rows, l)
  /\ \A dkv, l, asked, onHost : deepseek!Attends(dkv, l, asked, onHost) = Attends(dkv, l, asked, onHost)
  /\ \A n, batched : deepseek!Starts(n, batched) <=> Starts(n, batched)
  /\ \A n, d : deepseek!StartsEmbed(n, d) <=> StartsEmbed(n, d)
  /\ \A d : deepseek!Resets(d) <=> Resets(d)
  /\ deepseek!AllCleared = AllCleared
  /\ deepseek!AtToken <=> AtToken
  /\ deepseek!StartsLayers <=> StartsLayers
  /\ \A wanted : deepseek!Uploads(wanted) <=> Uploads(wanted)
  /\ deepseek!AtDeviceBlock <=> AtDeviceBlock
  /\ deepseek!QKVMayFail <=> QKVMayFail
  /\ deepseek!DeviceLayer <=> DeviceLayer
  /\ \A d : deepseek!HollowLayerLost(d) <=> HollowLayerLost(d)
  /\ \A d : deepseek!Recovers(d) <=> Recovers(d)
  /\ deepseek!AtHostBlock <=> AtHostBlock
  /\ \A rows, m, attended, fused : deepseek!HostLayer(rows, m, attended, fused) <=> HostLayer(rows, m, attended, fused)
  /\ deepseek!HostFails <=> HostFails
  /\ deepseek!Experts = Experts
  /\ deepseek!NoSum = NoSum
  /\ \A sum, n : deepseek!WithExperts(sum, n) = WithExperts(sum, n)
  /\ \A sum : deepseek!WithShared(sum) = WithShared(sum)
  /\ \A sum : deepseek!Complete(sum) = Complete(sum)
  /\ \A k, d, synced : deepseek!StartsChunk(k, d, synced) <=> StartsChunk(k, d, synced)
  /\ \A rows, m, attended : deepseek!BatchLayer(rows, m, attended) <=> BatchLayer(rows, m, attended)
  /\ \A asked : deepseek!BatchLogits(asked) <=> BatchLogits(asked)
  /\ \A d, asked : deepseek!FromHost(d, asked) <=> FromHost(d, asked)
  /\ deepseek!AtLogits <=> AtLogits
  /\ deepseek!EmbedEnds <=> EmbedEnds
  /\ \A kept : deepseek!LogitsOnDevice(kept) <=> LogitsOnDevice(kept)
  /\ \A asked : deepseek!NoLogitsOnDevice(asked) <=> NoLogitsOnDevice(asked)
  /\ \A sum : deepseek!AllExperts(sum) = AllExperts(sum)
<1>1. /\ deepseek!OnGPU = OnGPU
      /\ \A f : deepseek!Fault(f) <=> Fault(f)
      /\ \A c : deepseek!AllOffloaded(c) <=> AllOffloaded(c)
      /\ \A c, kvMaxSeq, serial, residency, logits : deepseek!Loaded(c, kvMaxSeq, serial, residency, logits) = Loaded(c, kvMaxSeq, serial, residency, logits)
      /\ \A rows, l : deepseek!RoomFor(rows, l) <=> RoomFor(rows, l)
      /\ \A rows, l, h : deepseek!Appended(rows, l, h) = Appended(rows, l, h)
      /\ deepseek!HasSlots <=> HasSlots
      /\ \A l, h : deepseek!Written(l, h) = Written(l, h)
      /\ \A l, called, noted : deepseek!Mirror(l, called, noted) = Mirror(l, called, noted)
      /\ \A rows, l : deepseek!HostReads(rows, l) = HostReads(rows, l)
      /\ \A dkv, l, asked, onHost : deepseek!Attends(dkv, l, asked, onHost) = Attends(dkv, l, asked, onHost)
      /\ \A n, batched : deepseek!Starts(n, batched) <=> Starts(n, batched)
      /\ \A n, d : deepseek!StartsEmbed(n, d) <=> StartsEmbed(n, d)
      /\ \A d : deepseek!Resets(d) <=> Resets(d)
      /\ deepseek!AllCleared = AllCleared
      /\ deepseek!AtToken <=> AtToken
      /\ deepseek!StartsLayers <=> StartsLayers
      /\ \A wanted : deepseek!Uploads(wanted) <=> Uploads(wanted)
      /\ deepseek!AtDeviceBlock <=> AtDeviceBlock
      /\ deepseek!QKVMayFail <=> QKVMayFail
      /\ deepseek!DeviceLayer <=> DeviceLayer
      /\ \A d : deepseek!HollowLayerLost(d) <=> HollowLayerLost(d)
      /\ \A d : deepseek!Recovers(d) <=> Recovers(d)
      /\ deepseek!AtHostBlock <=> AtHostBlock
      /\ \A rows, m, attended, fused : deepseek!HostLayer(rows, m, attended, fused) <=> HostLayer(rows, m, attended, fused)
      /\ deepseek!HostFails <=> HostFails
      /\ deepseek!Experts = Experts
      /\ deepseek!NoSum = NoSum
      /\ \A sum, n : deepseek!WithExperts(sum, n) = WithExperts(sum, n)
      /\ \A sum : deepseek!WithShared(sum) = WithShared(sum)
      /\ \A sum : deepseek!Complete(sum) = Complete(sum)
      /\ \A k, d, synced : deepseek!StartsChunk(k, d, synced) <=> StartsChunk(k, d, synced)
      /\ \A rows, m, attended : deepseek!BatchLayer(rows, m, attended) <=> BatchLayer(rows, m, attended)
      /\ \A asked : deepseek!BatchLogits(asked) <=> BatchLogits(asked)
      /\ \A d, asked : deepseek!FromHost(d, asked) <=> FromHost(d, asked)
      /\ deepseek!AtLogits <=> AtLogits
      /\ deepseek!EmbedEnds <=> EmbedEnds
      /\ \A kept : deepseek!LogitsOnDevice(kept) <=> LogitsOnDevice(kept)
      /\ \A asked : deepseek!NoLogitsOnDevice(asked) <=> NoLogitsOnDevice(asked)
  BY DEF deepseek!Layers, deepseek!Hollow, deepseek!Junk, deepseek!Hidden, deepseek!NoHidden, deepseek!OnGPU,
         deepseek!Fault, deepseek!AllOffloaded, deepseek!CapMaxSeq, deepseek!Loaded, deepseek!Pos,
         deepseek!FirstOf, deepseek!WindowOf, deepseek!NewKV, deepseek!RoomFor, deepseek!Appended,
         deepseek!Bumped, deepseek!Advanced, deepseek!NewDevice, deepseek!HasSlots, deepseek!Written,
         deepseek!Mirror, deepseek!DeviceReads, deepseek!HostReads, deepseek!Attends, deepseek!Apply,
         deepseek!Fails, deepseek!Returns, deepseek!Starts, deepseek!StartsEmbed, deepseek!Resets,
         deepseek!ResetsAndFails, deepseek!AllCleared, deepseek!AtToken, deepseek!StartsLayers,
         deepseek!HiddenUpload, deepseek!Uploads, deepseek!AfterLayer, deepseek!AtDeviceBlock,
         deepseek!QKVMayFail, deepseek!DeviceLayer, deepseek!HollowLayerLost, deepseek!Recovers,
         deepseek!AtHostBlock, deepseek!HostLayer, deepseek!HostFails, deepseek!Experts, deepseek!SharedPart,
         deepseek!NoSum, deepseek!WithExperts, deepseek!AllExperts, deepseek!WithShared, deepseek!Complete,
         deepseek!ChunkSize, deepseek!StartsChunk, deepseek!AfterBatchLayer, deepseek!BatchLayer,
         deepseek!HeadOnDevice, deepseek!BatchLogits, deepseek!FromHost, deepseek!AtLogits,
         deepseek!EmbedEnds, deepseek!LogitsOnDevice, deepseek!NoLogitsOnDevice, Layers, Hollow, Junk, Hidden,
         NoHidden, OnGPU, Fault, AllOffloaded, CapMaxSeq, Loaded, Pos, FirstOf, WindowOf, NewKV, RoomFor,
         Appended, Bumped, Advanced, NewDevice, HasSlots, Written, Mirror, DeviceReads, HostReads, Attends,
         Apply, Fails, Returns, Starts, StartsEmbed, Resets, ResetsAndFails, AllCleared, AtToken,
         StartsLayers, HiddenUpload, Uploads, AfterLayer, AtDeviceBlock, QKVMayFail, DeviceLayer,
         HollowLayerLost, Recovers, AtHostBlock, HostLayer, HostFails, Experts, SharedPart, NoSum,
         WithExperts, AllExperts, WithShared, Complete, ChunkSize, StartsChunk, AfterBatchLayer, BatchLayer,
         HeadOnDevice, BatchLogits, FromHost, AtLogits, EmbedEnds, LogitsOnDevice, NoLogitsOnDevice
<1>2. \A sum : deepseek!AllExperts(sum) = AllExperts(sum)
  BY <1>1 DEF deepseek!AllExperts, AllExperts, deepseek!Cardinality, Cardinality
<1> QED BY <1>1, <1>2

\* All experts are added once, wherever they run.
LEMMA DeepseekExperts ==
  ASSUME NEW l, NEW sum \in deepseek!ffnMoE(l)
  PROVE  Complete(sum)
<1>1. Cardinality(Experts) = 2
  BY TwoExperts
<1>2. AllExperts(NoSum) = [e \in 1..3 |-> IF e = 3 THEN 0 ELSE 1]
  BY <1>1 DEF AllExperts, WithExperts, NoSum, Experts, SharedPart
<1>3. sum = WithShared(AllExperts(NoSum))
  BY DeepseekOps DEF deepseek!ffnMoE, deepseek!sharedExpert, deepseek!moeExpertsGPU
<1>4. sum = [e \in 1..3 |-> 1]
  <2>1. sum = [AllExperts(NoSum) EXCEPT ![3] = 1]
    BY <1>2, <1>3 DEF WithShared, SharedPart
  <2> QED BY <1>2, <2>1
<1> QED BY <1>4 DEF Complete

\* deepseek keeps the invariant.
LEMMA DeepseekKeeps ==
  ASSUME Inv, cfg.arch = "deepseek", deepseek!Next
  PROVE  Inv'
<1> DEFINE d == [AllCleared EXCEPT !.logitsOnGPU = FALSE]
<1>1. cfg' = cfg /\ cfg.arch # "deepseek2" /\ cfg.sliding = {} /\ decode \in Flags /\ Cleared(d) /\ Deaf
  <2>1. Cleared(d)
    BY ClearedFlags
  <2> QED BY <2>1, Windows DEF deepseek!Next, Inv, TypeOK, Deaf
<1>2. deepseek!cleared = d
  BY DeepseekOps DEF deepseek!cleared
<1> HIDE DEF d
<1>3. CASE SharedSteps(d)
  BY <1>1, <1>3, SharedKeeps
<1>4. CASE deepseek!forwardToken
  <2>1. AtToken /\ StartsLayers /\ kv' = kv /\ Uploads(decode.residency /\ ~decode.stale)
    BY <1>4, DeepseekOps DEF deepseek!forwardToken, deepseek!uploadHidden
  <2> QED BY <1>1, <2>1, TokenKeeps
<1>5. CASE deepseek!forwardBlockDevice \/ deepseek!forwardBlockDeviceMoE \/ deepseek!recoverHiddenFromDevice
  <2>1. \/ DeviceLayer
        \/ AtDeviceBlock /\ ~decode.hollow /\ kv' = kv /\ Recovers(decode)
    BY <1>5, DeepseekOps DEF deepseek!forwardBlockDevice, deepseek!forwardBlockDeviceMoE, deepseek!recoverHiddenFromDevice
  <2> QED BY <1>1, <2>1, DeviceBlockKeeps
<1>6. CASE deepseek!forwardBlock
  <2> DEFINE rows == Appended(kv.rows, run.layer, run.x)
             ffn == IF cfg.moe THEN {deepseek!Complete(sum) : sum \in deepseek!ffnMoE(run.layer)} ELSE {TRUE}
  <2>0. AtHostBlock
    BY <1>6, DeepseekOps DEF deepseek!forwardBlock
  <2>1. \E right \in ffn, m \in Mirror(run.layer, TRUE, FALSE) :
          \E attended \in Attends(m.kv, run.layer, TRUE, HostReads(rows, run.layer)) :
            HostLayer(rows, m, attended /\ right, FALSE)
    <3>1. PICK right \in ffn, m \in deepseek!Mirror(run.layer, TRUE, FALSE) :
            \E attended \in deepseek!attentionScoresInto(m.kv, run.layer, deepseek!HostReads(deepseek!Appended(kv.rows, run.layer, run.x), run.layer)) :
              deepseek!HostLayer(deepseek!Appended(kv.rows, run.layer, run.x), m, attended /\ right, FALSE)
      BY <1>6 DEF deepseek!forwardBlock
    <3>2. m \in Mirror(run.layer, TRUE, FALSE)
      BY <3>1, DeepseekOps
    <3>3. \E attended \in Attends(m.kv, run.layer, TRUE, HostReads(rows, run.layer)) :
            HostLayer(rows, m, attended /\ right, FALSE)
      BY <3>1, DeepseekOps DEF deepseek!attentionScoresInto
    <3> HIDE DEF ffn, rows
    <3> QED BY <3>1, <3>2, <3>3
  <2>2. \A right \in ffn : right = TRUE
    <3>1. \A sum \in deepseek!ffnMoE(run.layer) : deepseek!Complete(sum) = TRUE
      BY DeepseekExperts, DeepseekOps DEF Complete
    <3> QED BY <3>1
  <2> HIDE DEF ffn
  <2>3. PICK right \in ffn, m \in Mirror(run.layer, TRUE, FALSE) :
          \E attended \in Attends(m.kv, run.layer, TRUE, HostReads(rows, run.layer)) :
            HostLayer(rows, m, attended /\ right, FALSE)
    BY <2>1
  <2>4. PICK attended \in Attends(m.kv, run.layer, TRUE, HostReads(rows, run.layer)) :
          HostLayer(rows, m, attended /\ right, FALSE)
    BY <2>3
  <2>5. attended = TRUE => (attended /\ right) = TRUE
    BY <2>2
  <2> QED BY <1>1, <2>0, <2>4, <2>5, DeafLayerKeeps
<1>7. CASE deepseek!forwardBatch
  <2>1. StartsChunk(kv, decode, FALSE) \/ BatchLogits(FALSE)
    BY <1>7, DeepseekOps DEF deepseek!forwardBatch
  <2> QED BY <1>1, <2>1, ChunkKeeps, BatchLogitsKeeps
<1>8. CASE deepseek!forwardBlockBatch
  <2> DEFINE rows == Appended(kv.rows, run.layer, run.x)
  <2>1. /\ run.pc = "batch"
        /\ \/ /\ run.layer \in OnGPU /\ HasSlots
              /\ \E attended \in Attends(Written(run.layer, run.x), run.layer, TRUE, HostReads(rows, run.layer)) :
                   BatchLayer(rows, [[kv |-> dev.kv, stale |-> decode.stale] EXCEPT !.kv = Written(run.layer, run.x)], attended)
           \/ /\ run.layer \notin OnGPU \/ ~HasSlots \/ Fault("append")
              /\ BatchLayer(rows, [kv |-> dev.kv, stale |-> decode.stale], HostReads(rows, run.layer))
    BY <1>8, DeepseekOps DEF deepseek!forwardBlockBatch, deepseek!attentionBatchCausalInto
  <2> QED BY <1>1, <2>1, DeafBatchKeeps
<1>9. CASE deepseek!logitsFromLast
  <2> DEFINE asked == decode.residDevice /\ decode.logitsOnGPU
  <2>1. \/ LogitsOnDevice(TRUE)
        \/ AtLogits /\ FromHost([decode EXCEPT !.logitsOnGPU = decode.logitsOnGPU /\ ~asked], decode.logitsOnGPU /\ ~asked)
    BY <1>9, DeepseekOps DEF deepseek!logitsFromLast
  <2>2. asked \in BOOLEAN /\ (decode.logitsOnGPU /\ ~asked) \in BOOLEAN
    BY <1>1 DEF Flags
  <2> HIDE DEF asked
  <2> QED BY <1>1, <2>1, <2>2, LogitsOnDeviceKeeps, LogitsKeeps
<1>10. \/ SharedSteps(d)
       \/ deepseek!forwardToken \/ deepseek!forwardBlockDevice \/ deepseek!forwardBlockDeviceMoE
       \/ deepseek!recoverHiddenFromDevice \/ deepseek!forwardBlock \/ deepseek!forwardBatch
       \/ deepseek!forwardBlockBatch \/ deepseek!logitsFromLast
  BY <1>2, DeepseekOps DEF deepseek!Next, deepseek!Forward, deepseek!Embed, deepseek!ResetCache, deepseek!matmulInto, SharedSteps
<1> QED BY <1>3, <1>4, <1>5, <1>6, <1>7, <1>8, <1>9, <1>10

-----------------------------------------------------------------------------
(* mistral *)

\* The operators of the instance are those of ForwardState.
LEMMA MistralOps ==
  /\ mistral!OnGPU = OnGPU
  /\ \A f : mistral!Fault(f) <=> Fault(f)
  /\ \A c : mistral!AllOffloaded(c) <=> AllOffloaded(c)
  /\ \A c, kvMaxSeq, serial, residency, logits : mistral!Loaded(c, kvMaxSeq, serial, residency, logits) = Loaded(c, kvMaxSeq, serial, residency, logits)
  /\ mistral!Pos = Pos
  /\ \A l, p : mistral!WindowOf(l, p) = WindowOf(l, p)
  /\ \A k, n : mistral!DropOldest(k, n) = DropOldest(k, n)
  /\ \A k, n : mistral!Overflow(k, n) = Overflow(k, n)
  /\ \A rows, l : mistral!RoomFor(rows, l) <=> RoomFor(rows, l)
  /\ \A rows, l, h : mistral!Appended(rows, l, h) = Appended(rows, l, h)
  /\ mistral!HasSlots <=> HasSlots
  /\ \A l, h : mistral!Written(l, h) = Written(l, h)
  /\ \A l, called, noted : mistral!Mirror(l, called, noted) = Mirror(l, called, noted)
  /\ \A dkv, l : mistral!DeviceReads(dkv, l) = DeviceReads(dkv, l)
  /\ \A rows, l : mistral!HostReads(rows, l) = HostReads(rows, l)
  /\ \A dkv, l, asked, onHost : mistral!Attends(dkv, l, asked, onHost) = Attends(dkv, l, asked, onHost)
  /\ \A n, batched : mistral!Starts(n, batched) <=> Starts(n, batched)
  /\ \A n, d : mistral!StartsEmbed(n, d) <=> StartsEmbed(n, d)
  /\ \A d : mistral!Resets(d) <=> Resets(d)
  /\ mistral!AllCleared = AllCleared
  /\ mistral!AtToken <=> AtToken
  /\ mistral!StartsLayers <=> StartsLayers
  /\ mistral!HiddenUpload <=> HiddenUpload
  /\ mistral!AtDeviceBlock <=> AtDeviceBlock
  /\ mistral!QKVMayFail <=> QKVMayFail
  /\ mistral!DeviceLayer <=> DeviceLayer
  /\ \A d : mistral!HollowLayerLost(d) <=> HollowLayerLost(d)
  /\ \A d : mistral!Recovers(d) <=> Recovers(d)
  /\ mistral!AtHostBlock <=> AtHostBlock
  /\ \A rows, m, attended, fused : mistral!HostLayer(rows, m, attended, fused) <=> HostLayer(rows, m, attended, fused)
  /\ mistral!HostFails <=> HostFails
  /\ mistral!Experts = Experts
  /\ mistral!NoSum = NoSum
  /\ \A sum, n : mistral!WithExperts(sum, n) = WithExperts(sum, n)
  /\ \A sum : mistral!WithShared(sum) = WithShared(sum)
  /\ \A sum : mistral!Complete(sum) = Complete(sum)
  /\ mistral!ChunkSize = ChunkSize
  /\ \A k, d, synced : mistral!StartsChunk(k, d, synced) <=> StartsChunk(k, d, synced)
  /\ mistral!ChunkFails <=> ChunkFails
  /\ \A rows, m, attended : mistral!BatchLayer(rows, m, attended) <=> BatchLayer(rows, m, attended)
  /\ \A asked : mistral!BatchLogits(asked) <=> BatchLogits(asked)
  /\ \A d, asked : mistral!FromHost(d, asked) <=> FromHost(d, asked)
  /\ mistral!AtLogits <=> AtLogits
  /\ mistral!EmbedEnds <=> EmbedEnds
  /\ \A kept : mistral!LogitsOnDevice(kept) <=> LogitsOnDevice(kept)
  /\ \A asked : mistral!NoLogitsOnDevice(asked) <=> NoLogitsOnDevice(asked)
  /\ \A sum : mistral!AllExperts(sum) = AllExperts(sum)
<1>1. /\ mistral!OnGPU = OnGPU
      /\ \A f : mistral!Fault(f) <=> Fault(f)
      /\ \A c : mistral!AllOffloaded(c) <=> AllOffloaded(c)
      /\ \A c, kvMaxSeq, serial, residency, logits : mistral!Loaded(c, kvMaxSeq, serial, residency, logits) = Loaded(c, kvMaxSeq, serial, residency, logits)
      /\ mistral!Pos = Pos
      /\ \A l, p : mistral!WindowOf(l, p) = WindowOf(l, p)
      /\ \A k, n : mistral!DropOldest(k, n) = DropOldest(k, n)
      /\ \A k, n : mistral!Overflow(k, n) = Overflow(k, n)
      /\ \A rows, l : mistral!RoomFor(rows, l) <=> RoomFor(rows, l)
      /\ \A rows, l, h : mistral!Appended(rows, l, h) = Appended(rows, l, h)
      /\ mistral!HasSlots <=> HasSlots
      /\ \A l, h : mistral!Written(l, h) = Written(l, h)
      /\ \A l, called, noted : mistral!Mirror(l, called, noted) = Mirror(l, called, noted)
      /\ \A dkv, l : mistral!DeviceReads(dkv, l) = DeviceReads(dkv, l)
      /\ \A rows, l : mistral!HostReads(rows, l) = HostReads(rows, l)
      /\ \A dkv, l, asked, onHost : mistral!Attends(dkv, l, asked, onHost) = Attends(dkv, l, asked, onHost)
      /\ \A n, batched : mistral!Starts(n, batched) <=> Starts(n, batched)
      /\ \A n, d : mistral!StartsEmbed(n, d) <=> StartsEmbed(n, d)
      /\ \A d : mistral!Resets(d) <=> Resets(d)
      /\ mistral!AllCleared = AllCleared
      /\ mistral!AtToken <=> AtToken
      /\ mistral!StartsLayers <=> StartsLayers
      /\ mistral!HiddenUpload <=> HiddenUpload
      /\ mistral!AtDeviceBlock <=> AtDeviceBlock
      /\ mistral!QKVMayFail <=> QKVMayFail
      /\ mistral!DeviceLayer <=> DeviceLayer
      /\ \A d : mistral!HollowLayerLost(d) <=> HollowLayerLost(d)
      /\ \A d : mistral!Recovers(d) <=> Recovers(d)
      /\ mistral!AtHostBlock <=> AtHostBlock
      /\ \A rows, m, attended, fused : mistral!HostLayer(rows, m, attended, fused) <=> HostLayer(rows, m, attended, fused)
      /\ mistral!HostFails <=> HostFails
      /\ mistral!Experts = Experts
      /\ mistral!NoSum = NoSum
      /\ \A sum, n : mistral!WithExperts(sum, n) = WithExperts(sum, n)
      /\ \A sum : mistral!WithShared(sum) = WithShared(sum)
      /\ \A sum : mistral!Complete(sum) = Complete(sum)
      /\ mistral!ChunkSize = ChunkSize
      /\ \A k, d, synced : mistral!StartsChunk(k, d, synced) <=> StartsChunk(k, d, synced)
      /\ mistral!ChunkFails <=> ChunkFails
      /\ \A rows, m, attended : mistral!BatchLayer(rows, m, attended) <=> BatchLayer(rows, m, attended)
      /\ \A asked : mistral!BatchLogits(asked) <=> BatchLogits(asked)
      /\ \A d, asked : mistral!FromHost(d, asked) <=> FromHost(d, asked)
      /\ mistral!AtLogits <=> AtLogits
      /\ mistral!EmbedEnds <=> EmbedEnds
      /\ \A kept : mistral!LogitsOnDevice(kept) <=> LogitsOnDevice(kept)
      /\ \A asked : mistral!NoLogitsOnDevice(asked) <=> NoLogitsOnDevice(asked)
  BY DEF mistral!Layers, mistral!Hollow, mistral!Junk, mistral!Hidden, mistral!NoHidden, mistral!OnGPU,
         mistral!Fault, mistral!AllOffloaded, mistral!CapMaxSeq, mistral!Loaded, mistral!Pos, mistral!FirstOf,
         mistral!WindowOf, mistral!NewKV, mistral!DropRows, mistral!DropOldest, mistral!TokensStored,
         mistral!Overflow, mistral!RoomFor, mistral!Appended, mistral!Bumped, mistral!Advanced,
         mistral!NewDevice, mistral!HasSlots, mistral!Written, mistral!Mirror, mistral!DeviceReads,
         mistral!HostReads, mistral!Attends, mistral!Apply, mistral!Fails, mistral!Returns, mistral!Starts,
         mistral!StartsEmbed, mistral!Resets, mistral!ResetsAndFails, mistral!AllCleared, mistral!AtToken,
         mistral!StartsLayers, mistral!HiddenUpload, mistral!AfterLayer, mistral!AtDeviceBlock,
         mistral!QKVMayFail, mistral!DeviceLayer, mistral!HollowLayerLost, mistral!Recovers,
         mistral!AtHostBlock, mistral!HostLayer, mistral!HostFails, mistral!Experts, mistral!SharedPart,
         mistral!NoSum, mistral!WithExperts, mistral!AllExperts, mistral!WithShared, mistral!Complete,
         mistral!ChunkSize, mistral!StartsChunk, mistral!ChunkFails, mistral!AfterBatchLayer,
         mistral!BatchLayer, mistral!HeadOnDevice, mistral!BatchLogits, mistral!FromHost, mistral!AtLogits,
         mistral!EmbedEnds, mistral!LogitsOnDevice, mistral!NoLogitsOnDevice, Layers, Hollow, Junk, Hidden,
         NoHidden, OnGPU, Fault, AllOffloaded, CapMaxSeq, Loaded, Pos, FirstOf, WindowOf, NewKV, DropRows,
         DropOldest, TokensStored, Overflow, RoomFor, Appended, Bumped, Advanced, NewDevice, HasSlots,
         Written, Mirror, DeviceReads, HostReads, Attends, Apply, Fails, Returns, Starts, StartsEmbed, Resets,
         ResetsAndFails, AllCleared, AtToken, StartsLayers, HiddenUpload, AfterLayer, AtDeviceBlock,
         QKVMayFail, DeviceLayer, HollowLayerLost, Recovers, AtHostBlock, HostLayer, HostFails, Experts,
         SharedPart, NoSum, WithExperts, AllExperts, WithShared, Complete, ChunkSize, StartsChunk, ChunkFails,
         AfterBatchLayer, BatchLayer, HeadOnDevice, BatchLogits, FromHost, AtLogits, EmbedEnds,
         LogitsOnDevice, NoLogitsOnDevice
<1>2. \A sum : mistral!AllExperts(sum) = AllExperts(sum)
  BY <1>1 DEF mistral!AllExperts, AllExperts, mistral!Cardinality, Cardinality
<1> QED BY <1>1, <1>2

\* All experts are added once, wherever they run.
LEMMA MistralExperts ==
  ASSUME NEW l, NEW sum \in mistral!ffnMoE(l)
  PROVE  mistral!Complete(sum) = TRUE
<1>1. AllExperts(NoSum) = [e \in 1..3 |-> IF e = 3 THEN 0 ELSE 1]
  BY TwoExperts DEF AllExperts, WithExperts, NoSum, Experts, SharedPart
<1>2. sum = WithShared(AllExperts(NoSum))
  <2>1. \A g \in mistral!moeExpertsGPU(l, NoSum) : g.ok => g.sum = AllExperts(NoSum)
    BY MistralOps DEF mistral!moeExpertsGPU
  <2> QED BY <2>1, MistralOps DEF mistral!ffnMoE, mistral!sharedExpert
<1>3. sum = [e \in 1..3 |-> 1]
  <2>1. sum = [AllExperts(NoSum) EXCEPT ![3] = 1]
    BY <1>1, <1>2 DEF WithShared, SharedPart
  <2> QED BY <1>1, <2>1
<1> QED BY <1>3, MistralOps DEF Complete

\* What the window leaves of the rows: room for one.
LEMMA MistralRoom ==
  ASSUME Inv, cfg.arch = "mistral", cfg.sliding # {}, AtToken
  PROVE  LET drop == Overflow(kv, 1)
         IN  /\ drop \in Nat
             /\ drop > 0 => /\ drop = kv.length + 1 - cfg.window /\ kv.length >= cfg.window
                            /\ \A l \in Layers : Len(kv.rows[l]) = kv.length
             /\ cfg.sliding = Layers /\ ~MayReside(cfg)
<1> DEFINE most == CHOOSE l \in Layers : \A m \in Layers : Len(kv.rows[m]) <= Len(kv.rows[l])
<1>1. Covered(cfg) /\ Settled(cfg) /\ RowsInv /\ PlaceInv /\ Alive /\ ~InLayer /\ kv \in Mirrors /\ run \in Calls
  BY DEF Inv, Alive, AtToken, InLayer, Settled, TypeOK
<1>2. kv.length \in Nat /\ cfg.kvCap \in Nat /\ cfg.window \in Nat /\ cfg.ctx \in Nat /\ run.past \in Nat /\ run.todo \in Nat
  BY <1>1, Numbers DEF Mirrors, Calls
<1>3. kv.length <= run.past /\ run.past + 1 <= cfg.ctx
  BY <1>1, <1>2 DEF RowsInv, PlaceInv, AtToken
<1>4. \A l \in Layers : Len(kv.rows[l]) = kv.length
  BY <1>1, <1>2 DEF RowsInv, RowsOf, Passed
<1>5. cfg.sliding = Layers /\ ~MayReside(cfg)
  BY <1>1 DEF Covered, Options, MayReside
<1>6. most \in Layers
  <2>1. 0 \in Layers
    BY SizesAssumption DEF Layers
  <2>2. \A m \in Layers : Len(kv.rows[m]) <= Len(kv.rows[0])
    BY <1>2, <1>4, <2>1
  <2> QED BY <2>1, <2>2
<1>7. TokensStored(kv) = kv.length
  BY <1>4, <1>6 DEF TokensStored
<1>8. cfg.kvCap = cfg.window \/ (cfg.kvCap = cfg.ctx /\ cfg.ctx <= cfg.window)
  BY <1>1, <1>2 DEF Settled
<1>9. Overflow(kv, 1) = IF kv.length + 1 > cfg.kvCap THEN kv.length + 1 - cfg.kvCap ELSE 0
  BY <1>7 DEF Overflow
<1>10. kv.length + 1 > cfg.kvCap => cfg.kvCap = cfg.window
  BY <1>2, <1>3, <1>8
<1> QED BY <1>2, <1>4, <1>5, <1>9, <1>10

LEMMA MistralDrops ==
  ASSUME Inv, cfg' = cfg, cfg.arch = "mistral", cfg.sliding # {}, AtToken, StartsLayers,
         NEW drop \in Nat, drop = Overflow(kv, 1), drop > 0, kv' = DropOldest(kv, drop),
         decode'.stale \/ OnGPU = {}, decode'.hollow = decode.hollow
  PROVE  kv' \in Mirrors /\ RowsInv'
<1>1. /\ drop = kv.length + 1 - cfg.window /\ kv.length >= cfg.window /\ cfg.sliding = Layers
      /\ \A l \in Layers : Len(kv.rows[l]) = kv.length
  BY MistralRoom
<1>2. /\ kv \in Mirrors /\ RowsInv /\ run'.past = run.past /\ run'.layer = 0 /\ run'.pc = "block" /\ InLayer' /\ ~InLayer
      /\ run.past \in Nat /\ kv.length \in Nat /\ cfg.window \in Nat /\ cfg.window >= 1
      /\ \A l \in Layers : Done(l) = run.past /\ Done(l)' = run.past
  BY TokenFacts, Numbers DEF Mirrors
<1>3. kv.length <= run.past
  BY <1>2 DEF RowsInv
<1>4. kv'.length = cfg.window - 1 /\ kv'.length \in Nat
  BY <1>1, <1>2 DEF DropOldest
<1>5. kv'.rows = [l \in Layers |-> DropRows(kv.rows[l], drop)]
  BY DEF DropOldest
<1>6. ASSUME NEW l \in Layers PROVE kv'.rows[l] \in Seq(Int) /\ RowsOf(l)'
  <2>1. kv.rows[l] \in Seq(Int) /\ Len(kv.rows[l]) = kv.length /\ kv'.rows[l] = DropRows(kv.rows[l], drop)
    BY <1>1, <1>2, <1>5 DEF Mirrors
  <2>2. RowsOf(l)
    BY <1>2 DEF RowsInv
  <2>3. \A i \in 1..Len(kv.rows[l]) : kv.rows[l][i] = run.past - Len(kv.rows[l]) + i - 1
                                      \/ (decode.hollow /\ kv.rows[l][i] = Hollow)
    BY <1>2, <2>2 DEF RowsOf
  <2>4. drop <= Len(kv.rows[l]) /\ run.past \in Int
    BY <1>1, <1>2, <2>1
  <2>5. /\ kv'.rows[l] \in Seq(Int) /\ Len(kv'.rows[l]) = kv.length - drop
        /\ \A i \in 1..Len(kv'.rows[l]) : kv'.rows[l][i] = run.past - Len(kv'.rows[l]) + i - 1
                                           \/ (decode.hollow /\ kv'.rows[l][i] = Hollow)
    <3>1. \A i \in 1..Len(kv.rows[l]) : kv.rows[l][i] = run.past - Len(kv.rows[l]) + i - 1 \/ kv.rows[l][i] \in Loose
      BY <2>3 DEF Loose
    <3>2. /\ kv'.rows[l] \in Seq(Int) /\ Len(kv'.rows[l]) = Len(kv.rows[l]) - drop
          /\ \A i \in 1..Len(kv.rows[l]) - drop :
               kv'.rows[l][i] = run.past - (Len(kv.rows[l]) - drop) + i - 1 \/ kv'.rows[l][i] \in Loose
      <4> DEFINE old == kv.rows[l]
      <4>1. old \in Seq(Int) /\ drop \in Nat /\ drop <= Len(old) /\ run.past \in Int
        BY <2>1, <2>4
      <4>2. \A i \in 1..Len(old) : old[i] = run.past - Len(old) + i - 1 \/ old[i] \in Loose
        BY <3>1
      <4> HIDE DEF old
      <4>3. /\ DropRows(old, drop) \in Seq(Int) /\ Len(DropRows(old, drop)) = Len(old) - drop
            /\ \A i \in 1..Len(old) - drop :
                 DropRows(old, drop)[i] = run.past - (Len(old) - drop) + i - 1 \/ DropRows(old, drop)[i] \in Loose
        BY <4>1, <4>2, DroppedRow
      <4> QED BY <2>1, <4>3 DEF old
    <3> QED BY <2>1, <3>2 DEF Loose
  <2>6. Len(kv'.rows[l]) = cfg.window - 1
    BY <1>1, <1>2, <2>5
  <2>7. Slack(l)' = 1 /\ Passed(l)' = 0
    <3>1. l \in Nat
      BY SizesAssumption DEF Layers
    <3> QED BY <1>2, <3>1 DEF Slack, Passed
  <2>8. /\ Len(kv'.rows[l]) <= Done(l)' /\ Len(kv'.rows[l]) >= cfg.window - Slack(l)'
        /\ Len(kv'.rows[l]) = kv'.length + Passed(l)'
    BY <1>1, <1>2, <1>3, <1>4, <2>6, <2>7
  <2>9. \A i \in 1..Len(kv'.rows[l]) : kv'.rows[l][i] = Done(l)' - Len(kv'.rows[l]) + i - 1
                                       \/ (decode'.hollow /\ kv'.rows[l][i] = Hollow)
    BY <1>2, <2>5
  <2>10. OnGPU' = OnGPU
    BY DEF OnGPU
  <2> QED BY <1>1, <2>5, <2>8, <2>9, <2>10 DEF RowsOf
<1>7. kv' \in Mirrors
  <2>1. kv'.rows \in [Layers -> Seq(Int)]
    BY <1>5, <1>6
  <2>2. kv' = [rows |-> kv'.rows, length |-> kv'.length]
    BY DEF DropOldest
  <2> QED BY <1>4, <2>1, <2>2 DEF Mirrors
<1>8. kv'.length <= run'.past
  BY <1>1, <1>2, <1>3, <1>4
<1> QED BY <1>6, <1>7, <1>8 DEF RowsInv

\* Where the device is asked, its slots are the whole window.
LEMMA MistralFits ==
  ASSUME Inv, AtHostBlock, cfg.arch = "mistral", run.layer \in OnGPU, ~decode.stale,
         mistral!gpuAttnFull(kv.length + 1)
  PROVE  \A p \in run.past..Pos : FirstOf(run.layer, p) = 0
<1>1. InLayer /\ run.layer \in Layers /\ Pos = run.past /\ run.past \in Nat /\ cfg.window \in Nat
      /\ RowsOf(run.layer) /\ Done(run.layer) = run.past /\ Passed(run.layer) = 0 /\ kv.length \in Nat
  <2>1. InLayer /\ run.batch = 1
    BY HostIsCurrent
  <2>2. /\ run.layer \in Layers /\ run.past \in Nat /\ Pos = run.past + run.batch - 1 /\ Settled(cfg) /\ RowsInv
        /\ Done(run.layer) = run.past /\ Passed(run.layer) = 0 /\ kv.length \in Nat
    BY <2>1, InLayerFacts
  <2> QED BY <2>1, <2>2, Numbers DEF RowsInv
<1>2. kv.length = run.past
  BY <1>1 DEF RowsOf
<1>3. run.layer \notin cfg.sliding \/ run.past + 1 <= cfg.window
  BY <1>2 DEF mistral!gpuAttnFull
<1> QED BY <1>1, <1>3 DEF FirstOf

\* The host reads the rows of its window.
LEMMA MistralReads ==
  ASSUME Inv, AtHostBlock, cfg.arch = "mistral", ~decode.hollow, RoomFor(kv.rows, run.layer),
         NEW rows \in [Layers -> Seq(Int)], NEW stale, RowsAfter(rows[run.layer], stale, decode.hollow)
  PROVE  mistral!attentionKV(rows, run.layer, kv.length + 1) = WindowOf(run.layer, Pos)
<1> DEFINE row == rows[run.layer]
<1>1. InLayer /\ run.batch = 1
  BY HostIsCurrent
<1>2. /\ run.layer \in Layers /\ kv.length \in Nat /\ Settled(cfg) /\ RowsOf(run.layer) /\ Passed(run.layer) = 0
  BY <1>1, InLayerFacts DEF RowsInv
<1>3. cfg.window \in Nat /\ cfg.kvCap \in Nat /\ cfg.ctx \in Nat
  BY <1>2, Numbers
<1>4. Len(row) = kv.length + 1 /\ Len(kv.rows[run.layer]) = kv.length /\ row \in Seq(Int)
  BY <1>1, <1>2 DEF RowsAfter, RowsOf
<1>5. cfg.sliding = {} \/ kv.length + 1 <= cfg.window
  BY <1>1, <1>2, <1>3, <1>4 DEF RoomFor, Settled
<1>6. mistral!attentionKV(rows, run.layer, kv.length + 1) = SubSeq(row, 1, kv.length + 1)
  <2> DEFINE n == kv.length + 1
  <2>1. (IF cfg.sliding = {} \/ n <= cfg.window \/ n - 1 - cfg.window >= Len(row) THEN 0 ELSE n - 1 - cfg.window) = 0
    BY <1>5
  <2>2. (IF cfg.sliding # {} /\ n > cfg.window THEN cfg.window ELSE n) = n
    BY <1>2, <1>3, <1>5
  <2>3. n \in Nat
    BY <1>2
  <2> HIDE DEF n
  <2>4. mistral!attentionKV(rows, run.layer, n) = SubSeq(row, 0 + 1, 0 + n)
    BY <2>1, <2>2 DEF mistral!attentionKV
  <2> QED BY <2>3, <2>4 DEF n
<1>7. SubSeq(row, 1, kv.length + 1) = row
  BY <1>4, SubSeqFull
<1>8. Len(row) <= cfg.window \/ run.layer \notin cfg.sliding
  BY <1>4, <1>5
<1> QED BY <1>1, <1>4, <1>6, <1>7, <1>8, RowIsWindow

\* Room is made before the layers of a token.
LEMMA MistralToken ==
  ASSUME Inv, cfg' = cfg, cfg.arch = "mistral", mistral!forwardToken
  PROVE  Inv'
<1> DEFINE drop == IF cfg.sliding = {} THEN 0 ELSE Overflow(kv, 1)
           stale == decode.stale \/ (drop > 0 /\ OnGPU # {})
           d == [decode EXCEPT !.stale = stale]
           made == IF drop > 0 THEN DropOldest(kv, drop) ELSE kv
<1>1. /\ AtToken /\ StartsLayers /\ kv' = made
      /\ \/ mistral!uploadHidden(d, made.length) /\ HiddenUpload
         \/ ~mistral!uploadHidden(d, made.length) /\ decode' = d /\ dev' = dev
  BY MistralOps DEF mistral!forwardToken, mistral!ensureKVRoom
<1>2. decode \in Flags /\ FlagsInv /\ Covered(cfg) /\ kv \in Mirrors
  BY <1>1, TokenFacts
<1>3. stale \in BOOLEAN /\ d.residency = decode.residency /\ d.stale = stale /\ d.hollow = decode.hollow
  BY <1>2 DEF Flags
<1>4. CASE drop > 0
  <2>1. cfg.sliding # {} /\ drop = Overflow(kv, 1) /\ made = DropOldest(kv, drop)
    BY <1>4
  <2>2. drop \in Nat /\ ~MayReside(cfg)
    BY <1>1, <2>1, MistralRoom
  <2>3. ~decode.residency
    BY <1>2, <2>2 DEF FlagsInv
  <2>4. decode' = d /\ dev' = dev
    BY <1>1, <1>3, <2>3 DEF mistral!uploadHidden
  <2>5. decode'.stale \/ OnGPU = {}
    BY <1>3, <1>4, <2>4
  <2>6. kv' \in Mirrors /\ RowsInv'
    <3>1. kv' = DropOldest(kv, drop) /\ decode'.hollow = decode.hollow
      BY <1>1, <1>3, <2>1, <2>4
    <3> HIDE DEF drop, made, d, stale
    <3> QED BY <1>1, <1>4, <2>1, <2>2, <2>5, <3>1, MistralDrops
  <2>7. decode.stale => stale
    OBVIOUS
  <2>8. ~Deaf
    BY DEF Deaf
  <2> HIDE DEF drop, made, stale
  <2> QED BY <1>1, <1>3, <2>2, <2>3, <2>4, <2>6, <2>7, <2>8, NoUploadKeeps
<1>5. CASE ~(drop > 0)
  <2>1. made = kv /\ stale = decode.stale /\ d = decode
    BY <1>2, <1>5 DEF Flags
  <2>2. decode.residency => mistral!gpuAttnFull(kv.length + 1)
    <3>1. decode.residency => MayReside(cfg)
      BY <1>2 DEF FlagsInv
    <3> QED BY <3>1 DEF MayReside, mistral!gpuAttnFull
  <2>3. mistral!uploadHidden(decode, kv.length) <=> decode.residency /\ ~decode.stale
    BY <2>2 DEF mistral!uploadHidden
  <2> HIDE DEF drop, made, d, stale
  <2>4. CASE decode.residency /\ ~decode.stale
    BY <1>1, <2>1, <2>3, <2>4, UploadKeeps
  <2>5. CASE ~(decode.residency /\ ~decode.stale)
    <3>1. kv' = kv /\ dev' = dev /\ decode' = decode /\ kv' \in Mirrors
      BY <1>1, <1>2, <2>1, <2>3, <2>5
    <3>2. RowsInv'
      BY <1>1, <3>1, TokenRows
    <3>3. decode.stale \in BOOLEAN /\ decode' = [decode EXCEPT !.stale = decode.stale]
      BY <1>2, <3>1 DEF Flags
    <3> QED BY <1>1, <2>5, <3>1, <3>2, <3>3, NoUploadKeeps
  <2> QED BY <2>4, <2>5
<1> QED BY <1>4, <1>5

\* A layer with the hidden state on the host.
LEMMA MistralLayer ==
  ASSUME Inv, cfg' = cfg, cfg.arch = "mistral", mistral!forwardBlock
  PROVE  Inv'
<1> DEFINE l == run.layer
           n == kv.length + 1
           rows == Appended(kv.rows, l, run.x)
           onHost == (mistral!attentionKV(rows, l, n) = WindowOf(l, Pos))
           ffn == IF cfg.moe THEN {mistral!Complete(sum) : sum \in mistral!ffnMoE(l)} ELSE {TRUE}
           full == mistral!gpuAttnFull(n)
<1>1. AtHostBlock /\ RoomFor(kv.rows, l)
  BY MistralOps DEF mistral!forwardBlock
<1>2. \A right \in ffn : right = TRUE
  <2>1. \A sum \in mistral!ffnMoE(l) : mistral!Complete(sum) = TRUE
    BY MistralExperts
  <2> QED BY <2>1
<1>3. \E right \in ffn :
        \/ /\ l \in OnGPU /\ ~decode.stale /\ HasSlots /\ full
           /\ HostLayer(rows, [kv |-> Written(l, run.x), stale |-> FALSE], DeviceReads(Written(l, run.x), l) /\ right, ~cfg.moe)
        \/ \E m \in Mirror(l, ~decode.stale, TRUE) :
             \E attended \in Attends(m.kv, l, ~m.stale /\ full, onHost) :
               HostLayer(rows, m, attended /\ right, ~cfg.moe)
  <2> DEFINE all == mistral!Appended(kv.rows, l, run.x)
             read == (mistral!attentionKV(all, l, n) = mistral!WindowOf(l, mistral!Pos))
             dkv == mistral!Written(l, run.x)
  <2>1. PICK right \in ffn :
          \/ /\ l \in mistral!OnGPU /\ ~decode.stale /\ mistral!HasSlots /\ full
             /\ mistral!HostLayer(all, [kv |-> dkv, stale |-> FALSE], mistral!DeviceReads(dkv, l) /\ right, ~cfg.moe)
          \/ \E m \in mistral!Mirror(l, ~decode.stale, TRUE) :
               \E attended \in mistral!attentionScoresInto(m.kv, l, m.stale, n, read) :
                 mistral!HostLayer(all, m, attended /\ right, ~cfg.moe)
    BY DEF mistral!forwardBlock
  <2>2. all = rows /\ read = onHost /\ dkv = Written(l, run.x)
    BY MistralOps
  <2> HIDE DEF ffn, all, read, dkv
  <2>3. CASE /\ l \in mistral!OnGPU /\ ~decode.stale /\ mistral!HasSlots /\ full
             /\ mistral!HostLayer(all, [kv |-> dkv, stale |-> FALSE], mistral!DeviceReads(dkv, l) /\ right, ~cfg.moe)
    <3>1. mistral!DeviceReads(dkv, l) = DeviceReads(Written(l, run.x), l)
      BY <2>2, MistralOps
    <3>2. /\ l \in OnGPU /\ ~decode.stale /\ HasSlots /\ full
          /\ HostLayer(rows, [kv |-> Written(l, run.x), stale |-> FALSE], DeviceReads(Written(l, run.x), l) /\ right, ~cfg.moe)
      BY <2>2, <2>3, <3>1, MistralOps
    <3> QED BY <3>2
  <2>4. CASE \E m \in mistral!Mirror(l, ~decode.stale, TRUE) :
               \E attended \in mistral!attentionScoresInto(m.kv, l, m.stale, n, read) :
                 mistral!HostLayer(all, m, attended /\ right, ~cfg.moe)
    <3>1. PICK m \in mistral!Mirror(l, ~decode.stale, TRUE) :
               \E attended \in mistral!attentionScoresInto(m.kv, l, m.stale, n, read) :
                 mistral!HostLayer(all, m, attended /\ right, ~cfg.moe)
      BY <2>4
    <3>2. PICK attended \in mistral!attentionScoresInto(m.kv, l, m.stale, n, read) :
                 mistral!HostLayer(all, m, attended /\ right, ~cfg.moe)
      BY <3>1
    <3>3. m \in Mirror(l, ~decode.stale, TRUE)
      BY MistralOps
    <3>4. attended \in Attends(m.kv, l, ~m.stale /\ full, onHost)
      BY <2>2, MistralOps DEF mistral!attentionScoresInto
    <3>5. HostLayer(rows, m, attended /\ right, ~cfg.moe)
      BY <2>2, <3>2, MistralOps
    <3> QED BY <3>3, <3>4, <3>5
  <2> QED BY <2>1, <2>3, <2>4
<1> HIDE DEF ffn
<1>4. /\ InLayer /\ Alive /\ run.x = Hidden(Pos, l) /\ FlagsInv /\ l \in Layers /\ decode \in Flags /\ (~cfg.moe) \in BOOLEAN
      /\ run.batch = 1 /\ Pos = run.past /\ run.past \in Nat
  <2>1. /\ InLayer /\ Alive /\ run.x = Hidden(Pos, l) /\ run.batch = 1
    BY <1>1, HostIsCurrent
  <2>2. FlagsInv /\ l \in Layers /\ decode \in Flags /\ run.past \in Nat /\ Pos = run.past + run.batch - 1
    BY <2>1, InLayerFacts
  <2>3. (~cfg.moe) \in BOOLEAN
    OBVIOUS
  <2> QED BY <2>1, <2>2, <2>3
<1>5. MayReside(cfg) => full
  BY DEF MayReside, mistral!gpuAttnFull
<1>6. full \in BOOLEAN
  BY DEF mistral!gpuAttnFull
<1>7. l \in OnGPU /\ ~decode.stale /\ full => \A p \in run.past..Pos : FirstOf(l, p) = 0
  BY <1>1, MistralFits
<1>8. ASSUME NEW right \in ffn, l \in OnGPU, ~decode.stale, HasSlots, full,
             HostLayer(rows, [kv |-> Written(l, run.x), stale |-> FALSE], DeviceReads(Written(l, run.x), l) /\ right, ~cfg.moe)
      PROVE  Inv'
  <2> DEFINE m == [kv |-> Written(l, run.x), stale |-> FALSE]
             attended == DeviceReads(Written(l, run.x), l) /\ right
  <2>0. FirstOf(l, run.past) = 0
    BY <1>4, <1>7, <1>8
  <2>1. Written(l, run.x) \in [Layers -> SUBSET Int] /\ DeviceAfter(Written(l, run.x), FALSE) /\ DeviceReads(Written(l, run.x), l)
    BY <1>1, <1>8, <2>0, FusedIs
  <2>2. attended = TRUE
    BY <1>2, <1>8, <2>1
  <2>3. decode.stale = FALSE
    BY <1>4, <1>8 DEF Flags
  <2>4. /\ rows \in [Layers -> Seq(Int)] /\ \A i \in Layers \ {l} : rows[i] = kv.rows[i]
        /\ RowsAfter(rows[l], FALSE, decode.hollow)
    BY <1>1, <2>3, PlainRows
  <2> HIDE DEF rows, full
  <2>5. m.kv = Written(l, run.x) /\ m.stale = FALSE /\ HostLayer(rows, m, attended, ~cfg.moe)
    BY <1>8
  <2> HIDE DEF m, attended
  <2> QED BY <1>1, <1>4, <2>1, <2>2, <2>3, <2>4, <2>5, HostLayerKeeps
<1>9. ASSUME NEW right \in ffn, NEW m \in Mirror(l, ~decode.stale, TRUE),
             NEW attended \in Attends(m.kv, l, ~m.stale /\ full, onHost),
             HostLayer(rows, m, attended /\ right, ~cfg.moe)
      PROVE  Inv'
  <2>1. /\ m.kv \in [Layers -> SUBSET Int] /\ m.stale \in BOOLEAN /\ DeviceAfter(m.kv, m.stale)
        /\ MayReside(cfg) => m.stale = decode.stale
    <3>1. (~decode.stale) \in BOOLEAN
      BY <1>4 DEF Flags
    <3> QED BY <1>4, <3>1, MirrorIs
  <2>2. decode.stale => m.stale
    BY <2>1 DEF DeviceAfter
  <2>3. /\ rows \in [Layers -> Seq(Int)] /\ \A i \in Layers \ {l} : rows[i] = kv.rows[i]
        /\ RowsAfter(rows[l], m.stale, decode.hollow)
    BY <1>1, <2>1, <2>2, PlainRows
  <2> HIDE DEF rows
  <2>4. decode.hollow => m.stale = decode.stale /\ ~m.stale /\ full
    BY <1>4, <1>5, <2>1 DEF FlagsInv
  <2>5. ~decode.hollow => onHost = TRUE
    BY <1>1, <2>3, MistralReads
  <2>6. attended = TRUE
    <3> DEFINE asked == ~m.stale /\ full
    <3>1. asked \in BOOLEAN
      BY <1>6, <2>1
    <3>2. asked /\ l \in OnGPU => \A p \in run.past..Pos : FirstOf(l, p) = 0
      BY <1>7, <2>2
    <3>3. (asked => Deaf \/ ~m.stale) /\ (decode.hollow => asked)
      BY <2>4
    <3>4. attended \in Attends(m.kv, l, asked, onHost)
      BY <1>9
    <3> HIDE DEF asked, onHost, full
    <3> QED BY <1>1, <2>1, <2>5, <3>1, <3>2, <3>3, <3>4, AttendedIs
  <2>7. (attended /\ right) = TRUE
    BY <1>2, <1>9, <2>6
  <2>8. decode.hollow => m.stale = decode.stale
    BY <2>4
  <2> QED BY <1>1, <1>4, <1>9, <2>1, <2>3, <2>7, <2>8, HostLayerKeeps
<1> HIDE DEF rows, onHost, full
<1> QED BY <1>3, <1>8, <1>9

\* mistral keeps the invariant.
LEMMA MistralKeeps ==
  ASSUME Inv, cfg.arch = "mistral", mistral!Next
  PROVE  Inv'
<1>1. cfg' = cfg /\ cfg.arch # "deepseek2" /\ decode \in Flags /\ Cleared(AllCleared)
  BY ClearedFlags DEF mistral!Next, Inv, TypeOK
<1>2. CASE SharedSteps(AllCleared)
  BY <1>1, <1>2, SharedKeeps
<1>3. CASE mistral!forwardToken
  BY <1>1, <1>3, MistralToken
<1>4. CASE mistral!forwardBlockDevice \/ mistral!forwardBlockDeviceMoE \/ mistral!recoverHiddenFromDevice
  <2>1. \/ DeviceLayer
        \/ AtDeviceBlock /\ ~decode.hollow /\ kv' = kv /\ Recovers(decode)
    BY <1>4, MistralOps DEF mistral!forwardBlockDevice, mistral!forwardBlockDeviceMoE, mistral!recoverHiddenFromDevice
  <2>2. cfg.sliding = {}
    <3>1. AtDeviceBlock
      BY <2>1 DEF DeviceLayer
    <3>2. FlagsInv /\ decode.residDevice
      BY <3>1 DEF AtDeviceBlock, Inv, Alive
    <3> QED BY <3>2, Windows DEF FlagsInv
  <2> QED BY <1>1, <2>1, <2>2, DeviceBlockKeeps
<1>5. CASE mistral!forwardBlock
  BY <1>1, <1>5, MistralLayer
<1>6. CASE mistral!forwardBatch
  <2> DEFINE made == mistral!ensureKVRoom(ChunkSize)
  <2>1. StartsChunk(made.kv, made.decode, TRUE) \/ ChunkFails \/ BatchLogits(FALSE)
    BY <1>6, MistralOps DEF mistral!forwardBatch
  <2>2. ASSUME StartsChunk(made.kv, made.decode, TRUE) PROVE StartsChunk(kv, decode, TRUE)
    <3>1. run.pc = "chunk"
      BY <2>2 DEF StartsChunk
    <3>2. cfg.sliding = {}
      BY <3>1, Windows DEF InBatch, Alive
    <3>3. decode = [decode EXCEPT !.stale = decode.stale \/ (0 > 0 /\ OnGPU # {})]
      BY <1>1 DEF Flags
    <3>4. made.kv = kv /\ made.decode = decode
      BY <3>2, <3>3, MistralOps DEF mistral!ensureKVRoom
    <3> HIDE DEF made
    <3> QED BY <2>2, <3>4
  <2> HIDE DEF made
  <2> QED BY <1>1, <2>1, <2>2, ChunkKeeps, ChunkFailsKeeps, BatchLogitsKeeps
<1>7. CASE mistral!forwardBlockBatch
  <2>1. \E m \in Mirror(run.layer, ~decode.stale, TRUE) :
          \E attended \in Attends(m.kv, run.layer, ~m.stale, HostReads(Appended(kv.rows, run.layer, run.x), run.layer)) :
            BatchLayer(Appended(kv.rows, run.layer, run.x), m, attended)
    BY <1>7, MistralOps DEF mistral!forwardBlockBatch, mistral!attentionBatchCausalInto
  <2> QED BY <1>1, <2>1, NotedBatchKeeps
<1>8. CASE mistral!logitsFinish
  <2> DEFINE asked == decode.residDevice /\ decode.logitsOnGPU
             again == cfg.moe /\ decode.logitsOnGPU /\ ~asked
  <2>1. \/ LogitsOnDevice(TRUE)
        \/ AtLogits /\ FromHost([decode EXCEPT !.logitsOnGPU = decode.logitsOnGPU /\ ~asked], again)
    BY <1>8, MistralOps DEF mistral!logitsFinish
  <2>2. asked \in BOOLEAN /\ again \in BOOLEAN
    BY <1>1 DEF Flags
  <2> HIDE DEF asked, again
  <2> QED BY <1>1, <2>1, <2>2, LogitsOnDeviceKeeps, LogitsKeeps
<1>9. \/ SharedSteps(AllCleared)
      \/ mistral!forwardToken \/ mistral!forwardBlockDevice \/ mistral!forwardBlockDeviceMoE
      \/ mistral!recoverHiddenFromDevice \/ mistral!forwardBlock
      \/ mistral!forwardBatch \/ mistral!forwardBlockBatch \/ mistral!logitsFinish
  BY MistralOps DEF mistral!Next, mistral!Forward, mistral!Embed, mistral!ResetCache, mistral!matmulInto, SharedSteps
<1> QED BY <1>2, <1>3, <1>4, <1>5, <1>6, <1>7, <1>8, <1>9

-----------------------------------------------------------------------------
(* gemma *)

\* The operators of the instance are those of ForwardState.
LEMMA GemmaOps ==
  /\ gemma!OnGPU = OnGPU
  /\ \A f : gemma!Fault(f) <=> Fault(f)
  /\ \A c : gemma!AllOffloaded(c) <=> AllOffloaded(c)
  /\ \A c, kvMaxSeq, serial, residency, logits : gemma!Loaded(c, kvMaxSeq, serial, residency, logits) = Loaded(c, kvMaxSeq, serial, residency, logits)
  /\ gemma!Pos = Pos
  /\ \A l, p : gemma!FirstOf(l, p) = FirstOf(l, p)
  /\ \A l, p : gemma!WindowOf(l, p) = WindowOf(l, p)
  /\ \A row, n : gemma!DropRows(row, n) = DropRows(row, n)
  /\ \A rows, l : gemma!RoomFor(rows, l) <=> RoomFor(rows, l)
  /\ \A rows, l, h : gemma!Appended(rows, l, h) = Appended(rows, l, h)
  /\ gemma!HasSlots <=> HasSlots
  /\ \A l, h : gemma!Written(l, h) = Written(l, h)
  /\ \A l, called, noted : gemma!Mirror(l, called, noted) = Mirror(l, called, noted)
  /\ \A dkv, l : gemma!DeviceReads(dkv, l) = DeviceReads(dkv, l)
  /\ \A dkv, l, asked, onHost : gemma!Attends(dkv, l, asked, onHost) = Attends(dkv, l, asked, onHost)
  /\ \A n, batched : gemma!Starts(n, batched) <=> Starts(n, batched)
  /\ \A n, d : gemma!StartsEmbed(n, d) <=> StartsEmbed(n, d)
  /\ \A d : gemma!Resets(d) <=> Resets(d)
  /\ \A d : gemma!ResetsAndFails(d) <=> ResetsAndFails(d)
  /\ gemma!AllCleared = AllCleared
  /\ gemma!AtToken <=> AtToken
  /\ gemma!StartsLayers <=> StartsLayers
  /\ \A wanted : gemma!Uploads(wanted) <=> Uploads(wanted)
  /\ gemma!AtDeviceBlock <=> AtDeviceBlock
  /\ gemma!QKVMayFail <=> QKVMayFail
  /\ gemma!DeviceLayer <=> DeviceLayer
  /\ \A d : gemma!HollowLayerLost(d) <=> HollowLayerLost(d)
  /\ \A d : gemma!Recovers(d) <=> Recovers(d)
  /\ gemma!AtHostBlock <=> AtHostBlock
  /\ \A rows, m, attended, fused : gemma!HostLayer(rows, m, attended, fused) <=> HostLayer(rows, m, attended, fused)
  /\ gemma!HostFails <=> HostFails
  /\ \A k, d, synced : gemma!StartsChunk(k, d, synced) <=> StartsChunk(k, d, synced)
  /\ \A rows, m, attended : gemma!BatchLayer(rows, m, attended) <=> BatchLayer(rows, m, attended)
  /\ \A asked : gemma!BatchLogits(asked) <=> BatchLogits(asked)
  /\ \A d, asked : gemma!FromHost(d, asked) <=> FromHost(d, asked)
  /\ gemma!AtLogits <=> AtLogits
  /\ gemma!EmbedEndsOnHost <=> EmbedEndsOnHost
  /\ \A kept : gemma!LogitsOnDevice(kept) <=> LogitsOnDevice(kept)
  /\ \A asked : gemma!NoLogitsOnDevice(asked) <=> NoLogitsOnDevice(asked)
BY DEF gemma!Layers, gemma!Hollow, gemma!Junk, gemma!Hidden, gemma!NoHidden, gemma!OnGPU, gemma!Fault,
       gemma!AllOffloaded, gemma!CapMaxSeq, gemma!Loaded, gemma!Pos, gemma!FirstOf, gemma!WindowOf,
       gemma!NewKV, gemma!DropRows, gemma!RoomFor, gemma!Appended, gemma!Bumped, gemma!Advanced,
       gemma!NewDevice, gemma!HasSlots, gemma!Written, gemma!Mirror, gemma!DeviceReads, gemma!Attends,
       gemma!Apply, gemma!Fails, gemma!Returns, gemma!Starts, gemma!StartsEmbed, gemma!Resets,
       gemma!ResetsAndFails, gemma!AllCleared, gemma!AtToken, gemma!StartsLayers, gemma!HiddenUpload,
       gemma!Uploads, gemma!AfterLayer, gemma!AtDeviceBlock, gemma!QKVMayFail, gemma!DeviceLayer,
       gemma!HollowLayerLost, gemma!Recovers, gemma!AtHostBlock, gemma!HostLayer, gemma!HostFails,
       gemma!ChunkSize, gemma!StartsChunk, gemma!AfterBatchLayer, gemma!BatchLayer, gemma!HeadOnDevice,
       gemma!BatchLogits, gemma!FromHost, gemma!AtLogits, gemma!EmbedEndsOnHost, gemma!LogitsOnDevice,
       gemma!NoLogitsOnDevice, Layers, Hollow, Junk, Hidden, NoHidden, OnGPU, Fault, AllOffloaded, CapMaxSeq,
       Loaded, Pos, FirstOf, WindowOf, NewKV, DropRows, RoomFor, Appended, Bumped, Advanced, NewDevice,
       HasSlots, Written, Mirror, DeviceReads, Attends, Apply, Fails, Returns, Starts, StartsEmbed, Resets,
       ResetsAndFails, AllCleared, AtToken, StartsLayers, HiddenUpload, Uploads, AfterLayer, AtDeviceBlock,
       QKVMayFail, DeviceLayer, HollowLayerLost, Recovers, AtHostBlock, HostLayer, HostFails, ChunkSize,
       StartsChunk, AfterBatchLayer, BatchLayer, HeadOnDevice, BatchLogits, FromHost, AtLogits,
       EmbedEndsOnHost, LogitsOnDevice, NoLogitsOnDevice

\* What prepareSWAAppend leaves of the rows of this layer.
LEMMA GemmaMakesRoom ==
  ASSUME Inv, InLayer, cfg.arch = "gemma", NEW made, made = gemma!prepareSWAAppend(kv.rows, run.layer)
  PROVE  /\ made.rows \in [Layers -> Seq(Int)] /\ \A m \in Layers \ {run.layer} : made.rows[m] = kv.rows[m]
         /\ made.stale \in BOOLEAN /\ (decode.stale => made.stale)
         /\ RowsBefore(made.rows[run.layer], made.stale)
         /\ run.layer \in cfg.sliding => Len(made.rows[run.layer]) + run.batch <= cfg.window
         /\ run.layer \in cfg.sliding /\ OnGPU # {} /\ ~made.stale => run.past + run.batch <= cfg.window
         /\ made.stale /\ ~decode.stale => run.layer \in cfg.sliding
<1> DEFINE l == run.layer
           old == kv.rows[l]
           drop == IF l \in cfg.sliding /\ Len(old) + run.batch > cfg.window
                   THEN Len(old) + run.batch - cfg.window ELSE 0
<1>1. /\ l \in Layers /\ run.past \in Nat /\ run.batch \in Nat /\ run.batch >= 1 /\ decode \in Flags
      /\ kv.rows \in [Layers -> Seq(Int)] /\ PlaceInv /\ Covered(cfg)
      /\ cfg.window \in Nat /\ cfg.window >= 1 /\ cfg.nBatch \in Nat
  BY InLayerFacts, Numbers DEF Settled
<1>2. l \in cfg.sliding => run.batch <= cfg.window
  <2>1. l \in cfg.sliding => cfg.nBatch <= cfg.window
    BY <1>1 DEF Covered, Options
  <2>2. run.batch = 1 \/ run.batch <= cfg.nBatch
    BY <1>1 DEF PlaceInv, InLayer
  <2> QED BY <1>1, <2>1, <2>2
<1>3. RowsBefore(old, decode.stale) /\ old \in Seq(Int) /\ Len(old) \in Nat
  BY <1>1, RowsAreBefore
<1>4. /\ made.rows = [kv.rows EXCEPT ![l] = DropRows(old, drop)]
      /\ made.stale = (decode.stale \/ (drop > 0 /\ OnGPU # {}))
  BY <1>1, GemmaOps DEF gemma!prepareSWAAppend
<1> DEFINE dropped == drop > 0 /\ OnGPU # {}
<1>0. made.stale <=> decode.stale \/ dropped
  <2> HIDE DEF dropped
  <2>1. made.stale = (decode.stale \/ dropped)
    BY <1>4 DEF dropped
  <2> QED BY <2>1
<1> HIDE DEF dropped
<1>5. /\ \A m \in Layers \ {l} : made.rows[m] = kv.rows[m]
      /\ made.rows[l] = DropRows(old, drop)
  BY <1>1, <1>4
<1>6. drop \in Nat /\ drop <= Len(old)
  BY <1>1, <1>2, <1>3
<1>7. made.stale \in BOOLEAN /\ (decode.stale => made.stale) /\ (drop = 0 => made.stale = decode.stale)
  BY <1>1, <1>4 DEF Flags
<1>8. /\ DropRows(old, drop) \in Seq(Int) /\ Len(DropRows(old, drop)) = Len(old) - drop
      /\ \A i \in 1..Len(old) - drop :
           DropRows(old, drop)[i] = run.past - (Len(old) - drop) + i - 1 \/ DropRows(old, drop)[i] \in Loose
  <2>1. \A i \in 1..Len(old) : old[i] = run.past - Len(old) + i - 1 \/ old[i] \in Loose
    BY <1>3 DEF RowsBefore, Loose
  <2>2. run.past \in Int
    BY <1>1
  <2> HIDE DEF drop, old
  <2> QED BY <1>3, <1>6, <2>1, <2>2, DroppedRow
<1>9. RowsBefore(made.rows[l], made.stale)
  <2>1. Len(old) <= run.past /\ (\/ Len(old) = run.past
                                 \/ l \in cfg.sliding /\ Len(old) >= cfg.window - run.batch /\ (decode.stale \/ OnGPU = {}))
    BY <1>3 DEF RowsBefore
  <2>2. made.rows[l] \in Seq(Int) /\ Len(made.rows[l]) = Len(old) - drop
    BY <1>5, <1>8
  <2>3. Len(made.rows[l]) <= run.past
    BY <1>1, <1>3, <1>6, <2>1, <2>2
  <2>4. \A i \in 1..Len(made.rows[l]) : made.rows[l][i] = run.past - Len(made.rows[l]) + i - 1
                                       \/ (decode.hollow /\ made.rows[l][i] = Hollow)
    BY <1>5, <1>8 DEF Loose
  <2>5. \/ Len(made.rows[l]) = run.past
        \/ l \in cfg.sliding /\ Len(made.rows[l]) >= cfg.window - run.batch /\ (made.stale \/ OnGPU = {})
    <3>1. CASE drop = 0
      <4>1. Len(made.rows[l]) = Len(old)
        BY <1>3, <2>2, <3>1
      <4> QED BY <1>7, <2>1, <3>1, <4>1
    <3>2. CASE drop # 0
      <4>1. l \in cfg.sliding /\ Len(old) - drop = cfg.window - run.batch
        BY <1>1, <1>3, <3>2
      <4>2. made.stale \/ OnGPU = {}
        BY <1>0, <1>6, <3>2 DEF dropped
      <4> QED BY <1>1, <2>2, <4>1, <4>2
    <3> QED BY <3>1, <3>2
  <2> QED BY <2>2, <2>3, <2>4, <2>5 DEF RowsBefore
<1>10. l \in cfg.sliding => Len(made.rows[l]) + run.batch <= cfg.window
  <2>1. Len(made.rows[l]) = Len(old) - drop
    BY <1>5, <1>8
  <2> QED BY <1>1, <1>3, <2>1
<1>11. ASSUME l \in cfg.sliding, OnGPU # {}, ~made.stale PROVE run.past + run.batch <= cfg.window
  <2>1. ~(drop > 0) /\ ~decode.stale
    BY <1>0, <1>11 DEF dropped
  <2>2. Len(old) = run.past
    BY <1>3, <1>11, <2>1 DEF RowsBefore
  <2> QED BY <1>1, <1>3, <1>11, <2>1, <2>2
<1>12. made.stale /\ ~decode.stale => l \in cfg.sliding
  BY <1>0 DEF dropped
<1>13. made.rows \in [Layers -> Seq(Int)]
  BY <1>1, <1>4, <1>8
<1> QED BY <1>5, <1>7, <1>9, <1>10, <1>11, <1>12, <1>13

\* Where the mirror is hollow, no layer attends on the host.
LEMMA GemmaHollow ==
  ASSUME Inv, AtHostBlock \/ run.pc = "batch", cfg.arch = "gemma", decode.hollow
  PROVE  /\ MayReside(cfg) /\ cfg.sliding = {} /\ cfg.softcap = FALSE /\ ~decode.stale
         /\ run.pc = "batch" => ~decode.residDevice
<1>1. Alive /\ InLayer /\ FlagsInv /\ Covered(cfg) /\ PlaceInv /\ cfg.nBatch \in Nat /\ (AtHostBlock => ~decode.residDevice)
  BY HostIsCurrent, InLayerFacts, Numbers DEF Settled
<1>2. MayReside(cfg) /\ ~decode.stale
  BY <1>1 DEF FlagsInv
<1>3. ~OffDevice(cfg)
  <2>1. CASE run.pc = "batch"
    <3>1. cfg.nBatch > 1
      BY <1>1, <2>1 DEF PlaceInv, InBatch
    <3> QED BY <1>1, <1>2, <3>1 DEF Covered, Options
  <2>2. CASE AtHostBlock
    <3>1. run.pc = "block" /\ ~decode.residDevice
      BY <1>1, <2>2 DEF AtHostBlock, FlagsInv
    <3> QED BY <1>1, <3>1 DEF FlagsInv
  <2> QED BY <2>1, <2>2
<1>4. cfg.softcap \in BOOLEAN
  BY <1>1 DEF Covered, Options
<1>5. run.pc = "batch" => ~decode.residDevice
  BY <1>1 DEF FlagsInv
<1> QED BY <1>2, <1>3, <1>4, <1>5 DEF OffDevice

\* What the device has after the append, and whether it is stale.
LEMMA GemmaMirror ==
  ASSUME Inv, AtHostBlock \/ run.pc = "batch", cfg.arch = "gemma",
         NEW made, made = gemma!prepareSWAAppend(kv.rows, run.layer),
         NEW m \in Mirror(run.layer, ~made.stale, TRUE), NEW stale, stale = (made.stale \/ m.stale)
  PROVE  /\ m.kv \in [Layers -> SUBSET Int] /\ stale \in BOOLEAN /\ DeviceAfter(m.kv, stale)
         /\ made.stale => stale
         /\ decode.hollow => stale = decode.stale /\ ~stale
<1>1. InLayer /\ run.x = Hidden(Pos, run.layer)
  BY HostIsCurrent
<1>2. /\ dev.kv \in [Layers -> SUBSET Int] /\ decode \in Flags
      /\ made.stale \in BOOLEAN /\ (decode.stale => made.stale)
      /\ made.stale /\ ~decode.stale => run.layer \in cfg.sliding
  BY <1>1, InLayerFacts, GemmaMakesRoom
<1>3. CASE made.stale
  <2>1. m.kv = dev.kv /\ stale = TRUE
    <3>1. m \in {[kv |-> dev.kv, stale |-> decode.stale]}
      BY <1>3 DEF Mirror
    <3>2. m.kv = dev.kv
      BY <3>1
    <3>3. (made.stale \/ m.stale) = TRUE
      BY <1>3
    <3> QED BY <3>2, <3>3
  <2>2. ~Counts(TRUE) /\ ~Deaf
    BY DEF Counts, Deaf
  <2>3. DeviceAfter(dev.kv, TRUE)
    BY <1>1, <1>2, <2>2, NotWritten
  <2>4. ~decode.hollow
    BY <1>2, <1>3, GemmaHollow
  <2> QED BY <1>2, <1>3, <2>1, <2>3, <2>4
<1>4. CASE ~made.stale
  <2>1. (~made.stale) \in BOOLEAN /\ ~decode.stale
    BY <1>2, <1>4
  <2>2. /\ m.kv \in [Layers -> SUBSET Int] /\ m.stale \in BOOLEAN /\ DeviceAfter(m.kv, m.stale)
        /\ MayReside(cfg) => m.stale = decode.stale
    BY <1>1, <1>4, <2>1, MirrorIs
  <2>3. stale = m.stale
    BY <1>4, <2>2
  <2>4. decode.hollow => MayReside(cfg)
    BY GemmaHollow
  <2> QED BY <1>4, <2>1, <2>2, <2>3, <2>4
<1> QED BY <1>3, <1>4

\* The layer's rows, and what the host reads of them.
LEMMA GemmaRows ==
  ASSUME Inv, AtHostBlock \/ run.pc = "batch", cfg.arch = "gemma",
         NEW made, made = gemma!prepareSWAAppend(kv.rows, run.layer),
         NEW stale \in BOOLEAN, made.stale => stale
  PROVE  LET rows == Appended(made.rows, run.layer, run.x)
         IN  /\ rows \in [Layers -> Seq(Int)]
             /\ \A i \in Layers \ {run.layer} : rows[i] = kv.rows[i]
             /\ RowsAfter(rows[run.layer], stale, decode.hollow)
             /\ run.layer \in cfg.sliding => Len(rows[run.layer]) <= cfg.window
<1> DEFINE l == run.layer
           rows == Appended(made.rows, l, run.x)
<1>1. InLayer /\ run.x = Hidden(Pos, l)
  BY HostIsCurrent
<1>2. l \in Layers /\ run.batch \in Nat /\ run.past \in Nat /\ cfg.window \in Nat
  BY <1>1, InLayerFacts, Numbers
<1>3. /\ made.rows \in [Layers -> Seq(Int)] /\ \A m \in Layers \ {l} : made.rows[m] = kv.rows[m]
      /\ RowsBefore(made.rows[l], made.stale)
      /\ l \in cfg.sliding => Len(made.rows[l]) + run.batch <= cfg.window
  BY <1>1, GemmaMakesRoom
<1>4. RowsBefore(made.rows[l], stale)
  BY <1>3 DEF RowsBefore
<1>5. RowsAfter(rows[l], stale, decode.hollow)
  BY <1>1, <1>3, <1>4, RowsAppended
<1>6. /\ rows \in [Layers -> Seq(Int)] /\ \A m \in Layers \ {l} : rows[m] = made.rows[m]
      /\ Len(rows[l]) = Len(made.rows[l]) + run.batch
  BY <1>2, <1>3, AppendedIs
<1> HIDE DEF rows
<1>7. /\ \A i \in Layers \ {run.layer} : rows[i] = kv.rows[i]
      /\ l \in cfg.sliding => Len(rows[l]) <= cfg.window
  BY <1>3, <1>6
<1> QED BY <1>5, <1>6, <1>7 DEF rows

LEMMA GemmaReads ==
  ASSUME Inv, AtHostBlock, cfg.arch = "gemma", ~decode.hollow,
         NEW rows \in [Layers -> Seq(Int)], NEW stale, RowsAfter(rows[run.layer], stale, decode.hollow),
         run.layer \in cfg.sliding => Len(rows[run.layer]) <= cfg.window
  PROVE  gemma!attentionKV(rows, run.layer, kv.length + 1) = WindowOf(run.layer, Pos)
<1> DEFINE row == rows[run.layer]
<1>1. InLayer /\ run.batch = 1 /\ run.layer \in Layers /\ run.past \in Nat /\ kv.length = run.past
  BY HostIsCurrent, InLayerFacts DEF RowsInv
<1>2. row \in Seq(Int) /\ row = WindowOf(run.layer, Pos)
  BY <1>1, RowIsWindow
<1>3. cfg.window \in Nat /\ Len(row) \in Nat
  BY <1>1, <1>2, Numbers, InLayerFacts
<1>4. CASE run.layer \in cfg.sliding
  BY <1>2, <1>3, <1>4 DEF gemma!attentionKV
<1>5. CASE run.layer \notin cfg.sliding
  <2>1. Len(row) = kv.length + 1
    BY <1>1, <1>5 DEF RowsAfter
  <2>2. gemma!attentionKV(rows, run.layer, kv.length + 1) = SubSeq(row, 1, kv.length + 1)
    BY <1>5 DEF gemma!attentionKV
  <2> QED BY <1>2, <2>1, <2>2, SubSeqFull
<1> QED BY <1>4, <1>5

\* A layer with the hidden state on the host.
LEMMA GemmaLayer ==
  ASSUME Inv, cfg' = cfg, cfg.arch = "gemma", gemma!forwardBlock
  PROVE  Inv'
<1> DEFINE l == run.layer
           made == gemma!prepareSWAAppend(kv.rows, l)
           rows == Appended(made.rows, l, run.x)
           onHost == (gemma!attentionKV(rows, l, kv.length + 1) = WindowOf(l, Pos))
           may == ~cfg.softcap /\ l \notin cfg.sliding
<1>1. /\ AtHostBlock
      /\ \/ /\ l \in OnGPU /\ ~made.stale /\ HasSlots
            /\ HostLayer(rows, [kv |-> Written(l, run.x), stale |-> made.stale], DeviceReads(Written(l, run.x), l), TRUE)
         \/ \E m \in Mirror(l, ~made.stale, TRUE) :
              \E attended \in Attends(m.kv, l, may /\ ~(made.stale \/ m.stale), onHost) :
                HostLayer(rows, [kv |-> m.kv, stale |-> made.stale \/ m.stale], attended, TRUE)
  BY GemmaOps DEF gemma!forwardBlock, gemma!attentionScoresInto
<1>2. /\ InLayer /\ Alive /\ run.x = Hidden(Pos, l) /\ l \in Layers /\ decode \in Flags
      /\ run.batch = 1 /\ Pos = run.past /\ run.past \in Nat /\ Covered(cfg)
      /\ cfg.window \in Nat /\ cfg.window >= 1
  <2>1. /\ InLayer /\ Alive /\ run.x = Hidden(Pos, l) /\ run.batch = 1
    BY <1>1, HostIsCurrent
  <2>2. l \in Layers /\ decode \in Flags /\ run.past \in Nat /\ Pos = run.past + run.batch - 1 /\ Settled(cfg)
    BY <2>1, InLayerFacts
  <2> QED BY <2>1, <2>2, Numbers DEF Settled
<1>3. /\ made.stale \in BOOLEAN /\ (decode.stale => made.stale)
      /\ l \in cfg.sliding /\ OnGPU # {} /\ ~made.stale => run.past + 1 <= cfg.window
  BY <1>2, GemmaMakesRoom
<1>4. may \in BOOLEAN
  OBVIOUS
<1>5. ASSUME l \in OnGPU, ~made.stale, HasSlots,
             HostLayer(rows, [kv |-> Written(l, run.x), stale |-> made.stale], DeviceReads(Written(l, run.x), l), TRUE)
      PROVE  Inv'
  <2> DEFINE m == [kv |-> Written(l, run.x), stale |-> made.stale]
             attended == DeviceReads(Written(l, run.x), l)
  <2>1. FirstOf(l, run.past) = 0
    BY <1>2, <1>3, <1>5 DEF FirstOf
  <2>2. Written(l, run.x) \in [Layers -> SUBSET Int] /\ DeviceAfter(Written(l, run.x), FALSE) /\ DeviceReads(Written(l, run.x), l)
    BY <1>1, <1>3, <1>5, <2>1, FusedIs
  <2>3. attended = TRUE
    BY <2>2 DEF DeviceReads
  <2>4. made.stale = FALSE /\ decode.stale = FALSE
    BY <1>2, <1>3, <1>5 DEF Flags
  <2>5. /\ rows \in [Layers -> Seq(Int)] /\ \A i \in Layers \ {l} : rows[i] = kv.rows[i]
        /\ RowsAfter(rows[l], FALSE, decode.hollow)
    <3> HIDE DEF made
    <3> QED BY <1>1, <2>4, GemmaRows DEF made
  <2> HIDE DEF rows, made
  <2>6. m.kv = Written(l, run.x) /\ m.stale = FALSE /\ HostLayer(rows, m, attended, TRUE)
    BY <1>5, <2>4
  <2> HIDE DEF m, attended
  <2> QED BY <1>1, <2>2, <2>3, <2>4, <2>5, <2>6, HostLayerKeeps
<1>6. ASSUME NEW n \in Mirror(l, ~made.stale, TRUE),
             NEW attended \in Attends(n.kv, l, may /\ ~(made.stale \/ n.stale), onHost),
             HostLayer(rows, [kv |-> n.kv, stale |-> made.stale \/ n.stale], attended, TRUE)
      PROVE  Inv'
  <2> DEFINE stale == made.stale \/ n.stale
             m == [kv |-> n.kv, stale |-> stale]
             asked == may /\ ~stale
  <2>1. /\ n.kv \in [Layers -> SUBSET Int] /\ stale \in BOOLEAN /\ DeviceAfter(n.kv, stale)
        /\ made.stale => stale
        /\ decode.hollow => stale = decode.stale /\ ~stale
    <3> HIDE DEF made
    <3> QED BY <1>1, <1>6, GemmaMirror DEF made
  <2>2. m.kv = n.kv /\ m.stale = stale /\ HostLayer(rows, m, attended, TRUE)
        /\ attended \in Attends(n.kv, l, asked, onHost)
    BY <1>6
  <2> HIDE DEF stale
  <2>3. /\ rows \in [Layers -> Seq(Int)] /\ \A i \in Layers \ {l} : rows[i] = kv.rows[i]
        /\ RowsAfter(rows[l], stale, decode.hollow)
        /\ l \in cfg.sliding => Len(rows[l]) <= cfg.window
    <3> HIDE DEF made
    <3> QED BY <1>1, <2>1, GemmaRows DEF made
  <2> HIDE DEF rows, made
  <2>4. ~decode.hollow => onHost = TRUE
    BY <1>1, <2>3, GemmaReads
  <2>5. decode.hollow => asked
    BY <1>1, <2>1, GemmaHollow
  <2>6. attended = TRUE
    <3>1. asked \in BOOLEAN /\ (asked => Deaf \/ ~stale)
      OBVIOUS
    <3>2. asked => \A p \in run.past..Pos : FirstOf(l, p) = 0
      BY <1>2, Windows
    <3> HIDE DEF asked, onHost, may, m
    <3> QED BY <1>1, <2>1, <2>2, <2>4, <2>5, <3>1, <3>2, AttendedIs
  <2> HIDE DEF m, asked, onHost
  <2> QED BY <1>1, <2>1, <2>2, <2>3, <2>6, HostLayerKeeps
<1> HIDE DEF rows, made, onHost, may
<1> QED BY <1>1, <1>5, <1>6

\* The queries of a chunk, when the rows of the layer are all that there are.
LEMMA GemmaBatchReads ==
  ASSUME Inv, run.pc = "batch", cfg.arch = "gemma", ~decode.hollow,
         NEW rows \in [Layers -> Seq(Int)], NEW stale, RowsAfter(rows[run.layer], stale, decode.hollow),
         run.layer \in cfg.sliding => Len(rows[run.layer]) <= cfg.window,
         run.layer \in cfg.sliding => ~gemma!readsBeyondRows(rows, run.layer)
  PROVE  gemma!batchReads(rows, run.layer)
<1> DEFINE l == run.layer
           row == rows[l]
<1>1. InLayer /\ l \in Layers /\ run.past \in Nat /\ kv.length = run.past /\ run.batch \in Nat /\ run.batch >= 1
  BY HostIsCurrent, InLayerFacts DEF RowsInv
<1>2. row \in Seq(Int) /\ Len(row) \in Nat /\ cfg.window \in Nat
  BY <1>1, Numbers, InLayerFacts
<1>3. Len(row) <= run.past + run.batch /\ (l \notin cfg.sliding => Len(row) = run.past + run.batch)
      /\ \A i \in 1..Len(row) : row[i] = run.past + run.batch - Len(row) + i - 1
  BY DEF RowsAfter
<1>4. Len(row) = run.past + run.batch
  <2> SUFFICES ASSUME l \in cfg.sliding PROVE Len(row) = run.past + run.batch
    BY <1>3
  <2>1. run.batch - 1 \in 0..run.batch - 1 /\ kv.length + (run.batch - 1) + 1 = run.past + run.batch
    BY <1>1
  <2>2. gemma!querySlots(l, run.batch - 1) \subseteq 1..Len(row)
    BY <2>1 DEF gemma!readsBeyondRows
  <2>3. run.past + run.batch \in gemma!querySlots(l, run.batch - 1)
    BY <1>1, <1>2, <2>1 DEF gemma!querySlots
  <2> QED BY <1>1, <1>2, <1>3, <2>2, <2>3
<1>5. ASSUME NEW i \in 0..run.batch - 1
      PROVE  LET slots == gemma!querySlots(l, i)
                 first == FirstOf(l, run.past + i)
             IN  /\ Cardinality(slots) = run.past + i - first + 1
                 /\ \A s \in slots : row[s] = first + s - (kv.length + i + 1 - Cardinality(slots)) - 1
  <2> DEFINE n == run.past + i + 1
  <2>1. n \in Nat /\ n >= 1 /\ n <= Len(row) /\ i \in Int /\ kv.length + i + 1 = n
    BY <1>1, <1>2, <1>4
  <2>2. gemma!querySlots(l, i) = 1..n
    BY <1>1, <1>2, <2>1 DEF gemma!querySlots
  <2>3. Cardinality(1..n) = n
    <3>1. Cardinality(1..n) = IF 1 > n THEN 0 ELSE n - 1 + 1
      BY <2>1, FS_Interval
    <3> QED BY <2>1, <3>1
  <2>4. FirstOf(l, run.past + i) = 0
    BY <1>1, <1>2, <2>1 DEF FirstOf
  <2>5. \A s \in 1..n : row[s] = s - 1
    <3> SUFFICES ASSUME NEW s \in 1..n PROVE row[s] = s - 1
      OBVIOUS
    <3>1. s \in 1..Len(row)
      BY <1>2, <2>1
    <3>2. row[s] = run.past + run.batch - Len(row) + s - 1
      BY <1>3, <3>1
    <3>3. s \in Int
      BY <1>2, <3>1
    <3> DEFINE past == run.past
               batch == run.batch
               all == Len(row)
               value == row[s]
    <3>4. past \in Nat /\ batch \in Nat /\ all = past + batch /\ value = past + batch - all + s - 1
      BY <1>1, <1>4, <3>2
    <3>5. value = s - 1
      <4> HIDE DEF past, batch, all, value
      <4> QED BY <3>3, <3>4
    <3> QED BY <3>5
  <2>6. n = run.past + i - 0 + 1 /\ \A s \in 1..n : 0 + s - (kv.length + i + 1 - n) - 1 = s - 1
    BY <1>1, <2>1
  <2> HIDE DEF n
  <2>7. Cardinality(gemma!querySlots(l, i)) = n
    BY <2>2, <2>3
  <2> QED BY <2>2, <2>4, <2>5, <2>6, <2>7
<1>6. FirstOf(l, 0) = FirstOf(l, 0) /\ \A p : gemma!FirstOf(l, p) = FirstOf(l, p)
  BY GemmaOps
<1> HIDE DEF row
<1> QED BY <1>5, <1>6 DEF gemma!batchReads, gemma!Cardinality, Cardinality, row

\* A chunk's layer.
LEMMA GemmaBatch ==
  ASSUME Inv, cfg' = cfg, cfg.arch = "gemma", gemma!forwardBlockBatch
  PROVE  Inv'
<1> DEFINE l == run.layer
           made == gemma!prepareSWAAppend(kv.rows, l)
           rows == Appended(made.rows, l, run.x)
           may == ~cfg.softcap /\ l \notin cfg.sliding
           beyond == gemma!readsBeyondRows(rows, l)
           onHost == gemma!batchReads(rows, l)
<1>1. /\ run.pc = "batch"
      /\ \E n \in Mirror(l, ~made.stale, TRUE) :
           \/ run' = [run EXCEPT !.pc = "panic"] /\ UNCHANGED <<kv, dev, decode>>
           \/ /\ (~(made.stale \/ n.stale) /\ may) \/ ~beyond
              /\ \E attended \in Attends(n.kv, l, ~(made.stale \/ n.stale) /\ may, onHost) :
                   BatchLayer(rows, [kv |-> n.kv, stale |-> made.stale \/ n.stale], attended)
  BY GemmaOps DEF gemma!forwardBlockBatch
<1>2. /\ InLayer /\ Alive /\ run.x = Hidden(Pos, l) /\ l \in Layers /\ decode \in Flags /\ run \in Calls
  <2>1. /\ InLayer /\ Alive /\ run.x = Hidden(Pos, l)
    BY <1>1, HostIsCurrent
  <2> QED BY <2>1, InLayerFacts
<1>3. ASSUME run' = [run EXCEPT !.pc = "panic"], UNCHANGED <<kv, dev, decode>> PROVE Inv'
  <2>1. run' \in Calls /\ run'.pc = "panic"
    BY <1>2, <1>3, Atoms DEF Calls
  <2>2. TypeOK' /\ ~Alive' /\ Settled(cfg)'
    BY <1>3, <2>1 DEF Inv, TypeOK, Alive, Settled, Covered, Options
  <2>3. (decode.residency => MayReside(cfg))'
    BY <1>3 DEF Inv, MayReside, AllOffloaded
  <2> QED BY <2>1, <2>2, <2>3 DEF Inv
<1>4. ASSUME NEW n \in Mirror(l, ~made.stale, TRUE),
             (~(made.stale \/ n.stale) /\ may) \/ ~beyond,
             NEW attended \in Attends(n.kv, l, ~(made.stale \/ n.stale) /\ may, onHost),
             BatchLayer(rows, [kv |-> n.kv, stale |-> made.stale \/ n.stale], attended)
      PROVE  Inv'
  <2> DEFINE stale == made.stale \/ n.stale
             m == [kv |-> n.kv, stale |-> stale]
             asked == ~stale /\ may
  <2>1. /\ n.kv \in [Layers -> SUBSET Int] /\ stale \in BOOLEAN /\ DeviceAfter(n.kv, stale)
        /\ made.stale => stale
        /\ decode.hollow => stale = decode.stale /\ ~stale
    <3> HIDE DEF made
    <3> QED BY <1>1, <1>4, GemmaMirror DEF made
  <2>2. m.kv = n.kv /\ m.stale = stale /\ BatchLayer(rows, m, attended)
        /\ attended \in Attends(n.kv, l, asked, onHost) /\ (asked \/ ~beyond)
    BY <1>4
  <2> HIDE DEF stale
  <2>3. /\ rows \in [Layers -> Seq(Int)] /\ \A i \in Layers \ {l} : rows[i] = kv.rows[i]
        /\ RowsAfter(rows[l], stale, decode.hollow)
        /\ l \in cfg.sliding => Len(rows[l]) <= cfg.window
    <3> HIDE DEF made
    <3> QED BY <1>1, <2>1, GemmaRows DEF made
  <2> HIDE DEF rows, made
  <2>4. ~decode.hollow => onHost = TRUE
    <3>1. l \in cfg.sliding => ~beyond
      BY <2>2
    <3>2. ~decode.hollow => onHost
      BY <1>1, <2>3, <3>1, GemmaBatchReads
    <3>3. onHost \in BOOLEAN
      BY DEF gemma!batchReads
    <3> QED BY <3>2, <3>3
  <2>5. decode.hollow => asked
    BY <1>1, <2>1, GemmaHollow
  <2>6. attended = TRUE
    <3>1. asked \in BOOLEAN /\ (asked => Deaf \/ ~stale)
      OBVIOUS
    <3>2. asked => \A p \in run.past..Pos : FirstOf(l, p) = 0
      BY <1>2, Windows
    <3> HIDE DEF asked, onHost, may, m
    <3> QED BY <1>1, <2>1, <2>2, <2>4, <2>5, <3>1, <3>2, AttendedIs
  <2>7. ~decode.residDevice
    BY <1>1, <1>2, InLayerFacts DEF FlagsInv
  <2> HIDE DEF m, asked, onHost
  <2> QED BY <1>1, <2>1, <2>2, <2>3, <2>6, <2>7, BatchLayerKeeps
<1> HIDE DEF rows, made, onHost, may, beyond
<1> QED BY <1>1, <1>3, <1>4

\* x comes back to the host, with room made for its row.
LEMMA GemmaRecovers ==
  ASSUME Inv, cfg' = cfg, cfg.arch = "gemma", gemma!recoverHiddenFromDevice
  PROVE  Inv'
<1> DEFINE l == run.layer
           made == gemma!prepareSWAAppend(kv.rows, l)
<1>1. /\ AtDeviceBlock /\ ~decode.hollow /\ Recovers([decode EXCEPT !.stale = made.stale])
      /\ kv' = [kv EXCEPT !.rows = made.rows]
  BY GemmaOps DEF gemma!recoverHiddenFromDevice
<1>2. /\ InLayer /\ Alive /\ run.pc = "block" /\ RowsInv /\ l \in Layers /\ run.past \in Nat /\ decode \in Flags
      /\ run \in Calls /\ kv \in Mirrors /\ Done(l) = run.past /\ PlaceInv /\ cfg.window \in Nat
  <2>1. InLayer /\ Alive /\ run.pc = "block"
    BY <1>1 DEF AtDeviceBlock, InLayer, Alive
  <2> QED BY <2>1, InLayerFacts, Numbers
<1>3. /\ made.rows \in [Layers -> Seq(Int)] /\ \A m \in Layers \ {l} : made.rows[m] = kv.rows[m]
      /\ made.stale \in BOOLEAN /\ (decode.stale => made.stale) /\ RowsBefore(made.rows[l], made.stale)
  BY <1>2, GemmaMakesRoom
<1>4. ASSUME run'.pc = "host" PROVE RowsInv'
  <2>1. run' = [run EXCEPT !.pc = "host", !.x = dev.resid] /\ decode' = [[decode EXCEPT !.stale = made.stale] EXCEPT !.residDevice = FALSE, !.residency = FALSE]
    BY <1>1, <1>2, <1>4 DEF Recovers, Fails, Calls
  <2>2. /\ run'.past = run.past /\ run'.layer = run.layer /\ run'.batch = run.batch
        /\ decode'.stale = made.stale /\ decode'.hollow = decode.hollow
        /\ kv'.length = kv.length /\ kv'.rows = made.rows /\ run.batch = 1 /\ OnGPU' = OnGPU
    <3>1. run'.past = run.past /\ run'.layer = run.layer /\ run'.batch = run.batch
      BY <1>2, <2>1 DEF Calls
    <3>2. decode'.stale = made.stale /\ decode'.hollow = decode.hollow
      BY <1>2, <2>1 DEF Flags
    <3>3. kv'.length = kv.length /\ kv'.rows = made.rows
      BY <1>1, <1>2 DEF Mirrors
    <3>4. run.batch = 1
      BY <1>2 DEF PlaceInv
    <3>5. OnGPU' = OnGPU
      BY DEF OnGPU
    <3> QED BY <3>1, <3>2, <3>3, <3>4, <3>5
  <2>3. \A m \in Layers : Passed(m)' = Passed(m) /\ Slack(m)' = Slack(m) /\ Done(m)' = Done(m)
    BY <1>2, <1>4, <2>2 DEF Passed, Slack, Done, InLayer
  <2> PICK k \in Layers : k = run.layer
    BY <1>2
  <2>4. ASSUME NEW m \in Layers, m # k PROVE RowsOf(m)'
    <3>1. RowsOf(m) /\ kv'.rows[m] = kv.rows[m]
      BY <1>2, <1>3, <2>2, <2>4 DEF RowsInv
    <3> QED BY <1>3, <2>2, <2>3, <3>1 DEF RowsOf
  <2>5. RowsOf(k)'
    <3>1. Slack(k)' = 1
      <4>1. k \in Nat
        BY SizesAssumption, <1>2 DEF Layers
      <4> QED BY <1>4, <2>2, <4>1 DEF Slack
    <3>2. Done(k)' = run.past /\ kv'.rows[k] = made.rows[k]
      BY <1>2, <2>2, <2>3
    <3>3. /\ made.rows[k] \in Seq(Int) /\ Len(made.rows[k]) <= run.past
          /\ \A i \in 1..Len(made.rows[k]) : made.rows[k][i] = run.past - Len(made.rows[k]) + i - 1
                                            \/ (decode.hollow /\ made.rows[k][i] = Hollow)
          /\ \/ Len(made.rows[k]) = run.past
             \/ k \in cfg.sliding /\ Len(made.rows[k]) >= cfg.window - 1 /\ (made.stale \/ OnGPU = {})
      BY <1>3, <2>2 DEF RowsBefore
    <3> HIDE DEF made
    <3> QED BY <2>2, <3>1, <3>2, <3>3 DEF RowsOf
  <2>6. \A m \in Layers : RowsOf(m)'
    BY <2>4, <2>5
  <2> QED BY <1>2, <2>2, <2>6 DEF RowsInv
<1>5. ~Deaf
  BY DEF Deaf
<1> HIDE DEF made
<1> QED BY <1>1, <1>3, <1>4, <1>5, RecoversKeeps

\* gemma keeps the invariant.
LEMMA GemmaKeeps ==
  ASSUME Inv, cfg.arch = "gemma", gemma!Next
  PROVE  Inv'
<1>1. cfg' = cfg /\ cfg.arch # "deepseek2" /\ decode \in Flags /\ Cleared(AllCleared)
  BY ClearedFlags DEF gemma!Next, Inv, TypeOK
<1>2. CASE SharedSteps(AllCleared)
  BY <1>1, <1>2, SharedKeeps
<1>3. CASE gemma!forwardToken
  <2>1. /\ AtToken /\ StartsLayers /\ kv' = kv
        /\ \/ ~run.embed /\ Uploads(decode.residency /\ ~decode.stale)
           \/ run.embed /\ dev' = dev /\ decode' = decode
    BY <1>3, GemmaOps DEF gemma!forwardToken, gemma!uploadHidden
  <2> QED BY <1>1, <2>1, TokenKeeps
<1> DEFINE made == gemma!prepareSWAAppend(kv.rows, run.layer)
<1>4. ASSUME AtDeviceBlock
      PROVE  /\ InLayer /\ Alive /\ FlagsInv /\ MayReside(cfg) /\ OnGPU # {} /\ Covered(cfg) /\ run.batch = 1
             /\ run.past \in Nat /\ cfg.window \in Nat
             /\ made.stale /\ ~decode.stale => run.layer \in cfg.sliding
             /\ run.layer \in cfg.sliding /\ ~made.stale => run.past + 1 <= cfg.window
  <2>1. InLayer /\ Alive /\ run.pc = "block" /\ decode.residDevice
    BY <1>4 DEF AtDeviceBlock, InLayer, Alive
  <2>2. FlagsInv /\ Settled(cfg) /\ run.layer \in Layers /\ PlaceInv /\ run.past \in Nat
    BY <2>1, InLayerFacts
  <2>3. MayReside(cfg) /\ run.batch = 1
    BY <2>1, <2>2 DEF FlagsInv, PlaceInv
  <2>4. OnGPU = Layers
    BY <1>1, <2>1, <2>3, ResidentFacts
  <2>5. /\ made.stale /\ ~decode.stale => run.layer \in cfg.sliding
        /\ run.layer \in cfg.sliding /\ OnGPU # {} /\ ~made.stale => run.past + run.batch <= cfg.window
    BY <2>1, GemmaMakesRoom
  <2> HIDE DEF made
  <2> QED BY <2>1, <2>2, <2>3, <2>4, <2>5, Numbers DEF Settled
<1>5. CASE gemma!forwardBlockDevice
  <2>1. ~made.stale /\ DeviceLayer
    BY <1>5, GemmaOps DEF gemma!forwardBlockDevice
  <2>2. AtDeviceBlock
    BY <2>1 DEF DeviceLayer
  <2> HIDE DEF made
  <2>3. FirstOf(run.layer, run.past) = 0
    BY <1>4, <2>1, <2>2 DEF FirstOf
  <2> QED BY <1>1, <2>1, <2>3, DeviceLayerKeeps
<1>6. CASE gemma!deviceBlockStale /\ decode.hollow /\ ResetsAndFails(AllCleared)
  <2>1. AtDeviceBlock /\ made.stale
    BY <1>6, GemmaOps DEF gemma!deviceBlockStale
  <2> HIDE DEF made
  <2>2. ~decode.stale
    BY <1>4, <1>6, <2>1 DEF FlagsInv
  <2>3. cfg.faults # {}
    BY <1>4, <2>1, <2>2 DEF Covered, Options
  <2> QED BY <1>1, <1>6, <2>3, LostKeeps
<1>7. CASE gemma!recoverHiddenFromDevice
  BY <1>1, <1>7, GemmaRecovers
<1>8. CASE gemma!forwardBlock
  BY <1>1, <1>8, GemmaLayer
<1>9. CASE gemma!forwardBatch
  <2>1. StartsChunk(kv, decode, FALSE) \/ BatchLogits(decode.logitsOnGPU)
    BY <1>9, GemmaOps DEF gemma!forwardBatch
  <2>2. decode.logitsOnGPU \in BOOLEAN
    BY <1>1 DEF Flags
  <2> QED BY <1>1, <2>1, <2>2, ChunkKeeps, BatchLogitsKeeps
<1>10. CASE gemma!forwardBlockBatch
  BY <1>1, <1>10, GemmaBatch
<1>11. CASE gemma!logitsFinish
  <2> DEFINE asked == decode.residDevice
  <2>1. \/ LogitsOnDevice(FALSE)
        \/ AtLogits /\ FromHost([decode EXCEPT !.logitsOnGPU = decode.logitsOnGPU /\ ~asked], decode.logitsOnGPU /\ ~asked)
    BY <1>11, GemmaOps DEF gemma!logitsFinish
  <2>2. asked \in BOOLEAN /\ (decode.logitsOnGPU /\ ~asked) \in BOOLEAN
    BY <1>1 DEF Flags
  <2> HIDE DEF asked
  <2> QED BY <1>1, <2>1, <2>2, LogitsOnDeviceKeeps, LogitsKeeps
<1>12. CASE gemma!EmbedEndsOnHost
  <2>1. EmbedEndsOnHost
    BY <1>12, GemmaOps
  <2> QED BY <1>1, <2>1, EmbedEndsKeeps
<1> HIDE DEF made
<1>13. \/ SharedSteps(AllCleared)
       \/ gemma!forwardToken \/ gemma!forwardBlockDevice
       \/ gemma!deviceBlockStale /\ decode.hollow /\ ResetsAndFails(AllCleared)
       \/ gemma!recoverHiddenFromDevice \/ gemma!forwardBlock \/ gemma!forwardBatch \/ gemma!forwardBlockBatch
       \/ gemma!logitsFinish \/ gemma!EmbedEndsOnHost
  BY GemmaOps DEF gemma!Next, gemma!Forward, gemma!Embed, gemma!ResetCache, gemma!deviceBlockLost, SharedSteps
<1> QED BY <1>2, <1>3, <1>5, <1>6, <1>7, <1>8, <1>9, <1>10, <1>11, <1>12, <1>13

-----------------------------------------------------------------------------
(* deepseek2 *)

\* The operators of the instance are those of ForwardState.
LEMMA Deepseek2Ops ==
  /\ deepseek2!NoHidden = NoHidden
  /\ deepseek2!OnGPU = OnGPU
  /\ \A f : deepseek2!Fault(f) <=> Fault(f)
  /\ \A c : deepseek2!AllOffloaded(c) <=> AllOffloaded(c)
  /\ \A c, kvMaxSeq, serial, residency, logits : deepseek2!Loaded(c, kvMaxSeq, serial, residency, logits) = Loaded(c, kvMaxSeq, serial, residency, logits)
  /\ \A rows, l : deepseek2!RoomFor(rows, l) <=> RoomFor(rows, l)
  /\ \A rows, l, h : deepseek2!Appended(rows, l, h) = Appended(rows, l, h)
  /\ \A rows : deepseek2!Advanced(rows) = Advanced(rows)
  /\ deepseek2!HasSlots <=> HasSlots
  /\ \A l, h : deepseek2!Written(l, h) = Written(l, h)
  /\ \A dkv, l : deepseek2!DeviceReads(dkv, l) = DeviceReads(dkv, l)
  /\ \A rows, l : deepseek2!HostReads(rows, l) = HostReads(rows, l)
  /\ \A h, l, attended : deepseek2!Apply(h, l, attended) = Apply(h, l, attended)
  /\ deepseek2!Fails <=> Fails
  /\ \A n, batched : deepseek2!Starts(n, batched) <=> Starts(n, batched)
  /\ \A n, d : deepseek2!StartsEmbed(n, d) <=> StartsEmbed(n, d)
  /\ \A d : deepseek2!Resets(d) <=> Resets(d)
  /\ deepseek2!AllCleared = AllCleared
  /\ deepseek2!AtToken <=> AtToken
  /\ deepseek2!StartsLayers <=> StartsLayers
  /\ \A x : deepseek2!AfterLayer(x) = AfterLayer(x)
  /\ deepseek2!Experts = Experts
  /\ deepseek2!NoSum = NoSum
  /\ \A sum, n : deepseek2!WithExperts(sum, n) = WithExperts(sum, n)
  /\ \A sum : deepseek2!WithShared(sum) = WithShared(sum)
  /\ \A sum : deepseek2!Complete(sum) = Complete(sum)
  /\ \A d, asked : deepseek2!FromHost(d, asked) <=> FromHost(d, asked)
  /\ deepseek2!AtLogits <=> AtLogits
  /\ deepseek2!EmbedEnds <=> EmbedEnds
  /\ \A kept : deepseek2!LogitsOnDevice(kept) <=> LogitsOnDevice(kept)
  /\ \A asked : deepseek2!NoLogitsOnDevice(asked) <=> NoLogitsOnDevice(asked)
  /\ \A sum : deepseek2!AllExperts(sum) = AllExperts(sum)
<1>1. /\ deepseek2!NoHidden = NoHidden
      /\ deepseek2!OnGPU = OnGPU
      /\ \A f : deepseek2!Fault(f) <=> Fault(f)
      /\ \A c : deepseek2!AllOffloaded(c) <=> AllOffloaded(c)
      /\ \A c, kvMaxSeq, serial, residency, logits : deepseek2!Loaded(c, kvMaxSeq, serial, residency, logits) = Loaded(c, kvMaxSeq, serial, residency, logits)
      /\ \A rows, l : deepseek2!RoomFor(rows, l) <=> RoomFor(rows, l)
      /\ \A rows, l, h : deepseek2!Appended(rows, l, h) = Appended(rows, l, h)
      /\ \A rows : deepseek2!Advanced(rows) = Advanced(rows)
      /\ deepseek2!HasSlots <=> HasSlots
      /\ \A l, h : deepseek2!Written(l, h) = Written(l, h)
      /\ \A dkv, l : deepseek2!DeviceReads(dkv, l) = DeviceReads(dkv, l)
      /\ \A rows, l : deepseek2!HostReads(rows, l) = HostReads(rows, l)
      /\ \A h, l, attended : deepseek2!Apply(h, l, attended) = Apply(h, l, attended)
      /\ deepseek2!Fails <=> Fails
      /\ \A n, batched : deepseek2!Starts(n, batched) <=> Starts(n, batched)
      /\ \A n, d : deepseek2!StartsEmbed(n, d) <=> StartsEmbed(n, d)
      /\ \A d : deepseek2!Resets(d) <=> Resets(d)
      /\ deepseek2!AllCleared = AllCleared
      /\ deepseek2!AtToken <=> AtToken
      /\ deepseek2!StartsLayers <=> StartsLayers
      /\ \A x : deepseek2!AfterLayer(x) = AfterLayer(x)
      /\ deepseek2!Experts = Experts
      /\ deepseek2!NoSum = NoSum
      /\ \A sum, n : deepseek2!WithExperts(sum, n) = WithExperts(sum, n)
      /\ \A sum : deepseek2!WithShared(sum) = WithShared(sum)
      /\ \A sum : deepseek2!Complete(sum) = Complete(sum)
      /\ \A d, asked : deepseek2!FromHost(d, asked) <=> FromHost(d, asked)
      /\ deepseek2!AtLogits <=> AtLogits
      /\ deepseek2!EmbedEnds <=> EmbedEnds
      /\ \A kept : deepseek2!LogitsOnDevice(kept) <=> LogitsOnDevice(kept)
      /\ \A asked : deepseek2!NoLogitsOnDevice(asked) <=> NoLogitsOnDevice(asked)
  BY DEF deepseek2!Layers, deepseek2!Junk, deepseek2!Hidden, deepseek2!NoHidden, deepseek2!OnGPU,
         deepseek2!Fault, deepseek2!AllOffloaded, deepseek2!CapMaxSeq, deepseek2!Loaded, deepseek2!Pos,
         deepseek2!FirstOf, deepseek2!WindowOf, deepseek2!NewKV, deepseek2!RoomFor, deepseek2!Appended,
         deepseek2!Advanced, deepseek2!NewDevice, deepseek2!HasSlots, deepseek2!Written,
         deepseek2!DeviceReads, deepseek2!HostReads, deepseek2!Apply, deepseek2!Fails, deepseek2!Returns,
         deepseek2!Starts, deepseek2!StartsEmbed, deepseek2!Resets, deepseek2!AllCleared, deepseek2!AtToken,
         deepseek2!StartsLayers, deepseek2!AfterLayer, deepseek2!Experts, deepseek2!SharedPart,
         deepseek2!NoSum, deepseek2!WithExperts, deepseek2!AllExperts, deepseek2!WithShared,
         deepseek2!Complete, deepseek2!HeadOnDevice, deepseek2!FromHost, deepseek2!AtLogits,
         deepseek2!EmbedEnds, deepseek2!LogitsOnDevice, deepseek2!NoLogitsOnDevice, Layers, Junk, Hidden,
         NoHidden, OnGPU, Fault, AllOffloaded, CapMaxSeq, Loaded, Pos, FirstOf, WindowOf, NewKV, RoomFor,
         Appended, Advanced, NewDevice, HasSlots, Written, DeviceReads, HostReads, Apply, Fails, Returns,
         Starts, StartsEmbed, Resets, AllCleared, AtToken, StartsLayers, AfterLayer, Experts, SharedPart,
         NoSum, WithExperts, AllExperts, WithShared, Complete, HeadOnDevice, FromHost, AtLogits, EmbedEnds,
         LogitsOnDevice, NoLogitsOnDevice
<1>2. \A sum : deepseek2!AllExperts(sum) = AllExperts(sum)
  BY <1>1 DEF deepseek2!AllExperts, AllExperts, deepseek2!Cardinality, Cardinality
<1> QED BY <1>1, <1>2

\* What the layers of deepseek2 find.
LEMMA D2Facts ==
  ASSUME Inv, cfg.arch = "deepseek2", run.pc = "block"
  PROVE  /\ InLayer /\ Alive /\ ~InBatch /\ run.layer \in Layers /\ run.batch = 1 /\ Pos = run.past /\ run.past \in Nat
         /\ cfg.sliding = {} /\ kv.length = run.past /\ ~decode.hollow /\ ~Deaf /\ decode \in Flags /\ dev \in Machines
         /\ kv \in Mirrors /\ run \in Calls /\ FlagsInv /\ Covered(cfg) /\ CurrentInv
         /\ Hidden(Pos, run.layer) \in Vectors /\ Hidden(Pos, run.layer + 1) \in Vectors
         /\ (decode.residDevice => dev.active) => deepseek2!synced = Hidden(Pos, run.layer)
         /\ deepseek2!synced \in Vectors
<1>1. InLayer /\ Alive
  BY DEF InLayer, Alive
<1>2. /\ run.layer \in Layers /\ run.past \in Nat /\ decode \in Flags /\ dev \in Machines /\ kv \in Mirrors /\ run \in Calls
      /\ PlaceInv /\ FlagsInv /\ CurrentInv /\ Settled(cfg) /\ Pos = run.past + run.batch - 1
  BY <1>1, InLayerFacts
<1>3. ~InBatch /\ run.batch = 1 /\ ~decode.hollow
  BY <1>2 DEF PlaceInv, FlagsInv
<1>4. cfg.sliding = {} /\ kv.length = run.past /\ Covered(cfg) /\ ~Deaf
  BY <1>1, <1>2, Windows DEF Settled, Deaf
<1>5. Pos = run.past /\ run.layer \in Nat
  BY <1>2, <1>3, SizesAssumption DEF Layers
<1>6. Hidden(Pos, run.layer) \in Vectors /\ Hidden(Pos, run.layer + 1) \in Vectors
  BY <1>2, <1>5, Atoms
<1>7. (decode.residDevice => dev.active) => deepseek2!synced = Hidden(Pos, run.layer)
  BY <1>2, <1>5 DEF CurrentInv, deepseek2!synced
<1>8. deepseek2!synced \in Vectors
  BY <1>2 DEF deepseek2!synced, Machines, Calls
<1> QED BY <1>1, <1>2, <1>3, <1>4, <1>5, <1>6, <1>7, <1>8

\* A layer is passed, with the hidden state on either side.
LEMMA D2Passes ==
  ASSUME Inv, cfg' = cfg, cfg.arch = "deepseek2", run.pc = "block", NEW x \in Vectors, run' = AfterLayer(x),
         NEW rows \in [Layers -> Seq(Int)], kv' = Advanced(rows),
         \A m \in Layers \ {run.layer} : rows[m] = kv.rows[m],
         RowsAfter(rows[run.layer], decode'.stale, decode.hollow),
         dev' \in Machines, decode' \in Flags, DeviceAfter(dev'.kv, decode'.stale),
         decode'.hollow = decode.hollow, decode'.residency => decode.residency,
         IF decode'.residDevice THEN MayReside(cfg) /\ dev'.active /\ dev'.resid = Hidden(Pos, run.layer + 1)
         ELSE x = Hidden(Pos, run.layer + 1)
  PROVE  Inv'
<1>1. /\ InLayer /\ Alive /\ run.layer \in Layers /\ run.layer \in Nat /\ run.batch = 1 /\ Pos = run.past /\ run.past \in Nat
      /\ ~decode.hollow /\ FlagsInv /\ kv.length = run.past
  BY D2Facts, SizesAssumption DEF Layers
<1>2. Passes(x)
  BY DEF Passes
<1>3. /\ run' \in Calls /\ run'.x = x /\ run'.embed = run.embed /\ Alive' /\ PlaceInv'
      /\ Last \/ run.layer + 1 < NumLayers
      /\ ~Last => run'.layer = run.layer + 1 /\ run'.past = run.past /\ run'.pc = "block"
      /\ Last => run'.past = run.past + 1 /\ run'.pc \in {"token", "logits"}
  BY <1>1, <1>2, PassesOn
<1>4. kv' \in Mirrors
  BY <1>1 DEF Advanced, Mirrors
<1>5. TypeOK'
  BY <1>3, <1>4 DEF TypeOK
<1>6. RowsInv' /\ DeviceInv'
  BY <1>1, <1>2, <1>5, PassesRows
<1>7. Settled(cfg)' /\ (decode'.residency => MayReside(cfg)') /\ (decode'.residDevice => MayReside(cfg)')
  BY <1>1 DEF Inv, Settled, Covered, Options, MayReside, AllOffloaded, FlagsInv
<1>8. FlagsInv'
  <2>1. ~InBatch' /\ run'.pc # "host" /\ run'.pc # "idle" /\ run'.pc \notin {"batch", "batchLogits"}
    BY <1>3 DEF InBatch
  <2>2. (run'.pc = "block" /\ run'.layer > 0) \/ run'.past >= 1
    BY <1>1, <1>3
  <2> QED BY <1>1, <1>7, <2>1, <2>2 DEF FlagsInv
<1>9. CurrentInv'
  <2>1. CASE Last
    <3>1. run'.past - 1 = run.past /\ run.layer + 1 = NumLayers
      BY <1>1, <1>3, <2>1 DEF Last
    <3> QED BY <1>1, <1>3, <2>1, <3>1 DEF CurrentInv
  <2>2. CASE ~Last
    BY <1>1, <1>3, <2>2 DEF CurrentInv
  <2> QED BY <2>1, <2>2
<1> QED BY <1>3, <1>5, <1>6, <1>7, <1>8, <1>9 DEF Inv

\* The attention of a layer, on the device or on the host.
LEMMA D2Attends ==
  ASSUME Inv, cfg.arch = "deepseek2", run.pc = "block", NEW h, h = Hidden(Pos, run.layer),
         NEW rows, rows = Appended(kv.rows, run.layer, h), NEW m \in deepseek2!mlaAttn(rows, run.layer, h)
  PROVE  /\ rows \in [Layers -> Seq(Int)] /\ \A i \in Layers \ {run.layer} : rows[i] = kv.rows[i]
         /\ m.kv \in [Layers -> SUBSET Int] /\ m.stale \in BOOLEAN /\ DeviceAfter(m.kv, m.stale)
         /\ RowsAfter(rows[run.layer], m.stale, decode.hollow)
         /\ m = [kv |-> m.kv, stale |-> m.stale, attended |-> TRUE]
<1> DEFINE l == run.layer
           onGPU == cfg.absorbed /\ l \in OnGPU /\ ~decode.stale
           dkv == Written(l, h)
<1>1. /\ InLayer /\ l \in Layers /\ run.batch = 1 /\ run.batch \in Nat /\ Pos = run.past /\ run.past \in Nat
      /\ cfg.sliding = {} /\ kv.length = run.past /\ ~decode.hollow /\ ~Deaf /\ decode \in Flags /\ kv \in Mirrors
      /\ Covered(cfg) /\ dev.kv \in [Layers -> SUBSET Int]
  BY D2Facts DEF Machines
<1>2. kv.rows \in [Layers -> Seq(Int)] /\ RowsBefore(kv.rows[l], decode.stale)
  BY <1>1, RowsAreBefore DEF Mirrors
<1>3. /\ rows \in [Layers -> Seq(Int)] /\ \A i \in Layers \ {l} : rows[i] = kv.rows[i]
  <2>1. run.batch \in Nat /\ run.past \in Nat /\ kv.rows \in [Layers -> Seq(Int)] /\ l \in Layers
    BY <1>1, <1>2
  <2>2. /\ Appended(kv.rows, l, h) \in [Layers -> Seq(Int)]
        /\ \A i \in Layers \ {l} : Appended(kv.rows, l, h)[i] = kv.rows[i]
    BY <2>1, AppendedIs
  <2> QED BY <2>2
<1>4. \A stale \in BOOLEAN : RowsAfter(rows[l], stale, decode.hollow)
  <2> SUFFICES ASSUME NEW stale \in BOOLEAN PROVE RowsAfter(rows[l], stale, decode.hollow)
    OBVIOUS
  <2>1. RowsBefore(kv.rows[l], stale)
    BY <1>1, <1>2 DEF RowsBefore
  <2> QED BY <1>1, <1>2, <2>1, RowsAppended
<1>5. HostReads(rows, l) = TRUE
  <2>1. HostReads(rows, l)
    <3>1. FALSE \in BOOLEAN /\ l \notin cfg.sliding
      BY <1>1
    <3> QED BY <1>1, <1>3, <1>4, <3>1, HostIsRight
  <2>2. HostReads(rows, l) \in BOOLEAN
    BY DEF HostReads
  <2> QED BY <2>1, <2>2
<1>6. \/ /\ onGPU /\ HasSlots /\ m = [kv |-> dkv, stale |-> FALSE, attended |-> DeviceReads(dkv, l)]
      \/ /\ ~onGPU \/ ~HasSlots \/ Fault("append")
         /\ m = [kv |-> dev.kv, stale |-> (decode.stale \/ onGPU), attended |-> HostReads(rows, l)]
      \/ /\ onGPU /\ HasSlots
         /\ m = [kv |-> dkv, stale |-> TRUE, attended |-> HostReads(rows, l)]
  BY Deepseek2Ops DEF deepseek2!mlaAttn, deepseek2!mlaAttnGPU, deepseek2!mlaAttnLegacy
<1>7. ASSUME onGPU PROVE /\ DeviceAfter(dkv, FALSE) /\ DeviceAfter(dkv, TRUE) /\ dkv \in [Layers -> SUBSET Int]
                         /\ HasSlots => DeviceReads(dkv, l) = TRUE
  <2>1. DeviceAfter(dkv, decode.stale) /\ dkv \in [Layers -> SUBSET Int] /\ decode.stale = FALSE
    BY <1>1, <1>7, WrittenAfter DEF Flags
  <2>2. DeviceAfter(dkv, TRUE)
    BY <1>1, <2>1 DEF DeviceAfter, Counts
  <2>3. Counts(FALSE)
    BY <1>7 DEF Counts
  <2>4. \A p \in run.past..Pos : FirstOf(l, p) = 0
    BY <1>1, Windows
  <2>5. HasSlots => DeviceReads(dkv, l)
    <3> HIDE DEF dkv
    <3> QED BY <1>1, <1>7, <2>1, <2>3, <2>4, DeviceIsRight
  <2>6. DeviceReads(dkv, l) \in BOOLEAN
    BY DEF DeviceReads
  <2> QED BY <2>1, <2>2, <2>5, <2>6
<1>8. /\ (decode.stale \/ onGPU) \in BOOLEAN
      /\ DeviceAfter(dev.kv, (decode.stale \/ onGPU))
  <2>1. CASE onGPU
    <3>1. (decode.stale \/ onGPU) = TRUE /\ ~Counts(TRUE)
      BY <1>1, <2>1 DEF Counts
    <3>2. DeviceAfter(dev.kv, TRUE)
      BY <1>1, <3>1, NotWritten
    <3> QED BY <3>1, <3>2
  <2>2. CASE ~onGPU
    <3>1. (decode.stale \/ onGPU) = decode.stale /\ decode.stale \in BOOLEAN
      BY <1>1, <2>2 DEF Flags
    <3>2. l \notin OnGPU \/ ~Counts(decode.stale)
      BY <1>1, <2>2 DEF Counts
    <3>3. DeviceAfter(dev.kv, decode.stale)
      BY <1>1, <3>1, <3>2, NotWritten
    <3> QED BY <3>1, <3>3
  <2> QED BY <2>1, <2>2
<1> HIDE DEF onGPU, dkv
<1>9. /\ m.kv \in [Layers -> SUBSET Int] /\ m.stale \in BOOLEAN /\ DeviceAfter(m.kv, m.stale)
      /\ m = [kv |-> m.kv, stale |-> m.stale, attended |-> TRUE]
  <2>1. CASE onGPU /\ HasSlots /\ m = [kv |-> dkv, stale |-> FALSE, attended |-> DeviceReads(dkv, l)]
    <3> DEFINE b == FALSE
    <3>1. m = [kv |-> dkv, stale |-> b, attended |-> TRUE] /\ b \in BOOLEAN /\ DeviceAfter(dkv, b) /\ dkv \in [Layers -> SUBSET Int]
      BY <1>7, <2>1
    <3> HIDE DEF b
    <3> QED BY <3>1
  <2>2. CASE m = [kv |-> dev.kv, stale |-> (decode.stale \/ onGPU), attended |-> HostReads(rows, l)]
    <3> DEFINE b == decode.stale \/ onGPU
    <3>1. m = [kv |-> dev.kv, stale |-> b, attended |-> TRUE] /\ b \in BOOLEAN /\ DeviceAfter(dev.kv, b)
      BY <1>5, <1>8, <2>2
    <3> HIDE DEF b
    <3> QED BY <1>1, <3>1
  <2>3. CASE onGPU /\ HasSlots /\ m = [kv |-> dkv, stale |-> TRUE, attended |-> HostReads(rows, l)]
    <3> DEFINE b == TRUE
    <3>1. m = [kv |-> dkv, stale |-> b, attended |-> TRUE] /\ b \in BOOLEAN /\ DeviceAfter(dkv, b) /\ dkv \in [Layers -> SUBSET Int]
      BY <1>5, <1>7, <2>3
    <3> HIDE DEF b
    <3> QED BY <3>1
  <2> QED BY <1>6, <2>1, <2>2, <2>3
<1> QED BY <1>3, <1>4, <1>9

\* A layer up to its FFN.
LEMMA D2Layer ==
  ASSUME Inv, cfg.arch = "deepseek2", deepseek2!AtLayer, NEW m \in deepseek2!Attended
  PROVE  /\ run.pc = "block"
         /\ LET rows == Appended(kv.rows, run.layer, Hidden(Pos, run.layer))
            IN  /\ rows \in [Layers -> Seq(Int)] /\ \A i \in Layers \ {run.layer} : rows[i] = kv.rows[i]
                /\ RowsAfter(rows[run.layer], m.stale, decode.hollow) /\ kv' = Advanced(rows)
         /\ m.kv \in [Layers -> SUBSET Int] /\ m.stale \in BOOLEAN /\ DeviceAfter(m.kv, m.stale)
         /\ m.attended = Hidden(Pos, run.layer + 1)
<1> DEFINE l == run.layer
           h == Hidden(Pos, l)
           rows == Appended(kv.rows, l, h)
<1>1. run.pc = "block" /\ (decode.residDevice => dev.active)
      /\ kv' = Advanced(Appended(kv.rows, l, deepseek2!synced))
  BY Deepseek2Ops DEF deepseek2!AtLayer
<1>2. deepseek2!synced = h
  BY <1>1, D2Facts
<1>3. PICK n \in deepseek2!mlaAttn(rows, l, h) : m = [n EXCEPT !.attended = Apply(h, l, n.attended)]
  <2>1. \E n \in deepseek2!mlaAttn(Appended(kv.rows, l, deepseek2!synced), l, deepseek2!synced) :
          m = [n EXCEPT !.attended = Apply(deepseek2!synced, l, n.attended)]
    BY Deepseek2Ops DEF deepseek2!Attended
  <2> QED BY <1>2, <2>1
<1> HIDE DEF rows, h
<1>4. /\ rows \in [Layers -> Seq(Int)] /\ \A i \in Layers \ {run.layer} : rows[i] = kv.rows[i]
      /\ n.kv \in [Layers -> SUBSET Int] /\ n.stale \in BOOLEAN /\ DeviceAfter(n.kv, n.stale)
      /\ RowsAfter(rows[run.layer], n.stale, decode.hollow)
      /\ n = [kv |-> n.kv, stale |-> n.stale, attended |-> TRUE]
  BY <1>1, <1>3, D2Attends DEF rows, h
<1>5. n.attended = TRUE
  BY <1>4
<1>6. m.kv = n.kv /\ m.stale = n.stale /\ m.attended = Apply(h, l, n.attended)
  <2> DEFINE x == Apply(h, l, n.attended)
             k == n.kv
             s == n.stale
  <2>1. n = [kv |-> k, stale |-> s, attended |-> TRUE] /\ m = [n EXCEPT !.attended = x]
    BY <1>3, <1>4
  <2> HIDE DEF x, k, s
  <2>2. m.kv = k /\ m.stale = s /\ m.attended = x
    BY <2>1
  <2> QED BY <2>2 DEF x, k, s
<1>7. m.attended = Hidden(Pos, l + 1)
  BY <1>5, <1>6 DEF Apply, h
<1>8. m.stale \in BOOLEAN /\ DeviceAfter(m.kv, m.stale) /\ RowsAfter(rows[run.layer], m.stale, decode.hollow)
  BY <1>4, <1>6
<1> QED BY <1>1, <1>2, <1>4, <1>6, <1>7, <1>8 DEF rows, h

\* All experts are added once, when none of them fails.
LEMMA D2Experts ==
  ASSUME NEW l, NEW sum \in IF cfg.moe THEN deepseek2!ffnMoE(l, NoSum) ELSE deepseek2!ffnDense(NoSum)
  PROVE  Complete(sum) = TRUE /\ Complete(WithExperts(sum, 0)) = TRUE
<1>1. AllExperts(NoSum) = [e \in 1..3 |-> IF e = 3 THEN 0 ELSE 1]
  BY TwoExperts DEF AllExperts, WithExperts, NoSum, Experts, SharedPart
<1>2. sum = WithShared(AllExperts(NoSum))
  <2>1. \A g \in deepseek2!moeExpertsGPU(l, NoSum) : IF g.ok THEN g.sum = AllExperts(NoSum) ELSE g.sum = NoSum
    BY Deepseek2Ops DEF deepseek2!moeExpertsGPU
  <2>2. CASE cfg.moe
    <3>1. PICK g \in deepseek2!moeExpertsGPU(l, NoSum) :
            sum = deepseek2!sharedExpert(IF g.ok THEN g.sum ELSE AllExperts(g.sum))
      BY <2>2, Deepseek2Ops DEF deepseek2!ffnMoE
    <3> QED BY <2>1, <3>1, Deepseek2Ops DEF deepseek2!sharedExpert
  <2>3. CASE ~cfg.moe
    BY <2>3, Deepseek2Ops DEF deepseek2!ffnDense
  <2> QED BY <2>2, <2>3
<1>3. sum = [e \in 1..3 |-> 1]
  <2>1. sum = [AllExperts(NoSum) EXCEPT ![3] = 1]
    BY <1>1, <1>2 DEF WithShared, SharedPart
  <2> QED BY <1>1, <2>1
<1>4. WithExperts(sum, 0) = sum
  BY <1>3 DEF WithExperts
<1> QED BY <1>3, <1>4 DEF Complete

\* The FFN on the host, on the device, or brought back from it.
LEMMA D2HostFFN ==
  ASSUME Inv, cfg' = cfg, cfg.arch = "deepseek2", deepseek2!forwardBlock
  PROVE  Inv'
<1> DEFINE l == run.layer
           rows == Appended(kv.rows, l, Hidden(Pos, l))
           x == Hidden(Pos, l + 1)
<1>1. PICK m \in deepseek2!Attended : deepseek2!AtLayer /\ deepseek2!HostFFN(m)
  BY DEF deepseek2!forwardBlock
<1>2. /\ run.pc = "block"
      /\ rows \in [Layers -> Seq(Int)] /\ \A i \in Layers \ {l} : rows[i] = kv.rows[i]
      /\ RowsAfter(rows[l], m.stale, decode.hollow) /\ kv' = Advanced(rows)
      /\ m.kv \in [Layers -> SUBSET Int] /\ m.stale \in BOOLEAN /\ DeviceAfter(m.kv, m.stale)
      /\ m.attended = x
  BY <1>1, D2Layer
<1>3. PICK sum \in IF cfg.moe THEN deepseek2!ffnMoE(l, NoSum) ELSE deepseek2!ffnDense(NoSum) :
        run' = AfterLayer(IF Complete(sum) THEN m.attended ELSE NoHidden)
  BY <1>1, Deepseek2Ops DEF deepseek2!HostFFN
<1>4. run' = AfterLayer(x)
  BY <1>2, <1>3, D2Experts
<1>5. /\ dev' = [dev EXCEPT !.kv = m.kv, !.active = dev.active /\ ~decode.residDevice]
      /\ decode' = [decode EXCEPT !.stale = m.stale, !.residDevice = FALSE]
  BY <1>1 DEF deepseek2!HostFFN
<1> HIDE DEF rows
<1>6. dev \in Machines /\ decode \in Flags /\ x \in Vectors
  BY <1>2, D2Facts
<1>7. dev' \in Machines /\ dev'.kv = m.kv
  BY <1>2, <1>5, <1>6 DEF Machines
<1>8. /\ decode' \in Flags /\ decode'.stale = m.stale /\ ~decode'.residDevice /\ decode'.hollow = decode.hollow
      /\ decode'.residency = decode.residency
  BY <1>2, <1>5, <1>6 DEF Flags
<1> HIDE DEF x
<1>9. IF decode'.residDevice THEN MayReside(cfg) /\ dev'.active /\ dev'.resid = Hidden(Pos, run.layer + 1)
      ELSE x = Hidden(Pos, run.layer + 1)
  BY <1>8 DEF x
<1> QED BY <1>2, <1>4, <1>6, <1>7, <1>8, <1>9, D2Passes

LEMMA D2DeviceFFN ==
  ASSUME Inv, cfg' = cfg, cfg.arch = "deepseek2", deepseek2!forwardBlockDevice
  PROVE  Inv'
<1> DEFINE l == run.layer
           rows == Appended(kv.rows, l, Hidden(Pos, l))
<1>1. PICK m \in deepseek2!Attended : deepseek2!AtLayer /\ deepseek2!DeviceFFN(m)
  BY DEF deepseek2!forwardBlockDevice
<1>2. /\ run.pc = "block"
      /\ rows \in [Layers -> Seq(Int)] /\ \A i \in Layers \ {l} : rows[i] = kv.rows[i]
      /\ RowsAfter(rows[l], m.stale, decode.hollow) /\ kv' = Advanced(rows)
      /\ m.kv \in [Layers -> SUBSET Int] /\ m.stale \in BOOLEAN /\ DeviceAfter(m.kv, m.stale)
      /\ m.attended = Hidden(Pos, l + 1)
  BY <1>1, D2Layer
<1>3. /\ run' = AfterLayer(NoHidden) /\ decode.residency
      /\ dev' = [kv |-> m.kv, resid |-> m.attended, active |-> TRUE]
      /\ decode' = [decode EXCEPT !.stale = m.stale, !.residDevice = TRUE]
  BY <1>1, Deepseek2Ops DEF deepseek2!DeviceFFN
<1> HIDE DEF rows
<1>4. decode \in Flags /\ Hidden(Pos, l + 1) \in Vectors /\ FlagsInv /\ NoHidden \in Vectors
  BY <1>2, D2Facts, Atoms
<1>5. dev' \in Machines /\ dev'.kv = m.kv /\ dev'.active /\ dev'.resid = Hidden(Pos, l + 1)
  BY <1>2, <1>3, <1>4 DEF Machines
<1>6. /\ decode' \in Flags /\ decode'.stale = m.stale /\ decode'.residDevice /\ decode'.hollow = decode.hollow
      /\ decode'.residency = decode.residency
  BY <1>2, <1>3, <1>4 DEF Flags
<1>7. MayReside(cfg)
  BY <1>3, <1>4 DEF FlagsInv
<1> QED BY <1>2, <1>3, <1>4, <1>5, <1>6, <1>7, D2Passes

LEMMA D2Recovers ==
  ASSUME Inv, cfg' = cfg, cfg.arch = "deepseek2", deepseek2!recoverHiddenFromDevice
  PROVE  Inv'
<1> DEFINE l == run.layer
           rows == Appended(kv.rows, l, Hidden(Pos, l))
           x == Hidden(Pos, l + 1)
<1>1. PICK m \in deepseek2!Attended : deepseek2!AtLayer /\ deepseek2!Recovered(m)
  BY DEF deepseek2!recoverHiddenFromDevice
<1>2. /\ run.pc = "block"
      /\ rows \in [Layers -> Seq(Int)] /\ \A i \in Layers \ {l} : rows[i] = kv.rows[i]
      /\ RowsAfter(rows[l], m.stale, decode.hollow) /\ kv' = Advanced(rows)
      /\ m.kv \in [Layers -> SUBSET Int] /\ m.stale \in BOOLEAN /\ DeviceAfter(m.kv, m.stale)
      /\ m.attended = x
  BY <1>1, D2Layer
<1>3. /\ decode.residency /\ dev' = [dev EXCEPT !.kv = m.kv, !.active = FALSE]
      /\ decode' = [decode EXCEPT !.stale = m.stale, !.residDevice = FALSE, !.residency = FALSE]
  BY <1>1 DEF deepseek2!Recovered
<1> HIDE DEF rows
<1>4. /\ dev \in Machines /\ decode \in Flags /\ x \in Vectors /\ FlagsInv /\ Covered(cfg) /\ kv \in Mirrors /\ run \in Calls
  BY <1>2, D2Facts
<1>5. dev' \in Machines /\ dev'.kv = m.kv
  BY <1>2, <1>3, <1>4 DEF Machines
<1>6. /\ decode' \in Flags /\ decode'.stale = m.stale /\ ~decode'.residDevice /\ decode'.hollow = decode.hollow
      /\ ~decode'.residency
  BY <1>2, <1>3, <1>4 DEF Flags
<1>7. CASE Fails /\ (Fault("upload") \/ Fault("download"))
  <2>1. cfg.faults # {}
    BY <1>7 DEF Fault
  <2>2. run' \in Calls /\ run'.pc = "failed"
    BY <1>4, <1>7, Atoms DEF Fails, Calls
  <2>3. kv' \in Mirrors
    <3>1. kv.length \in Nat /\ run.batch \in Nat
      BY <1>4 DEF Mirrors, Calls
    <3> QED BY <1>2, <3>1 DEF Advanced, Mirrors
  <2> QED BY <1>5, <1>6, <2>1, <2>2, <2>3, FailureKeeps DEF TypeOK
<1>8. CASE \E n \in deepseek2!forwardBlockDeviceMoE :
             \E sum \in IF cfg.moe THEN deepseek2!ffnMoE(l, NoSum) ELSE deepseek2!ffnDense(NoSum) :
               run' = AfterLayer(IF Complete(WithExperts(sum, n)) THEN m.attended ELSE NoHidden)
  <2>1. MayReside(cfg)
    BY <1>3, <1>4 DEF FlagsInv
  <2>2. deepseek2!forwardBlockDeviceMoE = {0}
    <3>1. ~(cfg.moe /\ deepseek2!Fault("expert"))
      BY <1>4, <2>1, Deepseek2Ops DEF Covered, Options, Fault
    <3> QED BY <3>1 DEF deepseek2!forwardBlockDeviceMoE
  <2>3. PICK sum \in IF cfg.moe THEN deepseek2!ffnMoE(l, NoSum) ELSE deepseek2!ffnDense(NoSum) :
          run' = AfterLayer(IF Complete(WithExperts(sum, 0)) THEN m.attended ELSE NoHidden)
    BY <1>8, <2>2
  <2>4. run' = AfterLayer(x)
    BY <1>2, <2>3, D2Experts
  <2> HIDE DEF x
  <2>5. IF decode'.residDevice THEN MayReside(cfg) /\ dev'.active /\ dev'.resid = Hidden(Pos, run.layer + 1)
        ELSE x = Hidden(Pos, run.layer + 1)
    BY <1>6 DEF x
  <2> QED BY <1>2, <1>4, <1>5, <1>6, <2>4, <2>5, D2Passes
<1>9. \/ Fails /\ (Fault("upload") \/ Fault("download"))
      \/ \E n \in deepseek2!forwardBlockDeviceMoE :
           \E sum \in IF cfg.moe THEN deepseek2!ffnMoE(l, NoSum) ELSE deepseek2!ffnDense(NoSum) :
             run' = AfterLayer(IF Complete(WithExperts(sum, n)) THEN m.attended ELSE NoHidden)
  BY <1>1, Deepseek2Ops DEF deepseek2!Recovered
<1> QED BY <1>7, <1>8, <1>9

\* deepseek2 keeps the invariant.
LEMMA Deepseek2Keeps ==
  ASSUME Inv, cfg.arch = "deepseek2", deepseek2!Next
  PROVE  Inv'
<1> DEFINE d == [AllCleared EXCEPT !.logitsOnGPU = FALSE]
<1>1. cfg' = cfg /\ decode \in Flags /\ Cleared(d) /\ dev \in Machines /\ run \in Calls /\ kv \in Mirrors
      /\ (decode.residency => MayReside(cfg))
  <2>1. Cleared(d)
    BY ClearedFlags
  <2> QED BY <2>1 DEF deepseek2!Next, Inv, TypeOK
<1>2. deepseek2!cleared = d
  BY Deepseek2Ops DEF deepseek2!cleared
<1> HIDE DEF d
<1>3. CASE \E n \in 1..CtxLen : Starts(n, FALSE) \/ StartsEmbed(n, d)
  BY <1>1, <1>3, StartKeeps, EmbedKeeps
<1>4. CASE Resets(d)
  BY <1>1, <1>4, ResetKeeps
<1>5. CASE deepseek2!forwardToken
  <2>1. AtToken /\ StartsLayers /\ kv' = kv /\ dev' = dev /\ decode' = decode
    BY <1>5, Deepseek2Ops DEF deepseek2!forwardToken
  <2>2. RowsInv'
    BY <1>1, <2>1, TokenRows
  <2>3. decode.stale \in BOOLEAN /\ decode' = [decode EXCEPT !.stale = decode.stale] /\ kv' \in Mirrors
    BY <1>1, <2>1 DEF Flags
  <2> QED BY <1>1, <2>1, <2>2, <2>3, NoUploadKeeps
<1>6. CASE deepseek2!syncFails
  <2>1. /\ run.pc = "block" /\ decode.residDevice /\ (~dev.active \/ Fault("download")) /\ Fails /\ kv' = kv
        /\ dev' = [dev EXCEPT !.active = FALSE] /\ decode' = [decode EXCEPT !.residDevice = FALSE]
    BY <1>6, Deepseek2Ops DEF deepseek2!syncFails
  <2>2. Alive
    BY <2>1 DEF Alive
  <2>3. cfg.faults # {}
    BY <2>1, <2>2, ResidentFails
  <2>4. run' \in Calls /\ run'.pc = "failed"
    BY <1>1, <2>1, Atoms DEF Fails, Calls
  <2>5. dev' \in Machines /\ decode' \in Flags /\ decode'.residency = decode.residency
    BY <1>1, <2>1 DEF Machines, Flags
  <2> QED BY <1>1, <2>1, <2>3, <2>4, <2>5, FailureKeeps DEF TypeOK
<1>7. CASE deepseek2!LayerFails
  <2>1. /\ run.pc = "block" /\ Fault("matmul") /\ Fails
        /\ dev' = [dev EXCEPT !.active = dev.active /\ ~decode.residDevice] /\ decode' = [decode EXCEPT !.residDevice = FALSE]
        /\ \/ kv' = kv
           \/ kv' = [kv EXCEPT !.rows = Appended(kv.rows, run.layer, deepseek2!synced)]
    BY <1>7, Deepseek2Ops DEF deepseek2!LayerFails
  <2>2. cfg.faults # {}
    BY <2>1 DEF Fault
  <2>3. run' \in Calls /\ run'.pc = "failed"
    BY <1>1, <2>1, Atoms DEF Fails, Calls
  <2>4. dev' \in Machines /\ decode' \in Flags /\ decode'.residency = decode.residency
    BY <1>1, <2>1 DEF Machines, Flags
  <2>5. kv' \in Mirrors
    <3>1. run.layer \in Layers /\ run.batch \in Nat /\ run.past \in Nat /\ kv.rows \in [Layers -> Seq(Int)]
      BY <1>1, <2>1, D2Facts DEF Mirrors
    <3>2. Appended(kv.rows, run.layer, deepseek2!synced) \in [Layers -> Seq(Int)]
      BY <3>1, AppendedIs
    <3> QED BY <1>1, <2>1, <3>2 DEF Mirrors
  <2> QED BY <1>1, <2>2, <2>3, <2>4, <2>5, FailureKeeps DEF TypeOK
<1>8. CASE deepseek2!forwardBlock
  BY <1>1, <1>8, D2HostFFN
<1>9. CASE deepseek2!forwardBlockDevice
  BY <1>1, <1>9, D2DeviceFFN
<1>10. CASE deepseek2!recoverHiddenFromDevice
  BY <1>1, <1>10, D2Recovers
<1>11. CASE deepseek2!logitsFinish
  <2> DEFINE asked == decode.residDevice /\ decode.logitsOnGPU
  <2>1. \/ LogitsOnDevice(TRUE)
        \/ AtLogits /\ FromHost([decode EXCEPT !.logitsOnGPU = decode.logitsOnGPU /\ ~asked], FALSE)
    BY <1>11, Deepseek2Ops DEF deepseek2!logitsFinish
  <2>2. asked \in BOOLEAN
    BY <1>1 DEF Flags
  <2> HIDE DEF asked
  <2> QED BY <1>1, <2>1, <2>2, LogitsOnDeviceKeeps, LogitsKeeps
<1>12. CASE EmbedEnds
  BY <1>1, <1>12, EmbedFromHostKeeps
<1>13. \/ \E n \in 1..CtxLen : Starts(n, FALSE) \/ StartsEmbed(n, d)
       \/ Resets(d) \/ deepseek2!forwardToken \/ deepseek2!syncFails \/ deepseek2!LayerFails
       \/ deepseek2!forwardBlock \/ deepseek2!forwardBlockDevice \/ deepseek2!recoverHiddenFromDevice
       \/ deepseek2!logitsFinish \/ EmbedEnds
  BY <1>2, Deepseek2Ops DEF deepseek2!Next, deepseek2!Forward, deepseek2!Embed, deepseek2!ResetCache
<1> QED BY <1>3, <1>4, <1>5, <1>6, <1>7, <1>8, <1>9, <1>10, <1>11, <1>12, <1>13

-----------------------------------------------------------------------------
(* A loaded model. *)

KVRows(c) == IF c.arch = "mistral" /\ c.sliding # {} /\ c.window < c.ctx THEN c.window ELSE c.ctx

\* What every Load makes of its options, whatever the architecture.
LoadsAs(c, serial, residency, logits) ==
  /\ Load(c) = Loaded(c, KVRows(c), serial, residency, logits)
  /\ residency = TRUE => MayReside(c)
  /\ c.arch = "mistral" /\ c.sliding # {} => serial = TRUE
  /\ {serial, residency, logits} \subseteq BOOLEAN

\* Load is Loaded, and residency is never wished for more than it may.
LEMMA LoadIs ==
  ASSUME NEW c, Covered(c)
  PROVE  \E serial, residency, logits : LoadsAs(c, serial, residency, logits)
<1>1. c.arch \in Archs /\ c.moe \in BOOLEAN /\ c.fused \in BOOLEAN
      /\ (c.sliding # {} => c.arch \in {"gemma", "mistral"}) /\ AllOffloaded(c) \in BOOLEAN
  BY DEF Covered, Options, AllOffloaded
<1> DEFINE all == AllOffloaded(c)
           fused == c.fused
           fits == c.fused /\ AllOffloaded(c)
           moe == c.moe
           no == FALSE
           yes == TRUE
<1>2. CASE c.arch = "llama"
  <2>1. Load(c) = Loaded(c, c.ctx, no, fits, fits)
    BY <1>2, LlamaOps DEF Load, llama!Load, llama!initResidency
  <2>2. LoadsAs(c, no, fits, fits)
    BY <1>1, <1>2, <2>1 DEF LoadsAs, MayReside, KVRows
  <2> QED BY <2>2
<1>3. CASE c.arch = "phi3"
  <2> DEFINE resident == phi3!initResidency(c)
             logits == phi3!AllOffloaded(c)
  <2>1. resident = fits /\ logits = all
    BY DEF phi3!initResidency, phi3!AllOffloaded, AllOffloaded
  <2>2. Load(c) = phi3!Loaded(c, c.ctx, no, resident, logits)
    BY <1>3 DEF Load, phi3!Load
  <2>3. Load(c) = Loaded(c, c.ctx, no, resident, logits)
    <3> HIDE DEF resident, logits, no
    <3> QED BY <2>2, Phi3Ops
  <2>4. LoadsAs(c, no, resident, logits)
    <3> HIDE DEF resident, logits
    <3> QED BY <1>1, <1>3, <2>1, <2>3 DEF LoadsAs, MayReside, KVRows
  <2> QED BY <2>4
<1>4. CASE c.arch = "phi2"
  <2> DEFINE resident == phi2!initResidency(c)
             logits == phi2!AllOffloaded(c)
  <2>1. resident = fits /\ logits = all
    BY DEF phi2!initResidency, phi2!AllOffloaded, AllOffloaded
  <2>2. Load(c) = phi2!Loaded(c, c.ctx, no, resident, logits)
    BY <1>4 DEF Load, phi2!Load
  <2>3. Load(c) = Loaded(c, c.ctx, no, resident, logits)
    <3> HIDE DEF resident, logits, no
    <3> QED BY <2>2, Phi2Ops
  <2>4. LoadsAs(c, no, resident, logits)
    <3> HIDE DEF resident, logits
    <3> QED BY <1>1, <1>4, <2>1, <2>3 DEF LoadsAs, MayReside, KVRows
  <2> QED BY <2>4
<1>5. CASE c.arch = "deepseek"
  <2> DEFINE resident == deepseek!initResidency(c)
             logits == deepseek!AllOffloaded(c)
  <2>1. resident = fits /\ logits = all
    BY DEF deepseek!initResidency, deepseek!AllOffloaded, AllOffloaded
  <2>2. Load(c) = deepseek!Loaded(c, c.ctx, moe, resident, logits)
    BY <1>5 DEF Load, deepseek!Load
  <2>3. Load(c) = Loaded(c, c.ctx, moe, resident, logits)
    <3> HIDE DEF resident, logits, moe
    <3> QED BY <2>2, DeepseekOps
  <2>4. LoadsAs(c, moe, resident, logits)
    <3> HIDE DEF resident, logits
    <3> QED BY <1>1, <1>5, <2>1, <2>3 DEF LoadsAs, MayReside, KVRows
  <2> QED BY <2>4
<1>6. CASE c.arch = "gemma"
  <2> DEFINE resident == gemma!initResidency(c)
             logits == gemma!AllOffloaded(c)
  <2>1. resident = fits /\ logits = all
    BY DEF gemma!initResidency, gemma!AllOffloaded, AllOffloaded
  <2>2. Load(c) = gemma!Loaded(c, c.ctx, no, resident, logits)
    BY <1>6 DEF Load, gemma!load
  <2>3. Load(c) = Loaded(c, c.ctx, no, resident, logits)
    <3> HIDE DEF resident, logits, no
    <3> QED BY <2>2, GemmaOps
  <2>4. LoadsAs(c, no, resident, logits)
    <3> HIDE DEF resident, logits
    <3> QED BY <1>1, <1>6, <2>1, <2>3 DEF LoadsAs, MayReside, KVRows
  <2> QED BY <2>4
<1>7. CASE c.arch = "deepseek2"
  <2>1. Load(c) = Loaded(c, c.ctx, yes, fits, fits)
    BY <1>7, Deepseek2Ops DEF Load, deepseek2!Load, deepseek2!initResidency
  <2>2. LoadsAs(c, yes, fits, fits)
    BY <1>1, <1>7, <2>1 DEF LoadsAs, MayReside, KVRows
  <2> QED BY <2>2
<1>8. CASE c.arch = "mistral"
  <2> DEFINE serial == c.moe \/ c.sliding # {}
             resident == c.fused /\ AllOffloaded(c) /\ c.sliding = {}
             logits == resident \/ (c.moe /\ AllOffloaded(c))
  <2>1. Load(c) = Loaded(c, KVRows(c), serial, resident, logits)
    BY <1>8, MistralOps
    DEF Load, mistral!loadWithConfig, mistral!initResidency, mistral!kvMaxSeq, mistral!initMoELogits, KVRows
  <2>2. LoadsAs(c, serial, resident, logits)
    BY <1>1, <1>8, <2>1 DEF LoadsAs, MayReside
  <2> QED BY <2>2
<1> QED BY <1>1, <1>2, <1>3, <1>4, <1>5, <1>6, <1>7, <1>8 DEF Archs

\* A loaded model is settled, and resides only where it may.
LEMMA LoadSettles ==
  ASSUME NEW c, Covered(c)
  PROVE  /\ Settled(Load(c).cfg)
         /\ Load(c).decode \in Flags
         /\ Load(c).decode.residency => MayReside(Load(c).cfg)
         /\ ~Load(c).decode.residDevice /\ ~Load(c).decode.stale /\ ~Load(c).decode.hollow
<1>1. PICK serial, residency, logits : LoadsAs(c, serial, residency, logits)
  BY LoadIs
<1> DEFINE ngl == IF c.ngl > NumLayers THEN NumLayers ELSE c.ngl
           nBatch == IF serial \/ c.nBatch < 1 THEN 1 ELSE c.nBatch
           maxSeq == CapMaxSeq(c.ctx, c.gpuMaxSeq)
           kvCap == KVRows(c)
           made == [c EXCEPT !.ngl = ngl, !.nBatch = nBatch, !.maxSeq = maxSeq, !.kvCap = kvCap]
           flags == [residDevice |-> FALSE, residency |-> residency, logitsOnGPU |-> logits,
                     stale |-> FALSE, hollow |-> FALSE]
<1>2. Load(c).cfg = made /\ Load(c).decode = flags
  BY <1>1 DEF LoadsAs, Loaded
<1>3. flags \in Flags /\ ~flags.residDevice /\ ~flags.stale /\ ~flags.hollow /\ flags.residency = residency
  BY <1>1 DEF LoadsAs, Flags
<1>4. c \in Options /\ c.window \in Nat /\ c.window >= 1 /\ c.nBatch \in Nat /\ c.ngl \in Nat /\ c.ctx \in Nat /\ NumLayers \in Nat
      /\ c.gpuMaxSeq \in Nat
  BY SizesAssumption DEF Covered, Options
<1>5. /\ ngl \in Nat /\ ngl <= NumLayers /\ (ngl >= NumLayers <=> c.ngl >= NumLayers)
      /\ nBatch \in Nat /\ nBatch >= 1 /\ (serial = TRUE => nBatch = 1)
      /\ (c.nBatch <= 1 => nBatch <= 1) /\ (c.nBatch <= c.window => nBatch <= c.window)
      /\ kvCap \in Nat /\ kvCap = KVRows(c)
  BY <1>4 DEF KVRows
<1>6. maxSeq \in Nat /\ maxSeq = CapMaxSeq(c.ctx, c.gpuMaxSeq)
  BY <1>4 DEF CapMaxSeq
<1> HIDE DEF ngl, nBatch, maxSeq, kvCap
<1>7. /\ made \in Options
      /\ made.ngl = ngl /\ made.nBatch = nBatch /\ made.maxSeq = maxSeq /\ made.kvCap = kvCap
  BY <1>4, <1>5, <1>6 DEF Options
<1>8. /\ made.arch = c.arch /\ made.ctx = c.ctx /\ made.gpuMaxSeq = c.gpuMaxSeq /\ made.window = c.window
      /\ made.sliding = c.sliding /\ made.moe = c.moe /\ made.softcap = c.softcap
      /\ made.fused = c.fused /\ made.faults = c.faults
  BY <1>4 DEF Options
<1> HIDE DEF made
<1>9. MayReside(made) = MayReside(c) /\ OffDevice(made) = OffDevice(c)
  BY <1>5, <1>7, <1>8 DEF MayReside, OffDevice, AllOffloaded
<1>10. Covered(made)
  BY <1>4, <1>5, <1>7, <1>8, <1>9 DEF Covered
<1>11. Settled(made)
  BY <1>1, <1>5, <1>6, <1>7, <1>8, <1>10 DEF Settled, KVRows, LoadsAs
<1>12. flags.residency => MayReside(made)
  BY <1>1, <1>3, <1>9 DEF LoadsAs
<1> HIDE DEF flags
<1> QED BY <1>2, <1>3, <1>11, <1>12

\* A model that was just loaded.
LEMMA LoadedKeeps ==
  ASSUME NEW c, Covered(c), cfg = Load(c).cfg, decode = Load(c).decode,
         kv = NewKV, dev = NewDevice, run = Idle
  PROVE  Inv
<1>1. /\ Settled(cfg) /\ decode \in Flags /\ (decode.residency => MayReside(cfg))
      /\ ~decode.residDevice /\ ~decode.stale /\ ~decode.hollow
  BY LoadSettles
<1>2. run \in Calls /\ run.pc = "idle" /\ run.past = 0 /\ ~run.embed
  BY DEF Idle, Calls, Places, NoHidden, Hidden, Vectors
<1>3. TypeOK
  BY <1>1, <1>2, NewTypes DEF TypeOK
<1>4. ~InLayer /\ ~InBatch /\ \A l : Done(l) = 0 /\ Passed(l) = 0
  BY <1>2 DEF InLayer, InBatch, Done, Passed
<1>5. cfg.ctx \in Nat
  BY <1>1, Numbers
<1>6. PlaceInv
  BY <1>2, <1>4, <1>5 DEF PlaceInv
<1>7. RowsInv
  <2>1. kv.length = 0 /\ \A l \in Layers : Len(kv.rows[l]) = 0
    BY NewTypes
  <2>2. ASSUME NEW l \in Layers
        PROVE  RowsOf(l)
    BY <1>4, <2>1 DEF RowsOf
  <2> QED BY <1>2, <2>1, <2>2 DEF RowsInv
<1>8. DeviceInv
  BY <1>1, <1>4 DEF DeviceInv
<1>9. FlagsInv
  BY <1>1, <1>2, <1>4 DEF FlagsInv
<1>10. CurrentInv
  BY <1>2 DEF CurrentInv
<1> QED BY <1>1, <1>2, <1>3, <1>6, <1>7, <1>8, <1>9, <1>10 DEF Inv

LEMMA InitInv ==
  ASSUME \A c \in Configs : Covered(c)
  PROVE  Init => Inv
BY LoadedKeeps DEF Init

\* The process that panicked starts again, with one of the models that Load
\* makes of the options it ran with.
LEMMA InitInvNext ==
  ASSUME \A c \in Configs : Covered(c)
  PROVE  (Init => Inv)'
<1>1. Init => Inv
  BY InitInv
<1> QED BY <1>1, PTL

LEMMA RestartKeeps ==
  ASSUME \A c \in Configs : Covered(c), Restart
  PROVE  Inv'
<1>1. Init'
  BY DEF Restart, Init
<1>2. (Init => Inv)'
  BY InitInvNext
<1> QED BY <1>1, <1>2

LEMMA NextInv ==
  ASSUME \A c \in Configs : Covered(c), Inv, [Next]_vars
  PROVE  Inv'
<1>1. CASE Restart
  BY <1>1, RestartKeeps
<1>2. CASE UNCHANGED vars
  BY <1>2
  DEF vars, Inv, TypeOK, Alive, PlaceInv, RowsInv, RowsOf, DeviceInv, FlagsInv, CurrentInv, InLayer, InBatch,
      Done, Passed, Slack, Pos, Counts, Deaf, OnGPU
<1>3. CASE Next /\ ~Restart
  BY <1>3, LlamaKeeps, MistralKeeps, GemmaKeeps, Phi3Keeps, Phi2Keeps, DeepseekKeeps, Deepseek2Keeps DEF Next
<1> QED BY <1>1, <1>2, <1>3

LEMMA Invariance ==
  ASSUME \A c \in Configs : Covered(c)
  PROVE  Spec => []Inv
<1>1. Init => Inv
  BY InitInv
<1>2. Inv /\ [Next]_vars => Inv'
  BY NextInv
<1> QED BY <1>1, <1>2, PTL DEF Spec

-----------------------------------------------------------------------------
(* What the invariant says of a call that is over. *)

\* Between calls the rows that are there are those of all positions but for the
\* ones a window has dropped.
LEMMA RowsBetweenCalls ==
  ASSUME Inv, Returned, ~decode.hollow
  PROVE  MirrorsAgree
<1>1. run.past \in Nat /\ Alive /\ RowsInv /\ \A l : Passed(l) = 0 /\ Done(l) = run.past
  BY DEF Inv, TypeOK, Calls, Returned, Alive, Passed, InLayer, Done
<1>2. ASSUME NEW l \in Layers, NEW i \in DOMAIN kv.rows[l]
      PROVE  /\ kv.rows[l][i] = run.past - Len(kv.rows[l]) + i - 1
             /\ Len(kv.rows[l]) >= IF l \in cfg.sliding /\ cfg.window < run.past
                                   THEN cfg.window ELSE run.past
  <2> DEFINE row == kv.rows[l]
  <2>1. row \in Seq(Int) /\ Len(row) \in Nat /\ i \in 1..Len(row)
    BY DEF Inv, TypeOK, Mirrors
  <2>2. Len(row) <= run.past /\ row[i] = run.past - Len(row) + i - 1
    BY <1>1, <2>1 DEF RowsInv, RowsOf
  <2>3. Len(row) = run.past \/ (l \in cfg.sliding /\ Len(row) >= cfg.window - Slack(l))
    BY <1>1 DEF RowsInv, RowsOf
  <2>4. Slack(l) = 0 /\ cfg.window \in Nat
    BY Numbers DEF Slack, Returned, Inv
  <2> HIDE DEF row
  <2>5. Len(row) >= IF l \in cfg.sliding /\ cfg.window < run.past THEN cfg.window ELSE run.past
    BY <1>1, <2>1, <2>2, <2>3, <2>4
  <2> QED BY <2>2, <2>5 DEF row
<1> QED BY <1>2 DEF MirrorsAgree

LEMMA InvImplies ==
  ASSUME Inv
  PROVE  AnswerRight /\ MirrorsKept /\ NoFailureUnprovoked
<1>1. AnswerRight
  BY DEF Inv, AnswerRight, Returned, Alive, CurrentInv
<1>2. MirrorsAgree
  BY RowsBetweenCalls DEF MirrorsAgree
<1>3. DeviceAgrees
  <2> SUFFICES ASSUME Returned, ~decode.stale, cfg.absorbed, run.past <= cfg.maxSeq, NEW l \in OnGPU
               PROVE  0..run.past-1 \subseteq dev.kv[l]
    BY DEF DeviceAgrees
  <2>1. DeviceInv /\ Done(l) = run.past
    BY DEF Inv, TypeOK, Calls, Returned, Alive, Passed, InLayer, Done
  <2> QED BY <2>1 DEF DeviceInv, Counts
<1>4. NoFailureUnprovoked
  BY DEF Inv, NoFailureUnprovoked
<1> QED BY <1>1, <1>2, <1>3, <1>4 DEF MirrorsKept

\* Whatever the architecture, the layers, the context and the models that a
\* process is started with: as long as each is Covered, what Forward or Embed
\* returns is the hidden state of the last token after all layers, computed over
\* the conversation's own rows, on whichever side attention ran.
THEOREM AnswersAreRight ==
  ASSUME \A c \in Configs : Covered(c)
  PROVE  Spec => []AnswerRight
<1>1. Spec => []Inv
  BY Invariance
<1>2. Inv => AnswerRight
  BY InvImplies
<1> QED BY <1>1, <1>2, PTL

\* Between calls the host mirror (mempool.KV) and the device KV hold the rows of
\* the conversation wherever CPUKVHollow and GPUKVStale do not take it back.
THEOREM MirrorsAreKept ==
  ASSUME \A c \in Configs : Covered(c)
  PROVE  Spec => []MirrorsKept
<1>1. Spec => []Inv
  BY Invariance
<1>2. Inv => MirrorsKept
  BY InvImplies
<1> QED BY <1>1, <1>2, PTL

\* A model on whose device nothing fails fails no call: no recovery, no lack of
\* room and no hollow mirror ends one.
THEOREM FailuresAreProvoked ==
  ASSUME \A c \in Configs : Covered(c)
  PROVE  Spec => []NoFailureUnprovoked
<1>1. Spec => []Inv
  BY Invariance
<1>2. Inv => NoFailureUnprovoked
  BY InvImplies
<1> QED BY <1>1, <1>2, PTL
=============================================================================
