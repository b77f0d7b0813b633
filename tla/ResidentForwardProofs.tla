------------------------ MODULE ResidentForwardProofs ------------------------
(***************************************************************************)
(* The types of ResidentForward, that the layers of the KV stay together,  *)
(* that a hollow mirror is announced, that the device holds what the host  *)
(* does, and that answers are right, for every number of layers, context   *)
(* length, batch size, device and set of faults.                           *)
(***************************************************************************)
EXTENDS ResidentForward, TLAPS

\* What each place of a call relies on: there is a token to work on and room
\* for all that are left.
Places ==
  /\ run.pc \in {"token", "chunk", "block", "host", "batch"} =>
       run.todo > 0 /\ kv.length + run.todo <= CtxLen
  /\ run.pc \in {"block", "host"} => run.batch = 1
  /\ run.pc = "batch" => run.batch > 0 /\ run.batch <= run.todo
  /\ run.pc \in {"block", "host", "batch"} => run.layer \in Layers

IInv == TypeOK /\ Places /\ LayersTogether /\ HollowAnnounced

\* The conjuncts of TypeOK, one per variable.
RowKinds == {"right", "hollow", "junk"}

KVOK ==
  /\ kv \in [rows : [Layers -> Seq(RowKinds)], length : 0..CtxLen]
  /\ \A l \in Layers : Len(kv.rows[l]) <= CtxLen

DeviceRows == [Layers -> SUBSET Positions]

DevOK ==
  dev \in [kv : DeviceRows, resid : HiddenStates, active : BOOLEAN,
           maxSeq : MaxSeqs, ngl : NGLs, faults : FaultSets]

DecodeOK ==
  decode \in [residDevice : BOOLEAN, residency : BOOLEAN, stale : BOOLEAN,
              hollow : BOOLEAN, logitsOnGPU : BOOLEAN]

RunOK ==
  run \in [pc : PCs, layer : 0..NumLayers, todo : 0..CtxLen, batch : 0..CtxLen,
           x : HiddenStates, logits : HiddenStates, embed : BOOLEAN]

\* The type invariant, part by part.
LEMMA TypeParts == TypeOK <=> KVOK /\ DevOK /\ DecodeOK /\ RunOK
  BY DEF TypeOK, KVOK, DevOK, DecodeOK, RunOK, RowKinds, DeviceRows

HasHollow(rows) ==
  \E l \in Layers : \E i \in 1..Len(rows[l]) : rows[l][i] = "hollow"

\* rows are those of the mirror with n more in the current layer.
Grown(rows, n) ==
  /\ rows \in [Layers -> Seq(RowKinds)]
  /\ \A l \in Layers :
       Len(rows[l]) = Len(kv.rows[l]) + (IF l = run.layer THEN n ELSE 0)

-----------------------------------------------------------------------------
(* Lemmas about the helpers *)

\* The position a pass works on lies in the context.
LEMMA PosInContext ==
  ASSUME IInv, run.pc \in {"block", "host", "batch"}
  PROVE  Pos \in Positions /\ kv.length..Pos \subseteq Positions
  <1> USE SizesAssumption, TypeParts
  <1>1. kv.length \in Nat /\ run.todo \in Nat /\ run.batch \in Nat
    BY DEF IInv, KVOK, RunOK
  <1>2. kv.length + run.todo <= CtxLen /\ run.batch > 0 /\ run.batch <= run.todo
    BY <1>1 DEF IInv, Places
  <1> QED
    BY <1>1, <1>2 DEF Pos, Positions

\* The empty hidden state is one, and a layer makes one of one.
LEMMA HiddenTypes ==
  /\ NoHidden \in HiddenStates
  /\ \A p \in Positions, l \in 0..NumLayers : Hidden(p, l) \in HiddenStates
  /\ \A h : \A p \in Positions, l \in Layers, a \in BOOLEAN :
       Apply(h, p, l, a) \in HiddenStates
  <1>1. \A l \in Layers : l + 1 \in 0..NumLayers
    BY SizesAssumption DEF Layers
  <1> QED
    BY <1>1 DEF HiddenStates, Apply

\* A write to the device keeps the type of its rows.
LEMMA DeviceWriteType ==
  ASSUME DevOK, NEW l \in Layers, NEW h, NEW ps \in SUBSET Positions
  PROVE  DeviceWrite(l, h, ps) \in DeviceRows
  BY DEF DevOK, DeviceWrite, DeviceRows

\* What mirroring and recovery leave on the device.
LEMMA RecoveryType ==
  ASSUME DevOK, NEW rows \in [Layers -> Seq(RowKinds)],
         \A l \in Layers : Len(rows[l]) <= CtxLen
  PROVE  Recovery(rows) \subseteq [kv : DeviceRows, stale : BOOLEAN]
  <1>1. ASSUME NEW l \in Layers
        PROVE  HostRight(rows, l) \subseteq Positions
    <2>1. Len(rows[l]) \in Nat
      OBVIOUS
    <2> QED
      BY <2>1, SizesAssumption DEF HostRight, Positions
  <1>2. \A j : Rewritten(rows, j) \in DeviceRows
    BY <1>1 DEF Rewritten, DeviceRows, DevOK
  <1>3. dev.kv \in DeviceRows
    BY DEF DevOK
  <1>4. \A j : (j < NumLayers) \in BOOLEAN
    OBVIOUS
  <1> SUFFICES ASSUME NEW m \in Recovery(rows)
               PROVE  m \in [kv : DeviceRows, stale : BOOLEAN]
    OBVIOUS
  <1>5. CASE decode.hollow
    <2>1. m = [kv |-> dev.kv, stale |-> TRUE]
      BY <1>5 DEF Recovery
    <2>2. TRUE \in BOOLEAN
      OBVIOUS
    <2> QED
      BY <2>1, <2>2, <1>3
  <1>6. CASE ~decode.hollow
    <2>1. PICK j : m = [kv |-> Rewritten(rows, j), stale |-> j < NumLayers]
      BY <1>6 DEF Recovery
    <2> QED
      BY <2>1, <1>2, <1>4
  <1> QED
    BY <1>5, <1>6

\* Mirroring rows to the device keeps its type.
LEMMA MirrorType ==
  ASSUME DevOK, DecodeOK, NEW l \in Layers, NEW h, NEW ps \in SUBSET Positions,
         NEW rows \in [Layers -> Seq(RowKinds)],
         \A k \in Layers : Len(rows[k]) <= CtxLen
  PROVE  Mirror(rows, l, h, ps) \subseteq [kv : DeviceRows, stale : BOOLEAN]
  <1>1. DeviceWrite(l, h, ps) \in DeviceRows
    BY DeviceWriteType
  <1>2. dev.kv \in DeviceRows /\ decode.stale \in BOOLEAN
    BY DEF DevOK, DecodeOK
  <1>3. Recovery(rows) \subseteq [kv : DeviceRows, stale : BOOLEAN]
    BY RecoveryType
  <1> SUFFICES ASSUME NEW m \in Mirror(rows, l, h, ps)
               PROVE  m \in [kv : DeviceRows, stale : BOOLEAN]
    OBVIOUS
  <1>4. \/ m = [kv |-> dev.kv, stale |-> decode.stale]
        \/ m = [kv |-> DeviceWrite(l, h, ps), stale |-> FALSE]
        \/ m \in Recovery(rows)
    BY DEF Mirror
  <1>5. FALSE \in BOOLEAN
    OBVIOUS
  <1>6. CASE m = [kv |-> dev.kv, stale |-> decode.stale]
    BY <1>2, <1>6
  <1>7. CASE m = [kv |-> DeviceWrite(l, h, ps), stale |-> FALSE]
    BY <1>1, <1>5, <1>7
  <1>8. CASE m \in Recovery(rows)
    BY <1>3, <1>8
  <1> QED
    BY <1>4, <1>6, <1>7, <1>8

\* Attention finds the right rows, or does not.
LEMMA AttentionsType ==
  \A m, rows, l : Attentions(m, rows, l) \subseteq BOOLEAN
  BY DEF Attentions, DeviceAttends, HostAttends

\* AppendN adds n rows to the current layer, none of them hollow.
LEMMA AppendRowsGrow ==
  ASSUME KVOK, run.layer \in Layers, NEW h, NEW n \in Nat
  PROVE  LET rows == AppendRows(run.layer, h, n)
         IN  Grown(rows, n) /\ (HasHollow(rows) => HasHollow(kv.rows))
  <1> DEFINE old == kv.rows[run.layer]
             new == [i \in 1..n |-> IF h = Hidden(Pos, run.layer) THEN "right" ELSE "junk"]
             rows == [kv.rows EXCEPT ![run.layer] = old \o new]
  <1>1. old \in Seq(RowKinds) /\ new \in Seq(RowKinds) /\ Len(new) = n
    BY DEF KVOK, RowKinds
  <1>2. /\ old \o new \in Seq(RowKinds)
        /\ Len(old \o new) = Len(old) + n
        /\ \A i \in 1..Len(old) : (old \o new)[i] = old[i]
        /\ \A i \in Len(old)+1..Len(old)+n : (old \o new)[i] = new[i - Len(old)]
    BY <1>1
  <1> HIDE DEF new
  <1>3. AppendRows(run.layer, h, n) = rows
    BY DEF AppendRows, new, old
  <1>4. /\ rows \in [Layers -> Seq(RowKinds)]
        /\ rows[run.layer] = old \o new
        /\ \A l \in Layers \ {run.layer} : rows[l] = kv.rows[l]
    BY <1>2 DEF KVOK
  <1>5. \A l \in Layers : Len(kv.rows[l]) \in Nat
    BY DEF KVOK
  <1> HIDE DEF rows
  <1>6. Grown(rows, n)
    <2>1. ASSUME NEW l \in Layers
          PROVE  Len(rows[l]) = Len(kv.rows[l]) + (IF l = run.layer THEN n ELSE 0)
      <3>1. CASE l = run.layer
        BY <3>1, <1>2, <1>4
      <3>2. CASE l # run.layer
        BY <3>2, <1>4, <1>5
      <3> QED
        BY <3>1, <3>2
    <2> QED
      BY <2>1, <1>4 DEF Grown
  <1>7. ASSUME HasHollow(rows)
        PROVE  HasHollow(kv.rows)
    <2>1. PICK l \in Layers : \E i \in 1..Len(rows[l]) : rows[l][i] = "hollow"
      BY <1>7 DEF HasHollow
    <2>2. PICK i \in 1..Len(rows[l]) : rows[l][i] = "hollow"
      BY <2>1
    <2>3. CASE l # run.layer
      BY <2>2, <2>3, <1>4 DEF HasHollow
    <2>4. CASE l = run.layer
      <3>1. \A k \in 1..n : new[k] # "hollow"
        BY DEF new
      <3>2. Len(old) \in Nat
        BY <1>5
      <3>3. i \in 1..Len(old)
        <4>1. CASE i \in Len(old)+1..Len(old)+n
          <5>1. i - Len(old) \in 1..n
            BY <4>1, <3>2
          <5> QED
            BY <4>1, <5>1, <3>1, <2>2, <2>4, <1>2, <1>4
        <4> QED
          BY <4>1, <3>2, <2>2, <2>4, <1>2, <1>4
      <3> QED
        BY <3>3, <2>2, <2>4, <1>2, <1>4 DEF HasHollow
    <2> QED
      BY <2>3, <2>4
  <1> QED
    BY <1>3, <1>6, <1>7

\* Bump adds one reserved slot.
LEMMA ReserveGrow ==
  ASSUME KVOK, run.layer \in Layers
  PROVE  Grown([kv.rows EXCEPT ![run.layer] = Append(@, "hollow")], 1)
  <1> DEFINE rows == [kv.rows EXCEPT ![run.layer] = Append(@, "hollow")]
  <1>1. \A l \in Layers : kv.rows[l] \in Seq(RowKinds) /\ Len(kv.rows[l]) \in Nat
    BY DEF KVOK
  <1>2. /\ Append(kv.rows[run.layer], "hollow") \in Seq(RowKinds)
        /\ Len(Append(kv.rows[run.layer], "hollow")) = Len(kv.rows[run.layer]) + 1
    BY <1>1 DEF RowKinds
  <1>3. /\ rows \in [Layers -> Seq(RowKinds)]
        /\ rows[run.layer] = Append(kv.rows[run.layer], "hollow")
        /\ \A l \in Layers \ {run.layer} : rows[l] = kv.rows[l]
    BY <1>2 DEF KVOK
  <1> HIDE DEF rows
  <1>4. ASSUME NEW l \in Layers
        PROVE  Len(rows[l]) = Len(kv.rows[l]) + (IF l = run.layer THEN 1 ELSE 0)
    <2>1. CASE l = run.layer
      BY <2>1, <1>2, <1>3
    <2>2. CASE l # run.layer
      BY <2>2, <1>1, <1>3
    <2> QED
      BY <2>1, <2>2
  <1>5. Grown(rows, 1)
    BY <1>3, <1>4 DEF Grown
  <1> QED
    BY <1>5 DEF rows

\* Rows that grew by a pass fit in the context, and in every layer the pass
\* has reached they are as long as the others will be.
LEMMA GrownFits ==
  ASSUME IInv, run.pc \in {"block", "host", "batch"},
         NEW rows, Grown(rows, run.batch)
  PROVE  /\ rows \in [Layers -> Seq(RowKinds)]
         /\ \A l \in Layers :
              /\ Len(rows[l]) <= CtxLen
              /\ Len(rows[l]) = kv.length + (IF l <= run.layer THEN run.batch ELSE 0)
  <1>1. /\ kv.length \in Nat /\ run.todo \in Nat /\ run.batch \in Nat
        /\ run.layer \in Layers
        /\ kv.length + run.todo <= CtxLen /\ run.batch > 0 /\ run.batch <= run.todo
    BY TypeParts DEF IInv, Places, KVOK, RunOK
  <1>2. \A l \in Layers : Len(kv.rows[l]) = kv.length + (IF l < run.layer THEN run.batch ELSE 0)
    BY DEF IInv, LayersTogether, Appended
  <1>3. ASSUME NEW l \in Layers
        PROVE  Len(rows[l]) = kv.length + (IF l <= run.layer THEN run.batch ELSE 0)
    <2>1. l \in Int /\ run.layer \in Int
      BY <1>1, SizesAssumption DEF Layers
    <2>2. Len(rows[l]) = Len(kv.rows[l]) + (IF l = run.layer THEN run.batch ELSE 0)
      BY DEF Grown
    <2>3. CASE l = run.layer
      BY <2>1, <2>2, <2>3, <1>1, <1>2
    <2>4. CASE l # run.layer
      BY <2>1, <2>2, <2>4, <1>1, <1>2
    <2> QED
      BY <2>3, <2>4
  <1>4. ASSUME NEW l \in Layers
        PROVE  Len(rows[l]) <= CtxLen
    BY <1>1, <1>3, SizesAssumption
  <1> QED
    BY <1>3, <1>4 DEF Grown

\* A pass over one layer, of one token or of a chunk, keeps the layers
\* together and the places right.
PassDone(x) ==
  IF run.pc = "batch" THEN run' = AfterBatchLayer(x) ELSE run' = AfterLayer(x)

\* A layer done on the way of a call: the next one begins, or the logits follow.
LEMMA LayerPass ==
  ASSUME IInv, run.pc \in {"block", "host", "batch"},
         NEW rows, Grown(rows, run.batch), NEW x \in HiddenStates,
         kv' = [rows |-> rows, length |-> Advanced], PassDone(x)
  PROVE  KVOK' /\ RunOK' /\ Places' /\ LayersTogether'
  <1>1. /\ kv.length \in Nat /\ run.todo \in Nat /\ run.batch \in Nat
        /\ run.layer \in 0..NumLayers-1 /\ RunOK
        /\ kv.length + run.todo <= CtxLen /\ run.batch > 0 /\ run.batch <= run.todo
        /\ run.pc \in {"block", "host"} => run.batch = 1
    BY TypeParts DEF IInv, Places, KVOK, RunOK, Layers
  <1>2. /\ rows \in [Layers -> Seq(RowKinds)]
        /\ \A l \in Layers :
             /\ Len(rows[l]) <= CtxLen
             /\ Len(rows[l]) = kv.length + (IF l <= run.layer THEN run.batch ELSE 0)
    BY GrownFits
  <1>3. kv'.rows = rows /\ kv'.length = Advanced
    OBVIOUS
  <1>4. CASE run.layer + 1 < NumLayers
    <2>1. kv'.length = kv.length
      BY <1>3, <1>4 DEF Advanced
    <2>2. /\ run'.pc = (IF run.pc = "batch" THEN "batch" ELSE "block")
          /\ run'.layer = run.layer + 1 /\ run'.todo = run.todo
          /\ run'.batch = run.batch
          /\ RunOK'
      <3>1. run.layer + 1 \in 0..NumLayers
        BY <1>1, SizesAssumption
      <3>2. CASE run.pc = "batch"
        <4>1. run' = [run EXCEPT !.layer = run.layer + 1, !.x = x]
          BY <1>4, <3>2 DEF PassDone, AfterBatchLayer
        <4> QED
          BY <1>1, <3>1, <3>2, <4>1 DEF RunOK
      <3>3. CASE run.pc # "batch"
        <4>1. run' = [run EXCEPT !.pc = "block", !.layer = run.layer + 1, !.x = x]
          BY <1>4, <3>3 DEF PassDone, AfterLayer
        <4> QED
          BY <1>1, <3>1, <3>3, <4>1 DEF RunOK, PCs
      <3> QED
        BY <3>2, <3>3
    <2>3. KVOK'
      BY <1>1, <1>2, <1>3, <2>1, SizesAssumption DEF KVOK
    <2>4. Places'
      BY <1>1, <1>4, <2>1, <2>2, SizesAssumption DEF Places, Layers
    <2>5. LayersTogether'
      <3>1. \A l \in Layers : l <= run.layer <=> l < run.layer + 1
        BY <1>1, SizesAssumption DEF Layers
      <3>2. \A l \in Layers : Appended(l)' = IF l <= run.layer THEN run.batch ELSE 0
        BY <2>2, <3>1 DEF Appended
      <3> QED
        BY <1>2, <1>3, <2>1, <3>2 DEF LayersTogether
    <2> QED
      BY <2>2, <2>3, <2>4, <2>5
  <1>5. CASE ~(run.layer + 1 < NumLayers)
    <2>1. kv'.length = kv.length + run.batch
      BY <1>3, <1>5 DEF Advanced
    <2>2. /\ run'.pc \in {"token", "logits", "chunk", "batchLogits"}
          /\ run'.pc \in {"token", "chunk"} => run.todo > run.batch
          /\ run'.todo = run.todo - run.batch
          /\ RunOK'
      <3>1. run.todo - run.batch \in 0..CtxLen /\ 0 \in 0..CtxLen /\ 0 \in 0..NumLayers
        BY <1>1, SizesAssumption
      <3>2. CASE run.pc = "batch"
        <4>1. PICK pc \in {"chunk", "batchLogits"} :
                /\ pc = "chunk" => run.todo > run.batch
                /\ run' = [run EXCEPT !.pc = pc, !.layer = 0, !.batch = 0,
                                      !.todo = run.todo - run.batch, !.x = x]
          BY <1>5, <3>2 DEF PassDone, AfterBatchLayer
        <4> QED
          BY <1>1, <3>1, <4>1 DEF RunOK, PCs
      <3>3. CASE run.pc # "batch"
        <4>1. run.batch = 1
          BY <1>1, <3>3
        <4>2. PICK pc \in {"token", "logits"} :
                /\ pc = "token" => run.todo > run.batch
                /\ run' = [run EXCEPT !.pc = pc, !.layer = 0, !.batch = 0,
                                      !.todo = run.todo - run.batch, !.x = x]
          BY <1>5, <3>3, <4>1 DEF PassDone, AfterLayer
        <4> QED
          BY <1>1, <3>1, <4>2 DEF RunOK, PCs
      <3> QED
        BY <3>2, <3>3
    <2>3. KVOK'
      BY <1>1, <1>2, <1>3, <2>1, SizesAssumption DEF KVOK
    <2>4. Places'
      BY <1>1, <2>1, <2>2, SizesAssumption DEF Places
    <2>5. LayersTogether'
      <3>1. \A l \in Layers : l <= run.layer
        BY <1>1, <1>5, SizesAssumption DEF Layers
      <3>2. \A l \in Layers : Appended(l)' = 0
        BY <2>2 DEF Appended
      <3> QED
        BY <1>1, <1>2, <1>3, <2>1, <3>1, <3>2 DEF LayersTogether
    <2> QED
      BY <2>2, <2>3, <2>4, <2>5
  <1> QED
    BY <1>4, <1>5

-----------------------------------------------------------------------------
(* The four kinds of step *)

\* The invariant, from its parts.
LEMMA Assemble ==
  ASSUME KVOK', DevOK', DecodeOK', RunOK', Places', LayersTogether',
         HasHollow(kv'.rows) => decode'.hollow
  PROVE  IInv'
  <1>1. TypeOK'
    BY DEF TypeOK, KVOK, DevOK, DecodeOK, RunOK, RowKinds, DeviceRows
  <1>2. HollowAnnounced'
    BY DEF HollowAnnounced, HasHollow
  <1> QED
    BY <1>1, <1>2 DEF IInv

\* The cache is reset.
LEMMA ResetStep ==
  ASSUME IInv, kv' = CacheReset, dev' = DevReset, decode' = DecodeReset,
         RunOK', Places', run'.pc \notin {"block", "host", "batch"}
  PROVE  IInv'
  <1>1. /\ kv'.length = 0
        /\ kv' \in [rows : [Layers -> Seq(RowKinds)], length : 0..CtxLen]
        /\ \A l \in Layers : kv'.rows[l] = << >> /\ Len(kv'.rows[l]) = 0
    BY SizesAssumption DEF CacheReset
  <1>2. KVOK'
    BY <1>1, SizesAssumption DEF KVOK
  <1>3. DevOK'
    <2>1. DevOK
      BY TypeParts DEF IInv
    <2>2. [l \in Layers |-> {}] \in DeviceRows
      BY DEF DeviceRows
    <2> QED
      BY <2>1, <2>2, HiddenTypes DEF DevOK, DevReset
  <1>4. DecodeOK'
    BY TypeParts DEF IInv, DecodeOK, DecodeReset
  <1>5. LayersTogether'
    BY <1>1 DEF LayersTogether, Appended
  <1>6. ~HasHollow(kv'.rows)
    BY <1>1 DEF HasHollow
  <1> QED
    BY <1>2, <1>3, <1>4, <1>5, <1>6, Assemble

\* The mirror stays as it is.
LEMMA StillStep ==
  ASSUME IInv, kv' = kv, DevOK', DecodeOK', RunOK', Places',
         decode.hollow => decode'.hollow,
         run'.pc = "failed" \/ (run.pc # "failed" /\ \A l \in Layers : Appended(l)' = Appended(l))
  PROVE  IInv'
  <1>1. KVOK'
    BY TypeParts DEF IInv, KVOK
  <1>2. LayersTogether'
    BY DEF IInv, LayersTogether
  <1>3. HasHollow(kv'.rows) => decode'.hollow
    BY DEF IInv, HollowAnnounced, HasHollow
  <1> QED
    BY <1>1, <1>2, <1>3, Assemble

\* A layer is passed.
LEMMA LayerStep ==
  ASSUME IInv, run.pc \in {"block", "host", "batch"}, DevOK', DecodeOK',
         NEW rows, Grown(rows, run.batch), NEW x \in HiddenStates,
         kv' = [rows |-> rows, length |-> Advanced], PassDone(x),
         HasHollow(rows) => decode'.hollow
  PROVE  IInv'
  <1>1. KVOK' /\ RunOK' /\ Places' /\ LayersTogether'
    BY LayerPass
  <1> QED
    BY <1>1, Assemble

-----------------------------------------------------------------------------
(* The actions *)

\* A model just loaded.
LEMMA InitIInv == Init => IInv
  <1> SUFFICES ASSUME Init
               PROVE  IInv
    OBVIOUS
  <1>1. /\ kv = [rows |-> [l \in Layers |-> <<>>], length |-> 0]
        /\ kv \in [rows : [Layers -> Seq(RowKinds)], length : 0..CtxLen]
        /\ \A l \in Layers : kv.rows[l] = << >> /\ Len(kv.rows[l]) = 0
    BY SizesAssumption DEF Init
  <1>2. KVOK
    BY <1>1, SizesAssumption DEF KVOK
  <1>3. DevOK
    <2>1. [l \in Layers |-> {}] \in DeviceRows
      BY DEF DeviceRows
    <2> QED
      BY <2>1, HiddenTypes DEF Init, DevOK
  <1>4. DecodeOK
    BY DEF Init, DecodeOK
  <1>5. RunOK
    BY HiddenTypes, SizesAssumption DEF Init, RunOK, PCs
  <1>6. Places /\ LayersTogether
    BY <1>1 DEF Init, Places, LayersTogether, Appended
  <1>7. HollowAnnounced
    BY <1>1 DEF HollowAnnounced
  <1> QED
    BY <1>2, <1>3, <1>4, <1>5, <1>6, <1>7, TypeParts DEF IInv

\* A call that failed relies on nothing.
LEMMA FailedPlaces ==
  ASSUME IInv, run' = [run EXCEPT !.pc = "failed"]
  PROVE  RunOK' /\ Places' /\ run'.pc = "failed"
  <1>1. RunOK
    BY TypeParts DEF IInv
  <1> QED
    BY <1>1 DEF RunOK, Places, PCs

\* A call fails and resets the cache.
LEMMA ResetAndFailKeeps ==
  ASSUME IInv, ResetAndFail
  PROVE  IInv'
  <1>1. RunOK' /\ Places' /\ run'.pc = "failed"
    BY FailedPlaces DEF ResetAndFail
  <1> QED
    BY <1>1, ResetStep DEF ResetAndFail

\* A call begins, or the cache is reset between two.
LEMMA CallKeeps ==
  ASSUME IInv, NEW n \in 1..CtxLen, Forward(n) \/ Embed(n) \/ ResetCache
  PROVE  IInv'
  <1>1. KVOK /\ DevOK /\ DecodeOK /\ RunOK
    BY TypeParts DEF IInv
  <1>2. n \in 0..CtxLen /\ n > 0 /\ kv.length \in Nat
    BY <1>1, SizesAssumption DEF KVOK
  <1>3. CASE Forward(n)
    <2>1. RunOK' /\ run'.todo = n /\ run'.pc \in {"chunk", "token"}
      BY <1>1, <1>2, <1>3, HiddenTypes DEF Forward, RunOK, PCs
    <2>2. Places'
      BY <1>2, <1>3, <2>1 DEF Places, Forward
    <2>3. DevOK' /\ DecodeOK'
      BY <1>1, <1>3 DEF Forward, DevOK, DecodeOK
    <2>4. \A l \in Layers : Appended(l)' = Appended(l)
      BY <1>3, <2>1 DEF Forward, Appended
    <2> QED
      BY <1>3, <2>1, <2>2, <2>3, <2>4, StillStep DEF Forward
  <1>4. CASE Embed(n)
    <2>1. RunOK' /\ run'.todo = n /\ run'.pc = "token"
      BY <1>1, <1>2, <1>4, HiddenTypes DEF Embed, RunOK, PCs
    <2>2. kv'.length = 0
      BY <1>4 DEF Embed, CacheReset
    <2>3. Places'
      BY <1>2, <2>1, <2>2 DEF Places
    <2> QED
      BY <1>4, <2>1, <2>3, ResetStep DEF Embed
  <1>5. CASE ResetCache
    <2>1. RunOK' /\ run'.pc = "idle"
      BY <1>1, <1>5, HiddenTypes DEF ResetCache, RunOK, PCs
    <2>2. Places'
      BY <2>1 DEF Places
    <2> QED
      BY <1>5, <2>1, <2>2, ResetStep DEF ResetCache
  <1> QED
    BY <1>3, <1>4, <1>5
\* A token starts: x is its embedding, or what it was.
LEMMA TokenRun ==
  ASSUME IInv, run.pc = "token", NEW x \in HiddenStates,
         run' = [run EXCEPT !.pc = "block", !.layer = 0, !.batch = 1, !.x = x],
         kv' = kv
  PROVE  /\ RunOK' /\ Places' /\ run'.pc = "block"
         /\ \A l \in Layers : Appended(l)' = Appended(l)
  <1>1. RunOK /\ kv.length \in Nat /\ 0 \in Layers /\ 1 \in 0..CtxLen
    BY TypeParts, SizesAssumption DEF IInv, KVOK, Layers
  <1>2. run.todo > 0 /\ kv.length + run.todo <= CtxLen
    BY DEF IInv, Places
  <1>3. /\ RunOK' /\ run'.pc = "block" /\ run'.layer = 0 /\ run'.batch = 1
        /\ run'.todo = run.todo
    <2>1. 0 \in 0..NumLayers /\ "block" \in PCs
      BY SizesAssumption DEF PCs
    <2> QED
      BY <1>1, <2>1 DEF RunOK
  <1>4. Places'
    BY <1>1, <1>2, <1>3 DEF Places
  <1>5. \A l \in Layers : Appended(l)' = 0 /\ Appended(l) = 0
    BY <1>3, SizesAssumption DEF Appended, Layers
  <1> QED
    BY <1>3, <1>4, <1>5

\* A token begins, with its hidden state on the device or not.
LEMMA TokenKeeps ==
  ASSUME IInv, Token
  PROVE  IInv'
  <1>1. KVOK /\ DevOK /\ DecodeOK /\ RunOK
    BY TypeParts DEF IInv
  <1>2. run.pc = "token" /\ kv' = kv
    BY DEF Token, Gather, Upload, EmbedToken
  <1>3. kv.length \in Positions
    BY <1>1, <1>2, SizesAssumption DEF IInv, Places, KVOK, RunOK, Positions
  <1>4. Hidden(kv.length, 0) \in HiddenStates /\ run.x \in HiddenStates
    BY <1>1, <1>3, HiddenTypes, SizesAssumption DEF RunOK
  <1>5. PICK x \in HiddenStates :
          run' = [run EXCEPT !.pc = "block", !.layer = 0, !.batch = 1, !.x = x]
    <2>1. CASE Gather
      <3>1. run' = [run EXCEPT !.pc = "block", !.layer = 0, !.batch = 1, !.x = run.x]
        BY <2>1, <1>1 DEF Gather, RunOK
      <3> QED
        BY <3>1, <1>4
    <2>2. CASE Upload
      BY <2>2, <1>4 DEF Upload
    <2>3. CASE EmbedToken
      BY <2>3, <1>4 DEF EmbedToken
    <2> QED
      BY <2>1, <2>2, <2>3 DEF Token
  <1>6. DevOK'
    <2>1. CASE Gather
      BY <2>1, <1>1, <1>4 DEF Gather, DevOK
    <2>2. CASE Upload
      BY <2>2, <1>1, <1>4, HiddenTypes DEF Upload, DevOK
    <2>3. CASE EmbedToken
      BY <2>3, <1>1 DEF EmbedToken, DevOK
    <2> QED
      BY <2>1, <2>2, <2>3 DEF Token
  <1>7. DecodeOK' /\ (decode.hollow => decode'.hollow)
    BY <1>1 DEF Token, Gather, Upload, EmbedToken, DecodeOK
  <1>8. /\ RunOK' /\ Places'
        /\ \A l \in Layers : Appended(l)' = Appended(l)
    BY <1>2, <1>5, TokenRun
  <1> QED
    BY <1>2, <1>6, <1>7, <1>8, StillStep

\* forwardBlockDevice succeeds: the slot is hollow, and announced.
LEMMA DeviceBlockKeeps ==
  ASSUME IInv, DeviceBlock
  PROVE  IInv'
  <1> DEFINE rows == [kv.rows EXCEPT ![run.layer] = Append(@, "hollow")]
             dkv == DeviceWrite(run.layer, dev.resid, {Pos})
             h == Apply(dev.resid, Pos, run.layer, DeviceAttends(dkv, run.layer, Pos))
  <1>1. KVOK /\ DevOK /\ DecodeOK /\ RunOK
    BY TypeParts DEF IInv
  <1>2. run.pc = "block" /\ run.batch = 1 /\ run.layer \in Layers
    BY DEF DeviceBlock, IInv, Places
  <1>3. Pos \in Positions
    BY <1>2, PosInContext
  <1>4. dkv \in DeviceRows
    BY <1>1, <1>2, <1>3, DeviceWriteType
  <1>5. h \in HiddenStates
    BY <1>2, <1>3, HiddenTypes DEF DeviceAttends
  <1>6. dev' = [dev EXCEPT !.kv = dkv, !.resid = h]
    BY DEF DeviceBlock
  <1>7. DevOK'
    <2> HIDE DEF dkv, h
    <2> QED
      BY <1>1, <1>4, <1>5, <1>6 DEF DevOK
  <1>8. DecodeOK' /\ decode'.hollow
    BY <1>1 DEF DeviceBlock, Bumped, DecodeOK
  <1>9. Grown(rows, run.batch)
    BY <1>1, <1>2, ReserveGrow
  <1>10. PassDone(run.x) /\ run.x \in HiddenStates
    BY <1>1, <1>2 DEF DeviceBlock, PassDone, RunOK
  <1>11. kv' = [rows |-> rows, length |-> Advanced]
    BY DEF DeviceBlock
  <1> QED
    BY <1>2, <1>7, <1>8, <1>9, <1>10, <1>11, LayerStep

\* forwardBlockDevice gives up on the device; the mirror was not touched.
LEMMA ToHostKeeps ==
  ASSUME IInv, DeviceBlockToHost
  PROVE  IInv'
  <1>1. KVOK /\ DevOK /\ DecodeOK /\ RunOK
    BY TypeParts DEF IInv
  <1>2. run.pc = "block" /\ kv' = kv
    BY DEF DeviceBlockToHost
  <1>3. PICK m \in AfterQKVFailure : RecoverHidden(m)
    BY DEF DeviceBlockToHost
  <1>4. m \in [kv : DeviceRows, stale : BOOLEAN]
    <2>1. Recovery(kv.rows) \subseteq [kv : DeviceRows, stale : BOOLEAN]
      BY <1>1, RecoveryType DEF KVOK
    <2>2. [kv |-> dev.kv, stale |-> decode.stale] \in [kv : DeviceRows, stale : BOOLEAN]
      BY <1>1 DEF DevOK, DecodeOK
    <2> QED
      BY <1>3, <2>1, <2>2 DEF AfterQKVFailure
  <1>5. DevOK' /\ DecodeOK' /\ decode'.hollow = decode.hollow
    BY <1>1, <1>3, <1>4 DEF RecoverHidden, DevOK, DecodeOK
  <1>6. \/ run' = [run EXCEPT !.pc = "failed"]
        \/ run' = [run EXCEPT !.pc = "host", !.x = dev.resid]
    BY <1>3 DEF RecoverHidden
  <1>7. CASE run' = [run EXCEPT !.pc = "failed"]
    <2>1. RunOK' /\ Places' /\ run'.pc = "failed"
      BY <1>7, FailedPlaces
    <2> QED
      BY <1>2, <1>5, <2>1, StillStep
  <1>8. CASE run' = [run EXCEPT !.pc = "host", !.x = dev.resid]
    <2>1. /\ RunOK' /\ run'.pc = "host" /\ run'.layer = run.layer
          /\ run'.todo = run.todo /\ run'.batch = run.batch
      BY <1>1, <1>8 DEF RunOK, DevOK, PCs
    <2>2. Places'
      BY <1>2, <2>1 DEF IInv, Places
    <2>3. \A l \in Layers : Appended(l)' = Appended(l)
      BY <1>2, <2>1 DEF Appended
    <2> QED
      BY <1>2, <1>5, <2>1, <2>2, <2>3, StillStep
  <1> QED
    BY <1>6, <1>7, <1>8
\* What a pass over appended rows needs.
LEMMA AppendedPass ==
  ASSUME IInv, run.pc \in {"block", "host", "batch"}
  PROVE  LET rows == AppendRows(run.layer, run.x, run.batch)
         IN  /\ Grown(rows, run.batch)
             /\ HasHollow(rows) => decode.hollow
             /\ rows \in [Layers -> Seq(RowKinds)]
             /\ \A l \in Layers : Len(rows[l]) <= CtxLen
  <1> DEFINE rows == AppendRows(run.layer, run.x, run.batch)
  <1>1. KVOK /\ run.layer \in Layers /\ run.batch \in Nat
    BY TypeParts DEF IInv, Places, RunOK
  <1>2. Grown(rows, run.batch) /\ (HasHollow(rows) => HasHollow(kv.rows))
    BY <1>1, AppendRowsGrow
  <1>3. HasHollow(kv.rows) => decode.hollow
    BY DEF IInv, HollowAnnounced, HasHollow
  <1> HIDE DEF rows
  <1>4. rows \in [Layers -> Seq(RowKinds)] /\ \A l \in Layers : Len(rows[l]) <= CtxLen
    BY <1>2, GrownFits
  <1> QED
    BY <1>2, <1>3, <1>4 DEF rows

\* A layer computed by the host, whatever became of the device KV.
LEMMA HostLayerKeeps ==
  ASSUME IInv, InHostBlock, NEW m \in [kv : DeviceRows, stale : BOOLEAN],
         NEW attended \in BOOLEAN,
         HostLayer(AppendRows(run.layer, run.x, 1), m, attended)
  PROVE  IInv'
  <1> DEFINE rows == AppendRows(run.layer, run.x, run.batch)
             h == Apply(run.x, Pos, run.layer, attended)
  <1>1. DevOK /\ DecodeOK
    BY TypeParts DEF IInv
  <1>2. run.pc \in {"block", "host"} /\ run.batch = 1 /\ run.layer \in Layers
    BY DEF InHostBlock, IInv, Places
  <1>3. DevOK'
    BY <1>1 DEF HostLayer, DevOK
  <1>4. DecodeOK' /\ decode'.hollow = decode.hollow
    BY <1>1 DEF HostLayer, DecodeOK
  <1>5. h \in HiddenStates
    BY <1>2, PosInContext, HiddenTypes
  <1>6. Grown(rows, run.batch) /\ (HasHollow(rows) => decode.hollow)
    BY <1>2, AppendedPass
  <1>7. kv' = [rows |-> rows, length |-> Advanced] /\ PassDone(h)
    BY <1>2 DEF HostLayer, PassDone
  <1> HIDE DEF rows, h
  <1> QED
    BY <1>2, <1>3, <1>4, <1>5, <1>6, <1>7, LayerStep

\* The host computes a layer, with attention on the device or of its own.
LEMMA HostBlockKeeps ==
  ASSUME IInv, HostBlock \/ HostBlockFused
  PROVE  IInv'
  <1>1. KVOK /\ DevOK /\ DecodeOK /\ RunOK
    BY TypeParts DEF IInv
  <1>2. InHostBlock
    BY DEF HostBlock, HostBlockFused
  <1>3. run.pc \in {"block", "host"} /\ run.batch = 1 /\ run.layer \in Layers
    BY <1>2 DEF InHostBlock, IInv, Places
  <1>4. Pos \in Positions
    BY <1>3, PosInContext
  <1>5. CASE HostBlock
    <2> DEFINE rows == AppendRows(run.layer, run.x, 1)
    <2>1. rows \in [Layers -> Seq(RowKinds)] /\ \A l \in Layers : Len(rows[l]) <= CtxLen
      BY <1>3, AppendedPass
    <2>2. PICK m \in Mirror(rows, run.layer, run.x, {Pos}) :
            \E attended \in Attentions(m, rows, run.layer) :
              HostLayer(rows, m, attended)
      BY <1>5 DEF HostBlock
    <2>3. PICK attended \in Attentions(m, rows, run.layer) : HostLayer(rows, m, attended)
      BY <2>2
    <2>4. m \in [kv : DeviceRows, stale : BOOLEAN]
      <3> HIDE DEF rows
      <3>1. Mirror(rows, run.layer, run.x, {Pos}) \subseteq [kv : DeviceRows, stale : BOOLEAN]
        BY <1>1, <1>3, <1>4, <2>1, MirrorType
      <3> QED
        BY <3>1
    <2>5. attended \in BOOLEAN
      BY AttentionsType
    <2> QED
      BY <1>2, <2>3, <2>4, <2>5, HostLayerKeeps
  <1>6. CASE HostBlockFused
    <2> DEFINE m == [kv |-> DeviceWrite(run.layer, run.x, {Pos}), stale |-> FALSE]
               attended == DeviceAttends(m.kv, run.layer, Pos)
    <2>1. HostLayer(AppendRows(run.layer, run.x, 1), m, attended)
      BY <1>6 DEF HostBlockFused
    <2>2. DeviceWrite(run.layer, run.x, {Pos}) \in DeviceRows
      BY <1>1, <1>3, <1>4, DeviceWriteType
    <2>3. m \in [kv : DeviceRows, stale : BOOLEAN]
      BY <2>2
    <2>4. attended \in BOOLEAN
      BY DEF DeviceAttends
    <2> HIDE DEF m, attended
    <2> QED
      BY <1>2, <2>1, <2>3, <2>4, HostLayerKeeps
  <1> QED
    BY <1>5, <1>6

\* The host fails in a layer.
LEMMA HostBlockFailsKeeps ==
  ASSUME IInv, HostBlockFails
  PROVE  IInv'
  <1>1. KVOK /\ DevOK /\ DecodeOK /\ RunOK
    BY TypeParts DEF IInv
  <1>2. RunOK' /\ Places' /\ run'.pc = "failed"
    BY FailedPlaces DEF HostBlockFails
  <1>3. DevOK' /\ DecodeOK' /\ decode'.hollow = decode.hollow
    BY <1>1 DEF HostBlockFails, DevOK, DecodeOK
  <1>4. CASE kv' = kv
    BY <1>2, <1>3, <1>4, StillStep
  <1>5. CASE kv' = [kv EXCEPT !.rows = AppendRows(run.layer, run.x, run.batch)]
    <2> DEFINE rows == AppendRows(run.layer, run.x, run.batch)
    <2>1. /\ rows \in [Layers -> Seq(RowKinds)] /\ \A l \in Layers : Len(rows[l]) <= CtxLen
          /\ HasHollow(rows) => decode.hollow
      BY AppendedPass DEF HostBlockFails, InHostBlock
    <2>2. kv' = [kv EXCEPT !.rows = rows]
      BY <1>5
    <2> HIDE DEF rows
    <2>3. KVOK' /\ kv'.rows = rows
      BY <1>1, <2>1, <2>2 DEF KVOK
    <2>4. LayersTogether'
      BY <1>2 DEF LayersTogether
    <2> QED
      BY <1>2, <1>3, <2>1, <2>3, <2>4, Assemble
  <1> QED
    BY <1>4, <1>5 DEF HostBlockFails

\* The device computes a layer, falls back, or fails.
LEMMA BlockKeeps ==
  ASSUME IInv, Block
  PROVE  IInv'
  <1>1. CASE DeviceFFNFails \/ DeviceBlockFails
    BY <1>1, ResetAndFailKeeps DEF DeviceFFNFails, DeviceBlockFails
  <1> QED
    BY <1>1, DeviceBlockKeeps, ToHostKeeps, HostBlockKeeps, HostBlockFailsKeeps
    DEF Block

\* A chunk of a prompt begins.
LEMMA ChunkKeeps ==
  ASSUME IInv, Chunk
  PROVE  IInv'
  <1>1. KVOK /\ DevOK /\ DecodeOK /\ RunOK
    BY TypeParts DEF IInv
  <1>2. /\ run.todo \in Nat /\ run.todo > 0 /\ kv.length \in Nat
        /\ kv.length + run.todo <= CtxLen
    BY <1>1 DEF IInv, Places, KVOK, RunOK, Chunk
  <1>3. ChunkSize \in Nat /\ ChunkSize > 0 /\ ChunkSize <= run.todo
    BY <1>2, SizesAssumption DEF ChunkSize
  <1>4. ChunkSize \in 0..CtxLen /\ kv.length + ChunkSize - 1 \in Positions
    BY <1>2, <1>3, SizesAssumption DEF Positions
  <1> DEFINE h == Hidden(kv.length + ChunkSize - 1, 0)
  <1>5. h \in HiddenStates /\ 0 \in 0..NumLayers /\ 0 \in Layers
    BY <1>4, HiddenTypes, SizesAssumption DEF Layers
  <1>6. run' = [run EXCEPT !.pc = "batch", !.layer = 0, !.batch = ChunkSize, !.x = h]
    BY DEF Chunk
  <1> HIDE DEF h
  <1>7. /\ RunOK' /\ run'.pc = "batch" /\ run'.layer = 0
        /\ run'.batch = ChunkSize /\ run'.todo = run.todo
    BY <1>1, <1>4, <1>5, <1>6 DEF RunOK, PCs
  <1>8. Places'
    BY <1>2, <1>3, <1>5, <1>7 DEF Places, Chunk
  <1>9. \A l \in Layers : Appended(l)' = 0 /\ Appended(l) = 0
    BY <1>7, SizesAssumption DEF Appended, Layers, Chunk
  <1>10. DevOK' /\ DecodeOK' /\ decode'.hollow = decode.hollow
    BY <1>1 DEF Chunk, DevOK, DecodeOK
  <1> QED
    BY <1>7, <1>8, <1>9, <1>10, StillStep DEF Chunk

\* A chunk goes through a layer.
LEMMA BatchBlockKeeps ==
  ASSUME IInv, BatchBlock
  PROVE  IInv'
  <1> DEFINE rows == AppendRows(run.layer, run.x, run.batch)
  <1>1. KVOK /\ DevOK /\ DecodeOK /\ RunOK
    BY TypeParts DEF IInv
  <1>2. run.pc = "batch" /\ run.layer \in Layers
    BY DEF IInv, Places, BatchBlock
  <1>3. Pos \in Positions /\ kv.length..Pos \subseteq Positions
    BY <1>2, PosInContext
  <1>4. /\ Grown(rows, run.batch) /\ (HasHollow(rows) => decode.hollow)
        /\ rows \in [Layers -> Seq(RowKinds)] /\ \A l \in Layers : Len(rows[l]) <= CtxLen
    BY <1>2, AppendedPass
  <1>5. PICK m \in Mirror(rows, run.layer, run.x, kv.length..Pos) :
          /\ dev' = [dev EXCEPT !.kv = m.kv]
          /\ decode' = [decode EXCEPT !.stale = m.stale]
          /\ \E attended \in Attentions(m, rows, run.layer) :
               run' = AfterBatchLayer(Apply(run.x, Pos, run.layer, attended))
    BY DEF BatchBlock
  <1>6. PICK attended \in Attentions(m, rows, run.layer) :
          run' = AfterBatchLayer(Apply(run.x, Pos, run.layer, attended))
    BY <1>5
  <1>7. kv' = [rows |-> rows, length |-> Advanced]
    BY DEF BatchBlock
  <1> HIDE DEF rows
  <1>8. m \in [kv : DeviceRows, stale : BOOLEAN]
    <2>1. Mirror(rows, run.layer, run.x, kv.length..Pos) \subseteq [kv : DeviceRows, stale : BOOLEAN]
      BY <1>1, <1>2, <1>3, <1>4, MirrorType
    <2> QED
      BY <2>1
  <1>9. DevOK' /\ DecodeOK' /\ decode'.hollow = decode.hollow
    BY <1>1, <1>5, <1>8 DEF DevOK, DecodeOK
  <1>10. attended \in BOOLEAN
    BY AttentionsType
  <1>11. Apply(run.x, Pos, run.layer, attended) \in HiddenStates
    BY <1>2, <1>3, <1>10, HiddenTypes
  <1>12. PassDone(Apply(run.x, Pos, run.layer, attended))
    BY <1>2, <1>6 DEF PassDone
  <1> QED
    BY <1>2, <1>4, <1>7, <1>9, <1>11, <1>12, LayerStep

\* The end of a call, with an answer or without.
LEMMA EndKeeps ==
  ASSUME IInv, run.pc \in {"chunk", "logits", "batchLogits"}, kv' = kv,
         DevOK', DecodeOK', decode'.hollow = decode.hollow,
         NEW x \in HiddenStates, NEW h \in HiddenStates, NEW pc \in {"idle", "failed"},
         run' = [run EXCEPT !.pc = pc, !.x = x, !.logits = h]
  PROVE  IInv'
  <1>1. RunOK
    BY TypeParts DEF IInv
  <1>2. RunOK' /\ run'.pc = pc
    BY <1>1 DEF RunOK, PCs
  <1>3. Places'
    BY <1>2 DEF Places
  <1>4. \A l \in Layers : Appended(l)' = Appended(l)
    BY <1>2 DEF Appended
  <1> QED
    BY <1>2, <1>3, <1>4, StillStep

\* The hidden state comes to the host before the logits.
LEMMA HiddenToHostKeeps ==
  ASSUME IInv, run.pc = "logits", kv' = kv,
         NEW returned \in BOOLEAN, HiddenToHost(returned)
  PROVE  IInv'
  <1>1. DevOK /\ DecodeOK /\ RunOK
    BY TypeParts DEF IInv
  <1>2. DevOK' /\ DecodeOK' /\ decode'.hollow = decode.hollow
    BY <1>1 DEF HiddenToHost, DevOK, DecodeOK
  <1>3. dev.resid \in HiddenStates /\ run.x \in HiddenStates /\ run.logits \in HiddenStates
    BY <1>1 DEF DevOK, RunOK
  <1>4. \/ run' = [run EXCEPT !.pc = "idle", !.x = dev.resid, !.logits = dev.resid]
        \/ run' = [run EXCEPT !.pc = "failed", !.x = run.x, !.logits = run.logits]
        \/ run' = [run EXCEPT !.pc = "idle", !.x = run.x, !.logits = run.x]
    BY <1>1 DEF HiddenToHost, Finish, RunOK
  <1> QED
    BY <1>2, <1>3, <1>4, EndKeeps

\* A prompt goes through chunk after chunk.
LEMMA PrefillKeeps ==
  ASSUME IInv, Prefill
  PROVE  IInv'
  <1>1. DevOK /\ DecodeOK /\ RunOK
    BY TypeParts DEF IInv
  <1>2. run.x \in HiddenStates /\ run.logits \in HiddenStates
    BY <1>1 DEF RunOK
  <1>3. CASE ChunkFails
    <2>1. DevOK' /\ DecodeOK' /\ decode'.hollow = decode.hollow
      BY <1>1, <1>3 DEF ChunkFails, DevOK, DecodeOK
    <2>2. run' = [run EXCEPT !.pc = "failed", !.x = run.x, !.logits = run.logits]
      BY <1>1, <1>3 DEF ChunkFails, RunOK
    <2> QED
      BY <1>2, <1>3, <2>1, <2>2, EndKeeps DEF ChunkFails
  <1>4. CASE BatchLogitsResident \/ BatchLogitsHost
    <2>1. DevOK'
      <3>1. CASE BatchLogitsResident
        BY <1>1, <1>2, <3>1 DEF BatchLogitsResident, DevOK
      <3>2. CASE BatchLogitsHost
        <4> DEFINE r == IF decode.residency THEN NoHidden ELSE dev.resid
                   a == dev.active /\ ~decode.residency
        <4>1. r \in HiddenStates /\ a \in BOOLEAN
          BY <1>1, HiddenTypes DEF DevOK
        <4>2. dev' = [dev EXCEPT !.resid = r, !.active = a]
          BY <3>2 DEF BatchLogitsHost
        <4> HIDE DEF r, a
        <4> QED
          BY <1>1, <4>1, <4>2 DEF DevOK
      <3> QED
        BY <1>4, <3>1, <3>2
    <2>2. DecodeOK' /\ decode'.hollow = decode.hollow
      BY <1>1, <1>4 DEF BatchLogitsResident, BatchLogitsHost, DecodeOK
    <2>3. run' = [run EXCEPT !.pc = "idle", !.x = run.x, !.logits = run.x]
      BY <1>1, <1>4 DEF BatchLogitsResident, BatchLogitsHost, Finish, RunOK
    <2>4. run.pc = "batchLogits" /\ kv' = kv
      BY <1>4 DEF BatchLogitsResident, BatchLogitsHost
    <2> QED
      BY <1>2, <2>1, <2>2, <2>3, <2>4, EndKeeps
  <1> QED
    BY <1>3, <1>4, ChunkKeeps, BatchBlockKeeps DEF Prefill

\* A call ends with its logits.
LEMMA LogitsKeeps ==
  ASSUME IInv, Logits
  PROVE  IInv'
  <1>1. DevOK /\ DecodeOK /\ RunOK
    BY TypeParts DEF IInv
  <1>2. CASE LogitsDevice
    <2>1. run' = [run EXCEPT !.pc = "idle", !.x = run.x, !.logits = dev.resid]
      BY <1>1, <1>2 DEF LogitsDevice, Finish, RunOK
    <2>2. dev.resid \in HiddenStates /\ run.x \in HiddenStates
      BY <1>1 DEF DevOK, RunOK
    <2>3. DevOK' /\ DecodeOK' /\ decode'.hollow = decode.hollow
      BY <1>1, <1>2 DEF LogitsDevice, DevOK, DecodeOK
    <2> QED
      BY <1>2, <2>1, <2>2, <2>3, EndKeeps DEF LogitsDevice
  <1>3. CASE LogitsHost \/ EmbedResult
    <2>1. PICK returned \in BOOLEAN : HiddenToHost(returned)
      BY <1>1, <1>3 DEF LogitsHost, EmbedResult, DecodeOK
    <2> QED
      BY <1>3, <2>1, HiddenToHostKeeps DEF LogitsHost, EmbedResult
  <1> QED
    BY <1>2, <1>3 DEF Logits

-----------------------------------------------------------------------------
(* The theorems *)

\* Every step keeps the invariant.
LEMMA NextKeeps == IInv /\ [Next]_vars => IInv'
  <1> SUFFICES ASSUME IInv, [Next]_vars
               PROVE  IInv'
    OBVIOUS
  <1>1. CASE \E n \in 1..CtxLen : Forward(n) \/ Embed(n)
    BY <1>1, CallKeeps
  <1>2. CASE ResetCache
    <2>1. 1 \in 1..CtxLen
      BY SizesAssumption
    <2> QED
      BY <1>2, <2>1, CallKeeps
  <1>3. CASE UNCHANGED vars
    BY <1>3 DEF vars, IInv, TypeOK, Places, LayersTogether, HollowAnnounced, Appended
  <1> QED
    BY <1>1, <1>2, <1>3, TokenKeeps, BlockKeeps, PrefillKeeps, LogitsKeeps DEF Next

\* TypeOK, what each place of a call relies on, and the two invariants below
\* hold together: none is preserved without the others.
THEOREM InvariantHolds == Spec => []IInv
  <1> QED
    BY InitIInv, NextKeeps, PTL DEF Spec

\* The state of a forward pass keeps its types; in particular no layer of the
\* KV is asked for more slots than it has, so that the overflow error of
\* KV.AppendN and KV.Bump does not come up in the middle of a pass.
THEOREM TypeCorrect == Spec => []TypeOK
  <1>1. IInv => TypeOK
    BY DEF IInv
  <1> QED
    BY <1>1, InvariantHolds, PTL

\* A call that falls back from the device to the host, or from a batch to
\* single tokens, neither loses nor repeats a row: every layer of the KV holds
\* the completed tokens and the pass that went through it.
THEOREM LayersStayTogether == Spec => []LayersTogether
  <1>1. IInv => LayersTogether
    BY DEF IInv
  <1> QED
    BY <1>1, InvariantHolds, PTL

\* A slot forwardBlockDevice only reserved is in the mirror only while
\* CPUKVHollow says so.
THEOREM HollowIsAnnounced == Spec => []HollowAnnounced
  <1>1. IInv => HollowAnnounced
    BY DEF IInv
  <1> QED
    BY <1>1, InvariantHolds, PTL
-----------------------------------------------------------------------------
(* The device mirrors the host *)

Mirrored(rows, dkv) == \A l \in OnGPU : HostRight(rows, l) \subseteq dkv[l]

\* A rebuild that did not fail has rewritten every layer on the device.
LEMMA RecoveryMirrors ==
  ASSUME DevOK, NEW rows, NEW m \in Recovery(rows), ~m.stale
  PROVE  Mirrored(rows, m.kv)
  <1>1. ~decode.hollow
    BY DEF Recovery
  <1>2. PICK j \in 0..NumLayers : m = [kv |-> Rewritten(rows, j), stale |-> j < NumLayers]
    BY <1>1 DEF Recovery
  <1>3. j = NumLayers
    <2>1. m.stale = (j < NumLayers)
      BY <1>2
    <2>2. ~(j < NumLayers)
      BY <2>1, Zenon
    <2> QED
      BY <2>2, SizesAssumption
  <1>4. \A l \in OnGPU : l \in Layers /\ l < j
    BY <1>3, SizesAssumption DEF OnGPU, Layers
  <1>5. \A l \in OnGPU : HostRight(rows, l) \subseteq Rewritten(rows, j)[l]
    BY <1>4 DEF Rewritten
  <1> QED
    BY <1>2, <1>5 DEF Mirrored

\* The slots of the mirror after AppendN.
LEMMA AppendRowsAt ==
  ASSUME KVOK, run.layer \in Layers, NEW h, NEW n \in Nat
  PROVE  LET rows == AppendRows(run.layer, h, n)
             old == kv.rows[run.layer]
         IN  /\ \A l \in Layers \ {run.layer} : rows[l] = kv.rows[l]
             /\ Len(rows[run.layer]) = Len(old) + n
             /\ \A i \in 1..Len(old) : rows[run.layer][i] = old[i]
             /\ \A i \in Len(old)+1..Len(old)+n :
                  rows[run.layer][i] = "right" <=> h = Hidden(Pos, run.layer)
  <1> DEFINE old == kv.rows[run.layer]
             new == [i \in 1..n |-> IF h = Hidden(Pos, run.layer) THEN "right" ELSE "junk"]
  <1>1. /\ old \in Seq(RowKinds) /\ Len(old) \in Nat
        /\ new \in Seq(RowKinds) /\ Len(new) = n
    BY DEF KVOK, RowKinds
  <1>2. \A i \in 1..n : new[i] = "right" <=> h = Hidden(Pos, run.layer)
    OBVIOUS
  <1>3. AppendRows(run.layer, h, n) = [kv.rows EXCEPT ![run.layer] = old \o new]
    BY DEF AppendRows
  <1> HIDE DEF new
  <1>4. /\ Len(old \o new) = Len(old) + n
        /\ \A i \in 1..Len(old) : (old \o new)[i] = old[i]
        /\ \A i \in Len(old)+1..Len(old)+n : (old \o new)[i] = new[i - Len(old)]
    <2> HIDE DEF old
    <2> QED
      BY <1>1
  <1>5. \A i \in Len(old)+1..Len(old)+n : i - Len(old) \in 1..n
    <2> HIDE DEF old
    <2>1. Len(old) \in Nat
      BY <1>1
    <2>2. \A k \in Nat : \A i \in k+1..k+n : i - k \in 1..n
      OBVIOUS
    <2> QED
      BY <2>1, <2>2
  <1>6. kv.rows \in [Layers -> Seq(RowKinds)]
    BY DEF KVOK
  <1> QED
    BY <1>2, <1>3, <1>4, <1>5, <1>6

\* A pass works on the slots after the completed ones.
LEMMA PassSlots ==
  ASSUME IInv, run.pc \in {"block", "host", "batch"}
  PROVE  /\ run.layer \in Layers /\ run.batch \in Nat /\ run.batch > 0
         /\ kv.length \in Nat /\ Len(kv.rows[run.layer]) = kv.length
         /\ Pos = kv.length + run.batch - 1
         /\ run.batch = 1 => kv.length..Pos = {Pos}
  <1>1. run.layer \in Layers /\ run.batch \in Nat /\ run.batch > 0 /\ kv.length \in Nat
    BY TypeParts DEF IInv, Places, RunOK, KVOK
  <1>2. Len(kv.rows[run.layer]) = kv.length
    <2>1. Len(kv.rows[run.layer]) = kv.length + Appended(run.layer)
      BY <1>1 DEF IInv, LayersTogether
    <2>2. Appended(run.layer) = 0
      BY <1>1, SizesAssumption DEF Appended, Layers
    <2> QED
      BY <1>1, <2>1, <2>2
  <1> QED
    BY <1>1, <1>2 DEF Pos

\* The same rows go to the host mirror and to the device.
LEMMA WriteMirrors ==
  ASSUME IInv, run.pc \in {"block", "host", "batch"}, Mirrored(kv.rows, dev.kv), NEW h
  PROVE  Mirrored(AppendRows(run.layer, h, run.batch),
                  DeviceWrite(run.layer, h, kv.length..Pos))
  <1> DEFINE rows == AppendRows(run.layer, h, run.batch)
             dkv == DeviceWrite(run.layer, h, kv.length..Pos)
             old == kv.rows[run.layer]
  <1>1. KVOK /\ DevOK
    BY TypeParts DEF IInv
  <1>2. /\ run.layer \in Layers /\ run.batch \in Nat /\ kv.length \in Nat
        /\ Len(old) = kv.length /\ Pos = kv.length + run.batch - 1
    BY PassSlots
  <1>3. /\ \A l \in Layers \ {run.layer} : rows[l] = kv.rows[l]
        /\ Len(rows[run.layer]) = kv.length + run.batch
        /\ \A i \in 1..kv.length : rows[run.layer][i] = old[i]
        /\ \A i \in kv.length+1..kv.length+run.batch :
             rows[run.layer][i] = "right" => h = Hidden(Pos, run.layer)
    BY <1>1, <1>2, AppendRowsAt
  <1>4. /\ \A l \in Layers \ {run.layer} : dkv[l] = dev.kv[l]
        /\ dkv[run.layer] = IF h = Hidden(Pos, run.layer)
                            THEN dev.kv[run.layer] \cup (kv.length..Pos)
                            ELSE dev.kv[run.layer] \ (kv.length..Pos)
    BY <1>1, <1>2 DEF DeviceWrite, DevOK, DeviceRows
  <1> HIDE DEF rows, dkv
  <1>5. ASSUME NEW l \in OnGPU, NEW i \in HostRight(rows, l)
        PROVE  i \in dkv[l]
    <2>1. l \in Layers
      BY DEF OnGPU
    <2>2. CASE l # run.layer
      <3>1. i \in HostRight(kv.rows, l)
        BY <1>3, <2>1, <2>2, <1>5 DEF HostRight
      <3> QED
        BY <3>1, <2>1, <2>2, <1>4 DEF Mirrored
    <2>3. CASE l = run.layer
      <3> DEFINE r == rows[run.layer]
      <3>0. i \in HostRight(rows, run.layer) /\ Len(r) = kv.length + run.batch
        BY <1>3, <1>5, <2>3
      <3>1. i \in 0..kv.length+run.batch-1 /\ r[i + 1] = "right"
        <4>1. i \in 0..Len(r)-1 /\ r[i + 1] = "right"
          BY <3>0 DEF HostRight
        <4> HIDE DEF r
        <4> QED
          BY <1>2, <3>0, <4>1
      <3>2. CASE i < kv.length
        <4>0. i + 1 \in 1..kv.length /\ i \in 0..kv.length-1
          BY <1>2, <3>1, <3>2
        <4>1. i \in HostRight(kv.rows, run.layer)
          <5>1. old[i + 1] = "right"
            BY <1>3, <3>1, <4>0
          <5> QED
            BY <1>2, <4>0, <5>1 DEF HostRight
        <4>2. i \in dev.kv[l]
          BY <4>1, <2>3 DEF Mirrored
        <4>3. i \notin kv.length..Pos
          BY <1>2, <3>1, <3>2
        <4> QED
          BY <4>2, <4>3, <1>4, <2>3
      <3>3. CASE ~(i < kv.length)
        <4>1. i \in kv.length..Pos /\ i + 1 \in kv.length+1..kv.length+run.batch
          BY <1>2, <3>1, <3>3
        <4>2. h = Hidden(Pos, run.layer)
          BY <4>1, <3>1, <1>3
        <4> QED
          BY <4>1, <4>2, <1>4, <2>3
      <3> QED
        BY <3>2, <3>3
    <2> QED
      BY <2>2, <2>3
  <1> QED
    BY <1>5 DEF Mirrored, rows, dkv

\* After AppendN and KVCacheAppendN the device holds the new rows, or is stale.
LEMMA MirrorMirrors ==
  ASSUME IInv, DeviceMirrors, run.pc \in {"block", "host", "batch"},
         NEW m \in Mirror(AppendRows(run.layer, run.x, run.batch), run.layer, run.x,
                          kv.length..Pos),
         ~m.stale
  PROVE  Mirrored(AppendRows(run.layer, run.x, run.batch), m.kv)
  <1> DEFINE rows == AppendRows(run.layer, run.x, run.batch)
             ps == kv.length..Pos
  <1>1. KVOK /\ DevOK /\ run.layer \in Layers /\ run.batch \in Nat
    BY TypeParts, PassSlots DEF IInv
  <1>2. CASE run.layer \notin OnGPU \/ decode.stale
    <2>1. m = [kv |-> dev.kv, stale |-> decode.stale]
      BY <1>2 DEF Mirror
    <2>2. run.layer \notin OnGPU /\ Mirrored(kv.rows, dev.kv)
      BY <2>1, <1>2 DEF DeviceMirrors, Mirrored
    <2>3. \A l \in OnGPU : rows[l] = kv.rows[l]
      <3>1. \A l \in Layers \ {run.layer} : rows[l] = kv.rows[l]
        BY <1>1, AppendRowsAt
      <3> QED
        BY <3>1, <2>2 DEF OnGPU
    <2> HIDE DEF rows
    <2>4. Mirrored(rows, dev.kv)
      BY <2>2, <2>3 DEF Mirrored, HostRight
    <2> QED
      BY <2>1, <2>4 DEF rows
  <1>3. CASE ~(run.layer \notin OnGPU \/ decode.stale)
    <2>1. \/ m = [kv |-> DeviceWrite(run.layer, run.x, ps), stale |-> FALSE]
          \/ m \in Recovery(rows)
      BY <1>3 DEF Mirror
    <2>2. Mirrored(kv.rows, dev.kv)
      BY <1>3 DEF DeviceMirrors, Mirrored
    <2>3. CASE m = [kv |-> DeviceWrite(run.layer, run.x, ps), stale |-> FALSE]
      BY <2>2, <2>3, WriteMirrors
    <2>4. CASE m \in Recovery(rows)
      BY <1>1, <2>4, RecoveryMirrors
    <2> QED
      BY <2>1, <2>3, <2>4
  <1> QED
    BY <1>2, <1>3

\* Where the mirror is exact, or the device is marked stale, or the call failed.
LEMMA MirrorsAfter ==
  ASSUME dev'.ngl = dev.ngl,
         run'.pc = "failed" \/ decode'.stale \/ Mirrored(kv'.rows, dev'.kv)
  PROVE  DeviceMirrors'
  <1>1. OnGPU' = OnGPU
    BY DEF OnGPU
  <1>2. \A l : HostRight(kv.rows, l)' = HostRight(kv'.rows, l)
    BY DEF HostRight
  <1> QED
    BY <1>1, <1>2 DEF DeviceMirrors, Mirrored

\* A step that leaves both copies and the flag as they are.
LEMMA StillMirrors ==
  ASSUME DeviceMirrors, kv' = kv, dev'.kv = dev.kv, dev'.ngl = dev.ngl,
         decode'.stale = decode.stale, run.pc # "failed"
  PROVE  DeviceMirrors'
  <1>1. decode.stale \/ Mirrored(kv.rows, dev.kv)
    BY DEF DeviceMirrors, Mirrored
  <1> QED
    BY <1>1, MirrorsAfter

\* Two empty caches mirror each other.
LEMMA ResetMirrors ==
  ASSUME DevOK, kv' = CacheReset, dev' = DevReset
  PROVE  DeviceMirrors'
  <1>1. \A l \in Layers : kv'.rows[l] = << >> /\ Len(kv'.rows[l]) = 0
    BY DEF CacheReset
  <1>2. dev'.ngl = dev.ngl
    BY DEF DevOK, DevReset
  <1>3. \A l \in OnGPU : HostRight(kv'.rows, l) = {}
    BY <1>1 DEF HostRight, OnGPU
  <1> QED
    BY <1>2, <1>3, MirrorsAfter DEF Mirrored

\* The device computes a layer: it has the row, and the host a hollow one.
LEMMA DeviceBlockMirrors ==
  ASSUME IInv, DeviceMirrors, DeviceBlock
  PROVE  DeviceMirrors'
  <1> DEFINE rows == [kv.rows EXCEPT ![run.layer] = Append(@, "hollow")]
             dkv == DeviceWrite(run.layer, dev.resid, {Pos})
             old == kv.rows[run.layer]
  <1>1. KVOK /\ DevOK /\ DecodeOK
    BY TypeParts DEF IInv
  <1>2. run.pc = "block" /\ run.batch = 1
    BY DEF DeviceBlock, IInv, Places
  <1>3. /\ run.layer \in Layers /\ kv.length \in Nat /\ Len(old) = kv.length
        /\ Pos = kv.length
    BY <1>2, PassSlots
  <1>4. /\ \A l \in Layers \ {run.layer} : rows[l] = kv.rows[l]
        /\ rows[run.layer] = Append(old, "hollow")
        /\ old \in Seq(RowKinds)
    BY <1>1, <1>3 DEF KVOK
  <1>5. /\ Len(Append(old, "hollow")) = kv.length + 1
        /\ \A i \in 1..kv.length : Append(old, "hollow")[i] = old[i]
        /\ Append(old, "hollow")[kv.length + 1] = "hollow"
    BY <1>3, <1>4 DEF RowKinds
  <1>6. /\ \A l \in Layers \ {run.layer} : dkv[l] = dev.kv[l]
        /\ dev.kv[run.layer] \ {Pos} \subseteq dkv[run.layer]
    BY <1>1, <1>3 DEF DeviceWrite, DevOK, DeviceRows
  <1> HIDE DEF rows, dkv
  <1>7. ASSUME Mirrored(kv.rows, dev.kv), NEW l \in OnGPU, NEW i \in HostRight(rows, l)
        PROVE  i \in dkv[l]
    <2>1. l \in Layers
      BY DEF OnGPU
    <2>2. CASE l # run.layer
      <3>1. i \in HostRight(kv.rows, l)
        BY <1>4, <2>1, <2>2, <1>7 DEF HostRight
      <3> QED
        BY <3>1, <2>1, <2>2, <1>6, <1>7 DEF Mirrored
    <2>3. CASE l = run.layer
      <3> DEFINE r == Append(old, "hollow")
      <3>1. i \in 0..Len(r)-1 /\ r[i + 1] = "right"
        BY <1>4, <1>7, <2>3 DEF HostRight
      <3> HIDE DEF r
      <3>2. i \in 0..kv.length /\ i # kv.length
        BY <1>3, <1>5, <3>1 DEF r
      <3>3. i + 1 \in 1..kv.length /\ i \in 0..kv.length-1
        BY <1>3, <3>2
      <3>4. i \in HostRight(kv.rows, run.layer)
        <4>1. old[i + 1] = "right"
          BY <1>5, <3>1, <3>3 DEF r
        <4> QED
          BY <1>3, <3>3, <4>1 DEF HostRight
      <3>5. i \in dev.kv[run.layer]
        BY <3>4, <1>7, <2>3 DEF Mirrored
      <3> QED
        BY <3>2, <3>5, <1>3, <1>6, <2>3
    <2> QED
      BY <2>2, <2>3
  <1>8. Mirrored(kv.rows, dev.kv) => Mirrored(rows, dkv)
    BY <1>7 DEF Mirrored
  <1>9. /\ kv'.rows = rows /\ dev'.kv = dkv /\ dev'.ngl = dev.ngl
        /\ decode'.stale = decode.stale
    BY <1>1 DEF DeviceBlock, rows, dkv, Bumped, DevOK, DecodeOK
  <1>10. decode.stale \/ Mirrored(kv.rows, dev.kv)
    BY <1>2 DEF DeviceMirrors, Mirrored
  <1> QED
    BY <1>8, <1>9, <1>10, MirrorsAfter

\* The hidden state returns to the host in the middle of a token.
LEMMA ToHostMirrors ==
  ASSUME IInv, DeviceMirrors, DeviceBlockToHost
  PROVE  DeviceMirrors'
  <1>1. KVOK /\ DevOK /\ DecodeOK /\ run.pc # "failed"
    BY TypeParts DEF IInv, DeviceBlockToHost
  <1>2. PICK m \in AfterQKVFailure : RecoverHidden(m)
    BY DEF DeviceBlockToHost
  <1>3. kv' = kv /\ dev'.ngl = dev.ngl /\ dev'.kv = m.kv /\ decode'.stale = m.stale
    BY <1>1, <1>2 DEF DeviceBlockToHost, RecoverHidden, DevOK, DecodeOK
  <1>4. m \in Recovery(kv.rows) \/ m = [kv |-> dev.kv, stale |-> decode.stale]
    BY <1>2 DEF AfterQKVFailure
  <1>5. CASE m \in Recovery(kv.rows)
    <2>1. m.stale \/ Mirrored(kv.rows, m.kv)
      BY <1>1, <1>5, RecoveryMirrors
    <2> QED
      BY <1>3, <2>1, MirrorsAfter
  <1>6. CASE m = [kv |-> dev.kv, stale |-> decode.stale]
    BY <1>1, <1>3, <1>6, StillMirrors
  <1> QED
    BY <1>4, <1>5, <1>6

\* The host computes a layer and appends its row to both, or marks the device.
LEMMA HostBlockMirrors ==
  ASSUME IInv, DeviceMirrors, HostBlock \/ HostBlockFused
  PROVE  DeviceMirrors'
  <1> DEFINE rows == AppendRows(run.layer, run.x, run.batch)
             ps == kv.length..Pos
  <1>1. DevOK /\ DecodeOK
    BY TypeParts DEF IInv
  <1>2. run.pc \in {"block", "host"} /\ run.batch = 1
    BY DEF HostBlock, HostBlockFused, InHostBlock, IInv, Places
  <1>3. ps = {Pos}
    BY <1>2, PassSlots
  <1>4. CASE HostBlock
    <2>1. PICK m \in Mirror(rows, run.layer, run.x, ps) :
            \E attended \in Attentions(m, rows, run.layer) : HostLayer(rows, m, attended)
      BY <1>2, <1>3, <1>4 DEF HostBlock
    <2>2. /\ kv'.rows = rows /\ dev'.kv = m.kv /\ dev'.ngl = dev.ngl
          /\ decode'.stale = m.stale
      BY <1>1, <2>1 DEF HostLayer, DevOK, DecodeOK
    <2>3. m.stale \/ Mirrored(rows, m.kv)
      BY <1>2, MirrorMirrors
    <2> QED
      BY <2>2, <2>3, MirrorsAfter
  <1>5. CASE HostBlockFused
    <2>1. ~decode.stale
      BY <1>5 DEF HostBlockFused
    <2>2. Mirrored(rows, DeviceWrite(run.layer, run.x, ps))
      <3>1. Mirrored(kv.rows, dev.kv)
        BY <1>2, <2>1 DEF DeviceMirrors, Mirrored
      <3> QED
        BY <1>2, <3>1, WriteMirrors
    <2>3. /\ kv'.rows = rows /\ dev'.kv = DeviceWrite(run.layer, run.x, ps)
          /\ dev'.ngl = dev.ngl
      BY <1>1, <1>2, <1>3, <1>5 DEF HostBlockFused, HostLayer, DevOK
    <2> QED
      BY <2>2, <2>3, MirrorsAfter
  <1> QED
    BY <1>4, <1>5

\* So does a chunk, with all its rows.
LEMMA BatchBlockMirrors ==
  ASSUME IInv, DeviceMirrors, BatchBlock
  PROVE  DeviceMirrors'
  <1> DEFINE rows == AppendRows(run.layer, run.x, run.batch)
  <1>1. DevOK /\ DecodeOK /\ run.pc = "batch"
    BY TypeParts DEF IInv, BatchBlock
  <1>2. PICK m \in Mirror(rows, run.layer, run.x, kv.length..Pos) :
          /\ dev' = [dev EXCEPT !.kv = m.kv]
          /\ decode' = [decode EXCEPT !.stale = m.stale]
    BY DEF BatchBlock
  <1>3. /\ kv'.rows = rows /\ dev'.kv = m.kv /\ dev'.ngl = dev.ngl
        /\ decode'.stale = m.stale
    BY <1>1, <1>2 DEF BatchBlock, DevOK, DecodeOK
  <1>4. m.stale \/ Mirrored(rows, m.kv)
    BY <1>1, MirrorMirrors
  <1> QED
    BY <1>3, <1>4, MirrorsAfter

\* Every step keeps the mirror.
LEMMA NextMirrors == IInv /\ DeviceMirrors /\ [Next]_vars => DeviceMirrors'
  <1> SUFFICES ASSUME IInv, DeviceMirrors, [Next]_vars
               PROVE  DeviceMirrors'
    OBVIOUS
  <1>1. DevOK /\ DecodeOK
    BY TypeParts DEF IInv
  <1>2. CASE \E n \in 1..CtxLen : Forward(n) \/ Embed(n)
    <2>1. PICK n \in 1..CtxLen : Forward(n) \/ Embed(n)
      BY <1>2
    <2>2. CASE Forward(n)
      BY <2>2, StillMirrors DEF Forward
    <2>3. CASE Embed(n)
      BY <1>1, <2>3, ResetMirrors DEF Embed
    <2> QED
      BY <2>1, <2>2, <2>3
  <1>3. CASE ResetCache \/ DeviceFFNFails \/ DeviceBlockFails
    BY <1>1, <1>3, ResetMirrors DEF ResetCache, DeviceFFNFails, DeviceBlockFails, ResetAndFail
  <1>4. CASE Token
    <2>1. /\ kv' = kv /\ dev'.kv = dev.kv /\ dev'.ngl = dev.ngl
          /\ decode'.stale = decode.stale /\ run.pc # "failed"
      BY <1>1, <1>4 DEF Token, Gather, Upload, EmbedToken, DevOK, DecodeOK
    <2> QED
      BY <2>1, StillMirrors
  <1>5. CASE HostBlockFails
    <2>1. dev'.ngl = dev.ngl /\ run'.pc = "failed"
      BY <1>5, FailedPlaces DEF HostBlockFails
    <2> QED
      BY <2>1, MirrorsAfter
  <1>6. CASE Chunk \/ ChunkFails \/ BatchLogitsResident \/ BatchLogitsHost \/ LogitsDevice
    <2>1. /\ kv' = kv /\ dev'.kv = dev.kv /\ dev'.ngl = dev.ngl
          /\ decode'.stale = decode.stale /\ run.pc # "failed"
      BY <1>1, <1>6 DEF Chunk, ChunkFails, BatchLogitsResident, BatchLogitsHost,
                        LogitsDevice, DevOK, DecodeOK
    <2> QED
      BY <2>1, StillMirrors
  <1>7. CASE LogitsHost \/ EmbedResult
    <2>1. /\ kv' = kv /\ dev'.kv = dev.kv /\ dev'.ngl = dev.ngl
          /\ decode'.stale = decode.stale /\ run.pc # "failed"
      BY <1>1, <1>7 DEF LogitsHost, EmbedResult, HiddenToHost, DevOK, DecodeOK
    <2> QED
      BY <2>1, StillMirrors
  <1>8. CASE UNCHANGED vars
    BY <1>8 DEF vars, DeviceMirrors, OnGPU, HostRight
  <1> QED
    BY <1>2, <1>3, <1>4, <1>5, <1>6, <1>7, <1>8, DeviceBlockMirrors, ToHostMirrors,
       HostBlockMirrors, BatchBlockMirrors
    DEF Next, Block, Prefill, Logits

\* Unless GPUKVStale says otherwise the device KV holds every row the host
\* mirror holds, whichever appends, rebuilds and fused calls failed.
THEOREM DeviceMirrorsHost == Spec => []DeviceMirrors
  <1>1. Init => DeviceMirrors
    BY DEF Init, DeviceMirrors, HostRight, OnGPU
  <1>2. IInv /\ IInv' /\ DeviceMirrors /\ [Next]_vars => DeviceMirrors'
    BY NextMirrors
  <1> QED
    BY <1>1, <1>2, InvariantHolds, PTL DEF Spec
-----------------------------------------------------------------------------
(* The answer is right *)

\* No row of the mirror is junk, and a slot is hollow only on a device that
\* has all layers.
HostHolds(rows) ==
  \A l \in Layers : \A i \in 1..Len(rows[l]) :
    rows[l][i] = "right" \/ (rows[l][i] = "hollow" /\ OnGPU = Layers)

\* The device holds the right row of every slot, hollow or not.
DeviceHolds(rows, dkv) == \A l \in OnGPU : 0..Len(rows[l])-1 \subseteq dkv[l]

Last == Hidden(kv.length - 1, NumLayers)

\* Where the hidden state of the pass is, and that it is the right one.
Current ==
  /\ (run.pc = "block" /\ decode.residDevice /\ dev.active) =>
       dev.resid = Hidden(Pos, run.layer)
  /\ (InHostBlock \/ run.pc = "batch") => run.x = Hidden(Pos, run.layer)
  /\ run.pc = "host" => ~decode.residDevice
  /\ (run.pc = "logits" /\ decode.residDevice /\ dev.active) => dev.resid = Last
  /\ (run.pc = "logits" /\ ~decode.residDevice) => run.x = Last
  /\ run.pc = "batchLogits" => run.x = Last
  /\ (run.pc = "idle" /\ run.todo = 0 /\ kv.length > 0) => run.logits = Last

\* Residency is for a device with all layers.  A failed upload ends it and
\* leaves residDevice set, over a d_resid that the backend gives up.
Resident ==
  /\ (decode.residency \/ decode.residDevice) => OnGPU = Layers
  /\ (run.pc # "failed" /\ decode.residDevice /\ ~decode.residency) => ~dev.active

Holding ==
  run.pc # "failed" =>
    ~decode.stale /\ HostHolds(kv.rows) /\ DeviceHolds(kv.rows, dev.kv) /\ Current

AnswerInv == ReliableKV => Resident /\ Holding

\* What the device can do does not change.
LEMMA DeviceFixed ==
  ASSUME IInv, [Next]_vars
  PROVE  dev'.maxSeq = dev.maxSeq /\ dev'.ngl = dev.ngl /\ dev'.faults = dev.faults
  <1>1. DevOK
    BY TypeParts DEF IInv
  <1>2. CASE \E n \in 1..CtxLen : Forward(n) \/ Embed(n)
    BY <1>1, <1>2 DEF Forward, Embed, DevReset, DevOK
  <1>3. CASE ResetCache
    BY <1>1, <1>3 DEF ResetCache, DevReset, DevOK
  <1>4. CASE Token
    BY <1>1, <1>4 DEF Token, Gather, Upload, EmbedToken, DevOK
  <1>5. CASE DeviceBlock
    BY <1>1, <1>5 DEF DeviceBlock, DevOK
  <1>6. CASE DeviceFFNFails \/ DeviceBlockFails
    BY <1>1, <1>6 DEF DeviceFFNFails, DeviceBlockFails, ResetAndFail, DevReset, DevOK
  <1>7. CASE DeviceBlockToHost
    BY <1>1, <1>7 DEF DeviceBlockToHost, RecoverHidden, DevOK
  <1>8. CASE HostBlock \/ HostBlockFused
    BY <1>1, <1>8 DEF HostBlock, HostBlockFused, HostLayer, DevOK
  <1>9. CASE HostBlockFails
    BY <1>1, <1>9 DEF HostBlockFails, DevOK
  <1>10. CASE Prefill
    BY <1>1, <1>10 DEF Prefill, Chunk, ChunkFails, BatchBlock, BatchLogitsResident,
                       BatchLogitsHost, DevOK
  <1>11. CASE Logits
    BY <1>1, <1>11 DEF Logits, LogitsDevice, LogitsHost, EmbedResult, HiddenToHost, DevOK
  <1>12. CASE UNCHANGED vars
    BY <1>12 DEF vars
  <1> QED
    BY <1>2, <1>3, <1>4, <1>5, <1>6, <1>7, <1>8, <1>9, <1>10, <1>11, <1>12
    DEF Next, Block

\* What the capabilities of a device decide stays while they do.
LEMMA SameDevice ==
  ASSUME dev'.maxSeq = dev.maxSeq, dev'.ngl = dev.ngl, dev'.faults = dev.faults
  PROVE  /\ OnGPU' = OnGPU /\ (ReliableKV <=> ReliableKV')
         /\ HostHolds(kv.rows)' <=> HostHolds(kv'.rows)
         /\ DeviceHolds(kv.rows, dev.kv)' <=> DeviceHolds(kv'.rows, dev'.kv)
  <1>1. OnGPU' = OnGPU
    BY DEF OnGPU
  <1> QED
    BY <1>1 DEF ReliableKV, HostHolds, DeviceHolds

\* After a reset nothing is held that could be wrong.
LEMMA ResetAnswers ==
  ASSUME IInv, Resident, kv' = CacheReset, dev' = DevReset, decode' = DecodeReset,
         run'.pc \in {"idle", "failed", "token"}
  PROVE  Resident' /\ Holding'
  <1>1. DevOK /\ DecodeOK
    BY TypeParts DEF IInv
  <1>2. /\ dev'.ngl = dev.ngl /\ ~decode'.stale /\ ~decode'.residDevice
        /\ decode'.residency = decode.residency /\ kv'.length = 0
        /\ \A l \in Layers : kv'.rows[l] = << >> /\ Len(kv'.rows[l]) = 0
    BY <1>1 DEF DevOK, DecodeOK, DevReset, DecodeReset, CacheReset
  <1>3. OnGPU' = OnGPU
    BY <1>2 DEF OnGPU
  <1>4. Resident'
    BY <1>2, <1>3 DEF Resident
  <1>5. HostHolds(kv.rows)'
    BY <1>2 DEF HostHolds
  <1>6. DeviceHolds(kv.rows, dev.kv)'
    BY <1>2 DEF DeviceHolds, OnGPU
  <1>7. Current'
    BY <1>2 DEF Current, InHostBlock
  <1> QED
    BY <1>2, <1>4, <1>5, <1>6, <1>7 DEF Holding

\* A step that leaves the rows alone.
LEMMA StillHolds ==
  ASSUME Holding, run.pc # "failed", kv' = kv, dev'.kv = dev.kv, dev'.ngl = dev.ngl,
         decode'.stale = decode.stale, run'.pc # "failed" => Current'
  PROVE  Holding'
  <1>1. OnGPU' = OnGPU
    BY DEF OnGPU
  <1> QED
    BY <1>1 DEF Holding, HostHolds, DeviceHolds

\* A pass that works on the right hidden state appends right rows, on the host
\* and on the device, and attends over right rows.
LEMMA AppendHolds ==
  ASSUME IInv, run.pc \in {"block", "host", "batch"},
         HostHolds(kv.rows), DeviceHolds(kv.rows, dev.kv),
         NEW h, h = Hidden(Pos, run.layer)
  PROVE  LET rows == AppendRows(run.layer, h, run.batch)
             dkv == DeviceWrite(run.layer, h, kv.length..Pos)
         IN  /\ HostHolds(rows) /\ DeviceHolds(rows, dkv)
             /\ run.layer \notin OnGPU =>
                  DeviceHolds(rows, dev.kv) /\ HostAttends(rows, run.layer, Pos)
             /\ run.layer \in OnGPU => DeviceAttends(dkv, run.layer, Pos)
  <1> DEFINE rows == AppendRows(run.layer, h, run.batch)
             dkv == DeviceWrite(run.layer, h, kv.length..Pos)
             r == rows[run.layer]
             old == kv.rows[run.layer]
  <1>1. KVOK /\ DevOK
    BY TypeParts DEF IInv
  <1>2. /\ run.layer \in Layers /\ run.batch \in Nat /\ kv.length \in Nat
        /\ Len(old) = kv.length /\ Pos = kv.length + run.batch - 1
    BY PassSlots
  <1>3. /\ \A l \in Layers \ {run.layer} : rows[l] = kv.rows[l]
        /\ Len(r) = kv.length + run.batch
        /\ \A i \in 1..kv.length : r[i] = old[i]
        /\ \A i \in kv.length+1..kv.length+run.batch : r[i] = "right"
    <2>1. /\ \A l \in Layers \ {run.layer} : rows[l] = kv.rows[l]
          /\ Len(r) = Len(old) + run.batch
          /\ \A i \in 1..Len(old) : r[i] = old[i]
          /\ \A i \in Len(old)+1..Len(old)+run.batch :
               r[i] = "right" <=> h = Hidden(Pos, run.layer)
      BY <1>1, <1>2, AppendRowsAt
    <2>2. \A i \in Len(old)+1..Len(old)+run.batch : r[i] = "right"
      <3> HIDE DEF r, old
      <3> QED
        BY <2>1
    <2> HIDE DEF r, old
    <2> QED
      BY <2>1, <2>2, <1>2
  <1>4. /\ \A l \in Layers \ {run.layer} : dkv[l] = dev.kv[l]
        /\ dkv[run.layer] = dev.kv[run.layer] \cup (kv.length..Pos)
    BY <1>1, <1>2 DEF DeviceWrite, DevOK, DeviceRows
  <1> HIDE DEF rows, dkv
  <1>5. ASSUME NEW i \in 1..kv.length+run.batch
        PROVE  r[i] = "right" \/ (r[i] = "hollow" /\ OnGPU = Layers)
    <2>1. CASE i \in 1..kv.length
      <3>1. i \in 1..Len(old) /\ r[i] = old[i]
        BY <2>1, <1>2, <1>3
      <3>2. old[i] = "right" \/ (old[i] = "hollow" /\ OnGPU = Layers)
        BY <3>1, <1>2 DEF HostHolds
      <3> QED
        BY <3>1, <3>2
    <2>2. CASE i \in kv.length+1..kv.length+run.batch
      BY <2>2, <1>3
    <2> QED
      BY <1>2, <2>1, <2>2
  <1>6. HostHolds(rows)
    <2>1. ASSUME NEW l \in Layers, NEW i \in 1..Len(rows[l])
          PROVE  rows[l][i] = "right" \/ (rows[l][i] = "hollow" /\ OnGPU = Layers)
      <3>1. CASE l = run.layer
        BY <3>1, <1>3, <1>5
      <3>2. CASE l # run.layer
        BY <3>2, <1>3 DEF HostHolds
      <3> QED
        BY <3>1, <3>2
    <2> QED
      BY <2>1 DEF HostHolds
  <1>7. DeviceHolds(rows, dkv)
    <2>1. ASSUME NEW l \in OnGPU
          PROVE  0..Len(rows[l])-1 \subseteq dkv[l]
      <3>1. CASE l = run.layer
        <4>1. 0..kv.length-1 \subseteq dev.kv[run.layer]
          BY <1>2, <3>1 DEF DeviceHolds
        <4>2. 0..Len(r)-1 = (0..kv.length-1) \cup (kv.length..Pos)
          BY <1>2, <1>3
        <4> QED
          BY <3>1, <4>1, <4>2, <1>4
      <3>2. CASE l # run.layer
        BY <3>2, <1>3, <1>4 DEF DeviceHolds, OnGPU
      <3> QED
        BY <3>1, <3>2
    <2> QED
      BY <2>1 DEF DeviceHolds
  <1>8. ASSUME run.layer \notin OnGPU
        PROVE  DeviceHolds(rows, dev.kv) /\ HostAttends(rows, run.layer, Pos)
    <2>1. \A l \in OnGPU : rows[l] = kv.rows[l]
      BY <1>3, <1>8 DEF OnGPU
    <2>2. DeviceHolds(rows, dev.kv)
      BY <2>1 DEF DeviceHolds
    <2>3. \A i \in 0..Pos : i \in 0..Len(r)-1 /\ i + 1 \in 1..kv.length+run.batch
      BY <1>2, <1>3
    <2>4. OnGPU # Layers
      BY <1>2, <1>8
    <2>5. \A i \in 0..Pos : r[i + 1] = "right"
      BY <1>5, <2>3, <2>4
    <2> QED
      BY <2>2, <2>3, <2>5 DEF HostAttends, HostRight
  <1>9. ASSUME run.layer \in OnGPU
        PROVE  DeviceAttends(dkv, run.layer, Pos)
    <2>1. 0..Pos = 0..Len(r)-1
      BY <1>2, <1>3
    <2> QED
      BY <2>1, <1>7, <1>9 DEF DeviceHolds, DeviceAttends
  <1> QED
    BY <1>6, <1>7, <1>8, <1>9 DEF rows, dkv

\* With a reliable device KV, AppendN and KVCacheAppendN leave right rows on
\* both sides, nothing stale, and an attention that reads them.
LEMMA MirrorHolds ==
  ASSUME IInv, ReliableKV, Holding, run.pc \in {"block", "host", "batch"},
         run.x = Hidden(Pos, run.layer),
         NEW m \in Mirror(AppendRows(run.layer, run.x, run.batch), run.layer, run.x,
                          kv.length..Pos)
  PROVE  LET rows == AppendRows(run.layer, run.x, run.batch)
         IN  /\ ~m.stale /\ HostHolds(rows) /\ DeviceHolds(rows, m.kv)
             /\ \A attended \in Attentions(m, rows, run.layer) : attended
  <1> DEFINE rows == AppendRows(run.layer, run.x, run.batch)
             dkv == DeviceWrite(run.layer, run.x, kv.length..Pos)
  <1>1. Pos < dev.maxSeq
    BY PosInContext, SizesAssumption DEF ReliableKV, Positions
  <1>2. ~Fault("append") /\ ~Fault("attention")
    BY DEF ReliableKV, Fault
  <1>3. ~decode.stale /\ HostHolds(kv.rows) /\ DeviceHolds(kv.rows, dev.kv)
    BY DEF Holding
  <1>4. /\ HostHolds(rows) /\ DeviceHolds(rows, dkv)
        /\ run.layer \notin OnGPU =>
             DeviceHolds(rows, dev.kv) /\ HostAttends(rows, run.layer, Pos)
        /\ run.layer \in OnGPU => DeviceAttends(dkv, run.layer, Pos)
    BY <1>3, AppendHolds
  <1>5. CASE run.layer \notin OnGPU
    <2>1. m = [kv |-> dev.kv, stale |-> FALSE]
      BY <1>3, <1>5 DEF Mirror
    <2>2. Attentions(m, rows, run.layer) = {HostAttends(rows, run.layer, Pos)}
      BY <1>5 DEF Attentions
    <2> HIDE DEF rows, dkv
    <2>3. \A attended \in Attentions(m, rows, run.layer) : attended
      BY <1>4, <1>5, <2>2
    <2>4. m.kv = dev.kv /\ ~m.stale
      BY <2>1
    <2> QED
      BY <1>4, <1>5, <2>3, <2>4 DEF rows
  <1>6. CASE run.layer \in OnGPU
    <2>1. m = [kv |-> dkv, stale |-> FALSE]
      BY <1>1, <1>2, <1>3, <1>6, SizesAssumption, PosInContext DEF Mirror, ReliableKV, Positions
    <2> HIDE DEF dkv
    <2>2. m.kv = dkv /\ ~m.stale
      BY <2>1
    <2>3. Attentions(m, rows, run.layer) = {DeviceAttends(dkv, run.layer, Pos)}
      BY <1>2, <1>6, <2>2 DEF Attentions
    <2> HIDE DEF rows
    <2>4. \A attended \in Attentions(m, rows, run.layer) : attended
      BY <1>4, <1>6, <2>3
    <2> QED
      BY <1>4, <2>2, <2>4 DEF rows
  <1> QED
    BY <1>5, <1>6

\* Once a layer is passed the hidden state, wherever it is, is that of the next
\* layer, or of the last position after all layers.
LEMMA LayerDone ==
  ASSUME IInv, run.pc \in {"block", "host", "batch"}, NEW rows,
         kv' = [rows |-> rows, length |-> Advanced], NEW x, PassDone(x),
         decode'.residDevice = decode.residDevice,
         \/ /\ run.pc = "batch" \/ ~decode.residDevice
            /\ x = Hidden(Pos, run.layer + 1)
         \/ /\ run.pc = "block" /\ decode.residDevice
            /\ dev'.active => dev'.resid = Hidden(Pos, run.layer + 1)
  PROVE  Current' /\ run'.pc # "failed"
  <1>1. /\ kv.length \in Nat /\ run.todo \in Nat /\ run.batch \in Nat
        /\ run.layer \in 0..NumLayers-1 /\ RunOK
        /\ run.pc \in {"block", "host"} => run.batch = 1
    BY TypeParts DEF IInv, Places, KVOK, RunOK, Layers
  <1>2. CASE run.layer + 1 < NumLayers
    <2>1. kv'.length = kv.length
      BY <1>2 DEF Advanced
    <2>2. /\ run'.pc = (IF run.pc = "batch" THEN "batch" ELSE "block")
          /\ run'.layer = run.layer + 1 /\ run'.batch = run.batch /\ run'.x = x
      BY <1>1, <1>2 DEF PassDone, AfterBatchLayer, AfterLayer, RunOK
    <2>3. Pos' = Pos
      BY <2>1, <2>2 DEF Pos
    <2> QED
      BY <2>2, <2>3 DEF Current, InHostBlock
  <1>3. CASE ~(run.layer + 1 < NumLayers)
    <2>1. /\ kv'.length = kv.length + run.batch
          /\ run.layer + 1 = NumLayers /\ kv'.length - 1 = Pos
      BY <1>1, <1>3, SizesAssumption DEF Advanced, Pos
    <2>2. Last' = Hidden(Pos, run.layer + 1)
      BY <2>1 DEF Last
    <2>3. /\ run'.pc \in (IF run.pc = "batch" THEN {"chunk", "batchLogits"}
                                              ELSE {"token", "logits"})
          /\ run'.x = x
      BY <1>1, <1>3 DEF PassDone, AfterBatchLayer, AfterLayer, RunOK
    <2> QED
      BY <2>2, <2>3 DEF Current, InHostBlock
  <1> QED
    BY <1>2, <1>3

\* A pass that is done right leaves everything right.
LEMMA PassHolds ==
  ASSUME Resident, dev'.ngl = dev.ngl,
         run.pc \in {"block", "host", "batch"}, NEW rows,
         kv' = [rows |-> rows, length |-> Advanced],
         HostHolds(rows), DeviceHolds(rows, dev'.kv), Current', run'.pc # "failed",
         ~decode'.stale, decode'.residDevice = decode.residDevice,
         decode'.residency = decode.residency, dev'.active => dev.active
  PROVE  Resident' /\ Holding'
  <1>1. OnGPU' = OnGPU
    BY DEF OnGPU
  <1>2. Resident'
    BY <1>1 DEF Resident
  <1>3. HostHolds(kv.rows)' /\ DeviceHolds(kv.rows, dev.kv)'
    BY <1>1 DEF HostHolds, DeviceHolds
  <1> QED
    BY <1>2, <1>3 DEF Holding

\* A call begins with what the last one left.
LEMMA CallAnswers ==
  ASSUME IInv, Resident, Holding, NEW n \in 1..CtxLen, Forward(n) \/ Embed(n) \/ ResetCache
  PROVE  Resident' /\ Holding'
  <1>1. RunOK
    BY TypeParts DEF IInv
  <1>2. CASE Forward(n)
    <2>1. run'.pc \in {"chunk", "token"} /\ run.pc = "idle"
      BY <1>1, <1>2 DEF Forward, RunOK
    <2>2. kv' = kv /\ dev' = dev /\ decode' = decode
      BY <1>2 DEF Forward
    <2>3. Resident'
      BY <2>1, <2>2 DEF Resident, OnGPU
    <2>4. Current'
      BY <2>1 DEF Current, InHostBlock
    <2> QED
      BY <2>1, <2>2, <2>3, <2>4, StillHolds
  <1>3. CASE Embed(n) \/ ResetCache
    <2>1. run'.pc \in {"idle", "token"}
      BY <1>1, <1>3 DEF Embed, ResetCache, RunOK
    <2> QED
      BY <1>3, <2>1, ResetAnswers DEF Embed, ResetCache
  <1> QED
    BY <1>2, <1>3

\* A token begins with the rows of the conversation.
LEMMA TokenAnswers ==
  ASSUME IInv, Resident, Holding, Token
  PROVE  Resident' /\ Holding'
  <1>1. KVOK /\ DevOK /\ DecodeOK /\ RunOK
    BY TypeParts DEF IInv
  <1>2. run.pc = "token" /\ kv' = kv
    BY DEF Token, Gather, Upload, EmbedToken
  <1>3. ~decode.stale
    BY <1>2 DEF Holding
  <1>4. /\ run'.pc = "block" /\ run'.layer = 0 /\ run'.batch = 1
        /\ dev'.kv = dev.kv /\ dev'.ngl = dev.ngl /\ decode'.stale = decode.stale
    BY <1>1 DEF Token, Gather, Upload, EmbedToken, RunOK, DevOK, DecodeOK
  <1>5. Pos' = kv.length
    BY <1>1, <1>2, <1>4 DEF Pos, KVOK
  <1>6. /\ decode'.residDevice => decode.residDevice \/ decode.residency
        /\ decode'.residency => decode.residency
        /\ decode'.residDevice /\ dev'.active =>
             decode'.residency /\ dev'.resid = Hidden(kv.length, 0)
        /\ ~decode'.residDevice => run'.x = Hidden(kv.length, 0)
    <2>1. CASE Gather
      BY <1>1, <2>1 DEF Gather, DevOK, DecodeOK
    <2>2. CASE Upload
      BY <1>1, <2>2 DEF Upload, DevOK, DecodeOK, RunOK
    <2>3. CASE EmbedToken
      <3>1. dev' = dev /\ decode' = decode /\ ~decode.residency
        BY <1>3, <2>3 DEF EmbedToken
      <3>2. decode.residDevice => ~dev.active
        BY <1>2, <3>1 DEF Resident
      <3>3. run'.x = Hidden(kv.length, 0)
        BY <1>1, <2>3 DEF EmbedToken, RunOK
      <3> QED
        BY <3>1, <3>2, <3>3
    <2> QED
      BY <2>1, <2>2, <2>3 DEF Token
  <1>7. OnGPU' = OnGPU
    BY <1>4 DEF OnGPU
  <1>8. Resident'
    BY <1>4, <1>6, <1>7 DEF Resident
  <1>9. Current'
    BY <1>4, <1>5, <1>6 DEF Current, InHostBlock
  <1> QED
    BY <1>2, <1>4, <1>8, <1>9, StillHolds

\* forwardBlockDevice: the mirror gets a hollow slot, the device the right row.
LEMMA DeviceBlockAnswers ==
  ASSUME IInv, ReliableKV, Resident, Holding, DeviceBlock
  PROVE  Resident' /\ Holding'
  <1> DEFINE rows == [kv.rows EXCEPT ![run.layer] = Append(@, "hollow")]
             right == AppendRows(run.layer, dev.resid, run.batch)
             dkv == DeviceWrite(run.layer, dev.resid, {Pos})
             h == Apply(dev.resid, Pos, run.layer, DeviceAttends(dkv, run.layer, Pos))
             old == kv.rows[run.layer]
  <1>1. KVOK /\ DevOK /\ DecodeOK /\ RunOK
    BY TypeParts DEF IInv
  <1>2. /\ run.pc = "block" /\ run.batch = 1 /\ run.layer \in Layers
        /\ decode.residDevice /\ dev.active
    BY DEF DeviceBlock, IInv, Places
  <1>3. /\ HostHolds(kv.rows) /\ DeviceHolds(kv.rows, dev.kv) /\ ~decode.stale
        /\ dev.resid = Hidden(Pos, run.layer) /\ OnGPU = Layers
    BY <1>2 DEF Holding, Current, Resident
  <1>4. kv.length..Pos = {Pos}
    BY <1>2, PassSlots
  <1>5. DeviceHolds(right, dkv) /\ DeviceAttends(dkv, run.layer, Pos)
    BY <1>2, <1>3, <1>4, AppendHolds
  <1>6. h = Hidden(Pos, run.layer + 1)
    BY <1>3, <1>5 DEF Apply
  <1>7. Grown(rows, 1) /\ Grown(right, 1)
    BY <1>1, <1>2, ReserveGrow, AppendRowsGrow
  <1>8. /\ \A l \in Layers \ {run.layer} : rows[l] = kv.rows[l]
        /\ rows[run.layer] = Append(old, "hollow") /\ old \in Seq(RowKinds)
    BY <1>1, <1>2 DEF KVOK
  <1>9. \A i \in 1..Len(Append(old, "hollow")) :
          Append(old, "hollow")[i] = "hollow" \/ (i \in 1..Len(old) /\ Append(old, "hollow")[i] = old[i])
    BY <1>8 DEF RowKinds
  <1>10. /\ kv' = [rows |-> rows, length |-> Advanced]
         /\ dev' = [dev EXCEPT !.kv = dkv, !.resid = h] /\ PassDone(run.x)
         /\ decode' = [decode EXCEPT !.hollow = TRUE]
    BY <1>2 DEF DeviceBlock, Bumped, PassDone
  <1> HIDE DEF rows, right, dkv, h
  <1>11. HostHolds(rows)
    <2>1. ASSUME NEW l \in Layers, NEW i \in 1..Len(rows[l])
          PROVE  rows[l][i] = "right" \/ rows[l][i] = "hollow"
      <3>1. CASE l = run.layer
        <4>1. \/ rows[l][i] = "hollow"
              \/ i \in 1..Len(old) /\ rows[l][i] = old[i]
          BY <3>1, <1>8, <1>9
        <4> QED
          BY <4>1, <3>1, <1>3 DEF HostHolds
      <3>2. CASE l # run.layer
        BY <3>2, <1>3, <1>8 DEF HostHolds
      <3> QED
        BY <3>1, <3>2
    <2> QED
      BY <2>1, <1>3 DEF HostHolds
  <1>12. DeviceHolds(rows, dkv)
    <2>1. \A l \in Layers : Len(rows[l]) = Len(right[l])
      BY <1>7 DEF Grown
    <2> QED
      BY <2>1, <1>5 DEF DeviceHolds, OnGPU
  <1>13. /\ dev'.kv = dkv /\ dev'.resid = h /\ dev'.ngl = dev.ngl /\ dev'.active = dev.active
         /\ ~decode'.stale /\ decode'.residDevice = decode.residDevice
         /\ decode'.residency = decode.residency
    BY <1>1, <1>3, <1>10 DEF DevOK, DecodeOK
  <1>14. Current' /\ run'.pc # "failed"
    BY <1>2, <1>6, <1>10, <1>13, LayerDone
  <1> QED
    BY <1>2, <1>10, <1>11, <1>12, <1>13, <1>14, PassHolds

\* QKV fails: what recovery rewrites comes from a mirror without hollow slots.
LEMMA ToHostAnswers ==
  ASSUME IInv, ReliableKV, Resident, Holding, DeviceBlockToHost
  PROVE  Resident' /\ Holding'
  <1>1. KVOK /\ DevOK /\ DecodeOK /\ RunOK
    BY TypeParts DEF IInv
  <1>2. run.pc = "block" /\ decode.residDevice /\ ~decode.hollow /\ kv' = kv
    BY DEF DeviceBlockToHost
  <1>3. PICK m \in AfterQKVFailure : RecoverHidden(m)
    BY DEF DeviceBlockToHost
  <1>4. /\ HostHolds(kv.rows) /\ DeviceHolds(kv.rows, dev.kv) /\ ~decode.stale
        /\ dev.active => dev.resid = Hidden(Pos, run.layer)
    BY <1>2 DEF Holding, Current
  <1>5. ~m.stale /\ DeviceHolds(kv.rows, m.kv)
    <2>1. CASE m = [kv |-> dev.kv, stale |-> decode.stale]
      BY <2>1, <1>4
    <2>2. CASE m \in Recovery(kv.rows)
      <3>1. PICK j \in 0..NumLayers :
              /\ m = [kv |-> Rewritten(kv.rows, j), stale |-> j < NumLayers]
              /\ j < NumLayers =>
                   j \in OnGPU /\ (Fault("append") \/ ~Fits(kv.rows, j))
        BY <2>2, <1>2 DEF Recovery
      <3>2. ~Fault("append") /\ \A l \in OnGPU : Fits(kv.rows, l)
        BY <1>1 DEF ReliableKV, Fault, Fits, KVOK, OnGPU
      <3>3. ~(j < NumLayers) /\ j = NumLayers
        <4>1. ~(j < NumLayers)
          BY <3>1, <3>2
        <4> QED
          BY <4>1, SizesAssumption
      <3>4. ASSUME NEW l \in OnGPU
            PROVE  0..Len(kv.rows[l])-1 \subseteq m.kv[l]
        <4>1. l \in Layers /\ l < j
          BY <3>3, SizesAssumption DEF OnGPU, Layers
        <4>2. \A i \in 1..Len(kv.rows[l]) : kv.rows[l][i] # "hollow"
          BY <4>1, <1>2 DEF IInv, HollowAnnounced
        <4>3. \A i \in 1..Len(kv.rows[l]) : kv.rows[l][i] = "right"
          BY <4>1, <4>2, <1>4 DEF HostHolds
        <4>4. \A i \in 0..Len(kv.rows[l])-1 : i + 1 \in 1..Len(kv.rows[l])
          <5>1. Len(kv.rows[l]) \in Nat
            BY <1>1, <4>1 DEF KVOK
          <5> HIDE DEF KVOK
          <5> QED
            BY <5>1
        <4>5. 0..Len(kv.rows[l])-1 \subseteq HostRight(kv.rows, l)
          BY <4>3, <4>4 DEF HostRight
        <4>6. HostRight(kv.rows, l) \subseteq Rewritten(kv.rows, j)[l]
          BY <4>1 DEF Rewritten
        <4> QED
          BY <4>5, <4>6, <3>1
      <3>5. ~m.stale
        BY <3>1, <3>3
      <3> QED
        BY <3>4, <3>5 DEF DeviceHolds
    <2> QED
      BY <1>3, <2>1, <2>2 DEF AfterQKVFailure
  <1>6. /\ dev'.kv = m.kv /\ dev'.ngl = dev.ngl /\ decode'.stale = m.stale
        /\ ~decode'.residDevice /\ ~decode'.residency
    BY <1>1, <1>3 DEF RecoverHidden, DevOK, DecodeOK
  <1>7. OnGPU' = OnGPU
    BY <1>6 DEF OnGPU
  <1>8. Resident'
    BY <1>6 DEF Resident
  <1>9. ASSUME run'.pc # "failed"
        PROVE  Current'
    <2>1. dev.active /\ run' = [run EXCEPT !.pc = "host", !.x = dev.resid]
      BY <1>1, <1>3, <1>9 DEF RecoverHidden, RunOK
    <2>2. /\ run'.pc = "host" /\ run'.layer = run.layer /\ run'.batch = run.batch
          /\ run'.x = dev.resid
      BY <1>1, <2>1 DEF RunOK
    <2>3. Pos' = Pos
      BY <1>2, <2>2 DEF Pos
    <2> QED
      BY <1>4, <1>6, <2>1, <2>2, <2>3 DEF Current, InHostBlock
  <1>10. HostHolds(kv.rows)' /\ DeviceHolds(kv.rows, dev.kv)'
    BY <1>2, <1>4, <1>5, <1>6, <1>7 DEF HostHolds, DeviceHolds
  <1> QED
    BY <1>5, <1>6, <1>8, <1>9, <1>10 DEF Holding

\* A layer computed by the host, over the fused device path or without it.
LEMMA HostBlockAnswers ==
  ASSUME IInv, ReliableKV, Resident, Holding, HostBlock \/ HostBlockFused
  PROVE  Resident' /\ Holding'
  <1> DEFINE rows == AppendRows(run.layer, run.x, run.batch)
             h == Hidden(Pos, run.layer + 1)
  <1>1. DevOK /\ DecodeOK
    BY TypeParts DEF IInv
  <1>2. run.pc \in {"block", "host"} /\ run.batch = 1 /\ InHostBlock
    BY DEF HostBlock, HostBlockFused, InHostBlock, IInv, Places
  <1>3. /\ HostHolds(kv.rows) /\ DeviceHolds(kv.rows, dev.kv) /\ ~decode.stale
        /\ run.x = Hidden(Pos, run.layer) /\ ~decode.residDevice
    BY <1>2 DEF Holding, Current, InHostBlock
  <1>4. kv.length..Pos = {Pos}
    BY <1>2, PassSlots
  <1>5. \E m, attended : /\ HostLayer(rows, m, attended) /\ attended = TRUE
                         /\ ~m.stale /\ HostHolds(rows) /\ DeviceHolds(rows, m.kv)
    <2>1. CASE HostBlock
      <3>1. PICK m \in Mirror(rows, run.layer, run.x, kv.length..Pos) :
              \E attended \in Attentions(m, rows, run.layer) : HostLayer(rows, m, attended)
        BY <1>2, <1>4, <2>1 DEF HostBlock
      <3>2. PICK attended \in Attentions(m, rows, run.layer) : HostLayer(rows, m, attended)
        BY <3>1
      <3>3. /\ ~m.stale /\ HostHolds(rows) /\ DeviceHolds(rows, m.kv) /\ attended
        BY <1>2, <1>3, MirrorHolds
      <3>4. attended = TRUE
        BY <3>3, AttentionsType
      <3> HIDE DEF rows
      <3> QED
        BY <3>2, <3>3, <3>4
    <2>2. CASE HostBlockFused
      <3> DEFINE dkv == DeviceWrite(run.layer, run.x, kv.length..Pos)
                 m == [kv |-> dkv, stale |-> FALSE]
      <3>1. HostLayer(rows, m, DeviceAttends(m.kv, run.layer, Pos)) /\ run.layer \in OnGPU
        BY <1>2, <1>4, <2>2 DEF HostBlockFused
      <3>2. /\ HostHolds(rows) /\ DeviceHolds(rows, dkv)
            /\ DeviceAttends(dkv, run.layer, Pos)
        BY <1>2, <1>3, <3>1, AppendHolds
      <3>3. DeviceAttends(m.kv, run.layer, Pos) = TRUE
        BY <3>2 DEF DeviceAttends
      <3>4. ~m.stale /\ DeviceHolds(rows, m.kv)
        BY <3>2
      <3> HIDE DEF rows, m
      <3> QED
        BY <3>1, <3>2, <3>3, <3>4
    <2> QED
      BY <2>1, <2>2
  <1>6. PICK m, attended : /\ HostLayer(rows, m, attended) /\ attended = TRUE
                           /\ ~m.stale /\ HostHolds(rows) /\ DeviceHolds(rows, m.kv)
    BY <1>5
  <1>7. Apply(run.x, Pos, run.layer, attended) = h
    BY <1>3, <1>6 DEF Apply
  <1>8. kv' = [rows |-> rows, length |-> Advanced] /\ PassDone(h)
    BY <1>2, <1>6, <1>7 DEF HostLayer, PassDone
  <1>9. /\ dev'.kv = m.kv /\ dev'.ngl = dev.ngl /\ (dev'.active => dev.active)
        /\ ~decode'.stale /\ decode'.residDevice = decode.residDevice
        /\ decode'.residency = decode.residency
    BY <1>1, <1>6 DEF HostLayer, DevOK, DecodeOK
  <1> HIDE DEF rows
  <1>10. Current' /\ run'.pc # "failed"
    BY <1>2, <1>3, <1>8, <1>9, LayerDone
  <1> QED
    BY <1>2, <1>6, <1>8, <1>9, <1>10, PassHolds

\* A chunk attends over what the conversation has.
LEMMA BatchBlockAnswers ==
  ASSUME IInv, ReliableKV, Resident, Holding, BatchBlock
  PROVE  Resident' /\ Holding'
  <1> DEFINE rows == AppendRows(run.layer, run.x, run.batch)
             h == Hidden(Pos, run.layer + 1)
  <1>1. DevOK /\ DecodeOK /\ run.pc = "batch"
    BY TypeParts DEF IInv, BatchBlock
  <1>2. run.x = Hidden(Pos, run.layer)
    BY <1>1 DEF Holding, Current
  <1>3. PICK m \in Mirror(rows, run.layer, run.x, kv.length..Pos) :
          /\ dev' = [dev EXCEPT !.kv = m.kv]
          /\ decode' = [decode EXCEPT !.stale = m.stale]
          /\ \E attended \in Attentions(m, rows, run.layer) :
               run' = AfterBatchLayer(Apply(run.x, Pos, run.layer, attended))
    BY DEF BatchBlock
  <1>4. /\ ~m.stale /\ HostHolds(rows) /\ DeviceHolds(rows, m.kv)
        /\ \A attended \in Attentions(m, rows, run.layer) : attended
    BY <1>1, <1>2, MirrorHolds
  <1>5. kv' = [rows |-> rows, length |-> Advanced]
    BY DEF BatchBlock
  <1> HIDE DEF rows
  <1>6. PassDone(h)
    BY <1>1, <1>2, <1>3, <1>4 DEF PassDone, Apply
  <1>7. /\ dev'.kv = m.kv /\ dev'.ngl = dev.ngl /\ dev'.active = dev.active
        /\ ~decode'.stale /\ decode'.residDevice = decode.residDevice
        /\ decode'.residency = decode.residency
    BY <1>1, <1>3, <1>4 DEF DevOK, DecodeOK
  <1>8. Current' /\ run'.pc # "failed"
    BY <1>1, <1>5, <1>6, <1>7, LayerDone
  <1> QED
    BY <1>1, <1>4, <1>5, <1>7, <1>8, PassHolds

\* A prompt goes on, and falls back token by token.
LEMMA PrefillAnswers ==
  ASSUME IInv, Resident, Holding,
         Chunk \/ ChunkFails \/ BatchLogitsResident \/ BatchLogitsHost
  PROVE  Resident' /\ Holding'
  <1>1. KVOK /\ DevOK /\ DecodeOK /\ RunOK
    BY TypeParts DEF IInv
  <1>2. /\ kv' = kv /\ dev'.kv = dev.kv /\ dev'.ngl = dev.ngl
        /\ decode'.stale = decode.stale /\ run.pc \in {"chunk", "batchLogits"}
    BY <1>1 DEF Chunk, ChunkFails, BatchLogitsResident, BatchLogitsHost, DevOK, DecodeOK
  <1>3. OnGPU' = OnGPU
    BY <1>2 DEF OnGPU
  <1>4. /\ decode'.residency => decode.residency
        /\ decode'.residDevice => decode'.residency
    BY <1>1 DEF Chunk, ChunkFails, BatchLogitsResident, BatchLogitsHost, DecodeOK
  <1>5. Resident'
    BY <1>3, <1>4 DEF Resident
  <1>6. CASE Chunk
    <2>1. /\ run'.pc = "batch" /\ run'.layer = 0 /\ run'.batch = ChunkSize
          /\ run'.x = Hidden(kv.length + ChunkSize - 1, 0)
      BY <1>1, <1>6 DEF Chunk, RunOK
    <2>2. Current'
      BY <1>2, <2>1 DEF Current, InHostBlock, Pos
    <2> QED
      BY <1>2, <1>5, <2>2, StillHolds
  <1>7. CASE ChunkFails
    <2>1. run'.pc = "failed"
      BY <1>1, <1>7 DEF ChunkFails, RunOK
    <2> QED
      BY <1>5, <2>1 DEF Holding
  <1>8. CASE BatchLogitsResident \/ BatchLogitsHost
    <2>1. run.pc = "batchLogits" /\ run'.pc = "idle" /\ run'.logits = run.x
      BY <1>1, <1>8 DEF BatchLogitsResident, BatchLogitsHost, Finish, RunOK
    <2>2. run.x = Last
      BY <2>1 DEF Holding, Current
    <2>3. Current'
      BY <1>2, <2>1, <2>2 DEF Current, InHostBlock, Last
    <2> QED
      BY <1>2, <1>5, <2>1, <2>3, StillHolds
  <1> QED
    BY <1>6, <1>7, <1>8

\* The logits are those of the last token.
LEMMA LogitsAnswers ==
  ASSUME IInv, Resident, Holding, Logits
  PROVE  Resident' /\ Holding'
  <1>1. KVOK /\ DevOK /\ DecodeOK /\ RunOK
    BY TypeParts DEF IInv
  <1>2. run.pc = "logits" /\ kv' = kv
    BY DEF Logits, LogitsDevice, LogitsHost, EmbedResult
  <1>3. /\ (decode.residDevice /\ dev.active) => dev.resid = Last
        /\ ~decode.residDevice => run.x = Last
    BY <1>2 DEF Holding, Current
  <1>4. CASE LogitsDevice
    <2>1. dev' = dev /\ decode' = decode
      BY <1>4 DEF LogitsDevice
    <2>2. run'.pc = "idle" /\ run'.logits = Last
      BY <1>1, <1>3, <1>4 DEF LogitsDevice, Finish, RunOK
    <2>3. Current'
      BY <1>2, <2>2 DEF Current, InHostBlock, Last
    <2>4. Resident'
      BY <1>2, <2>1, <2>2 DEF Resident, OnGPU
    <2> QED
      BY <1>2, <2>1, <2>3, <2>4, StillHolds
  <1>5. CASE LogitsHost \/ EmbedResult
    <2>1. PICK returned \in BOOLEAN : HiddenToHost(returned)
      BY <1>1, <1>5 DEF LogitsHost, EmbedResult, DecodeOK
    <2>2. /\ dev'.kv = dev.kv /\ dev'.ngl = dev.ngl /\ decode'.stale = decode.stale
          /\ ~decode'.residDevice /\ decode'.residency = decode.residency
      BY <1>1, <2>1 DEF HiddenToHost, DevOK, DecodeOK
    <2>3. run'.pc = "failed" \/ (run'.pc = "idle" /\ run'.logits = Last)
      BY <1>1, <1>3, <2>1 DEF HiddenToHost, Finish, RunOK
    <2>4. run'.pc # "failed" => Current'
      BY <1>2, <2>3 DEF Current, InHostBlock, Last
    <2>5. Resident'
      BY <2>2 DEF Resident, OnGPU
    <2> QED
      BY <1>2, <2>2, <2>4, <2>5, StillHolds
  <1> QED
    BY <1>4, <1>5 DEF Logits

\* Every step keeps the answer right while the KV is reliable.
LEMMA NextAnswers ==
  ASSUME IInv, ReliableKV, Resident, Holding, [Next]_vars
  PROVE  Resident' /\ Holding'
  <1>1. DevOK /\ RunOK
    BY TypeParts DEF IInv
  <1>2. CASE (\E n \in 1..CtxLen : Forward(n) \/ Embed(n)) \/ ResetCache
    <2>1. 1 \in 1..CtxLen
      BY SizesAssumption
    <2>2. PICK n \in 1..CtxLen : Forward(n) \/ Embed(n) \/ ResetCache
      BY <1>2, <2>1
    <2> QED
      BY <2>2, CallAnswers
  <1>3. CASE DeviceFFNFails \/ DeviceBlockFails
    <2>1. run'.pc = "failed"
      BY <1>1, <1>3 DEF DeviceFFNFails, DeviceBlockFails, ResetAndFail, RunOK
    <2> QED
      BY <1>3, <2>1, ResetAnswers DEF DeviceFFNFails, DeviceBlockFails, ResetAndFail
  <1>4. CASE HostBlockFails
    <2>1. run'.pc = "failed" /\ dev' = dev /\ decode' = decode
      BY <1>1, <1>4 DEF HostBlockFails, RunOK
    <2> QED
      BY <2>1 DEF Resident, Holding, OnGPU
  <1>5. CASE UNCHANGED vars
    BY <1>5 DEF vars, Resident, Holding, HostHolds, DeviceHolds, OnGPU, Current,
                InHostBlock, Pos, Last
  <1> QED
    BY <1>2, <1>3, <1>4, <1>5, TokenAnswers, DeviceBlockAnswers, ToHostAnswers,
       HostBlockAnswers, BatchBlockAnswers, PrefillAnswers, LogitsAnswers
    DEF Next, Block, Prefill

\* If the device KV has room for the context and neither loses an append nor
\* fails an attention, a call that returns without an error returns the hidden
\* state (and so the logits) of its last position: with every gather, upload,
\* download, fused QKV, WO and FFN, matrix product and logits that may fail, for
\* every -ngl, and whatever calls, chunks and resets came before.
THEOREM AnswersAreRight == Spec => []AnswerRight
  <1>1. Init => AnswerInv
    <2> SUFFICES ASSUME Init
                 PROVE  Resident /\ Holding
      BY DEF AnswerInv
    <2>1. /\ kv.length = 0 /\ \A l \in Layers : kv.rows[l] = << >> /\ Len(kv.rows[l]) = 0
      BY DEF Init
    <2>2. run.pc = "idle" /\ ~decode.stale /\ ~decode.residDevice
      BY DEF Init
    <2>3. decode.residency => OnGPU = Layers
      <3>1. dev.ngl \in Nat /\ (decode.residency => dev.ngl >= NumLayers)
        BY NGLAssumption DEF Init
      <3> QED
        BY <3>1, SizesAssumption DEF OnGPU, Layers
    <2>4. HostHolds(kv.rows) /\ DeviceHolds(kv.rows, dev.kv)
      BY <2>1 DEF HostHolds, DeviceHolds, OnGPU
    <2>5. Current
      BY <2>1, <2>2 DEF Current, InHostBlock
    <2> QED
      BY <2>2, <2>3, <2>4, <2>5 DEF Resident, Holding
  <1>2. IInv /\ AnswerInv /\ [Next]_vars => AnswerInv'
    <2> SUFFICES ASSUME IInv, AnswerInv, [Next]_vars
                 PROVE  AnswerInv'
      OBVIOUS
    <2>1. ReliableKV' => ReliableKV
      BY DeviceFixed DEF ReliableKV
    <2> QED
      BY <2>1, NextAnswers DEF AnswerInv
  <1>3. AnswerInv => AnswerRight
    BY DEF AnswerInv, AnswerRight, Holding, Current, Last
  <1> QED
    BY <1>1, <1>2, <1>3, InvariantHolds, PTL DEF Spec
=============================================================================
